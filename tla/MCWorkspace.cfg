\* Two tabs on one task: no block, correction or change of the settings is lost.
CONSTANTS
    t1 = t1  t2 = t2
    x = x  y = y
    f = f  g = g
    Tab = {t1, t2}
    Text = {x, y}
    Conf = {f, g}
    Blocks = 2
    None = None
    Clean = Clean
    MaxRevision = 5
    MaxClears = 0
    MaxImports = 0
    MaxFaults = 1
SYMMETRY Symmetry
SPECIFICATION Spec
CHECK_DEADLOCK FALSE
INVARIANTS SameRevision
PROPERTIES ImplementsStore
