\* One tab alone: does it blame another one?
CONSTANTS
    t1 = t1  t2 = t2
    x = x  y = y
    f = f  g = g
    Tab = {t1}
    Text = {x, y}
    Conf = {f}
    Blocks = 2
    None = None
    Clean = Clean
    MaxRevision = 6
    MaxClears = 0
    MaxImports = 0
    MaxFaults = 1
SYMMETRY Symmetry
SPECIFICATION Spec
CHECK_DEADLOCK FALSE
INVARIANTS OtherTabWrote
