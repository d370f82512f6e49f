\* Deleted, cleared, imported and failed saves: what a tab could not save stays.
CONSTANTS
    t1 = t1  t2 = t2
    x = x  y = y
    f = f  g = g
    Tab = {t1, t2}
    Text = {x}
    Conf = {f}
    Blocks = 1
    None = None
    Clean = Clean
    MaxRevision = 3
    MaxClears = 1
    MaxImports = 1
    MaxFaults = 2
SYMMETRY Symmetry
SPECIFICATION Spec
CHECK_DEADLOCK FALSE
INVARIANTS NeverAhead
PROPERTIES UnsavedKept
