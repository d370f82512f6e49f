\* An unsaved copy that outlives the workspace it belongs to.
CONSTANTS
    t1 = t1  t2 = t2
    x = x  y = y
    f = f  g = g
    Tab = {t1, t2}
    Text = {x}
    Conf = {f, g}
    Blocks = 1
    None = None
    Clean = Clean
    MaxRevision = 5
    MaxClears = 1
    MaxImports = 1
    MaxFaults = 2
SYMMETRY Symmetry
SPECIFICATION QuietSpec
CHECK_DEADLOCK FALSE
PROPERTIES OnlyFixed
