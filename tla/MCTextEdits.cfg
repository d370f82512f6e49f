\* Typing, autosave, compositions and other tabs; input comes to rest.
CONSTANTS
    a = a  aSpace = aSpace  b = b  empty = empty
    Input = {a, aSpace, b, empty}
    Norm <- Trimmed
    None = None
    MaxKeys = 4
    MaxOthers = 2
    Faults = TRUE
SPECIFICATION FairSpec
CHECK_DEADLOCK FALSE
INVARIANTS InputOnItsWay LastInputStored
PROPERTIES DraftKept KnownReplaced InputSettles
