\* Tasks of some age that are created, translated, edited, deleted, backed up and
\* imported, some of them damaged.
CONSTANTS
    a = a  b = b  x = x
    Source = {a, b}
    Target = {x}
    Blank = Blank
    Size <- Sizes
    Budget = 3
    MaxReply = 2
    Limit = 2
    Seeds <- SomeSeeds
    MaxTerms = 2
    MaxDrafts = 1
    MaxMade = 4
    MaxSteps = 4
SPECIFICATION Spec
CHECK_DEADLOCK FALSE
INVARIANTS NothingLost BackupComplete LearnStorable SentFirst
PROPERTIES ReadsBack
