SPECIFICATION NoteFairSpec
CONSTANTS
    First = f
    Mine = {m}
    Theirs = {t}
    NoText = none
    SamePlace = TRUE
    MaxSaves = 1
    MaxTheirs = 1
    MaxFailures = 1
    FoldAttempts = 2
INVARIANTS NoteTypeOK NothingTypedLost KeepsTheirs NotDoubled
PROPERTIES Converges
CHECK_DEADLOCK FALSE
