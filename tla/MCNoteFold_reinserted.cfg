SPECIFICATION NoteSpec
CONSTANTS
    First = f
    Mine = {m}
    Theirs = {t}
    NoText = none
    SamePlace = TRUE
    MaxSaves = 1
    MaxTheirs = 1
    MaxFailures = 1
    FoldAttempts = 2
INVARIANT NotReinserted
CHECK_DEADLOCK FALSE
