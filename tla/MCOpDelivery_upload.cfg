SPECIFICATION Spec
CONSTANTS
    c1 = c1
    c2 = c2
    c3 = c3
    Change = {c1, c2}
    Question = {}
    Outcome = {"busy", "upload"}
    WriteFails = FALSE
    MaxConnects = 1
    MaxCrashes = 0
    MaxIds = 2
    QueueFailuresMax = 2
    DrainPassesMax = 2
SYMMETRY Symmetry
PROPERTY InOrder
CHECK_DEADLOCK FALSE
