SPECIFICATION Spec
CONSTANTS
    c1 = c1
    c2 = c2
    c3 = c3
    Change = {c1, c2}
    Question = {c2}
    Outcome = {"busy", "retry", "upload", "gone", "moot"}
    WriteFails = TRUE
    MaxConnects = 2
    MaxCrashes = 1
    MaxIds = 2
    QueueFailuresMax = 2
    DrainPassesMax = 2
INVARIANTS AtMostOnce WriteAhead NoVoidedAnswer
PROPERTY QueueSpec
CHECK_DEADLOCK FALSE
