SPECIFICATION LiveSpec
CONSTANTS
    c1 = c1
    c2 = c2
    Change = {c1, c2}
    Question = {}
    Outcome = {"busy", "upload"}
    WriteFails = FALSE
    MaxConnects = 2
    MaxCrashes = 1
    MaxIds = 2
    QueueFailuresMax = 2
    DrainPassesMax = 1
PROPERTIES DeliveredUnhurt GateReopens InOrder
CHECK_DEADLOCK FALSE
