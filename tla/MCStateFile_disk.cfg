SPECIFICATION FairSpec
CONSTANTS
    MaxChanges = 3
    MaxInstances = 2
    MaxJobs = 2
    Worlds <- MCWorlds
INVARIANTS TypeOK RecoverableUnhurt OneFaultSafe CleanIsWritten StraysStayOut
PROPERTY Persisted
CHECK_DEADLOCK FALSE
