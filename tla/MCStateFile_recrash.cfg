SPECIFICATION Spec
CONSTANTS
    MaxChanges = 3
    MaxInstances = 2
    MaxJobs = 2
    Worlds <- MCCrash
INVARIANT Recoverable
CHECK_DEADLOCK FALSE
