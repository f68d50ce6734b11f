SPECIFICATION Spec
CONSTANTS
    MaxChanges = 3
    MaxInstances = 2
    MaxJobs = 2
    Worlds <- MCOverlap
INVARIANT Remembered
CHECK_DEADLOCK FALSE
