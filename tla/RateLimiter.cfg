SPECIFICATION Spec
CONSTANTS
    Limits <- MCLimits
    IdleLimit = 3
    MaxWait = 1
    MaxWaiting = 2
    MaxTime = 6
    RedisFails = TRUE
INVARIANTS BucketKeepsRate WindowKeepsBurst RefusalIsDue
CHECK_DEADLOCK FALSE
