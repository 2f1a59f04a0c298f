CONSTANTS
    Writers = {w1, w2}
    Recoverers = {r1, r2}
    NoFile = NoFile
    MaxCalls = 1
    MaxWaits = 0
    MaxFaults = 1
SPECIFICATION LockSpec
PROPERTIES DeletesOnlyRetiredLocks
CHECK_DEADLOCK FALSE
