CONSTANTS
    Writers = {w1, w2, w3}
    Recoverers = {r1, r2}
    NoFile = NoFile
    MaxCalls = 1
    MaxWaits = 0
    MaxFaults = 0
SPECIFICATION LockSpec
INVARIANT MutualExclusion
CHECK_DEADLOCK FALSE
