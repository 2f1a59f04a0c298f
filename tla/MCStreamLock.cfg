CONSTANTS
    Writers = {w1, w2}
    Recoverers = {r1}
    NoFile = NoFile
    MaxCalls = 2
    MaxWaits = 1
    MaxFaults = 1
SPECIFICATION FairLockSpec
INVARIANTS TypeOK MutualExclusion HolderKeepsLock NoLeakWithoutFault
PROPERTIES ImplementsMutex CallsReturn
CHECK_DEADLOCK FALSE
