CONSTANTS
    Writers = {w1, w2}
    Events = {a, b}
    MaxBatch = 2
    Capacity = 3
    Unchecked = Unchecked
    MaxDamages = 1
    MaxPowerLosses = 1
SPECIFICATION Spec
INVARIANTS TypeOK NoStaleCommit FailuresStayTrailing
PROPERTIES ImplementsEventLog OnlyTheMachineLosesEvents
