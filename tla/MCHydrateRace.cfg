CONSTANTS
    Procs = {p1, p2}
    NoFile = NoFile
    Corrupt = Corrupt
    MaxSequence = 2
    MaximumSnapshots = 1
    SnapshotEveryEvents = 1
    MaxTroubles = 0
SPECIFICATION Spec
INVARIANT HealthyStreamHydrates
