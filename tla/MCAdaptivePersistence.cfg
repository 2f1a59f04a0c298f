CONSTANTS
    Procs = {p1, p2}
    NoFile = NoFile
    Corrupt = Corrupt
    MaxSequence = 2
    MaximumSnapshots = 1
    SnapshotEveryEvents = 1
    MaxTroubles = 1
SPECIFICATION Spec
INVARIANTS SnapshotsAnchored HydrateIsReplay CommitsWhatItChecked RunningSaveKeepsTemp
PROPERTIES NewestSnapshotKept CommitsAreDurable
SYMMETRY Symmetry
