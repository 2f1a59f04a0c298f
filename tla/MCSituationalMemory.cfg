CONSTANTS
    Reasons = {q1, q2}
    Relevances = {200}
    Unspecified = Unspecified
    MaxNonDormantFrames = 1
    MaxFrames = 3
    MaxSteps = 5
SPECIFICATION Spec
INVARIANTS TypeOK PinnedKeepsTrace OneDominant EveryContextReachable ResolvedThroughEveryPhase ArchivedAfterClosing
PROPERTIES SignalsKeepBudget
SYMMETRY Symmetry
CHECK_DEADLOCK FALSE
