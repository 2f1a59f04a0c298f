SPECIFICATION Spec
CONSTANTS
    h1 = h1
    h2 = h2
    m1 = m1
    m2 = m2
    m3 = m3
    edge = edge
    claim = claim
    NoHabit = NoHabit
    NoModel = NoModel
    NoView = NoView
    NoFocus = NoFocus
    NoDominant = NoDominant
    NoProject = NoProject
    Habits <- MCHabits
    InitialHabits <- MCInitialHabits
    InitialModels <- MCInitialModels
    InitialDominant = m1
    InitialBackbone <- MCInitialBackbone
    MaxStoredTrajectories = 3
    BiasWindow = 2
    SuccessesForSupport = 1
    SuccessesForValidation = 2
    MaxActiveFocuses = 2
    MaxBackgroundFocuses = 1
    MinimumRoleCoverage <- MCMinimumRoleCoverage
    MaxActiveViews = 2
    MaxDeferredViews = 1
    ActiveTruths = {"truth"}
    MaxDominanceSwitches = 3
    Cycles <- MCCycles
    Completions <- MCCompletions
    SatisfiedSets <- MCSatisfiedSets
    MaxCalls = 4
INVARIANTS
    DominanceIsMeaningful
CHECK_DEADLOCK FALSE
