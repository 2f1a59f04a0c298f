SPECIFICATION Spec
CONSTANTS
    atlas = atlas
    b1 = b1
    b2 = b2
    b3 = b3
    f1 = f1
    f2 = f2
    n1 = n1
    n2 = n2
    q = q
    rule = rule
    effect = effect
    s1 = s1
    s2 = s2
    s3 = s3
    h = h
    g = g
    NoProject = NoProject
    NoVision = NoVision
    IdBefore <- MCIdBefore
    Tasks <- MCTasks
    InitialBranches <- MCBranches
    LateBranches <- MCLateBranches
    Start <- MCStart
    Advances <- MCAdvances
    ContradictionPruneThreshold = 820
    MaxStaleContextRevisions = 2
    MaxVisitedNodes = 16
    MaxInjectedItems = 2
    MaxActiveVisions = 2
    MaxDeferredVisions = 1
    MaxBranchesPerVision = 2
    MinimumActiveScore = 200
    DominanceMargin = 80
    MinimumProgress = 20
    MaxRevisitsWithoutProgress = 1
    MaxCalls = 4
INVARIANTS EligibleVisionsCanBacktrack
CHECK_DEADLOCK FALSE
