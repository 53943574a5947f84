\* Two workers that share a mirror and a build by hand; two pushes, a crash.
CONSTANTS
    c1 = c1
    c2 = c2
    Builders = {w1, w2, h}
    Shared = {w1, w2}
    Commits = {c1, c2}
    Paths <- MCPaths
    Tree <- MCTree
    MaxPushes = 2
    MaxSnapshots = 3
    MaxAttempts = 1
    MaxCrashes = 1
    MAX_RELATED_REPOSITORIES = 2
    MAX_RETRIEVAL_CANDIDATES = 3
SPECIFICATION Spec
SYMMETRY Symmetry
INVARIANTS
    MirrorGuarded
    ActiveIsExact
    PolicyHolds
PROPERTIES
    HistoryAdvances
CHECK_DEADLOCK FALSE
