SPECIFICATION Spec
CONSTANTS
    PullRequests = {p1}
    Branches = {b1}
    Bases = {c0}
    Heads = {c1, c2}
    Actions = {"synchronize"}
    Titles = {t1}
    Deliveries = {d1, d2}
    Workers = {w1, w2}
    Switches = {}
    MaxTime = 4
    EventTimes = {1, 2}
    MaxAttempts = 2
    LeaseSeconds = 1
    BaseDelay = 1
    MaxDelay = 2
    Debounce = 1
SYMMETRY Symmetry
INVARIANTS
    TypeOK
    OneRunnerPerScope
    StartedInOrder
PROPERTIES
    ImplementsScopedQueue
    SettledIsFinal
CHECK_DEADLOCK FALSE
