SPECIFICATION Spec
CONSTANTS
    PullRequests = {p1}
    Branches = {}
    Bases = {c0}
    Heads = {c1, c2}
    Actions = {"synchronize", "closed", "manual"}
    Titles = {t1}
    Deliveries = {d1, d2, d3}
    Workers = {w1}
    Switches = {"enabled", "auto_review"}
    MaxTime = 2
    EventTimes = {1, 2}
    MaxAttempts = 1
    LeaseSeconds = 1
    BaseDelay = 1
    MaxDelay = 2
    Debounce = 1
SYMMETRY Symmetry
INVARIANTS
    OneJobPerRequest
PROPERTIES
    SettledIsFinal
    PushNeverPostpones
CHECK_DEADLOCK FALSE
