\* Two workers and two jobs for one revision; leases run out under live workers.
SPECIFICATION Spec
CONSTANTS
    Workers = {w1, w2}
    NumJobs = 2
    MaxAttempts = 1
    MAX_COMPLETION_ATTEMPTS = 2
    StatusCheck = {TRUE}
    Stalls = TRUE
    MayMove = TRUE
    MaxCrashes = 1
SYMMETRY Symmetry
INVARIANTS
    SupersededRightly
    VerdictNeedsReview
    ConcludedRightly
PROPERTIES
    InFlightRunKept
CHECK_DEADLOCK FALSE
