SPECIFICATION Spec
CONSTANTS
    Workers = {w1, w2}
    NumJobs = 1
    MaxAttempts = 2
    MAX_COMPLETION_ATTEMPTS = 2
    StatusCheck = {TRUE}
    Stalls = TRUE
    MayMove = FALSE
    MaxCrashes = 0
INVARIANTS
    OwnedCheckNotCancelled
CHECK_DEADLOCK FALSE
