SPECIFICATION FairSpec
CONSTANTS
    Workers = {w1, w2}
    NumJobs = 1
    MaxAttempts = 2
    MAX_COMPLETION_ATTEMPTS = 2
    StatusCheck = {TRUE}
    Stalls = FALSE
    MayMove = TRUE
    MaxCrashes = 1
INVARIANTS
    RecordedAsShown
    PostedOnce
    CheckFollowsReview
PROPERTIES
    HungCheckResolved
CHECK_DEADLOCK FALSE
