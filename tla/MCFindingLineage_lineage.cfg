\* Three reviews of one pull request with two findings that are alike.
CONSTANTS
    Fingerprints = {1, 2}
    Similar <- MCSimilar
    PathOf <- MCPathOf
    InlineRuns = {1, 2, 3}
    NumRuns = 3
    MaxAttempts = 2
    MaxFaults = 2
SPECIFICATION Spec
INVARIANTS
    RecordedAsClassified
    ThreadsKept
PROPERTIES
    PublishedStays
CHECK_DEADLOCK FALSE
