\* Two workers investigate for one review run, with a lost lease, a newer
\* head and a host restart.
CONSTANTS
    Workers = {w1, w2}
    MaxAttempts = 2
    MaxSessions = 2
    Retained = 1
    MaxRestarts = 1
    MayMove = TRUE
    Callers = {1}
    Errors = {"terminal"}
    MaxCandidates = 3
    MAX_PUBLISHED_FINDINGS = 2
SPECIFICATION Spec
SYMMETRY Symmetry
INVARIANTS
    SlotsHeld
    ReportIsVerified
    LogNamesItsAttempt
    ProtocolHolds
    ReportIsSound
PROPERTIES
    EndsStay
CHECK_DEADLOCK FALSE
