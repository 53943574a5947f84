SPECIFICATION Spec
CONSTANTS
    i1 = i1
    i2 = i2
    i3 = i3
    u1 = u1
    u2 = u2
    Sessions = {s1}
    Installations = {i1, i2, i3}
    Users = {u1, u2}
    Owned <- OverlappingOwners
    Handlers = {h1, h2}
    MaxStates = 2
    MaxTokens = 2
SYMMETRY Symmetry
INVARIANTS
    TypeOK
    BoundWithConsent
    ShownOnce
    LiveTokenReachable
PROPERTIES
    EndedSessionStays
CHECK_DEADLOCK FALSE
