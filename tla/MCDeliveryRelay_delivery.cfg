SPECIFICATION Spec
CONSTANTS
    Deliveries = {d1, d2}
    Poison = {d2}
    Servers = {s1, s2}
    Limit = 2
    MaxSends = 3
    MaxBindings = 2
    MaxFaults = 1
SYMMETRY Symmetry
CHECK_DEADLOCK FALSE
INVARIANTS TypeOK
PROPERTIES OnlyIngestedLeaves DeadTokenStaysDead
