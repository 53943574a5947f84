SPECIFICATION FairSpec
CONSTANTS
    Deliveries = {d1, d2}
    Poison = {}
    Servers = {s1}
    Limit = 1
    MaxSends = 3
    MaxBindings = 2
    MaxFaults = 1
CHECK_DEADLOCK FALSE
PROPERTIES EventuallyDelivered
