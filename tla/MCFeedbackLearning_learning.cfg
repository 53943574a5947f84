\* A reaction and a reply, one rule, two operators whose screens may be out of date.
CONSTANTS
    Reactions = {"r1"}
    Replies = {"c1"}
    Candidates = {"rule"}
    Moderators = {m1, m2}
    MinimumEvidence = 1
    MaxAttempts = 2
    MaxSyncs = 2
    MaxGenerations = 2
    MaxVersion = 2
    MaxFaults = 2
SPECIFICATION Spec
SYMMETRY Symmetry

    
PROPERTIES
    RejectedStays
CHECK_DEADLOCK FALSE
