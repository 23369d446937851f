SPECIFICATION FairSpec
CONSTANTS
    Callers = {c1, c2}
    Queues = {"mail", "dead"}
    UseSets <- MCUseSets
    MaxDials = 6
    DialBound <- MCDialBound
    MaxFaults = 2
    MaxFailures = 11
INVARIANTS
    NilMeansWritten
    LeaksExplained
    FaultsBounded
PROPERTY Recovers
CHECK_DEADLOCK FALSE
