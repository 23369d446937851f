SPECIFICATION FairSpec
CONSTANTS
    r1 = r1
    r2 = r2
    r3 = r3
    alice = alice
    bob = bob
    Reqs = {r1, r2, r3}
    Visitors = {alice, bob}
    Origins <- MCOrigins
    MaxTime = 1
INVARIANTS
    TypeOK
    BurstBounded
    FailedWorkIsGone
    NoTransactionLeft
PROPERTY EveryRequestAnswered
CHECK_DEADLOCK FALSE
