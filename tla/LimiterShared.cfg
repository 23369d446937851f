SPECIFICATION Spec
CONSTANTS
    Callers = {c1, c2}
    Rules <- MCRules
    TTL = 2
    RedisCanFail = TRUE
    MaxTime = 5
    MaxAdmitted = 6
INVARIANTS
    TypeOK
    WindowRespected
    RefusalsEarned
    LockoutEnds
    ResetTakesEffect
    OverAdmissionBounded
CHECK_DEADLOCK FALSE
