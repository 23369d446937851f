SPECIFICATION FairSpec
CONSTANTS
    root = root
    u1 = u1
    u2 = u2
    u3 = u3
    Users = {root, u1, u2, u3}
    Founder = root
    Times = {1, 2, 3}
    Beginnings <- MCBeginnings
    Writers = {w1, w2}
    Queries <- MCQueries
    MaxLimit = 3
    DefaultLimit = 2
    HalfRange = 16
    MaxWrites = 2
INVARIANTS
    TypeOK
    PageMatchesTotal
    NothingMissed
    NothingRepeated
PROPERTY WalksEnd
CHECK_DEADLOCK FALSE
