CONSTANTS
    Reqs     = {r1, r2}
    Never    = Never
    TTL      = 2
    MaxTime  = 4
    PoolSize = 1
SPECIFICATION FairSpec
INVARIANT TypeOK
PROPERTIES
    CreditForRefresh
    RedundantUpdateOverlaps
    EveryRequestSettles
