\* Four callers, two slots, one cancellation, under fairness.
CONSTANTS
    Callers = {k1,k2,k3,k4}
    Limit = 2
    TTL = 2
    MaxAborts = 1
SPECIFICATION FairSpec
INVARIANT TypeOK
INVARIANT WindowLimit
INVARIANT OrphanOnlyByCut
PROPERTY SlotsKeepComing
