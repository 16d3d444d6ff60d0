SPECIFICATION FairSpec
CONSTANTS
    Requests = {r1, r2}
    Waiters  = {w1, w2}
INVARIANTS
    TypeOK
    TimersMatchWaits
PROPERTIES
    HealthyWasPinged
    TrueMeansConnected
    EveryCallEnds
