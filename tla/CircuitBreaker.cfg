SPECIFICATION FairSpec
CONSTANTS
    t1 = t1
    t2 = t2
    Thread = {t1, t2}
    Resetters = {t1, t2}
    FailureThreshold = 2
    Timeout = 1
    HalfOpenRequests = 2
    NoThread = NoThread
INVARIANTS
    NoLostTransition
    TransitionAtomic
PROPERTY Recovers
