SPECIFICATION FairSpec
CONSTANTS
    tails = tails
    heads = heads
    single = single
    a = a
    b = b
    c = c
    d = d
    e = e
    Threads = {t1, t2, t3}
    Producers = {tails, heads}
    Batch <- TwoCalls
    AtHead = {heads}
    Endless = {c}
    Platform = "posix"
    Nobody = Nobody
CHECK_DEADLOCK FALSE
INVARIANTS
    TypeOK
    LockOwnership
    Accounted
    NeverPopsEmpty
    NoLostWakeup
    CallOrder
    ExitedBeforeDelete
PROPERTIES
    EveryServiceStarts
    DestroyReturns
