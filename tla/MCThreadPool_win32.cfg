SPECIFICATION Spec
CONSTANTS
    tails = tails
    heads = heads
    single = single
    a = a
    b = b
    c = c
    d = d
    e = e
    Threads = {t1}
    Producers = {single}
    Batch <- OneCall
    AtHead = {}
    Endless = {}
    Platform = "win32"
    Nobody = Nobody
CHECK_DEADLOCK FALSE
INVARIANT ExitedBeforeDelete
