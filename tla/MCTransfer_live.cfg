SPECIFICATION FairSpec
CONSTANTS
    s1 = s1
    s2 = s2
    s3 = s3
    n1 = n1
    n2 = n2
    NoSession = NoSession
    NoWorker = NoWorker
    NoName = NoName
    Workers = {w1, w2}
    Sessions = {s1, s2, s3}
    Names = {n1, n2}
    Existing = {}
    HdrLen = 1
    NameLen <- OneByte
    ShortName <- ShortNames
    DataLen <- LiveDataLen
    Prev <- OneProcess
    Faulty = {s3}
    Faults = {"quit", "vanish", "break"}
    BufSize = 8
    Chunk = 2
    SpinCap = 0
CHECK_DEADLOCK FALSE
PROPERTIES
    OthersAreServed
    DrainsAfterBreak
