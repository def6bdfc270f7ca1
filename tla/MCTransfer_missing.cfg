SPECIFICATION FairSpec
CONSTANTS
    s1 = s1
    s2 = s2
    s3 = s3
    n1 = n1
    n2 = n2
    NoSession = NoSession
    NoWorker = NoWorker
    NoName = NoName
    Workers = {w1}
    Sessions = {s1}
    Names = {n1, n2}
    Existing = {}
    HdrLen <- MCHdrLen
    NameLen <- MCNameLen
    ShortName <- DistinctNames
    DataLen <- OneByte
    Prev <- OwnProcesses
    Faulty = {s1}
    Faults = {"quit"}
    BufSize = 8
    Chunk = 2
    SpinCap = 1
CHECK_DEADLOCK FALSE
PROPERTY MissingConnectionNoticed
