SPECIFICATION Spec
CONSTANTS
    s1 = s1
    s2 = s2
    s3 = s3
    n1 = n1
    n2 = n2
    NoSession = NoSession
    NoWorker = NoWorker
    NoName = NoName
    Workers = {w1, w2}
    Sessions = {s1, s2}
    Names = {n1, n2}
    Existing = {}
    HdrLen <- MCHdrLen
    NameLen <- MCNameLen
    ShortName <- SameName
    DataLen <- MCDataLen
    Prev <- OwnProcesses
    Faulty = {}
    Faults = {}
    BufSize = 8
    Chunk = 2
    SpinCap = 1
CHECK_DEADLOCK FALSE
INVARIANT SaveFileComplete
