SPECIFICATION Spec
CONSTANTS
    s1 = s1
    s2 = s2
    s3 = s3
    n1 = n1
    n2 = n2
    NoSession = NoSession
    NoWorker = NoWorker
    NoName = NoName
    Workers = {w1, w2}
    Sessions = {s1, s2}
    Names = {n1, n2}
    Existing = {n1}
    HdrLen <- MCHdrLen
    NameLen <- MCNameLen
    ShortName <- DistinctNames
    DataLen <- FaultDataLen
    Prev <- OwnProcesses
    Faulty = {s1, s2}
    Faults = {"openfail", "quit", "reset", "vanish", "held", "bindfail", "break"}
    BufSize = 8
    Chunk = 2
    SpinCap = 1
CHECK_DEADLOCK FALSE
SYMMETRY WorkerSymmetry
INVARIANTS
    TypeOK
    AcceptExclusion
    OneReader
    WholeHeaderBeforeOpen
    SavedMeansAllRead
    ContentIntegrity
    SuccessHasACause
    LostWorkerHasACause
