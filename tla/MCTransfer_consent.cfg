SPECIFICATION Spec
CONSTANTS
    s1 = s1
    s2 = s2
    s3 = s3
    n1 = n1
    n2 = n2
    NoSession = NoSession
    NoWorker = NoWorker
    NoName = NoName
    Workers = {w1}
    Sessions = {s1, s2}
    Names = {n1, n2}
    Existing = {n1}
    HdrLen <- MCHdrLen
    NameLen <- MCNameLen
    ShortName <- SameName
    DataLen <- MCDataLen
    Prev <- OwnProcesses
    Faulty = {s1, s2}
    Faults = {"openfail", "shrink", "quit", "reset", "vanish", "refuse", "held", "createfail"}
    BufSize = 5
    Chunk = 2
    SpinCap = 1
CHECK_DEADLOCK FALSE
INVARIANTS
    SaveFileComplete
PROPERTIES
    ChangedOnlyByConsent
    ImplementsDirectory
