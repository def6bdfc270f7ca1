SPECIFICATION LibSpec
CONSTANTS
    Subjects = {"console"}
    Byte = {0, 1}
    Zero = 0
    Leftovers <- MCLeftovers
    Descs = {d1, d2}
    Objs = {o1, o2}
    Bad = Bad
    Gone = Gone
    Windows = TRUE
    MaxLen = 3
    Stream = 4
    Drift = 2
    Threads = {t1, t2}
    Depth = 2
    Users = {u1, u2, u3}
    Most = 3
    Spawned = {t1, t2, t3}
    Ptrs <- MCPtrs
    Cells <- MCCells
    Null = Null
    Deleter <- MCDeleter
    Made <- MCMade
    Lines <- MCLines
    Answers <- MCAnswers
    BufCap = 5
    Turns = 3
    Words = {0, 1, 65535}
    Octets = {0, 9, 10, 255}
    Typed <- MCTyped
    Texts <- MCTexts
    Delim = 46
CHECK_DEADLOCK FALSE
INVARIANT TypedNameUsed
