\* One thread reopens a file that the server replaced, with chunks still in memory.
CONSTANTS
    t1 = t1
    t2 = t2
    p1 = p1
    p2 = p2
    Threads = {t1}
    Processes = {p1}
    ProcessOf <- OneThread
    Url = "u"
    Size <- TwoChunks2
    ChunkSize = 1
    MaxBlocks = 2
    DoubleBelow = 2
    Positions = {0, 1}
    Lengths = {1}
    DiskChunks = 2
    Serial = TRUE
    LockTimesOut = FALSE
    MayClear = FALSE
    None = None
    Miss = Miss
    NoFile = NoFile
    Never = Never
SPECIFICATION Spec
INVARIANT NoOldContent
