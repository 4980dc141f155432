\* One call at a time; two processes share the database; the server's file changes once.
CONSTANTS
    t1 = t1
    t2 = t2
    p1 = p1
    p2 = p2
    Threads = {t1, t2}
    Processes = {p1, p2}
    ProcessOf <- TwoProcesses
    Url = "u"
    Size <- TwoChunks2
    ChunkSize = 1
    MaxBlocks = 2
    DoubleBelow = 2
    Positions = {}
    Lengths = {1}
    DiskChunks = 2
    Serial = TRUE
    LockTimesOut = FALSE
    MayClear = FALSE
    None = None
    Miss = Miss
    NoFile = NoFile
    Never = Never
SPECIFICATION Spec
INVARIANTS
    TypeOK
    NoOlderChunkOnDisk
PROPERTY RecordedPropsAdvance
