\* Two threads of a process read a file that the server does not change; the
\* database may be locked or cleared at any time.
CONSTANTS
    t1 = t1
    t2 = t2
    p1 = p1
    p2 = p2
    Threads = {t1, t2}
    Processes = {p1}
    ProcessOf <- SameProcess
    Url = "u"
    Size <- ShortLast
    ChunkSize = 2
    MaxBlocks = 2
    DoubleBelow = 2
    Positions = {}
    Lengths = {3}
    DiskChunks = 1
    Serial = FALSE
    LockTimesOut = TRUE
    MayClear = TRUE
    None = None
    Miss = Miss
    NoFile = NoFile
    Never = Never
SPECIFICATION FairSpec
INVARIANT ReadExact
PROPERTY CallsReturn
