SPECIFICATION Spec
CONSTANTS
    p1 = p1
    p2 = p2
    Processes <- MCProcesses
    Lookers <- MCLookers
    Size <- MCSize
    CacheKeys <- MCCacheKeys
    NoFile = NoFile
    NoRow = NoRow
    Unset = Unset
INVARIANTS
    TypeOK
    LocalIsWhole
    RecordNotAhead
    DownloadIsSeen
CHECK_DEADLOCK FALSE
