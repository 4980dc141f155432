\* A statement may fail to be prepared after others of its transaction ran.
CONSTANTS
    x1 = x1
    x2 = x2
    Urls = {"u1", "u2"}
    Offsets = {0, 1}
    Data = {x1, x2}
    Props = {"v1", "v2"}
    MaxChunks = 3
    Invalidated = Invalidated
    NoOffset = NoOffset
    NoRow = NoRow
    Miss = Miss
    NoTx = NoTx
SPECIFICATION FaultySpec
SYMMETRY Symmetric
INVARIANT LookupReadsOwnData
