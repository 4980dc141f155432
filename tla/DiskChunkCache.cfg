\* Three rows at most for four keys: the cache saturates, evicts and recycles.
CONSTANTS
    x1 = x1
    x2 = x2
    Urls = {"u1", "u2"}
    Offsets = {0, 1}
    Data = {x1, x2}
    Props = {"v1", "v2"}
    MaxChunks = 3
    Invalidated = Invalidated
    NoOffset = NoOffset
    NoRow = NoRow
    Miss = Miss
    NoTx = NoTx
SPECIFICATION Spec
SYMMETRY Symmetric
INVARIANTS
    TypeOK
    Consistent
    IdsInLockstep
    OneRowPerKey
    ListIsRecencyOrder
    DoomedAreOldest
    WithinMaxSize
PROPERTY ImplementsStore
