SPECIFICATION FairSpec
CONSTANTS
    t1 = t1
    t2 = t2
    a = a
    c = c
    Threads = {t1, t2}
    Contexts = {a, c}
    ThreadOf <- MCThreadOf
    Default = a
    WithAux = {c}
    MaxProcesses = 2
    MaxCleanups = 1
    None = None
INVARIANTS
    TypeOK
    OwnConnection
    ContextsAreWhole
CHECK_DEADLOCK FALSE
PROPERTY CallsReturn
