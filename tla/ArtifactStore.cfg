SPECIFICATION Spec
CONSTANTS
    p1 = p1
    p2 = p2
    a = a
    b = b
    NoOne = NoOne
    Procs = {p1, p2}
    Ids = {a, b}
    Asked = {a}
    MaxCalls = 3
    MaxCrashes = 1
    MaxCollections = 1
CHECK_DEADLOCK FALSE
INVARIANTS ArchivesSound TrustedImageWhole
PROPERTY EveryCallReturns
