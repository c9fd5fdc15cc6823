SPECIFICATION MachineSpec
CHECK_DEADLOCK FALSE
CONSTANTS
    Worlds = {"schema", "lease", "register", "materialize", "sources", "global"}
    ga = ga
    gb = gb
    gc = gc
    Connections = {c1, c2, c3}
    Databases <- FoundDatabases
    LeaseKeys = {k1, k2}
    Options <- AskedOptions
    BusyWait = 1
    MaxTime = 26
    Roots = {p1, p2}
    GraphIds = {g1, g2}
    NoRecord = NoRecord
    MaxRegs = 4
    MaxLosses = 1
    SameMs = FALSE
    Layouts <- PlainLayouts
    Strategies = {"by depth", "serial"}
    Threads = 2
    Resolvers = {r1, r2}
    References = {"branch", "a"}
    Remotes = {"hosted", "daemon", "directory"}
    MaxMoves = 1
    MaxKills = 1
    Nobody = Nobody
    Torn = "torn"
INVARIANTS IndexSound TreesAndBinsSound SourcesSound
PROPERTY SourcesEnd
