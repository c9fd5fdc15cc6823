SPECIFICATION WorldSpec
CONSTANTS
    i1 = i1
    i2 = i2
    i3 = i3
    Installs <- Three
    Scripted <- Nobody
    Relay <- OnlyFirst
    MaxGc = 2
    GraceZero = FALSE
    GcMayDie = FALSE
    MaxInstalls = 3
CHECK_DEADLOCK FALSE
INVARIANTS InstalledViewIntact ViewServesGraph
PROPERTY UserEntriesKept
