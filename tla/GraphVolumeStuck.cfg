CONSTANTS
    Installs = {i1, i2}
    Scripted = {i1, i2}
    Relay = {i1}
    MaxGc = 1
    GraceZero = FALSE
    GcMayDie = FALSE
SPECIFICATION FairSpec
PROPERTIES
    EveryInstallEnds
CHECK_DEADLOCK FALSE
