SPECIFICATION RegistrySpec
CHECK_DEADLOCK FALSE
CONSTANTS
    Keys = {1, 2}
    Roots = {1}
    Deps <- CyclicDeps
    Callers = {c}
    Batch = b
    Workers = {w1}
    MaxDepth = 2
    MaxCalls = 1
    Attempts = 2
    MaxRevision = 3
    Maintainers <- TheMaintainers
    Programs <- ThePrograms
    Retries = 1
    m1 = m1
    m2 = m2
INVARIANTS OneOwnerPerFlight ServedIsRevalidated CommandsSound
PROPERTY RegistryEnds
