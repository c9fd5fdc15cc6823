SPECIFICATION Spec
CONSTANTS
    a1 = a1
    d1 = d1
    g1 = g1
    g2 = g2
    p1 = p1
    p2 = p2
    i1 = i1
    i2 = i2
    c1 = c1
    c2 = c2
    NoGraph = NoGraph
    NoOne = NoOne
    Arts <- OneArt
    Derived <- OneDerived
    Graphs <- TwoGraphs
    Projects <- TwoProjects
    Installs <- TwoInstalls
    Collectors <- OneCollector
    GraphArts <- AllShare
    GraphDerived <- SecondDerived
    ProjectOf <- OwnProject
    GraphOf <- OwnGraph
    Copied <- FirstProject
    MaxGc = 1
    GraceZero = FALSE
    PartialSelection = TRUE
    GcMayDie = TRUE
CHECK_DEADLOCK FALSE
INVARIANTS TypeOK LeasedInputsPresent InstalledGraphPresent
PROPERTY InstalledInputsKept
