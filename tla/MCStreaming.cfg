SPECIFICATION StreamingSpec
CONSTANTS
    x = x
    y = y
    ax = ax
    ay = ay
    d1 = d1
    d2 = d2
    e1 = e1
    e2 = e2
    Nothing = Nothing
    Units <- TwoUnits
    Above <- Nested
    ArtifactOf <- OwnArtifact
    Hints <- OneHint
    Downloaders <- TwoDownloaders
    Extractors <- TwoExtractors
    UnitCap = 1
    HandoffCap = 1
    Floor = 1
CHECK_DEADLOCK FALSE
INVARIANTS OutcomesExact AdoptedTreeWhole ResolutionMatches
PROPERTY StreamingEnds
