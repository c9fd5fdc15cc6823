SPECIFICATION Spec
CHECK_DEADLOCK FALSE
CONSTANTS
    LinkNames = {"a", "@s/b", "@s/c"}
    Scope <- ScopeOf
    NoScope = "none"
    Targets = {"d1", "d2"}
    Linkers = {"l1", "l2"}
    MaxLinks = 4
    Names = {"a", "b"}
    Runners = {"p", "q"}
    Commands <- TheCommands
    Saves <- TheSaves
    ForeignKinds = {"none", "npm", "yarn"}
    MaxCommands = 2
    MaxUnguarded = 1
    MaxEdits = 1
    MaxFaults = 2
INVARIANTS ProjectConsistent ScopesHoldLinks
PROPERTIES RolledBack CommandsEnd
