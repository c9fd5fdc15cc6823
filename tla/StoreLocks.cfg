\* Three callers over three keys: enough for a circle of waiters, for a
\* caller that holds one key and waits for a second, and for an error in the
\* middle of a list of three.
CONSTANTS
    Procs = {p1, p2, p3}
    NumKeys = 3
SPECIFICATION FairSpec
INVARIANTS TypeOK NoDeadlock
PROPERTIES AtomicSpec EveryCallReturns
