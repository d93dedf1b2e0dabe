SPECIFICATION Spec
CONSTANTS
    Atomics = FALSE
    PoolSize = 2
    Callers = {"a", "b"}
    Plans <- MCPlans
    Arrays <- MCArrays
    IntLimit = 4
    MaxFaults = 1
INVARIANTS TypeOK BooksBalance
PROPERTIES ImplementsPureCalls EveryCallEnds
CHECK_DEADLOCK FALSE
