SPECIFICATION Spec
CONSTANTS
    Atomics = FALSE
    PoolSize = 2
    Callers = {"a", "b"}
    Plans <- MCNaNPlans
    Arrays <- MCArrays
    IntLimit = 4
    MaxFaults = 0
PROPERTY ImplementsPureCalls
CHECK_DEADLOCK FALSE
