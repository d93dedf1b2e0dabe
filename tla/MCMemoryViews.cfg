SPECIFICATION Spec
CONSTANTS
    ItemSize = 1
    Exports <- MCExports
    Indices <- MCIndices
    Values <- MCValues
    Fills <- MCFills
    Stray <- MCStray
    Leftovers <- MCLeftovers
    Limits = {"slices", "ranks"}
    MaxViews = 3
    MaxWrites = 1
INVARIANTS TypeOK
PROPERTY ImplementsArrayViews
CHECK_DEADLOCK FALSE
