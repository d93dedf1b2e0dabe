SPECIFICATION FairSpec
CONSTANTS
    i1 = i1
    i2 = i2
    Inputs <- MCInputs
    Ifgs <- MCIfgs
    Unwrap <- MCUnwrap
    Pools <- MCPools
    UsizeMax <- MCUsizeMax
    Requested = 0
    Rows <- MCRows
    Cols <- MCCols
    NoFile = NoFile
    Bad = Bad
    Zero = Zero
    Nothing = Nothing
    MaxFaults = 2
    MaxChanges = 1
INVARIANTS
    TypeOK
    PublishedIsWhole
    SolvesFitLimits
PROPERTIES
    PeersAreCheckpointed
    CheckpointsSpareWork
    EveryRunEnds
    EventuallyPublished
