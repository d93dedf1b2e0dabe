SPECIFICATION Spec
CONSTANTS
    NRow = 3
    NCol = 3
    NShortCycle = 200
    Turn = 3
    WindowRadius = 0
    WindowLimit = 256
    None = None
    PhaseGrids <- SquarePhases
    CostGrids <- SquareCosts
    MaxCycles = 2
    MaxNFlowCycles = 0
    MaxFlow = 4
    MaxPasses = None
    ExactNodes = {2, 5}
    RebaseNodes = 2
    BatchLimit = 3
INVARIANTS TypeOK ResiduesVanish TreesKeepSpanning ConvergedIsOptimal
PROPERTIES Converges PushLowersPotential
