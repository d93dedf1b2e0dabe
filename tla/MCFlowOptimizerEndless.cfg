SPECIFICATION Spec
CONSTANTS
    NRow = 2
    NCol = 3
    NShortCycle = 200
    Turn = 3
    WindowRadius = 8
    WindowLimit = 256
    None = None
    PhaseGrids <- EndlessPhase
    CostGrids <- EndlessCosts
    MaxCycles = 28
    MaxNFlowCycles = 0
    MaxFlow = 4
    MaxPasses = None
    ExactNodes = {4096}
    RebaseNodes = 8192
    BatchLimit = 32
PROPERTIES Converges
