SPECIFICATION Spec
CONSTANTS
    p1 = p1
    p2 = p2
    Patches <- OnePatch
    Root = Root
    MaxFaults = 1
    MaxRuns = 1
INVARIANTS
    SkippedStagesAreComplete
