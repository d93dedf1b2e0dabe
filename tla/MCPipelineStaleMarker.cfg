SPECIFICATION Spec
CONSTANTS
    p1 = p1
    p2 = p2
    Patches <- OnePatch
    Root = Root
    MaxFaults = 0
    MaxRuns = 2
INVARIANTS
    NoMarkerSurvivesUpstreamChange
