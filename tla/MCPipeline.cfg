SPECIFICATION FairSpec
CONSTANTS
    p1 = p1
    p2 = p2
    Patches <- TwoPatches
    Root = Root
    MaxFaults = 1
    MaxRuns = 2
INVARIANTS
    TypeOK
    TrustedMarkersAreFresh
    ResumeKeepsOrder
    ReportIsTrue
    MergedStatusIsBacked
PROPERTIES
    ResumeCompletes
