SPECIFICATION FairSpec
CONSTANTS
    i1 = i1
    i2 = i2
    Inputs <- MCInputs
    NoFile = NoFile
    Unreadable = Unreadable
    OldSchema = OldSchema
    Garbage = Garbage
    MaxFaults = 2
    MaxChanges = 2
    MaxDamages = 1
INVARIANTS
    TypeOK
    SolvesSeeOneInput
    InterruptionsDoNotBlock
PROPERTIES
    CompleteCachesAreKept
    RerunsConverge
