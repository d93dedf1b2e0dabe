SPECIFICATION FairSpec
CONSTANTS
    Names <- MCNames
    Marker = "marker"
    Versions <- MCVersions
    Bundle <- MCBundle
    Absent = Absent
    Nothing = Nothing
    MaxFaults = 2
INVARIANTS
    TypeOK
    MarkerVouchesForBundle
    NeverMixed
    OldFilesRecoverable
    ErrorRestoresOrKeepsStaging
PROPERTIES
    ImplementsAtomicBundle
    RetryPublishes
CHECK_DEADLOCK FALSE
