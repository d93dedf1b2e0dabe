SPECIFICATION Spec
CONSTANTS
    v1 = v1
    v2 = v2
    v3 = v3
    v4 = v4
    Versions <- MCVersions
    Partial = Partial
    Absent = Absent
    MaxFaults = 3
INVARIANTS
    TypeOK
    ResultIsTrue
PROPERTIES
    ImplementsAtomicFile
CHECK_DEADLOCK FALSE
