CONSTANTS
    passive = passive
    a = a
    b = b
    FD_SETSIZE = 4
    InitialElements = 0
    Descriptors = {0, 1, 3}
    Data <- MCData
    NoData = NoData
    WithoutClose <- MCWithoutClose
    WithoutWrite <- MCWithoutWrite
    Calls <- Program1
    Discipline = {"fresh descriptors", "closing left alone", "interests have handlers", "growth at rest", "unregister before close"}
    MaxDepth = 3
    MaxJobs = 1
SPECIFICATION Spec
SYMMETRY Symmetry
CHECK_DEADLOCK FALSE
INVARIANTS
    ReleasedOnce
    DestroyReleasesAll
    
PROPERTIES
    KeyIsCurrent
    OnlyReportedDispatched
