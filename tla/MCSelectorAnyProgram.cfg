CONSTANTS
    passive = passive
    a = a
    b = b
    FD_SETSIZE = 4
    InitialElements = 0
    Descriptors = {0, 1, 3}
    Data <- MCData
    NoData = NoData
    WithoutClose <- MCWithoutClose
    WithoutWrite <- MCWithoutWrite
    Calls <- Program2
    Discipline = {}
    MaxDepth = 2
    MaxJobs = 1
SPECIFICATION Spec
SYMMETRY Symmetry
CHECK_DEADLOCK FALSE
INVARIANTS
    SelectorTypeOK
PROPERTIES
    JobReachesItsOwner
