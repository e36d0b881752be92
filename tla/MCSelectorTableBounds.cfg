CONSTANTS
    d1 = d1
    d2 = d2
    FD_SETSIZE = 7
    InitialElements = 0
    Descriptors <- MCDescriptors
    Data <- MCData
    NoData = NoData
SPECIFICATION TableSpec
SYMMETRY Symmetry
CHECK_DEADLOCK FALSE
INVARIANTS
    StaysInBounds
