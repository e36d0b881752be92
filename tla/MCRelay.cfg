CONSTANTS
    Size = 2
    Limit = 3
    CopySize = 2
    Total = 4
    MaxFailures = 2
    Garbage = Garbage
SPECIFICATION Spec
CHECK_DEADLOCK FALSE
INVARIANTS
    RelayTypeOK
    InOrder
PROPERTIES
    WriteReports
    AllDelivered
    BuffersAreQueues
