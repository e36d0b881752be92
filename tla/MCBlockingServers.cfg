CONSTANTS
    a = a
    b = b
    Client = {a, b}
    NoClient = NoClient
    Programs <- MCPrograms
    Script <- MCScript
    Addresses = 2
    MaxFailures = 2
SPECIFICATION Spec
CHECK_DEADLOCK FALSE
INVARIANTS
    BlockingTypeOK
    DescriptorsReleased
    RepliesFaithful
PROPERTIES
    WaitsForAnotherOnly
