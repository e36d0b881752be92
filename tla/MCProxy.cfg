CONSTANTS
    FD_SETSIZE = 5
    Struct = {s, t}
    max_pool = 1
    Passive = Passive
    NoData = NoData
SPECIFICATION Spec
CHECK_DEADLOCK FALSE
INVARIANTS
    ProxyTypeOK
    ReferencesCounted
    DescriptorsOwned
PROPERTIES
    TerminatesAfterSignal
