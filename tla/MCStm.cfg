CONSTANTS
    N = 3
    client = client
    StateIds <- MCStateIds
    Ready <- MCReady
    Fds = {client}
    Nested = FALSE
SPECIFICATION Spec
CHECK_DEADLOCK FALSE
INVARIANTS
    StmTypeOK
    VisitsBalanced
PROPERTIES
    ImplementsVisits
