CONSTANTS
    a = a
    b = b
    d = d
    Client = {a, b, d}
    MAX_SOCKETS = 2
    Masters = 1
    BUFFSIZE = 2
    MaxBytes <- MCMaxBytes
SPECIFICATION Spec
CHECK_DEADLOCK FALSE
INVARIANTS
    EchoTypeOK
    EchoInOrder
    ReadsReady
    SlotsConsistent
PROPERTIES
    LeaversReleased
