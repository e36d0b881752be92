CONSTANTS
    a = a
    b = b
    d = d
    Client = {a, b}
    MAX_SOCKETS = 2
    Masters = 2
    BUFFSIZE = 2
    MaxBytes <- MCEachSends
SPECIFICATION Spec
CHECK_DEADLOCK FALSE
INVARIANTS
    PendingWatched
