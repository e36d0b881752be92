CONSTANTS
    w1 = w1
    w2 = w2
    w3 = w3
    Workers <- MCWorkers
    SelectorThread = SelectorThread
    Nobody = Nobody
    MaxErrors = 1
SPECIFICATION Spec
INVARIANTS
    TypeOK
    NoLostWakeup
    JobsConserved
PROPERTIES
    EveryJobConsumed
    ImplementsPromise
