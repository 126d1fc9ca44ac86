CONSTANTS
    Workers = {w1, w2, w3}
    Modulus = 3
    Iterations = 2
    Rounds = 3
SPECIFICATION FairSpec
CHECK_DEADLOCK FALSE
INVARIANTS
    NoLostUpdate
    BarrierCorrect
PROPERTIES
    ImplementsFifoLock
    AllFinish
