SPECIFICATION FairSpec
CONSTANTS
    SeqModulus = 3
    ReceiveWindow = 1
    MaxRetries = 1
    Procs = {p, q}
    NumSlots = 2
    MaxBacklog = 1
    MaxGeneration = 1
    Ports = {port}
    Peers = {peer}
    InitialSequences = {1}
    None = None
    Inbound <- MCInbound
INVARIANTS
    SleepersServed
    OneOwner
PROPERTIES
    IngressDeferred
    HandshakesSettle
CHECK_DEADLOCK FALSE
