SPECIFICATION Spec
CONSTANTS
    SeqModulus = 3
    ReceiveWindow = 1
    MaxRetries = 1
    Procs = {p}
    NumSlots = 1
    MaxBacklog = 1
    MaxGeneration = 1
    Ports = {port}
    Peers = {peer}
    InitialSequences = {1}
    None = None
    Inbound <- MCInbound
INVARIANT
    WriterNotStranded
CHECK_DEADLOCK FALSE
