SPECIFICATION FairSpec
CONSTANTS
    SeqModulus = 16
    ReceiveWindow = 1
    MaxRetries = 1
    MaxSpan = 2
    InitialSequences <- MCInitialSequences
INVARIANTS
    SequenceAgreement
    HandshakeAgrees
PROPERTY
    HandshakeEnds
CHECK_DEADLOCK FALSE
