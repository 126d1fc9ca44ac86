CONSTANTS
    NumSlots = 3
    MaxChildren = 2
    MaxPid = 4
    IoKeys = {1}
SPECIFICATION FairSpec
CHECK_DEADLOCK FALSE
INVARIANTS
    RuntimeConsistent
    ReadersInForeground
    FamilyExact
    WaitNotLost
PROPERTIES
    TerminalIsFinal
    RunnableDispatched
