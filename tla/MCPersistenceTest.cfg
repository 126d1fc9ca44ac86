CONSTANTS
    MaxTick = 4
    Faults <- AllFaults
SPECIFICATION Spec
CHECK_DEADLOCK FALSE
INVARIANTS
    VerdictExact
    ParsersAgree
    FallsBackAnywhere
