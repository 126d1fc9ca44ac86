SPECIFICATION Spec
CONSTANTS
    Runs = {r1, r2, r3}
    Pids = {x1, x2, x3}
    MaxOthers = 1
    RecordsOwner = TRUE
SYMMETRY RunsAndPids
CHECK_DEADLOCK FALSE
INVARIANTS
    SoleHolds
    LeftOnlyByKilled
PROPERTY
    RefusedOnlyInCompany
