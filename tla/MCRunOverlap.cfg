SPECIFICATION Spec
CONSTANTS
    Runs = {r1, r2}
    Pids = {x1, x2}
    MaxOthers = 0
    RecordsOwner = TRUE
CHECK_DEADLOCK FALSE
INVARIANT
    Exclusive
