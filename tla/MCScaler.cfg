SPECIFICATION Spec
CONSTANTS
    Runners = {r1, r2}
    MinRunners = 0
    MaxRunners = 1
    Budgeted = TRUE
SYMMETRY Symmetry
INVARIANTS
    TypeOK
    OneOwner
    ReservedWhileItLasts
    ReservedWhileRunning
    PoolWithinMax
PROPERTIES
    TrimSparesJobs
CHECK_DEADLOCK FALSE
