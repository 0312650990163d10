SPECIFICATION FairSpec
CONSTANTS
    Runners = {r1}
    MinRunners = 0
    MaxRunners = 1
    Budgeted = TRUE
PROPERTIES
    ReconcileTerminates
    DeadReleased
CHECK_DEADLOCK FALSE
