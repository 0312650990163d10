SPECIFICATION Spec
CONSTANTS
    Runners = {r1, r2}
    MinRunners = 0
    MaxRunners = 1
    Budgeted = TRUE
SYMMETRY Symmetry
PROPERTIES
    IdleKillSparesJobs
CHECK_DEADLOCK FALSE
