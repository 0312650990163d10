SPECIFICATION Spec
CONSTANTS
    linux = linux
    linux1 = linux1
    Groups = {linux}
    Runners = {linux1}
    Home <- OneHome
    NoGroup = NoGroup
    NoRunner = NoRunner
    MinRunners <- NoMin
    MaxDesired = 2
    DivergenceTimeout = 1
    DegradedThreshold = 50
    MaxReports = 2
INVARIANTS
    DeferredNeverDegraded
CHECK_DEADLOCK FALSE
