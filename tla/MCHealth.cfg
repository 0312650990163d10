SPECIFICATION FairSpec
CONSTANTS
    linux = linux
    linux1 = linux1
    Groups = {linux}
    Runners = {linux1}
    Home <- OneHome
    NoGroup = NoGroup
    NoRunner = NoRunner
    MinRunners <- NoMin
    MaxDesired = 2
    DivergenceTimeout = 2
    DegradedThreshold = 50
    MaxReports = 2
CONSTRAINT TwoReports
INVARIANTS
    TypeOK
    DegradedDeserved
PROPERTIES
    KillsTold
CHECK_DEADLOCK FALSE
