SPECIFICATION SharesSpec
CONSTANTS
    hi = hi
    x = x
    y = y
    NoGroup = NoGroup
    Leases = {l1, l2, l3}
    Groups <- ShareGroups
    Priority <- SharePriority
    MinRunners <- ShareMin
    MaxRunners <- ShareMax
    Reserve <- ShareReserve
    Total <- ShareTotal
    NameRank <- ShareRank
SYMMETRY Symmetry
INVARIANTS
    EachCountedOnce
    NothingLeftOver
    SharesByPriority
    DeferredDemandFirst
    OneLine
    SomebodyIsFirst
PROPERTIES
    NoOvertaking
CHECK_DEADLOCK FALSE
