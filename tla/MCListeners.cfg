SPECIFICATION AdvSpec
CONSTANTS
    hi = hi
    x = x
    NoGroup = NoGroup
    Leases = {l1, l2}
    Groups <- HostGroups
    Priority <- HostPriority
    MinRunners <- HostMin
    MaxRunners <- HostMax
    Reserve <- HostReserve
    Total <- HostTotal
    NameRank <- HostRank
CONSTRAINT OnlyListeners
SYMMETRY Symmetry
INVARIANTS
    FreshOnceServed
CHECK_DEADLOCK FALSE
