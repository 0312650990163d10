SPECIFICATION Spec
CONSTANTS
    hi = hi
    HI = HI
    x = x
    z = z
    NoGroup = NoGroup
    Absent = Absent
    Invalid = Invalid
    MaxInt64 = 7
    MaxCPUWeight = 10000
    Names = {hi, HI, x, z}
    ScaleSetName <- LowerCase
    Leases = {l1, l2, l3}
    Groups <- LeaseGroups
    Priority <- LeasePriority
    MinRunners <- LeaseMin
    MaxRunners <- LeaseMax
    Reserve <- LeaseReserve
    Total <- LeaseTotal
CONSTRAINT OnlyLeases
SYMMETRY Symmetry
INVARIANTS
    TypeOK
    LeaseAccounting
    NoOvercommit
    FloorsProtected
    FloorAlwaysAdmitted
    NobodyWaitsUnheard
    NoLostWake
PROPERTIES
    ImplementsBudget
CHECK_DEADLOCK FALSE
