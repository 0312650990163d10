SPECIFICATION FairSpec
CONSTANTS
    hi = hi
    HI = HI
    x = x
    z = z
    NoGroup = NoGroup
    Absent = Absent
    Invalid = Invalid
    MaxInt64 = 7
    MaxCPUWeight = 10000
    Names = {hi, HI, x, z}
    ScaleSetName <- LowerCase
    Leases = {l1}
    Groups <- RunGroups
    Priority <- RunPriority
    MinRunners <- NoMin
    MaxRunners <- OneMax
    Reserve <- RunReserve
    Total <- OneTotal
PROPERTIES
    OwedIsServed
CHECK_DEADLOCK FALSE
