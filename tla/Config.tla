------------------------------- MODULE Config -------------------------------
(***************************************************************************)
(* What config.validate accepts of the settings that the allocator, the    *)
(* scalers and the cgroups rest on (validate.go, validate_capacity.go,     *)
(* validate_resources.go, scale_set.go, resources.go), and the allocator   *)
(* that cli/daemon_capacity.go builds from them.  A size is what           *)
(* ParseByteSize makes of it; a number of CPUs is in ten thousandths,      *)
(* which CPUMilli rounds.  Patterns of names and labels, durations, the    *)
(* logging and the workdir settings are left out.                          *)
(***************************************************************************)
EXTENDS Integers, Sequences, FiniteSets, Sums, Resources

CONSTANTS
    Names,         \* names of groups
    ScaleSetName,  \* what ScaleSetName makes of each on this host, in lower case
    Absent,        \* a setting that is not given
    Invalid,       \* a size that ParseByteSize rejects
    MaxInt64,
    MaxCPUWeight

ASSUME ConfigAssumption ==
    /\ MaxInt64 \in Nat /\ MaxCPUWeight \in Nat
    /\ Absent \notin Int /\ Invalid \notin Int /\ Absent # Invalid
    /\ Absent \notin [memory : Nat \cup {Absent, Invalid}, cpus : Int]

Size == Nat \cup {Absent, Invalid}

ResourceAmount == [memory : Size, cpus : Int]

ResourcesConfig == [memoryMax : Size, memoryHigh : Size, cpuWeight : Int]

GroupConfig ==
    [name : Names, minRunners : Int, maxRunners : Int,
     reserve : ResourceAmount, resources : ResourcesConfig]

Configuration == [groups : Seq(GroupConfig), capacity : ResourceAmount \cup {Absent}]

-----------------------------------------------------------------------------
(* resources.go                                                            *)

Bytes(size) == IF size = Absent THEN 0 ELSE size

CPUMilli(cpus) == (cpus + 5) \div 10

Resolves(a) == a.memory # Invalid /\ a.cpus >= 0

ResolveAmount(a) ==
    [d \in Dims |-> IF d = "memory" THEN Bytes(a.memory) ELSE CPUMilli(a.cpus)]

Int64(n) == ((n + MaxInt64 + 1) % (2 * MaxInt64 + 2)) - (MaxInt64 + 1)

-----------------------------------------------------------------------------
(* validate.go and scale_set.go                                            *)

ValidGroups(c) ==
    LET gs == c.groups
    IN  /\ gs # <<>>
        /\ \A i, j \in DOMAIN gs : i < j => gs[i].name # gs[j].name
        /\ \A i \in DOMAIN gs :
            /\ gs[i].maxRunners >= 1
            /\ 0 <= gs[i].minRunners
            /\ gs[i].minRunners <= gs[i].maxRunners

ScaleSet(c, i) == ScaleSetName[c.groups[i].name]

(* A scale set that an earlier group has taken is an error, unless the     *)
(* first group that took it has the very same name, which ValidGroups      *)
(* rejects.                                                                *)
ValidScaleSetNames(c) ==
    \A first, i \in DOMAIN c.groups :
        /\ first < i
        /\ ScaleSet(c, first) = ScaleSet(c, i)
        /\ \A k \in 1 .. first - 1 : ScaleSet(c, k) # ScaleSet(c, i)
        => c.groups[first].name = c.groups[i].name

-----------------------------------------------------------------------------
(* validate_capacity.go                                                    *)

Reserves(c) == [i \in DOMAIN c.groups |-> ResolveAmount(c.groups[i].reserve)]

Minimums(c) == [i \in DOMAIN c.groups |-> c.groups[i].minRunners]

FloorOf(c, d) == Sum([i \in DOMAIN c.groups |-> Reserves(c)[i][d] * Minimums(c)[i]])

(* The sum of the minimums is taken in 64 bits.                            *)
Floor(c) == [d \in Dims |-> Int64(FloorOf(c, d))]

Exceeds(total, d, need) == total[d] > 0 /\ need[d] > total[d]

ValidCapacity(c) ==
    /\ \A i \in DOMAIN c.groups : Resolves(c.groups[i].reserve)
    /\ c.capacity # Absent =>
        LET total == ResolveAmount(c.capacity)
        IN  /\ c.capacity.memory # Absent \/ c.capacity.cpus # 0
            /\ Resolves(c.capacity)
            /\ c.capacity.memory # Absent => total["memory"] # 0
            /\ c.capacity.cpus # 0 => total["cpu"] # 0
            /\ \A d \in Dims :
                /\ \A i \in DOMAIN c.groups : ~Exceeds(total, d, Reserves(c)[i])
                /\ ~Exceeds(total, d, Floor(c))

-----------------------------------------------------------------------------
(* validate_resources.go                                                   *)

ValidResources(c) ==
    \A i \in DOMAIN c.groups :
        LET r == c.groups[i].resources
        IN  /\ r.memoryMax \notin {Invalid, 0}
            /\ r.memoryHigh \notin {Invalid, 0}
            /\ Bytes(r.memoryMax) > 0 => Bytes(r.memoryHigh) <= Bytes(r.memoryMax)
            /\ r.cpuWeight \in 0 .. MaxCPUWeight

Validate(c) ==
    ValidGroups(c) /\ ValidScaleSetNames(c) /\ ValidCapacity(c) /\ ValidResources(c)

-----------------------------------------------------------------------------
(* buildCapacity: the allocator's total.                                   *)
BuiltTotal(c) == ResolveAmount(c.capacity)
=============================================================================
