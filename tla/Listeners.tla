----------------------------- MODULE Listeners ------------------------------
(***************************************************************************)
(* How the capacity every group advertises follows the allocator           *)
(* (controller/group.go, controller/scaler_capacity.go).  The scaler sets  *)
(* it when its listener starts, after every message the listener handles   *)
(* and whenever notifyChanges tells it that something changed.  The two    *)
(* callers compute the value and set it in two steps, under advertiseMu.   *)
(***************************************************************************)
EXTENDS Advertise

VARIABLES
    listening,   \* the groups whose scaler has an advertiser
    advertised,  \* MacOSScaler.advertised
    computed,    \* values that advertiseCapacity has computed and not set yet
    stage        \* where the listener of a group is in handling a message

advVars == <<listening, advertised, computed, stage>>
allVars == <<vars, advVars>>

Stages == {"stopped", "registered", "attached", "poll", "full", "spare", "reported",
           "reconciled"}

AdvInit ==
    /\ Init
    /\ listening = {}
    /\ advertised = [g \in Groups |-> 0]
    /\ computed = {}
    /\ stage = [g \in Groups |-> "stopped"]

-----------------------------------------------------------------------------
(* advertiseCapacity.                                                      *)

LockFree(g) == \A c \in computed : c.group # g

(* Mutant: the value is computed before advertiseMu is taken.              *)
ComputeUnlocked(g, by) ==
    computed' = computed \cup {[group |-> g, by |-> by, value |-> CapacityOf(g)]}

Compute(g, by) ==
    /\ LockFree(g)
    /\ computed' = computed \cup {[group |-> g, by |-> by, value |-> CapacityOf(g)]}

SetMaxRunners(c) ==
    /\ advertised' = [advertised EXCEPT ![c.group] = c.value]
    /\ computed' = computed \ {c}

-----------------------------------------------------------------------------
(* The listener of a group (runGroupOnce).                                 *)

Moves(g, from, to) == stage[g] = from /\ stage' = [stage EXCEPT ![g] = to]

ListenerRegisters(g) ==
    /\ Moves(g, "stopped", "registered")
    /\ Register(g)
    /\ UNCHANGED <<listening, advertised, computed>>

(* advertiseTo: the scaler gets its advertiser and advertises at once.     *)
Attach(g) ==
    /\ Moves(g, "registered", "attached")
    /\ LockFree(g)
    /\ listening' = listening \cup {g}
    /\ UNCHANGED <<vars, advertised, computed>>

(* The listener could not be created, or Run returned.                     *)
ListenerEnds(g) ==
    /\ Moves(g, "registered", "stopped") \/ Moves(g, "poll", "stopped")
    /\ Unregister(g)
    /\ UNCHANGED <<listening, advertised, computed>>

(* A poll brings the number of assigned jobs, which may be more than was   *)
(* advertised: jobs go on while the group's share gets smaller.            *)
ReadAssigned(g, count) ==
    /\ Moves(g, "poll", IF count > 0 /\ count >= advertised[g] THEN "full" ELSE "spare")
    /\ LockFree(g)
    /\ UNCHANGED <<vars, listening, advertised, computed>>

(* The allocator is told of it when advertiseMu has been given back.       *)
ReportAssigned(g) ==
    /\ \/ Moves(g, "full", "reported") /\ SetSaturated(g, TRUE)
       \/ Moves(g, "spare", "reported") /\ SetSaturated(g, FALSE)
    /\ UNCHANGED <<listening, advertised, computed>>

(* reconcile asks for what is missing.                                     *)
Provision(g, want) ==
    /\ Moves(g, "reported", "reconciled")
    /\ Acquire(g, want)
    /\ UNCHANGED <<listening, advertised, computed>>

ListenerComputes(g) ==
    /\ stage[g] \in {"attached", "reconciled"}
    /\ \A c \in computed : ~(c.group = g /\ c.by = "listener")
    /\ Compute(g, "listener")
    /\ UNCHANGED <<vars, listening, advertised, stage>>

(* The group's own value is set before it polls again.                     *)
ListenerSets(g) ==
    /\ Moves(g, "attached", "poll") \/ Moves(g, "reconciled", "poll")
    /\ \E c \in computed : c.group = g /\ c.by = "listener" /\ SetMaxRunners(c)
    /\ UNCHANGED <<vars, listening>>

-----------------------------------------------------------------------------
(* notifyChanges calls CapacityChanged on one scaler after the other.      *)

NotifierSkips(g) ==
    /\ g \notin listening
    /\ NotifyCall(g)
    /\ UNCHANGED advVars

NotifierComputes(g) ==
    /\ g \in notifying \cap listening
    /\ \A c \in computed : c.by # "notifier"
    /\ Compute(g, "notifier")
    /\ UNCHANGED <<vars, listening, advertised, stage>>

NotifierSets(g) ==
    /\ \E c \in computed : c.group = g /\ c.by = "notifier" /\ SetMaxRunners(c)
    /\ NotifyCall(g)
    /\ UNCHANGED <<listening, stage>>

-----------------------------------------------------------------------------
AdvNext ==
    \/ \E g \in Groups :
        \/ ListenerRegisters(g)
        \/ Attach(g)
        \/ ListenerEnds(g)
        \/ \E count \in 0 .. Sum(MaxRunners) : ReadAssigned(g, count)
        \/ ReportAssigned(g)
        \/ \E want \in 0 .. MaxRunners[g] : Provision(g, want)
        \/ ListenerComputes(g)
        \/ ListenerSets(g)
        \/ NotifierSkips(g)
        \/ NotifierComputes(g)
        \/ NotifierSets(g)
    \/ /\ \/ \E l \in Leases : Release(l) \/ Cancel(l) \/ Forget(l)
          \/ WakeTake
          \/ queue # <<>> /\ \E want \in 0 .. MaxRunners[Head(queue)] : WakeCall(want)
          \/ NotifyTake
       /\ UNCHANGED advVars

AdvSpec == AdvInit /\ [][AdvNext]_allVars

-----------------------------------------------------------------------------
(* The type of what the scalers add to the allocator.                      *)
AdvTypeOK ==
    /\ listening \in SUBSET Groups
    /\ advertised \in [Groups -> Nat]
    /\ computed \in SUBSET [group : Groups, by : {"listener", "notifier"}, value : Nat]
    /\ stage \in [Groups -> Stages]

(* Nothing is left to be told: no notification is pending, and none is     *)
(* being delivered.                                                        *)
Quiet == ~changeCh /\ notifying = {} /\ computed = {}

Polling == {g \in Groups : stage[g] = "poll"}

UpToDate(g) == advertised[g] = CapacityOf(g)

(* Once nobody waits who could be served at once, what every polling group *)
(* advertises is up to date as soon as the pending notification has been   *)
(* delivered, in whatever order the listener and the notifier computed and *)
(* set it (scaler_capacity.go:63-64).  A group that goes on waiting for    *)
(* more or for less tells nobody (allocator.go:107-113), and this says     *)
(* that nobody needs to know.                                              *)
FreshOnceServed ==
    Quiet /\ (\A g \in Waiters : ~Admit(g, held, NoPlan, used))
        => \A g \in Polling : UpToDate(g)
=============================================================================
