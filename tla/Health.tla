------------------------------- MODULE Health -------------------------------
(***************************************************************************)
(* The health monitor (health/checks.go, group_state.go): one tick after   *)
(* the other, each under the monitor's mutex from its snapshot to its last *)
(* check, the kills of runners included, while jobs start, processes exit  *)
(* and scalers start runners.  A reconcile records what it wants under the *)
(* same mutex (scaler_capacity.go:107-110).  What a tick found is told to  *)
(* the notifier and to Uptime Kuma by a goroutine of its own.  The client  *)
(* of a webhook has no timeout (discord.go:45, webhook.go:33): a send that *)
(* is never answered ends with the daemon.                                 *)
(***************************************************************************)
EXTENDS Integers, Sequences, FiniteSets

CONSTANTS
    Groups,
    Runners,            \* names of runners, of all groups
    Home,               \* the group each is of
    NoGroup, NoRunner,  \* of an issue that is about no group, or no runner
    MinRunners,         \* GroupMinRunners
    MaxDesired,         \* what a reconcile may want, at most
    DivergenceTimeout,  \* in ticks
    DegradedThreshold,  \* of Uptime Kuma, in percent
    MaxReports          \* reports of ticks under way, a bound

ASSUME HealthAssumption ==
    /\ IsFiniteSet(Groups) /\ IsFiniteSet(Runners)
    /\ Home \in [Runners -> Groups]
    /\ NoGroup \notin Groups /\ NoRunner \notin Runners
    /\ MinRunners \in [Groups -> Nat]
    /\ MaxDesired \in Nat /\ DivergenceTimeout \in Nat \ {0}
    /\ DegradedThreshold \in 0 .. 100
    /\ MaxReports \in Nat \ {0}

VARIABLES
    cond,        \* each runner: "out" of the pools, "idle", "late" (idle for
                 \* longer than IdleTimeout), "busy", "over" (busy for longer
                 \* than RunnerTimeout)
    dead,        \* runners in a pool whose process has exited
    lastDesired, \* groupState.lastDesiredCount
    degraded,    \* groupState.degradedSince: -1 for nil, else ticks ago
    tick,        \* where runChecks is: its step, its group, what is left
    snap,        \* the snapshots of the tick: cond when they were taken
    issues,      \* Monitor.issues
    kuma,        \* what a tick that has ended tells Uptime Kuma of each group
    reports,     \* the issues that each dispatchHealthReports has to send
    deferring,   \* auxiliary: groups that only waited for capacity then
    stuck,       \* groups whose scaler's mutex a send never gives back
    untold,      \* auxiliary: runners the monitor killed, nobody told of yet
    behind,      \* auxiliary: those of them behind a send that never ends
    apart        \* auxiliary: ticks since the group was last seen as wanted

pool == <<cond, dead>>
Idle == [g \in Groups |-> "idle"]

told == <<kuma, reports, deferring>>
fate == <<stuck, untold, behind>>
vars == <<pool, lastDesired, degraded, tick, snap, issues, told, fate, apart>>

Pool(g, states) == {r \in Runners : Home[r] = g /\ states[r] # "out"}

NoTick == [step |-> "off", group |-> NoGroup, left |-> {}, todo |-> {}, quota |-> 0,
           deferring |-> {}]

Issue(type, g, r) == [type |-> type, group |-> g, runner |-> r]

(* The monitor's mutex is held by a tick from its first step to its last.  *)
MonitorFree == tick.step = "off"

Init ==
    /\ cond = [r \in Runners |-> "out"] /\ dead = {}
    /\ lastDesired = [g \in Groups |-> 0]
    /\ degraded = [g \in Groups |-> -1]
    /\ tick = NoTick /\ snap = cond
    /\ issues = {} /\ reports = <<>> /\ deferring = {}
    /\ stuck = {} /\ untold = {} /\ behind = {}
    /\ kuma = Idle
    /\ apart = [g \in Groups |-> 0]

-----------------------------------------------------------------------------
(* Runners and their scalers.                                              *)

Scaler == UNCHANGED <<lastDesired, degraded, tick, snap, issues, told, apart>>

(* A runner that the scaler starts gets a name of its own: the one killed  *)
(* before it is told of, or never will be.                                 *)
Starts(r) ==
    /\ Home[r] \notin stuck
    /\ cond[r] = "out" /\ snap[r] = "out" /\ r \notin untold \ behind
    /\ cond' = [cond EXCEPT ![r] = "idle"]
    /\ untold' = untold \ {r} /\ behind' = behind \ {r}
    /\ Scaler /\ UNCHANGED <<dead, stuck>>

Ages(r) ==
    /\ r \notin dead /\ cond[r] \in {"idle", "busy"}
    /\ cond' = [cond EXCEPT ![r] = IF @ = "idle" THEN "late" ELSE "over"]
    /\ Scaler /\ UNCHANGED <<dead, fate>>

(* HandleJobStarted tells the notifier before it gives mu back.            *)
JobStarts(r) ==
    /\ Home[r] \notin stuck
    /\ r \notin dead /\ cond[r] \in {"idle", "late"}
    /\ cond' = [cond EXCEPT ![r] = "busy"]
    /\ stuck' \in {stuck, stuck \cup {Home[r]}}
    /\ Scaler /\ UNCHANGED <<dead, untold, behind>>

Exits(r) ==
    /\ cond[r] # "out" /\ r \notin dead
    /\ dead' = dead \cup {r}
    /\ Scaler /\ UNCHANGED <<cond, fate>>

(* The watcher of its exit, or the end of its job, takes it from the pool. *)
Leaves(r) ==
    /\ Home[r] \notin stuck
    /\ cond[r] # "out"
    /\ cond' = [cond EXCEPT ![r] = "out"]
    /\ dead' = dead \ {r}
    /\ Scaler /\ UNCHANGED fate

(* A count comes from the listener, which is what waits in such a send.    *)
UpdateGroupStats(g, desired) ==
    /\ MonitorFree /\ g \notin stuck
    /\ lastDesired' = [lastDesired EXCEPT ![g] = desired]
    /\ UNCHANGED <<pool, degraded, tick, snap, issues, told, fate, apart>>

-----------------------------------------------------------------------------
(* runChecks                                                               *)

TickAt(step) == tick.step = step

Lock ==
    /\ TickAt("off")
    /\ tick' = [NoTick EXCEPT !.step = "snapshot", !.todo = Groups]
    /\ issues' = {} /\ kuma' = Idle /\ deferring' = {}
    /\ degraded' = [g \in Groups |-> IF degraded[g] \in {-1, DivergenceTimeout}
                                     THEN degraded[g] ELSE degraded[g] + 1]
    /\ UNCHANGED <<pool, lastDesired, snap, reports, fate, apart>>

(* Snapshots takes one scaler's mutex after the other.                     *)
Snapshot(g) ==
    /\ TickAt("snapshot") /\ g \in tick.todo /\ g \notin stuck
    /\ snap' = [r \in Runners |-> IF Home[r] = g THEN cond[r] ELSE snap[r]]
    /\ tick' = IF tick.todo = {g} THEN [tick EXCEPT !.step = "next", !.todo = Groups]
               ELSE [tick EXCEPT !.todo = @ \ {g}]
    /\ UNCHANGED <<pool, lastDesired, degraded, issues, told, fate, apart>>

Checking == UNCHANGED <<lastDesired, degraded, snap, told, apart>>
Passes == UNCHANGED <<pool, issues, fate>>

TakeGroup(g) ==
    /\ TickAt("next") /\ g \in tick.todo
    /\ tick' = [tick EXCEPT !.step = "liveness", !.group = g, !.left = Pool(g, snap),
                            !.todo = @ \ {g}]
    /\ Checking /\ Passes

(* Mutant: that the process had exited is remembered of a runner torn down.*)
CondemnHalf(type, r, states) ==
    /\ tick.group \notin stuck
    /\ issues' = issues \cup {Issue(type, tick.group, r)}
    /\ IF cond[r] \in states
       THEN /\ cond' = [cond EXCEPT ![r] = "out"] /\ UNCHANGED dead
            /\ untold' = untold \cup {r} /\ UNCHANGED <<stuck, behind>>
       ELSE UNCHANGED <<pool, fate>>

(* An issue for r and, where the scaler still has it in one of states, its *)
(* end: KillRunner or KillIdleRunner, which look it up under mu.           *)
Condemn(type, r, states) ==
    /\ tick.group \notin stuck
    /\ issues' = issues \cup {Issue(type, tick.group, r)}
    /\ IF cond[r] \in states
       THEN /\ cond' = [cond EXCEPT ![r] = "out"] /\ dead' = dead \ {r}
            /\ untold' = untold \cup {r} /\ UNCHANGED <<stuck, behind>>
       ELSE UNCHANGED <<pool, fate>>

AllStates == {"idle", "late", "busy", "over"}

(* The process behind the snapshot may have left the pool since.  Whatever *)
(* is in a pool was started and has a PID: the skip in line 101 is idle.   *)
Alive(r) == cond[r] # "out" /\ r \notin dead

CheckLiveness(r) ==
    /\ TickAt("liveness") /\ r \in tick.left
    /\ tick' = [tick EXCEPT !.left = @ \ {r}]
    /\ IF Alive(r) THEN Passes ELSE Condemn("zombie", r, AllStates)
    /\ Checking

CheckTimeout(r) ==
    /\ TickAt("timeouts") /\ r \in tick.left
    /\ tick' = [tick EXCEPT !.left = @ \ {r}]
    /\ IF snap[r] = "over" THEN Condemn("timeout", r, AllStates) ELSE Passes
    /\ Checking

Killable(g) ==
    Cardinality({r \in Pool(g, snap) : snap[r] \in {"idle", "late"}}) - MinRunners[g]

CheckIdle(r) ==
    /\ TickAt("idle") /\ r \in tick.left
    /\ IF snap[r] = "late" /\ tick.quota > 0
       THEN /\ tick' = [tick EXCEPT !.left = @ \ {r}, !.quota = @ - 1]
            /\ Condemn("idle", r, {"idle", "late"})
       ELSE tick' = [tick EXCEPT !.left = @ \ {r}] /\ Passes
    /\ Checking

NextCheck ==
    /\ tick.left = {}
    /\ \/ /\ tick.step = "liveness"
          /\ tick' = [tick EXCEPT !.step = "timeouts", !.left = Pool(tick.group, snap)]
       \/ /\ tick.step = "timeouts"
          /\ tick' = [tick EXCEPT !.step = "idle", !.left = Pool(tick.group, snap),
                                  !.quota = Killable(tick.group)]
       \/ /\ tick.step = "idle"
          /\ tick' = [tick EXCEPT !.step = "divergence"]
    /\ Checking /\ Passes

(* What a group wants now: lastDesired less what waits for capacity.       *)
Apart(g, desired) == desired > 0 /\ Cardinality(Pool(g, snap)) # desired

(* When it was first seen so (mutant: this is never reset).                *)
DegradedSinceFirst(g, desired) ==
    IF Apart(g, desired) /\ degraded[g] = -1 THEN 0 ELSE degraded[g]

DegradedSince(g, desired) ==
    IF lastDesired[g] # 0 /\ ~Apart(g, desired) THEN -1 ELSE DegradedSinceFirst(g, desired)

(* Every runner that the group misses waits for capacity.                  *)
WaitsForAll(g, deferred) ==
    deferred > 0 /\ Cardinality(Pool(g, snap)) + deferred >= lastDesired[g]

CheckDivergence(deferred) ==
    /\ TickAt("divergence")
    /\ LET g == tick.group
           desired == lastDesired[g] - deferred
       IN  /\ degraded' = [degraded EXCEPT ![g] = DegradedSince(g, desired)]
           /\ apart' = [apart EXCEPT ![g] =
                IF lastDesired[g] # 0 /\ ~Apart(g, desired) THEN 0
                ELSE IF @ > DivergenceTimeout THEN @ ELSE @ + 1]
           /\ issues' = issues
                \cup (IF deferred > 0 THEN {Issue("waiting", g, NoRunner)} ELSE {})
                \cup (IF Apart(g, desired) /\ degraded[g] = DivergenceTimeout
                      THEN {Issue("degraded", g, NoRunner)} ELSE {})
    /\ tick' = [tick EXCEPT !.step = "next", !.group = NoGroup, !.quota = 0,
                            !.deferring = IF WaitsForAll(tick.group, deferred)
                                          THEN @ \cup {tick.group} ELSE @]
    /\ UNCHANGED <<pool, lastDesired, snap, told, fate>>

(* What Uptime Kuma is told of a group.                                    *)
GroupStatus(actual, desired) ==
    IF desired = 0 THEN "idle"
    ELSE IF actual = 0 THEN "outage"
    ELSE IF actual * 100 < desired * DegradedThreshold THEN "critical"
    ELSE IF actual < desired THEN "degraded" ELSE "healthy"

(* The mutex is given back, and a goroutine reports a copy of the issues,  *)
(* those for the status alone excepted, and what each group has and wants. *)
ToTell == {issue \in issues : issue.type # "waiting"}

Unlock ==
    /\ TickAt("next") /\ tick.todo = {}
    /\ Len(reports) < MaxReports
    /\ tick' = NoTick
    /\ snap' = [r \in Runners |-> "out"]
    /\ reports' = IF ToTell = {} THEN reports ELSE Append(reports, ToTell)
    /\ kuma' = [g \in Groups |-> GroupStatus(Cardinality(Pool(g, snap)), lastDesired[g])]
    /\ deferring' = tick.deferring
    /\ UNCHANGED <<pool, lastDesired, degraded, issues, fate, apart>>

(* Mutant: the goroutine reads the monitor's own list.                     *)
SentShared(i) == ToTell

Sent(i) == reports[i]

Named(said) == {issue.runner : issue \in said}

(* Several of these goroutines may be under way, and any of them is first. *)
(* One hands its issues to the notifier one by one; the send of the last   *)
(* that it gets to may never end, whatever is behind it in the report.     *)
DispatchHealthReports(i) ==
    /\ i \in DOMAIN reports
    /\ \E said \in SUBSET Sent(i) \ {{}} :
        /\ untold' = untold \ Named(said)
        /\ behind' = (behind \cup Named(Sent(i) \ said)) \cap untold'
    /\ reports' = SubSeq(reports, 1, i - 1) \o SubSeq(reports, i + 1, Len(reports))
    /\ UNCHANGED <<pool, lastDesired, degraded, tick, snap, issues, kuma, deferring, stuck, apart>>

-----------------------------------------------------------------------------
Checks ==
    \/ \E g \in Groups : Snapshot(g) \/ TakeGroup(g)
    \/ \E r \in Runners : CheckLiveness(r) \/ CheckTimeout(r) \/ CheckIdle(r)
    \/ NextCheck
    \/ \E deferred \in 0 .. MaxDesired : CheckDivergence(deferred)
    \/ Unlock

Next ==
    \/ \E r \in Runners : Starts(r) \/ Ages(r) \/ JobStarts(r) \/ Exits(r) \/ Leaves(r)
    \/ \E g \in Groups, desired \in 0 .. MaxDesired : UpdateGroupStats(g, desired)
    \/ Lock \/ Checks
    \/ \E i \in 1 .. MaxReports : DispatchHealthReports(i)

Spec == Init /\ [][Next]_vars

(* A tick goes on, since a kill gives up after its grace, unless it waits  *)
(* for a mutex that is never given back; a goroutine reports until it is   *)
(* done or a send never ends.                                              *)
Fairness ==
    /\ WF_vars(Checks)
    /\ \A i \in 1 .. MaxReports : WF_vars(DispatchHealthReports(i))

FairSpec == Spec /\ Fairness

-----------------------------------------------------------------------------
IssueTypes == {"zombie", "timeout", "idle", "waiting", "degraded"}
Issues == [type : IssueTypes, group : Groups \cup {NoGroup}, runner : Runners \cup {NoRunner}]

(* The type of every variable.  Who was killed and not told of is in an    *)
(* issue, and the snapshots last as long as the tick.                      *)
TypeOK ==
    /\ cond \in [Runners -> {"out"} \cup AllStates]
    /\ snap \in [Runners -> {"out"} \cup AllStates]
    /\ dead \subseteq {r \in Runners : cond[r] # "out"}
    /\ lastDesired \in [Groups -> 0 .. MaxDesired]
    /\ degraded \in [Groups -> -1 .. DivergenceTimeout]
    /\ tick.step \in {"off", "snapshot", "next", "liveness", "timeouts", "idle", "divergence"}
    /\ tick.group \in Groups \cup {NoGroup} /\ tick.quota \in Int
    /\ tick.left \subseteq Runners /\ tick.todo \subseteq Groups /\ tick.deferring \subseteq Groups
    /\ issues \subseteq Issues
    /\ Len(reports) <= MaxReports /\ \A i \in DOMAIN reports : reports[i] \subseteq Issues
    /\ kuma \in [Groups -> {"idle", "outage", "critical", "degraded", "healthy"}]
    /\ stuck \subseteq Groups /\ deferring \subseteq Groups
    /\ behind \subseteq untold /\ untold \subseteq Runners
    /\ apart \in [Groups -> 0 .. DivergenceTimeout + 1]
    /\ MonitorFree => \A r \in Runners : snap[r] = "out"

(* A group is called degraded only after the whole of DivergenceTimeout in *)
(* which no tick found it with the runners that it could have: runners it  *)
(* got back, or that the budget defers, start the clock anew (checks.go:   *)
(* 214-237).  Ticks at which it wanted none count neither way (220).       *)
DegradedDeserved ==
    \A issue \in issues :
        issue.type = "degraded" => apart[issue.group] > DivergenceTimeout

(* Every runner that the monitor takes away is named to the notifier,      *)
(* however many goroutines report at once, whatever the next tick finds    *)
(* and although other reports hang (checks.go:49-59) -- unless its own     *)
(* report hangs at another issue, or the tick that took it away waits for  *)
(* a scaler whose mutex a send never gives back.                           *)
KillsTold ==
    \A r \in Runners : r \in untold ~> (r \notin untold \/ r \in behind \/ stuck # {})

(* README.md:126: deferred demand is never reported as a degraded group.   *)
DeferredNeverDegraded ==
    \A g \in deferring : kuma[g] \notin {"outage", "critical", "degraded"}
=============================================================================
