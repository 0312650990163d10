------------------------------- MODULE Scaler -------------------------------
(***************************************************************************)
(* The scaler of one group (internal/controller): the pool of idle and     *)
(* busy runners that the group's listener, the allocator's wake loop, the  *)
(* health monitor, the watchers of exited processes and the daemon's       *)
(* shutdown all work on at the same time.                                  *)
(*                                                                         *)
(* A step holds scaler.mu, unless it is a call that is made without it:    *)
(* one to GitHub, or stopping, cleaning up or deregistering a runner.      *)
(* provisionWithinBudget calls GitHub and starts processes with mu held.   *)
(* The budget is seen from one group: it grants any part of what is asked. *)
(***************************************************************************)
EXTENDS Naturals, Sequences, FiniteSets, Sums

CONSTANTS
    Runners,     \* names; a name is drawn again once nothing refers to it
    MinRunners,
    MaxRunners,
    Budgeted     \* a capacity block is configured

ASSUME ScalerAssumption ==
    /\ IsFiniteSet(Runners)
    /\ MinRunners \in Nat /\ MaxRunners \in Nat
    /\ MinRunners <= MaxRunners
    /\ Budgeted \in BOOLEAN

VARIABLES
    idle, busy,     \* the scaler's maps
    leased,         \* runners with an unfinished lease in the scaler's leases
    watched,        \* runners whose exit a goroutine still waits for
    lastCount,      \* {} or the last assigned count, as a singleton
    recBy, recPc,   \* who holds reconcileMu, and where in reconcile
    trim, current,  \* surplus runners still to release, the one at hand
    grant,          \* leases acquired for runners that are not started yet
    starting,       \* the runner that has a JIT config and no process yet
    tear,           \* the teardown under way of every runner
    health,         \* the monitor: off, locked (m.mu taken) or checking
    unchecked,      \* runners of its snapshot whose process it has not looked at
    snapIdle,       \* the runners that were idle in the snapshot,
    snapBusy,       \* those that were busy,
    killable,       \* and how many idle ones it may still kill
    listener,       \* off, up or down (to be restarted)
    phase,          \* of the daemon: serving, stopping, shutdown, exited
    registered,     \* GitHub: registered runners
    job,            \* GitHub: the job of every runner
    unnumbered,     \* runners whose ID GitHub's answer left out: RunnerID is 0
    alive,          \* processes that run
    stuck,          \* processes that even SIGKILL did not end
    bound           \* processes that die with the context they started under

pool    == <<idle, busy>>
leases  == <<leased, grant>>
rec     == <<lastCount, recBy, recPc, trim, current>>
monitor == <<health, unchecked, snapIdle, snapBusy, killable>>
daemon  == <<listener, phase>>
github  == <<registered, job, unnumbered>>
host    == <<alive, stuck, bound>>
vars    == <<pool, leases, watched, rec, starting, tear, monitor, daemon, github, host>>

Nobody == [by |-> "nobody", steps |-> <<>>]

Init ==
    /\ idle = {} /\ busy = {}
    /\ leased = {} /\ grant = 0
    /\ watched = {}
    /\ lastCount = {}
    /\ recBy = "nobody" /\ recPc = "off"
    /\ trim = {} /\ current = {}
    /\ starting = {}
    /\ tear = [r \in Runners |-> Nobody]
    /\ health = "off" /\ unchecked = {} /\ snapIdle = {} /\ snapBusy = {} /\ killable = 0
    /\ listener = "off" /\ phase = "serving"
    /\ registered = {}
    /\ job = [r \in Runners |-> "none"]
    /\ unnumbered = {}
    /\ alive = {} /\ stuck = {} /\ bound = {}

-----------------------------------------------------------------------------
(* Who may act.  scaler.mu is held by nobody else for longer than a step.  *)

(* Mutant: mu is taken before the monitor is told, in the wrong order.     *)
MuHeldForStats == recPc \notin {"stats", "provision"}

MuFree == recPc # "provision"

Free(actor) == \A r \in Runners : tear[r].by # actor

ListenerFree ==
    /\ listener = "up" /\ phase \in {"serving", "stopping"}
    /\ recBy # "listener" /\ Free("listener")

Target(count) == IF MinRunners + count > MaxRunners THEN MaxRunners ELSE MinRunners + count

-----------------------------------------------------------------------------
(* Tearing a runner down.  The caller has taken it out of the pool; the    *)
(* steps are what is left to do, in order, without any lock.               *)

(* Mutant: the reservation is given back before the process is stopped.    *)
ReleaseFirst == <<"cleanup", "stop">>

Stopping == <<"stop", "cleanup">>
Killing == <<"stop", "cleanup", "deregister">>

TearDown(r, actor, steps) == tear' = [tear EXCEPT ![r] = [by |-> actor, steps |-> steps]]

(* Mutant: a runner is torn down and stays in the pool until it is gone.   *)
TakeOutLater(r) == UNCHANGED pool

TakeOut(r) == idle' = idle \ {r} /\ busy' = busy \ {r}

StepDone(r) ==
    tear' = [tear EXCEPT ![r] =
                IF Len(@.steps) = 1 THEN Nobody ELSE [by |-> @.by, steps |-> Tail(@.steps)]]

NextStep(r, step) == tear[r].steps # <<>> /\ Head(tear[r].steps) = step

ProcessEnds(r) ==
    /\ alive' = alive \ {r} /\ stuck' = stuck \ {r} /\ bound' = bound \ {r}

(* Stop: SIGTERM, then SIGKILL; even that may fail, and teardown goes on.  *)
StopProcess(r) ==
    /\ NextStep(r, "stop")
    /\ \/ ProcessEnds(r)
       \/ r \in alive /\ stuck' = stuck \cup {r} /\ UNCHANGED <<alive, bound>>
    /\ StepDone(r)
    /\ UNCHANGED <<pool, leases, watched, rec, starting, monitor, daemon, github>>

(* Mutant: a failed Cleanup returns before the lease is released.          *)
CleanupKeepsLease(r) ==
    /\ NextStep(r, "cleanup")
    /\ \/ leased' = leased \ {r} /\ StepDone(r)
       \/ UNCHANGED leased /\ tear' = [tear EXCEPT ![r] = Nobody]
    /\ UNCHANGED <<pool, grant, watched, rec, starting, monitor, daemon, github, host>>

(* cleanupProcess: the lease is released whether Cleanup failed or not; a  *)
(* kill does not go on to deregister a runner whose cleanup failed.        *)
CleanupProcess(r) ==
    /\ NextStep(r, "cleanup")
    /\ leased' = leased \ {r}
    /\ StepDone(r) \/ tear' = [tear EXCEPT ![r] = Nobody]
    /\ UNCHANGED <<pool, grant, watched, rec, starting, monitor, daemon, github, host>>

(* removeRegistration: GitHub refuses to remove a runner that has a job,   *)
(* and is not asked for one whose ID is not known.                         *)
Deregister(r) ==
    /\ NextStep(r, "deregister")
    /\ StepDone(r)
    /\ \/ /\ r \notin unnumbered /\ job[r] # "running"
          /\ registered' = registered \ {r}
       \/ UNCHANGED registered
    /\ UNCHANGED <<pool, leases, watched, rec, starting, monitor, daemon, job, unnumbered, host>>

-----------------------------------------------------------------------------
(* Reconcile, under reconcileMu: called by the listener with a new count,  *)
(* or by the wake loop with the last one.                                  *)

Begin(actor) ==
    /\ recBy = "nobody"
    /\ recBy' = actor
    /\ recPc' = "stats"
    /\ UNCHANGED <<pool, leases, watched, trim, current, starting, tear, monitor, daemon,
                   github, host>>

HandleDesiredRunnerCount(count) ==
    /\ ListenerFree
    /\ lastCount' = {count}
    /\ Begin("listener")

(* Its loop may still take a wake-up once the daemon is told to stop.      *)
Wake ==
    /\ Budgeted
    /\ phase \in {"serving", "stopping"}
    /\ listener # "off"
    /\ lastCount # {}
    /\ UNCHANGED lastCount
    /\ Begin("wake")

Goto(pc) == recPc' = pc /\ UNCHANGED <<lastCount, recBy>>

(* UpdateGroupStats takes the monitor's lock, which a check holds to its   *)
(* end; neither mu nor anything a check needs is held meanwhile.           *)
UpdateGroupStats ==
    /\ recPc = "stats"
    /\ health = "off"
    /\ Goto(IF Budgeted THEN "surplus" ELSE "lock")
    /\ UNCHANGED <<pool, leases, watched, trim, current, starting, tear, monitor, daemon,
                   github, host>>

Surplus(count) ==
    Monus(Cardinality(idle), Larger(MinRunners, Monus(Target(count), Cardinality(busy))))

(* The newest of the idle runners that are too many; their ages are left   *)
(* out, so that any of them may be the newest.                             *)
SurplusIdle ==
    /\ recPc = "surplus"
    /\ \E S \in SUBSET idle, count \in lastCount :
        Cardinality(S) = Surplus(count) /\ trim' = S
    /\ Goto("trim")
    /\ UNCHANGED <<pool, leases, watched, current, starting, tear, monitor, daemon, github,
                   host>>

(* releaseSurplusRunner: look the runner up, ...                           *)
TrimLooksUp(r) ==
    /\ recPc = "trim"
    /\ Free("reconcile")
    /\ r \in trim
    /\ trim' = trim \ {r}
    /\ IF r \in idle THEN current' = {r} /\ Goto("ask")
       ELSE UNCHANGED <<current, lastCount, recBy, recPc>>
    /\ UNCHANGED <<pool, leases, watched, starting, tear, monitor, daemon, github, host>>

(* Mutant: the runner is stopped first and GitHub is told afterwards.      *)
TrimStopsFirst(r) ==
    /\ recPc = "ask"
    /\ r \in current
    /\ Goto("take")
    /\ UNCHANGED <<pool, leases, watched, trim, current, starting, tear, monitor, daemon,
                   github, host>>

(* ... ask GitHub to remove it, and keep it when GitHub does not agree;    *)
(* one whose ID is not known is not asked about ...                        *)
TrimAsks(r) ==
    /\ recPc = "ask"
    /\ r \in current
    /\ \/ /\ r \in unnumbered
          /\ Goto("take")
          /\ UNCHANGED <<current, registered>>
       \/ /\ r \notin unnumbered /\ job[r] # "running"
          /\ registered' = registered \ {r}
          /\ Goto("take")
          /\ UNCHANGED current
       \/ /\ r \notin unnumbered
          /\ Goto("trim")
          /\ current' = {}
          /\ UNCHANGED registered
    /\ UNCHANGED <<pool, leases, watched, trim, starting, tear, monitor, daemon, job, unnumbered,
                   host>>

(* ... and tear it down if it is still idle.                               *)
TrimTakes(r) ==
    /\ recPc = "take"
    /\ r \in current
    /\ current' = {}
    /\ Goto("trim")
    /\ IF r \in idle THEN TakeOut(r) /\ TearDown(r, "reconcile", Stopping)
       ELSE UNCHANGED <<pool, tear>>
    /\ UNCHANGED <<leases, watched, trim, starting, monitor, daemon, github, host>>

(* Mutant: what is missing is counted without the busy runners.            *)
NeedOfIdle == Monus(Target(CHOOSE c \in lastCount : TRUE), Cardinality(idle))

Need == Monus(Target(CHOOSE c \in lastCount : TRUE), Cardinality(idle) + Cardinality(busy))

(* mu is taken, what is missing is counted, and the budget grants part of  *)
(* it; without a budget all of it is started.                              *)
TakeMu ==
    /\ recPc = "lock" \/ (recPc = "trim" /\ trim = {} /\ Free("reconcile"))
    /\ Goto("provision")
    /\ IF Budgeted THEN grant' \in 0 .. Need ELSE grant' = Need
    /\ UNCHANGED <<pool, leased, watched, trim, current, starting, tear, monitor, daemon,
                   github, host>>

Unused(r) ==
    /\ r \notin idle \cup busy \cup leased \cup watched \cup registered \cup alive \cup trim
    /\ r \notin snapIdle \cup snapBusy
    /\ tear[r] = Nobody

(* startRunner: a JIT config for a new name.  An answer that says nothing  *)
(* of the runner is no error: its ID is 0 then.                            *)
GenerateJITConfig(r) ==
    /\ recPc = "provision" /\ grant > 0 /\ starting = {}
    /\ Unused(r)
    /\ starting' = {r}
    /\ registered' = registered \cup {r}
    /\ job' = [job EXCEPT ![r] = "none"]
    /\ unnumbered' \in {unnumbered \cup {r}, unnumbered \ {r}}
    /\ UNCHANGED <<pool, leases, watched, rec, tear, monitor, daemon, host>>

(* The lease is cancelled.                                                 *)
JITConfigFails ==
    /\ recPc = "provision" /\ grant > 0 /\ starting = {}
    /\ grant' = grant - 1
    /\ UNCHANGED <<pool, leased, watched, rec, starting, tear, monitor, daemon, github, host>>

(* Mutant: nothing waits for the exit of the new process.                  *)
StartUnwatched(r) ==
    /\ r \in starting
    /\ starting' = {}
    /\ grant' = grant - 1
    /\ idle' = idle \cup {r}
    /\ alive' = alive \cup {r}
    /\ leased' = leased \cup (IF Budgeted THEN {r} ELSE {})
    /\ bound' = IF recBy = "wake" THEN bound \cup {r} ELSE bound
    /\ UNCHANGED <<watched, busy, rec, tear, monitor, daemon, github, stuck>>

(* The process starts.  Under the context of Wake it dies when the daemon  *)
(* stops; that of the listener is the SDK's, which may detach it.          *)
StartRunner(r) ==
    /\ r \in starting
    /\ starting' = {}
    /\ grant' = grant - 1
    /\ idle' = idle \cup {r}
    /\ alive' = alive \cup {r}
    /\ IF Budgeted THEN leased' = leased \cup {r} /\ watched' = watched \cup {r}
       ELSE UNCHANGED <<leased, watched>>
    /\ bound' = IF recBy = "wake" THEN bound \cup {r} ELSE bound
    /\ UNCHANGED <<busy, rec, tear, monitor, daemon, github, stuck>>

(* Mutant: provisionWithinBudget cancels the lease once more.              *)
CancelsTwice(r) ==
    /\ r \in starting
    /\ starting' = {}
    /\ grant' = grant - 2
    /\ (r \notin unnumbered /\ registered' = registered \ {r}) \/ UNCHANGED registered
    /\ UNCHANGED <<pool, leased, watched, rec, tear, monitor, daemon, job, unnumbered, host>>

(* Prepare or Start failed: deregister, then cancel the lease.             *)
StartFails(r) ==
    /\ r \in starting
    /\ starting' = {}
    /\ grant' = grant - 1
    /\ (r \notin unnumbered /\ registered' = registered \ {r}) \/ UNCHANGED registered
    /\ UNCHANGED <<pool, leased, watched, rec, tear, monitor, daemon, job, unnumbered, host>>

ReconcileReturns ==
    /\ recPc = "provision" /\ grant = 0 /\ starting = {}
    /\ recBy' = "nobody"
    /\ recPc' = "off"
    /\ UNCHANGED <<pool, leases, watched, lastCount, trim, current, starting, tear, monitor,
                   daemon, github, host>>

-----------------------------------------------------------------------------
(* Events of jobs.  The listener handles one at a time, and a message that *)
(* was not acknowledged is delivered again.                                *)

HandleJobStarted(r) ==
    /\ ListenerFree /\ MuFree
    /\ job[r] # "none"
    /\ r \in idle
    /\ idle' = idle \ {r}
    /\ busy' = busy \cup {r}
    /\ UNCHANGED <<leases, watched, rec, starting, tear, monitor, daemon, github, host>>

HandleJobCompleted(r) ==
    /\ ListenerFree /\ MuFree
    /\ job[r] = "done"
    /\ r \in idle \cup busy
    /\ TakeOut(r)
    /\ TearDown(r, "listener", Stopping)
    /\ UNCHANGED <<leases, watched, rec, starting, monitor, daemon, github, host>>

-----------------------------------------------------------------------------
(* killRunner and killIdleRunner.                                          *)

KillRunner(r, actor) ==
    /\ MuFree
    /\ IF r \in idle \cup busy
       THEN TakeOut(r) /\ TearDown(r, actor, Killing)
       ELSE UNCHANGED <<pool, tear>>

KillIdleRunner(r, actor) ==
    /\ MuFree
    /\ IF r \in idle
       THEN TakeOut(r) /\ TearDown(r, actor, Killing)
       ELSE UNCHANGED <<pool, tear>>

(* watchIdleExit: the goroutine that waits for the exit of a process.      *)
WatcherFires(r) ==
    /\ r \in watched \ alive
    /\ phase # "exited"
    /\ watched' = watched \ {r}
    /\ KillIdleRunner(r, "watcher")
    /\ UNCHANGED <<leases, rec, starting, monitor, daemon, github, host>>

-----------------------------------------------------------------------------
(* The monitor's check of this group: it takes its own lock, the snapshot  *)
(* under mu, and acts on the snapshot.                                     *)

CheckBegins ==
    /\ health = "off"
    /\ phase \in {"serving", "stopping"}
    /\ health' = "locked"
    /\ UNCHANGED <<pool, leases, watched, rec, starting, tear, unchecked, snapIdle, snapBusy,
                   killable, daemon, github, host>>

(* The controller shows no runners of a group whose listener is down.      *)
Snapshots ==
    /\ health = "locked" /\ MuFree
    /\ health' = "checking"
    /\ snapIdle' = IF listener = "up" THEN idle ELSE {}
    /\ snapBusy' = IF listener = "up" THEN busy ELSE {}
    /\ unchecked' = snapIdle' \cup snapBusy'
    /\ killable' = Monus(Cardinality(snapIdle'), MinRunners)
    /\ UNCHANGED <<pool, leases, watched, rec, starting, tear, daemon, github, host>>

(* Nor does it find them to be killed.                                     *)
Kill(r) ==
    IF listener = "up" THEN KillRunner(r, "health") ELSE UNCHANGED <<pool, tear>>

KillIdle(r) ==
    IF listener = "up" THEN KillIdleRunner(r, "health") ELSE UNCHANGED <<pool, tear>>

CheckLiveness(r) ==
    /\ health = "checking" /\ Free("health")
    /\ r \in unchecked
    /\ unchecked' = unchecked \ {r}
    /\ IF r \in alive THEN UNCHANGED <<pool, tear>> ELSE Kill(r)
    /\ UNCHANGED <<leases, watched, rec, starting, health, snapIdle, snapBusy, killable,
                   daemon, github, host>>

CheckTimeouts(r) ==
    /\ health = "checking" /\ Free("health") /\ unchecked = {}
    /\ r \in snapBusy
    /\ snapBusy' = snapBusy \ {r}
    /\ Kill(r)
    /\ UNCHANGED <<leases, watched, rec, starting, health, unchecked, snapIdle, killable,
                   daemon, github, host>>

CheckIdleTimeouts(r) ==
    /\ health = "checking" /\ Free("health") /\ unchecked = {}
    /\ r \in snapIdle
    /\ killable > 0
    /\ snapIdle' = snapIdle \ {r}
    /\ killable' = killable - 1
    /\ KillIdle(r)
    /\ UNCHANGED <<leases, watched, rec, starting, health, unchecked, snapBusy, daemon,
                   github, host>>

CheckEnds ==
    /\ health = "checking" /\ Free("health") /\ unchecked = {}
    /\ health' = "off" /\ snapIdle' = {} /\ snapBusy' = {} /\ killable' = 0
    /\ UNCHANGED <<pool, leases, watched, rec, starting, tear, unchecked, daemon, github,
                   host>>

-----------------------------------------------------------------------------
(* The group's listener and the daemon.                                    *)

(* scalerFor: with a budget the scaler outlives the listener; without one  *)
(* a new scaler knows nothing of the old one's runners.                    *)
ListenerStarts ==
    /\ phase = "serving"
    /\ listener # "up"
    /\ listener' = "up"
    /\ IF Budgeted \/ listener = "off" THEN UNCHANGED <<pool, lastCount>>
       ELSE idle' = {} /\ busy' = {} /\ lastCount' = {}
    /\ UNCHANGED <<leases, watched, recBy, recPc, trim, current, starting, tear, monitor,
                   phase, github, host>>

(* The listener returns an error, between two messages.                    *)
ListenerFails ==
    /\ ListenerFree
    /\ listener' = "down"
    /\ UNCHANGED <<pool, leases, watched, rec, starting, tear, monitor, phase, github, host>>

StopSignal ==
    /\ phase = "serving"
    /\ phase' = "stopping"
    /\ UNCHANGED <<pool, leases, watched, rec, starting, tear, monitor, listener, github,
                   host>>

(* os/exec kills a process once the context it was started under is done.  *)
ContextKills(r) ==
    /\ phase \in {"stopping", "shutdown"}
    /\ r \in bound \cap alive
    /\ ProcessEnds(r)
    /\ UNCHANGED <<pool, leases, watched, rec, starting, tear, monitor, daemon, github>>

(* Every actor has returned.  A scaler whose listener is down is known to  *)
(* the controller only if it was retained, which takes a budget.           *)
Shutdown ==
    /\ phase = "stopping"
    /\ recBy = "nobody" /\ health = "off"
    /\ Free("listener")
    /\ phase' = "shutdown"
    /\ IF Budgeted \/ listener = "up"
       THEN /\ idle' = {} /\ busy' = {}
            /\ tear' = [r \in Runners |->
                 IF r \in idle
                 THEN [by |-> "shutdown", steps |-> <<"deregister", "stop", "cleanup">>]
                 ELSE IF r \in busy
                 THEN [by |-> "shutdown", steps |-> <<"stop", "deregister", "cleanup">>]
                 ELSE tear[r]]
       ELSE UNCHANGED <<pool, tear>>
    /\ UNCHANGED <<leases, watched, rec, starting, monitor, listener, github, host>>

(* Shutdown waits for its own teardowns, up to its timeout; then the       *)
(* daemon's process ends, and with it everything it was about to do.       *)
Exit ==
    /\ phase = "shutdown"
    /\ phase' = "exited"
    /\ tear' = [r \in Runners |-> Nobody]
    /\ UNCHANGED <<pool, leases, watched, rec, starting, monitor, listener, github, host>>

-----------------------------------------------------------------------------
(* GitHub and the processes.                                               *)

AssignJob(r) ==
    /\ r \in registered \cap alive
    /\ job[r] = "none"
    /\ job' = [job EXCEPT ![r] = "running"]
    /\ UNCHANGED <<pool, leases, watched, rec, starting, tear, monitor, daemon, registered,
                   unnumbered, host>>

(* A runner has one job: GitHub removes its registration with it.          *)
JobEnds(r) ==
    /\ job[r] = "running"
    /\ job' = [job EXCEPT ![r] = "done"]
    /\ registered' = registered \ {r}
    /\ UNCHANGED <<pool, leases, watched, rec, starting, tear, monitor, daemon, unnumbered,
                   host>>

(* A process ends when its job is done, or for reasons of its own.         *)
ProcessExits(r) ==
    /\ r \in alive
    /\ ProcessEnds(r)
    /\ UNCHANGED <<pool, leases, watched, rec, starting, tear, monitor, daemon, github>>

-----------------------------------------------------------------------------
Reconcile ==
    \/ \E count \in 0 .. MaxRunners : HandleDesiredRunnerCount(count)
    \/ Wake
    \/ UpdateGroupStats
    \/ SurplusIdle
    \/ \E r \in Runners : TrimLooksUp(r) \/ TrimAsks(r) \/ TrimTakes(r)
    \/ TakeMu
    \/ \E r \in Runners : GenerateJITConfig(r) \/ StartRunner(r) \/ StartFails(r)
    \/ JITConfigFails
    \/ ReconcileReturns

Events == \E r \in Runners : HandleJobStarted(r) \/ HandleJobCompleted(r) \/ WatcherFires(r)

Teardown == \E r \in Runners : StopProcess(r) \/ CleanupProcess(r) \/ Deregister(r)

Check ==
    \/ CheckBegins
    \/ Snapshots
    \/ \E r \in Runners : CheckLiveness(r) \/ CheckTimeouts(r) \/ CheckIdleTimeouts(r)
    \/ CheckEnds

Daemon ==
    \/ ListenerStarts
    \/ ListenerFails
    \/ StopSignal
    \/ \E r \in Runners : ContextKills(r)
    \/ Shutdown
    \/ Exit

World == \E r \in Runners : AssignJob(r) \/ JobEnds(r) \/ ProcessExits(r)

Next ==
    \/ Reconcile
    \/ Events
    \/ Teardown
    \/ Check
    \/ Daemon
    \/ World

Spec == Init /\ [][Next]_vars

(* Every goroutine goes on with what it has begun, one that waits for a    *)
(* lock gets it in the end, a listener that failed is started again and    *)
(* does not fail for ever, and GitHub ends the job of a dead runner and    *)
(* delivers the event.  What is sent with mu held ends (in Health it may   *)
(* not).  Nothing makes a count arrive or a check begin.                   *)
Fairness ==
    /\ SF_vars(UpdateGroupStats)
    /\ WF_vars(SurplusIdle)
    /\ WF_vars(TakeMu)
    /\ WF_vars(JITConfigFails \/ \E r \in Runners : GenerateJITConfig(r))
    /\ WF_vars(ReconcileReturns)
    /\ SF_vars(Snapshots)
    /\ WF_vars(CheckEnds)
    /\ WF_vars(ListenerStarts)
    /\ <>[](listener # "down" \/ phase # "serving")
    /\ \A r \in Runners :
        /\ WF_vars(TrimLooksUp(r) \/ TrimAsks(r) \/ TrimTakes(r))
        /\ WF_vars(StopProcess(r) \/ CleanupProcess(r) \/ Deregister(r))
        /\ WF_vars(StartRunner(r) \/ StartFails(r))
        /\ SF_vars(WatcherFires(r))
        /\ SF_vars(CheckLiveness(r))
        /\ WF_vars(r \notin alive /\ JobEnds(r))
        /\ SF_vars(HandleJobCompleted(r))

FairSpec == Spec /\ Fairness

-----------------------------------------------------------------------------
(* The type of every variable.                                             *)
TypeOK ==
    /\ idle \in SUBSET Runners /\ busy \in SUBSET Runners
    /\ leased \in SUBSET Runners /\ grant \in Nat
    /\ watched \in SUBSET Runners
    /\ lastCount \in SUBSET Nat /\ Cardinality(lastCount) <= 1
    /\ recBy \in {"nobody", "listener", "wake"}
    /\ recPc \in {"off", "stats", "surplus", "trim", "ask", "take", "lock", "provision"}
    /\ trim \in SUBSET Runners
    /\ current \in SUBSET Runners /\ Cardinality(current) <= 1
    /\ starting \in SUBSET Runners /\ Cardinality(starting) <= grant
    /\ tear \in [Runners ->
          [by : {"nobody", "listener", "reconcile", "watcher", "health", "shutdown"},
           steps : Seq({"stop", "cleanup", "deregister"})]]
    /\ health \in {"off", "locked", "checking"}
    /\ unchecked \in SUBSET Runners
    /\ snapIdle \in SUBSET Runners /\ snapBusy \in SUBSET Runners /\ killable \in Nat
    /\ listener \in {"off", "up", "down"}
    /\ phase \in {"serving", "stopping", "shutdown", "exited"}
    /\ registered \in SUBSET Runners
    /\ job \in [Runners -> {"none", "running", "done"}]
    /\ unnumbered \in SUBSET Runners
    /\ alive \in SUBSET Runners /\ stuck \in SUBSET Runners /\ bound \in SUBSET Runners

Awaits(r, step) == \E i \in DOMAIN tear[r].steps : tear[r].steps[i] = step

(* One owner: a runner that is being torn down is in neither map, so that  *)
(* no two of the listener, the reconcile, the monitor, the watchers and    *)
(* the shutdown ever tear the same runner down.                            *)
OneOwner ==
    /\ idle \cap busy = {}
    /\ \A r \in idle \cup busy : tear[r] = Nobody

(* A reservation lasts exactly as long as its runner: from its start until *)
(* its cleanup, whoever tears it down and whatever fails on the way        *)
(* (README, host budget: "released when the runner is torn down").         *)
ReservedWhileItLasts ==
    Budgeted /\ phase # "exited" =>
        leased = {r \in Runners : r \in idle \cup busy \/ Awaits(r, "cleanup")}

(* No process of a runner goes on without a reservation: the host never    *)
(* runs more than the budget admitted, but for what SIGKILL did not end.   *)
ReservedWhileRunning ==
    Budgeted /\ phase # "exited" => alive \ stuck \subseteq leased

(* The pool never grows past the group's maximum, whoever takes runners    *)
(* out of it while reconcile starts others.                                *)
PoolWithinMax == Cardinality(idle \cup busy) + grant <= MaxRunners

(* Releasing surplus runners never ends a job, not even one whose          *)
(* JobStarted is still on its way (scaler_capacity.go:162-163), for every  *)
(* runner whose ID is known.  Of one whose ID is not, GitHub is not asked. *)
TrimSparesJobs ==
    [][\A r \in (alive \ alive') \ unnumbered :
        tear[r].by = "reconcile" /\ NextStep(r, "stop") => job[r] # "running"]_vars

(* scaler_ops.go:122-124: killIdleRunner "tears down a runner only if it   *)
(* is still idle: between the health snapshot and the kill, the runner may *)
(* have picked up a job, and killing it then would destroy the job's       *)
(* workspace mid-run".                                                     *)
IdleKillSparesJobs ==
    [][\A r \in Runners :
        r \in alive \cap (snapIdle \ snapIdle') /\ tear'[r].by = "health" /\ tear[r] = Nobody
            => job[r] # "running"]_vars

(* Every reconcile comes to its end, so that no listener and no wake pass  *)
(* hangs: the locks of the scaler, the monitor and the teardowns never     *)
(* wait for one another in a circle (scaler_capacity.go:107).              *)
ReconcileTerminates == recBy # "nobody" ~> (recBy = "nobody" \/ phase = "exited")

(* The reservation of a runner whose process has ended comes back, whether *)
(* it ended idle, with a job, or while reconcile held the lock, and with   *)
(* no help from the monitor (watchIdleExit, HandleJobCompleted).           *)
DeadReleased ==
    \A r \in Runners : r \in leased \ alive ~> (r \notin leased \/ phase # "serving")
=============================================================================
