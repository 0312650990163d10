------------------------------ MODULE Recovery ------------------------------
(***************************************************************************)
(* What a runner leaves behind outside the daemon's memory - a             *)
(* registration on GitHub, a workdir with a PID file, a cgroup, a process  *)
(* - and what becomes of it when the daemon dies at any moment and is      *)
(* started again (internal/runner, internal/cgroup, cli/daemon.go).  The   *)
(* budget, the locks and the counts are those of Scaler and left out:      *)
(* runners are started and torn down at any time.  Another host may run    *)
(* runners in the same scale set, as under a legacy name without host_id.  *)
(***************************************************************************)
EXTENDS Naturals, Sequences, FiniteSets

CONSTANT Runners  \* of one scale set; a name is drawn again once nothing refers to it

ASSUME RecoveryAssumption == IsFiniteSet(Runners)

VARIABLES
    daemon,      \* down, cleaning (what was left behind), serving, stopping
    limits,      \* the group sets resources, so that its runners get cgroups
    pool,        \* runners that are started and not under teardown
    todo,        \* the steps a start or teardown still has to take
    asked,       \* the surplus runner GitHub has been asked to remove
    toClean,     \* workdirs CleanupStale has not come to
    stale,       \* staleRunners: names found in workdirs
    pass,        \* names the current removeStaleRegistrations is to look up
    listener,    \* off, connecting or up
    registered,  \* GitHub: runners registered in the group's scale set
    abroad,      \* those of them that another host runs
    busy,        \* those of them that have a job
    workdir,     \* none, bare, or pid: with a .ghr-pid file
    cgroups,     \* cgroups that exist
    alive        \* processes that run

names  == <<stale, pass>>
memory == <<pool, todo, asked, toClean, names, listener>>
github == <<registered, abroad, busy>>
disk   == <<workdir, cgroups>>
vars   == <<daemon, limits, memory, github, disk, alive>>

Init ==
    /\ daemon = "down" /\ limits = FALSE
    /\ pool = {} /\ todo = [r \in Runners |-> <<>>] /\ asked = {} /\ toClean = {}
    /\ stale = {} /\ pass = {} /\ listener = "off"
    /\ registered = {} /\ abroad = {} /\ busy = {}
    /\ workdir = [r \in Runners |-> "none"] /\ cgroups = {}
    /\ alive = {}

-----------------------------------------------------------------------------
(* The steps of one runner, taken one at a time.                           *)

NextStep(r, step) == todo[r] # <<>> /\ Head(todo[r]) = step
StepDone(r) == todo' = [todo EXCEPT ![r] = Tail(@)]
Continue(r, steps) == todo' = [todo EXCEPT ![r] = steps]

Awaits(r, step) == \E i \in DOMAIN todo[r] : todo[r][i] = step

Starting == <<"prepare", "place", "start", "record">>

Unused(r) ==
    /\ r \notin pool \cup asked \cup toClean \cup stale \cup pass
    /\ r \notin registered \cup abroad \cup cgroups \cup alive
    /\ todo[r] = <<>>
    /\ workdir[r] = "none"

-----------------------------------------------------------------------------
(* startRunner.  When a step fails the runner is deregistered; what is on  *)
(* the disk by then stays there.                                           *)

(* GitHub registers the runner even if its answer is lost, and the daemon  *)
(* has no id to deregister it by then.                                     *)
GenerateJITConfig(r) ==
    /\ daemon = "serving"
    /\ Unused(r)
    /\ registered' = registered \cup {r}
    /\ Continue(r, Starting) \/ UNCHANGED todo
    /\ UNCHANGED <<daemon, limits, pool, asked, toClean, names, listener, abroad, busy, disk, alive>>

Prepare(r) ==
    /\ NextStep(r, "prepare")
    /\ \/ workdir' = [workdir EXCEPT ![r] = "bare"] /\ StepDone(r)
       \/ /\ workdir' = [workdir EXCEPT ![r] = "bare"] \/ UNCHANGED workdir
          /\ Continue(r, <<"deregister">>)
    /\ UNCHANGED <<daemon, limits, pool, asked, toClean, names, listener, github, cgroups, alive>>

(* Destroy kills what runs in the cgroup of r and removes the cgroup; each *)
(* may fail, and a cgroup with a process in it stays.                      *)
DestroyCgroup(r) ==
    \/ /\ alive' = IF r \in cgroups THEN alive \ {r} ELSE alive
       /\ cgroups' \in {cgroups \ {r}, cgroups}
    \/ /\ r \in alive
       /\ UNCHANGED <<alive, cgroups>>

(* No cgroup for a group without limits.                                   *)
PlaceInCgroup(r) ==
    /\ NextStep(r, "place")
    /\ cgroups' = IF limits THEN cgroups \cup {r} ELSE cgroups
    /\ StepDone(r)
    /\ UNCHANGED <<daemon, limits, pool, asked, toClean, names, listener, github, workdir, alive>>

(* The directory cannot be made, or it is made and cannot be configured,   *)
(* opened or attached, and its removal may fail in turn.                   *)
PlaceFails(r) ==
    /\ NextStep(r, "place")
    /\ limits
    /\ cgroups' \in {cgroups, cgroups \cup {r}}
    /\ Continue(r, <<"deregister">>)
    /\ UNCHANGED <<daemon, limits, pool, asked, toClean, names, listener, github, workdir, alive>>

StartProcess(r) ==
    /\ NextStep(r, "start")
    /\ alive' = alive \cup {r}
    /\ StepDone(r)
    /\ UNCHANGED <<daemon, limits, pool, asked, toClean, names, listener, github, disk>>

StartFails(r) ==
    /\ NextStep(r, "start")
    /\ DestroyCgroup(r)
    /\ Continue(r, <<"deregister">>)
    /\ UNCHANGED <<daemon, limits, pool, asked, toClean, names, listener, github, workdir>>

(* A PID file that cannot be written is only logged.                       *)
RecordPID(r) ==
    /\ NextStep(r, "record")
    /\ workdir' = [workdir EXCEPT ![r] = "pid"] \/ UNCHANGED workdir
    /\ StepDone(r)
    /\ pool' = pool \cup {r}
    /\ UNCHANGED <<daemon, limits, asked, toClean, names, listener, github, cgroups, alive>>

-----------------------------------------------------------------------------
(* Tearing runners down.                                                   *)

(* Mutant: the runner stays in the pool while it is torn down.             *)
TearDownInPool(r, steps) ==
    /\ daemon = "serving"
    /\ r \in pool
    /\ UNCHANGED pool
    /\ Continue(r, steps)

TearDown(r, steps) ==
    /\ daemon = "serving"
    /\ r \in pool
    /\ pool' = pool \ {r}
    /\ Continue(r, steps)

KillRunner(r) ==
    /\ TearDown(r, <<"stop", "cleanup", "deregister">>)
    /\ UNCHANGED <<daemon, limits, asked, toClean, names, listener, github, disk, alive>>

(* GitHub forgets the runner with the end of its job.                      *)
HandleJobCompleted(r) ==
    /\ r \notin registered
    /\ TearDown(r, <<"stop", "cleanup">>)
    /\ UNCHANGED <<daemon, limits, asked, toClean, names, listener, github, disk, alive>>

(* A surplus runner goes if GitHub removes it, or without a question when  *)
(* its ID is not known, and stays if the answer is lost; ...               *)
AsksRemoval(r) ==
    /\ daemon = "serving"
    /\ asked = {}
    /\ r \in pool
    /\ \/ r \notin busy /\ registered' = registered \ {r} /\ asked' \in {{r}, {}}
       \/ asked' = {r} /\ UNCHANGED registered
    /\ UNCHANGED <<daemon, limits, pool, todo, toClean, names, listener, abroad, busy, disk, alive>>

(* ... by then somebody else may have taken it out.                        *)
ReleaseSurplus(r) ==
    /\ r \in asked
    /\ asked' = {}
    /\ TearDown(r, <<"stop", "cleanup">>) \/ (r \notin pool /\ UNCHANGED <<pool, todo>>)
    /\ UNCHANGED <<daemon, limits, toClean, names, listener, github, disk, alive>>

StopProcess(r) ==
    /\ NextStep(r, "stop")
    /\ alive' = alive \ {r} \/ UNCHANGED alive
    /\ StepDone(r)
    /\ UNCHANGED <<daemon, limits, pool, asked, toClean, names, listener, github, disk>>

(* A workdir that cannot be removed, by the daemon or by a root container, *)
(* may have lost its PID file.                                             *)
RemoveDir(r) ==
    \E left \in {"none", "bare", workdir[r]} : workdir' = [workdir EXCEPT ![r] = left]

(* Cleanup removes the cgroup and the workdir; when the workdir stays, a   *)
(* kill ends here.                                                         *)
CleanupProcess(r) ==
    /\ NextStep(r, "cleanup")
    /\ DestroyCgroup(r)
    /\ RemoveDir(r)
    /\ IF workdir'[r] = "none" THEN StepDone(r) ELSE Continue(r, <<>>)
    /\ UNCHANGED <<daemon, limits, pool, asked, toClean, names, listener, github>>

(* GitHub keeps a runner that has a job.                                   *)
Deregister(r) ==
    /\ NextStep(r, "deregister")
    /\ \/ r \notin busy /\ registered' = registered \ {r}
       \/ UNCHANGED registered
    /\ StepDone(r)
    /\ UNCHANGED <<daemon, limits, pool, asked, toClean, names, listener, abroad, busy, disk, alive>>

(* It begins once the groups have ended, with every start, trim and pass   *)
(* over names under way.  What is known to have a job is stopped before it *)
(* is deregistered.                                                        *)
Shutdown ==
    /\ daemon = "serving"
    /\ asked = {}
    /\ {r \in Runners : Awaits(r, "record")} = {}
    /\ daemon' = "stopping"
    /\ pool' = {}
    /\ \E known \in SUBSET pool :
        todo' = [r \in Runners |->
                   IF r \in known THEN <<"stop", "deregister", "cleanup">>
                   ELSE IF r \in pool THEN <<"deregister", "stop", "cleanup">>
                   ELSE todo[r]]
    /\ stale' = stale \cup pass /\ pass' = {} /\ listener' = "off"
    /\ UNCHANGED <<limits, asked, toClean, github, disk, alive>>

-----------------------------------------------------------------------------
(* The daemon's process ends: at the end of a shutdown, at its timeout, by *)
(* a crash, by its watchdog, at any moment.  How many runners it takes     *)
(* with it depends on the service manager.                                 *)
Dies ==
    /\ daemon # "down"
    /\ daemon' = "down"
    /\ pool' = {} /\ todo' = [r \in Runners |-> <<>>] /\ asked' = {} /\ toClean' = {}
    /\ stale' = {} /\ pass' = {} /\ listener' = "off"
    /\ alive' \in SUBSET alive
    /\ UNCHANGED <<limits, github, disk>>

(* SweepStale: what is in a cgroup may be killed and the cgroup still stay.*)
SweepStale ==
    \E killed \in SUBSET cgroups : \E swept \in SUBSET killed :
        /\ cgroups \ alive \subseteq killed
        /\ alive' = alive \ killed
        /\ cgroups' = cgroups \ swept

(* The configuration may have changed: without limits no cgroup is swept,  *)
(* and of another scale set the group sees no runner registered so far.    *)
(* The directory of the group's workdirs may not be readable.              *)
Boots ==
    /\ daemon = "down"
    /\ daemon' = "cleaning"
    /\ limits' \in BOOLEAN
    /\ IF limits' THEN SweepStale ELSE UNCHANGED <<alive, cgroups>>
    /\ toClean' \in {{r \in Runners : workdir[r] # "none"}, {}}
    /\ \/ registered' = {} /\ abroad' = {} /\ busy' = {}
       \/ UNCHANGED github
    /\ UNCHANGED <<pool, todo, asked, names, listener, workdir>>

(* The name is kept whether the workdir could be removed or not, and the   *)
(* process killed or not.                                                  *)
CleanupStaleRunner(r) ==
    /\ daemon = "cleaning"
    /\ r \in toClean
    /\ toClean' = toClean \ {r}
    /\ UNCHANGED alive \/ (workdir[r] = "pid" /\ alive' = alive \ {r})
    /\ RemoveDir(r)
    /\ stale' = stale \cup {r}
    /\ UNCHANGED <<daemon, limits, pool, todo, asked, pass, listener, github, cgroups>>

(* Any run.sh under the base of the workdirs, found by its command line.   *)
(* It is left alive if pgrep or ps fails or shows another command, or if   *)
(* it cannot be killed.                                                    *)
KillOrphanRunners ==
    /\ daemon = "cleaning" /\ toClean = {}
    /\ daemon' = "serving"
    /\ alive' \in SUBSET alive
    /\ UNCHANGED <<limits, memory, github, disk>>

-----------------------------------------------------------------------------
(* Every start of the listener first removes stale registrations.          *)

(* Mutant: all runners of the scale set are looked up, not only those of   *)
(* which a workdir was found.                                              *)
ListenerConnectsToAll ==
    /\ daemon = "serving" /\ listener = "off"
    /\ listener' = "connecting"
    /\ pass' = registered
    /\ stale' = {}
    /\ UNCHANGED <<daemon, limits, pool, todo, asked, toClean, github, disk, alive>>

ListenerConnects ==
    /\ daemon = "serving" /\ listener = "off"
    /\ listener' = "connecting"
    /\ pass' = stale
    /\ stale' = {}
    /\ UNCHANGED <<daemon, limits, pool, todo, asked, toClean, github, disk, alive>>

Looked(r) ==
    /\ listener = "connecting"
    /\ r \in pass
    /\ pass' = pass \ {r}
    /\ UNCHANGED <<daemon, limits, pool, todo, asked, toClean, listener, abroad, busy, disk, alive>>

(* The runner is not registered in this scale set, or GitHub removes it.   *)
(* Its name is dropped either way.                                         *)
StaleRemoved(r) ==
    /\ r \notin busy
    /\ registered' = registered \ {r}
    /\ UNCHANGED stale
    /\ Looked(r)

(* Mutant: a name whose removal failed is dropped.                         *)
DropName(r) == UNCHANGED stale

Retry(r) == stale' = stale \cup {r}

StaleKept(r) ==
    /\ Retry(r)
    /\ UNCHANGED registered
    /\ Looked(r)

ListenerStarts ==
    /\ listener = "connecting" /\ pass = {}
    /\ listener' \in {"up", "off"}
    /\ UNCHANGED <<daemon, limits, pool, todo, asked, toClean, names, github, disk, alive>>

ListenerFails ==
    /\ listener = "up"
    /\ listener' = "off"
    /\ UNCHANGED <<daemon, limits, pool, todo, asked, toClean, names, github, disk, alive>>

-----------------------------------------------------------------------------
(* GitHub and the processes.                                               *)

(* Another host starts a runner of the scale set, and is done with it.     *)
OtherHostStarts(r) ==
    /\ Unused(r)
    /\ registered' = registered \cup {r}
    /\ abroad' = abroad \cup {r}
    /\ UNCHANGED <<daemon, limits, memory, busy, disk, alive>>

OtherHostEnds(r) ==
    /\ r \in abroad
    /\ registered' = registered \ {r}
    /\ abroad' = abroad \ {r}
    /\ UNCHANGED <<daemon, limits, memory, busy, disk, alive>>

AssignJob(r) ==
    /\ r \in (registered \cap alive) \ busy
    /\ busy' = busy \cup {r}
    /\ UNCHANGED <<daemon, limits, memory, registered, abroad, disk, alive>>

JobEnds(r) ==
    /\ r \in busy
    /\ busy' = busy \ {r}
    /\ registered' = registered \ {r}
    /\ UNCHANGED <<daemon, limits, memory, abroad, disk, alive>>

ProcessExits(r) ==
    /\ r \in alive
    /\ alive' = alive \ {r}
    /\ UNCHANGED <<daemon, limits, memory, github, disk>>

-----------------------------------------------------------------------------
StartStep(r) ==
    \/ GenerateJITConfig(r) \/ Prepare(r)
    \/ PlaceInCgroup(r) \/ PlaceFails(r)
    \/ StartProcess(r) \/ StartFails(r)
    \/ RecordPID(r)

TeardownStep(r) == StopProcess(r) \/ CleanupProcess(r) \/ Deregister(r)

Next ==
    \/ \E r \in Runners :
        \/ StartStep(r)
        \/ KillRunner(r) \/ HandleJobCompleted(r)
        \/ AsksRemoval(r) \/ ReleaseSurplus(r)
        \/ TeardownStep(r)
        \/ CleanupStaleRunner(r)
        \/ StaleRemoved(r) \/ StaleKept(r)
        \/ OtherHostStarts(r) \/ OtherHostEnds(r)
        \/ AssignJob(r) \/ JobEnds(r) \/ ProcessExits(r)
    \/ Shutdown
    \/ Dies
    \/ Boots
    \/ KillOrphanRunners
    \/ ListenerConnects
    \/ ListenerStarts
    \/ ListenerFails

Spec == Init /\ [][Next]_vars

(* The listener goes on with what it has begun and is started again after  *)
(* a failure; GitHub ends every job, at its time limit at the latest, and  *)
(* does not refuse for ever every removal that it could carry out.         *)
Fairness ==
    /\ WF_vars(ListenerConnects)
    /\ WF_vars(ListenerStarts)
    /\ WF_vars(\E r \in Runners : StaleRemoved(r) \/ StaleKept(r))
    /\ SF_vars(\E r \in Runners : r \in registered /\ StaleRemoved(r))
    /\ \A r \in Runners : WF_vars(JobEnds(r))

FairSpec == Spec /\ Fairness

-----------------------------------------------------------------------------
(* The type of every variable.  What a start or a teardown works on is not *)
(* in the pool, and names are looked up only while the listener connects.  *)
TypeOK ==
    /\ daemon \in {"down", "cleaning", "serving", "stopping"}
    /\ limits \in BOOLEAN
    /\ pool \in SUBSET Runners
    /\ todo \in [Runners ->
          Seq({"prepare", "place", "start", "record", "stop", "cleanup", "deregister"})]
    /\ asked \in SUBSET Runners
    /\ toClean \in SUBSET Runners
    /\ stale \in SUBSET Runners /\ pass \in SUBSET Runners
    /\ listener \in {"off", "connecting", "up"}
    /\ registered \in SUBSET Runners /\ abroad \in SUBSET Runners
    /\ busy \in SUBSET Runners
    /\ workdir \in [Runners -> {"none", "bare", "pid"}]
    /\ cgroups \in SUBSET Runners
    /\ alive \in SUBSET Runners
    /\ \A r \in pool : todo[r] = <<>>
    /\ pass # {} => listener = "connecting"

(* "Only runners found in this host's own workdirs are deregistered, so    *)
(* another host's runners are never touched, even under a shared legacy    *)
(* name" (README, several hosts; group.go:145-147), nor are the runners    *)
(* this daemon itself has started before its listener came back: whatever  *)
(* a pass over the stale names removes is of a daemon that is dead.        *)
LiveSpared ==
    [][pass' # pass =>
        \A r \in registered \ registered' : r \notin abroad \cup pool /\ todo[r] = <<>>]_vars

(* A stale registration in the group's scale set that could not be removed *)
(* is not forgotten: as long as the daemon serves and its listener goes on *)
(* being started again, every one is removed in the end (group.go:165,     *)
(* 178, 184-188).                                                          *)
StaleRetried ==
    []<>(listener = "connecting") =>
        \A r \in Runners :
            r \in stale \cap registered ~> (r \notin registered \/ daemon # "serving")
=============================================================================
