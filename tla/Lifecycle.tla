----------------------------- MODULE Lifecycle -----------------------------
(***************************************************************************)
(* The life of the daemon's process: `ghr run` (cli/run.go, daemon.go,     *)
(* state.go), its watchdog (watchdog.go), the unix socket (api/server.go), *)
(* the service manager that starts it again, and the commands start, stop, *)
(* restart and purge, which are processes of their own and know the daemon *)
(* by what launchctl says and by three files.  Nothing keeps a second      *)
(* daemon from being started beside the first.                             *)
(***************************************************************************)
EXTENDS Naturals, FiniteSets

CONSTANTS
    Procs,                     \* processes of the daemon that may exist at once
    Gone,                      \* stands for every process that has ended
    NoProc,                    \* no process
    Managers,                  \* "launchd", "systemd", or both
    WatchdogFailureThreshold,  \* watchdogFailureThreshold, 5 in the code
    MaxFaults,                 \* faults of the environment in a behaviour
    MaxCommands                \* commands, "ghr run" among them

ASSUME LifecycleAssumption ==
    /\ IsFiniteSet(Procs) /\ Gone \notin Procs /\ NoProc \notin Procs \cup {Gone}
    /\ Managers \subseteq {"launchd", "systemd"}
    /\ WatchdogFailureThreshold \in Nat \ {0}
    /\ MaxFaults \in Nat /\ MaxCommands \in Nat

VARIABLES
    manager,    \* the service manager of this host
    plist,      \* the service is installed, and loaded at the next boot
    loaded,     \* the manager supervises the service now
    due,        \* and is to start a process for it
    job,        \* the process it has started
    stage,      \* how far each process is in runRun
    erring,     \* processes whose run group has ended with an error
    hung,       \* processes whose HTTP server does not answer
    failures,   \* the watchdog's consecutive failures
    workers,    \* the processes that have runners or left some behind
    pidFile, stateFile, socket,  \* the process each of the files is of
    broken,     \* the configuration or the credentials do not load
    command,    \* the command under way: its name, its step and the PID it read
    supervised, \* auxiliary: processes that the manager started
    claim,      \* auxiliary: what the last command said that it did
    disturbed,  \* auxiliary: processes that were not alone
    faults, commands  \* auxiliary: how many there have been

service == <<manager, plist, loaded, due, job>>
process == <<stage, erring, hung, failures, workers, supervised, disturbed>>
files   == <<pidFile, stateFile, socket>>
shell   == <<command, claim, commands>>
vars    == <<service, process, files, broken, faults, shell>>

NoCommand == [name |-> "none", step |-> "none", pid |-> NoProc]

Alive(p) == stage[p] # "none"
Answers(p) == stage[p] = "serving" /\ p \notin hung

(* The host before the first command, or with what a daemon that was       *)
(* killed has left.                                                        *)
Init ==
    /\ manager \in Managers
    /\ plist \in (IF manager = "systemd" THEN {TRUE} ELSE BOOLEAN)
    /\ loaded = plist /\ due = plist
    /\ job = NoProc
    /\ stage = [p \in Procs |-> "none"]
    /\ erring = {} /\ hung = {} /\ supervised = {} /\ disturbed = {}
    /\ failures = [p \in Procs |-> 0]
    /\ pidFile \in {NoProc, Gone} /\ stateFile = pidFile /\ socket = pidFile
    /\ workers = {pidFile} \ {NoProc}
    /\ broken = FALSE
    /\ command = NoCommand /\ claim = "none"
    /\ faults = 0 /\ commands = 0

-----------------------------------------------------------------------------
(* How processes begin and end.                                            *)

(* A number that a command still holds is not given to a new process.      *)
Launched(p) ==
    /\ ~Alive(p) /\ command.pid # p
    /\ stage' = [stage EXCEPT ![p] = "building"]
    /\ disturbed' = IF \E q \in Procs : Alive(q)
                    THEN {q \in Procs : Alive(q)} \cup {p} ELSE disturbed
    /\ UNCHANGED <<erring, hung, failures, workers>>

(* What names a process that has ended names nothing any more.             *)
Forgotten(name, p) == IF name = p THEN Gone ELSE name

(* Process p ends and leaves pids, states and sockets in the files.        *)
Ended(p, pids, states, sockets) ==
    /\ stage' = [stage EXCEPT ![p] = "none"]
    /\ erring' = erring \ {p} /\ hung' = hung \ {p}
    /\ supervised' = supervised \ {p} /\ disturbed' = disturbed \ {p}
    /\ failures' = [failures EXCEPT ![p] = 0]
    /\ workers' = {Forgotten(w, p) : w \in workers}
    /\ pidFile' = Forgotten(pids, p)
    /\ stateFile' = Forgotten(states, p)
    /\ socket' = Forgotten(sockets, p)

(* Mutant: the manager is told only of a process that fails.               *)
JobFails(p, success) ==
    IF job = p /\ ~success THEN job' = NoProc /\ due' = TRUE ELSE UNCHANGED <<job, due>>

(* KeepAlive/SuccessfulExit=false and Restart=on-failure start the service *)
(* again only after a failure (plist.go:25-29).                            *)
JobEnds(p, success) ==
    IF job = p THEN job' = NoProc /\ due' = ~success ELSE UNCHANGED <<job, due>>

Killed(p) == Ended(p, pidFile, stateFile, socket)

(* SIGTERM is handled only while the actors run: before, and once they     *)
(* have been interrupted, it ends the process (run.go:128-137).            *)
Handles(p) == stage[p] \in {"opening", "serving"}

Terminated(p) ==
    \/ /\ Handles(p)
       /\ stage' = [stage EXCEPT ![p] = "closing"]
       /\ UNCHANGED <<erring, hung, failures, workers, supervised, disturbed, files>>
    \/ ~Handles(p) /\ Killed(p)

-----------------------------------------------------------------------------
(* runRun                                                                  *)

(* Mutant: a daemon leaves alone what was there before it.                 *)
BuildBeside(p) ==
    /\ stage[p] = "building"
    /\ IF broken THEN Killed(p) /\ JobEnds(p, FALSE)
       ELSE /\ stage' = [stage EXCEPT ![p] = "built"]
            /\ UNCHANGED <<job, due, erring, hung, failures, workers, supervised,
                           disturbed, files>>
    /\ UNCHANGED <<manager, plist, loaded, broken, faults, shell>>

(* config.Load, auth.Load and buildDaemon, which kills the runners that it *)
(* finds on the host, whoever's they are.                                  *)
Build(p) ==
    /\ stage[p] = "building"
    /\ IF broken THEN Killed(p) /\ JobEnds(p, FALSE)
       ELSE /\ stage' = [stage EXCEPT ![p] = "built"]
            /\ workers' = {}
            /\ UNCHANGED <<job, due, erring, hung, failures, supervised, disturbed, files>>
    /\ UNCHANGED <<manager, plist, loaded, broken, faults, shell>>

(* Mutant: a daemon that finds a PID file keeps it.                        *)
WritePIDFileUnlessThere(p) ==
    /\ stage[p] = "built"
    /\ stage' = [stage EXCEPT ![p] = "named"]
    /\ pidFile' = IF pidFile = NoProc THEN p ELSE pidFile
    /\ UNCHANGED <<service, erring, hung, failures, workers, supervised, disturbed,
                   stateFile, socket, broken, faults, shell>>

WritePIDFile(p) ==
    /\ stage[p] = "built"
    /\ stage' = [stage EXCEPT ![p] = "named"]
    /\ pidFile' = p
    /\ UNCHANGED <<service, erring, hung, failures, workers, supervised, disturbed,
                   stateFile, socket, broken, faults, shell>>

WriteDaemonState(p) ==
    /\ stage[p] = "named"
    /\ stage' = [stage EXCEPT ![p] = "opening"]
    /\ stateFile' = p
    /\ UNCHANGED <<service, erring, hung, failures, workers, supervised, disturbed,
                   pidFile, socket, broken, faults, shell>>

(* Mutant: the socket of a daemon that died is in the way of the next one. *)
ListenUnlessThere(p) ==
    /\ stage[p] = "opening"
    /\ IF socket = NoProc
       THEN stage' = [stage EXCEPT ![p] = "serving"] /\ socket' = p /\ UNCHANGED erring
       ELSE /\ stage' = [stage EXCEPT ![p] = "closing"]
            /\ erring' = erring \cup {p} /\ UNCHANGED socket
    /\ UNCHANGED <<service, hung, failures, workers, supervised, disturbed,
                   pidFile, stateFile, broken, faults, shell>>

(* Server.Run removes the socket it finds and listens.                     *)
Listen(p) ==
    /\ stage[p] = "opening"
    /\ stage' = [stage EXCEPT ![p] = "serving"]
    /\ socket' = p
    /\ UNCHANGED <<service, erring, hung, failures, workers, supervised, disturbed,
                   pidFile, stateFile, broken, faults, shell>>

(* The controller's actor has its first runners.                           *)
StartRunners(p) ==
    /\ stage[p] \in {"opening", "serving"}
    /\ workers' = workers \cup {p}
    /\ UNCHANGED <<service, stage, erring, hung, failures, supervised, disturbed, files,
                   broken, faults, shell>>

(* One probe of runWatchdog, of whoever listens at the socket's path; in   *)
(* "closing" a probe under way is cancelled.  Exit(2) runs nothing of what *)
(* runRun has deferred.                                                    *)
ProbeOK(p) == stage[p] = "serving" /\ socket \in Procs /\ Answers(socket)

Probe(p) ==
    /\ stage[p] \in {"serving", "closing"}
    /\ IF ProbeOK(p)
       THEN /\ failures' = [failures EXCEPT ![p] = 0]
            /\ UNCHANGED <<job, due, stage, erring, hung, workers, supervised,
                           disturbed, files>>
       ELSE IF failures[p] + 1 >= WatchdogFailureThreshold
       THEN Killed(p) /\ JobEnds(p, FALSE)
       ELSE /\ failures' = [failures EXCEPT ![p] = @ + 1]
            /\ UNCHANGED <<job, due, stage, erring, hung, workers, supervised,
                           disturbed, files>>
    /\ UNCHANGED <<manager, plist, loaded, broken, faults, shell>>

(* Server.Run returns and removes the socket, whose it may be by now.      *)
CloseSocket(p) ==
    /\ stage[p] = "closing"
    /\ stage' = [stage EXCEPT ![p] = "shutdown"]
    /\ socket' = NoProc
    /\ UNCHANGED <<service, erring, hung, failures, workers, supervised, disturbed,
                   pidFile, stateFile, broken, faults, shell>>

(* GroupController.Shutdown ends the runners, or its timeout does; then    *)
(* runRun's deferred calls in their order.                                 *)
Shutdown(p) ==
    /\ stage[p] = "shutdown"
    /\ stage' = [stage EXCEPT ![p] = "exiting"]
    /\ workers' = workers \ {p}
    /\ stateFile' = NoProc
    /\ UNCHANGED <<service, erring, hung, failures, supervised, disturbed,
                   pidFile, socket, broken, faults, shell>>

Exit(p) ==
    /\ stage[p] = "exiting"
    /\ Ended(p, NoProc, stateFile, socket)
    /\ JobEnds(p, p \notin erring)
    /\ UNCHANGED <<manager, plist, loaded, broken, faults, shell>>

Runs(p) ==
    \/ Build(p) \/ WritePIDFile(p) \/ WriteDaemonState(p)
    \/ Listen(p) \/ StartRunners(p) \/ Probe(p)
    \/ CloseSocket(p) \/ Shutdown(p) \/ Exit(p)

-----------------------------------------------------------------------------
(* The service manager and the faults of the environment.                  *)

Respawn(p) ==
    /\ loaded /\ due /\ job = NoProc
    /\ Launched(p)
    /\ job' = p /\ due' = FALSE /\ supervised' = supervised \cup {p}
    /\ UNCHANGED <<manager, plist, loaded, files, broken, faults, shell>>

Fault == faults < MaxFaults /\ faults' = faults + 1

(* An actor returns an error or panics, and the others are interrupted.    *)
ActorFails(p) ==
    /\ Fault
    /\ stage[p] \in {"opening", "serving"}
    /\ stage' = [stage EXCEPT ![p] = "closing"]
    /\ erring' = erring \cup {p}
    /\ UNCHANGED <<service, hung, failures, workers, supervised, disturbed, files, broken, shell>>

Dies(p) ==
    /\ Fault
    /\ Alive(p)
    /\ Killed(p) /\ JobEnds(p, FALSE)
    /\ UNCHANGED <<manager, plist, loaded, broken, shell>>

(* The server stops answering; it may answer again if it was only busy.    *)
Hangs(p) ==
    /\ Fault
    /\ Answers(p)
    /\ hung' = hung \cup {p}
    /\ UNCHANGED <<service, stage, erring, failures, workers, supervised, disturbed, files,
                   broken, shell>>

Recovers(p) ==
    /\ p \in hung
    /\ hung' = hung \ {p}
    /\ UNCHANGED <<service, stage, erring, failures, workers, supervised, disturbed, files,
                   broken, faults, shell>>

BreakConfig ==
    /\ Fault
    /\ ~broken /\ broken' = TRUE
    /\ UNCHANGED <<service, process, files, shell>>

RepairConfig ==
    /\ broken /\ broken' = FALSE
    /\ UNCHANGED <<service, process, files, faults, shell>>

(* The host restarts: what is on the disk is all that is left.             *)
Reboot ==
    /\ Fault
    /\ loaded' = plist /\ due' = plist /\ job' = NoProc
    /\ stage' = [p \in Procs |-> "none"]
    /\ failures' = [p \in Procs |-> 0]
    /\ erring' = {} /\ hung' = {} /\ workers' = {} /\ supervised' = {} /\ disturbed' = {}
    /\ pidFile' = IF pidFile = NoProc THEN NoProc ELSE Gone
    /\ stateFile' = IF stateFile = NoProc THEN NoProc ELSE Gone
    /\ socket' = IF socket = NoProc THEN NoProc ELSE Gone
    /\ command' = NoCommand
    /\ UNCHANGED <<manager, plist, broken, claim, commands>>

-----------------------------------------------------------------------------
(* The commands.  Each step of one is a call that another process may come *)
(* between.                                                                *)

At(names, step) == command.name \in names /\ command.step = step
Goes(step) == command' = [command EXCEPT !.step = step]
Returns == command' = NoCommand

(* launchd.Status asks nobody but launchctl, for which a service whose     *)
(* process has just ended is not running.                                  *)
Status == IF manager = "launchd" THEN job ELSE NoProc

Begin(name) ==
    /\ command = NoCommand /\ commands < MaxCommands
    /\ commands' = commands + 1
    /\ claim' = "none"
    /\ LET first == CASE name = "stop"    -> "status"
                      [] name = "restart" -> "isRunning"
                      [] name = "purge"   -> "status"
                      [] name = "start"   -> "check"
       IN  command' = [name |-> name, step |-> first, pid |-> NoProc]
    /\ UNCHANGED <<service, process, files, broken, faults>>

RunForeground(p) ==
    /\ commands < MaxCommands /\ commands' = commands + 1
    /\ Launched(p)
    /\ UNCHANGED <<service, supervised, files, broken, faults, command, claim>>

(* restart asks twice: if the daemon ends in between, the PID is 0 and     *)
(* SIGTERM goes to the process group of restart itself (restart.go:30-34). *)
IsRunning ==
    /\ At({"restart"}, "isRunning")
    /\ Goes(IF Status = NoProc THEN "check" ELSE "status")
    /\ UNCHANGED <<service, process, files, broken, faults, claim, commands>>

AsksStatus ==
    /\ At({"stop", "restart", "purge"}, "status")
    /\ IF Status # NoProc THEN command' = [command EXCEPT !.step = "signal", !.pid = Status]
       ELSE IF command.name = "purge" THEN Goes("load") ELSE Returns
    /\ UNCHANGED <<service, process, files, broken, faults, claim, commands>>

(* kill(2) finds nobody: stop returns with an error, the others go on.     *)
SignalsNobody ==
    /\ command.step \in {"signal", "kill"} /\ ~Alive(command.pid)
    /\ IF command.name = "stop" THEN Returns ELSE Goes("uninstall")
    /\ UNCHANGED <<service, process, files, broken, faults, claim, commands>>

Signals ==
    /\ command.step = "signal" /\ Alive(command.pid)
    /\ Terminated(command.pid)
    /\ IF Handles(command.pid) THEN UNCHANGED <<job, due>> ELSE JobEnds(command.pid, FALSE)
    /\ Goes("wait")
    /\ UNCHANGED <<manager, plist, loaded, broken, faults, claim, commands>>

(* SIGKILL: stop --force, or stop after it has waited long enough.         *)
Kills ==
    /\ command.name = "stop" /\ command.step \in {"signal", "kill"} /\ Alive(command.pid)
    /\ Killed(command.pid) /\ JobEnds(command.pid, FALSE)
    /\ Goes("uninstall")
    /\ UNCHANGED <<manager, plist, loaded, broken, faults, claim, commands>>

(* waitForExit, and its timeout.                                           *)
Waits ==
    /\ command.step = "wait"
    /\ \/ ~Alive(command.pid) /\ Goes("uninstall")
       \/ Alive(command.pid) /\ Goes(IF command.name = "stop" THEN "kill" ELSE "uninstall")
    /\ UNCHANGED <<service, process, files, broken, faults, claim, commands>>

(* What follows Uninstall: of a failed bootout it says nothing, so that    *)
(* stop answers "ghr stopped" if only the plist is gone.                   *)
Continues(removed, bootedOut) ==
    \/ /\ At({"stop"}, "uninstall")
       /\ Returns
       /\ claim' = IF ~removed THEN claim ELSE IF bootedOut THEN "stopped" ELSE "leftLoaded"
    \/ At({"restart"}, "uninstall") /\ Goes("check") /\ UNCHANGED claim
    \/ At({"purge"}, "uninstall") /\ Goes("load") /\ UNCHANGED claim
    \/ command.step = "cleanup" /\ (IF removed THEN Goes("install") ELSE Returns) /\ UNCHANGED claim
    \/ command.step = "undo" /\ Returns /\ UNCHANGED claim

Uninstalling == command.step \in {"uninstall", "cleanup", "undo"}

(* launchctl bootout takes the service from launchd, which asks its        *)
(* process to end; or it fails, and the service stays as it is.            *)
Bootout(succeeds) ==
    IF succeeds
    THEN /\ loaded' = FALSE /\ due' = FALSE /\ job' = NoProc
         /\ IF job = NoProc THEN UNCHANGED <<process, files>> ELSE Terminated(job)
    ELSE loaded /\ UNCHANGED <<loaded, due, job, process, files>>

(* Mutant: that the plist could not be removed is passed over as well.     *)
UninstallQuietly ==
    /\ Uninstalling /\ manager = "launchd"
    /\ \E bootedOut, removed \in BOOLEAN :
        /\ Bootout(bootedOut)
        /\ plist' = (plist /\ ~removed)
        /\ IF bootedOut /\ (removed \/ ~plist) THEN UNCHANGED faults ELSE Fault
        /\ Continues(TRUE, bootedOut)
    /\ UNCHANGED <<manager, broken, commands>>

(* The removal of the plist may fail, too, and only that is an error.      *)
Uninstall ==
    /\ Uninstalling /\ manager = "launchd"
    /\ \E bootedOut, removed \in BOOLEAN :
        /\ Bootout(bootedOut)
        /\ removed \/ plist
        /\ plist' = (plist /\ ~removed)
        /\ IF bootedOut /\ removed THEN UNCHANGED faults ELSE Fault
        /\ Continues(removed, bootedOut)
    /\ UNCHANGED <<manager, broken, commands>>

(* Without launchctl there is nothing to boot out and no plist.            *)
UninstallsNothing ==
    /\ Uninstalling /\ manager = "systemd"
    /\ Continues(TRUE, TRUE)
    /\ UNCHANGED <<service, process, files, broken, faults, commands>>

(* runStart, which restart ends with.                                      *)
Check ==
    /\ command.step = "check"
    /\ IF broken \/ Status # NoProc THEN Returns ELSE Goes("cleanup")
    /\ UNCHANGED <<service, process, files, broken, faults, claim, commands>>

(* Install: the plist is written and bootstrapped, which fails if launchd  *)
(* has the service already.                                                *)
Install ==
    /\ command.step = "install" /\ manager = "launchd"
    /\ plist' = TRUE
    /\ \/ /\ ~loaded /\ loaded' = TRUE /\ due' = TRUE
          /\ Goes("kickstart") /\ UNCHANGED faults
       \/ /\ IF loaded THEN UNCHANGED faults ELSE Fault
          /\ Returns /\ UNCHANGED <<loaded, due>>
    /\ UNCHANGED <<manager, job, process, files, broken, claim, commands>>

InstallFails ==
    /\ command.step = "install" /\ manager = "systemd"
    /\ Returns
    /\ UNCHANGED <<service, process, files, broken, faults, claim, commands>>

(* launchctl kickstart -k ends the process that RunAtLoad has started.     *)
Kickstart ==
    /\ command.step = "kickstart"
    /\ IF job = NoProc THEN UNCHANGED <<job, process, files>>
       ELSE Killed(job) /\ job' = NoProc
    /\ due' = TRUE
    /\ Goes("await")
    /\ UNCHANGED <<manager, plist, loaded, broken, faults, claim, commands>>

(* It fails, start with it, and the service stays installed.               *)
KickstartFails ==
    /\ command.step = "kickstart"
    /\ Fault
    /\ Returns
    /\ UNCHANGED <<service, process, files, broken, claim, commands>>

(* waitForPID takes whatever the file holds.                               *)
AwaitsPID ==
    /\ command.step = "await"
    /\ IF pidFile = NoProc THEN Goes("undo") /\ UNCHANGED claim
       ELSE Returns /\ claim' = "started"
    /\ UNCHANGED <<service, process, files, broken, faults, commands>>

(* The rest of purge: what it deletes at GitHub and in the workdirs is not *)
(* modelled; the files of the state directory are removed, whosever.       *)
Load ==
    /\ At({"purge"}, "load")
    /\ IF broken THEN Returns ELSE Goes("files")
    /\ UNCHANGED <<service, process, files, broken, faults, claim, commands>>

CleanupStateFiles ==
    /\ At({"purge"}, "files")
    /\ pidFile' = NoProc /\ stateFile' = NoProc /\ socket' = NoProc
    /\ disturbed' = {p \in Procs : Alive(p)}
    /\ Returns
    /\ UNCHANGED <<service, stage, erring, hung, failures, workers, supervised,
                   broken, faults, claim, commands>>

Commands ==
    \/ IsRunning \/ AsksStatus \/ SignalsNobody \/ Signals \/ Kills \/ Waits
    \/ Uninstall \/ UninstallsNothing \/ Check \/ Install \/ InstallFails
    \/ Kickstart \/ KickstartFails \/ AwaitsPID \/ Load \/ CleanupStateFiles

-----------------------------------------------------------------------------
Next ==
    \/ \E p \in Procs :
        \/ Runs(p)
        \/ Respawn(p) \/ RunForeground(p)
        \/ ActorFails(p) \/ Dies(p) \/ Hangs(p) \/ Recovers(p)
    \/ BreakConfig \/ RepairConfig \/ Reboot
    \/ \E name \in {"start", "stop", "restart", "purge"} : Begin(name)
    \/ Commands

Spec == Init /\ [][Next]_vars

(* A process goes on with what it has begun, and its probes are on a       *)
(* ticker; the manager starts what is due; every call of a command returns.*)
Fairness ==
    /\ \A p \in Procs :
        /\ WF_vars(\/ Build(p) \/ WritePIDFile(p) \/ WriteDaemonState(p) \/ Listen(p)
                   \/ CloseSocket(p) \/ Shutdown(p) \/ Exit(p))
        /\ WF_vars(Probe(p))
    /\ WF_vars(\E p \in Procs : Respawn(p))
    /\ WF_vars(Commands)

FairSpec == Spec /\ Fairness

-----------------------------------------------------------------------------
(* The type of every variable.  A process that has not reached its actors  *)
(* has no failed probe.                                                    *)
TypeOK ==
    /\ manager \in Managers
    /\ plist \in BOOLEAN /\ loaded \in BOOLEAN /\ due \in BOOLEAN
    /\ job \in Procs \cup {NoProc}
    /\ stage \in [Procs -> {"none", "building", "built", "named", "opening", "serving",
                            "closing", "shutdown", "exiting"}]
    /\ erring \subseteq Procs /\ hung \subseteq Procs
    /\ supervised \subseteq Procs /\ disturbed \subseteq Procs
    /\ failures \in [Procs -> 0 .. WatchdogFailureThreshold - 1]
    /\ workers \subseteq Procs \cup {Gone}
    /\ {pidFile, stateFile, socket} \subseteq Procs \cup {Gone, NoProc}
    /\ broken \in BOOLEAN
    /\ command.name \in {"none", "start", "stop", "restart", "purge"}
    /\ command.pid \in Procs \cup {NoProc}
    /\ claim \in {"none", "started", "stopped", "leftLoaded"}
    /\ faults \in 0 .. MaxFaults /\ commands \in 0 .. MaxCommands
    /\ job # NoProc => loaded /\ ~due /\ Alive(job)

(* A daemon beside which no other ran is the one that the three files name *)
(* while it serves, so that status, the watchdog and restart reach it:     *)
(* whatever the daemons before it left behind, killed at any step, is      *)
(* replaced (daemon.go:181, state.go:18, server.go:63-78).                 *)
FilesFollow ==
    \A p \in Procs \ disturbed :
        stage[p] = "serving" => pidFile = p /\ stateFile = p /\ socket = p

(* Such a daemon is the only one with runners: those of its predecessors,  *)
(* however they ended, are gone before it starts any (daemon.go:72-76).    *)
NoOldRunners ==
    \A p \in Procs \ disturbed :
        stage[p] \in {"opening", "serving"} => workers \subseteq {p}

(* When stop has said "ghr stopped", no reboot brings the service back     *)
(* until a command does; and if the bootout that it does not look at has   *)
(* succeeded, nothing does: the service is not loaded, and what the        *)
(* manager had started is on its way out (stop.go:60-66, service.go:85).   *)
StopSticks ==
    /\ claim \in {"stopped", "leftLoaded"} => ~plist
    /\ claim = "stopped" =>
        /\ ~loaded
        /\ \A p \in supervised : stage[p] \in {"none", "closing", "shutdown", "exiting"}

(* If the manager goes on supervising a service whose configuration loads, *)
(* and the last daemon did not end because it was told to, the socket is   *)
(* answered again and again: neither what is left on the disk nor a server *)
(* that hangs keeps it from that (watchdog.go:25-27, plist.go:25-29).      *)
Comeback ==
    <>[](loaded /\ ~broken /\ (job # NoProc \/ due))
        => []<>(\E p \in Procs : socket = p /\ Answers(p))
=============================================================================
