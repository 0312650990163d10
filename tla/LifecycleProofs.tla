--------------------------- MODULE LifecycleProofs ---------------------------
(***************************************************************************)
(* Proofs about the daemon's process, its files and the commands, for any  *)
(* number of processes, commands and faults, under either service manager. *)
(***************************************************************************)
EXTENDS Lifecycle, TLAPS

Names == Procs \cup {Gone, NoProc}

(* The type invariant in parts: what the manager and the environment keep, *)
(* what the processes keep, and the manager's job.                         *)
HostTyped ==
    /\ manager \in Managers
    /\ plist \in BOOLEAN /\ loaded \in BOOLEAN /\ due \in BOOLEAN
    /\ job \in Procs \cup {NoProc}
    /\ broken \in BOOLEAN
    /\ faults \in 0 .. MaxFaults

ProcessTyped ==
    /\ stage \in [Procs -> {"none", "building", "built", "named", "opening", "serving",
                            "closing", "shutdown", "exiting"}]
    /\ erring \subseteq Procs /\ hung \subseteq Procs
    /\ supervised \subseteq Procs /\ disturbed \subseteq Procs
    /\ failures \in [Procs -> 0 .. WatchdogFailureThreshold - 1]
    /\ workers \subseteq Procs \cup {Gone}
    /\ pidFile \in Names /\ stateFile \in Names /\ socket \in Names

JobRuns == job # NoProc => loaded /\ ~due /\ Alive(job)

(* Where a command of each name may be; restart ends as start does.        *)
Starts == {"check", "cleanup", "install", "kickstart", "await", "undo"}

Steps == {"none", "isRunning", "status", "signal", "kill", "wait", "uninstall", "load", "files"}
             \cup Starts

CommandTyped ==
    /\ command \in [name : {"none", "start", "stop", "restart", "purge"}, step : Steps,
                     pid : Procs \cup {NoProc}]
    /\ command.name = "none" => command = NoCommand
    /\ command.name = "start" => command.step \in Starts
    /\ command.name = "stop" => command.step \in {"status", "signal", "kill", "wait", "uninstall"}
    /\ command.name = "restart" =>
          command.step \in {"isRunning", "status", "signal", "wait", "uninstall"} \cup Starts
    /\ command.name = "purge" =>
          command.step \in {"status", "signal", "wait", "uninstall", "load", "files"}
    /\ command.step \in {"signal", "kill", "wait"} => command.pid \in Procs

(* Without launchctl no command finds a service, and stop goes no further. *)
Unsupported ==
    manager = "systemd" =>
        command.step \notin {"signal", "kill", "wait", "kickstart", "await", "undo"}
            /\ (command.name = "stop" => command.step = "status")

ShellTyped ==
    /\ CommandTyped
    /\ claim \in {"none", "started", "stopped", "leftLoaded"}
    /\ commands \in 0 .. MaxCommands

Control == HostTyped /\ ProcessTyped /\ JobRuns /\ ShellTyped

(* A process that is not disturbed is the only one.                        *)
Solo ==
    \A p \in Procs \ disturbed : Alive(p) => \A q \in Procs : Alive(q) => q = p

(* What each stage has written stays while the process is alone, and from  *)
(* the end of buildDaemon on there are no runners but its own.             *)
Own(p) ==
    /\ stage[p] \in {"named", "opening", "serving"} => pidFile = p
    /\ stage[p] \in {"opening", "serving"} => stateFile = p
    /\ stage[p] = "serving" => socket = p
    /\ stage[p] \in {"built", "named", "opening", "serving"} => workers \subseteq {p}

Lone == Solo /\ \A p \in Procs \ disturbed : Own(p)

(* Of the processes that the manager has started only its job goes on.     *)
Leaving == {"closing", "shutdown", "exiting"}
OneJob == \A p \in supervised : Alive(p) /\ (p = job \/ stage[p] \in Leaving)

(* Between the answer of stop and the next command nothing is installed,   *)
(* nor loaded if the bootout has succeeded.                                *)
Stopped ==
    /\ claim \in {"stopped", "leftLoaded"} => command = NoCommand /\ ~plist
    /\ claim = "stopped" => ~loaded

-----------------------------------------------------------------------------
(* Types, the manager's job and the course of each command.                *)

LEMMA ControlTypes == Control => TypeOK
BY DEF Control, HostTyped, ProcessTyped, JobRuns, ShellTyped, CommandTyped, TypeOK, Names

LEMMA ControlInit == Init => Control
<1> SUFFICES ASSUME Init PROVE Control
    OBVIOUS
<1>1. plist \in BOOLEAN /\ loaded \in BOOLEAN /\ due \in BOOLEAN
  <2>1. plist \in BOOLEAN /\ loaded = plist /\ due = plist
      BY DEF Init
  <2> QED BY <2>1, Zenon
<1>2. HostTyped /\ JobRuns
  <2>1. faults \in 0 .. MaxFaults
      BY LifecycleAssumption DEF Init
  <2>2. manager \in Managers /\ job = NoProc /\ broken \in BOOLEAN
      BY DEF Init
  <2> QED BY <1>1, <2>1, <2>2 DEF HostTyped, JobRuns
<1>3. failures \in [Procs -> 0 .. WatchdogFailureThreshold - 1]
    BY LifecycleAssumption DEF Init
<1>4. ProcessTyped
    BY <1>3, LifecycleAssumption DEF Init, ProcessTyped, Names
<1>5. ShellTyped
  <2>1. commands \in 0 .. MaxCommands
      BY LifecycleAssumption DEF Init
  <2>2. CommandTyped
      BY DEF Init, CommandTyped, NoCommand, Starts, Steps
  <2> QED BY <2>1, <2>2 DEF Init, ShellTyped
<1> QED BY <1>2, <1>4, <1>5 DEF Control

(* The end of a process leaves the others alone.                           *)
LEMMA EndedTyped ==
    ASSUME Control, NEW p \in Procs, NEW pids \in Names, NEW states \in Names,
           NEW sockets \in Names, Ended(p, pids, states, sockets)
    PROVE  /\ ProcessTyped'
           /\ stage'[p] = "none"
           /\ \A q \in Procs : q # p => stage'[q] = stage[q]
BY LifecycleAssumption DEF Control, ProcessTyped, Ended, Forgotten, Names

LEMMA KilledTyped ==
    ASSUME Control, NEW p \in Procs, Killed(p)
    PROVE  /\ ProcessTyped'
           /\ \A q \in Procs : q # p => stage'[q] = stage[q]
BY EndedTyped DEF Killed, Control, ProcessTyped

LEMMA KilledJob ==
    ASSUME Control, NEW p \in Procs, Killed(p), NEW success \in BOOLEAN, JobEnds(p, success),
           UNCHANGED loaded
    PROVE  ProcessTyped' /\ JobRuns' /\ job' \in Procs \cup {NoProc} /\ due' \in BOOLEAN
BY KilledTyped, LifecycleAssumption DEF Control, HostTyped, JobRuns, JobEnds, Alive

LEMMA TerminatedTyped ==
    ASSUME Control, NEW p \in Procs, Terminated(p)
    PROVE  /\ ProcessTyped'
           /\ \A q \in Procs : q # p => stage'[q] = stage[q]
<1>1. CASE Handles(p)
    BY <1>1 DEF Terminated, Control, ProcessTyped, files
<1>2. CASE ~Handles(p)
    BY <1>2, KilledTyped DEF Terminated
<1> QED BY <1>1, <1>2

LEMMA LaunchedTyped ==
    ASSUME Control, NEW p \in Procs, Launched(p), supervised' \subseteq Procs, UNCHANGED files
    PROVE  /\ ProcessTyped'
           /\ Alive(p)'
           /\ \A q \in Procs : Alive(q) => Alive(q)'
BY DEF Launched, Control, ProcessTyped, files, Alive

(* A step of runRun that lets the process go on.                           *)
LEMMA JobGoesOn ==
    ASSUME Control, UNCHANGED <<job, due, loaded>>,
           \A q \in Procs : Alive(q) => Alive(q)'
    PROVE  JobRuns'
BY DEF Control, HostTyped, JobRuns

-----------------------------------------------------------------------------
LEMMA ControlRuns ==
    ASSUME Control, NEW p \in Procs, Runs(p)
    PROVE  Control'
<1>1. UNCHANGED <<manager, plist, loaded, broken, faults, shell>>
    BY DEF Runs, Build, WritePIDFile, WriteDaemonState, Listen, StartRunners, Probe,
           CloseSocket, Shutdown, Exit, service
<1>2. ShellTyped'
    BY <1>1 DEF shell, Control, ShellTyped, CommandTyped, NoCommand, Starts, Steps
<1>3. ASSUME job' \in Procs \cup {NoProc}, due' \in BOOLEAN PROVE HostTyped'
    BY <1>1, <1>3 DEF Control, HostTyped
<1>4. CASE Build(p)
  <2>1. CASE broken
      BY <2>1, <1>1, <1>2, <1>3, <1>4, KilledJob DEF Build, Control
  <2>2. CASE ~broken
    <3>1. ProcessTyped' /\ \A q \in Procs : Alive(q) => Alive(q)'
        BY <2>2, <1>4 DEF Build, Control, ProcessTyped, files, Alive
    <3> QED BY <3>1, <2>2, <1>1, <1>2, <1>3, <1>4, JobGoesOn DEF Build, Control, HostTyped
  <2> QED BY <2>1, <2>2
<1>5. CASE WritePIDFile(p) \/ WriteDaemonState(p) \/ Listen(p) \/ StartRunners(p)
             \/ CloseSocket(p) \/ Shutdown(p)
  <2>1. ProcessTyped'
      BY <1>5 DEF WritePIDFile, WriteDaemonState, Listen, StartRunners, CloseSocket, Shutdown,
                  Control, ProcessTyped, Names, files
  <2>2. UNCHANGED <<job, due>> /\ \A q \in Procs : Alive(q) => Alive(q)'
      BY <1>5 DEF WritePIDFile, WriteDaemonState, Listen, StartRunners, CloseSocket, Shutdown,
                  Control, ProcessTyped, Alive, service
  <2> QED BY <2>1, <2>2, <1>1, <1>2, <1>3, JobGoesOn DEF Control, HostTyped
<1>6. CASE Probe(p)
  <2>1. CASE ~ProbeOK(p) /\ failures[p] + 1 >= WatchdogFailureThreshold
      BY <2>1, <1>1, <1>2, <1>3, <1>6, KilledJob DEF Probe, Control
  <2>2. CASE ~(~ProbeOK(p) /\ failures[p] + 1 >= WatchdogFailureThreshold)
    <3>1. failures' \in [Procs -> 0 .. WatchdogFailureThreshold - 1]
      <4>1. failures[p] \in 0 .. WatchdogFailureThreshold - 1
          BY DEF Control, ProcessTyped
      <4>2. CASE ProbeOK(p)
          BY <4>2, <1>6, LifecycleAssumption DEF Probe, Control, ProcessTyped
      <4>3. CASE ~ProbeOK(p)
        <5>1. failures[p] + 1 \in 0 .. WatchdogFailureThreshold - 1
            BY <4>1, <4>3, <2>2, LifecycleAssumption
        <5>2. failures' = [failures EXCEPT ![p] = @ + 1]
            BY <4>3, <2>2, <1>6 DEF Probe
        <5> QED BY <5>1, <5>2 DEF Control, ProcessTyped
      <4> QED BY <4>2, <4>3
    <3>2. UNCHANGED <<job, due, stage, erring, hung, workers, supervised, disturbed, files>>
        BY <2>2, <1>6 DEF Probe
    <3>3. ProcessTyped'
        BY <3>1, <3>2 DEF Control, ProcessTyped, files
    <3> QED BY <3>2, <3>3, <1>1, <1>2, <1>3, JobGoesOn DEF Control, HostTyped, Alive
  <2> QED BY <2>1, <2>2
<1>7. CASE Exit(p)
  <2>1. /\ ProcessTyped'
        /\ \A q \in Procs : q # p => stage'[q] = stage[q]
      BY <1>7, EndedTyped DEF Exit, Control, ProcessTyped, Names
  <2>2. JobRuns' /\ job' \in Procs \cup {NoProc} /\ due' \in BOOLEAN
      BY <2>1, <1>1, <1>7, LifecycleAssumption DEF Exit, JobEnds, Control, HostTyped, JobRuns, Alive
  <2> QED BY <2>1, <2>2, <1>2, <1>3 DEF Control
<1> QED BY <1>4, <1>5, <1>6, <1>7 DEF Runs

(* A fault is counted.                                                     *)
LEMMA FaultTyped ==
    ASSUME Control, Fault
    PROVE  faults' \in 0 .. MaxFaults
<1>1. faults \in 0 .. MaxFaults
    BY DEF Control, HostTyped
<1> QED BY <1>1, LifecycleAssumption DEF Fault

LEMMA ShellSame ==
    ASSUME Control, UNCHANGED shell
    PROVE  ShellTyped'
BY DEF shell, Control, ShellTyped, CommandTyped, NoCommand, Starts, Steps

LEMMA SystemSame ==
    ASSUME Control, UNCHANGED <<service, process, files, broken, faults>>
    PROVE  HostTyped' /\ ProcessTyped' /\ JobRuns'
BY DEF service, process, files, Control, HostTyped, ProcessTyped, JobRuns, Alive

LEMMA ControlEnvironment ==
    ASSUME Control, NEW p \in Procs,
           Respawn(p) \/ RunForeground(p) \/ ActorFails(p) \/ Dies(p) \/ Hangs(p) \/ Recovers(p)
    PROVE  Control'
<1>1. CASE Respawn(p)
  <2>1. ProcessTyped' /\ Alive(p)' /\ ShellTyped'
      BY <1>1, LaunchedTyped, ShellSame DEF Respawn, Control, ProcessTyped
  <2>2. HostTyped' /\ JobRuns'
      BY <1>1, <2>1 DEF Respawn, Control, HostTyped, JobRuns
  <2> QED BY <2>1, <2>2 DEF Control
<1>2. CASE RunForeground(p)
  <2>1. ProcessTyped' /\ \A q \in Procs : Alive(q) => Alive(q)'
      BY <1>2, LaunchedTyped DEF RunForeground, Control, ProcessTyped
  <2>2. HostTyped' /\ JobRuns'
      BY <1>2, <2>1, JobGoesOn DEF RunForeground, service, Control, HostTyped
  <2>3. commands' \in 0 .. MaxCommands
    <3>1. commands \in 0 .. MaxCommands
        BY DEF Control, ShellTyped
    <3> QED BY <1>2, <3>1, LifecycleAssumption DEF RunForeground
  <2>4. ShellTyped'
      BY <1>2, <2>3 DEF RunForeground, Control, ShellTyped, CommandTyped, NoCommand, Starts, Steps
  <2> QED BY <2>1, <2>2, <2>4 DEF Control
<1>3. CASE ActorFails(p) \/ Hangs(p)
  <2>1. ProcessTyped' /\ \A q \in Procs : Alive(q) => Alive(q)'
      BY <1>3 DEF ActorFails, Hangs, Control, ProcessTyped, Alive, files
  <2>2. HostTyped' /\ JobRuns'
      BY <1>3, <2>1, FaultTyped, JobGoesOn DEF ActorFails, Hangs, service, Control, HostTyped
  <2> QED BY <1>3, <2>1, <2>2, ShellSame DEF ActorFails, Hangs, Control
<1>4. CASE Dies(p)
  <2>1. ProcessTyped' /\ JobRuns' /\ job' \in Procs \cup {NoProc} /\ due' \in BOOLEAN
      BY <1>4, KilledJob DEF Dies
  <2>2. HostTyped'
      BY <1>4, <2>1, FaultTyped DEF Dies, Control, HostTyped
  <2> QED BY <1>4, <2>1, <2>2, ShellSame DEF Dies, Control
<1>5. CASE Recovers(p)
  <2>1. ProcessTyped' /\ \A q \in Procs : Alive(q) => Alive(q)'
      BY <1>5 DEF Recovers, Control, ProcessTyped, Alive, files
  <2>2. HostTyped' /\ JobRuns'
      BY <1>5, <2>1, JobGoesOn DEF Recovers, service, Control, HostTyped
  <2> QED BY <1>5, <2>1, <2>2, ShellSame DEF Recovers, Control
<1> QED BY <1>1, <1>2, <1>3, <1>4, <1>5

LEMMA ControlHost ==
    ASSUME Control, BreakConfig \/ RepairConfig \/ Reboot
    PROVE  Control'
<1>1. CASE BreakConfig
  <2>1. HostTyped' /\ JobRuns' /\ ProcessTyped'
      BY <1>1, FaultTyped
         DEF BreakConfig, service, process, files, Control, HostTyped, JobRuns, Alive, ProcessTyped
  <2> QED BY <1>1, <2>1, ShellSame DEF BreakConfig, Control
<1>2. CASE RepairConfig
  <2>1. HostTyped' /\ JobRuns' /\ ProcessTyped'
      BY <1>2
         DEF RepairConfig, service, process, files, Control, HostTyped, JobRuns, Alive, ProcessTyped
  <2> QED BY <1>2, <2>1, ShellSame DEF RepairConfig, Control
<1>3. CASE Reboot
  <2>1. loaded' \in BOOLEAN /\ due' \in BOOLEAN
    <3>1. plist \in BOOLEAN /\ loaded' = plist /\ due' = plist
        BY <1>3 DEF Reboot, Control, HostTyped
    <3> QED BY <3>1, Zenon
  <2>2. HostTyped' /\ JobRuns'
      BY <1>3, <2>1, FaultTyped DEF Reboot, Control, HostTyped, JobRuns
  <2>3. failures' \in [Procs -> 0 .. WatchdogFailureThreshold - 1]
      BY <1>3, LifecycleAssumption DEF Reboot
  <2>4. ProcessTyped'
      BY <1>3, <2>3 DEF Reboot, ProcessTyped, Names
  <2>5. ShellTyped'
      BY <1>3 DEF Reboot, Control, ShellTyped, CommandTyped, NoCommand, Starts, Steps
  <2> QED BY <2>2, <2>4, <2>5 DEF Control
<1> QED BY <1>1, <1>2, <1>3

LEMMA ControlBegin ==
    ASSUME Control, NEW name \in {"start", "stop", "restart", "purge"}, Begin(name)
    PROVE  Control'
<1>1. commands' \in 0 .. MaxCommands
  <2>1. commands \in 0 .. MaxCommands
      BY DEF Control, ShellTyped
  <2> QED BY <2>1, LifecycleAssumption DEF Begin
<1>2. PICK first \in {"status", "isRunning", "check"} :
         /\ command' = [name |-> name, step |-> first, pid |-> NoProc]
         /\ name = "start" => first = "check"
         /\ name = "restart" => first = "isRunning"
         /\ name \in {"stop", "purge"} => first = "status"
    BY DEF Begin
<1>3. CommandTyped'
    BY <1>2 DEF CommandTyped, Starts, Steps
<1>4. ShellTyped'
    BY <1>1, <1>3 DEF Begin, ShellTyped
<1> QED BY <1>4, SystemSame DEF Begin, Control

-----------------------------------------------------------------------------
(* A command goes to another of its steps, or returns.                     *)
LEMMA ReturnsTyped ==
    ASSUME Control, Returns
    PROVE  CommandTyped'
BY DEF Returns, CommandTyped, NoCommand, Starts, Steps

LEMMA GoesTyped ==
    ASSUME Control, NEW step \in Steps, Goes(step),
           command.name = "start" => step \in Starts,
           command.name = "stop" => step \in {"kill", "wait", "uninstall"},
           command.name = "restart" => step \in {"status", "wait", "uninstall"} \cup Starts,
           command.name = "purge" => step \in {"wait", "uninstall", "load", "files"},
           step \in {"kill", "wait"} => command.pid \in Procs,
           step # "signal", command.name # "none"
    PROVE  CommandTyped'
<1>1. command' = [name |-> command.name, step |-> step, pid |-> command.pid]
    BY DEF Goes, Control, ShellTyped, CommandTyped
<1> QED BY <1>1 DEF Control, ShellTyped, CommandTyped, Starts, Steps

(* The calls that only ask.                                                *)
LEMMA ControlAsks ==
    ASSUME Control, IsRunning \/ AsksStatus \/ SignalsNobody \/ Waits \/ Check \/ InstallFails
                    \/ AwaitsPID \/ Load \/ UninstallsNothing
    PROVE  Control'
<1>1. HostTyped' /\ ProcessTyped' /\ JobRuns'
    BY SystemSame DEF IsRunning, AsksStatus, SignalsNobody, Waits, Check, InstallFails,
                      AwaitsPID, Load, UninstallsNothing
<1>2. commands' = commands /\ claim' \in {"none", "started", "stopped", "leftLoaded"}
    BY DEF IsRunning, AsksStatus, SignalsNobody, Waits, Check, InstallFails, AwaitsPID, Load,
           UninstallsNothing, Continues, Control, ShellTyped
<1>3. CommandTyped
    BY DEF Control, ShellTyped
<1>4. ASSUME IsRunning PROVE CommandTyped'
    BY <1>3, <1>4, GoesTyped DEF IsRunning, At, Starts, Steps
<1>5. ASSUME AsksStatus PROVE CommandTyped'
  <2>1. CASE Status # NoProc
    <3>1. Status \in Procs
        BY <2>1 DEF Status, Control, HostTyped
    <3>2. command' = [name |-> command.name, step |-> "signal", pid |-> Status]
        BY <1>3, <1>5, <2>1 DEF AsksStatus, CommandTyped
    <3> QED BY <1>3, <1>5, <3>1, <3>2 DEF AsksStatus, At, CommandTyped, Steps
  <2>2. CASE Status = NoProc
      BY <1>3, <1>5, <2>2, GoesTyped, ReturnsTyped DEF AsksStatus, At, Starts, Steps
  <2> QED BY <2>1, <2>2
<1>6. ASSUME SignalsNobody PROVE CommandTyped'
    BY <1>3, <1>6, GoesTyped, ReturnsTyped DEF SignalsNobody, CommandTyped, NoCommand, Starts, Steps
<1>7. ASSUME Waits PROVE CommandTyped'
    BY <1>3, <1>7, GoesTyped DEF Waits, CommandTyped, NoCommand, Starts, Steps
<1>8. ASSUME Check PROVE CommandTyped'
    BY <1>3, <1>8, GoesTyped, ReturnsTyped DEF Check, CommandTyped, NoCommand, Starts, Steps
<1>9. ASSUME InstallFails PROVE CommandTyped'
    BY <1>9, ReturnsTyped DEF InstallFails
<1>10. ASSUME AwaitsPID PROVE CommandTyped'
    BY <1>3, <1>10, GoesTyped, ReturnsTyped DEF AwaitsPID, CommandTyped, NoCommand, Starts, Steps
<1>11. ASSUME Load PROVE CommandTyped'
    BY <1>3, <1>11, GoesTyped, ReturnsTyped DEF Load, At, CommandTyped, NoCommand, Starts, Steps
<1>12. ASSUME UninstallsNothing PROVE CommandTyped'
    BY <1>3, <1>12, GoesTyped, ReturnsTyped
       DEF UninstallsNothing, Continues, At, CommandTyped, NoCommand, Starts, Steps
<1>13. CommandTyped'
    BY <1>4, <1>5, <1>6, <1>7, <1>8, <1>9, <1>10, <1>11, <1>12
<1>14. ShellTyped'
    BY <1>2, <1>13 DEF Control, ShellTyped
<1> QED BY <1>1, <1>14 DEF Control

(* A bootout stops the job of the manager, or leaves everything as it is.  *)
LEMMA UninstallEffect ==
    ASSUME Uninstall
    PROVE  /\ \/ UNCHANGED <<loaded, due, job, process, files>>
              \/ /\ loaded' = FALSE /\ due' = FALSE /\ job' = NoProc
                 /\ IF job = NoProc THEN UNCHANGED <<process, files>> ELSE Terminated(job)
           /\ \E removed, bootedOut \in BOOLEAN :
                /\ Continues(removed, bootedOut)
                /\ plist' = (plist /\ ~removed)
                /\ bootedOut => ~loaded'
           /\ UNCHANGED <<manager, broken, commands>> /\ (UNCHANGED faults \/ Fault)
BY DEF Uninstall, Bootout

LEMMA ControlUninstall ==
    ASSUME Control, Uninstall
    PROVE  Control'
<1>1. ProcessTyped' /\ JobRuns'
  <2>1. CASE UNCHANGED <<loaded, due, job, process, files>>
      BY <2>1 DEF Control, ProcessTyped, JobRuns, Alive, process, files
  <2>2. CASE job' = NoProc /\ job = NoProc /\ UNCHANGED <<process, files>>
      BY <2>2 DEF Control, ProcessTyped, JobRuns, process, files
  <2>3. CASE job' = NoProc /\ job # NoProc /\ Terminated(job)
      BY <2>3, TerminatedTyped DEF Control, HostTyped, JobRuns
  <2> QED BY <2>1, <2>2, <2>3, UninstallEffect
<1>2. HostTyped'
  <2>1. faults' \in 0 .. MaxFaults /\ UNCHANGED <<manager, broken>>
      BY UninstallEffect, FaultTyped DEF Control, HostTyped
  <2>2. plist' \in BOOLEAN
      BY UninstallEffect
  <2>3. loaded' \in BOOLEAN /\ due' \in BOOLEAN /\ job' \in Procs \cup {NoProc}
    <3>1. CASE UNCHANGED <<loaded, due, job>>
        BY <3>1 DEF Control, HostTyped
    <3>2. CASE loaded' = FALSE /\ due' = FALSE /\ job' = NoProc
        BY <3>2
    <3> QED BY <3>1, <3>2, UninstallEffect
  <2>4. manager' \in Managers /\ broken' \in BOOLEAN
      BY <2>1 DEF Control, HostTyped
  <2> QED BY <2>1, <2>2, <2>3, <2>4, Zenon DEF HostTyped
<1>3. PICK removed, bootedOut \in BOOLEAN : Continues(removed, bootedOut)
    BY UninstallEffect
<1>4. CommandTyped'
    BY <1>3, GoesTyped, ReturnsTyped
       DEF Continues, At, Control, ShellTyped, CommandTyped, NoCommand, Starts, Steps
<1>5. ShellTyped'
    BY <1>3, <1>4, UninstallEffect DEF Continues, Control, ShellTyped
<1> QED BY <1>1, <1>2, <1>5 DEF Control

LEMMA ControlSignals ==
    ASSUME Control, Signals \/ Kills \/ Kickstart
    PROVE  Control'
<1>1. CASE Signals
  <2>1. command.pid \in Procs
      BY <1>1 DEF Signals, Control, ShellTyped, CommandTyped
  <2>2. CASE Handles(command.pid)
    <3>1. ProcessTyped' /\ \A q \in Procs : Alive(q) => Alive(q)'
        BY <1>1, <2>1, <2>2, TerminatedTyped
           DEF Signals, Terminated, Alive, Control, ProcessTyped
    <3> QED BY <1>1, <2>2, <3>1, JobGoesOn, GoesTyped
            DEF Signals, Control, HostTyped, ShellTyped, CommandTyped, NoCommand, Starts, Steps
  <2>3. CASE ~Handles(command.pid)
    <3>1. ProcessTyped' /\ JobRuns' /\ job' \in Procs \cup {NoProc} /\ due' \in BOOLEAN
        BY <1>1, <2>1, <2>3, KilledJob DEF Signals, Terminated
    <3> QED BY <1>1, <3>1, GoesTyped
            DEF Signals, Control, HostTyped, ShellTyped, CommandTyped, NoCommand, Starts, Steps
  <2> QED BY <2>2, <2>3
<1>2. CASE Kills
  <2>1. command.pid \in Procs
      BY <1>2 DEF Kills, Control, ShellTyped, CommandTyped
  <2>2. ProcessTyped' /\ JobRuns' /\ job' \in Procs \cup {NoProc} /\ due' \in BOOLEAN
      BY <1>2, <2>1, KilledJob DEF Kills
  <2> QED BY <1>2, <2>2, GoesTyped
          DEF Kills, Control, HostTyped, ShellTyped, CommandTyped, NoCommand, Starts, Steps
<1>3. CASE Kickstart
  <2>1. ProcessTyped' /\ job' = NoProc
    <3>1. CASE job = NoProc
        BY <1>3, <3>1 DEF Kickstart, Control, ProcessTyped, process, files
    <3>2. CASE job # NoProc
        BY <1>3, <3>2, KilledTyped DEF Kickstart, Control, HostTyped
    <3> QED BY <3>1, <3>2
  <2>2. HostTyped' /\ JobRuns'
      BY <1>3, <2>1 DEF Kickstart, Control, HostTyped, JobRuns
  <2>3. CommandTyped'
      BY <1>3, GoesTyped DEF Kickstart, Control, ShellTyped, CommandTyped, NoCommand, Starts, Steps
  <2> QED BY <1>3, <2>1, <2>2, <2>3 DEF Kickstart, Control, ShellTyped
<1> QED BY <1>1, <1>2, <1>3

LEMMA ControlInstalls ==
    ASSUME Control, Install \/ KickstartFails \/ CleanupStateFiles
    PROVE  Control'
<1>1. CASE Install
  <2>1. ProcessTyped'
      BY <1>1 DEF Install, Control, ProcessTyped, process, files
  <2>2. HostTyped' /\ JobRuns'
    <3>1. faults' \in 0 .. MaxFaults
        BY <1>1, FaultTyped DEF Install, Control, HostTyped
    <3>2. CASE ~loaded /\ loaded' = TRUE /\ due' = TRUE
      <4>1. job' = NoProc
          BY <1>1, <3>2 DEF Install, Control, JobRuns
      <4>2. JobRuns'
          BY <4>1 DEF JobRuns
      <4> QED BY <1>1, <3>1, <3>2, <4>2 DEF Install, Control, HostTyped
    <3>3. CASE UNCHANGED <<loaded, due>>
      <4>1. JobRuns'
          BY <1>1, <3>3 DEF Install, Control, JobRuns, Alive, process
      <4> QED BY <1>1, <3>1, <3>3, <4>1 DEF Install, Control, HostTyped
    <3> QED BY <1>1, <3>2, <3>3 DEF Install
  <2>3. CommandTyped'
      BY <1>1, GoesTyped, ReturnsTyped
         DEF Install, Control, ShellTyped, CommandTyped, NoCommand, Starts, Steps
  <2> QED BY <1>1, <2>1, <2>2, <2>3 DEF Install, Control, ShellTyped
<1>2. CASE CleanupStateFiles
  <2>1. ProcessTyped' /\ \A q \in Procs : Alive(q) => Alive(q)'
      BY <1>2 DEF CleanupStateFiles, Control, ProcessTyped, Names, Alive
  <2>2. HostTyped' /\ JobRuns'
      BY <1>2, <2>1, JobGoesOn DEF CleanupStateFiles, service, Control, HostTyped
  <2> QED BY <1>2, <2>1, <2>2, ReturnsTyped DEF CleanupStateFiles, Control, ShellTyped
<1>3. CASE KickstartFails
  <2>1. ProcessTyped'
      BY <1>3 DEF KickstartFails, Control, ProcessTyped, process, files
  <2>2. HostTyped' /\ JobRuns'
      BY <1>3, FaultTyped DEF KickstartFails, Control, HostTyped, JobRuns, Alive, process, service
  <2> QED BY <1>3, <2>1, <2>2, ReturnsTyped DEF KickstartFails, Control, ShellTyped
<1> QED BY <1>1, <1>2, <1>3

LEMMA GoesFields ==
    ASSUME Control, NEW step, Goes(step)
    PROVE  command'.step = step /\ command'.name = command.name /\ command'.pid = command.pid
BY DEF Goes, Control, ShellTyped, CommandTyped

(* What the processes, the manager and the environment do is no step of a  *)
(* command, and loads no service.                                          *)
LEMMA NoCommandStep ==
    ASSUME NEW p \in Procs,
           Runs(p) \/ Respawn(p) \/ RunForeground(p) \/ ActorFails(p) \/ Dies(p) \/ Hangs(p)
           \/ Recovers(p)
    PROVE  UNCHANGED <<manager, plist, loaded, command, claim>>
BY DEF Runs, Build, WritePIDFile, WriteDaemonState, Listen, StartRunners, Probe, CloseSocket,
       Shutdown, Exit, Respawn, RunForeground, ActorFails, Dies, Hangs, Recovers, service, shell

LEMMA ControlStep == Control /\ [Next]_vars => Control'
<1> SUFFICES ASSUME Control, [Next]_vars PROVE Control'
    OBVIOUS
<1>1. ASSUME NEW p \in Procs, Runs(p) PROVE Control'
    BY <1>1, ControlRuns
<1>2. ASSUME NEW p \in Procs,
             Respawn(p) \/ RunForeground(p) \/ ActorFails(p) \/ Dies(p) \/ Hangs(p) \/ Recovers(p)
      PROVE  Control'
    BY <1>2, ControlEnvironment
<1>3. CASE BreakConfig \/ RepairConfig \/ Reboot
    BY <1>3, ControlHost
<1>4. ASSUME NEW name \in {"start", "stop", "restart", "purge"}, Begin(name) PROVE Control'
    BY <1>4, ControlBegin
<1>5. CASE Commands
    BY <1>5, ControlAsks, ControlSignals, ControlUninstall, ControlInstalls DEF Commands
<1>6. CASE UNCHANGED vars
    BY <1>6, ShellSame, SystemSame DEF vars, Control
<1> QED BY <1>1, <1>2, <1>3, <1>4, <1>5, <1>6 DEF Next

LEMMA ControlAlways == Spec => []Control
BY ControlInit, ControlStep, PTL DEF Spec

(* Every variable has its type, and the job of the service manager is a    *)
(* process that runs, for any number of processes, commands and faults.    *)
THEOREM LifecycleTypeCorrect == Spec => []TypeOK
BY ControlAlways, ControlTypes, PTL

-----------------------------------------------------------------------------
(* A process that is alone is named by the files and has no old runners.   *)

LEMMA LoneInit == Init => Lone
BY DEF Init, Lone, Solo, Own, Alive

LEMMA LoneSame ==
    ASSUME Lone, UNCHANGED <<stage, disturbed, workers, files>>
    PROVE  Lone'
BY DEF Lone, Solo, Own, Alive, files

(* When a process ends, every other one was disturbed by it and stays so.  *)
LEMMA LoneEnds ==
    ASSUME Control, Lone, NEW p \in Procs, Alive(p), NEW pids \in Names, NEW states \in Names,
           NEW sockets \in Names, Ended(p, pids, states, sockets)
    PROVE  Lone'
<1>1. stage'[p] = "none" /\ \A q \in Procs : q # p => stage'[q] = stage[q]
    BY EndedTyped
<1>2. \A q \in Procs \ disturbed' : stage'[q] = "none"
    BY <1>1 DEF Lone, Solo, Alive, Ended
<1> QED BY <1>2 DEF Lone, Solo, Own, Alive

LEMMA LoneKilled ==
    ASSUME Control, Lone, NEW p \in Procs, Alive(p), Killed(p)
    PROVE  Lone'
BY LoneEnds DEF Killed, Control, ProcessTyped

(* A step of a process that is not alone is one among disturbed ones, so   *)
(* that a step has to keep only what is its own.                           *)
LEMMA LoneOwn ==
    ASSUME Lone, NEW p \in Procs, Alive(p), UNCHANGED disturbed,
           \A q \in Procs : q # p => stage'[q] = stage[q],
           p \notin disturbed => Own(p)'
    PROVE  Lone'
<1>1. ASSUME NEW q \in Procs \ disturbed', Alive(q)', q # p PROVE FALSE
    BY <1>1 DEF Lone, Solo, Alive
<1> QED BY <1>1 DEF Lone, Solo, Own, Alive

LEMMA LoneLaunched ==
    ASSUME Control, Lone, NEW p \in Procs, Launched(p)
    PROVE  Lone'
<1>1. ~Alive(p) /\ stage'[p] = "building" /\ \A q \in Procs : q # p => stage'[q] = stage[q]
    BY DEF Launched, Control, ProcessTyped
<1>2. CASE \E q \in Procs : Alive(q)
  <2>1. \A q \in Procs \ disturbed' : stage'[q] = "none"
      BY <1>1, <1>2 DEF Launched, Alive
  <2> QED BY <2>1 DEF Lone, Solo, Own, Alive
<1>3. CASE ~\E q \in Procs : Alive(q)
    BY <1>1, <1>3 DEF Lone, Solo, Own, Alive
<1> QED BY <1>2, <1>3

LEMMA LoneTerminated ==
    ASSUME Control, Lone, NEW p \in Procs, Alive(p), Terminated(p)
    PROVE  Lone'
<1>1. CASE Handles(p)
  <2>1. stage'[p] = "closing" /\ \A q \in Procs : q # p => stage'[q] = stage[q]
      BY <1>1 DEF Terminated, Control, ProcessTyped
  <2> QED BY <1>1, <2>1, LoneOwn DEF Terminated, Own
<1>2. CASE ~Handles(p)
    BY <1>2, LoneKilled DEF Terminated
<1> QED BY <1>1, <1>2

LEMMA LoneRuns ==
    ASSUME Control, Lone, NEW p \in Procs, Runs(p)
    PROVE  Lone'
<1>1. Alive(p)
    BY DEF Runs, Build, WritePIDFile, WriteDaemonState, Listen, StartRunners, Probe,
           CloseSocket, Shutdown, Exit, Alive
<1>2. p \notin disturbed => Own(p)
    BY DEF Lone
<1>3. ASSUME UNCHANGED disturbed, \E to : stage' = [stage EXCEPT ![p] = to] \/ stage' = stage,
             p \notin disturbed => Own(p)'
      PROVE  Lone'
    BY <1>1, <1>3, LoneOwn DEF Control, ProcessTyped
<1>4. CASE Build(p)
  <2>1. CASE broken
      BY <2>1, <1>1, <1>4, LoneKilled DEF Build
  <2>2. CASE ~broken
    <3>1. stage'[p] = "built" /\ workers' = {}
        BY <2>2, <1>4 DEF Build, Control, ProcessTyped
    <3>2. Own(p)'
        BY <3>1 DEF Own
    <3> QED BY <2>2, <3>2, <1>3, <1>4 DEF Build
  <2> QED BY <2>1, <2>2
<1>5. CASE WritePIDFile(p)
  <2>1. p \notin disturbed => Own(p)'
      BY <1>2, <1>5 DEF WritePIDFile, Own, Control, ProcessTyped
  <2> QED BY <2>1, <1>3, <1>5 DEF WritePIDFile
<1>6. CASE WriteDaemonState(p)
  <2>1. p \notin disturbed => Own(p)'
      BY <1>2, <1>6 DEF WriteDaemonState, Own, Control, ProcessTyped
  <2> QED BY <2>1, <1>3, <1>6 DEF WriteDaemonState
<1>7. CASE Listen(p)
  <2>1. p \notin disturbed => Own(p)'
      BY <1>2, <1>7 DEF Listen, Own, Control, ProcessTyped
  <2> QED BY <2>1, <1>3, <1>7 DEF Listen
<1>8. CASE StartRunners(p)
  <2>1. p \notin disturbed => Own(p)'
      BY <1>2, <1>8 DEF StartRunners, Own, files
  <2> QED BY <2>1, <1>3, <1>8 DEF StartRunners
<1>9. CASE Probe(p)
  <2>1. CASE Killed(p)
      BY <2>1, <1>1, LoneKilled
  <2>2. CASE ~Killed(p)
      BY <2>2, <1>9, LoneSame DEF Probe
  <2> QED BY <2>1, <2>2
<1>10. CASE CloseSocket(p) \/ Shutdown(p)
  <2>1. Own(p)'
      BY <1>10 DEF CloseSocket, Shutdown, Own, Control, ProcessTyped
  <2> QED BY <2>1, <1>3, <1>10 DEF CloseSocket, Shutdown
<1>11. CASE Exit(p)
    BY <1>1, <1>11, LoneEnds DEF Exit, Control, ProcessTyped, Names
<1> QED BY <1>4, <1>5, <1>6, <1>7, <1>8, <1>9, <1>10, <1>11 DEF Runs

LEMMA LoneEnvironment ==
    ASSUME Control, Lone, NEW p \in Procs,
           Respawn(p) \/ RunForeground(p) \/ ActorFails(p) \/ Dies(p) \/ Hangs(p) \/ Recovers(p)
    PROVE  Lone'
<1>1. CASE Respawn(p) \/ RunForeground(p)
    BY <1>1, LoneLaunched DEF Respawn, RunForeground
<1>2. CASE ActorFails(p)
  <2>1. Alive(p) /\ stage'[p] = "closing" /\ \A q \in Procs : q # p => stage'[q] = stage[q]
      BY <1>2 DEF ActorFails, Control, ProcessTyped, Alive
  <2> QED BY <1>2, <2>1, LoneOwn DEF ActorFails, Own
<1>3. CASE Dies(p)
    BY <1>3, LoneKilled DEF Dies
<1>4. CASE Hangs(p) \/ Recovers(p)
    BY <1>4, LoneSame DEF Hangs, Recovers
<1> QED BY <1>1, <1>2, <1>3, <1>4

LEMMA LoneCommands ==
    ASSUME Control, Lone, Commands
    PROVE  Lone'
<1>1. CASE IsRunning \/ AsksStatus \/ SignalsNobody \/ Waits \/ UninstallsNothing \/ Check
           \/ Install \/ InstallFails \/ KickstartFails \/ AwaitsPID \/ Load
    BY <1>1, LoneSame DEF IsRunning, AsksStatus, SignalsNobody, Waits, UninstallsNothing, Check,
       Install, InstallFails, KickstartFails, AwaitsPID, Load, process
<1>2. CASE Signals
    BY <1>2, LoneTerminated DEF Signals, Control, ShellTyped, CommandTyped
<1>3. CASE Kills
    BY <1>3, LoneKilled DEF Kills, Control, ShellTyped, CommandTyped
<1>4. CASE Uninstall
    BY <1>4, UninstallEffect, LoneSame, LoneTerminated DEF Control, HostTyped, JobRuns, process
<1>5. CASE Kickstart
    BY <1>5, LoneSame, LoneKilled DEF Kickstart, Control, HostTyped, JobRuns, process
<1>6. CASE CleanupStateFiles
  <2>1. \A q \in Procs \ disturbed' : stage'[q] = "none"
      BY <1>6 DEF CleanupStateFiles, Alive
  <2> QED BY <2>1 DEF Lone, Solo, Own, Alive
<1> QED BY <1>1, <1>2, <1>3, <1>4, <1>5, <1>6 DEF Commands

LEMMA LoneStep == Control /\ Lone /\ [Next]_vars => Lone'
<1> SUFFICES ASSUME Control, Lone, [Next]_vars PROVE Lone'
    OBVIOUS
<1>1. ASSUME NEW p \in Procs, Runs(p) PROVE Lone'
    BY <1>1, LoneRuns
<1>2. ASSUME NEW p \in Procs,
             Respawn(p) \/ RunForeground(p) \/ ActorFails(p) \/ Dies(p) \/ Hangs(p) \/ Recovers(p)
      PROVE  Lone'
    BY <1>2, LoneEnvironment
<1>3. CASE BreakConfig \/ RepairConfig \/ UNCHANGED vars
    BY <1>3, LoneSame DEF BreakConfig, RepairConfig, vars, process
<1>4. CASE Reboot
    BY <1>4 DEF Reboot, Lone, Solo, Own, Alive
<1>5. ASSUME NEW name \in {"start", "stop", "restart", "purge"}, Begin(name) PROVE Lone'
    BY <1>5, LoneSame DEF Begin, process
<1>6. CASE Commands
    BY <1>6, LoneCommands
<1> QED BY <1>1, <1>2, <1>3, <1>4, <1>5, <1>6 DEF Next

LEMMA LoneAlways == Spec => []Lone
BY LoneInit, LoneStep, ControlAlways, PTL DEF Spec

(* The three files name the daemon that serves, if no other ran beside it, *)
(* whatever its predecessors have left.                                    *)
THEOREM FilesFollowDaemon == Spec => []FilesFollow
<1>1. Lone => FilesFollow
    BY DEF Lone, Own, FilesFollow
<1> QED BY <1>1, LoneAlways, PTL

(* Such a daemon has no runners of another beside its own.                 *)
THEOREM OldRunnersGone == Spec => []NoOldRunners
<1>1. Lone => NoOldRunners
    BY DEF Lone, Own, NoOldRunners
<1> QED BY <1>1, LoneAlways, PTL

-----------------------------------------------------------------------------
(* What the manager has started is its job, or on its way out.             *)

LEMMA OneJobSame ==
    ASSUME OneJob, UNCHANGED <<stage, supervised, job>>
    PROVE  OneJob'
BY DEF OneJob, Alive

LEMMA OneJobEnds ==
    ASSUME Control, OneJob, NEW p \in Procs, NEW pids \in Names, NEW states \in Names,
           NEW sockets \in Names, Ended(p, pids, states, sockets), job' = job \/ job = p
    PROVE  OneJob'
<1>1. \A q \in Procs : q # p => stage'[q] = stage[q]
    BY EndedTyped
<1>2. supervised' = supervised \ {p} /\ supervised \subseteq Procs
    BY DEF Ended, Control, ProcessTyped
<1> QED BY <1>1, <1>2 DEF OneJob, Alive

LEMMA OneJobKilled ==
    ASSUME Control, OneJob, NEW p \in Procs, Killed(p), job' = job \/ job = p
    PROVE  OneJob'
BY OneJobEnds DEF Killed, Control, ProcessTyped

(* A process that goes on does not come back from its way out.             *)
LEMMA OneJobMoves ==
    ASSUME Control, OneJob, NEW p \in Procs, UNCHANGED supervised, job' = job \/ job = p,
           NEW to, stage' = [stage EXCEPT ![p] = to], to # "none",
           stage[p] \in Leaving \/ job' # job => to \in Leaving
    PROVE  OneJob'
<1>1. stage'[p] = to /\ \A q \in Procs : q # p => stage'[q] = stage[q]
    BY DEF Control, ProcessTyped
<1>2. supervised \subseteq Procs
    BY DEF Control, ProcessTyped
<1> QED BY <1>1, <1>2 DEF OneJob, Alive

LEMMA OneJobTerminated ==
    ASSUME Control, OneJob, NEW p \in Procs, Terminated(p), job' = job \/ job = p
    PROVE  OneJob'
<1>1. CASE Handles(p)
    BY <1>1, OneJobMoves DEF Terminated, Leaving
<1>2. CASE ~Handles(p)
    BY <1>2, OneJobKilled DEF Terminated
<1> QED BY <1>1, <1>2

LEMMA OneJobRuns ==
    ASSUME Control, OneJob, NEW p \in Procs, Runs(p)
    PROVE  OneJob'
<1>1. CASE Build(p)
    BY <1>1, OneJobKilled, OneJobMoves DEF Build, JobEnds, Leaving
<1>2. CASE WritePIDFile(p)
    BY <1>2, OneJobMoves DEF WritePIDFile, service, Leaving
<1>3. CASE WriteDaemonState(p)
    BY <1>3, OneJobMoves DEF WriteDaemonState, service, Leaving
<1>4. CASE Listen(p)
    BY <1>4, OneJobMoves DEF Listen, service, Leaving
<1>5. CASE StartRunners(p)
    BY <1>5, OneJobSame DEF StartRunners, service
<1>6. CASE Probe(p)
  <2>1. CASE Killed(p) /\ JobEnds(p, FALSE)
      BY <2>1, OneJobKilled DEF JobEnds
  <2>2. CASE UNCHANGED <<job, stage, supervised>>
      BY <2>2, OneJobSame
  <2> QED BY <1>6, <2>1, <2>2 DEF Probe
<1>7. CASE CloseSocket(p)
    BY <1>7, OneJobMoves DEF CloseSocket, service, Leaving
<1>8. CASE Shutdown(p)
    BY <1>8, OneJobMoves DEF Shutdown, service, Leaving
<1>9. CASE Exit(p)
    BY <1>9, OneJobEnds DEF Exit, JobEnds, Control, ProcessTyped, Names
<1> QED BY <1>1, <1>2, <1>3, <1>4, <1>5, <1>6, <1>7, <1>8, <1>9 DEF Runs

LEMMA OneJobEnvironment ==
    ASSUME Control, OneJob, NEW p \in Procs,
           Respawn(p) \/ RunForeground(p) \/ ActorFails(p) \/ Dies(p) \/ Hangs(p) \/ Recovers(p)
    PROVE  OneJob'
<1>1. CASE Respawn(p) \/ RunForeground(p)
  <2>1. stage'[p] = "building" /\ ~Alive(p) /\ \A q \in Procs : q # p => stage'[q] = stage[q]
      BY <1>1 DEF Respawn, RunForeground, Launched, Control, ProcessTyped
  <2>2. supervised \subseteq Procs /\ p \notin supervised /\ NoProc \notin Procs
      BY <2>1, LifecycleAssumption DEF OneJob, Control, ProcessTyped
  <2>3. CASE Respawn(p)
      BY <2>1, <2>2, <2>3 DEF Respawn, OneJob, Alive
  <2>4. CASE RunForeground(p)
      BY <2>1, <2>2, <2>4 DEF RunForeground, service, OneJob, Alive
  <2> QED BY <1>1, <2>3, <2>4
<1>2. CASE ActorFails(p)
    BY <1>2, OneJobMoves DEF ActorFails, service, Leaving
<1>3. CASE Dies(p)
    BY <1>3, OneJobKilled DEF Dies, JobEnds
<1>4. CASE Hangs(p) \/ Recovers(p)
    BY <1>4, OneJobSame DEF Hangs, Recovers, service
<1> QED BY <1>1, <1>2, <1>3, <1>4

LEMMA OneJobCommands ==
    ASSUME Control, OneJob, Commands
    PROVE  OneJob'
<1>1. CASE IsRunning \/ AsksStatus \/ SignalsNobody \/ Waits \/ UninstallsNothing \/ Check
           \/ Install \/ InstallFails \/ KickstartFails \/ AwaitsPID \/ Load
           \/ CleanupStateFiles
    BY <1>1, OneJobSame DEF IsRunning, AsksStatus, SignalsNobody, Waits, UninstallsNothing, Check,
       Install, InstallFails, KickstartFails, AwaitsPID, Load, CleanupStateFiles, process, service
<1>2. CASE Signals
    BY <1>2, OneJobTerminated DEF Signals, JobEnds, Control, ShellTyped, CommandTyped
<1>3. CASE Kills
    BY <1>3, OneJobKilled DEF Kills, JobEnds, Control, ShellTyped, CommandTyped
<1>4. CASE Uninstall
  <2>1. CASE UNCHANGED <<job, process, files>>
      BY <2>1, OneJobSame DEF process
  <2>2. CASE job' = NoProc /\ job = NoProc /\ UNCHANGED <<process, files>>
      BY <2>2, OneJobSame DEF process
  <2>3. CASE job' = NoProc /\ job # NoProc /\ Terminated(job)
      BY <2>3, OneJobTerminated DEF Control, HostTyped
  <2> QED BY <1>4, <2>1, <2>2, <2>3, UninstallEffect
<1>5. CASE Kickstart
  <2>1. CASE job = NoProc
      BY <1>5, <2>1, OneJobSame DEF Kickstart, process
  <2>2. CASE job # NoProc
      BY <1>5, <2>2, OneJobKilled DEF Kickstart, Control, HostTyped
  <2> QED BY <2>1, <2>2
<1> QED BY <1>1, <1>2, <1>3, <1>4, <1>5 DEF Commands

LEMMA OneJobStep == Control /\ OneJob /\ [Next]_vars => OneJob'
<1> SUFFICES ASSUME Control, OneJob, [Next]_vars PROVE OneJob'
    OBVIOUS
<1>1. ASSUME NEW p \in Procs, Runs(p) PROVE OneJob'
    BY <1>1, OneJobRuns
<1>2. ASSUME NEW p \in Procs,
             Respawn(p) \/ RunForeground(p) \/ ActorFails(p) \/ Dies(p) \/ Hangs(p) \/ Recovers(p)
      PROVE  OneJob'
    BY <1>2, OneJobEnvironment
<1>3. CASE BreakConfig \/ RepairConfig \/ UNCHANGED vars
    BY <1>3, OneJobSame DEF BreakConfig, RepairConfig, vars, process, service
<1>4. CASE Reboot
    BY <1>4 DEF Reboot, OneJob
<1>5. ASSUME NEW name \in {"start", "stop", "restart", "purge"}, Begin(name) PROVE OneJob'
    BY <1>5, OneJobSame DEF Begin, process, service
<1>6. CASE Commands
    BY <1>6, OneJobCommands
<1> QED BY <1>1, <1>2, <1>3, <1>4, <1>5, <1>6 DEF Next

-----------------------------------------------------------------------------
(* What stop has said stays true until the next command.                   *)

LEMMA UnsupportedStep == Control /\ Unsupported /\ [Next]_vars => Unsupported'
<1> SUFFICES ASSUME Control, Unsupported, [Next]_vars PROVE Unsupported'
    OBVIOUS
<1>1. ASSUME NEW p \in Procs,
             Runs(p) \/ Respawn(p) \/ RunForeground(p) \/ ActorFails(p) \/ Dies(p) \/ Hangs(p)
             \/ Recovers(p)
      PROVE  Unsupported'
    BY <1>1, NoCommandStep DEF Unsupported
<1>2. CASE BreakConfig \/ RepairConfig \/ UNCHANGED vars
    BY <1>2 DEF BreakConfig, RepairConfig, vars, service, shell, Unsupported
<1>3. CASE Reboot
    BY <1>3 DEF Reboot, NoCommand, Unsupported
<1>4. ASSUME NEW name \in {"start", "stop", "restart", "purge"}, Begin(name) PROVE Unsupported'
  <2>1. manager' = manager
      BY <1>4 DEF Begin, service
  <2>2. PICK first \in {"status", "isRunning", "check"} :
           /\ command' = [name |-> name, step |-> first, pid |-> NoProc]
           /\ name = "stop" => first = "status"
      BY <1>4 DEF Begin
  <2> QED BY <2>1, <2>2 DEF Unsupported
<1>5. CASE Commands
  <2>1. SUFFICES ASSUME manager = "systemd"
                 PROVE  command'.step \notin {"signal", "kill", "wait", "kickstart", "await", "undo"}
                            /\ (command'.name = "stop" => command'.step = "status")
    <3>1. manager' = manager
        BY <1>5 DEF Commands, IsRunning, AsksStatus, SignalsNobody, Signals, Kills, Waits,
           Uninstall, UninstallsNothing, Check, Install, InstallFails, Kickstart, KickstartFails,
           AwaitsPID, Load, CleanupStateFiles, service
    <3> QED BY <2>1, <3>1 DEF Unsupported
  <2>2. command.step \notin {"signal", "kill", "wait", "kickstart", "await", "undo"}
            /\ (command.name = "stop" => command.step = "status") /\ Status = NoProc
      BY <2>1 DEF Unsupported, Status
  <2>3. ~(SignalsNobody \/ Signals \/ Kills \/ Waits \/ Uninstall \/ Install \/ Kickstart
          \/ KickstartFails \/ AwaitsPID)
      BY <2>1, <2>2 DEF SignalsNobody, Signals, Kills, Waits, Uninstall, Install, Kickstart,
         KickstartFails, AwaitsPID
  <2>4. \/ command' = NoCommand
        \/ command.name # "stop"
             /\ \E step \in {"check", "load", "files", "install", "cleanup"} : Goes(step)
      BY <1>5, <2>2, <2>3 DEF Commands, IsRunning, AsksStatus, UninstallsNothing, Uninstalling,
         Continues, Check, InstallFails, Load, CleanupStateFiles, Returns, At
  <2> QED BY <2>4, GoesFields DEF NoCommand
<1> QED BY <1>1, <1>2, <1>3, <1>4, <1>5 DEF Next

LEMMA StoppedStep == Control /\ Unsupported /\ Stopped /\ [Next]_vars => Stopped'
<1> SUFFICES ASSUME Control, Unsupported, Stopped, [Next]_vars PROVE Stopped'
    OBVIOUS
<1>1. ASSUME NEW p \in Procs,
             Runs(p) \/ Respawn(p) \/ RunForeground(p) \/ ActorFails(p) \/ Dies(p) \/ Hangs(p)
             \/ Recovers(p)
      PROVE  Stopped'
    BY <1>1, NoCommandStep DEF Stopped, NoCommand
<1>2. CASE BreakConfig \/ RepairConfig \/ UNCHANGED vars
    BY <1>2 DEF BreakConfig, RepairConfig, vars, service, shell, Stopped, NoCommand
<1>3. CASE Reboot
    BY <1>3 DEF Reboot, NoCommand, Stopped
<1>4. ASSUME NEW name \in {"start", "stop", "restart", "purge"}, Begin(name) PROVE Stopped'
    BY <1>4 DEF Begin, Stopped
<1>5. CASE Commands
  <2>1. claim \notin {"stopped", "leftLoaded"}
    <3>1. ASSUME command = NoCommand PROVE FALSE
      <4>1. command.step = "none"
          BY <3>1 DEF NoCommand
      <4> QED
        BY <1>5, <4>1 DEF Commands, IsRunning, AsksStatus, SignalsNobody, Signals, Kills, Waits,
           Uninstall, UninstallsNothing, Uninstalling, Check, Install, InstallFails, Kickstart,
           KickstartFails, AwaitsPID, Load, CleanupStateFiles, At
    <3> QED BY <3>1 DEF Stopped
  <2>2. CASE UNCHANGED claim \/ claim' = "started"
      BY <2>1, <2>2 DEF Stopped
  <2>3. CASE Uninstall
    <3>1. PICK removed, bootedOut \in BOOLEAN :
             /\ Continues(removed, bootedOut)
             /\ plist' = (plist /\ ~removed)
             /\ bootedOut => ~loaded'
        BY <2>3, UninstallEffect
    <3> QED BY <2>1, <3>1 DEF Continues, Returns, Stopped
  <2>4. CASE UninstallsNothing
      BY <2>1, <2>4 DEF UninstallsNothing, Continues, At, Unsupported, Stopped
  <2> QED BY <1>5, <2>2, <2>3, <2>4 DEF Commands, IsRunning, AsksStatus, SignalsNobody, Signals,
             Kills, Waits, Check, Install, InstallFails, Kickstart, KickstartFails, AwaitsPID,
             Load, CleanupStateFiles
<1> QED BY <1>1, <1>2, <1>3, <1>4, <1>5 DEF Next

(* After "ghr stopped" the service is not installed, and after a bootout   *)
(* that launchd has carried out it is not loaded and what it had started   *)
(* is on its way out, until a command starts it again.                     *)
THEOREM StopIsFinal == Spec => []StopSticks
<1>1. Init => OneJob /\ Unsupported /\ Stopped
    BY DEF Init, OneJob, Unsupported, Stopped, NoCommand
<1>2. Control /\ OneJob /\ Stopped => StopSticks
    BY LifecycleAssumption
       DEF Control, HostTyped, JobRuns, ProcessTyped, OneJob, Stopped, StopSticks, Leaving
<1> QED BY <1>1, <1>2, ControlAlways, OneJobStep, UnsupportedStep, StoppedStep, PTL DEF Spec
=============================================================================
