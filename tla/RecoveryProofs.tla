--------------------------- MODULE RecoveryProofs ---------------------------
(***************************************************************************)
(* Proofs about Recovery for any number of runners, with deaths of the     *)
(* daemon at any moment and any number of times.  What is left to do for a *)
(* runner is always the rest of one of the few lists that the code has; so *)
(* a runner enters the pool with nothing left to do for it, and nothing is *)
(* begun for a runner that is in the pool but its own teardown.  Names     *)
(* come from workdirs found before the daemon has runners of its own, and  *)
(* what another host runs has no workdir here: no pass over the names      *)
(* meets either.                                                           *)
(***************************************************************************)
EXTENDS Recovery, TLAPS

(* What is left of a start, and what a start that failed comes down to.    *)
Starts == {Starting, <<"place", "start", "record">>, <<"start", "record">>, <<"record">>,
           <<"deregister">>}

(* What is left of a kill, of the end of a job, and of a runner that the   *)
(* shutdown finds busy or idle.                                            *)
Teardowns == {<<"stop", "cleanup", "deregister">>, <<"cleanup", "deregister">>,
              <<"stop", "cleanup">>, <<"cleanup">>,
              <<"stop", "deregister", "cleanup">>, <<"deregister", "cleanup">>,
              <<"deregister", "stop", "cleanup">>}

Plans == Starts \cup Teardowns \cup {<<>>}

Planned == todo \in [Runners -> Plans] /\ \A r \in pool : todo[r] = <<>>

(* The type invariant in parts: what the daemon remembers, and what is     *)
(* there when it has died.                                                 *)
MemoryTyped ==
    /\ daemon \in {"down", "cleaning", "serving", "stopping"}
    /\ pool \in SUBSET Runners /\ toClean \in SUBSET Runners /\ asked \in SUBSET Runners
    /\ stale \in SUBSET Runners /\ pass \in SUBSET Runners
    /\ listener \in {"off", "connecting", "up"}
    /\ pass # {} => listener = "connecting"

LeftTyped ==
    /\ limits \in BOOLEAN
    /\ registered \in SUBSET Runners /\ abroad \in SUBSET Runners /\ busy \in SUBSET Runners
    /\ workdir \in [Runners -> {"none", "bare", "pid"}]
    /\ cgroups \in SUBSET Runners /\ alive \in SUBSET Runners

Inductive == MemoryTyped /\ LeftTyped /\ Planned

(* The runners that this daemon has started or is tearing down.            *)
Own(r) == r \in pool \/ todo[r] # <<>>

(* Of the runners that another host runs nothing is here.                  *)
Absent(r) == ~Own(r) /\ r \notin stale \cup pass \cup toClean /\ workdir[r] = "none"

(* What a start of the daemon finds is cleaned up before it has runners,   *)
(* and the names that it keeps for the listener are neither its own nor of *)
(* another host.                                                           *)
Foreign ==
    /\ daemon \in {"down", "cleaning"} => \A r \in Runners : ~Own(r)
    /\ daemon # "cleaning" => toClean = {}
    /\ \A r \in Runners : Own(r) => r \notin stale \cup pass
    /\ \A r \in abroad : Absent(r)

-----------------------------------------------------------------------------
Steps == {"prepare", "place", "start", "record", "stop", "cleanup", "deregister"}

LEMMA PlansAreSteps == Plans \subseteq Seq(Steps)
BY DEF Plans, Starts, Starting, Teardowns, Steps

(* A plan with its first step taken is a plan, and recording the process   *)
(* is the last step of a start.                                            *)
LEMMA PlanGoesOn ==
    ASSUME NEW p \in Plans, p # <<>>
    PROVE  Tail(p) \in Plans /\ (Head(p) = "record" => Tail(p) = <<>>)
<1>1. CASE p \in Starts
  <2>1. /\ Tail(Starting) = <<"place", "start", "record">>
        /\ Tail(<<"place", "start", "record">>) = <<"start", "record">>
        /\ Tail(<<"start", "record">>) = <<"record">>
        /\ Tail(<<"record">>) = <<>> /\ Tail(<<"deregister">>) = <<>>
      BY DEF Starting
  <2>2. Tail(p) \in Plans
      BY <1>1, <2>1 DEF Plans, Starts
  <2>3. Head(p) = "record" => p = <<"record">>
      BY <1>1 DEF Starts, Starting
  <2> QED BY <2>1, <2>2, <2>3
<1>2. CASE p \in Teardowns
  <2>1. /\ Tail(<<"stop", "cleanup", "deregister">>) = <<"cleanup", "deregister">>
        /\ Tail(<<"cleanup", "deregister">>) = <<"deregister">>
        /\ Tail(<<"stop", "cleanup">>) = <<"cleanup">> /\ Tail(<<"cleanup">>) = <<>>
        /\ Tail(<<"stop", "deregister", "cleanup">>) = <<"deregister", "cleanup">>
        /\ Tail(<<"deregister", "cleanup">>) = <<"cleanup">>
        /\ Tail(<<"deregister", "stop", "cleanup">>) = <<"stop", "cleanup">>
      OBVIOUS
  <2>2. Head(p) # "record"
      BY <1>2 DEF Teardowns
  <2> QED BY <1>2, <2>1, <2>2 DEF Plans, Starts, Teardowns
<1> QED BY <1>1, <1>2 DEF Plans
-----------------------------------------------------------------------------
LEMMA InductiveTypes == Inductive => TypeOK
<1> SUFFICES ASSUME Inductive PROVE TypeOK
    OBVIOUS
<1>1. todo \in [Runners -> Seq(Steps)]
    BY PlansAreSteps DEF Inductive, Planned
<1> QED BY <1>1 DEF Inductive, MemoryTyped, LeftTyped, Planned, TypeOK, Steps

LEMMA RecoveryInit == Init => Inductive
BY DEF Init, Inductive, MemoryTyped, LeftTyped, Planned, Plans

(* A step of a plan that is taken: the runner is not in the pool.          *)
LEMMA StepDonePlanned ==
    ASSUME Inductive, NEW r \in Runners, NEW step, NextStep(r, step), StepDone(r)
    PROVE  /\ todo' \in [Runners -> Plans] /\ r \notin pool
           /\ \A q \in Runners : q # r => todo'[q] = todo[q]
           /\ step = "record" => todo'[r] = <<>>
<1>1. todo[r] \in Plans /\ todo[r] # <<>> /\ Head(todo[r]) = step
    BY DEF Inductive, Planned, NextStep
<1>2. Tail(todo[r]) \in Plans /\ (step = "record" => Tail(todo[r]) = <<>>)
    BY <1>1, PlanGoesOn
<1> QED BY <1>1, <1>2 DEF Inductive, Planned, StepDone

(* A plan that replaces what was left, or that begins.                     *)
LEMMA ContinuePlanned ==
    ASSUME Inductive, NEW r \in Runners, NEW p \in Plans, Continue(r, p)
    PROVE  /\ todo' \in [Runners -> Plans]
           /\ \A q \in Runners : q # r => todo'[q] = todo[q]
BY DEF Inductive, Planned, Continue

LEMMA StepIsNotPooled ==
    ASSUME Inductive, NEW r \in Runners, NEW step, NextStep(r, step)
    PROVE  r \notin pool
BY DEF Inductive, Planned, NextStep

LEMMA CgroupDestroyed ==
    ASSUME Inductive, NEW r \in Runners, DestroyCgroup(r)
    PROVE  cgroups' \in SUBSET Runners /\ alive' \in SUBSET Runners
BY DEF Inductive, LeftTyped, DestroyCgroup

LEMMA DirRemoved ==
    ASSUME Inductive, NEW r \in Runners, RemoveDir(r)
    PROVE  workdir' \in [Runners -> {"none", "bare", "pid"}]
BY DEF Inductive, LeftTyped, RemoveDir

-----------------------------------------------------------------------------
LEMMA StartStepKeeps ==
    ASSUME Inductive, NEW r \in Runners, StartStep(r)
    PROVE  Inductive'
<1>1. CASE GenerateJITConfig(r)
  <2>1. r \notin pool /\ UNCHANGED pool
      BY <1>1 DEF GenerateJITConfig, Unused
  <2>2. Planned'
    <3>1. CASE Continue(r, Starting)
      <4>1. Starting \in Plans
          BY DEF Plans, Starts
      <4> QED BY <2>1, <3>1, <4>1, ContinuePlanned DEF Inductive, Planned, MemoryTyped
    <3>2. CASE UNCHANGED todo
        BY <2>1, <3>2 DEF Inductive, Planned
    <3> QED BY <1>1, <3>1, <3>2 DEF GenerateJITConfig
  <2> QED BY <1>1, <2>2 DEF GenerateJITConfig, Inductive, MemoryTyped, LeftTyped, names, disk
<1>2. CASE StartStep(r) /\ ~GenerateJITConfig(r)
  <2>1. UNCHANGED <<daemon, limits, asked, toClean, stale, pass, listener, github>>
      BY <1>2 DEF StartStep, Prepare, PlaceInCgroup, PlaceFails, StartProcess, StartFails,
                  RecordPID, names
  <2>2. PICK step : NextStep(r, step) /\ (step = "record" <=> RecordPID(r))
      BY <1>2 DEF StartStep, Prepare, PlaceInCgroup, PlaceFails, StartProcess, StartFails,
                  RecordPID, NextStep
  <2>3. StepDone(r) \/ Continue(r, <<"deregister">>)
      BY <1>2 DEF StartStep, Prepare, PlaceInCgroup, PlaceFails, StartProcess, StartFails,
                  RecordPID
  <2>4. <<"deregister">> \in Plans
      BY DEF Plans, Starts
  <2>5. todo' \in [Runners -> Plans] /\ \A q \in Runners : q # r => todo'[q] = todo[q]
      BY <2>2, <2>3, <2>4, StepDonePlanned, ContinuePlanned
  <2>6. r \notin pool
      BY <2>2, StepIsNotPooled
  <2>7. MemoryTyped' /\ Planned'
    <3>1. CASE RecordPID(r)
      <4>1. todo'[r] = <<>>
          BY <2>2, <3>1, StepDonePlanned DEF RecordPID
      <4> QED BY <2>1, <2>5, <3>1, <4>1 DEF RecordPID, Inductive, MemoryTyped, Planned
    <3>2. CASE ~RecordPID(r)
      <4>1. UNCHANGED pool
          BY <1>2, <3>2 DEF StartStep, Prepare, PlaceInCgroup, PlaceFails, StartProcess,
                            StartFails
      <4> QED BY <2>1, <2>5, <2>6, <4>1 DEF Inductive, MemoryTyped, Planned
    <3> QED BY <3>1, <3>2
  <2>8. LeftTyped'
    <3>1. CASE Prepare(r) \/ RecordPID(r)
        BY <2>1, <3>1 DEF Prepare, RecordPID, github, Inductive, LeftTyped
    <3>2. CASE PlaceInCgroup(r) \/ PlaceFails(r)
        BY <2>1, <3>2 DEF PlaceInCgroup, PlaceFails, github, Inductive, LeftTyped
    <3>3. CASE StartProcess(r)
        BY <2>1, <3>3 DEF StartProcess, github, disk, Inductive, LeftTyped
    <3>4. CASE StartFails(r)
        BY <2>1, <3>4, CgroupDestroyed DEF StartFails, github, Inductive, LeftTyped
    <3> QED BY <1>2, <3>1, <3>2, <3>3, <3>4 DEF StartStep
  <2> QED BY <2>7, <2>8 DEF Inductive
<1> QED BY <1>1, <1>2

(* A teardown begins with the runner out of the pool.                      *)
LEMMA TearDownKeeps ==
    ASSUME Inductive, NEW r \in Runners,
           KillRunner(r) \/ HandleJobCompleted(r) \/ AsksRemoval(r) \/ ReleaseSurplus(r)
    PROVE  Inductive'
<1>1. /\ UNCHANGED <<daemon, limits, toClean, stale, pass, listener, abroad, busy, disk, alive>>
      /\ registered' \subseteq registered /\ asked' \in SUBSET Runners
    BY DEF KillRunner, HandleJobCompleted, AsksRemoval, ReleaseSurplus, github, names,
           Inductive, MemoryTyped
<1>2. (\E p \in Plans : TearDown(r, p)) \/ UNCHANGED <<pool, todo>>
  <2>1. <<"stop", "cleanup", "deregister">> \in Plans /\ <<"stop", "cleanup">> \in Plans
      BY DEF Plans, Teardowns
  <2> QED BY <2>1 DEF KillRunner, HandleJobCompleted, AsksRemoval, ReleaseSurplus
<1>3. Planned' /\ pool' \subseteq pool
  <2>1. CASE \E p \in Plans : TearDown(r, p)
    <3>1. PICK p \in Plans : pool' = pool \ {r} /\ Continue(r, p)
        BY <2>1 DEF TearDown
    <3> QED BY <3>1, ContinuePlanned DEF Inductive, Planned, MemoryTyped
  <2> QED BY <1>2, <2>1 DEF Inductive, Planned
<1> QED BY <1>1, <1>3 DEF disk, Inductive, MemoryTyped, LeftTyped

LEMMA TeardownStepKeeps ==
    ASSUME Inductive, NEW r \in Runners, TeardownStep(r)
    PROVE  Inductive'
<1>1. UNCHANGED <<daemon, limits, pool, asked, toClean, stale, pass, listener, abroad, busy>>
    BY DEF TeardownStep, StopProcess, CleanupProcess, Deregister, github, names
<1>2. PICK step : NextStep(r, step)
    BY DEF TeardownStep, StopProcess, CleanupProcess, Deregister
<1>3. StepDone(r) \/ Continue(r, <<>>)
    BY DEF TeardownStep, StopProcess, CleanupProcess, Deregister
<1>4. Planned'
  <2>1. <<>> \in Plans
      BY DEF Plans
  <2>2. todo' \in [Runners -> Plans] /\ \A q \in Runners : q # r => todo'[q] = todo[q]
      BY <1>2, <1>3, <2>1, StepDonePlanned, ContinuePlanned
  <2> QED BY <1>1, <1>2, <2>2, StepIsNotPooled DEF Inductive, Planned, MemoryTyped
<1>5. LeftTyped'
  <2>1. CASE StopProcess(r)
      BY <1>1, <2>1 DEF StopProcess, github, disk, Inductive, LeftTyped
  <2>2. CASE CleanupProcess(r)
      BY <1>1, <2>2, CgroupDestroyed, DirRemoved DEF CleanupProcess, github, Inductive, LeftTyped
  <2>3. CASE Deregister(r)
      BY <1>1, <2>3 DEF Deregister, disk, Inductive, LeftTyped
  <2> QED BY <2>1, <2>2, <2>3 DEF TeardownStep
<1> QED BY <1>1, <1>4, <1>5 DEF Inductive, MemoryTyped

(* Shutdown, death, and what the next start finds.                         *)
LEMMA DaemonKeeps ==
    ASSUME Inductive, Shutdown \/ Dies \/ Boots \/ KillOrphanRunners
    PROVE  Inductive'
<1>1. CASE Shutdown
  <2>1. /\ <<"stop", "deregister", "cleanup">> \in Plans
        /\ <<"deregister", "stop", "cleanup">> \in Plans
      BY DEF Plans, Teardowns
  <2>2. todo' \in [Runners -> Plans]
      BY <1>1, <2>1 DEF Shutdown, Inductive, Planned
  <2> QED BY <1>1, <2>2 DEF Shutdown, github, disk, Inductive, MemoryTyped, LeftTyped, Planned
<1>2. CASE Dies
  <2>1. <<>> \in Plans
      BY DEF Plans
  <2> QED BY <1>2, <2>1 DEF Dies, github, disk, Inductive, MemoryTyped, LeftTyped, Planned
<1>3. CASE Boots
  <2>1. cgroups' \in SUBSET Runners /\ alive' \in SUBSET Runners
      BY <1>3 DEF Boots, SweepStale, Inductive, LeftTyped
  <2>2. limits' \in BOOLEAN /\ toClean' \in SUBSET Runners
      BY <1>3 DEF Boots
  <2> QED BY <1>3, <2>1, <2>2 DEF Boots, names, github, Inductive, MemoryTyped, LeftTyped, Planned
<1>4. CASE KillOrphanRunners
    BY <1>4 DEF KillOrphanRunners, memory, names, github, disk, Inductive, MemoryTyped, LeftTyped,
                Planned
<1> QED BY <1>1, <1>2, <1>3, <1>4

LEMMA CleanupStaleKeeps ==
    ASSUME Inductive, NEW r \in Runners, CleanupStaleRunner(r)
    PROVE  Inductive'
<1>1. workdir' \in [Runners -> {"none", "bare", "pid"}]
    BY DirRemoved DEF CleanupStaleRunner
<1> QED BY <1>1 DEF CleanupStaleRunner, names, github, Inductive, MemoryTyped, LeftTyped, Planned

(* Names are looked up while the listener connects and only then.          *)
LEMMA ListenerKeeps ==
    ASSUME Inductive,
           \/ ListenerConnects \/ ListenerStarts \/ ListenerFails
           \/ \E r \in Runners : StaleRemoved(r) \/ StaleKept(r)
    PROVE  Inductive'
<1>1. CASE ListenerConnects \/ ListenerStarts \/ ListenerFails
    BY <1>1 DEF ListenerConnects, ListenerStarts, ListenerFails, names, github, disk, Inductive,
                MemoryTyped, LeftTyped, Planned
<1>2. CASE \E r \in Runners : StaleRemoved(r) \/ StaleKept(r)
    BY <1>2 DEF StaleRemoved, StaleKept, Looked, Retry, disk, Inductive, MemoryTyped,
                LeftTyped, Planned
<1> QED BY <1>1, <1>2

LEMMA OutsideKeeps ==
    ASSUME Inductive, NEW r \in Runners,
           \/ OtherHostStarts(r) \/ OtherHostEnds(r)
           \/ AssignJob(r) \/ JobEnds(r) \/ ProcessExits(r)
    PROVE  Inductive'
BY DEF OtherHostStarts, OtherHostEnds, AssignJob, JobEnds, ProcessExits, memory, names, github, disk, Inductive, MemoryTyped,
       LeftTyped, Planned

LEMMA RecoveryStep == Inductive /\ [Next]_vars => Inductive'
<1> SUFFICES ASSUME Inductive, [Next]_vars PROVE Inductive'
    OBVIOUS
<1>1. CASE Next
    BY <1>1, StartStepKeeps, TearDownKeeps, TeardownStepKeeps, DaemonKeeps, CleanupStaleKeeps,
       ListenerKeeps, OutsideKeeps DEF Next
<1>2. CASE UNCHANGED vars
    BY <1>2 DEF vars, memory, names, github, disk, Inductive, MemoryTyped, LeftTyped, Planned
<1> QED BY <1>1, <1>2

(* Wherever the daemon dies and whatever it finds when it starts again,    *)
(* every variable has its type, a runner that is being started or torn     *)
(* down is not in the pool, and names are looked up only while a listener  *)
(* connects.                                                               *)
THEOREM RecoveryTypeCorrect == Spec => []TypeOK
BY RecoveryInit, RecoveryStep, InductiveTypes, PTL DEF Spec

-----------------------------------------------------------------------------
(* A runner that is not of this daemon stays so, but for one that a start  *)
(* registers.                                                              *)
LEMMA OwnFromRegistration ==
    ASSUME Inductive, Next, NEW r \in Runners, Own(r)', ~Own(r)
    PROVE  GenerateJITConfig(r)
<1> USE DEF Own
<1>1. ASSUME NEW q \in Runners, StartStep(q) PROVE GenerateJITConfig(r)
  <2>1. CASE GenerateJITConfig(q)
    <3>1. UNCHANGED pool /\ (Continue(q, Starting) \/ UNCHANGED todo)
        BY <2>1 DEF GenerateJITConfig
    <3>2. q # r => todo'[r] = todo[r]
        BY <3>1 DEF Continue, Inductive, Planned
    <3> QED BY <2>1, <3>1, <3>2
  <2>2. CASE ~GenerateJITConfig(q)
    <3>1. PICK step : NextStep(q, step)
        BY <1>1, <2>2 DEF StartStep, Prepare, PlaceInCgroup, PlaceFails, StartProcess,
                          StartFails, RecordPID
    <3>2. /\ StepDone(q) \/ Continue(q, <<"deregister">>)
          /\ pool' \subseteq pool \cup {q}
        BY <1>1, <2>2 DEF StartStep, Prepare, PlaceInCgroup, PlaceFails, StartProcess,
                          StartFails, RecordPID
    <3>3. q # r
        BY <3>1 DEF NextStep
    <3>4. todo'[r] = todo[r]
        BY <3>2, <3>3 DEF StepDone, Continue, Inductive, Planned
    <3> QED BY <3>2, <3>3, <3>4
  <2> QED BY <2>1, <2>2
<1>2. ASSUME NEW q \in Runners,
             KillRunner(q) \/ HandleJobCompleted(q) \/ AsksRemoval(q) \/ ReleaseSurplus(q)
      PROVE  FALSE
  <2>1. (\E p : TearDown(q, p)) \/ UNCHANGED <<pool, todo>>
      BY <1>2 DEF KillRunner, HandleJobCompleted, AsksRemoval, ReleaseSurplus
  <2> QED BY <2>1 DEF TearDown, Continue, Inductive, Planned
<1>3. ASSUME NEW q \in Runners, TeardownStep(q) PROVE FALSE
  <2>1. PICK step : NextStep(q, step)
      BY <1>3 DEF TeardownStep, StopProcess, CleanupProcess, Deregister
  <2>2. (StepDone(q) \/ Continue(q, <<>>)) /\ UNCHANGED pool
      BY <1>3 DEF TeardownStep, StopProcess, CleanupProcess, Deregister
  <2> QED BY <2>1, <2>2 DEF NextStep, StepDone, Continue, Inductive, Planned
<1>4. ASSUME Shutdown \/ Dies PROVE FALSE
    BY <1>4 DEF Shutdown, Dies, Inductive, Planned
<1>5. ASSUME UNCHANGED <<pool, todo>> PROVE FALSE
    BY <1>5
<1>6. ASSUME Boots \/ KillOrphanRunners \/ ListenerConnects \/ ListenerStarts \/ ListenerFails
      PROVE  FALSE
    BY <1>5, <1>6 DEF Boots, KillOrphanRunners, ListenerConnects, ListenerStarts,
                      ListenerFails, memory
<1>7. ASSUME NEW q \in Runners,
             \/ CleanupStaleRunner(q) \/ StaleRemoved(q) \/ StaleKept(q)
             \/ OtherHostStarts(q) \/ OtherHostEnds(q)
             \/ AssignJob(q) \/ JobEnds(q) \/ ProcessExits(q)
      PROVE  FALSE
    BY <1>5, <1>7 DEF CleanupStaleRunner, StaleRemoved, StaleKept, Looked, OtherHostStarts,
                      OtherHostEnds, AssignJob, JobEnds, ProcessExits, memory
<1> QED BY <1>1, <1>2, <1>3, <1>4, <1>6, <1>7 DEF Next

(* Only a daemon that is cleaning finds names, in the workdirs it has come *)
(* across when it started, and these are gone through before it serves.    *)
LEMMA NamesFromCleaning ==
    ASSUME Next
    PROVE  /\ daemon = "cleaning" \/ stale' \cup pass' \subseteq stale \cup pass
           /\ stale' \cup pass' \subseteq stale \cup pass \cup toClean
           /\ Dies \/ Boots \/ (daemon' \in {"down", "cleaning"} => UNCHANGED daemon)
           /\ \/ daemon' = "cleaning" \/ toClean' = {}
              \/ daemon # "cleaning" /\ UNCHANGED toClean
           /\ Boots \/ toClean' \subseteq toClean
BY DEF Next, StartStep, GenerateJITConfig, Prepare, PlaceInCgroup, PlaceFails,
       StartProcess, StartFails, RecordPID, KillRunner, HandleJobCompleted, AsksRemoval,
       ReleaseSurplus, TearDown, TeardownStep, StopProcess, CleanupProcess, Deregister,
       OtherHostStarts, OtherHostEnds, AssignJob, JobEnds, ProcessExits, Shutdown, Boots,
       KillOrphanRunners, CleanupStaleRunner, ListenerConnects, ListenerStarts,
       ListenerFails, StaleRemoved, StaleKept, Looked, Retry, Dies, memory, names

(* A workdir changes by a step of its runner or by the cleanup of it.      *)
LEMMA WorkdirIsOwn ==
    ASSUME Inductive, Next, NEW r \in Runners, workdir'[r] # workdir[r]
    PROVE  Own(r) \/ r \in toClean
<1>1. PICK q \in Runners : Prepare(q) \/ RecordPID(q) \/ CleanupProcess(q) \/ CleanupStaleRunner(q)
    BY DEF Next, StartStep, GenerateJITConfig, PlaceInCgroup, PlaceFails,
       StartProcess, StartFails, KillRunner, HandleJobCompleted, AsksRemoval,
       ReleaseSurplus, TeardownStep, StopProcess, Deregister,
       OtherHostStarts, OtherHostEnds, AssignJob, JobEnds, ProcessExits, Shutdown, Boots,
       KillOrphanRunners, ListenerConnects, ListenerStarts,
       ListenerFails, StaleRemoved, StaleKept, Looked, Dies, disk
<1>2. q = r
    BY <1>1 DEF Prepare, RecordPID, CleanupProcess, CleanupStaleRunner, RemoveDir, Inductive,
                LeftTyped
<1> QED BY <1>1, <1>2 DEF Prepare, RecordPID, CleanupProcess, CleanupStaleRunner, NextStep, Own

(* Another host's runner is new when it appears.                           *)
LEMMA AbroadIsNew ==
    ASSUME Next, NEW r \in abroad', r \notin abroad
    PROVE  OtherHostStarts(r) /\ r \in Runners
BY DEF Next, StartStep, GenerateJITConfig, Prepare, PlaceInCgroup, PlaceFails,
       StartProcess, StartFails, RecordPID, KillRunner, HandleJobCompleted, AsksRemoval,
       ReleaseSurplus, TeardownStep, StopProcess, CleanupProcess, Deregister,
       OtherHostStarts, OtherHostEnds, AssignJob, JobEnds, ProcessExits, Shutdown, Boots,
       KillOrphanRunners, CleanupStaleRunner, ListenerConnects, ListenerStarts,
       ListenerFails, StaleRemoved, StaleKept, Looked, Dies, github

LEMMA ForeignStep == Inductive /\ Foreign /\ [Next]_vars => Foreign'
<1> SUFFICES ASSUME Inductive, Foreign, [Next]_vars PROVE Foreign'
    OBVIOUS
<1>1. CASE UNCHANGED vars
    BY <1>1 DEF vars, memory, names, github, disk, Foreign, Absent, Own
<1>2. CASE Next
  <2>1. ASSUME NEW r \in Runners, Own(r)' PROVE r \notin stale' \cup pass'
    <3>1. CASE GenerateJITConfig(r)
        BY <3>1 DEF GenerateJITConfig, Unused, names
    <3>2. CASE Own(r)
        BY <1>2, <3>2, NamesFromCleaning DEF Foreign
    <3> QED BY <1>2, <2>1, <3>1, <3>2, OwnFromRegistration
  <2>2. ASSUME daemon' \in {"down", "cleaning"}, NEW r \in Runners PROVE ~Own(r)'
    <3>1. daemon \in {"down", "cleaning"} \/ Dies
        BY <1>2, <2>2, NamesFromCleaning DEF Boots
    <3>2. ~GenerateJITConfig(r) \/ Dies
        BY <3>1 DEF GenerateJITConfig
    <3>3. Dies => ~Own(r)'
        BY DEF Dies, Own
    <3> QED BY <1>2, <3>1, <3>2, <3>3, OwnFromRegistration DEF Foreign
  <2>3. daemon' # "cleaning" => toClean' = {}
      BY <1>2, NamesFromCleaning DEF Foreign
  <2>4. ASSUME NEW r \in abroad' PROVE Absent(r)'
    <3>1. CASE r \notin abroad
      <4>1. OtherHostStarts(r) /\ r \in Runners
          BY <1>2, <3>1, AbroadIsNew
      <4>2. r \notin toClean'
          BY <4>1 DEF OtherHostStarts, Unused, memory, Foreign
      <4> QED BY <4>1, <4>2 DEF OtherHostStarts, Unused, memory, names, disk, Absent, Own
    <3>2. CASE r \in abroad
      <4>1. Absent(r) /\ r \in Runners
          BY <3>2 DEF Foreign, Inductive, LeftTyped
      <4>2. ~GenerateJITConfig(r)
          BY <3>2 DEF GenerateJITConfig, Unused
      <4>3. ~Own(r)'
          BY <1>2, <4>1, <4>2, OwnFromRegistration DEF Absent
      <4>4. workdir'[r] = "none"
          BY <1>2, <4>1, WorkdirIsOwn DEF Absent
      <4>5. r \notin stale' \cup pass'
          BY <1>2, <4>1, NamesFromCleaning DEF Absent
      <4>6. r \notin toClean'
          BY <1>2, <4>1, NamesFromCleaning DEF Absent, Boots
      <4> QED BY <4>3, <4>4, <4>5, <4>6 DEF Absent
    <3> QED BY <3>1, <3>2
  <2> QED BY <2>1, <2>2, <2>3, <2>4 DEF Foreign
<1> QED BY <1>1, <1>2

(* What a start of the daemon does about the runners of an earlier one     *)
(* never meets a live runner: while it sweeps cgroups, cleans workdirs up  *)
(* and kills orphans (daemon.go) it has none of its own, and a name that   *)
(* the listener looks up as stale (group.go:148) is of no runner in the    *)
(* pool, under start or under teardown, and of no other host.              *)
THEOREM CleanupSparesOwn == Spec => []Foreign
<1>1. Init => Foreign
    BY DEF Init, Foreign, Own
<1> QED BY <1>1, RecoveryInit, RecoveryStep, ForeignStep, PTL DEF Spec

(* The looks of a listener take registrations of dead daemons only.        *)
LEMMA LookSpares ==
    ASSUME Foreign, [Next]_vars, pass' # pass, NEW r \in registered \ registered', Inductive
    PROVE  r \notin abroad \cup pool /\ todo[r] = <<>>
<1>1. PICK q \in Runners : StaleRemoved(q)
    BY DEF Next, StartStep, GenerateJITConfig, Prepare, PlaceInCgroup, PlaceFails,
       StartProcess, StartFails, RecordPID, KillRunner, HandleJobCompleted, AsksRemoval,
       ReleaseSurplus, TeardownStep, StopProcess, CleanupProcess, Deregister,
       OtherHostStarts, OtherHostEnds, AssignJob, JobEnds, ProcessExits, Shutdown, Boots,
       KillOrphanRunners, CleanupStaleRunner, ListenerConnects, ListenerStarts,
       ListenerFails, StaleKept, Dies, github, memory, names, vars
<1>2. r = q /\ q \in pass
    BY <1>1 DEF StaleRemoved, Looked
<1> QED BY <1>2 DEF Foreign, Absent, Own

(* The promise of the README about several hosts, for any number of        *)
(* runners, hosts and deaths of the daemon.                                *)
THEOREM LiveRunnersSpared == Spec => LiveSpared
<1>1. Init => Foreign
    BY DEF Init, Foreign, Own
<1>2. Inductive /\ Foreign /\ [Next]_vars =>
          [pass' # pass =>
              \A r \in registered \ registered' : r \notin abroad \cup pool /\ todo[r] = <<>>]_vars
    BY LookSpares
<1> QED BY <1>1, <1>2, RecoveryInit, RecoveryStep, ForeignStep, PTL DEF Spec, LiveSpared
=============================================================================
