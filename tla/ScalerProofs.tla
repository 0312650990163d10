---------------------------- MODULE ScalerProofs ----------------------------
(***************************************************************************)
(* Proofs about one group's scaler, for any number of runners, any minimum *)
(* and maximum, with a budget and without one, and however the listener,   *)
(* the wake loop, the monitor, the watchers and the shutdown interleave.   *)
(***************************************************************************)
EXTENDS Scaler, SumTheorems, SequenceTheorems

Steps == {"stop", "cleanup", "deregister"}

Has(s, x) == \E i \in DOMAIN s : s[i] = x

(* What a teardown has left to do: nothing twice, and the process is       *)
(* stopped before its reservation is given back.                           *)
Plan(s) ==
    /\ s \in Seq(Steps)
    /\ \A i, j \in DOMAIN s : s[i] = s[j] => i = j
    /\ \A i, j \in DOMAIN s : s[i] = "cleanup" /\ s[j] = "stop" => j < i

-----------------------------------------------------------------------------
(* A teardown that stops and cleans up.                                    *)
LEMMA StoppingPlans ==
    LET s == <<"stop", "cleanup">>
    IN Plan(s) /\ Has(s, "cleanup") /\ Has(s, "stop")
<1> DEFINE s == <<"stop", "cleanup">>
<1>1. /\ s \in Seq(Steps) /\ DOMAIN s = 1 .. 2
      /\ s[1] = "stop" /\ s[2] = "cleanup"
    BY SMT DEF Steps
<1> HIDE DEF s
<1>2. Plan(s) /\ Has(s, "cleanup") /\ Has(s, "stop")
    BY <1>1, SMT DEF Plan, Has
<1> QED BY <1>2 DEF s

(* A kill, which deregisters afterwards.                                   *)
LEMMA KillingPlans ==
    LET s == <<"stop", "cleanup", "deregister">>
    IN Plan(s) /\ Has(s, "cleanup") /\ Has(s, "stop")
<1> DEFINE s == <<"stop", "cleanup", "deregister">>
<1>1. /\ s \in Seq(Steps) /\ DOMAIN s = 1 .. 3
      /\ s[1] = "stop" /\ s[2] = "cleanup" /\ s[3] = "deregister"
    BY SMT DEF Steps
<1> HIDE DEF s
<1>2. Plan(s) /\ Has(s, "cleanup") /\ Has(s, "stop")
    BY <1>1, SMT DEF Plan, Has
<1> QED BY <1>2 DEF s

(* The shutdown of an idle runner, which is deregistered first.            *)
LEMMA IdleShutdownPlans ==
    LET s == <<"deregister", "stop", "cleanup">>
    IN Plan(s) /\ Has(s, "cleanup") /\ Has(s, "stop")
<1> DEFINE s == <<"deregister", "stop", "cleanup">>
<1>1. /\ s \in Seq(Steps) /\ DOMAIN s = 1 .. 3
      /\ s[1] = "deregister" /\ s[2] = "stop" /\ s[3] = "cleanup"
    BY SMT DEF Steps
<1> HIDE DEF s
<1>2. Plan(s) /\ Has(s, "cleanup") /\ Has(s, "stop")
    BY <1>1, SMT DEF Plan, Has
<1> QED BY <1>2 DEF s

(* The shutdown of a busy runner.                                          *)
LEMMA BusyShutdownPlans ==
    LET s == <<"stop", "deregister", "cleanup">>
    IN Plan(s) /\ Has(s, "cleanup") /\ Has(s, "stop")
<1> DEFINE s == <<"stop", "deregister", "cleanup">>
<1>1. /\ s \in Seq(Steps) /\ DOMAIN s = 1 .. 3
      /\ s[1] = "stop" /\ s[2] = "deregister" /\ s[3] = "cleanup"
    BY SMT DEF Steps
<1> HIDE DEF s
<1>2. Plan(s) /\ Has(s, "cleanup") /\ Has(s, "stop")
    BY <1>1, SMT DEF Plan, Has
<1> QED BY <1>2 DEF s

(* A teardown that is over has nothing left to do.                         *)
LEMMA NothingPlanned == Plan(<<>>) /\ \A x : ~Has(<<>>, x)
BY SMT DEF Plan, Has

(* A step that is done is the one step that is no longer to be done.       *)
LEMMA PlanGoesOn ==
    ASSUME NEW s, Plan(s), s # <<>>
    PROVE  /\ Plan(Tail(s)) /\ Head(s) \in Steps /\ Has(s, Head(s))
           /\ \A x : Has(Tail(s), x) <=> Has(s, x) /\ x # Head(s)
           /\ Len(s) = 1 => \A x : Has(s, x) => x = Head(s)
           /\ Head(s) = "cleanup" => ~Has(s, "stop")
<1>1. s \in Seq(Steps) /\ Len(s) \in Nat /\ Len(s) > 0 /\ DOMAIN s = 1 .. Len(s)
  BY SMT DEF Plan
<1>2. /\ Tail(s) \in Seq(Steps) /\ DOMAIN Tail(s) = 1 .. Len(s) - 1
      /\ \A i \in 1 .. Len(s) - 1 : Tail(s)[i] = s[i + 1]
  BY <1>1, HeadTailProperties, LenProperties
<1>3. Head(s) = s[1] /\ Head(s) \in Steps /\ 1 \in DOMAIN s
  BY <1>1, HeadTailProperties, SMT DEF Plan
<1>4. \A i \in DOMAIN Tail(s) : i + 1 \in DOMAIN s /\ Tail(s)[i] = s[i + 1] /\ i \in Int
  BY <1>1, <1>2, SMT
<1>5. Plan(Tail(s))
  <2>1. \A i, j \in DOMAIN Tail(s) : Tail(s)[i] = Tail(s)[j] => i = j
     BY <1>4, SMT DEF Plan
  <2>2. \A i, j \in DOMAIN Tail(s) : Tail(s)[i] = "cleanup" /\ Tail(s)[j] = "stop" => j < i
     BY <1>4, SMT DEF Plan
  <2> QED BY <1>2, <2>1, <2>2 DEF Plan
<1>6. ASSUME NEW x PROVE Has(Tail(s), x) <=> Has(s, x) /\ x # Head(s)
  <2>1. \A i \in DOMAIN s : i = 1 \/ (i - 1 \in DOMAIN Tail(s) /\ (i - 1) + 1 = i)
    BY <1>1, <1>2, SMT
  <2>2. \A i \in DOMAIN Tail(s) : i + 1 # 1
    BY <1>2, SMT
  <2>3. \A i \in DOMAIN s : s[i] = s[1] => i = 1
    BY <1>3 DEF Plan
  <2>4. ASSUME Has(Tail(s), x) PROVE Has(s, x) /\ x # Head(s)
     BY <1>3, <1>4, <2>2, <2>3, <2>4 DEF Has
  <2>5. ASSUME NEW i \in DOMAIN s, s[i] = x, x # Head(s) PROVE Has(Tail(s), x)
     BY <1>3, <1>4, <2>1, <2>5 DEF Has
  <2> QED BY <2>4, <2>5 DEF Has
<1>7. Len(s) = 1 => \A x : Has(s, x) => x = Head(s)
  BY <1>1, <1>3, SMT DEF Has
<1>8. Head(s) = "cleanup" => ~Has(s, "stop")
  BY <1>1, <1>3, SMT DEF Has, Plan
<1> QED BY <1>3, <1>5, <1>6, <1>7, <1>8 DEF Has

-----------------------------------------------------------------------------
(* What a step may do to the pool, the teardowns and the runner that is    *)
(* being started: every action is one of these.                            *)

Actors == {"listener", "reconcile", "watcher", "health"}

(* A runner leaves the pool to be torn down.                               *)
Takes(r) ==
    /\ r \in idle \cup busy
    /\ TakeOut(r)
    /\ \E actor \in Actors, s \in {Stopping, Killing} :
        /\ TearDown(r, actor, s)
        /\ actor = "reconcile" => recPc = "take" /\ r \in current
    /\ UNCHANGED <<starting, leased, host, daemon>>

(* Nothing of this kind happens: at most a process ends.                   *)
Quiet ==
    /\ UNCHANGED <<idle, busy, tear, starting, leased>>
    /\ alive' \ stuck' \subseteq alive \ stuck
    /\ phase = "exited" => phase' = "exited"

(* A teardown goes on, or is given up.                                     *)
GoesOn(r) ==
    /\ tear[r].steps # <<>>
    /\ StepDone(r) \/ tear' = [tear EXCEPT ![r] = Nobody]

(* The cases, of which the proofs below make use.                          *)
LEMMA OwnerSteps ==
    ASSUME Next
    PROVE  \/ Quiet
           \/ \E r \in Runners : Takes(r)
           \/ \E r \in Runners : /\ StopProcess(r) \/ CleanupProcess(r) \/ Deregister(r)
                                 /\ GoesOn(r) /\ UNCHANGED <<idle, busy, starting>>
           \/ \E r \in Runners : \/ HandleJobStarted(r) \/ GenerateJITConfig(r)
                                 \/ StartRunner(r) \/ StartFails(r)
           \/ ListenerStarts \/ Shutdown \/ Exit
<1> DEFINE Goal == Quiet \/ \E r \in Runners : Takes(r)
<1> USE DEF Quiet, leases, host, daemon
<1>1. ASSUME NEW r \in Runners, TrimTakes(r)
      PROVE  Goal
    BY <1>1 DEF TrimTakes, Takes, Actors, pool
<1>2. ASSUME NEW r \in Runners, HandleJobCompleted(r)
      PROVE  Goal
    BY <1>2 DEF HandleJobCompleted, Takes, Actors
<1>3. ASSUME NEW r \in Runners, NEW actor \in Actors \ {"reconcile"},
             KillRunner(r, actor) \/ KillIdleRunner(r, actor) \/ UNCHANGED <<pool, tear>>,
             UNCHANGED <<starting, leased, host, daemon>>
      PROVE  Goal
    BY <1>3 DEF KillRunner, KillIdleRunner, Takes, pool
<1>4. ASSUME NEW r \in Runners,
             \/ WatcherFires(r) \/ CheckLiveness(r) \/ CheckTimeouts(r) \/ CheckIdleTimeouts(r)
      PROVE  Goal
  <2>1. CASE WatcherFires(r)
      BY <1>3, <2>1 DEF WatcherFires, Actors
  <2>2. CASE CheckLiveness(r)
      BY <1>3, <2>2 DEF CheckLiveness, Kill, Actors
  <2>3. CASE CheckTimeouts(r)
      BY <1>3, <2>3 DEF CheckTimeouts, Kill, Actors
  <2>4. CASE CheckIdleTimeouts(r)
      BY <1>3, <2>4 DEF CheckIdleTimeouts, KillIdle, Actors
  <2> QED BY <1>4, <2>1, <2>2, <2>3, <2>4
<1>5. ASSUME NEW r \in Runners, StopProcess(r) \/ CleanupProcess(r) \/ Deregister(r)
      PROVE  GoesOn(r) /\ UNCHANGED <<idle, busy, starting>>
    BY <1>5 DEF StopProcess, ProcessEnds, CleanupProcess, Deregister, NextStep, GoesOn, pool
<1>6. ASSUME NEW count \in 0 .. MaxRunners, HandleDesiredRunnerCount(count)
      PROVE  Goal
    BY <1>6 DEF HandleDesiredRunnerCount, Begin, pool
<1>7. ASSUME NEW r \in Runners, TrimLooksUp(r) \/ TrimAsks(r)
      PROVE  Goal
    BY <1>7 DEF TrimLooksUp, TrimAsks, pool
<1>8. ASSUME \/ Wake \/ UpdateGroupStats \/ SurplusIdle \/ TakeMu \/ JITConfigFails
             \/ ReconcileReturns
      PROVE  Goal
    BY <1>8 DEF Wake, Begin, UpdateGroupStats, SurplusIdle, TakeMu, JITConfigFails,
                ReconcileReturns, pool
<1>9. ASSUME \/ CheckBegins \/ Snapshots \/ CheckEnds \/ ListenerFails \/ StopSignal
             \/ \E r \in Runners : \/ ContextKills(r) \/ AssignJob(r) \/ JobEnds(r)
                                   \/ ProcessExits(r)
      PROVE  Goal
    BY <1>9 DEF CheckBegins, Snapshots, CheckEnds, ListenerFails, StopSignal, ContextKills,
                AssignJob, JobEnds, ProcessExits, ProcessEnds, pool
<1> HIDE DEF Goal
<1>10. CASE Reconcile
    BY <1>1, <1>6, <1>7, <1>8, <1>10 DEF Reconcile, Goal
<1>11. CASE Events
    BY <1>2, <1>4, <1>11 DEF Events, Goal
<1>12. CASE Teardown
    BY <1>5, <1>12 DEF Teardown
<1>13. CASE Check
    BY <1>4, <1>9, <1>13 DEF Check, Goal
<1>14. CASE Daemon
    BY <1>9, <1>14 DEF Daemon, Goal
<1>15. CASE World
    BY <1>9, <1>15 DEF World, Goal
<1> QED BY <1>10, <1>11, <1>12, <1>13, <1>14, <1>15 DEF Next

-----------------------------------------------------------------------------
(* Types and control.                                                      *)

AtMostOne(S) == \A x, y \in S : x = y

Teardowns ==
    [by : {"nobody", "listener", "reconcile", "watcher", "health", "shutdown"},
     steps : Seq(Steps)]

PoolTyped ==
    /\ idle \in SUBSET Runners /\ busy \in SUBSET Runners
    /\ starting \in SUBSET Runners
    /\ tear \in [Runners -> Teardowns]

BudgetTyped == leased \in SUBSET Runners /\ watched \in SUBSET Runners /\ grant \in Nat

RecTyped ==
    /\ lastCount \in SUBSET Nat /\ AtMostOne(lastCount)
    /\ recBy \in {"nobody", "listener", "wake"}
    /\ recPc \in {"off", "stats", "surplus", "trim", "ask", "take", "lock", "provision"}
    /\ trim \in SUBSET Runners
    /\ current \in SUBSET Runners /\ AtMostOne(current)

MonitorTyped ==
    /\ health \in {"off", "locked", "checking"}
    /\ unchecked \in SUBSET Runners
    /\ snapIdle \in SUBSET Runners /\ snapBusy \in SUBSET Runners /\ killable \in Nat

WorldTyped ==
    /\ listener \in {"off", "up", "down"}
    /\ phase \in {"serving", "stopping", "shutdown", "exited"}
    /\ registered \in SUBSET Runners
    /\ job \in [Runners -> {"none", "running", "done"}]
    /\ unnumbered \in SUBSET Runners
    /\ alive \in SUBSET Runners /\ stuck \in SUBSET Runners /\ bound \in SUBSET Runners

(* Only a reconcile that has taken mu starts runners, one at a time and    *)
(* each under a grant.                                                     *)
StartsUnderGrant == AtMostOne(starting) /\ (starting # {} => recPc = "provision" /\ grant > 0)

(* Whoever reconciles knows a count; the listener does it while it is up.  *)
ReconcileKnows ==
    /\ recBy = "nobody" <=> recPc = "off"
    /\ recBy # "nobody" => lastCount # {}
    /\ recBy = "listener" => listener = "up"
    /\ recBy = "wake" => Budgeted

Control ==
    /\ PoolTyped /\ BudgetTyped /\ RecTyped /\ MonitorTyped /\ WorldTyped
    /\ StartsUnderGrant /\ ReconcileKnows

(* A set of runners is finite.                                             *)
LEMMA RunnersFinite ==
    ASSUME NEW S \in SUBSET Runners
    PROVE  IsFiniteSet(S) /\ Cardinality(S) \in Nat
<1>1. IsFiniteSet(S)
    BY ScalerAssumption, FS_Subset
<1> QED BY <1>1, FS_CardinalityType

(* Types as TypeOK states them.                                            *)
LEMMA ControlTyped == Control => TypeOK
<1> SUFFICES ASSUME Control PROVE TypeOK
    OBVIOUS
<1>1. \A S : AtMostOne(S) => Cardinality(S) = 0 \/ Cardinality(S) = 1
  <2> SUFFICES ASSUME NEW S, AtMostOne(S)
               PROVE  Cardinality(S) = 0 \/ Cardinality(S) = 1
      OBVIOUS
  <2>1. CASE S = {}
      BY <2>1, FS_EmptySet
  <2>2. CASE S # {}
    <3>1. PICK x : S = {x}
        BY <2>2 DEF AtMostOne
    <3> QED BY <3>1, FS_Singleton
  <2> QED BY <2>1, <2>2
<1>2. Cardinality(lastCount) <= 1 /\ Cardinality(current) <= 1
    BY <1>1, SMT DEF Control, RecTyped
<1>3. Cardinality(starting) <= grant
  <2>1. grant \in Nat
      BY DEF Control, BudgetTyped
  <2>2. CASE starting = {}
      BY <2>1, <2>2, FS_EmptySet, SMT
  <2>3. CASE starting # {}
      BY <1>1, <2>1, <2>3, SMT DEF Control, StartsUnderGrant
  <2> QED BY <2>2, <2>3
<1>4. tear \in [Runners -> [by : {"nobody", "listener", "reconcile", "watcher", "health",
                                  "shutdown"},
                            steps : Seq({"stop", "cleanup", "deregister"})]]
    BY DEF Control, PoolTyped, Teardowns, Steps
<1> QED BY <1>2, <1>3, <1>4
        DEF Control, PoolTyped, BudgetTyped, RecTyped, MonitorTyped, WorldTyped, TypeOK

(* A runner that is not being torn down.                                   *)
LEMMA NobodyTyped == Nobody \in Teardowns /\ Nobody.steps = <<>> /\ Nobody.by = "nobody"
BY SMT DEF Nobody, Teardowns

(* At the start nothing runs and nothing is known.                         *)
LEMMA InitControl == Init => Control
<1> SUFFICES ASSUME Init PROVE Control
    OBVIOUS
<1>1. PoolTyped
    BY NobodyTyped DEF Init, PoolTyped
<1>2. RecTyped /\ ReconcileKnows /\ StartsUnderGrant
    BY DEF Init, RecTyped, ReconcileKnows, AtMostOne, StartsUnderGrant
<1>3. BudgetTyped /\ MonitorTyped /\ WorldTyped
    BY SMT DEF Init, BudgetTyped, MonitorTyped, WorldTyped
<1> QED BY <1>1, <1>2, <1>3 DEF Control

(* The pool and the teardowns keep their types.                            *)
LEMMA PoolStep == PoolTyped /\ Next => PoolTyped'
<1> SUFFICES ASSUME PoolTyped, Next PROVE PoolTyped'
    OBVIOUS
<1>0. Stopping \in Seq(Steps) /\ Killing \in Seq(Steps)
    BY StoppingPlans, KillingPlans DEF Stopping, Killing, Plan
<1>1. CASE UNCHANGED <<idle, busy, tear, starting>>
    BY <1>1 DEF PoolTyped
<1>2. ASSUME NEW r \in Runners, Takes(r)
      PROVE  PoolTyped'
  <2>1. \A a \in Actors, s \in {Stopping, Killing} : [by |-> a, steps |-> s] \in Teardowns
      BY <1>0 DEF Teardowns, Actors
  <2>2. tear' \in [Runners -> Teardowns]
      BY <1>2, <2>1 DEF Takes, TearDown, PoolTyped
  <2> QED BY <1>2, <2>2 DEF PoolTyped, Takes, TakeOut
<1>3. ASSUME NEW r \in Runners, GoesOn(r), UNCHANGED <<idle, busy, starting>>
      PROVE  PoolTyped'
  <2>1. tear[r] \in Teardowns /\ Tail(tear[r].steps) \in Seq(Steps)
      BY <1>3, HeadTailProperties DEF Teardowns, GoesOn, PoolTyped
  <2>2. [by |-> tear[r].by, steps |-> Tail(tear[r].steps)] \in Teardowns
      BY <2>1 DEF Teardowns
  <2>3. tear' \in [Runners -> Teardowns]
      BY <1>3, <2>2, NobodyTyped DEF GoesOn, StepDone, PoolTyped
  <2> QED BY <1>3, <2>3 DEF PoolTyped
<1>4. ASSUME NEW r \in Runners,
             \/ HandleJobStarted(r) \/ GenerateJITConfig(r) \/ StartRunner(r) \/ StartFails(r)
      PROVE  PoolTyped'
    BY <1>4 DEF HandleJobStarted, GenerateJITConfig, StartRunner, StartFails, PoolTyped, pool
<1>5. CASE ListenerStarts
    BY <1>5 DEF ListenerStarts, PoolTyped, pool
<1>6. CASE Shutdown
  <2>1. /\ [by |-> "shutdown", steps |-> <<"deregister", "stop", "cleanup">>] \in Teardowns
        /\ [by |-> "shutdown", steps |-> <<"stop", "deregister", "cleanup">>] \in Teardowns
      BY IdleShutdownPlans, BusyShutdownPlans DEF Teardowns, Plan
  <2>2. tear' \in [Runners -> Teardowns]
      BY <1>6, <2>1 DEF Shutdown, PoolTyped, pool
  <2> QED BY <1>6, <2>2 DEF Shutdown, PoolTyped, pool
<1>7. CASE Exit
    BY <1>7, NobodyTyped DEF Exit, PoolTyped, pool
<1> QED BY <1>1, <1>2, <1>3, <1>4, <1>5, <1>6, <1>7, OwnerSteps DEF Quiet

(* What is missing is a natural number, and filling it up does not exceed  *)
(* the maximum.                                                            *)
LEMMA NeedBounded ==
    ASSUME PoolTyped, RecTyped, lastCount # {}
    PROVE  /\ Need \in Nat
           /\ Need = 0 \/ Need + Cardinality(idle) + Cardinality(busy) <= MaxRunners
<1> DEFINE c == CHOOSE c \in lastCount : TRUE
           n == Cardinality(idle) + Cardinality(busy)
<1>1. c \in Nat
    BY DEF RecTyped
<1>2. Cardinality(idle) \in Nat /\ Cardinality(busy) \in Nat
    BY RunnersFinite DEF PoolTyped
<1>3. Target(c) \in Nat /\ Target(c) <= MaxRunners
  <2> HIDE DEF c
  <2> QED BY <1>1, ScalerAssumption, SMT DEF Target
<1>4. Need = Monus(Target(c), n)
    BY DEF Need
<1> HIDE DEF c
<1> QED BY <1>2, <1>3, <1>4, ScalerAssumption, SMT DEF Monus

(* Leases, grants and watchers keep their types.                           *)
LEMMA BudgetStep == Control /\ Next => BudgetTyped'
<1> SUFFICES ASSUME Control, Next PROVE BudgetTyped'
    OBVIOUS
<1>0. BudgetTyped /\ RecTyped /\ PoolTyped
    BY DEF Control
<1>1. CASE UNCHANGED <<leases, watched>>
    BY <1>0, <1>1 DEF BudgetTyped, leases
<1>2. ASSUME TakeMu
      PROVE  BudgetTyped'
  <2>1. lastCount # {}
      BY <1>2 DEF TakeMu, Control, ReconcileKnows, RecTyped
  <2>2. grant' \in Nat
      BY <1>0, <1>2, <2>1, NeedBounded, SMT DEF TakeMu
  <2> QED BY <1>0, <1>2, <2>2 DEF TakeMu, BudgetTyped
<1>3. ASSUME NEW r \in Runners, StartRunner(r) \/ StartFails(r)
      PROVE  BudgetTyped'
  <2>1. grant > 0 /\ grant' = grant - 1
      BY <1>3 DEF Control, StartsUnderGrant, StartRunner, StartFails
  <2>2. grant' \in Nat
      BY <1>0, <2>1, SMT DEF BudgetTyped
  <2> QED BY <1>0, <1>3, <2>2 DEF StartRunner, StartFails, BudgetTyped
<1>4. ASSUME JITConfigFails
      PROVE  BudgetTyped'
    BY <1>0, <1>4, SMT DEF JITConfigFails, BudgetTyped
<1>5. ASSUME NEW r \in Runners, CleanupProcess(r)
      PROVE  BudgetTyped'
    BY <1>0, <1>5 DEF CleanupProcess, BudgetTyped
<1>6. ASSUME NEW r \in Runners, WatcherFires(r)
      PROVE  BudgetTyped'
    BY <1>0, <1>6 DEF WatcherFires, BudgetTyped, leases
<1>7. ASSUME Reconcile
      PROVE  BudgetTyped'
    BY <1>1, <1>2, <1>3, <1>4, <1>7
       DEF Reconcile, HandleDesiredRunnerCount, Begin, Wake, UpdateGroupStats, SurplusIdle,
           TrimLooksUp, TrimAsks, TrimTakes, GenerateJITConfig, ReconcileReturns
<1>8. ASSUME Events \/ Teardown
      PROVE  BudgetTyped'
    BY <1>1, <1>5, <1>6, <1>8
       DEF Events, Teardown, HandleJobStarted, HandleJobCompleted, StopProcess,
           ProcessEnds, Deregister
<1>9. ASSUME Check \/ Daemon \/ World
      PROVE  BudgetTyped'
  <2>1. UNCHANGED <<leases, watched>>
      BY <1>9 DEF Check, CheckBegins, Snapshots, CheckLiveness, CheckTimeouts,
             CheckIdleTimeouts, CheckEnds, Daemon, ListenerStarts, ListenerFails, StopSignal,
             ContextKills, ProcessEnds, Shutdown, Exit, World, AssignJob, JobEnds, ProcessExits
  <2> QED BY <1>1, <2>1
<1> QED BY <1>7, <1>8, <1>9 DEF Next

(* The reconcile keeps its place, and starts runners only under a grant.   *)
LEMMA RecStep == Control /\ Next => (RecTyped /\ StartsUnderGrant /\ ReconcileKnows)'
<1> SUFFICES ASSUME Control, Next PROVE (RecTyped /\ StartsUnderGrant /\ ReconcileKnows)'
    OBVIOUS
<1> DEFINE Goal == RecTyped /\ StartsUnderGrant /\ ReconcileKnows
<1>0. RecTyped /\ StartsUnderGrant /\ ReconcileKnows /\ idle \in SUBSET Runners
    BY DEF Control, PoolTyped
<1> USE DEF RecTyped, StartsUnderGrant, ReconcileKnows, AtMostOne
<1>1. CASE UNCHANGED <<rec, starting, grant, listener>>
    BY <1>0, <1>1 DEF rec
<1>2. ASSUME NEW count \in 0 .. MaxRunners, HandleDesiredRunnerCount(count)
      PROVE  Goal'
  <2>1. count \in Nat
      BY ScalerAssumption, SMT
  <2> QED BY <1>0, <1>2, <2>1 DEF HandleDesiredRunnerCount, ListenerFree, Begin, leases, daemon
<1>3. ASSUME Wake
      PROVE  Goal'
    BY <1>0, <1>3 DEF Wake, Begin, leases, daemon
<1>4. ASSUME UpdateGroupStats \/ SurplusIdle
      PROVE  Goal'
    BY <1>0, <1>4 DEF UpdateGroupStats, SurplusIdle, Goto, leases, daemon
<1>5. ASSUME NEW r \in Runners, TrimLooksUp(r) \/ TrimAsks(r) \/ TrimTakes(r)
      PROVE  Goal'
    BY <1>0, <1>5 DEF TrimLooksUp, TrimAsks, TrimTakes, Goto, leases, daemon
<1>6. ASSUME TakeMu
      PROVE  Goal'
    BY <1>0, <1>6 DEF TakeMu, Goto, daemon
<1>7. ASSUME NEW r \in Runners, GenerateJITConfig(r) \/ StartRunner(r) \/ StartFails(r)
      PROVE  Goal'
    BY <1>0, <1>7 DEF GenerateJITConfig, StartRunner, StartFails, rec, leases, daemon
<1>8. ASSUME JITConfigFails \/ ReconcileReturns
      PROVE  Goal'
    BY <1>0, <1>8 DEF JITConfigFails, ReconcileReturns, rec, leases, daemon
<1>9. ASSUME ListenerStarts
      PROVE  Goal'
    BY <1>0, <1>9 DEF ListenerStarts, leases
<1>10. ASSUME ListenerFails
       PROVE  Goal'
    BY <1>0, <1>10 DEF ListenerFails, ListenerFree, rec, leases
<1>11. ASSUME Reconcile
       PROVE  Goal'
    BY <1>2, <1>3, <1>4, <1>5, <1>6, <1>7, <1>8, <1>11, Zenon DEF Reconcile
<1>12. ASSUME Events \/ Teardown \/ Check \/ World
       PROVE  UNCHANGED <<rec, starting, grant, listener>>
    BY <1>12 DEF Events, HandleJobStarted, HandleJobCompleted, WatcherFires, Teardown,
           StopProcess, ProcessEnds, CleanupProcess, Deregister, Check, CheckBegins, Snapshots,
           CheckLiveness, CheckTimeouts, CheckIdleTimeouts, CheckEnds, World, AssignJob,
           JobEnds, ProcessExits, leases, daemon
<1>13. ASSUME StopSignal \/ Shutdown \/ Exit \/ \E r \in Runners : ContextKills(r)
       PROVE  UNCHANGED <<rec, starting, grant, listener>>
    BY <1>13 DEF StopSignal, Shutdown, Exit, ContextKills, ProcessEnds, leases, daemon
<1> QED BY <1>1, <1>9, <1>10, <1>11, <1>12, <1>13 DEF Next, Daemon

(* The monitor keeps its types.                                            *)
LEMMA MonitorStep == Control /\ Next => MonitorTyped'
<1> SUFFICES ASSUME Control, Next PROVE MonitorTyped'
    OBVIOUS
<1>0. MonitorTyped /\ PoolTyped
    BY DEF Control
<1>1. CASE UNCHANGED monitor
    BY <1>0, <1>1 DEF MonitorTyped, monitor
<1>2. ASSUME Snapshots
      PROVE  MonitorTyped'
  <2>1. snapIdle' \in SUBSET Runners /\ snapBusy' \in SUBSET Runners
      BY <1>0, <1>2 DEF Snapshots, PoolTyped
  <2>2. killable' \in Nat
    <3>1. Cardinality(snapIdle') \in Nat
        BY <2>1, RunnersFinite
    <3>2. killable' = Monus(Cardinality(snapIdle'), MinRunners)
        BY <1>2 DEF Snapshots
    <3> QED BY <3>1, <3>2, ScalerAssumption, SMT DEF Monus
  <2> QED BY <1>2, <2>1, <2>2 DEF Snapshots, MonitorTyped
<1>3. ASSUME NEW r \in Runners, CheckLiveness(r) \/ CheckTimeouts(r) \/ CheckIdleTimeouts(r)
      PROVE  MonitorTyped'
    BY <1>0, <1>3, SMT DEF CheckLiveness, CheckTimeouts, CheckIdleTimeouts, MonitorTyped
<1>4. ASSUME CheckBegins \/ CheckEnds
      PROVE  MonitorTyped'
    BY <1>0, <1>4, SMT DEF CheckBegins, CheckEnds, MonitorTyped
<1>5. ASSUME Reconcile
      PROVE  UNCHANGED monitor
    BY <1>5 DEF Reconcile, HandleDesiredRunnerCount, Begin, Wake, UpdateGroupStats,
           SurplusIdle, TrimLooksUp, TrimAsks, TrimTakes, TakeMu, GenerateJITConfig,
           StartRunner, StartFails, JITConfigFails, ReconcileReturns
<1>6. ASSUME Events \/ Teardown \/ World
      PROVE  UNCHANGED monitor
    BY <1>6 DEF Events, HandleJobStarted, HandleJobCompleted, WatcherFires, Teardown,
           StopProcess, ProcessEnds, CleanupProcess, Deregister, World, AssignJob,
           JobEnds, ProcessExits
<1>7. ASSUME Daemon
      PROVE  UNCHANGED monitor
    BY <1>7 DEF Daemon, ListenerStarts, ListenerFails, StopSignal, ContextKills,
           ProcessEnds, Shutdown, Exit
<1> QED BY <1>1, <1>2, <1>3, <1>4, <1>5, <1>6, <1>7 DEF Next, Check

(* Listener, daemon, GitHub and the processes keep their types.            *)
LEMMA WorldStep == Control /\ Next => WorldTyped'
<1> SUFFICES ASSUME Control, Next PROVE WorldTyped'
    OBVIOUS
<1>0. WorldTyped /\ PoolTyped
    BY DEF Control
<1>1. CASE UNCHANGED <<daemon, github, host>>
    BY <1>0, <1>1 DEF WorldTyped, daemon, github, host
<1>2. ASSUME NEW r \in Runners,
             TrimAsks(r) \/ GenerateJITConfig(r) \/ StartRunner(r) \/ StartFails(r)
      PROVE  WorldTyped'
    BY <1>0, <1>2
       DEF TrimAsks, GenerateJITConfig, StartRunner, StartFails, WorldTyped, daemon,
           github, host
<1>3. ASSUME NEW r \in Runners, StopProcess(r) \/ Deregister(r) \/ ContextKills(r)
      PROVE  WorldTyped'
    BY <1>0, <1>3 DEF StopProcess, ProcessEnds, Deregister, ContextKills, WorldTyped,
           daemon, github, host
<1>4. ASSUME NEW r \in Runners, AssignJob(r) \/ JobEnds(r) \/ ProcessExits(r)
      PROVE  WorldTyped'
    BY <1>0, <1>4 DEF AssignJob, JobEnds, ProcessExits, ProcessEnds, WorldTyped, daemon,
           github, host
<1>5. ASSUME ListenerStarts \/ ListenerFails \/ StopSignal \/ Shutdown \/ Exit
      PROVE  WorldTyped'
    BY <1>0, <1>5 DEF ListenerStarts, ListenerFails, StopSignal, Shutdown, Exit, WorldTyped,
           github, host
<1>6. ASSUME Reconcile
      PROVE  WorldTyped'
    BY <1>1, <1>2, <1>6
       DEF Reconcile, HandleDesiredRunnerCount, Begin, Wake, UpdateGroupStats, SurplusIdle,
           TrimLooksUp, TrimTakes, TakeMu, JITConfigFails, ReconcileReturns
<1>7. ASSUME Events \/ Check \/ \E r \in Runners : CleanupProcess(r)
      PROVE  UNCHANGED <<daemon, github, host>>
    BY <1>7 DEF Events, HandleJobStarted, HandleJobCompleted, WatcherFires, CleanupProcess,
           Check, CheckBegins, Snapshots, CheckLiveness, CheckTimeouts, CheckIdleTimeouts,
           CheckEnds
<1> QED BY <1>1, <1>3, <1>4, <1>5, <1>6, <1>7 DEF Next, Teardown, Daemon, World

(* Types and control are inductive together.                               *)
LEMMA ControlStep == Control /\ [Next]_vars => Control'
<1> SUFFICES ASSUME Control, [Next]_vars PROVE Control'
    OBVIOUS
<1>1. CASE UNCHANGED vars
    BY <1>1 DEF vars, pool, leases, rec, monitor, daemon, github, host, Control, PoolTyped,
           BudgetTyped, RecTyped, MonitorTyped, WorldTyped, StartsUnderGrant, ReconcileKnows
<1>2. CASE Next
    BY <1>2, PoolStep, BudgetStep, RecStep, MonitorStep, WorldStep DEF Control
<1> QED BY <1>1, <1>2

(* They hold in every reachable state.                                     *)
THEOREM ControlInvariance == Spec => []Control
BY InitControl, ControlStep, PTL DEF Spec

-----------------------------------------------------------------------------
(* One owner.                                                              *)

(* A runner that is being started is nobody's yet.                         *)
StartingIsNew == \A r \in starting : r \notin idle \cup busy /\ tear[r] = Nobody

Owned == OneOwner /\ StartingIsNew

(* Whoever takes a runner out of the pool finds it in nobody's hands, and  *)
(* a new runner joins the pool fresh.                                      *)
LEMMA OwnedStep == Control /\ Owned /\ [Next]_vars => Owned'
<1> SUFFICES ASSUME Control, Owned, [Next]_vars PROVE Owned'
    OBVIOUS
<1>0. PoolTyped /\ OneOwner /\ StartingIsNew /\ AtMostOne(starting)
    BY DEF Control, Owned, StartsUnderGrant
<1> USE DEF Owned, OneOwner, StartingIsNew, PoolTyped
<1>1. CASE UNCHANGED <<idle, busy, tear, starting>>
    BY <1>0, <1>1
<1>2. ASSUME NEW r \in Runners, Takes(r)
      PROVE  Owned'
  <2>1. \A q \in Runners : q # r => tear'[q] = tear[q]
      BY <1>0, <1>2 DEF Takes, TearDown
  <2>2. r \in idle \cup busy /\ idle' = idle \ {r} /\ busy' = busy \ {r} /\ starting' = starting
      BY <1>2 DEF Takes, TakeOut
  <2> QED BY <1>0, <1>2, <2>1, <2>2
<1>3. ASSUME NEW r \in Runners, GoesOn(r), UNCHANGED <<idle, busy, starting>>
      PROVE  Owned'
  <2>1. \A q \in Runners : q # r => tear'[q] = tear[q]
      BY <1>0, <1>3 DEF GoesOn, StepDone
  <2>2. tear[r] # Nobody
      BY <1>3, NobodyTyped DEF GoesOn
  <2> QED BY <1>0, <1>3, <2>1, <2>2
<1>4. ASSUME NEW r \in Runners, HandleJobStarted(r)
      PROVE  Owned'
    BY <1>0, <1>4 DEF HandleJobStarted
<1>5. ASSUME NEW r \in Runners, GenerateJITConfig(r)
      PROVE  Owned'
    BY <1>0, <1>5 DEF GenerateJITConfig, Unused, pool
<1>6. ASSUME NEW r \in Runners, StartRunner(r)
      PROVE  Owned'
    BY <1>0, <1>6 DEF StartRunner
<1>7. ASSUME NEW r \in Runners, StartFails(r)
      PROVE  Owned'
    BY <1>0, <1>7 DEF StartFails, pool
<1>8. CASE ListenerStarts
    BY <1>0, <1>8 DEF ListenerStarts, pool
<1>9. CASE Shutdown
  <2>1. starting = {}
      BY <1>9 DEF Shutdown, Control, StartsUnderGrant, ReconcileKnows
  <2>2. CASE UNCHANGED <<pool, tear>>
      BY <1>0, <1>9, <2>2 DEF Shutdown, pool
  <2>3. CASE idle' = {} /\ busy' = {}
      BY <1>9, <2>1, <2>3 DEF Shutdown
  <2> QED BY <1>9, <2>2, <2>3 DEF Shutdown
<1>10. CASE Exit
  <2>1. \A q \in Runners : tear'[q] = Nobody
      BY <1>10 DEF Exit
  <2>2. UNCHANGED <<idle, busy, starting>>
      BY <1>10 DEF Exit, pool
  <2> QED BY <1>0, <2>1, <2>2
<1>11. CASE UNCHANGED vars
    BY <1>1, <1>11 DEF vars, pool
<1> QED BY <1>1, <1>2, <1>3, <1>4, <1>5, <1>6, <1>7, <1>8, <1>9, <1>10, <1>11, OwnerSteps
           DEF Quiet

(* Every runner has at most one owner, always.                             *)
THEOREM OwnedInvariance == Spec => [](Control /\ Owned)
<1>1. Init => Owned
    BY DEF Init, Owned, OneOwner, StartingIsNew
<1> QED BY <1>1, ControlInvariance, OwnedStep, PTL DEF Spec

(* A runner that is torn down is in neither map: nobody tears it down      *)
(* again, and no event moves it (every take of the pool, scaler_ops.go).   *)
THEOREM RunnersHaveOneOwner == Spec => []OneOwner
<1>1. Owned => OneOwner
    BY DEF Owned
<1> QED BY <1>1, OwnedInvariance, PTL

(* The types of every variable, for every number of runners.               *)
THEOREM ScalerTypeCorrect == Spec => []TypeOK
BY ControlInvariance, ControlTyped, PTL

-----------------------------------------------------------------------------
(* The maximum.                                                            *)

Pool == idle \cup busy

(* A pool that loses runners gets no larger.                               *)
LEMMA SmallerPool ==
    ASSUME PoolTyped, BudgetTyped, PoolWithinMax, Pool' \subseteq Pool, grant' \in Nat,
           grant' <= grant
    PROVE  PoolWithinMax'
<1>1. IsFiniteSet(Pool) /\ Cardinality(Pool) \in Nat
    BY RunnersFinite DEF PoolTyped, Pool
<1>2. Cardinality(Pool') \in Nat /\ Cardinality(Pool') <= Cardinality(Pool)
    BY <1>1, FS_Subset, FS_CardinalityType
<1>3. grant \in Nat /\ MaxRunners \in Nat
    BY ScalerAssumption DEF BudgetTyped
<1> QED BY <1>1, <1>2, <1>3, SMT DEF PoolWithinMax, Pool

(* A reconcile asks for what is missing while it holds mu; from then on    *)
(* the pool only shrinks, but for what was granted.                        *)
LEMMA MaxStep == Control /\ Owned /\ PoolWithinMax /\ [Next]_vars => PoolWithinMax'
<1> SUFFICES ASSUME Control, Owned, PoolWithinMax, [Next]_vars PROVE PoolWithinMax'
    OBVIOUS
<1>0. /\ PoolTyped /\ BudgetTyped /\ grant \in Nat /\ MaxRunners \in Nat
      /\ idle \in SUBSET Runners /\ busy \in SUBSET Runners
    BY ScalerAssumption DEF Control, BudgetTyped, PoolTyped
<1>1. IsFiniteSet(Pool) /\ Cardinality(Pool) \in Nat
    BY <1>0, RunnersFinite DEF Pool
<1>2. CASE TakeMu
  <2>1. lastCount # {} /\ RecTyped
      BY <1>2 DEF TakeMu, Control, ReconcileKnows, RecTyped
  <2>2. /\ Need \in Nat
        /\ Need = 0 \/ Need + Cardinality(idle) + Cardinality(busy) <= MaxRunners
      BY <1>0, <2>1, NeedBounded
  <2>3. grant' \in Nat /\ grant' <= Need
      BY <1>2, <2>2, SMT DEF TakeMu
  <2>4. Cardinality(Pool) = Cardinality(idle) + Cardinality(busy)
    <3>1. Cardinality(Pool) = Cardinality(idle) + Cardinality(busy) - Cardinality(idle \cap busy)
        BY <1>0, RunnersFinite, FS_Union DEF Pool
    <3>2. Cardinality(idle \cap busy) = 0
        BY FS_EmptySet DEF Owned, OneOwner
    <3>3. Cardinality(idle) \in Nat /\ Cardinality(busy) \in Nat
        BY <1>0, RunnersFinite
    <3> QED BY <3>1, <3>2, <3>3, SMT
  <2>5. Cardinality(idle) \in Nat /\ Cardinality(busy) \in Nat
      BY <1>0, RunnersFinite
  <2>6. Pool' = Pool
      BY <1>2 DEF TakeMu, pool, Pool
  <2>7. Cardinality(Pool) + grant' <= MaxRunners
    <3>1. CASE Need = 0
      <4>1. Cardinality(Pool) + grant <= MaxRunners
          BY DEF PoolWithinMax, Pool
      <4> QED BY <3>1, <4>1, <1>0, <1>1, <2>3, SMT
    <3>2. CASE Need + Cardinality(idle) + Cardinality(busy) <= MaxRunners
        BY <3>2, <1>0, <2>2, <2>3, <2>4, <2>5, SMT
    <3> QED BY <2>2, <3>1, <3>2
  <2> QED BY <2>6, <2>7 DEF PoolWithinMax, Pool
<1>3. ASSUME NEW r \in Runners, StartRunner(r)
      PROVE  PoolWithinMax'
  <2>1. grant > 0 /\ grant' = grant - 1 /\ Pool' = Pool \cup {r} /\ r \notin Pool
      BY <1>3 DEF StartRunner, Pool, Control, StartsUnderGrant, Owned, StartingIsNew
  <2>2. Cardinality(Pool') = Cardinality(Pool) + 1
      BY <1>1, <2>1, FS_AddElement
  <2>3. Cardinality(Pool) + grant <= MaxRunners
      BY DEF PoolWithinMax, Pool
  <2>4. Cardinality(Pool') + grant' <= MaxRunners
      BY <1>0, <1>1, <2>1, <2>2, <2>3, SMT
  <2> QED BY <2>4 DEF PoolWithinMax, Pool
<1>4. CASE ~TakeMu /\ (\A r \in Runners : ~StartRunner(r))
  <2>1. Pool' \subseteq Pool
    <3>1. CASE UNCHANGED <<idle, busy>>
        BY <3>1 DEF Pool
    <3>2. ASSUME NEW r \in Runners, Takes(r)
          PROVE  Pool' \subseteq Pool
        BY <3>2 DEF Takes, TakeOut, Pool
    <3>3. ASSUME NEW r \in Runners,
                 HandleJobStarted(r) \/ GenerateJITConfig(r) \/ StartFails(r)
          PROVE  Pool' \subseteq Pool
        BY <3>3 DEF HandleJobStarted, GenerateJITConfig, StartFails, pool, Pool
    <3>4. CASE ListenerStarts \/ Shutdown \/ Exit
        BY <3>4 DEF ListenerStarts, Shutdown, Exit, pool, Pool
    <3>5. CASE UNCHANGED vars
        BY <3>1, <3>5 DEF vars, pool
    <3> QED BY <1>4, <3>1, <3>2, <3>3, <3>4, <3>5, OwnerSteps DEF Quiet, GoesOn
  <2>2. grant' = grant \/ grant' = grant - 1
    <3>1. CASE Reconcile
        BY <1>4, <3>1 DEF Reconcile, HandleDesiredRunnerCount, Begin, Wake, UpdateGroupStats,
               SurplusIdle, TrimLooksUp, TrimAsks, TrimTakes, GenerateJITConfig, StartFails,
               JITConfigFails, ReconcileReturns, leases
    <3>2. CASE Events \/ Teardown \/ World
        BY <3>2 DEF Events, HandleJobStarted, HandleJobCompleted, WatcherFires, Teardown,
               StopProcess, ProcessEnds, CleanupProcess, Deregister, World, AssignJob, JobEnds,
               ProcessExits, leases
    <3>3. CASE Check
        BY <3>3 DEF Check, CheckBegins, Snapshots, CheckLiveness, CheckTimeouts,
               CheckIdleTimeouts, CheckEnds, leases
    <3>4. CASE Daemon
        BY <3>4 DEF Daemon, ListenerStarts, ListenerFails, StopSignal, ContextKills,
               ProcessEnds, Shutdown,
               Exit, leases
    <3>5. CASE UNCHANGED vars
        BY <3>5 DEF vars, leases
    <3> QED BY <3>1, <3>2, <3>3, <3>4, <3>5 DEF Next
  <2>3. grant' \in Nat
      BY ControlStep DEF Control, BudgetTyped
  <2>4. grant' <= grant
      BY <1>0, <2>2, SMT
  <2> QED BY <1>0, <2>1, <2>3, <2>4, SmallerPool
<1> QED BY <1>2, <1>3, <1>4

(* The pool and what is granted for it stay within the maximum, whoever    *)
(* takes runners out while reconcile starts others (scaler_capacity.go).   *)
THEOREM PoolStaysWithinMax == Spec => []PoolWithinMax
<1>1. Init => PoolWithinMax
  <2> SUFFICES ASSUME Init PROVE PoolWithinMax
      OBVIOUS
  <2>1. idle \cup busy = {} /\ grant = 0
      BY DEF Init
  <2> QED BY <2>1, FS_EmptySet, ScalerAssumption, SMT DEF PoolWithinMax
<1> QED BY <1>1, OwnedInvariance, MaxStep, PTL DEF Spec

-----------------------------------------------------------------------------
(* Reservations.                                                           *)

(* What a runner's reservation, its process and its teardown have to do    *)
(* with one another: this is inductive, runner by runner.                  *)
KeptFor(r) ==
    LET s == tear[r].steps
    IN /\ Plan(s)
       /\ Has(s, "cleanup") /\ ~Has(s, "stop") => r \notin alive \ stuck
       /\ Budgeted /\ phase # "exited" =>
            /\ r \in leased <=> r \in idle \cup busy \/ Has(s, "cleanup")
            /\ r \in alive \ stuck => r \in leased

Kept == \A r \in Runners : KeptFor(r)

(* A runner that a step does not touch is kept as it was.                  *)
LEMMA UntouchedIsKept ==
    ASSUME NEW r, KeptFor(r), tear'[r] = tear[r], r \in leased' <=> r \in leased,
           r \in (idle \cup busy)' <=> r \in idle \cup busy,
           r \in (alive \ stuck)' => r \in alive \ stuck,
           phase = "exited" => phase' = "exited"
    PROVE  KeptFor(r)'
BY DEF KeptFor

(* When a step of a teardown is done, it is the only one that is no longer *)
(* to be done.                                                             *)
LEMMA StepDoneDrops ==
    ASSUME PoolTyped, NEW r \in Runners, Plan(tear[r].steps), tear[r].steps # <<>>, StepDone(r)
    PROVE  /\ Plan(tear'[r].steps)
           /\ \A x : Has(tear'[r].steps, x) <=> Has(tear[r].steps, x) /\ x # Head(tear[r].steps)
           /\ \A q \in Runners : q # r => tear'[q] = tear[q]
<1> DEFINE s == tear[r].steps
<1>1. /\ Plan(Tail(s))
      /\ \A x : Has(Tail(s), x) <=> Has(s, x) /\ x # Head(s)
      /\ Len(s) = 1 => \A x : Has(s, x) => x = Head(s)
    BY PlanGoesOn
<1>2. /\ tear'[r] = IF Len(s) = 1 THEN Nobody ELSE [by |-> tear[r].by, steps |-> Tail(s)]
      /\ \A q \in Runners : q # r => tear'[q] = tear[q]
    BY DEF StepDone, PoolTyped
<1>3. CASE Len(s) = 1
    BY <1>1, <1>2, <1>3, NothingPlanned, NobodyTyped
<1>4. CASE Len(s) # 1
    BY <1>1, <1>2, <1>4
<1> QED BY <1>2, <1>3, <1>4

(* Starting, stopping, cleaning up, the shutdown and the exit keep every   *)
(* runner's reservation in step with its life.                             *)
LEMMA KeptStep == Control /\ Owned /\ Kept /\ [Next]_vars => Kept'
<1> SUFFICES ASSUME Control, Owned, Kept, [Next]_vars PROVE Kept'
    OBVIOUS
<1>0. PoolTyped /\ OneOwner /\ StartingIsNew
    BY DEF Control, Owned
<1>1. ASSUME Quiet
      PROVE  Kept'
  <2> SUFFICES ASSUME NEW r \in Runners PROVE KeptFor(r)'
      BY DEF Kept
  <2> QED BY <1>1, UntouchedIsKept DEF Quiet, Kept
<1>2. ASSUME NEW r \in Runners, Takes(r)
      PROVE  Kept'
  <2>1. PICK a \in Actors, s \in {Stopping, Killing} :
            tear' = [tear EXCEPT ![r] = [by |-> a, steps |-> s]]
      BY <1>2 DEF Takes, TearDown
  <2>2. Plan(s) /\ Has(s, "cleanup") /\ Has(s, "stop")
      BY StoppingPlans, KillingPlans DEF Stopping, Killing
  <2>3. tear'[r].steps = s /\ \A q \in Runners : q # r => tear'[q] = tear[q]
      BY <1>0, <2>1 DEF PoolTyped
  <2>4. /\ r \in idle \cup busy
        /\ idle' = idle \ {r} /\ busy' = busy \ {r} /\ leased' = leased
        /\ alive' = alive /\ stuck' = stuck /\ phase' = phase
      BY <1>2 DEF Takes, TakeOut, host, daemon
  <2>5. KeptFor(r)'
      BY <2>2, <2>3, <2>4 DEF Kept, KeptFor
  <2>6. ASSUME NEW q \in Runners, q # r
        PROVE  KeptFor(q)'
      BY <2>3, <2>4, <2>6, UntouchedIsKept DEF Kept
  <2> QED BY <2>5, <2>6 DEF Kept
<1>3. ASSUME NEW r \in Runners, StopProcess(r) \/ CleanupProcess(r) \/ Deregister(r),
             GoesOn(r), UNCHANGED <<idle, busy, starting>>
      PROVE  Kept'
  <2>1. KeptFor(r) /\ Plan(tear[r].steps) /\ tear[r].steps # <<>>
      BY <1>3 DEF Kept, KeptFor, GoesOn
  <2>2. r \notin idle \cup busy
      BY <1>0, <2>1, NobodyTyped DEF OneOwner
  <2>3. phase' = phase /\ \A q \in Runners : q # r => (q \in leased' <=> q \in leased)
      BY <1>3 DEF StopProcess, ProcessEnds, CleanupProcess, Deregister, leases, daemon
  <2>4. \A q \in Runners : q \in (alive \ stuck)' => q \in alive \ stuck
      BY <1>3 DEF StopProcess, ProcessEnds, CleanupProcess, Deregister, host
  <2>5. \A q \in Runners : q # r => tear'[q] = tear[q]
      BY <1>0, <1>3 DEF GoesOn, StepDone, PoolTyped
  <2>6. \A q \in Runners : q # r => KeptFor(q)'
    <3> SUFFICES ASSUME NEW q \in Runners, q # r PROVE KeptFor(q)'
        OBVIOUS
    <3>1. KeptFor(q)
        BY DEF Kept
    <3> QED BY <1>3, <2>3, <2>4, <2>5, <3>1, UntouchedIsKept
  <2>7. CASE StopProcess(r)
    <3>1. /\ Plan(tear'[r].steps)
          /\ Has(tear'[r].steps, "cleanup") <=> Has(tear[r].steps, "cleanup")
        BY <1>0, <2>1, <2>7, StepDoneDrops DEF StopProcess, ProcessEnds, NextStep
    <3>2. r \notin (alive \ stuck)' /\ leased' = leased
        BY <2>7 DEF StopProcess, ProcessEnds, leases
    <3>3. KeptFor(r)'
        BY <1>3, <2>1, <2>3, <3>1, <3>2 DEF KeptFor
    <3> QED BY <2>6, <3>3 DEF Kept
  <2>8. CASE CleanupProcess(r)
    <3>1. Plan(tear'[r].steps) /\ ~Has(tear'[r].steps, "cleanup")
      <4>1. CASE StepDone(r)
          BY <1>0, <2>1, <2>8, <4>1, StepDoneDrops DEF CleanupProcess, NextStep
      <4>2. CASE tear' = [tear EXCEPT ![r] = Nobody]
          BY <1>0, <4>2, NothingPlanned, NobodyTyped DEF PoolTyped
      <4> QED BY <2>8, <4>1, <4>2 DEF CleanupProcess
    <3>2. Has(tear[r].steps, "cleanup") /\ ~Has(tear[r].steps, "stop")
        BY <2>1, <2>8, PlanGoesOn DEF CleanupProcess, NextStep
    <3>3. leased' = leased \ {r} /\ r \notin (alive \ stuck)'
        BY <2>1, <2>4, <2>8, <3>2 DEF CleanupProcess, KeptFor
    <3>4. KeptFor(r)'
        BY <1>3, <2>2, <3>1, <3>3 DEF KeptFor
    <3> QED BY <2>6, <3>4 DEF Kept
  <2>9. CASE Deregister(r)
    <3>1. /\ Plan(tear'[r].steps)
          /\ Has(tear'[r].steps, "cleanup") <=> Has(tear[r].steps, "cleanup")
          /\ Has(tear'[r].steps, "stop") <=> Has(tear[r].steps, "stop")
        BY <1>0, <2>1, <2>9, StepDoneDrops DEF Deregister, NextStep
    <3>2. leased' = leased /\ alive' = alive /\ stuck' = stuck
        BY <2>9 DEF Deregister, leases, host
    <3>3. KeptFor(r)'
        BY <1>3, <2>1, <2>3, <3>1, <3>2 DEF KeptFor
    <3> QED BY <2>6, <3>3 DEF Kept
  <2> QED BY <1>3, <2>7, <2>8, <2>9
<1>4. ASSUME NEW r \in Runners, HandleJobStarted(r) \/ GenerateJITConfig(r) \/ StartFails(r)
      PROVE  Kept'
  <2>1. /\ tear' = tear /\ leased' = leased /\ alive' = alive /\ stuck' = stuck
        /\ phase' = phase /\ (idle \cup busy)' = idle \cup busy
      BY <1>4 DEF HandleJobStarted, GenerateJITConfig, StartFails, pool, leases, host, daemon
  <2> QED BY <2>1 DEF Kept, KeptFor
<1>5. ASSUME NEW r \in Runners, StartRunner(r)
      PROVE  Kept'
  <2>1. r \notin idle \cup busy /\ tear[r] = Nobody
      BY <1>0, <1>5 DEF StartRunner, StartingIsNew
  <2>2. /\ tear' = tear /\ idle' = idle \cup {r} /\ busy' = busy
        /\ alive' = alive \cup {r} /\ stuck' = stuck /\ phase' = phase
        /\ Budgeted => leased' = leased \cup {r}
      BY <1>5 DEF StartRunner, daemon
  <2>3. KeptFor(r)'
      BY <2>1, <2>2, NothingPlanned, NobodyTyped DEF KeptFor
  <2>4. ASSUME NEW q \in Runners, q # r
        PROVE  KeptFor(q)'
      BY <2>2, <2>4 DEF Kept, KeptFor
  <2> QED BY <2>3, <2>4 DEF Kept
<1>6. CASE ListenerStarts
  <2>1. /\ tear' = tear /\ leased' = leased /\ alive' = alive /\ stuck' = stuck
        /\ phase' = phase /\ (Budgeted => idle' = idle /\ busy' = busy)
      BY <1>6 DEF ListenerStarts, pool, leases, host
  <2> QED BY <2>1 DEF Kept, KeptFor
<1>7. CASE Shutdown
  <2>1. leased' = leased /\ alive' = alive /\ stuck' = stuck /\ phase # "exited"
      BY <1>7 DEF Shutdown, leases, host
  <2>2. CASE UNCHANGED <<pool, tear>>
      BY <2>1, <2>2 DEF Kept, KeptFor, pool
  <2>3. CASE /\ idle' = {} /\ busy' = {}
             /\ tear' = [r \in Runners |->
                  IF r \in idle
                  THEN [by |-> "shutdown", steps |-> <<"deregister", "stop", "cleanup">>]
                  ELSE IF r \in busy
                  THEN [by |-> "shutdown", steps |-> <<"stop", "deregister", "cleanup">>]
                  ELSE tear[r]]
    <3> SUFFICES ASSUME NEW r \in Runners PROVE KeptFor(r)'
        BY DEF Kept
    <3>1. CASE r \in idle \cup busy
      <4>1. /\ Plan(tear'[r].steps)
            /\ Has(tear'[r].steps, "cleanup") /\ Has(tear'[r].steps, "stop")
          BY <2>3, <3>1, IdleShutdownPlans, BusyShutdownPlans
      <4> QED BY <2>1, <2>3, <3>1, <4>1 DEF Kept, KeptFor
    <3>2. CASE r \notin idle \cup busy
      <4>1. tear'[r] = tear[r]
          BY <2>3, <3>2
      <4> QED BY <2>1, <2>3, <3>2, <4>1 DEF Kept, KeptFor
    <3> QED BY <3>1, <3>2
  <2> QED BY <1>7, <2>2, <2>3 DEF Shutdown
<1>8. CASE Exit
  <2> SUFFICES ASSUME NEW r \in Runners PROVE KeptFor(r)'
      BY DEF Kept
  <2>1. tear'[r] = Nobody /\ phase' = "exited"
      BY <1>8 DEF Exit
  <2> QED BY <2>1, NothingPlanned, NobodyTyped DEF KeptFor
<1>9. CASE UNCHANGED vars
    BY <1>9 DEF vars, pool, leases, host, daemon, Kept, KeptFor
<1> QED BY <1>1, <1>2, <1>3, <1>4, <1>5, <1>6, <1>7, <1>8, <1>9, OwnerSteps

(* So it is in every reachable state.                                      *)
THEOREM KeptInvariance == Spec => [](Control /\ Owned /\ Kept)
<1>1. Init => Kept
  <2> SUFFICES ASSUME Init, NEW r \in Runners PROVE KeptFor(r)
      BY DEF Kept
  <2>1. tear[r] = Nobody /\ idle \cup busy = {} /\ alive = {} /\ leased = {}
      BY DEF Init
  <2> QED BY <2>1, NothingPlanned, NobodyTyped DEF KeptFor
<1> QED BY <1>1, OwnedInvariance, KeptStep, PTL DEF Spec

(* A reservation lasts from the start of its runner to the end of its      *)
(* cleanup, whoever tears the runner down (cleanupProcess, scaler_ops.go). *)
THEOREM ReservationsLast == Spec => []ReservedWhileItLasts
<1>1. Control /\ Kept => ReservedWhileItLasts
  <2>1. \A r : Awaits(r, "cleanup") <=> Has(tear[r].steps, "cleanup")
      BY DEF Awaits, Has
  <2> QED BY <2>1 DEF Control, BudgetTyped, Kept, KeptFor, ReservedWhileItLasts
<1> QED BY <1>1, KeptInvariance, PTL

(* No process runs without a reservation but one that SIGKILL did not end. *)
THEOREM ProcessesAreReserved == Spec => []ReservedWhileRunning
<1>1. Control /\ Kept => ReservedWhileRunning
    BY DEF Control, WorldTyped, Kept, KeptFor, ReservedWhileRunning
<1> QED BY <1>1, KeptInvariance, PTL

-----------------------------------------------------------------------------
(* Jobs.                                                                   *)

(* A runner that reconcile is about to stop, or is stopping, has no job    *)
(* and cannot get one: GitHub has removed its registration.  It has not    *)
(* when the runner's ID is not known.                                      *)
Spared ==
    \A r \in Runners \ unnumbered :
        tear[r].by = "reconcile" \/ (recPc = "take" /\ r \in current)
            => r \notin registered /\ job[r] # "running"

(* Only a runner that is being started is registered.                      *)
LEMMA RegisteredGrows ==
    ASSUME Next, NEW q \in Runners, q \in registered' \ registered
    PROVE  GenerateJITConfig(q)
<1>1. CASE Reconcile
    BY <1>1 DEF Reconcile, HandleDesiredRunnerCount, Begin, Wake, UpdateGroupStats,
           SurplusIdle, TrimLooksUp, TrimAsks, TrimTakes, TakeMu, GenerateJITConfig,
           StartRunner, StartFails, JITConfigFails, ReconcileReturns, github
<1>2. CASE Events \/ Teardown \/ World
    BY <1>2 DEF Events, HandleJobStarted, HandleJobCompleted, WatcherFires, Teardown,
           StopProcess, ProcessEnds, CleanupProcess, Deregister, World, AssignJob, JobEnds,
           ProcessExits, github
<1>3. CASE Check \/ Daemon
    BY <1>3 DEF Check, CheckBegins, Snapshots, CheckLiveness, CheckTimeouts,
           CheckIdleTimeouts, CheckEnds, Daemon, ListenerStarts, ListenerFails, StopSignal,
           ContextKills, ProcessEnds, Shutdown, Exit, github
<1> QED BY <1>1, <1>2, <1>3 DEF Next

(* The ID of a runner becomes known only once its name is given out again. *)
LEMMA NumbersKept ==
    ASSUME Next, NEW q \in Runners, q \notin unnumbered', q \in unnumbered
    PROVE  recPc' = "provision" /\ tear'[q] = Nobody
<1>1. CASE Reconcile
    BY <1>1 DEF rec, Unused, Reconcile, HandleDesiredRunnerCount, Begin, Wake,
           UpdateGroupStats,
           SurplusIdle, TrimLooksUp, TrimAsks, TrimTakes, TakeMu, GenerateJITConfig,
           StartRunner, StartFails, JITConfigFails, ReconcileReturns, github
<1>2. CASE Events \/ Teardown \/ World
    BY <1>2 DEF Events, HandleJobStarted, HandleJobCompleted, WatcherFires, Teardown,
           StopProcess, ProcessEnds, CleanupProcess, Deregister, World, AssignJob, JobEnds,
           ProcessExits, github
<1>3. CASE Check \/ Daemon
    BY <1>3 DEF Check, CheckBegins, Snapshots, CheckLiveness, CheckTimeouts,
           CheckIdleTimeouts, CheckEnds, Daemon, ListenerStarts, ListenerFails, StopSignal,
           ContextKills, ProcessEnds, Shutdown, Exit, github
<1> QED BY <1>1, <1>2, <1>3 DEF Next

(* Only a registered runner is assigned a job.                             *)
LEMMA JobsNeedRegistration ==
    ASSUME Control, Next, NEW q \in Runners, job'[q] = "running", job[q] # "running"
    PROVE  q \in registered
<1>0. job \in [Runners -> {"none", "running", "done"}]
    BY DEF Control, WorldTyped
<1>1. CASE Reconcile
    BY <1>0, <1>1 DEF Reconcile, HandleDesiredRunnerCount, Begin, Wake, UpdateGroupStats,
           SurplusIdle, TrimLooksUp, TrimAsks, TrimTakes, TakeMu, GenerateJITConfig,
           StartRunner, StartFails, JITConfigFails, ReconcileReturns, github
<1>2. CASE Events \/ Teardown
    BY <1>2 DEF Events, HandleJobStarted, HandleJobCompleted, WatcherFires, Teardown,
           StopProcess, ProcessEnds, CleanupProcess, Deregister, github
<1>3. CASE Check \/ Daemon
    BY <1>3 DEF Check, CheckBegins, Snapshots, CheckLiveness, CheckTimeouts,
           CheckIdleTimeouts, CheckEnds, Daemon, ListenerStarts, ListenerFails, StopSignal,
           ContextKills, ProcessEnds, Shutdown, Exit, github
<1>4. CASE World
    BY <1>0, <1>4 DEF World, AssignJob, JobEnds, ProcessExits, github
<1> QED BY <1>1, <1>2, <1>3, <1>4 DEF Next

(* Only a runner that GitHub agreed to remove, or that it could not be     *)
(* asked about, is taken by the trim.                                      *)
LEMMA TakenWasAsked ==
    ASSUME Control, Next, NEW q \in Runners, recPc' = "take", q \in current',
           q \notin unnumbered', ~(recPc = "take" /\ q \in current)
    PROVE  job[q] # "running" /\ registered' = registered \ {q} /\ job' = job
<1>0. ASSUME UNCHANGED rec
      PROVE  FALSE
    BY <1>0 DEF rec
<1>1. CASE Reconcile
  <2>1. ASSUME NEW r \in Runners, TrimAsks(r)
        PROVE  job[q] # "running" /\ registered' = registered \ {q} /\ job' = job
    <3>1. q = r /\ job[r] # "running" /\ registered' = registered \ {r} /\ job' = job
        BY <2>1, q \notin unnumbered' DEF TrimAsks, Goto, Control, RecTyped, AtMostOne
    <3> QED BY <3>1
  <2>2. ASSUME NEW r \in Runners,
               \/ TrimLooksUp(r) \/ TrimTakes(r)
               \/ GenerateJITConfig(r) \/ StartRunner(r) \/ StartFails(r)
        PROVE  FALSE
      BY <1>0, <2>2 DEF TrimLooksUp, TrimTakes, Goto, GenerateJITConfig, StartRunner,
             StartFails, rec
  <2>3. ASSUME \/ \E count \in 0 .. MaxRunners : HandleDesiredRunnerCount(count)
               \/ Wake \/ UpdateGroupStats \/ SurplusIdle \/ TakeMu
               \/ JITConfigFails \/ ReconcileReturns
        PROVE  FALSE
      BY <1>0, <2>3 DEF HandleDesiredRunnerCount, Begin, Wake, UpdateGroupStats, SurplusIdle,
             TakeMu, Goto, JITConfigFails, ReconcileReturns
  <2> QED BY <1>1, <2>1, <2>2, <2>3 DEF Reconcile
<1>2. CASE Events \/ Teardown \/ World
    BY <1>0, <1>2 DEF Events, HandleJobStarted, HandleJobCompleted, WatcherFires, Teardown,
           StopProcess, ProcessEnds, CleanupProcess, Deregister, World, AssignJob,
           JobEnds, ProcessExits
<1>3. CASE Check
    BY <1>0, <1>3 DEF Check, CheckBegins, Snapshots, CheckLiveness, CheckTimeouts,
           CheckIdleTimeouts, CheckEnds
<1>4. CASE Daemon
    BY <1>0, <1>4 DEF Daemon, ListenerStarts, ListenerFails, StopSignal, ContextKills,
           Shutdown, Exit, rec
<1> QED BY <1>1, <1>2, <1>3, <1>4 DEF Next

(* Only the trim tears down for reconcile.                                 *)
LEMMA TearingWasTaken ==
    ASSUME Control, Next, NEW q \in Runners, tear'[q].by = "reconcile",
           tear[q].by # "reconcile"
    PROVE  recPc = "take" /\ q \in current
<1>0. tear \in [Runners -> Teardowns]
    BY DEF Control, PoolTyped
<1>1. CASE UNCHANGED tear
    BY <1>1
<1>2. ASSUME NEW r \in Runners, Takes(r)
      PROVE  recPc = "take" /\ q \in current
  <2>1. PICK a \in Actors, s \in {Stopping, Killing} :
            /\ tear' = [tear EXCEPT ![r] = [by |-> a, steps |-> s]]
            /\ a = "reconcile" => recPc = "take" /\ r \in current
      BY <1>2 DEF Takes, TearDown
  <2>2. q = r /\ a = "reconcile"
      BY <1>0, <2>1
  <2> QED BY <2>1, <2>2
<1>3. ASSUME NEW r \in Runners, GoesOn(r)
      PROVE  FALSE
  <2>1. tear'[q] = tear[q] \/ tear'[q] = Nobody \/ tear'[q].by = tear[q].by
      BY <1>0, <1>3 DEF GoesOn, StepDone
  <2> QED BY <2>1, NobodyTyped
<1>4. ASSUME NEW r \in Runners,
             \/ HandleJobStarted(r) \/ GenerateJITConfig(r) \/ StartRunner(r) \/ StartFails(r)
      PROVE  UNCHANGED tear
    BY <1>4 DEF HandleJobStarted, GenerateJITConfig, StartRunner, StartFails
<1>5. CASE ListenerStarts \/ Exit
    BY <1>5, NobodyTyped DEF ListenerStarts, Exit
<1>6. CASE Shutdown
  <2>1. tear' = tear \/ tear'[q].by = "shutdown" \/ tear'[q] = tear[q]
      BY <1>6 DEF Shutdown
  <2> QED BY <2>1
<1> QED BY <1>1, <1>2, <1>3, <1>4, <1>5, <1>6, OwnerSteps DEF Quiet

(* Once its registration is gone, a runner never gets a job again, and no  *)
(* other actor's teardown counts as the reconcile's.                       *)
LEMMA SparedStep == Control /\ Spared /\ [Next]_vars => Spared'
<1> SUFFICES ASSUME Control, Spared, [Next]_vars PROVE Spared'
    OBVIOUS
<1>1. CASE UNCHANGED vars
    BY <1>1 DEF vars, rec, github, Spared
<1>2. CASE Next
  <2> SUFFICES ASSUME NEW q \in Runners,
                      tear'[q].by = "reconcile" \/ (recPc' = "take" /\ q \in current')
               PROVE  q \in unnumbered' \/ (q \notin registered' /\ job'[q] # "running")
      BY DEF Spared
  <2>1. CASE tear[q].by = "reconcile" \/ (recPc = "take" /\ q \in current)
    <3>1. ~GenerateJITConfig(q)
        BY <2>1, NobodyTyped DEF GenerateJITConfig, Unused
    <3>2. CASE q \notin unnumbered
      <4>1. q \notin registered /\ job[q] # "running"
          BY <2>1, <3>2 DEF Spared
      <4> QED BY <1>2, <3>1, <4>1, RegisteredGrows, JobsNeedRegistration
    <3>3. CASE q \in unnumbered
        BY <1>2, <3>3, NumbersKept, NobodyTyped
    <3> QED BY <3>2, <3>3
  <2>2. CASE ~(tear[q].by = "reconcile" \/ (recPc = "take" /\ q \in current))
    <3>1. recPc' = "take" /\ q \in current'
        BY <1>2, <2>2, TearingWasTaken
    <3>2. CASE q \notin unnumbered'
      <4>1. job[q] # "running" /\ registered' = registered \ {q} /\ job' = job
          BY <1>2, <2>2, <3>1, <3>2, TakenWasAsked
      <4> QED BY <4>1
    <3> QED BY <3>2
  <2> QED BY <2>1, <2>2
<1> QED BY <1>1, <1>2

(* Releasing surplus runners stops none that has a job, not even one whose *)
(* JobStarted has not arrived, as long as its ID is known                  *)
(* (releaseSurplusRunner, scaler_capacity.go).                             *)
THEOREM TrimSpares == Spec => TrimSparesJobs
<1>1. Init => Spared
    BY NobodyTyped DEF Init, Spared
<1>2. Control /\ Spared /\ [Next]_vars =>
        [\A r \in (alive \ alive') \ unnumbered :
            tear[r].by = "reconcile" /\ NextStep(r, "stop") => job[r] # "running"]_vars
    BY DEF Control, WorldTyped, Spared
<1> QED BY <1>1, <1>2, SparedStep, ControlInvariance, PTL DEF Spec, TrimSparesJobs
=============================================================================
