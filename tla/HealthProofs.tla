---------------------------- MODULE HealthProofs ----------------------------
(***************************************************************************)
(* Proofs about the health monitor for any number of groups and runners,   *)
(* any minimum, any DivergenceTimeout and any number of reports under way. *)
(*                                                                         *)
(* The clock of a group (degradedSince) is advanced for all groups when a  *)
(* tick begins and looked at when the tick comes to the group, so that the *)
(* two counts of ticks are one apart from the one to the other.            *)
(***************************************************************************)
EXTENDS Health, SequenceTheorems, FiniteSetTheorems, TLAPS

TickSteps == {"off", "snapshot", "next", "liveness", "timeouts", "idle", "divergence"}
GroupSteps == {"liveness", "timeouts", "idle", "divergence"}

(* The type invariant in parts: the pools, the tick, and what it is to say.*)
PoolTyped ==
    /\ cond \in [Runners -> {"out"} \cup AllStates]
    /\ dead \subseteq {r \in Runners : cond[r] # "out"}
    /\ snap \in [Runners -> {"out"} \cup AllStates]
    /\ lastDesired \in [Groups -> 0 .. MaxDesired]

TickTyped ==
    /\ tick \in [step : TickSteps, group : Groups \cup {NoGroup}, left : SUBSET Runners,
                 todo : SUBSET Groups, quota : Int, deferring : SUBSET Groups]
    /\ tick.step \in GroupSteps => tick.group \in Groups \ tick.todo
    /\ tick.step \notin GroupSteps => tick.group = NoGroup
    /\ tick.step = "off" => \A r \in Runners : snap[r] = "out"

TellTyped ==
    /\ issues \subseteq Issues
    /\ reports \in Seq(SUBSET Issues) /\ Len(reports) <= MaxReports
    /\ kuma \in [Groups -> {"idle", "outage", "critical", "degraded", "healthy"}]
    /\ stuck \subseteq Groups /\ deferring \subseteq Groups
    /\ behind \subseteq untold /\ untold \subseteq Runners

ClockTyped ==
    /\ degraded \in [Groups -> -1 .. DivergenceTimeout]
    /\ apart \in [Groups -> 0 .. DivergenceTimeout + 1]

Typed == PoolTyped /\ TickTyped /\ TellTyped /\ ClockTyped

(* The tick under way has still to come to the divergence of g.            *)
Pending(g) == tick.step = "snapshot" \/ (tick.step # "off" /\ (g \in tick.todo \/ g = tick.group))

(* A clock that runs is no further than the ticks that its group was apart.*)
ClockHeld ==
    \A g \in Groups :
        degraded[g] >= 0 => apart[g] >= IF Pending(g) THEN degraded[g] ELSE degraded[g] + 1

(* Whoever was called degraded has been passed by this tick.               *)
CalledWhenDue ==
    \A issue \in issues :
        issue.type = "degraded" =>
            /\ issue.group \in Groups /\ ~Pending(issue.group)
            /\ apart[issue.group] > DivergenceTimeout

(* A runner that was taken away and not named to the notifier is in the    *)
(* list of the tick under way, or in a report still to be told, or in one  *)
(* whose goroutine hangs.                                                  *)
Names(said, r) == \E issue \in said : issue.runner = r

Accounted ==
    \A r \in untold \ behind :
                      \/ tick.step # "off" /\ Names(ToTell, r)
                      \/ \E i \in DOMAIN reports : Names(reports[i], r)

-----------------------------------------------------------------------------
LEMMA TypedTypes == Typed => TypeOK
<1> SUFFICES ASSUME Typed PROVE TypeOK
    OBVIOUS
<1>1. \A i \in DOMAIN reports : reports[i] \subseteq Issues
    BY DEF Typed, TellTyped
<1> QED BY <1>1 DEF Typed, PoolTyped, TickTyped, TickSteps, TellTyped, ClockTyped, TypeOK,
                    MonitorFree

LEMMA TypedInit == Init => Typed
<1> SUFFICES ASSUME Init PROVE Typed
    OBVIOUS
<1>1. PoolTyped
    BY HealthAssumption DEF Init, PoolTyped, AllStates
<1>2. TickTyped
    BY DEF Init, TickTyped, TickSteps, GroupSteps, NoTick
<1>3. TellTyped
  <2>1. reports \in Seq(SUBSET Issues) /\ Len(reports) = 0
      BY DEF Init
  <2> QED BY <2>1, HealthAssumption DEF Init, Idle, TellTyped
<1>4. ClockTyped
    BY HealthAssumption DEF Init, ClockTyped
<1> QED BY <1>1, <1>2, <1>3, <1>4 DEF Typed

(* What a check of one runner may do: nothing, or an issue about it, or    *)
(* that and its end.                                                       *)
Tick(step, group, left, todo, quota, deferred) ==
    [step |-> step, group |-> group, left |-> left, todo |-> todo, quota |-> quota,
     deferring |-> deferred]

Judged(r) ==
    \/ Passes
    \/ \E type \in {"zombie", "timeout", "idle"} :
        /\ issues' = issues \cup {Issue(type, tick.group, r)}
        /\ \/ UNCHANGED <<pool, fate>>
           \/ /\ cond' = [cond EXCEPT ![r] = "out"] /\ dead' = dead \ {r}
              /\ untold' = untold \cup {r} /\ UNCHANGED <<stuck, behind>>

LEMMA CondemnedIsJudged ==
    ASSUME NEW r \in Runners, NEW states, NEW type \in {"zombie", "timeout", "idle"},
           Condemn(type, r, states)
    PROVE  Judged(r)
BY DEF Condemn, Judged, fate

LEMMA RunnerChecked ==
    ASSUME Typed, NEW r \in Runners, CheckLiveness(r) \/ CheckTimeout(r) \/ CheckIdle(r)
    PROVE  /\ tick.step \in GroupSteps
           /\ \E quota \in Int :
                tick' = Tick(tick.step, tick.group, tick.left \ {r}, tick.todo, quota,
                             tick.deferring)
           /\ Checking /\ Judged(r)
<1>1. CASE CheckLiveness(r)
  <2>1. Judged(r)
      BY <1>1, CondemnedIsJudged DEF CheckLiveness, Judged
  <2>2. tick' = Tick(tick.step, tick.group, tick.left \ {r}, tick.todo, tick.quota,
                     tick.deferring)
      BY <1>1 DEF CheckLiveness, Typed, TickTyped, Tick
  <2> QED BY <1>1, <2>1, <2>2 DEF CheckLiveness, TickAt, GroupSteps, Typed, TickTyped
<1>2. CASE CheckTimeout(r)
  <2>1. Judged(r)
      BY <1>2, CondemnedIsJudged DEF CheckTimeout, Judged
  <2>2. tick' = Tick(tick.step, tick.group, tick.left \ {r}, tick.todo, tick.quota,
                     tick.deferring)
      BY <1>2 DEF CheckTimeout, Typed, TickTyped, Tick
  <2> QED BY <1>2, <2>1, <2>2 DEF CheckTimeout, TickAt, GroupSteps, Typed, TickTyped
<1>3. CASE CheckIdle(r)
  <2>1. Judged(r)
      BY <1>3, CondemnedIsJudged DEF CheckIdle, Judged
  <2>2. tick.quota - 1 \in Int /\ tick.quota \in Int
      BY DEF Typed, TickTyped
  <2>3. \E quota \in Int :
            tick' = Tick(tick.step, tick.group, tick.left \ {r}, tick.todo, quota,
                         tick.deferring)
    <3>1. CASE snap[r] = "late" /\ tick.quota > 0
      <4>1. tick' = Tick(tick.step, tick.group, tick.left \ {r}, tick.todo, tick.quota - 1,
                         tick.deferring)
          BY <1>3, <3>1 DEF CheckIdle, Typed, TickTyped, Tick
      <4> QED BY <2>2, <4>1
    <3>2. CASE ~(snap[r] = "late" /\ tick.quota > 0)
      <4>1. tick' = Tick(tick.step, tick.group, tick.left \ {r}, tick.todo, tick.quota,
                         tick.deferring)
          BY <1>3, <3>2 DEF CheckIdle, Typed, TickTyped, Tick
      <4> QED BY <2>2, <4>1
    <3> QED BY <3>1, <3>2
  <2> QED BY <1>3, <2>1, <2>3 DEF CheckIdle, TickAt, GroupSteps
<1> QED BY <1>1, <1>2, <1>3

(* The quota of idle runners is a number.                                  *)
LEMMA KillableIsInt == ASSUME NEW g \in Groups PROVE Killable(g) \in Int
<1> DEFINE Waiting == {r \in Pool(g, snap) : snap[r] \in {"idle", "late"}}
<1>1. IsFiniteSet(Waiting)
    BY HealthAssumption, FS_Subset DEF Pool
<1>2. Cardinality(Waiting) \in Nat /\ MinRunners[g] \in Nat
    BY <1>1, FS_CardinalityType, HealthAssumption
<1> QED BY <1>2 DEF Killable

(* What the monitor makes of the tick in each of its steps, but for those  *)
(* that check one runner.                                                  *)
LEMMA TickMoves ==
    ASSUME Typed
    PROVE  /\ Lock => tick' = Tick("snapshot", NoGroup, {}, Groups, 0, {})
           /\ \A g \in Groups : Snapshot(g) =>
                \E step \in {"snapshot", "next"}, todo \in SUBSET Groups :
                    /\ step = "next" => todo = Groups
                    /\ tick' = Tick(step, NoGroup, tick.left, todo, tick.quota, tick.deferring)
           /\ \A g \in Groups : TakeGroup(g) =>
                tick' = Tick("liveness", g, Pool(g, snap), tick.todo \ {g}, tick.quota,
                             tick.deferring)
           /\ NextCheck =>
                \E step \in GroupSteps, left \in SUBSET Runners, quota \in Int :
                    tick' = Tick(step, tick.group, left, tick.todo, quota, tick.deferring)
           /\ \A deferred : CheckDivergence(deferred) =>
                \E groups \in SUBSET Groups :
                    tick' = Tick("next", NoGroup, tick.left, tick.todo, 0, groups)
<1>1. tick = Tick(tick.step, tick.group, tick.left, tick.todo, tick.quota, tick.deferring)
    BY DEF Typed, TickTyped, Tick
<1>2. Lock => tick' = Tick("snapshot", NoGroup, {}, Groups, 0, {})
    BY DEF Lock, NoTick, Tick
<1>3. ASSUME NEW g \in Groups, Snapshot(g)
      PROVE  \E step \in {"snapshot", "next"}, todo \in SUBSET Groups :
                /\ step = "next" => todo = Groups
                /\ tick' = Tick(step, NoGroup, tick.left, todo, tick.quota, tick.deferring)
  <2>1. tick.group = NoGroup /\ tick.step = "snapshot" /\ tick.todo \subseteq Groups
      BY <1>3 DEF Snapshot, TickAt, Typed, TickTyped, GroupSteps
  <2>2. CASE tick.todo = {g}
    <3>1. tick' = Tick("next", NoGroup, tick.left, Groups, tick.quota, tick.deferring)
        BY <1>1, <1>3, <2>1, <2>2 DEF Snapshot, Tick
    <3> QED BY <3>1
  <2>3. CASE tick.todo # {g}
    <3>1. tick' = Tick("snapshot", NoGroup, tick.left, tick.todo \ {g}, tick.quota,
                       tick.deferring)
        BY <1>1, <1>3, <2>1, <2>3 DEF Snapshot, Tick
    <3> QED BY <2>1, <3>1
  <2> QED BY <2>2, <2>3
<1>4. ASSUME NEW g \in Groups, TakeGroup(g)
      PROVE  tick' = Tick("liveness", g, Pool(g, snap), tick.todo \ {g}, tick.quota,
                          tick.deferring)
    BY <1>1, <1>4 DEF TakeGroup, Tick
<1>5. ASSUME NextCheck
      PROVE  \E step \in GroupSteps, left \in SUBSET Runners, quota \in Int :
                tick' = Tick(step, tick.group, left, tick.todo, quota, tick.deferring)
  <2>1. tick.step \in GroupSteps /\ tick.group \in Groups
      BY <1>5 DEF NextCheck, Typed, TickTyped, GroupSteps
  <2>2. Pool(tick.group, snap) \in SUBSET Runners /\ tick.left \in SUBSET Runners
            /\ tick.quota \in Int /\ Killable(tick.group) \in Int
      BY <2>1, KillableIsInt DEF Pool, Typed, TickTyped
  <2>3. \/ tick' = Tick("timeouts", tick.group, Pool(tick.group, snap), tick.todo, tick.quota,
                        tick.deferring)
        \/ tick' = Tick("idle", tick.group, Pool(tick.group, snap), tick.todo,
                        Killable(tick.group), tick.deferring)
        \/ tick' = Tick("divergence", tick.group, tick.left, tick.todo, tick.quota,
                        tick.deferring)
      BY <1>1, <1>5 DEF NextCheck, Tick
  <2> QED BY <2>2, <2>3 DEF GroupSteps
<1>6. ASSUME NEW deferred, CheckDivergence(deferred)
      PROVE  \E groups \in SUBSET Groups :
                tick' = Tick("next", NoGroup, tick.left, tick.todo, 0, groups)
  <2>1. tick.deferring \in SUBSET Groups /\ tick.deferring \cup {tick.group} \in SUBSET Groups
      BY <1>6 DEF CheckDivergence, TickAt, Typed, TickTyped, GroupSteps
  <2>2. \/ tick' = Tick("next", NoGroup, tick.left, tick.todo, 0, tick.deferring)
        \/ tick' = Tick("next", NoGroup, tick.left, tick.todo, 0,
                        tick.deferring \cup {tick.group})
      BY <1>1, <1>6 DEF CheckDivergence, Tick
  <2> QED BY <2>1, <2>2
<1> QED BY <1>2, <1>3, <1>4, <1>5, <1>6

-----------------------------------------------------------------------------
(* Types.                                                                  *)

LEMMA ScalerTyped ==
    ASSUME Typed, NEW r \in Runners,
           Starts(r) \/ Ages(r) \/ JobStarts(r) \/ Exits(r) \/ Leaves(r)
    PROVE  Typed'
<1>1. UNCHANGED <<lastDesired, degraded, tick, snap, issues, told, apart>>
    BY DEF Starts, Ages, JobStarts, Exits, Leaves, Scaler
<1>2. PoolTyped'
    BY <1>1 DEF Starts, Ages, JobStarts, Exits, Leaves, Typed, PoolTyped, AllStates
<1>3. stuck' \subseteq Groups /\ behind' \subseteq untold' /\ untold' \subseteq untold
  <2>1. Home[r] \in Groups
      BY HealthAssumption
  <2> QED BY <2>1 DEF Starts, Ages, JobStarts, Exits, Leaves, fate, Typed, TellTyped
<1> QED BY <1>1, <1>2, <1>3 DEF Typed, TickTyped, TellTyped, ClockTyped, told

LEMMA RunnerCheckTyped ==
    ASSUME Typed, NEW r \in Runners, CheckLiveness(r) \/ CheckTimeout(r) \/ CheckIdle(r)
    PROVE  Typed'
<1>1. Checking /\ Judged(r) /\ tick.step \in GroupSteps
    BY RunnerChecked
<1>2. TickTyped'
  <2>1. PICK quota \in Int : tick' = Tick(tick.step, tick.group, tick.left \ {r}, tick.todo,
                                          quota, tick.deferring)
      BY RunnerChecked
  <2>2. tick.step # "off"
      BY <1>1 DEF GroupSteps
  <2> QED BY <1>1, <2>1, <2>2 DEF Typed, TickTyped, Tick
<1>3. PoolTyped'
    BY <1>1 DEF Checking, Judged, Passes, pool, Typed, PoolTyped
<1>4. TellTyped'
  <2>1. ASSUME NEW type \in {"zombie", "timeout", "idle"}
        PROVE  Issue(type, tick.group, r) \in Issues
      BY DEF Issue, Issues, IssueTypes, Typed, TickTyped
  <2> QED BY <1>1, <2>1 DEF Checking, Judged, Passes, told, fate, Typed, TellTyped
<1> QED BY <1>1, <1>2, <1>3, <1>4 DEF Checking, Typed, ClockTyped

LEMMA DivergenceTyped ==
    ASSUME Typed, NEW deferred \in 0 .. MaxDesired, CheckDivergence(deferred)
    PROVE  Typed'
<1>1. tick.group \in Groups /\ tick.todo \subseteq Groups
    BY DEF CheckDivergence, TickAt, Typed, TickTyped, GroupSteps
<1>2. PICK groups \in SUBSET Groups :
          tick' = Tick("next", NoGroup, tick.left, tick.todo, 0, groups)
    BY TickMoves
<1>3. TickTyped'
    BY <1>2 DEF Tick, Typed, TickTyped, TickSteps, GroupSteps
<1>4. ClockTyped'
  <2>1. degraded' \in [Groups -> -1 .. DivergenceTimeout]
    <3>1. DegradedSince(tick.group, lastDesired[tick.group] - deferred)
              \in -1 .. DivergenceTimeout
        BY <1>1, HealthAssumption DEF DegradedSince, DegradedSinceFirst, Typed, ClockTyped
    <3> QED BY <1>1, <3>1 DEF CheckDivergence, Typed, ClockTyped
  <2>2. apart' \in [Groups -> 0 .. DivergenceTimeout + 1]
    <3>1. apart[tick.group] \in 0 .. DivergenceTimeout + 1
        BY <1>1 DEF Typed, ClockTyped
    <3>2. apart[tick.group] <= DivergenceTimeout
              => apart[tick.group] + 1 \in 0 .. DivergenceTimeout + 1
        BY <3>1, HealthAssumption
    <3>3. 0 \in 0 .. DivergenceTimeout + 1
        BY HealthAssumption
    <3>4. apart' \in [Groups -> 0 .. DivergenceTimeout + 1]
        BY <1>1, <3>1, <3>2, <3>3, HealthAssumption DEF CheckDivergence, Typed, ClockTyped
    <3> QED BY <3>4
  <2> QED BY <2>1, <2>2 DEF ClockTyped
<1>5. TellTyped'
  <2>1. ASSUME NEW type \in {"waiting", "degraded"}
        PROVE  Issue(type, tick.group, NoRunner) \in Issues
      BY <1>1 DEF Issue, Issues, IssueTypes
  <2> QED BY <2>1 DEF CheckDivergence, told, fate, Typed, TellTyped
<1>6. PoolTyped'
    BY DEF CheckDivergence, pool, Typed, PoolTyped
<1> QED BY <1>3, <1>4, <1>5, <1>6 DEF Typed

LEMMA UnlockTyped == ASSUME Typed, Unlock PROVE Typed'
<1>1. TickTyped' /\ PoolTyped'
    BY DEF Unlock, NoTick, pool, Typed, TickTyped, TickSteps, GroupSteps, PoolTyped
<1>2. reports' \in Seq(SUBSET Issues) /\ Len(reports') <= MaxReports
  <2>1. ToTell \in SUBSET Issues
      BY DEF ToTell, Typed, TellTyped
  <2>2. \/ UNCHANGED reports
        \/ Len(reports') = Len(reports) + 1 /\ reports' \in Seq(SUBSET Issues)
      BY <2>1 DEF Unlock, Typed, TellTyped
  <2> QED BY <2>2, HealthAssumption DEF Unlock, Typed, TellTyped
<1>3. kuma' \in [Groups -> {"idle", "outage", "critical", "degraded", "healthy"}]
    BY DEF Unlock, GroupStatus
<1>4. deferring' \subseteq Groups
    BY DEF Unlock, Typed, TickTyped
<1>5. UNCHANGED <<issues, fate, degraded, apart>>
    BY DEF Unlock
<1> QED BY <1>1, <1>2, <1>3, <1>4, <1>5 DEF Typed, TellTyped, ClockTyped, fate

(* One report is taken out of the sequence and the others stay.            *)
LEMMA OthersStay ==
    ASSUME Typed, NEW i \in DOMAIN reports, DispatchHealthReports(i)
    PROVE  /\ reports' \in Seq(SUBSET Issues) /\ Len(reports') = Len(reports) - 1
           /\ \A j \in DOMAIN reports \ {i} : \E k \in DOMAIN reports' : reports'[k] = reports[j]
<1> DEFINE n == Len(reports)
           before == SubSeq(reports, 1, i - 1)
           after == SubSeq(reports, i + 1, n)
<1>1. reports \in Seq(SUBSET Issues) /\ n \in Nat /\ DOMAIN reports = 1 .. n /\ i \in 1 .. n
    BY DEF Typed, TellTyped
<1>2. /\ before \in Seq(SUBSET Issues) /\ Len(before) = i - 1
      /\ \A j \in 1 .. i - 1 : before[j] = reports[j]
    BY <1>1, SubSeqProperties
<1>3. /\ after \in Seq(SUBSET Issues) /\ Len(after) = n - i
      /\ \A j \in 1 .. n - i : after[j] = reports[i + j]
    BY <1>1, SubSeqProperties
<1>4. reports' = before \o after
    BY DEF DispatchHealthReports
<1> HIDE DEF before, after, n
<1>5. /\ reports' \in Seq(SUBSET Issues) /\ Len(reports') = n - 1
      /\ DOMAIN reports' = 1 .. n - 1
      /\ \A j \in 1 .. n - 1 : reports'[j] = IF j <= i - 1 THEN before[j] ELSE after[j - (i - 1)]
  <2>1. i - 1 + (n - i) = n - 1
      BY <1>1
  <2>2. /\ before \o after \in Seq(SUBSET Issues)
        /\ Len(before \o after) = Len(before) + Len(after)
        /\ \A j \in 1 .. Len(before) + Len(after) :
              (before \o after)[j] = IF j <= Len(before) THEN before[j]
                                     ELSE after[j - Len(before)]
      BY <1>2, <1>3, ConcatProperties
  <2>3. reports' \in Seq(SUBSET Issues) /\ Len(reports') = n - 1
      BY <1>2, <1>3, <1>4, <2>1, <2>2
  <2>4. DOMAIN reports' = 1 .. n - 1
      BY <2>3
  <2>5. \A j \in 1 .. n - 1 : reports'[j] = IF j <= i - 1 THEN before[j] ELSE after[j - (i - 1)]
      BY <1>2, <1>3, <1>4, <2>1, <2>2
  <2> QED BY <2>3, <2>4, <2>5
<1>6. ASSUME NEW j \in (1 .. n) \ {i} PROVE \E k \in 1 .. n - 1 : reports'[k] = reports[j]
  <2>1. CASE j < i
    <3>1. j \in 1 .. n - 1 /\ j <= i - 1 /\ j \in 1 .. i - 1
        BY <1>1, <2>1
    <3> QED BY <1>2, <1>5, <3>1
  <2>2. CASE j > i
    <3>1. j - 1 \in 1 .. n - 1 /\ ~(j - 1 <= i - 1) /\ (j - 1) - (i - 1) = j - i
              /\ j - i \in 1 .. n - i /\ i + (j - i) = j
        BY <1>1, <2>2
    <3>2. reports'[j - 1] = after[j - i]
        BY <1>5, <3>1
    <3>3. after[j - i] = reports[j]
        BY <1>3, <3>1
    <3> QED BY <3>1, <3>2, <3>3
  <2> QED BY <1>1, <2>1, <2>2
<1> QED BY <1>1, <1>5, <1>6 DEF n

LEMMA DispatchTyped ==
    ASSUME Typed, NEW i \in Nat, DispatchHealthReports(i)
    PROVE  Typed'
<1>1. i \in DOMAIN reports
    BY DEF DispatchHealthReports
<1>2. reports' \in Seq(SUBSET Issues) /\ Len(reports') = Len(reports) - 1
    BY <1>1, OthersStay
<1>3. Len(reports') <= MaxReports
    BY <1>2, HealthAssumption DEF Typed, TellTyped
<1>4. untold' \subseteq Runners /\ behind' \subseteq untold'
    BY DEF DispatchHealthReports, Typed, TellTyped
<1> QED BY <1>2, <1>3, <1>4
       DEF DispatchHealthReports, pool, Typed, PoolTyped, TickTyped, TellTyped, ClockTyped

LEMMA LockTyped == ASSUME Typed, Lock PROVE Typed'
<1>1. tick' = Tick("snapshot", NoGroup, {}, Groups, 0, {})
    BY TickMoves
<1>2. TickTyped'
    BY <1>1 DEF Tick, TickTyped, TickSteps, GroupSteps
<1>3. degraded' \in [Groups -> -1 .. DivergenceTimeout]
    BY HealthAssumption DEF Lock, Typed, ClockTyped
<1>4. kuma' \in [Groups -> {"idle", "outage", "critical", "degraded", "healthy"}]
    BY DEF Lock, Idle
<1> QED BY <1>2, <1>3, <1>4 DEF Lock, pool, fate, Typed, PoolTyped, TellTyped, ClockTyped

(* A tick on its way from one group, or one check, to the next.            *)
LEMMA TickGoesOnTyped ==
    ASSUME Typed, NextCheck \/ \E g \in Groups : Snapshot(g) \/ TakeGroup(g)
    PROVE  Typed'
<1>1. UNCHANGED <<pool, lastDesired, degraded, issues, told, fate, apart>>
    BY DEF NextCheck, Snapshot, TakeGroup, Checking, Passes
<1>2. CASE NextCheck
  <2>1. PICK step \in GroupSteps, left \in SUBSET Runners, quota \in Int :
            tick' = Tick(step, tick.group, left, tick.todo, quota, tick.deferring)
      BY <1>2, TickMoves
  <2>2. tick.step \in GroupSteps
      BY <1>2 DEF NextCheck, GroupSteps
  <2>3. TickTyped' /\ UNCHANGED snap
      BY <1>2, <2>1, <2>2 DEF NextCheck, Checking, Tick, Typed, TickTyped, TickSteps, GroupSteps
  <2> QED BY <1>1, <2>3 DEF pool, told, fate, Typed, PoolTyped, TellTyped, ClockTyped
<1>3. CASE \E g \in Groups : TakeGroup(g)
  <2>1. PICK g \in Groups : TakeGroup(g)
      BY <1>3
  <2>2. tick' = Tick("liveness", g, Pool(g, snap), tick.todo \ {g}, tick.quota, tick.deferring)
      BY <2>1, TickMoves
  <2>3. Pool(g, snap) \in SUBSET Runners
      BY DEF Pool
  <2>4. UNCHANGED snap
      BY <2>1 DEF TakeGroup, Checking
  <2>5. /\ tick'.step = "liveness" /\ tick'.group = g /\ tick'.todo = tick.todo \ {g}
        /\ tick' \in [step : TickSteps, group : Groups \cup {NoGroup}, left : SUBSET Runners,
                      todo : SUBSET Groups, quota : Int, deferring : SUBSET Groups]
      BY <2>2, <2>3 DEF Tick, Typed, TickTyped, TickSteps
  <2>6. TickTyped'
      BY <2>5 DEF TickTyped, GroupSteps
  <2> QED BY <1>1, <2>4, <2>6 DEF pool, told, fate, Typed, PoolTyped, TellTyped, ClockTyped
<1>4. CASE \E g \in Groups : Snapshot(g)
  <2>1. PICK g \in Groups : Snapshot(g)
      BY <1>4
  <2>2. PICK step \in {"snapshot", "next"}, todo \in SUBSET Groups :
            tick' = Tick(step, NoGroup, tick.left, todo, tick.quota, tick.deferring)
      BY <2>1, TickMoves
  <2>3. TickTyped'
      BY <2>2 DEF Tick, Typed, TickTyped, TickSteps, GroupSteps
  <2>4. snap' \in [Runners -> {"out"} \cup AllStates]
      BY <2>1 DEF Snapshot, Typed, PoolTyped
  <2> QED BY <1>1, <2>3, <2>4 DEF pool, told, fate, Typed, PoolTyped, TellTyped, ClockTyped
<1> QED BY <1>2, <1>3, <1>4

LEMMA TypedStep == Typed /\ [Next]_vars => Typed'
<1> SUFFICES ASSUME Typed, [Next]_vars PROVE Typed'
    OBVIOUS
<1>1. CASE \E r \in Runners : Starts(r) \/ Ages(r) \/ JobStarts(r) \/ Exits(r) \/ Leaves(r)
    BY <1>1, ScalerTyped
<1>2. CASE \E g \in Groups, desired \in 0 .. MaxDesired : UpdateGroupStats(g, desired)
    BY <1>2 DEF UpdateGroupStats, pool, told, fate, Typed, PoolTyped, TickTyped, TellTyped, ClockTyped
<1>3. CASE Checks
    BY <1>3, RunnerCheckTyped, DivergenceTyped, UnlockTyped, TickGoesOnTyped DEF Checks
<1>4. CASE \E i \in 1 .. MaxReports : DispatchHealthReports(i)
    BY <1>4, HealthAssumption, DispatchTyped
<1>5. CASE UNCHANGED vars
    BY <1>5 DEF vars, pool, told, fate, Typed, PoolTyped, TickTyped, TellTyped, ClockTyped
<1> QED BY <1>1, <1>2, <1>3, <1>4, <1>5, LockTyped DEF Next

-----------------------------------------------------------------------------
(* The clock.                                                              *)

(* A group is pending from the beginning of a tick to its divergence.      *)
LEMMA DivergencePasses ==
    ASSUME Typed, NEW deferred \in 0 .. MaxDesired, CheckDivergence(deferred)
    PROVE  /\ tick.group \in Groups /\ Pending(tick.group) /\ tick'.step # "off"
           /\ \A h \in Groups : Pending(h)' = (Pending(h) /\ h # tick.group)
<1>1. PICK groups \in SUBSET Groups :
          tick' = Tick("next", NoGroup, tick.left, tick.todo, 0, groups)
    BY TickMoves
<1>2. tick.step = "divergence" /\ tick.group \in Groups \ tick.todo /\ NoGroup \notin Groups
    BY HealthAssumption DEF CheckDivergence, TickAt, Typed, TickTyped, GroupSteps
<1> QED BY <1>1, <1>2 DEF Tick, Pending

LEMMA PendingKept ==
    ASSUME Typed, [Next]_vars, ~Lock, \A deferred \in 0 .. MaxDesired : ~CheckDivergence(deferred)
    PROVE  \A h \in Groups : Pending(h)' = Pending(h)
<1> SUFFICES ASSUME NEW h \in Groups PROVE Pending(h)' = Pending(h)
    OBVIOUS
<1>1. CASE UNCHANGED tick
    BY <1>1 DEF Pending
<1>2. CASE \E r \in Runners : CheckLiveness(r) \/ CheckTimeout(r) \/ CheckIdle(r)
  <2>1. PICK r \in Runners : CheckLiveness(r) \/ CheckTimeout(r) \/ CheckIdle(r)
      BY <1>2
  <2>2. PICK quota \in Int : tick' = Tick(tick.step, tick.group, tick.left \ {r}, tick.todo,
                                          quota, tick.deferring)
      BY <2>1, RunnerChecked
  <2> QED BY <2>2 DEF Tick, Pending
<1>3. CASE NextCheck
  <2>1. PICK step \in GroupSteps, left \in SUBSET Runners, quota \in Int :
            tick' = Tick(step, tick.group, left, tick.todo, quota, tick.deferring)
      BY <1>3, TickMoves
  <2> QED BY <1>3, <2>1 DEF NextCheck, Tick, Pending, GroupSteps
<1>4. CASE \E g \in Groups : TakeGroup(g)
  <2>1. PICK g \in Groups : TakeGroup(g)
      BY <1>4
  <2>2. tick' = Tick("liveness", g, Pool(g, snap), tick.todo \ {g}, tick.quota, tick.deferring)
      BY <2>1, TickMoves
  <2>3. tick.step = "next" /\ tick.group = NoGroup /\ g \in tick.todo /\ NoGroup \notin Groups
      BY <2>1, HealthAssumption DEF TakeGroup, TickAt, Typed, TickTyped, GroupSteps
  <2> QED BY <2>2, <2>3 DEF Tick, Pending
<1>5. CASE \E g \in Groups : Snapshot(g)
  <2>1. PICK g \in Groups : Snapshot(g)
      BY <1>5
  <2>2. PICK step \in {"snapshot", "next"}, todo \in SUBSET Groups :
            /\ step = "next" => todo = Groups
            /\ tick' = Tick(step, NoGroup, tick.left, todo, tick.quota, tick.deferring)
      BY <2>1, TickMoves
  <2>3. tick.step = "snapshot"
      BY <2>1 DEF Snapshot, TickAt
  <2> QED BY <2>2, <2>3 DEF Tick, Pending
<1>6. CASE Unlock
  <2>1. tick'.step = "off" /\ tick.step = "next" /\ tick.todo = {}
            /\ tick.group = NoGroup /\ NoGroup \notin Groups
      BY <1>6, HealthAssumption DEF Unlock, NoTick, TickAt, Typed, TickTyped, GroupSteps
  <2> QED BY <2>1 DEF Pending
<1>7. CASE \/ \E r \in Runners : Starts(r) \/ Ages(r) \/ JobStarts(r) \/ Exits(r) \/ Leaves(r)
           \/ \E g \in Groups, desired \in 0 .. MaxDesired : UpdateGroupStats(g, desired)
           \/ \E i \in 1 .. MaxReports : DispatchHealthReports(i)
           \/ UNCHANGED vars
  <2>1. UNCHANGED tick
      BY <1>7 DEF Starts, Ages, JobStarts, Exits, Leaves, Scaler, UpdateGroupStats,
                  DispatchHealthReports, vars
  <2> QED BY <1>1, <2>1
<1> QED BY <1>2, <1>3, <1>4, <1>5, <1>6, <1>7 DEF Next, Checks

LEMMA ClocksKept ==
    ASSUME [Next]_vars, ~Lock, \A deferred \in 0 .. MaxDesired : ~CheckDivergence(deferred)
    PROVE  UNCHANGED <<degraded, apart>>
BY DEF Next, Checks, Starts, Ages, JobStarts, Exits, Leaves, Scaler, UpdateGroupStats, Snapshot,
       TakeGroup, CheckLiveness, CheckTimeout, CheckIdle, NextCheck, Checking, Unlock,
       DispatchHealthReports, vars

LEMMA ClockStep == Typed /\ ClockHeld /\ [Next]_vars => ClockHeld'
<1> SUFFICES ASSUME Typed, ClockHeld, [Next]_vars, NEW h \in Groups, degraded'[h] >= 0
             PROVE  apart'[h] >= IF Pending(h)' THEN degraded'[h] ELSE degraded'[h] + 1
    BY DEF ClockHeld
<1>1. degraded[h] \in -1 .. DivergenceTimeout /\ apart[h] \in 0 .. DivergenceTimeout + 1
          /\ DivergenceTimeout \in Nat \ {0}
    BY HealthAssumption DEF Typed, ClockTyped
<1>2. degraded[h] >= 0 => apart[h] >= IF Pending(h) THEN degraded[h] ELSE degraded[h] + 1
    BY DEF ClockHeld
<1>3. CASE Lock
  <2>1. Pending(h)' /\ ~Pending(h)
    <3>1. tick'.step = "snapshot" /\ tick.step = "off"
        BY <1>3, TickMoves DEF Lock, TickAt, Tick
    <3> QED BY <3>1 DEF Pending
  <2>2. UNCHANGED apart /\ degraded'[h] = IF degraded[h] \in {-1, DivergenceTimeout}
                                          THEN degraded[h] ELSE degraded[h] + 1
      BY <1>3 DEF Lock
  <2> QED BY <1>1, <1>2, <2>1, <2>2
<1>4. CASE \E deferred \in 0 .. MaxDesired : CheckDivergence(deferred)
  <2>1. PICK deferred \in 0 .. MaxDesired : CheckDivergence(deferred)
      BY <1>4
  <2>2. tick.group \in Groups /\ Pending(tick.group)
            /\ Pending(h)' = (Pending(h) /\ h # tick.group)
      BY <2>1, DivergencePasses
  <2>3. CASE h # tick.group
    <3>1. degraded'[h] = degraded[h] /\ apart'[h] = apart[h]
        BY <2>1, <2>3, <2>2 DEF CheckDivergence, Typed, ClockTyped
    <3> QED BY <1>2, <2>2, <2>3, <3>1
  <2>4. CASE h = tick.group
    <3> DEFINE desired == lastDesired[h] - deferred
               seen == lastDesired[h] # 0 /\ ~Apart(h, desired)
    <3>1. /\ degraded'[h] = IF seen THEN -1
                            ELSE IF Apart(h, desired) /\ degraded[h] = -1 THEN 0 ELSE degraded[h]
          /\ apart'[h] = IF seen THEN 0
                         ELSE IF apart[h] > DivergenceTimeout THEN apart[h] ELSE apart[h] + 1
        BY <2>1, <2>4 DEF CheckDivergence, DegradedSince, DegradedSinceFirst, Typed, ClockTyped
    <3> HIDE DEF seen, desired
    <3>2. ~seen
        BY <3>1
    <3> QED BY <1>1, <1>2, <2>2, <2>4, <3>1, <3>2
  <2> QED BY <2>3, <2>4
<1>5. CASE ~Lock /\ \A deferred \in 0 .. MaxDesired : ~CheckDivergence(deferred)
    BY <1>2, <1>5, ClocksKept, PendingKept
<1> QED BY <1>3, <1>4, <1>5

(* The list grows by what was found of this group only, and at divergence  *)
(* by what its clock says.                                                 *)
LEMMA DegradedIsNew ==
    ASSUME Typed, [Next]_vars, ~Lock,
           NEW issue \in issues', issue \notin issues, issue.type = "degraded"
    PROVE  \E deferred \in 0 .. MaxDesired :
              /\ CheckDivergence(deferred)
              /\ issue = Issue("degraded", tick.group, NoRunner)
              /\ Apart(tick.group, lastDesired[tick.group] - deferred)
              /\ degraded[tick.group] = DivergenceTimeout
<1>1. ASSUME NEW r \in Runners, CheckLiveness(r) \/ CheckTimeout(r) \/ CheckIdle(r)
      PROVE  FALSE
  <2>1. Judged(r)
      BY <1>1, RunnerChecked
  <2>2. PICK type \in {"zombie", "timeout", "idle"} :
            issues' = issues \cup {Issue(type, tick.group, r)}
      BY <2>1 DEF Judged, Passes
  <2>3. issue = Issue(type, tick.group, r)
      BY <2>2
  <2> QED BY <2>3 DEF Issue
<1>2. ASSUME NEW deferred \in 0 .. MaxDesired, CheckDivergence(deferred)
      PROVE  /\ issue = Issue("degraded", tick.group, NoRunner)
             /\ Apart(tick.group, lastDesired[tick.group] - deferred)
             /\ degraded[tick.group] = DivergenceTimeout
    BY <1>2 DEF CheckDivergence, Issue
<1>3. ASSUME UNCHANGED issues PROVE FALSE
    BY <1>3
<1> QED BY <1>1, <1>2, <1>3 DEF Next, Checks, Starts, Ages, JobStarts, Exits, Leaves, Scaler,
            UpdateGroupStats, Snapshot, TakeGroup, NextCheck, Passes, Unlock,
            DispatchHealthReports, vars

LEMMA CalledStep == Typed /\ ClockHeld /\ CalledWhenDue /\ [Next]_vars => CalledWhenDue'
<1> SUFFICES ASSUME Typed, ClockHeld, CalledWhenDue, [Next]_vars,
                    NEW issue \in issues', issue.type = "degraded"
             PROVE  /\ issue.group \in Groups /\ ~Pending(issue.group)'
                    /\ apart'[issue.group] > DivergenceTimeout
    BY DEF CalledWhenDue, Pending
<1>1. CASE Lock
    BY <1>1 DEF Lock
<1>2. CASE ~Lock /\ issue \in issues
  <2>1. issue.group \in Groups /\ ~Pending(issue.group) /\ apart[issue.group] > DivergenceTimeout
      BY <1>2 DEF CalledWhenDue
  <2>2. CASE \E deferred \in 0 .. MaxDesired : CheckDivergence(deferred)
    <3>1. PICK deferred \in 0 .. MaxDesired : CheckDivergence(deferred)
        BY <2>2
    <3>2. issue.group # tick.group /\ ~Pending(issue.group)'
        BY <2>1, <3>1, DivergencePasses
    <3>3. apart'[issue.group] = apart[issue.group]
        BY <2>1, <3>1, <3>2 DEF CheckDivergence, Typed, ClockTyped
    <3> QED BY <2>1, <3>2, <3>3
  <2>3. CASE \A deferred \in 0 .. MaxDesired : ~CheckDivergence(deferred)
      BY <1>2, <2>1, <2>3, PendingKept, ClocksKept
  <2> QED BY <2>2, <2>3
<1>3. CASE ~Lock /\ issue \notin issues
  <2>1. PICK deferred \in 0 .. MaxDesired :
            /\ CheckDivergence(deferred)
            /\ issue = Issue("degraded", tick.group, NoRunner)
            /\ Apart(tick.group, lastDesired[tick.group] - deferred)
            /\ degraded[tick.group] = DivergenceTimeout
      BY <1>3, DegradedIsNew
  <2>2. issue.group = tick.group
      BY <2>1 DEF Issue
  <2>3. issue.group \in Groups /\ Pending(tick.group) /\ ~Pending(issue.group)'
      BY <2>1, <2>2, DivergencePasses
  <2>4. apart[tick.group] \in 0 .. DivergenceTimeout + 1 /\ DivergenceTimeout \in Nat \ {0}
            /\ apart[tick.group] >= DivergenceTimeout
      BY <2>1, <2>2, <2>3, HealthAssumption DEF Typed, ClockTyped, ClockHeld
  <2>5. apart'[issue.group] = IF apart[tick.group] > DivergenceTimeout THEN apart[tick.group]
                              ELSE apart[tick.group] + 1
      BY <2>1, <2>2, <2>3 DEF CheckDivergence, Typed, ClockTyped
  <2> QED BY <2>2, <2>3, <2>4, <2>5
<1> QED BY <1>1, <1>2, <1>3

(* A group is called degraded only when the ticks that it was apart, one   *)
(* after the other, are more than DivergenceTimeout: the clock never runs  *)
(* ahead of them, whatever is wanted, deferred and started in between.     *)
THEOREM DegradedOnlyWhenDue == Spec => []DegradedDeserved
<1>1. Init => ClockHeld /\ CalledWhenDue
    BY DEF Init, ClockHeld, CalledWhenDue
<1>2. CalledWhenDue => DegradedDeserved
    BY DEF CalledWhenDue, DegradedDeserved
<1> QED BY <1>1, <1>2, TypedInit, TypedStep, ClockStep, CalledStep, PTL DEF Spec

(* Every variable has its type: the tick is about a group only while it    *)
(* checks one, the snapshots are gone when it ends, and a report under way *)
(* holds issues and no more than the bound of them is under way.           *)
THEOREM HealthTypeCorrect == Spec => []TypeOK
BY TypedInit, TypedStep, TypedTypes, PTL DEF Spec

-----------------------------------------------------------------------------
(* Who was taken away is told.                                             *)

(* Between two ticks nothing is lost from the list, and the tick goes on   *)
(* until it hands the list over.                                           *)
LEMMA ListGrows ==
    ASSUME Typed, [Next]_vars, ~Lock, ~Unlock
    PROVE  issues \subseteq issues' /\ (tick.step # "off" => tick'.step # "off")
<1>1. ASSUME NEW r \in Runners, CheckLiveness(r) \/ CheckTimeout(r) \/ CheckIdle(r)
      PROVE  issues \subseteq issues' /\ tick'.step # "off"
  <2>1. Judged(r) /\ tick.step \in GroupSteps
      BY <1>1, RunnerChecked
  <2>2. tick'.step = tick.step
      BY <1>1, RunnerChecked DEF Tick
  <2> QED BY <2>1, <2>2 DEF Judged, Passes, GroupSteps
<1>2. ASSUME NEW g \in Groups, Snapshot(g) \/ TakeGroup(g)
      PROVE  UNCHANGED issues /\ tick'.step # "off"
  <2>1. tick'.step \in {"snapshot", "next", "liveness"}
      BY <1>2, TickMoves DEF Tick
  <2> QED BY <1>2, <2>1 DEF Snapshot, TakeGroup, Passes
<1>3. ASSUME NextCheck PROVE UNCHANGED issues /\ tick'.step # "off"
  <2>1. tick'.step \in GroupSteps
      BY <1>3, TickMoves DEF Tick
  <2> QED BY <1>3, <2>1 DEF NextCheck, Passes, GroupSteps
<1>4. ASSUME NEW deferred \in 0 .. MaxDesired, CheckDivergence(deferred)
      PROVE  issues \subseteq issues' /\ tick'.step # "off"
    BY <1>4, DivergencePasses DEF CheckDivergence
<1>5. CASE \/ \E r \in Runners : Starts(r) \/ Ages(r) \/ JobStarts(r) \/ Exits(r) \/ Leaves(r)
           \/ \E g \in Groups, desired \in 0 .. MaxDesired : UpdateGroupStats(g, desired)
           \/ \E i \in 1 .. MaxReports : DispatchHealthReports(i)
           \/ UNCHANGED vars
  <2>1. UNCHANGED <<issues, tick>>
      BY <1>5 DEF Starts, Ages, JobStarts, Exits, Leaves, Scaler, UpdateGroupStats,
                  DispatchHealthReports, vars
  <2> QED BY <2>1
<1> QED BY <1>1, <1>2, <1>3, <1>4, <1>5 DEF Next, Checks

(* A runner is taken away with an issue that names it, and only a report   *)
(* that is sent, or one that is handed over, changes the reports.          *)
LEMMA UntoldIsListed ==
    ASSUME Typed, [Next]_vars, NEW r \in untold', r \notin untold
    PROVE  tick'.step # "off" /\ Names(ToTell', r)
<1>1. CASE \E q \in Runners : CheckLiveness(q) \/ CheckTimeout(q) \/ CheckIdle(q)
  <2>1. PICK q \in Runners : CheckLiveness(q) \/ CheckTimeout(q) \/ CheckIdle(q)
      BY <1>1
  <2>2. Judged(q) /\ tick.step \in GroupSteps
      BY <2>1, RunnerChecked
  <2>3. tick'.step = tick.step
      BY <2>1, RunnerChecked DEF Tick
  <2>4. PICK type \in {"zombie", "timeout", "idle"} :
            /\ issues' = issues \cup {Issue(type, tick.group, q)}
            /\ untold' \subseteq untold \cup {q}
      BY <2>2 DEF Judged, Passes, fate
  <2>5. Issue(type, tick.group, q) \in ToTell' /\ Issue(type, tick.group, q).runner = r
      BY <2>4 DEF ToTell, Issue
  <2> QED BY <2>2, <2>3, <2>5 DEF Names, GroupSteps
<1>2. CASE ~\E q \in Runners : CheckLiveness(q) \/ CheckTimeout(q) \/ CheckIdle(q)
  <2>1. untold' \subseteq untold
      BY <1>2 DEF Next, Checks, Starts, Ages, JobStarts, Exits, Leaves, UpdateGroupStats,
                  Lock, Snapshot, TakeGroup, NextCheck, Passes, CheckDivergence, Unlock,
                  DispatchHealthReports, fate, vars
  <2> QED BY <2>1
<1> QED BY <1>1, <1>2

LEMMA ReportsKept ==
    ASSUME [Next]_vars, ~Unlock, \A i \in 1 .. MaxReports : ~DispatchHealthReports(i)
    PROVE  UNCHANGED reports
BY DEF Next, Checks, Starts, Ages, JobStarts, Exits, Leaves, Scaler, UpdateGroupStats, Lock,
       Snapshot, TakeGroup, CheckLiveness, CheckTimeout, CheckIdle, NextCheck, Checking,
       CheckDivergence, told, vars

(* What is behind a send that never ends stays there, until its name goes  *)
(* to another runner.                                                      *)
LEMMA BehindStays ==
    ASSUME Typed, [Next]_vars, NEW r \in behind, r \in untold'
    PROVE  r \in behind'
<1>1. ASSUME NEW q \in Runners, CheckLiveness(q) \/ CheckTimeout(q) \/ CheckIdle(q)
      PROVE  UNCHANGED behind
  <2>1. Judged(q)
      BY <1>1, RunnerChecked
  <2> QED BY <2>1 DEF Judged, Passes, fate
<1>2. CASE ~\E q \in Runners : CheckLiveness(q) \/ CheckTimeout(q) \/ CheckIdle(q)
    BY <1>2 DEF Next, Checks, Starts, Ages, JobStarts, Exits, Leaves, UpdateGroupStats,
                Lock, Snapshot, TakeGroup, NextCheck, Passes, CheckDivergence, Unlock,
                DispatchHealthReports, fate, vars
<1> QED BY <1>1, <1>2

LEMMA AccountedStep == Typed /\ Accounted /\ [Next]_vars => Accounted'
<1> SUFFICES ASSUME Typed, Accounted, [Next]_vars,
                    NEW r \in untold' \ behind', r \in untold \ behind
             PROVE  \/ tick'.step # "off" /\ Names(ToTell', r)
                    \/ \E i \in DOMAIN reports' : Names(reports'[i], r)
    BY UntoldIsListed, BehindStays DEF Accounted, Names
<1>1. \/ tick.step # "off" /\ Names(ToTell, r)
      \/ \E i \in DOMAIN reports : Names(reports[i], r)
    BY DEF Accounted
<1>2. CASE Lock
    BY <1>1, <1>2 DEF Lock, TickAt
<1>3. CASE Unlock /\ ToTell = {}
    BY <1>1, <1>3 DEF Unlock, Names
<1>4. CASE Unlock /\ ToTell # {}
  <2>1. /\ DOMAIN reports' = 1 .. Len(reports) + 1 /\ Len(reports) \in Nat
        /\ DOMAIN reports = 1 .. Len(reports)
        /\ reports'[Len(reports) + 1] = ToTell
        /\ \A i \in DOMAIN reports : reports'[i] = reports[i]
    <3>1. reports \in Seq(SUBSET Issues) /\ reports' = Append(reports, ToTell)
        BY <1>4 DEF Unlock, Typed, TellTyped
    <3> QED BY <3>1
  <2> QED BY <1>1, <2>1
<1>5. CASE \E i \in 1 .. MaxReports : DispatchHealthReports(i)
  <2>1. PICK i \in DOMAIN reports : DispatchHealthReports(i)
      BY <1>5 DEF DispatchHealthReports
  <2>2. ~Names(reports[i], r)
    <3>1. PICK said \in SUBSET reports[i] :
              /\ untold' = untold \ Named(said)
              /\ behind' = (behind \cup Named(reports[i] \ said)) \cap untold'
        BY <2>1 DEF DispatchHealthReports, Sent
    <3>2. r \notin Named(said) /\ r \notin Named(reports[i] \ said)
        BY <3>1
    <3> QED BY <3>1, <3>2 DEF Names, Named
  <2>3. UNCHANGED <<tick, issues>>
      BY <2>1 DEF DispatchHealthReports
  <2>4. CASE \E j \in DOMAIN reports : Names(reports[j], r)
    <3>1. PICK j \in DOMAIN reports \ {i} : Names(reports[j], r)
        BY <2>2, <2>4
    <3> QED BY <2>1, <3>1, OthersStay
  <2> QED BY <1>1, <2>3, <2>4 DEF ToTell, Names
<1>6. CASE ~Lock /\ ~Unlock /\ \A i \in 1 .. MaxReports : ~DispatchHealthReports(i)
  <2>1. ToTell \subseteq ToTell' /\ (tick.step # "off" => tick'.step # "off")
      BY <1>6, ListGrows DEF ToTell
  <2> QED BY <1>1, <1>6, <2>1, ReportsKept DEF Names
<1> QED BY <1>2, <1>3, <1>4, <1>5, <1>6

(* However many goroutines report at once, in whatever order they are done *)
(* and however many of them hang, a runner that the monitor has taken away *)
(* and not yet named to the notifier is in the list of the tick under way  *)
(* or in a report still to be told, unless its own report hangs: the next  *)
(* tick, which starts its list anew, loses none of them (checks.go:49-59). *)
THEOREM KillsAccounted == Spec => []Accounted
<1>1. Init => Accounted
    BY DEF Init, Accounted
<1> QED BY <1>1, TypedInit, TypedStep, AccountedStep, PTL DEF Spec
=============================================================================
