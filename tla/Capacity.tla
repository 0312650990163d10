------------------------------ MODULE Capacity ------------------------------
(***************************************************************************)
(* The host-wide budget allocator of internal/capacity: leases, strict     *)
(* priority with first-come-first-served inside a priority, protected      *)
(* minimums, and the two loops of Run that re-evaluate waiting groups after *)
(* a release and tell every registered group that its capacity changed.    *)
(*                                                                         *)
(* The allocator is one mutex: each exported method is one action here.    *)
(* The callers (one scaler per group) are left free: they may ask for any  *)
(* number of runners up to the group's maximum, finish any lease they hold *)
(* as often as they like, and register or leave at any time.               *)
(***************************************************************************)
EXTENDS Integers, Sequences, FiniteSets, Sums, Resources

CONSTANTS
    Groups,      \* the configured groups
    Leases,      \* identities of leases the callers can hold references to
    Priority,    \* [Groups -> Int], a larger number is served first
    MinRunners,  \* [Groups -> Nat]
    MaxRunners,  \* [Groups -> Nat]
    Reserve,     \* [Groups -> Amount], what one runner of the group takes
    Total,       \* Amount, the host's budget; 0 in a dimension: unlimited
    NoGroup      \* the owner of a lease identity nobody refers to

(* config.validate and config.validateCapacity reject every other          *)
(* configuration: 0 <= min <= max, and the minimums of all groups together *)
(* fit the budget (config/validate_capacity.go:59-74).                     *)
ASSUME GroupsAssumption ==
    /\ IsFiniteSet(Groups)
    /\ IsFiniteSet(Leases)
    /\ NoGroup \notin Groups
    /\ Priority \in [Groups -> Int]
    /\ MinRunners \in [Groups -> Nat]
    /\ MaxRunners \in [Groups -> Nat]
    /\ Reserve \in [Groups -> Amount]
    /\ Total \in Amount
    /\ \A g \in Groups : MinRunners[g] <= MaxRunners[g]

ASSUME FloorsFit ==
    Fits(Total, [d \in Dims |-> Sum([g \in Groups |-> Reserve[g][d] * MinRunners[g]])],
         Zero)

VARIABLES
    used,        \* Allocator.used
    held,        \* groupEntry.held
    waiting,     \* groupEntry.waiting, the deferred demand
    ahead,       \* order of groupEntry.waitSeq: who began to wait before whom
    closed,      \* groupEntry.closed: the groups whose listener is gone
    registered,  \* the groups with groupEntry.waker set
    saturated,   \* groupEntry.saturated
    owner,       \* Lease.group of every lease reference
    done,        \* Lease.done
    wakeCh,      \* Allocator.wakeCh holds a token
    changeCh,    \* Allocator.changeCh holds a token
    queue,       \* wakers the pass of the wake loop still has to call
    notifying,   \* wakers notifyChanges still has to call
    cancelled,   \* ctx.Done() of Run
    running,     \* the loops of Run that have not returned
    owed         \* auxiliary: groups that waited when capacity was last
                 \* released and have not been re-evaluated since

entries  == <<waiting, ahead, closed, registered, saturated>>
budget   == <<used, held, owner, done>>
signals  == <<wakeCh, changeCh>>
loops    == <<queue, notifying, cancelled, running>>
vars     == <<budget, entries, signals, loops, owed>>

-----------------------------------------------------------------------------
(* Admission (admission.go).  h is what every group holds, p a plan of     *)
(* runners that are only advertised (all zero when a lease is asked for)   *)
(* and u what is in use, planned runners included.                         *)

NoPlan == [g \in Groups |-> 0]

Pending(e, p) == Monus(waiting[e], p[e])

(* Mutant: the runner being admitted counts towards the minimum.           *)
MissingOneShort(h, p, g) == Monus(MinRunners[g], h[g] + p[g] + 1)

Missing(h, p, g) == Monus(MinRunners[g], h[g] + p[g])

(* Mutant: only the memory of the other groups' minimums is kept free.     *)
UnmetFloorsOfMemory(e, h, p) ==
    [d \in Dims |->
        IF d = "cpu" THEN 0
        ELSE Sum([g \in Groups |->
                    IF g = e THEN 0 ELSE Reserve[g][d] * Missing(h, p, g)])]

UnmetFloors(e, h, p) ==
    [d \in Dims |->
        Sum([g \in Groups |->
                IF g = e THEN 0 ELSE Reserve[g][d] * Missing(h, p, g)])]

(* Mutant: a group that does not wait yet is not behind its equals.        *)
PrecedesOnlyWaiters(h, e, p) ==
    \/ Priority[h] > Priority[e]
    \/ Priority[h] = Priority[e] /\ h \in ahead[e]

(* Mutant: a comparison that is not zero is taken for "greater".           *)
PrecedesUnlessEqual(h, e, p) ==
    \/ Priority[h] # Priority[e]
    \/ /\ Priority[h] = Priority[e]
       /\ Pending(e, p) = 0 \/ h \in ahead[e]

Precedes(h, e, p) ==
    \/ Priority[h] > Priority[e]
    \/ /\ Priority[h] = Priority[e]
       /\ Pending(e, p) = 0 \/ h \in ahead[e]

BlockedByPriority(e, p) ==
    \E h \in Groups \ {e} :
        /\ Pending(h, p) > 0
        /\ ~IsZero(Reserve[h])
        /\ Precedes(h, e, p)

(* Mutant: strict priority is looked at before the group's own minimum.    *)
AdmitPriorityFirst(e, h, p, u) ==
    /\ Fits(Total, u, Reserve[e])
    /\ ~BlockedByPriority(e, p)
    /\ \/ h[e] + p[e] < MinRunners[e]
       \/ Fits(Total, u, Plus(Reserve[e], UnmetFloors(e, h, p)))

Admit(e, h, p, u) ==
    /\ Fits(Total, u, Reserve[e])
    /\ \/ h[e] + p[e] < MinRunners[e]
       \/ /\ Fits(Total, u, Plus(Reserve[e], UnmetFloors(e, h, p)))
          /\ ~BlockedByPriority(e, p)

-----------------------------------------------------------------------------
Waiters == {g \in Groups : waiting[g] > 0}

Init ==
    /\ used = Zero
    /\ held = [g \in Groups |-> 0]
    /\ waiting = [g \in Groups |-> 0]
    /\ ahead = [g \in Groups |-> {}]
    /\ closed = {}
    /\ registered = {}
    /\ saturated = {}
    /\ owner = [l \in Leases |-> NoGroup]
    /\ done = [l \in Leases |-> FALSE]
    /\ wakeCh = FALSE
    /\ changeCh = FALSE
    /\ queue = <<>>
    /\ notifying = {}
    /\ cancelled = FALSE
    /\ running = {"wake", "notify"}
    /\ owed = {}

(* The listener of a group is about to start.                              *)
Register(g) ==
    /\ registered' = registered \cup {g}
    /\ closed' = closed \ {g}
    /\ saturated' = saturated \ {g}
    /\ changeCh' = TRUE
    /\ UNCHANGED <<budget, waiting, ahead, wakeCh, loops, owed>>

(* Leaving the line of waiting groups: nobody is behind g any more.        *)
LeaveLine(g) == [h \in Groups |-> IF h = g THEN {} ELSE ahead[h] \ {g}]

(* The listener of a group ended.  The group gives up its place in the     *)
(* line, and nobody is woken.                                              *)
Unregister(g) ==
    /\ registered' = registered \ {g}
    /\ closed' = closed \cup {g}
    /\ waiting' = [waiting EXCEPT ![g] = 0]
    /\ ahead' = LeaveLine(g)
    /\ changeCh' = TRUE
    /\ owed' = owed \ {g}
    /\ UNCHANGED <<budget, saturated, wakeCh, loops>>

SetSaturated(g, loaded) ==
    /\ saturated' = IF loaded THEN saturated \cup {g} ELSE saturated \ {g}
    /\ changeCh' = (changeCh \/ saturated' # saturated)
    /\ UNCHANGED <<budget, waiting, ahead, closed, registered, wakeCh, loops, owed>>

(* Leases are granted one at a time, each admitted with those before it    *)
(* counted; n is where that loop ends.                                     *)
HeldWith(g, k) == [held EXCEPT ![g] = @ + k]

(* Mutant: the reserve is taken once per call instead of once per lease.   *)
UsedWithOneReserve(g, k) == IF k = 0 THEN used ELSE Plus(used, Reserve[g])

UsedWith(g, k) == Plus(used, Times(Reserve[g], k))

(* Mutant: every lease of a call is admitted against what was in use       *)
(* before the call.                                                        *)
AdmitsNextStale(g, k) == Admit(g, HeldWith(g, k), NoPlan, used)

AdmitsNext(g, k) == Admit(g, HeldWith(g, k), NoPlan, UsedWith(g, k))

Grants(g, want, n) ==
    /\ \A k \in 0 .. n - 1 : AdmitsNext(g, k)
    /\ n = want \/ ~AdmitsNext(g, n)

(* Mutant: nextSeq is not advanced, so waiting groups share one waitSeq.   *)
UpdateWaitingUnnumbered(g, w) ==
    /\ waiting' = [waiting EXCEPT ![g] = w]
    /\ ahead' = IF w = 0 THEN LeaveLine(g) ELSE ahead

(* The deferred demand of g becomes w; a group that starts to wait goes to *)
(* the end of the line, one that waits already keeps its place.            *)
UpdateWaiting(g, w) ==
    /\ waiting' = [waiting EXCEPT ![g] = w]
    /\ ahead' =
        IF w > 0 /\ waiting[g] = 0 THEN [ahead EXCEPT ![g] = Waiters]
        ELSE IF w = 0 THEN LeaveLine(g)
        ELSE ahead

(* Handing n leases out to the caller.                                     *)
Issue(g, n) ==
    /\ \E S \in SUBSET {l \in Leases : owner[l] = NoGroup} :
        /\ Cardinality(S) = n
        /\ owner' = [l \in Leases |-> IF l \in S THEN g ELSE owner[l]]
    /\ held' = HeldWith(g, n)
    /\ UNCHANGED done

(* A group that reserves nothing is granted whatever it asks for, and its  *)
(* demand is never deferred.                                               *)
GrantUnbounded(g, want) ==
    /\ IsZero(Reserve[g])
    /\ Issue(g, want)
    /\ UNCHANGED <<used, entries, signals>>

(* Mutant: a call that comes after the listener's end defers its demand.   *)
GrantBoundedClosed(g, want) ==
    /\ ~IsZero(Reserve[g])
    /\ \E n \in 0 .. want :
        /\ Grants(g, want, n)
        /\ Issue(g, n)
        /\ used' = UsedWith(g, n)
        /\ UpdateWaiting(g, want - n)
        /\ changeCh' = (changeCh \/ n > 0 \/ (waiting'[g] > 0) # (waiting[g] > 0))
    /\ UNCHANGED <<closed, registered, saturated, wakeCh>>

(* A reconcile may outlive its listener: what it is refused then is not    *)
(* deferred.                                                               *)
GrantBounded(g, want) ==
    /\ ~IsZero(Reserve[g])
    /\ \E n \in 0 .. want :
        /\ Grants(g, want, n)
        /\ Issue(g, n)
        /\ used' = UsedWith(g, n)
        /\ IF g \in closed
           THEN UNCHANGED <<waiting, ahead>>
           ELSE UpdateWaiting(g, want - n)
        /\ changeCh' = (changeCh \/ n > 0 \/ (waiting'[g] > 0) # (waiting[g] > 0))
    /\ UNCHANGED <<closed, registered, saturated, wakeCh>>

(* want is the scaler's target minus its runners: never above the group's  *)
(* maximum, and a negative one is raised to 0.  A scaler asks only once    *)
(* its listener has been registered, perhaps after it has ended.           *)
Ask(g, want) ==
    /\ g \in registered \cup closed
    /\ GrantUnbounded(g, want) \/ GrantBounded(g, want)
    /\ owed' = owed \ {g}

Acquire(g, want) == Ask(g, want) /\ UNCHANGED loops

-----------------------------------------------------------------------------
(* Leases (lease.go).                                                      *)

(* Mutant: finish() does not look at done.                                 *)
FinishEveryTime(l) ==
    /\ owner[l] # NoGroup
    /\ done' = [done EXCEPT ![l] = TRUE]
    /\ used' = Minus(used, Reserve[owner[l]])
    /\ held' = [held EXCEPT ![owner[l]] = @ - 1]
    /\ changeCh' = TRUE
    /\ UNCHANGED <<owner, entries, loops>>

(* finish(): the first call returns the reservation, later ones nothing.   *)
Finish(l) ==
    /\ owner[l] # NoGroup
    /\ ~done[l]
    /\ done' = [done EXCEPT ![l] = TRUE]
    /\ used' = Minus(used, Reserve[owner[l]])
    /\ held' = [held EXCEPT ![owner[l]] = @ - 1]
    /\ changeCh' = TRUE
    /\ UNCHANGED <<owner, entries, loops>>

(* Mutant: no token is sent while a pass of the wake loop is running.      *)
ReleaseBetweenPasses(l) ==
    /\ Finish(l)
    /\ wakeCh' = (wakeCh \/ queue = <<>>)
    /\ owed' = Waiters \cap registered

Release(l) ==
    /\ Finish(l)
    /\ wakeCh' = TRUE
    /\ owed' = Waiters \cap registered

(* A runner that failed to start gives its lease back without waking       *)
(* anybody, or it would be retried in a hot loop.                          *)
Cancel(l) ==
    /\ Finish(l)
    /\ UNCHANGED <<wakeCh, owed>>

(* The caller drops its last reference to a finished lease.                *)
Forget(l) ==
    /\ done[l]
    /\ owner' = [owner EXCEPT ![l] = NoGroup]
    /\ done' = [done EXCEPT ![l] = FALSE]
    /\ UNCHANGED <<used, held, entries, signals, loops, owed>>

-----------------------------------------------------------------------------
(* Run: the wake loop (wake.go) and notifyChanges.                         *)

(* The order in which a pass calls the wakers it took a snapshot of.       *)
WokenBefore(g, h) ==
    \/ Priority[g] > Priority[h]
    \/ Priority[g] = Priority[h] /\ g \in ahead[h]

WaitingWakers(q) ==
    LET S == Waiters \cap registered
    IN /\ q \in [1 .. Cardinality(S) -> S]
       /\ \A i, j \in DOMAIN q : i < j => WokenBefore(q[i], q[j])

WakeTake ==
    /\ "wake" \in running
    /\ wakeCh
    /\ queue = <<>>
    /\ wakeCh' = FALSE
    /\ \E q \in [1 .. Cardinality(Waiters \cap registered) -> Waiters \cap registered] :
        WaitingWakers(q) /\ queue' = q
    /\ UNCHANGED <<budget, entries, changeCh, notifying, cancelled, running, owed>>

(* The next waker of the pass reconciles, which asks again.                *)
WakeCall(want) ==
    /\ queue # <<>>
    /\ ~cancelled
    /\ Ask(Head(queue), want)
    /\ queue' = Tail(queue)
    /\ UNCHANGED <<notifying, cancelled, running>>

(* ctx.Err() ends the pass before the next waker.                          *)
WakeAbort ==
    /\ cancelled
    /\ queue # <<>>
    /\ queue' = <<>>
    /\ UNCHANGED <<budget, entries, signals, notifying, cancelled, running, owed>>

NotifyTake ==
    /\ "notify" \in running
    /\ changeCh
    /\ notifying = {}
    /\ changeCh' = FALSE
    /\ notifying' = registered
    /\ UNCHANGED <<budget, entries, wakeCh, queue, cancelled, running, owed>>

NotifyCall(g) ==
    /\ g \in notifying
    /\ notifying' = notifying \ {g}
    /\ UNCHANGED <<budget, entries, signals, queue, cancelled, running, owed>>

CtxDone ==
    /\ ~cancelled
    /\ cancelled' = TRUE
    /\ UNCHANGED <<budget, entries, signals, queue, notifying, running, owed>>

(* A loop returns from its select; Run returns once both have.             *)
LoopReturns(loop) ==
    /\ cancelled
    /\ loop \in running
    /\ IF loop = "wake" THEN queue = <<>> ELSE notifying = {}
    /\ running' = running \ {loop}
    /\ UNCHANGED <<budget, entries, signals, queue, notifying, cancelled, owed>>

-----------------------------------------------------------------------------
Next ==
    \/ \E g \in Groups :
        \/ Register(g)
        \/ Unregister(g)
        \/ \E loaded \in BOOLEAN : SetSaturated(g, loaded)
        \/ \E want \in 0 .. MaxRunners[g] : Acquire(g, want)
        \/ NotifyCall(g)
    \/ \E l \in Leases : Release(l) \/ Cancel(l) \/ Forget(l)
    \/ WakeTake
    \/ queue # <<>> /\ \E want \in 0 .. MaxRunners[Head(queue)] : WakeCall(want)
    \/ WakeAbort
    \/ NotifyTake
    \/ CtxDone
    \/ \E loop \in {"wake", "notify"} : LoopReturns(loop)

Spec == Init /\ [][Next]_vars

(* What keeps the daemon's Run going: the loops take their tokens, make    *)
(* their calls and stop once cancelled, and a caller drops the leases it   *)
(* has finished with.  Nothing obliges a caller to ask or to release.      *)
Fairness ==
    /\ WF_vars(WakeTake)
    /\ WF_vars(queue # <<>> /\ \E want \in 0 .. MaxRunners[Head(queue)] : WakeCall(want))
    /\ WF_vars(WakeAbort)
    /\ WF_vars(NotifyTake)
    /\ WF_vars(\E g \in Groups : NotifyCall(g))
    /\ WF_vars(\E l \in Leases : Forget(l))
    /\ \A loop \in {"wake", "notify"} : WF_vars(LoopReturns(loop))

FairSpec == Spec /\ Fairness

-----------------------------------------------------------------------------
(* The type of every variable.                                             *)
TypeOK ==
    /\ used \in Amount
    /\ held \in [Groups -> Nat]
    /\ waiting \in [Groups -> Nat]
    /\ ahead \in [Groups -> SUBSET Groups]
    /\ closed \in SUBSET Groups
    /\ registered \in SUBSET Groups
    /\ saturated \in SUBSET Groups
    /\ owner \in [Leases -> Groups \cup {NoGroup}]
    /\ done \in [Leases -> BOOLEAN]
    /\ wakeCh \in BOOLEAN
    /\ changeCh \in BOOLEAN
    /\ queue \in Seq(Groups)
    /\ notifying \in SUBSET Groups
    /\ cancelled \in BOOLEAN
    /\ running \in SUBSET {"wake", "notify"}
    /\ owed \in SUBSET Groups

(* What the groups hold, and what they are owed below their minimum, in    *)
(* one dimension.                                                          *)
InUse(h, d) == [g \in Groups |-> Reserve[g][d] * h[g]]

Owing(h, d) == [g \in Groups |-> Reserve[g][d] * Missing(h, NoPlan, g)]

Live(g) == {l \in Leases : owner[l] = g /\ ~done[l]}

(* Every unit in use belongs to a lease that has not been finished: no     *)
(* reservation leaks, and none is returned twice however often a lease is  *)
(* released or cancelled (lease.go:21-38 against allocator.go:101-105).    *)
LeaseAccounting ==
    /\ \A g \in Groups : held[g] = Cardinality(Live(g))
    /\ \A d \in Dims :
        used[d] = Sum(InUse(held, d))

(* The host never has more reserved than it owns, in either dimension,     *)
(* whatever the groups ask for and give back (README, host budget).        *)
NoOvercommit == Fits(Total, used, Zero)

(* What is in use and what the groups below their minimum are still owed   *)
(* fit the host together: admission past its own minimum never lets a      *)
(* group eat into another one's (admission.go:10-15).                      *)
FloorsProtected ==
    Fits(Total, used, [d \in Dims |-> Sum(Owing(held, d))])

(* A group below its minimum is admitted at once, in every state the host  *)
(* can reach and however loaded the others are: the promise of min_runners *)
(* rests on every other group's admissions, not on its own.                *)
FloorAlwaysAdmitted ==
    \A g \in Groups : held[g] < MinRunners[g] => Admit(g, held, NoPlan, used)

(* The groups that wait form one line: each is behind some of the others,  *)
(* never in a circle, so that of two waiting groups of one priority exactly*)
(* one has to let the other pass, and all the others line up behind one    *)
(* (waitSeq, allocator.go:163-176 and precedes, admission.go:44-52).       *)
OneLine ==
    /\ \A g \in Groups : ahead[g] \subseteq Waiters \ {g}
    /\ \A g, h \in Waiters : g # h => ((g \in ahead[h]) # (h \in ahead[g]))
    /\ \A g, h \in Waiters : g \in ahead[h] => ahead[g] \subseteq ahead[h]

(* While somebody waits, some waiting group is not held back by priority:  *)
(* the groups never block one another in a circle.                         *)
SomebodyIsFirst ==
    LET Bounded == {g \in Waiters : ~IsZero(Reserve[g])}
    IN Bounded # {} => \E g \in Bounded : ~BlockedByPriority(g, NoPlan)

(* Whoever is in the line can be woken: a wake pass or a reconcile that    *)
(* outlives the listener of its group asks once more after Unregister, and *)
(* must not leave a demand there that nobody serves and that holds back    *)
(* the others (allocator.go:78-87 and 107).                                *)
NobodyWaitsUnheard == Waiters \subseteq registered

(* A wake-up is never lost: a group that waited when capacity was released *)
(* is still going to be called, by the pass that is running or by the one  *)
(* the token in wakeCh will start (signalWake drops a token when there is  *)
(* one already, allocator.go:209-214).                                     *)
NoLostWake ==
    \A g \in owed : \/ wakeCh
                    \/ \E i \in DOMAIN queue : queue[i] = g
                    \/ cancelled

(* A group never rises above its minimum past a group that outranks it: a  *)
(* waiting one of higher priority, or of equal priority that has waited    *)
(* longer.  One call may grant several leases, some below the minimum.     *)
NoOvertaking ==
    [][\A g, h \in Groups :
        /\ waiting[h] > 0
        /\ ~IsZero(Reserve[h])
        /\ \/ Priority[h] > Priority[g]
           \/ Priority[h] = Priority[g] /\ (waiting[g] = 0 \/ h \in ahead[g])
        /\ ~IsZero(Reserve[g])
        => held'[g] <= Larger(held[g], MinRunners[g])]_vars

Promise == INSTANCE Budget WITH
    Groups <- Groups, MinRunners <- MinRunners, Reserve <- Reserve,
    Total <- Total, held <- held

(* The allocator implements the abstract budget: every call grants only    *)
(* what leaves the other groups' minimums honourable.                      *)
ImplementsBudget == Promise!BudgetSpec

(* A group that waited when capacity was released is re-evaluated in the   *)
(* end, unless it stops waiting or the daemon stops: the wake loop reaches *)
(* it even if new releases keep arriving while a pass is running.          *)
OwedIsServed == \A g \in Groups : g \in owed ~> (g \notin owed \/ cancelled)
=============================================================================
