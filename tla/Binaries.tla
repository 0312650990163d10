------------------------------ MODULE Binaries ------------------------------
(***************************************************************************)
(* The cache of runner releases (runner/binary.go, download.go, copy.go)   *)
(* and how the groups get their bits from it (controller.go, group.go).    *)
(* Every group calls EnsureBits once when the daemon starts, all at the    *)
(* same time, and copies its runners from the directory it was given until *)
(* the daemon ends.  A mutex per version serialises those who want the     *)
(* same release; the removal of old releases takes none of the others'.    *)
(* The daemon may die between any two steps.                               *)
(***************************************************************************)
EXTENDS Naturals, FiniteSets

CONSTANTS
    Groups,             \* the configured groups
    Versions,           \* releases of the runner
    CacheKeepVersions,  \* cacheKeepVersions, 3 in the code
    NoGroup,            \* the holder of a mutex that is free
    NoVersion           \* a version that "latest" still has to be resolved to

ASSUME BinariesAssumption ==
    /\ IsFiniteSet(Groups) /\ IsFiniteSet(Versions)
    /\ CacheKeepVersions \in Nat \ {0}
    /\ NoGroup \notin Groups
    /\ NoVersion \notin Versions

VARIABLES
    up,         \* the daemon's process runs
    cancelled,  \* the context of GroupController.Run
    at,         \* where each group is in runGroup
    version,    \* the release it asks for
    lock,       \* BinaryManager.locks: who holds the mutex of a version
    victims,    \* what a group's gcOldVersions still has to remove
    content,    \* what the directory of a version holds
    spoiled,    \* versions that lost files while they were extracted
    markers,    \* of each version with a completion marker, those whose
                \* marker is newer
    condemned,  \* auxiliary: releases that some gcOldVersions has chosen
    fresh       \* auxiliary: releases downloaded since the daemon started

memory == <<up, cancelled, at, version, lock, victims, fresh>>
disk   == <<content, spoiled, markers, condemned>>
vars   == <<memory, disk>>

Marked(v) == v \in DOMAIN markers
Without(v) == [w \in DOMAIN markers \ {v} |-> markers[w] \ {v}]
Extracting(v) == \E g \in Groups : at[g] = "download" /\ version[g] = v
BeingRemoved(v) == \E g \in Groups : v \in victims[g]
Served(v) == \E g \in Groups : at[g] = "serving" /\ version[g] = v

Idle(step) ==
    /\ at' = [g \in Groups |-> step]
    /\ version' = [g \in Groups |-> NoVersion]
    /\ lock' = [v \in Versions |-> NoGroup]
    /\ victims' = [g \in Groups |-> {}]
    /\ fresh' = {}
    /\ cancelled' = FALSE

Init ==
    /\ up = FALSE /\ cancelled = FALSE
    /\ at = [g \in Groups |-> "ended"]
    /\ version = [g \in Groups |-> NoVersion]
    /\ lock = [v \in Versions |-> NoGroup]
    /\ victims = [g \in Groups |-> {}]
    /\ content = [v \in Versions |-> "none"]
    /\ spoiled = {} /\ markers = [v \in {} |-> {}]
    /\ condemned = {} /\ fresh = {}

-----------------------------------------------------------------------------
(* The steps of a group in EnsureBits, from whose every return the mutex   *)
(* is given back.                                                          *)

Moves(g, from, to) == at[g] = from /\ at' = [at EXCEPT ![g] = to]

(* Mutant: a return with an error keeps the mutex.                         *)
ReturnsLocked(g, to) ==
    /\ at' = [at EXCEPT ![g] = to]
    /\ IF to = "serving" THEN lock' = [lock EXCEPT ![version[g]] = NoGroup]
       ELSE UNCHANGED lock

Returns(g, to) ==
    /\ at' = [at EXCEPT ![g] = to]
    /\ lock' = [v \in Versions |-> IF lock[v] = g THEN NoGroup ELSE lock[v]]

(* An error ends the group, and with it every other one: Run cancels the   *)
(* context they all run under.                                             *)
Fails(g) ==
    /\ Returns(g, "ended")
    /\ cancelled' = TRUE

(* The group's own version, or the one "latest" stands for now.            *)
Resolve(g, v) ==
    /\ Moves(g, "resolve", "lock")
    /\ version' = [version EXCEPT ![g] = v]
    /\ UNCHANGED <<up, cancelled, lock, victims, fresh, disk>>

ResolveFails(g) ==
    /\ at[g] = "resolve"
    /\ Fails(g)
    /\ UNCHANGED <<up, version, victims, fresh, disk>>

(* Mutant: every call makes a mutex of its own.                            *)
LockOfItsOwn(g) ==
    /\ Moves(g, "lock", "check")
    /\ lock' = [lock EXCEPT ![version[g]] = g]
    /\ UNCHANGED <<up, cancelled, version, victims, fresh, disk>>

(* Waiting for the mutex is not ended by the context.                      *)
Lock(g) ==
    /\ Moves(g, "lock", "check")
    /\ lock[version[g]] = NoGroup
    /\ lock' = [lock EXCEPT ![version[g]] = g]
    /\ UNCHANGED <<up, cancelled, version, victims, fresh, disk>>

(* Mutant: any directory of the version will do.                           *)
HasDirectory(v) == content[v] # "none"

HasBits(v) == Marked(v)

Cached(g) ==
    /\ at[g] = "check" /\ HasBits(version[g])
    /\ Returns(g, "serving")
    /\ UNCHANGED <<up, cancelled, version, victims, fresh, disk>>

(* What is left of an earlier attempt goes, and an empty directory comes.  *)
Clear(g) ==
    /\ Moves(g, "check", "download")
    /\ ~HasBits(version[g])
    /\ content' = [content EXCEPT ![version[g]] = "part"]
    /\ spoiled' = spoiled \ {version[g]}
    /\ condemned' = IF BeingRemoved(version[g]) \/ Served(version[g]) THEN condemned
                    ELSE condemned \ {version[g]}
    /\ UNCHANGED <<up, cancelled, version, lock, victims, fresh, markers>>

(* The directory is removed as far as that goes.                           *)
GiveUp(g) ==
    /\ Fails(g)
    /\ \E left \in {"none", "part"} : content' = [content EXCEPT ![version[g]] = left]
    /\ markers' = Without(version[g])
    /\ UNCHANGED <<up, version, victims, fresh, spoiled, condemned>>

ClearFails(g) == at[g] = "check" /\ ~HasBits(version[g]) /\ GiveUp(g)

(* Mutant: a tarball is extracted whatever its digest.                     *)
AcceptsAny(tarball) == tarball \in {"good", "bad"}

(* The digest in the release notes is compared with that of the tarball.   *)
Accepts(tarball) == tarball = "good"

Download(g, tarball) ==
    /\ Accepts(tarball)
    /\ Moves(g, "download", "mark")
    /\ content' = [content EXCEPT ![version[g]] =
                      IF version[g] \in spoiled THEN "part"
                      ELSE IF tarball = "good" THEN "whole" ELSE "bad"]
    /\ UNCHANGED <<up, cancelled, version, lock, victims, fresh, spoiled, markers, condemned>>

(* No release notes, no digest in them, another digest, an entry that does *)
(* not extract, the context or the client's ten minutes are over.          *)
DownloadFails(g) == at[g] = "download" /\ GiveUp(g)

Mark(g) ==
    /\ Moves(g, "mark", "collect")
    /\ content[version[g]] # "none"
    /\ markers' = [v \in DOMAIN markers \cup {version[g]} |->
                      IF v = version[g] THEN {} ELSE markers[v] \cup {version[g]}]
    /\ fresh' = fresh \cup {version[g]}
    /\ UNCHANGED <<up, cancelled, version, lock, victims, content, spoiled, condemned>>

MarkFails(g) == at[g] = "mark" /\ GiveUp(g)

-----------------------------------------------------------------------------
(* gcOldVersions.                                                          *)

(* Mutant: the completed versions are sorted the other way round.          *)
NewestBeyond(keep) ==
    LET others == DOMAIN markers \ {keep}
    IN {v \in others : Cardinality(others \ (markers[v] \cup {v})) + 1 >= CacheKeepVersions}

(* The completed versions without keep, except the newest of them.         *)
OldVersions(keep) ==
    {v \in DOMAIN markers \ {keep} :
        Cardinality(markers[v] \ {keep}) + 1 >= CacheKeepVersions}

(* The cache may not be readable, and nothing is removed then.             *)
ListVictims(g) ==
    /\ Moves(g, "collect", "remove")
    /\ \E chosen \in {OldVersions(version[g]), {}} :
        /\ victims' = [victims EXCEPT ![g] = chosen]
        /\ condemned' = condemned \cup chosen
    /\ UNCHANGED <<up, cancelled, version, lock, fresh, content, spoiled, markers>>

(* RemoveAll takes the files one by one, the marker among them.            *)
RemoveSome(g, v) ==
    /\ v \in victims[g]
    /\ content[v] # "none"
    /\ content' = [content EXCEPT ![v] = "part"]
    /\ markers' \in {markers, Without(v)}
    /\ spoiled' = IF Extracting(v) THEN spoiled \cup {v} ELSE spoiled
    /\ UNCHANGED <<memory, condemned>>

RemoveRest(g, v) ==
    /\ v \in victims[g]
    /\ victims' = [victims EXCEPT ![g] = @ \ {v}]
    /\ content' = [content EXCEPT ![v] = "none"]
    /\ markers' = Without(v)
    /\ spoiled' = IF Extracting(v) THEN spoiled \cup {v} ELSE spoiled
    /\ UNCHANGED <<up, cancelled, at, version, lock, fresh, condemned>>

RemoveFails(g, v) ==
    /\ v \in victims[g]
    /\ victims' = [victims EXCEPT ![g] = @ \ {v}]
    /\ UNCHANGED <<up, cancelled, at, version, lock, fresh, disk>>

Collected(g) ==
    /\ at[g] = "remove" /\ victims[g] = {}
    /\ Returns(g, "serving")
    /\ UNCHANGED <<up, cancelled, version, victims, fresh, disk>>

-----------------------------------------------------------------------------
(* The daemon.                                                             *)

Boots ==
    /\ ~up
    /\ up' = TRUE
    /\ Idle("resolve")
    /\ UNCHANGED disk

(* The stop signal, or another actor of the daemon that ended.             *)
Cancel ==
    /\ up /\ ~cancelled
    /\ cancelled' = TRUE
    /\ UNCHANGED <<up, at, version, lock, victims, fresh, disk>>

GroupEnds(g) ==
    /\ cancelled
    /\ Moves(g, "serving", "ended")
    /\ UNCHANGED <<up, cancelled, version, lock, victims, fresh, disk>>

(* Run waits for every group.                                              *)
RunReturns ==
    /\ up /\ cancelled
    /\ \A g \in Groups : at[g] = "ended"
    /\ up' = FALSE
    /\ Idle("ended")
    /\ UNCHANGED disk

Dies ==
    /\ up
    /\ up' = FALSE
    /\ Idle("ended")
    /\ UNCHANGED disk

-----------------------------------------------------------------------------
Prepares(g) ==
    \/ \E v \in Versions : Resolve(g, v)
    \/ ResolveFails(g)
    \/ Cached(g) \/ Clear(g) \/ ClearFails(g)
    \/ \E tarball \in {"good", "bad"} : Download(g, tarball)
    \/ DownloadFails(g)
    \/ Mark(g) \/ MarkFails(g)
    \/ ListVictims(g)
    \/ \E v \in Versions : RemoveRest(g, v) \/ RemoveFails(g, v)
    \/ Collected(g)

Next ==
    \/ \E g \in Groups :
        \/ Prepares(g)
        \/ Lock(g)
        \/ \E v \in Versions : RemoveSome(g, v)
        \/ GroupEnds(g)
    \/ Boots
    \/ Cancel
    \/ RunReturns
    \/ Dies

Spec == Init /\ [][Next]_vars

(* A group goes on with what it has begun: the HTTP client gives up after  *)
(* ten minutes, files are removed in a finite time, and a mutex that is    *)
(* free goes to one of those who wait.                                     *)
Fairness ==
    /\ \A g \in Groups : WF_vars(Prepares(g)) /\ WF_vars(Lock(g)) /\ WF_vars(GroupEnds(g))
    /\ WF_vars(RunReturns)

FairSpec == Spec /\ Fairness

-----------------------------------------------------------------------------
(* The type of every variable.  The mutex of a version is held by the one  *)
(* group that is between its lookup and its return.                        *)
TypeOK ==
    /\ up \in BOOLEAN /\ cancelled \in BOOLEAN
    /\ at \in [Groups -> {"resolve", "lock", "check", "download", "mark", "collect",
                          "remove", "serving", "ended"}]
    /\ version \in [Groups -> Versions \cup {NoVersion}]
    /\ lock \in [Versions -> Groups \cup {NoGroup}]
    /\ victims \in [Groups -> SUBSET Versions]
    /\ content \in [Versions -> {"none", "part", "bad", "whole"}]
    /\ spoiled \in SUBSET Versions
    /\ DOMAIN markers \subseteq Versions /\ markers \in [DOMAIN markers -> SUBSET Versions]
    /\ condemned \in SUBSET Versions /\ fresh \in SUBSET Versions
    /\ \A g \in Groups :
        at[g] \in {"check", "download", "mark", "collect", "remove"} => lock[version[g]] = g

(* A group is given nothing but a complete and verified release, wherever  *)
(* the daemon died before and whoever downloads the same one beside it.    *)
(* The exception is a release that was chosen for removal: gcOldVersions   *)
(* takes no mutex but its own, and a removal that the daemon's end cut     *)
(* short may leave the marker (binary.go:52-65, 130-137).                  *)
ServedWhole ==
    \A g \in Groups :
        at[g] = "serving" => content[version[g]] = "whole" \/ version[g] \in condemned

(* What this run of the daemon has downloaded is not chosen for removal by *)
(* any of its groups, in whatever order their downloads end, unless they   *)
(* are more than the cache keeps (binary.go:96, 122-130).                  *)
FreshKept ==
    [][Cardinality(fresh) <= CacheKeepVersions => (condemned' \ condemned) \cap fresh = {}]_vars

(* A start comes to an end: every group serves, or the daemon's run is     *)
(* over.  No mutex is left behind, and one failure is enough to bring the  *)
(* others down, those that wait for a mutex included (controller.go:99-109)*)
StartSettles == up ~> (\A g \in Groups : at[g] = "serving") \/ ~up
=============================================================================
