--------------------------- MODULE BinariesProofs ---------------------------
(***************************************************************************)
(* Proofs about the cache of releases, for any number of groups and        *)
(* releases, any number of them kept, and a daemon that dies anywhere.     *)
(***************************************************************************)
EXTENDS Binaries, FiniteSetTheorems, TLAPS

(* A group in EnsureBits beyond the mutex.                                 *)
Inside == {"check", "download", "mark", "collect", "remove"}

(* Who is past the choice of a release has one, and only the removal of    *)
(* old ones has victims.                                                   *)
Chosen ==
    \A g \in Groups :
        /\ at[g] \in Inside \cup {"lock", "serving"} => version[g] \in Versions
        /\ victims[g] # {} => at[g] = "remove"

(* The part of the type invariant about what is kept on the disk.          *)
DiskTyped ==
    /\ content \in [Versions -> {"none", "part", "bad", "whole"}]
    /\ spoiled \in SUBSET Versions
    /\ DOMAIN markers \subseteq Versions /\ markers \in [DOMAIN markers -> SUBSET Versions]
    /\ condemned \in SUBSET Versions

(* A marker is not newer than itself.                                      *)
Ordered ==
    \A v \in DOMAIN markers : markers[v] \subseteq DOMAIN markers \ {v}

(* The markers set since the daemon started are the newest.                *)
FreshAreNewest == \A v \in DOMAIN markers \cap fresh : markers[v] \subseteq fresh

JustMarked ==
    \A g \in Groups : at[g] \in {"collect", "remove"} => version[g] \in fresh

(* A release that is downloaded has no marker.                             *)
Unmarked ==
    \A g \in Groups : at[g] \in {"download", "mark"} => ~Marked(version[g])

(* Whatever may have lost files was chosen for removal.                    *)
VictimsCondemned ==
    /\ \A g \in Groups : victims[g] \subseteq condemned
    /\ \A g \in Groups :
        at[g] = "download" /\ version[g] \in spoiled => version[g] \in condemned

Good(v) == content[v] = "whole" \/ v \in condemned
Kept(v) == (content[v] = "whole" /\ Marked(v)) \/ v \in condemned

MarkedWhole == \A v \in DOMAIN markers : Good(v)

(* What a group has finished keeps its files, and its marker with them.    *)
FinishedWhole ==
    \A g \in Groups :
        /\ at[g] = "mark" => Good(version[g])
        /\ at[g] \in {"collect", "remove", "serving"} => Kept(version[g])

Control == TypeOK /\ Chosen
Newest == Ordered /\ FreshAreNewest /\ JustMarked
Whole == Unmarked /\ VictimsCondemned /\ MarkedWhole /\ FinishedWhole

-----------------------------------------------------------------------------
(* Types, and the exclusion that the mutexes give.                         *)

LEMMA ControlInit == Init => Control
BY BinariesAssumption, ZenonT(60) DEF Init, Control, TypeOK, Chosen, Inside

LEMMA ControlIdle ==
    ASSUME Control, NEW step \in {"resolve", "ended"}, Idle(step), up' \in BOOLEAN, UNCHANGED disk
    PROVE  Control'
BY DEF Control, TypeOK, Chosen, Inside, Idle, disk

(* A return gives back the mutex of the group and no other.                *)
LEMMA ControlReturns ==
    ASSUME Control, NEW g \in Groups, NEW to \in {"serving", "ended"}, Returns(g, to),
           at[g] \in Inside \cup {"resolve"}, victims[g] = {},
           to = "serving" => at[g] \in Inside,
           cancelled' \in BOOLEAN, UNCHANGED <<up, version, victims, fresh>>, DiskTyped'
    PROVE  Control'
<1>1. \A h \in Groups : h # g => at'[h] = at[h]
    BY DEF Returns, Control, TypeOK
<1>2. at'[g] = to
    BY DEF Returns, Control, TypeOK
<1>3. ASSUME NEW h \in Groups, at'[h] \in Inside
      PROVE  lock'[version'[h]] = h
  <2>1. h # g
      BY <1>2, <1>3 DEF Inside
  <2>2. at[h] \in Inside /\ version[h] \in Versions /\ lock[version[h]] = h
      BY <1>1, <1>3, <2>1 DEF Control, TypeOK, Chosen, Inside
  <2> QED BY <2>1, <2>2 DEF Returns
<1>4. Chosen'
    BY <1>1, <1>2 DEF Control, Chosen, Inside
<1> QED BY <1>3, <1>4 DEF Control, TypeOK, Returns, Inside, DiskTyped

LEMMA WithoutTyped ==
    ASSUME Control, NEW v \in Versions
    PROVE  /\ DOMAIN Without(v) = DOMAIN markers \ {v}
           /\ Without(v) \in [DOMAIN Without(v) -> SUBSET Versions]
BY DEF Control, TypeOK, Without

(* An attempt that is given up ends the group and removes the directory.   *)
LEMMA ControlGivesUp ==
    ASSUME Control, NEW g \in Groups, GiveUp(g), at[g] \in {"check", "download", "mark"}
    PROVE  Control'
<1>1. version[g] \in Versions /\ victims[g] = {}
    BY DEF Control, Chosen, Inside
<1>2. content' \in [Versions -> {"none", "part", "bad", "whole"}]
    BY <1>1 DEF GiveUp, Control, TypeOK
<1>3. DOMAIN markers' \subseteq Versions /\ markers' \in [DOMAIN markers' -> SUBSET Versions]
  <2>1. DOMAIN markers \subseteq Versions
      BY DEF Control, TypeOK
  <2>2. markers' = Without(version[g])
      BY DEF GiveUp
  <2> QED BY <1>1, <2>1, <2>2, WithoutTyped
<1>4. DiskTyped'
    BY <1>2, <1>3 DEF GiveUp, Control, TypeOK, DiskTyped
<1> QED BY <1>1, <1>4, ControlReturns DEF GiveUp, Fails, Inside

LEMMA ControlStep == Control /\ [Next]_vars => Control'
<1> SUFFICES ASSUME Control, [Next]_vars PROVE Control'
    OBVIOUS
<1> USE BinariesAssumption
<1>d. DiskTyped
    BY DEF Control, TypeOK, DiskTyped
<1>1. ASSUME NEW g \in Groups, NEW v \in Versions, Resolve(g, v) PROVE Control'
    BY <1>1 DEF Resolve, Moves, Control, TypeOK, Chosen, Inside, disk
<1>2. ASSUME NEW g \in Groups, ResolveFails(g) PROVE Control'
  <2>1. victims[g] = {}
      BY <1>2 DEF ResolveFails, Control, Chosen
  <2> QED BY <1>2, <1>d, <2>1, ControlReturns DEF ResolveFails, Fails, disk, DiskTyped
<1>3. ASSUME NEW g \in Groups, Lock(g) PROVE Control'
  <2>1. version[g] \in Versions /\ at[g] = "lock"
      BY <1>3 DEF Lock, Moves, Control, Chosen
  <2>2. ASSUME NEW h \in Groups, at'[h] \in Inside PROVE lock'[version'[h]] = h
      BY <1>3, <2>1, <2>2 DEF Lock, Moves, Control, TypeOK, Chosen, Inside
  <2> QED BY <1>3, <2>1, <2>2 DEF Lock, Moves, Control, TypeOK, Chosen, Inside, disk
<1>4. ASSUME NEW g \in Groups, Cached(g) PROVE Control'
  <2>1. victims[g] = {}
      BY <1>4 DEF Cached, Control, Chosen
  <2> QED BY <1>4, <1>d, <2>1, ControlReturns DEF Cached, disk, DiskTyped, Inside, Control, TypeOK
<1>5. ASSUME NEW g \in Groups, Clear(g) PROVE Control'
    BY <1>5 DEF Clear, Moves, Control, TypeOK, Chosen, Inside
<1>6. ASSUME NEW g \in Groups, ClearFails(g) PROVE Control'
    BY <1>6, ControlGivesUp DEF ClearFails
<1>7. ASSUME NEW g \in Groups, NEW tarball \in {"good", "bad"}, Download(g, tarball)
      PROVE  Control'
    BY <1>7 DEF Download, Accepts, Moves, Control, TypeOK, Chosen, Inside
<1>8. ASSUME NEW g \in Groups, DownloadFails(g) PROVE Control'
    BY <1>8, ControlGivesUp DEF DownloadFails
<1>9. ASSUME NEW g \in Groups, Mark(g) PROVE Control'
  <2>1. version[g] \in Versions
      BY <1>9 DEF Mark, Moves, Control, Chosen, Inside
  <2>2. DiskTyped'
      BY <1>9, <2>1 DEF Mark, Control, TypeOK, DiskTyped
  <2> QED BY <1>9, <2>1, <2>2 DEF Mark, Moves, Control, TypeOK, DiskTyped, Chosen, Inside
<1>10. ASSUME NEW g \in Groups, MarkFails(g) PROVE Control'
    BY <1>10, ControlGivesUp DEF MarkFails
<1>11. ASSUME NEW g \in Groups, ListVictims(g) PROVE Control'
  <2>1. OldVersions(version[g]) \subseteq Versions
      BY DEF OldVersions, Control, TypeOK
  <2> QED BY <1>11, <2>1 DEF ListVictims, Moves, Control, TypeOK, Chosen, Inside
<1>12. ASSUME NEW g \in Groups, NEW v \in Versions, RemoveSome(g, v) PROVE Control'
  <2>1. DiskTyped'
      BY <1>12, WithoutTyped, ZenonT(60) DEF RemoveSome, Control, TypeOK, DiskTyped
  <2> QED BY <1>12, <2>1 DEF RemoveSome, Control, TypeOK, DiskTyped, Chosen, memory
<1>13. ASSUME NEW g \in Groups, NEW v \in Versions, RemoveRest(g, v) PROVE Control'
  <2>1. DiskTyped'
      BY <1>13, WithoutTyped DEF RemoveRest, Control, TypeOK, DiskTyped
  <2> QED BY <1>13, <2>1 DEF RemoveRest, Control, TypeOK, DiskTyped, Chosen, Inside
<1>14. ASSUME NEW g \in Groups, NEW v \in Versions, RemoveFails(g, v) PROVE Control'
    BY <1>14 DEF RemoveFails, Control, TypeOK, Chosen, Inside, disk
<1>15. ASSUME NEW g \in Groups, Collected(g) PROVE Control'
    BY <1>15, <1>d, ControlReturns DEF Collected, disk, DiskTyped, Inside, Control, TypeOK
<1>16. ASSUME NEW g \in Groups, GroupEnds(g) PROVE Control'
    BY <1>16 DEF GroupEnds, Moves, Control, TypeOK, Chosen, Inside, disk
<1>17. CASE Boots
    BY <1>17, ControlIdle DEF Boots
<1>18. CASE Cancel
    BY <1>18 DEF Cancel, Control, TypeOK, Chosen, disk
<1>19. CASE RunReturns
    BY <1>19, ControlIdle DEF RunReturns
<1>20. CASE Dies
    BY <1>20, ControlIdle DEF Dies
<1>21. CASE UNCHANGED vars
    BY <1>21 DEF vars, memory, disk, Control, TypeOK, Chosen
<1> QED BY <1>1, <1>2, <1>3, <1>4, <1>5, <1>6, <1>7, <1>8, <1>9, <1>10, <1>11, <1>12, <1>13,
           <1>14, <1>15, <1>16, <1>17, <1>18, <1>19, <1>20, <1>21 DEF Next, Prepares

(* Every variable has its type; between its lookup of the cache and its    *)
(* return a group holds the mutex of the release that it asks for.         *)
THEOREM BinariesTypeCorrect == Spec => []TypeOK
<1>1. Control => TypeOK
    BY DEF Control
<1> QED BY <1>1, ControlInit, ControlStep, PTL DEF Spec

-----------------------------------------------------------------------------
(* What the daemon has downloaded since it started is newer than anything  *)
(* else in the cache.                                                      *)

LEMMA NewestIdle ==
    ASSUME Newest, NEW step \in {"resolve", "ended"}, Idle(step), UNCHANGED markers
    PROVE  Newest'
BY DEF Newest, Ordered, FreshAreNewest, JustMarked, Idle

(* A marker that is removed leaves the others in their order.              *)
LEMMA NewestWithout ==
    ASSUME Newest, NEW v \in Versions, markers' \in {markers, Without(v)},
           UNCHANGED <<fresh, version>>,
           \A h \in Groups : at'[h] = at[h] \/ at'[h] \notin {"collect", "remove"}
    PROVE  Newest'
<1>1. Ordered' /\ FreshAreNewest'
  <2>1. CASE markers' = markers
      BY <2>1 DEF Newest, Ordered, FreshAreNewest
  <2>2. CASE markers' = Without(v)
      BY <2>2 DEF Newest, Ordered, FreshAreNewest, Without
  <2> QED BY <2>1, <2>2
<1>2. JustMarked'
    BY DEF Newest, JustMarked
<1> QED BY <1>1, <1>2 DEF Newest

LEMMA NewestSame ==
    ASSUME Newest, UNCHANGED <<markers, fresh>>,
           \A h \in Groups : (at'[h] = at[h] /\ version'[h] = version[h])
                            \/ at'[h] \notin {"collect", "remove"}
    PROVE  Newest'
BY DEF Newest, Ordered, FreshAreNewest, JustMarked

LEMMA NewestMarks ==
    ASSUME Control, Newest, NEW g \in Groups, Mark(g)
    PROVE  Newest'
<1> DEFINE w == version[g]
<1>1. w \in Versions /\ DOMAIN markers' = DOMAIN markers \cup {w} /\ fresh' = fresh \cup {w}
    BY DEF Mark, Moves, Control, Chosen, Inside
<1>2. markers'[w] = {}
    BY DEF Mark
<1>3. ASSUME NEW v \in DOMAIN markers, v # w
      PROVE  markers'[v] = markers[v] \cup {w}
    BY <1>3 DEF Mark
<1>4. Ordered' /\ FreshAreNewest'
    BY <1>1, <1>2, <1>3 DEF Newest, Ordered, FreshAreNewest
<1>5. JustMarked'
    BY <1>1 DEF Newest, JustMarked, Mark, Moves, Control, TypeOK
<1> QED BY <1>4, <1>5 DEF Newest

LEMMA NewestGivesUp ==
    ASSUME Control, Newest, NEW g \in Groups, GiveUp(g), at[g] \in {"check", "download", "mark"}
    PROVE  Newest'
<1>1. version[g] \in Versions
    BY DEF Control, Chosen, Inside
<1>2. \A h \in Groups : at'[h] = at[h] \/ at'[h] \notin {"collect", "remove"}
    BY DEF GiveUp, Fails, Returns, Control, TypeOK
<1> QED BY <1>1, <1>2, NewestWithout DEF GiveUp

LEMMA NewestStep == Control /\ Newest /\ [Next]_vars => Newest'
<1> SUFFICES ASSUME Control, Newest, [Next]_vars PROVE Newest'
    OBVIOUS
<1>1. ASSUME NEW g \in Groups, NEW v \in Versions, Resolve(g, v) PROVE Newest'
    BY <1>1, NewestSame DEF Resolve, Moves, Control, TypeOK, disk
<1>2. ASSUME NEW g \in Groups, ResolveFails(g) PROVE Newest'
    BY <1>2, NewestSame DEF ResolveFails, Fails, Returns, Control, TypeOK, disk
<1>3. ASSUME NEW g \in Groups, Lock(g) PROVE Newest'
    BY <1>3, NewestSame DEF Lock, Moves, Control, TypeOK, disk
<1>4. ASSUME NEW g \in Groups, Cached(g) PROVE Newest'
    BY <1>4, NewestSame DEF Cached, Returns, Control, TypeOK, disk
<1>5. ASSUME NEW g \in Groups, Clear(g) PROVE Newest'
    BY <1>5, NewestSame DEF Clear, Moves, Control, TypeOK
<1>6. ASSUME NEW g \in Groups, ClearFails(g) \/ DownloadFails(g) \/ MarkFails(g) PROVE Newest'
    BY <1>6, NewestGivesUp DEF ClearFails, DownloadFails, MarkFails
<1>7. ASSUME NEW g \in Groups, NEW tarball \in {"good", "bad"}, Download(g, tarball)
      PROVE  Newest'
    BY <1>7, NewestSame DEF Download, Moves, Control, TypeOK
<1>8. ASSUME NEW g \in Groups, Mark(g) PROVE Newest'
    BY <1>8, NewestMarks
<1>9. ASSUME NEW g \in Groups, ListVictims(g) PROVE Newest'
    BY <1>9 DEF ListVictims, Moves, Control, TypeOK, Newest, Ordered, FreshAreNewest, JustMarked
<1>10. ASSUME NEW g \in Groups, NEW v \in Versions, RemoveSome(g, v) PROVE Newest'
    BY <1>10, NewestWithout DEF RemoveSome, memory
<1>11. ASSUME NEW g \in Groups, NEW v \in Versions, RemoveRest(g, v) PROVE Newest'
    BY <1>11, NewestWithout DEF RemoveRest
<1>12. ASSUME NEW g \in Groups, NEW v \in Versions, RemoveFails(g, v) PROVE Newest'
    BY <1>12, NewestSame DEF RemoveFails, disk
<1>13. ASSUME NEW g \in Groups, Collected(g) PROVE Newest'
    BY <1>13, NewestSame DEF Collected, Returns, Control, TypeOK, disk
<1>14. ASSUME NEW g \in Groups, GroupEnds(g) PROVE Newest'
    BY <1>14, NewestSame DEF GroupEnds, Moves, Control, TypeOK, disk
<1>15. CASE Boots
    BY <1>15, NewestIdle DEF Boots, disk
<1>16. CASE Cancel
    BY <1>16, NewestSame DEF Cancel, disk
<1>17. CASE RunReturns
    BY <1>17, NewestIdle DEF RunReturns, disk
<1>18. CASE Dies
    BY <1>18, NewestIdle DEF Dies, disk
<1>19. CASE UNCHANGED vars
    BY <1>19, NewestSame DEF vars, memory, disk
<1> QED BY <1>1, <1>2, <1>3, <1>4, <1>5, <1>6, <1>7, <1>8, <1>9, <1>10, <1>11, <1>12, <1>13,
           <1>14, <1>15, <1>16, <1>17, <1>18, <1>19 DEF Next, Prepares

(* Whatever gcOldVersions would remove is older than every fresh release,  *)
(* its own among them, so that as many as the cache keeps are newer.       *)
LEMMA OldIsNotFresh ==
    ASSUME Control, Newest, NEW keep \in fresh, Cardinality(fresh) <= CacheKeepVersions
    PROVE  OldVersions(keep) \cap fresh = {}
<1> SUFFICES ASSUME NEW v \in OldVersions(keep), v \in fresh PROVE FALSE
    OBVIOUS
<1> DEFINE newer == markers[v] \ {keep}
<1>1. v \in DOMAIN markers /\ v # keep /\ Cardinality(newer) + 1 >= CacheKeepVersions
    BY DEF OldVersions
<1>2. newer \cup {v, keep} \subseteq fresh /\ v \notin newer /\ keep \notin newer
    BY <1>1 DEF Newest, Ordered, FreshAreNewest
<1>3. IsFiniteSet(fresh)
  <2>1. fresh \subseteq Versions
      BY Zenon DEF Control, TypeOK
  <2> QED BY <2>1, BinariesAssumption, FS_Subset, ZenonT(60)
<1>4. IsFiniteSet(newer) /\ Cardinality(newer) \in Nat
    BY <1>2, <1>3, FS_Subset, FS_CardinalityType
<1>5. IsFiniteSet(newer \cup {v}) /\ Cardinality(newer \cup {v}) = Cardinality(newer) + 1
    BY <1>2, <1>4, FS_AddElement
<1>6. Cardinality((newer \cup {v}) \cup {keep}) = Cardinality(newer) + 2
  <2> HIDE DEF newer
  <2>1. keep \notin newer \cup {v}
      BY <1>1, <1>2
  <2>2. Cardinality((newer \cup {v}) \cup {keep}) = Cardinality(newer \cup {v}) + 1
      BY <1>5, <2>1, FS_AddElement
  <2> QED BY <1>4, <1>5, <2>2, SMT
<1>7. (newer \cup {v}) \cup {keep} \subseteq fresh
    BY <1>2
<1>8. Cardinality(newer) + 2 <= Cardinality(fresh)
    BY <1>3, <1>6, <1>7, FS_Subset
<1>9. Cardinality(fresh) \in Nat
    BY <1>3, FS_CardinalityType
<1> QED BY <1>1, <1>4, <1>8, <1>9, BinariesAssumption

(* Nothing but the choice of a gcOldVersions condemns a release.           *)
LEMMA OnlyListed ==
    ASSUME Control, [Next]_vars, ~(condemned' \subseteq condemned)
    PROVE  \E g \in Groups :
              at[g] = "collect" /\ condemned' \subseteq condemned \cup OldVersions(version[g])
<1>1. PICK g \in Groups : ListVictims(g)
    BY DEF Next, Prepares, vars, memory, disk, Resolve, ResolveFails, Fails, Returns, Lock,
           Cached, Clear, ClearFails, GiveUp, Download, DownloadFails, Mark, MarkFails,
           RemoveSome, RemoveRest, RemoveFails, Collected, GroupEnds, Boots, Cancel,
           RunReturns, Dies, Idle
<1> QED BY <1>1 DEF ListVictims, Moves

(* What the daemon has just downloaded is not removed by any of its        *)
(* groups, for every number of groups and of releases kept.                *)
THEOREM FreshReleasesKept == Spec => FreshKept
<1>1. Init => Newest
    BY DEF Init, Newest, Ordered, FreshAreNewest, JustMarked
<1>2. Control /\ Newest /\ [Next]_vars =>
          [Cardinality(fresh) <= CacheKeepVersions => (condemned' \ condemned) \cap fresh = {}]_vars
  <2> SUFFICES ASSUME Control, Newest, [Next]_vars, Cardinality(fresh) <= CacheKeepVersions
               PROVE  (condemned' \ condemned) \cap fresh = {}
      OBVIOUS
  <2>1. CASE condemned' \subseteq condemned
      BY <2>1
  <2>2. CASE ~(condemned' \subseteq condemned)
    <3>1. PICK g \in Groups :
             at[g] = "collect" /\ condemned' \subseteq condemned \cup OldVersions(version[g])
        BY <2>2, OnlyListed
    <3>2. version[g] \in fresh
        BY <3>1 DEF Newest, JustMarked
    <3> QED BY <3>1, <3>2, OldIsNotFresh
  <2> QED BY <2>1, <2>2
<1> QED BY <1>1, <1>2, ControlInit, ControlStep, NewestStep, PTL DEF Spec, FreshKept

-----------------------------------------------------------------------------
(* A release that a group is given is whole.                               *)

(* Two groups are never beyond the mutex of one release.                   *)
LEMMA Alone ==
    ASSUME Control, NEW g \in Groups, NEW h \in Groups, version[h] = version[g],
           at[g] \in Inside, at[h] \in Inside
    PROVE  h = g
BY DEF Control, TypeOK, Inside

LEMMA WholeIdle ==
    ASSUME Control, Whole, NEW step \in {"resolve", "ended"}, Idle(step), UNCHANGED disk
    PROVE  Whole'
BY DEF Whole, Unmarked, VictimsCondemned, MarkedWhole, FinishedWhole, Good, Kept, Marked,
       Idle, disk

(* Nothing on the disk changes, and the group comes no further, or it has  *)
(* finished the release.                                                   *)
LEMMA WholeMoves ==
    ASSUME Control, Whole, NEW g \in Groups, NEW to, UNCHANGED <<victims, disk>>,
           at' = [at EXCEPT ![g] = to],
           \A h \in Groups : h # g => version'[h] = version[h],
           \/ to \in {"lock", "check", "ended"}
           \/ to = "serving" /\ Kept(version'[g])
    PROVE  Whole'
<1>1. \A h \in Groups : h # g => at'[h] = at[h]
    BY DEF Control, TypeOK
<1>2. at'[g] = to
    BY DEF Control, TypeOK
<1> QED BY <1>1, <1>2 DEF Whole, Unmarked, VictimsCondemned, MarkedWhole, FinishedWhole, Good,
           Kept, Marked, disk

LEMMA WholeClear ==
    ASSUME Control, Whole, NEW g \in Groups, Clear(g)
    PROVE  Whole'
<1> DEFINE w == version[g]
<1>1. w \in Versions /\ at[g] = "check" /\ w \notin DOMAIN markers
    BY DEF Clear, Moves, Control, Chosen, Inside, HasBits, Marked
<1>2. at'[g] = "download" /\ \A h \in Groups : h # g => at'[h] = at[h]
    BY DEF Clear, Moves, Control, TypeOK
<1>3. \A h \in Groups : h # g /\ at[h] \in Inside => version[h] # w
    BY <1>1, Alone DEF Inside
<1>4. \A v \in Versions : v # w =>
          content'[v] = content[v] /\ (v \in condemned' <=> v \in condemned)
    BY DEF Clear, Control, TypeOK
<1>5. ASSUME NEW h \in Groups, w \in victims[h] PROVE w \in condemned'
    BY <1>5 DEF Clear, BeingRemoved, Whole, VictimsCondemned
<1>6. ASSUME NEW h \in Groups, at[h] = "serving", version[h] = w PROVE w \in condemned'
    BY <1>1, <1>6 DEF Clear, Served, Whole, FinishedWhole, Kept, Marked
<1>7. Unmarked'
    BY <1>1, <1>2 DEF Clear, Whole, Unmarked, Marked
<1>8. VictimsCondemned'
  <2>1. ASSUME NEW h \in Groups PROVE victims[h] \subseteq condemned'
      BY <1>4, <1>5 DEF Whole, VictimsCondemned, Control, TypeOK
  <2>2. ASSUME NEW h \in Groups, at'[h] = "download", version[h] \in spoiled'
        PROVE  version[h] \in condemned'
    <3>1. h # g /\ version[h] # w
        BY <2>2, <1>2, <1>3 DEF Clear, Inside
    <3>2. version[h] \in condemned
        BY <2>2, <3>1, <1>2 DEF Clear, Whole, VictimsCondemned
    <3> QED BY <3>1, <3>2, <1>4 DEF Control, TypeOK
  <2> QED BY <2>1, <2>2 DEF VictimsCondemned, Clear
<1>9. MarkedWhole'
    BY <1>1, <1>4 DEF Clear, Whole, MarkedWhole, Good, Control, TypeOK
<1>10. FinishedWhole'
  <2>1. ASSUME NEW h \in Groups, at'[h] \in {"mark", "collect", "remove"}
        PROVE  h # g /\ version[h] \in Versions /\ version[h] # w
      BY <2>1, <1>2, <1>3 DEF Control, Chosen, Inside
  <2>2. ASSUME NEW h \in Groups, at'[h] = "mark" PROVE Good(version[h])'
      BY <2>1, <2>2, <1>2, <1>4 DEF Clear, Whole, FinishedWhole, Good
  <2>3. ASSUME NEW h \in Groups, at'[h] \in {"collect", "remove"} PROVE Kept(version[h])'
      BY <2>1, <2>3, <1>2, <1>4 DEF Clear, Whole, FinishedWhole, Kept, Marked
  <2>4. ASSUME NEW h \in Groups, at'[h] = "serving" PROVE Kept(version[h])'
    <3>1. at[h] = "serving" /\ version[h] \in Versions
        BY <2>4, <1>2 DEF Control, Chosen
    <3>2. CASE version[h] = w
        BY <3>1, <3>2, <1>6 DEF Kept, Clear
    <3>3. CASE version[h] # w
        BY <3>1, <3>3, <1>4 DEF Clear, Whole, FinishedWhole, Kept, Marked
    <3> QED BY <3>2, <3>3
  <2> QED BY <2>2, <2>3, <2>4 DEF FinishedWhole
<1> QED BY <1>7, <1>8, <1>9, <1>10 DEF Whole

(* A release that is given up had no marker, or was condemned.             *)
LEMMA WholeGivesUp ==
    ASSUME Control, Whole, NEW g \in Groups, GiveUp(g), at[g] \in {"check", "download", "mark"},
           ~Marked(version[g])
    PROVE  Whole'
<1> DEFINE w == version[g]
<1>1. w \in Versions /\ w \notin DOMAIN markers
    BY DEF Control, Chosen, Inside, Marked
<1>2. at'[g] = "ended" /\ \A h \in Groups : h # g => at'[h] = at[h]
    BY DEF GiveUp, Fails, Returns, Control, TypeOK
<1>3. \A h \in Groups : h # g /\ at[h] \in Inside => version[h] # w
    BY Alone DEF Inside
<1>4. \A v \in Versions : v # w => content'[v] = content[v]
    BY DEF GiveUp, Control, TypeOK
<1>5. markers' = Without(w)
    BY DEF GiveUp
<1>6. DOMAIN markers' = DOMAIN markers
    BY <1>1, <1>5 DEF Without
<1>7. Unmarked' /\ VictimsCondemned'
    BY <1>2, <1>6 DEF GiveUp, Whole, Unmarked, VictimsCondemned, Marked
<1>8. MarkedWhole'
    BY <1>1, <1>4, <1>6 DEF GiveUp, Whole, MarkedWhole, Good, Control, TypeOK
<1>9. FinishedWhole'
  <2>1. ASSUME NEW h \in Groups, at'[h] \in {"mark", "collect", "remove", "serving"}
        PROVE  version[h] \in Versions /\ (version[h] # w \/ w \in condemned)
    <3>1. at[h] \in {"mark", "collect", "remove", "serving"} /\ h # g
        BY <2>1, <1>2
    <3>2. CASE at[h] = "serving"
        BY <3>1, <3>2, <1>1 DEF Control, Chosen, Whole, FinishedWhole, Kept, Marked
    <3>3. CASE at[h] # "serving"
        BY <3>1, <3>3, <1>3 DEF Control, Chosen, Inside
    <3> QED BY <3>2, <3>3
  <2>2. ASSUME NEW h \in Groups, at'[h] = "mark" PROVE Good(version[h])'
      BY <2>1, <2>2, <1>2, <1>4 DEF GiveUp, Whole, FinishedWhole, Good
  <2>3. ASSUME NEW h \in Groups, at'[h] \in {"collect", "remove", "serving"}
        PROVE  Kept(version[h])'
      BY <2>1, <2>3, <1>2, <1>4, <1>6 DEF GiveUp, Whole, FinishedWhole, Kept, Marked
  <2> QED BY <2>2, <2>3 DEF FinishedWhole
<1> QED BY <1>7, <1>8, <1>9 DEF Whole

LEMMA WholeDownload ==
    ASSUME Control, Whole, NEW g \in Groups, NEW tarball \in {"good", "bad"}, Download(g, tarball)
    PROVE  Whole'
<1> DEFINE w == version[g]
<1>1. w \in Versions /\ w \notin DOMAIN markers /\ at[g] = "download"
    BY DEF Download, Moves, Control, Chosen, Inside, Whole, Unmarked, Marked
<1>2. at'[g] = "mark" /\ \A h \in Groups : h # g => at'[h] = at[h]
    BY DEF Download, Moves, Control, TypeOK
<1>3. \A h \in Groups : h # g /\ at[h] \in Inside => version[h] # w
    BY <1>1, Alone DEF Inside
<1>4. \A v \in Versions : v # w => content'[v] = content[v]
    BY DEF Download, Control, TypeOK
<1>5. content'[w] = "whole" \/ w \in condemned
    BY <1>1 DEF Download, Accepts, Control, TypeOK, Whole, VictimsCondemned
<1>6. Unmarked' /\ VictimsCondemned'
    BY <1>1, <1>2 DEF Download, Whole, Unmarked, VictimsCondemned, Marked
<1>7. MarkedWhole'
    BY <1>1, <1>4 DEF Download, Whole, MarkedWhole, Good, Control, TypeOK
<1>8. FinishedWhole'
  <2>1. ASSUME NEW h \in Groups, at'[h] = "mark" PROVE Good(version[h])'
    <3>1. CASE h = g
        BY <3>1, <1>5 DEF Download, Good
    <3>2. CASE h # g
        BY <3>2, <2>1, <1>2, <1>3, <1>4
           DEF Download, Whole, FinishedWhole, Good, Control, Chosen, Inside
    <3> QED BY <3>1, <3>2
  <2>2. ASSUME NEW h \in Groups, at'[h] \in {"collect", "remove"} PROVE Kept(version[h])'
      BY <2>2, <1>2, <1>3, <1>4
         DEF Download, Whole, FinishedWhole, Kept, Marked, Control, Chosen, Inside
  <2>3. ASSUME NEW h \in Groups, at'[h] = "serving" PROVE Kept(version[h])'
      BY <2>3, <1>1, <1>2, <1>4
         DEF Download, Whole, FinishedWhole, Kept, Marked, Control, Chosen
  <2> QED BY <2>1, <2>2, <2>3 DEF FinishedWhole
<1> QED BY <1>6, <1>7, <1>8 DEF Whole

LEMMA WholeMark ==
    ASSUME Control, Whole, NEW g \in Groups, Mark(g)
    PROVE  Whole'
<1> DEFINE w == version[g]
<1>1. w \in Versions /\ Good(w) /\ DOMAIN markers' = DOMAIN markers \cup {w}
    BY DEF Mark, Moves, Control, Chosen, Inside, Whole, FinishedWhole
<1>2. at'[g] = "collect" /\ \A h \in Groups : h # g => at'[h] = at[h]
    BY DEF Mark, Moves, Control, TypeOK
<1>3. \A h \in Groups : h # g /\ at[h] \in Inside => version[h] # w
    BY Alone DEF Inside, Mark, Moves
<1>4. Unmarked' /\ VictimsCondemned'
    BY <1>1, <1>2, <1>3 DEF Mark, Whole, Unmarked, VictimsCondemned, Marked, Inside
<1>5. MarkedWhole'
    BY <1>1 DEF Mark, Whole, MarkedWhole, Good
<1>6. FinishedWhole'
    BY <1>1, <1>2 DEF Mark, Whole, FinishedWhole, Good, Kept, Marked
<1> QED BY <1>4, <1>5, <1>6 DEF Whole

LEMMA WholeListVictims ==
    ASSUME Control, Whole, NEW g \in Groups, ListVictims(g)
    PROVE  Whole'
<1>1. PICK chosen : victims' = [victims EXCEPT ![g] = chosen] /\ condemned' = condemned \cup chosen
    BY DEF ListVictims
<1>2. at[g] = "collect" /\ at'[g] = "remove" /\ \A h \in Groups : h # g => at'[h] = at[h]
    BY DEF ListVictims, Moves, Control, TypeOK
<1>3. Unmarked' /\ VictimsCondemned'
    BY <1>1, <1>2 DEF ListVictims, Whole, Unmarked, VictimsCondemned, Marked, Control, TypeOK
<1>4. MarkedWhole'
    BY <1>1 DEF ListVictims, Whole, MarkedWhole, Good
<1>5. FinishedWhole'
    BY <1>1, <1>2 DEF ListVictims, Whole, FinishedWhole, Good, Kept, Marked
<1> QED BY <1>3, <1>4, <1>5 DEF Whole

(* The removal of a release, in whatever pieces, costs only a condemned one*)
LEMMA WholeRemoves ==
    ASSUME Control, Whole, NEW v \in condemned, NEW left \in {"none", "part"},
           content' = [content EXCEPT ![v] = left],
           markers' \in {markers, Without(v)},
           spoiled' \subseteq spoiled \cup {v},
           \A h \in Groups : victims'[h] \subseteq victims[h],
           UNCHANGED <<at, version, condemned>>
    PROVE  Whole'
<1>1. \A u \in Versions : u # v => content'[u] = content[u]
    BY DEF Control, TypeOK
<1>2. DOMAIN markers' \subseteq DOMAIN markers /\ \A u \in DOMAIN markers : u # v => u \in DOMAIN markers'
    BY DEF Without
<1>3. Unmarked' /\ VictimsCondemned'
    BY <1>2 DEF Whole, Unmarked, VictimsCondemned, Marked
<1>4. MarkedWhole'
    BY <1>1, <1>2 DEF Whole, MarkedWhole, Good, Control, TypeOK
<1>5. FinishedWhole'
    BY <1>1, <1>2 DEF Whole, FinishedWhole, Good, Kept, Marked, Control, Chosen, Inside
<1> QED BY <1>3, <1>4, <1>5 DEF Whole

LEMMA WholeStep == Control /\ Whole /\ [Next]_vars => Whole'
<1> SUFFICES ASSUME Control, Whole, [Next]_vars PROVE Whole'
    OBVIOUS
<1>1. ASSUME NEW g \in Groups, NEW v \in Versions, Resolve(g, v) PROVE Whole'
    BY <1>1, WholeMoves DEF Resolve, Moves, Control, TypeOK
<1>2. ASSUME NEW g \in Groups, ResolveFails(g) PROVE Whole'
    BY <1>2, WholeMoves DEF ResolveFails, Fails, Returns
<1>3. ASSUME NEW g \in Groups, Lock(g) PROVE Whole'
    BY <1>3, WholeMoves DEF Lock, Moves
<1>4. ASSUME NEW g \in Groups, Cached(g) PROVE Whole'
  <2>1. Kept(version'[g])
      BY <1>4 DEF Cached, HasBits, Marked, Whole, MarkedWhole, Good, Kept
  <2> QED BY <1>4, <2>1, WholeMoves DEF Cached, Returns
<1>5. ASSUME NEW g \in Groups, Clear(g) PROVE Whole'
    BY <1>5, WholeClear
<1>6. ASSUME NEW g \in Groups, ClearFails(g) \/ DownloadFails(g) PROVE Whole'
    BY <1>6, WholeGivesUp DEF ClearFails, DownloadFails, HasBits, Whole, Unmarked
<1>7. ASSUME NEW g \in Groups, NEW tarball \in {"good", "bad"}, Download(g, tarball)
      PROVE  Whole'
    BY <1>7, WholeDownload
<1>8. ASSUME NEW g \in Groups, Mark(g) PROVE Whole'
    BY <1>8, WholeMark
<1>9. ASSUME NEW g \in Groups, MarkFails(g) PROVE Whole'
    BY <1>9, WholeGivesUp DEF MarkFails, Whole, Unmarked
<1>10. ASSUME NEW g \in Groups, ListVictims(g) PROVE Whole'
    BY <1>10, WholeListVictims
<1>11. ASSUME NEW g \in Groups, NEW v \in Versions, RemoveSome(g, v) PROVE Whole'
    BY <1>11, WholeRemoves DEF RemoveSome, memory, Whole, VictimsCondemned
<1>12. ASSUME NEW g \in Groups, NEW v \in Versions, RemoveRest(g, v) PROVE Whole'
    BY <1>12, WholeRemoves DEF RemoveRest, Whole, VictimsCondemned, Control, TypeOK
<1>13. ASSUME NEW g \in Groups, NEW v \in Versions, RemoveFails(g, v) PROVE Whole'
    BY <1>13 DEF RemoveFails, disk, Control, TypeOK, Whole, Unmarked, VictimsCondemned,
       MarkedWhole, FinishedWhole, Good, Kept, Marked
<1>14. ASSUME NEW g \in Groups, Collected(g) PROVE Whole'
    BY <1>14, WholeMoves DEF Collected, Returns, Whole, FinishedWhole
<1>15. ASSUME NEW g \in Groups, GroupEnds(g) PROVE Whole'
    BY <1>15, WholeMoves DEF GroupEnds, Moves
<1>16. CASE Boots
    BY <1>16, WholeIdle DEF Boots
<1>17. CASE RunReturns
    BY <1>17, WholeIdle DEF RunReturns
<1>18. CASE Dies
    BY <1>18, WholeIdle DEF Dies
<1>19. CASE Cancel \/ UNCHANGED vars
    BY <1>19 DEF Cancel, vars, memory, disk, Whole, Unmarked, VictimsCondemned,
       MarkedWhole, FinishedWhole, Good, Kept, Marked
<1> QED BY <1>1, <1>2, <1>3, <1>4, <1>5, <1>6, <1>7, <1>8, <1>9, <1>10, <1>11, <1>12, <1>13,
           <1>14, <1>15, <1>16, <1>17, <1>18, <1>19 DEF Next, Prepares

(* Every group is given a whole and verified release, or one that a        *)
(* removal of old ones had chosen, wherever the daemon died before.        *)
THEOREM ReleasesServedWhole == Spec => []ServedWhole
<1>1. Init => Whole
    BY DEF Init, Whole, Unmarked, VictimsCondemned, MarkedWhole, FinishedWhole, Good, Kept, Marked
<1>2. Whole => ServedWhole
    BY DEF Whole, FinishedWhole, Kept, ServedWhole
<1> QED BY <1>1, <1>2, ControlInit, ControlStep, WholeStep, PTL DEF Spec
=============================================================================
