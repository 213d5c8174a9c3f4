---------------------------- MODULE ArchiveProofs ----------------------------
(***************************************************************************)
(* The removal of the high-frequency files implements VerifiedRemoval, for *)
(* every set of files and days, any number of removals that outlive their  *)
(* runs and any number of mishaps.  A removal is asked for a list that the *)
(* NAS holds, and what a removal has renamed is that list, because the day *)
(* does not change while the removal has the lock.                         *)
(* The removal of redacted bundles implements it too, but for the bundles  *)
(* that are packed while their day is being removed (unseen).              *)
(* The rollup of the trades counts each once and for all, and only trades  *)
(* that a rollup had in its window leave for the cold files.               *)
(***************************************************************************)
EXTENDS HighFrequencyArchive, RedactedArchive, MarketRollup, Integers, TLAPS

\* A day has the files that were written on it.
OfItsDay == \A d \in Days : \A f \in dayFiles[d] : FileDay[f] = d

\* What is asked for is on the NAS.
AskedIsArchived ==
    /\ pull.at \in {"ask", "asked"} => pull.list \subseteq OnNas
    /\ \A p \in Pruners :
          prunes[p].at \in {"lock", "check", "rename"} => prunes[p].list \subseteq OnNas

\* A removal that has compared the day is the only one that changes it.
UnderLock ==
    \A p \in Pruners :
       /\ prunes[p].at \in {"check", "rename", "remove"} => heavyLock = p
       /\ prunes[p].at = "rename" => SameList(p)

\* A tombstone has what is left of its day; nobody else does anything with it.
TombstoneArchived ==
    \A p \in Pruners :
       /\ prunes[p].at \notin {"remove", "dead"} => tombstones[p] = {}
       /\ prunes[p].at = "remove" =>
             /\ dayFiles[prunes[p].day] = {}
             /\ \A f \in tombstones[p] : FileDay[f] = prunes[p].day /\ f \in OnNas

ArchiveInv == ArchiveTypeOK /\ OfItsDay /\ AskedIsArchived /\ UnderLock /\ TombstoneArchived

\* The records of the model, and what a step makes of them.
LEMMA BatchUpdated ==
  ASSUME NEW b \in Batches, NEW files \in SUBSET HotFiles
  PROVE  [b EXCEPT !.files = files] \in Batches
BY DEF Batches

LEMMA PruneUpdated ==
  ASSUME NEW q \in Prunes, NEW at \in {"none", "lock", "check", "rename", "remove", "dead"}
  PROVE  [q EXCEPT !.at = at] \in Prunes /\ [q EXCEPT !.at = at].day = q.day
BY DEF Prunes

LEMMA PullBegun ==
  ASSUME ArchiveTypeOK, NEW d \in pull.days, NEW at \in {"compare", "copy"}
  PROVE  Begun(d, at) \in Pulls /\ Begun(d, at).day \in Days
<1>1. d \in Days /\ d \in Nat /\ pull.days \ {d} \in SUBSET Days
  BY ArchiveAssumption DEF ArchiveTypeOK, Days, Pulls
<1>2. QED
  BY <1>1 DEF ArchiveTypeOK, Begun, Pulls

\* What an answer, or a refusal, makes of the run.
LEMMA AnsweredPull ==
  ASSUME ArchiveTypeOK, NEW p \in Pruners, Answered(p) \/ Refused(p)
  PROVE  pull' = pull \/ (pull' \in Pulls /\ pull'.at \in {"idle", "list"})
<1>1. NoPull \in Pulls
  BY DEF NoPull, Pulls
<1>2. [NoPull EXCEPT !.at = "list", !.days = pull.days] \in Pulls
  BY DEF ArchiveTypeOK, NoPull, Pulls
<1>3. [NoPull EXCEPT !.at = "list", !.days = pull.days].at = "list" /\ NoPull.at = "idle"
  BY DEF NoPull
<1>4. pull' \in {pull, NoPull, [NoPull EXCEPT !.at = "list", !.days = pull.days]}
  BY DEF Answered, Refused, PullEnds, NextDay
<1>5. QED
  BY <1>1, <1>2, <1>3, <1>4

LEMMA ArchiveInvInit == ArchiveInit => ArchiveInv
<1> SUFFICES ASSUME ArchiveInit PROVE ArchiveInv
  OBVIOUS
<1> USE ArchiveAssumption DEF ArchiveInit, NoPull, NoPrune
<1>1. ArchiveTypeOK
  <2>1. NoPull \in Pulls /\ NoPrune \in Prunes
    BY DEF Pulls, Prunes
  <2>2. 1 \in Days
    BY DEF Days
  <2>3. QED
    BY <2>1, <2>2 DEF ArchiveTypeOK
<1>2. OfItsDay /\ AskedIsArchived /\ UnderLock /\ TombstoneArchived
  BY DEF OfItsDay, AskedIsArchived, UnderLock, TombstoneArchived
<1>3. QED
  BY <1>1, <1>2 DEF ArchiveInv

LEMMA ArchiveTypeStep == ArchiveTypeOK /\ [ArchiveNext]_archiveVars => ArchiveTypeOK'
<1> SUFFICES ASSUME ArchiveTypeOK, [ArchiveNext]_archiveVars PROVE ArchiveTypeOK'
  OBVIOUS
<1> USE ArchiveAssumption DEF ArchiveTypeOK, Days, NoPull, NoPrune, PullEnds, NextDay, Mishap,
        cloudFiles, nasFiles
<1>1. CASE UNCHANGED archiveVars
  BY <1>1 DEF archiveVars
<1>2. CASE DayPasses
  BY <1>2 DEF DayPasses
<1>3. CASE ScriptRuns
  BY <1>3 DEF ScriptRuns
<1>4. ASSUME NEW f \in HotFiles, MoveToArchive(f) PROVE ArchiveTypeOK'
  BY <1>4 DEF MoveToArchive
<1>5. CASE StartPull
  BY <1>5 DEF StartPull, Pulls
<1>6. CASE TakeList
  <2>1. CASE pull.days = {}
    BY <1>6, <2>1 DEF TakeList, Pulls
  <2>2. ASSUME NEW d \in pull.days,
               \/ pull' = NoPull /\ stages' = stages
               \/ \E at \in {"compare", "copy"} :
                     /\ pull' = Begun(d, at)
                     /\ stages' \subseteq stages \cup {[day |-> d, list |-> dayFiles[d], files |-> {}]}
        PROVE  ArchiveTypeOK'
    <3>1. [day |-> d, list |-> dayFiles[d], files |-> {}] \in Batches
      BY DEF Batches, Pulls
    <3>2. pull' \in Pulls /\ (pull'.at # "idle" => pull'.day \in Days)
      BY <2>2, PullBegun DEF Pulls
    <3>3. QED
      BY <1>6, <2>2, <3>1, <3>2 DEF TakeList
  <2>3. QED
    BY <1>6, <2>1, <2>2 DEF TakeList
<1>7. ASSUME NEW f \in HotFiles, CopyFile(f) PROVE ArchiveTypeOK'
  <2>1. PICK s \in stages : stages' = (stages \ {s}) \cup {[s EXCEPT !.files = @ \cup {f}]}
    BY <1>7 DEF CopyFile, Stage
  <2>2. [s EXCEPT !.files = @ \cup {f}] \in Batches
    <3>1. s \in Batches /\ s.files \cup {f} \in SUBSET HotFiles
      BY <2>1 DEF Batches
    <3>2. QED
      BY <3>1, BatchUpdated
  <2>3. QED
    BY <1>7, <2>1, <2>2 DEF CopyFile
<1>8. CASE CopyFails
  BY <1>8 DEF CopyFails, Pulls
<1>9. CASE FinishBatch
  BY <1>9 DEF FinishBatch, Stage, Pulls
<1>10. CASE CompareBatch
  <2>1. pull' = [pull EXCEPT !.at = "ask"] \/ pull' = NoPull
    BY <1>10 DEF CompareBatch
  <2>2. pull' \in Pulls /\ (pull'.at = "ask" => pull'.day \in Days) /\ pull'.at \in {"ask", "idle"}
    BY <1>10, <2>1 DEF CompareBatch, Pulls
  <2>3. QED
    BY <1>10, <2>2 DEF CompareBatch
<1>11. ASSUME NEW p \in Pruners, AskToPrune(p) PROVE ArchiveTypeOK'
  BY <1>11 DEF AskToPrune, Pulls, Prunes
<1>12. CASE PullStops
  BY <1>12 DEF PullStops, Pulls
<1>13. ASSUME NEW f \in HotFiles, CopyDamaged(f) PROVE ArchiveTypeOK'
  <2>1. PICK b \in batches : batches' = (batches \ {b}) \cup {[b EXCEPT !.files = @ \ {f}]}
    BY <1>13 DEF CopyDamaged
  <2>2. [b EXCEPT !.files = @ \ {f}] \in Batches
    <3>1. b \in Batches /\ b.files \ {f} \in SUBSET HotFiles
      BY <2>1 DEF Batches
    <3>2. QED
      BY <3>1, BatchUpdated
  <2>3. QED
    <3>1. batches' \subseteq Batches
      BY <2>1, <2>2
    <3>2. QED
      BY <1>13, <3>1 DEF CopyDamaged
<1>14. ASSUME NEW p \in Pruners, PruneLocks(p) PROVE ArchiveTypeOK'
  BY <1>14 DEF PruneLocks, Prunes
<1>15. ASSUME NEW p \in Pruners, PruneLockTimeout(p) PROVE ArchiveTypeOK'
  <2>1. pull' = pull \/ (pull' \in Pulls /\ pull'.at \in {"idle", "list"})
    BY <1>15, AnsweredPull DEF PruneLockTimeout
  <2>2. prunes' \in [Pruners -> Prunes]
    BY <1>15 DEF PruneLockTimeout, PruneEnds, Prunes
  <2>3. QED
    BY <1>15, <2>1, <2>2 DEF PruneLockTimeout, PruneEnds, Unlocked
<1>16. ASSUME NEW p \in Pruners, PruneChecks(p) PROVE ArchiveTypeOK'
  <2>1. pull' = pull \/ (pull' \in Pulls /\ pull'.at \in {"idle", "list"})
    BY <1>16, AnsweredPull DEF PruneChecks
  <2>2. [prunes[p] EXCEPT !.at = "rename"] \in Prunes /\ NoPrune \in Prunes
    BY PruneUpdated DEF Prunes
  <2>3. prunes' = [prunes EXCEPT ![p] = [prunes[p] EXCEPT !.at = "rename"]] \/ prunes' = [prunes EXCEPT ![p] = NoPrune]
    BY <1>16 DEF PruneChecks, PruneEnds
  <2>4. prunes[p].day \in Days /\ [prunes[p] EXCEPT !.at = "rename"].day = prunes[p].day
    BY <1>16 DEF PruneChecks, Prunes
  <2>5. prunes' \in [Pruners -> Prunes]
    BY <2>2, <2>3
  <2>6. \A q \in Pruners : prunes'[q].at \notin {"none", "dead"} => prunes'[q].day \in Days
    <3>1. CASE prunes' = [prunes EXCEPT ![p] = NoPrune]
      BY <3>1
    <3>2. CASE prunes' = [prunes EXCEPT ![p] = [prunes[p] EXCEPT !.at = "rename"]]
      BY <2>4, <3>2
    <3>3. QED
      BY <2>3, <3>1, <3>2
  <2>7. heavyLock' \in Pruners \cup {"script", "nobody"}
    BY <1>16 DEF PruneChecks, Unlocked
  <2>8. QED
    BY <1>16, <2>1, <2>5, <2>6, <2>7 DEF PruneChecks
<1>17. ASSUME NEW p \in Pruners, PruneRenames(p) PROVE ArchiveTypeOK'
  BY <1>17 DEF PruneRenames, Prunes
<1>18. ASSUME NEW p \in Pruners, NEW f \in HotFiles, PruneRemoves(p, f) PROVE ArchiveTypeOK'
  BY <1>18 DEF PruneRemoves
<1>19. ASSUME NEW p \in Pruners, PruneDone(p) PROVE ArchiveTypeOK'
  <2>1. pull' = pull \/ (pull' \in Pulls /\ pull'.at \in {"idle", "list"})
    BY <1>19, AnsweredPull DEF PruneDone
  <2>2. prunes' \in [Pruners -> Prunes]
    BY <1>19 DEF PruneDone, PruneEnds, Prunes
  <2>3. QED
    BY <1>19, <2>1, <2>2 DEF PruneDone, PruneEnds, Unlocked
<1>20. ASSUME NEW p \in Pruners, RemovalFails(p) PROVE ArchiveTypeOK'
  <2>1. pull' = pull \/ (pull' \in Pulls /\ pull'.at \in {"idle", "list"})
    BY <1>20, AnsweredPull DEF RemovalFails
  <2>2. prunes' \in [Pruners -> Prunes]
    BY <1>20 DEF RemovalFails, PruneEnds, Prunes
  <2>3. QED
    <3>1. dayFiles' \in [Days -> SUBSET HotFiles] /\ tombstones' \in [Pruners -> SUBSET HotFiles]
      BY <1>20 DEF RemovalFails
    <3>2. heavyLock' \in Pruners \cup {"script", "nobody"}
      BY <1>20 DEF RemovalFails, Unlocked
    <3>3. QED
      BY <1>20, <2>1, <2>2, <3>1, <3>2 DEF RemovalFails, PruneEnds
<1>21. ASSUME NEW p \in Pruners, PruneDies(p) PROVE ArchiveTypeOK'
  <2>1. pull' = pull \/ (pull' \in Pulls /\ pull'.at \in {"idle", "list"})
    BY <1>21, AnsweredPull DEF PruneDies
  <2>2. prunes' \in [Pruners -> Prunes]
    BY <1>21 DEF PruneDies, PruneEnds, Prunes
  <2>3. QED
    BY <1>21, <2>1, <2>2 DEF PruneDies, PruneEnds, Unlocked
<1>22. QED
  BY <1>1, <1>2, <1>3, <1>4, <1>5, <1>6, <1>7, <1>8, <1>9, <1>10, <1>11, <1>12, <1>13, <1>14,
     <1>15, <1>16, <1>17, <1>18, <1>19, <1>20, <1>21
     DEF ArchiveNext, PullGoesOn, PruneGoesOn

\* A removal that is over and has removed nothing.
LEMMA PruneGone ==
  ASSUME ArchiveInv, NEW p \in Pruners, Answered(p) \/ Refused(p),
         prunes' = [prunes EXCEPT ![p] = NoPrune], heavyLock' = Unlocked(p),
         prunes[p].at \notin {"remove", "dead"},
         dayFiles' = dayFiles, tombstones' = tombstones, OnNas' = OnNas
  PROVE  (OfItsDay /\ AskedIsArchived /\ UnderLock /\ TombstoneArchived)'
<1> USE DEF ArchiveInv
<1>1. prunes'[p] = NoPrune /\ \A q \in Pruners \ {p} : prunes'[q] = prunes[q]
  BY DEF ArchiveTypeOK
<1>2. OfItsDay'
  BY DEF OfItsDay
<1>3. AskedIsArchived'
  BY <1>1, AnsweredPull DEF AskedIsArchived, NoPrune
<1>4. UnderLock'
  BY <1>1 DEF UnderLock, Unlocked, SameList, NoPrune
<1>5. TombstoneArchived'
  BY <1>1 DEF TombstoneArchived, NoPrune
<1>6. QED
  BY <1>2, <1>3, <1>4, <1>5

\* No step but those of a removal touches the removals, the tombstones and the lock
\* that a removal has, and none takes a file from the NAS while a removal is under way.
LEMMA ArchiveInvStep == ArchiveInv /\ [ArchiveNext]_archiveVars => ArchiveInv'
<1> SUFFICES ASSUME ArchiveInv, [ArchiveNext]_archiveVars
             PROVE  (OfItsDay /\ AskedIsArchived /\ UnderLock /\ TombstoneArchived)'
  BY ArchiveTypeStep DEF ArchiveInv
<1> USE ArchiveAssumption DEF ArchiveInv, OfItsDay, AskedIsArchived,
        UnderLock, TombstoneArchived, SameList, cloudFiles, nasFiles
<1>0. ArchiveTypeOK /\ ArchiveTypeOK'
  BY ArchiveTypeStep
<1>1. CASE UNCHANGED archiveVars
  BY <1>1 DEF archiveVars, OnNas
<1>2. CASE DayPasses
  BY <1>2 DEF DayPasses, OnNas
<1>3. CASE ScriptRuns
  BY <1>3 DEF ScriptRuns, OnNas
<1>4. ASSUME NEW f \in HotFiles, MoveToArchive(f)
      PROVE  (OfItsDay /\ AskedIsArchived /\ UnderLock /\ TombstoneArchived)'
  BY <1>0, <1>4 DEF MoveToArchive, OnNas, ArchiveTypeOK
<1>5. CASE StartPull
  BY <1>5 DEF StartPull, OnNas, NoPull
<1>6. CASE TakeList
  <2>1. pull'.at \in {"idle", "compare", "copy"}
    BY <1>6 DEF TakeList, Begun, PullEnds, NoPull
  <2>2. QED
    BY <1>6, <2>1 DEF TakeList, OnNas
<1>7. ASSUME NEW f \in HotFiles, CopyFile(f)
      PROVE  (OfItsDay /\ AskedIsArchived /\ UnderLock /\ TombstoneArchived)'
  BY <1>7 DEF CopyFile, OnNas
<1>8. CASE CopyFails
  BY <1>8 DEF CopyFails, PullEnds, NoPull, OnNas
<1>9. CASE FinishBatch
  <2>1. PICK s \in stages : s.files = pull.list /\ batches' = batches \cup {s}
    BY <1>9 DEF FinishBatch, Stage
  <2>2. OnNas' = OnNas \cup pull.list
    BY <2>1 DEF OnNas
  <2>3. pull'.list = pull.list
    BY <1>0, <1>9 DEF FinishBatch, ArchiveTypeOK, Pulls
  <2>4. QED
    BY <1>9, <2>2, <2>3 DEF FinishBatch
<1>10. CASE CompareBatch
  <2>1. pull'.at \in {"ask", "idle"} /\ (pull'.at = "ask" => pull'.list = pull.list /\ pull.list \subseteq OnNas)
    BY <1>0, <1>10 DEF CompareBatch, Batch, PullEnds, NoPull, ArchiveTypeOK, Pulls, OnNas
  <2>2. QED
    BY <1>10, <2>1 DEF CompareBatch, OnNas
<1>11. ASSUME NEW p \in Pruners, AskToPrune(p)
       PROVE  (OfItsDay /\ AskedIsArchived /\ UnderLock /\ TombstoneArchived)'
  BY <1>0, <1>11 DEF AskToPrune, OnNas, ArchiveTypeOK, Pulls, Prunes
<1>12. CASE PullStops
  BY <1>12 DEF PullStops, PullEnds, NoPull, OnNas
<1>13. ASSUME NEW f \in HotFiles, CopyDamaged(f)
       PROVE  (OfItsDay /\ AskedIsArchived /\ UnderLock /\ TombstoneArchived)'
  BY <1>13 DEF CopyDamaged
<1>14. ASSUME NEW p \in Pruners, PruneLocks(p)
       PROVE  (OfItsDay /\ AskedIsArchived /\ UnderLock /\ TombstoneArchived)'
  BY <1>0, <1>14 DEF PruneLocks, OnNas, ArchiveTypeOK, Prunes
<1>15. ASSUME NEW p \in Pruners, PruneLockTimeout(p)
       PROVE  (OfItsDay /\ AskedIsArchived /\ UnderLock /\ TombstoneArchived)'
  BY <1>0, <1>15, AnsweredPull DEF PruneLockTimeout, PruneEnds, NoPrune, OnNas, ArchiveTypeOK
<1>16. ASSUME NEW p \in Pruners, PruneChecks(p)
       PROVE  (OfItsDay /\ AskedIsArchived /\ UnderLock /\ TombstoneArchived)'
  <2>1. dayFiles' = dayFiles /\ tombstones' = tombstones /\ OnNas' = OnNas /\ prunes[p].at = "check"
    BY <1>16 DEF PruneChecks, OnNas
  <2>2. CASE SameList(p)
    <3>1. /\ heavyLock' = heavyLock /\ pull' = pull
          /\ prunes' = [prunes EXCEPT ![p].at = "rename"]
      BY <1>16, <2>2 DEF PruneChecks
    <3>2. /\ prunes'[p].at = "rename" /\ prunes'[p].day = prunes[p].day
          /\ prunes'[p].list = prunes[p].list
      BY <1>0, <3>1 DEF ArchiveTypeOK, Prunes
    <3>3. \A q \in Pruners \ {p} : prunes'[q] = prunes[q]
      BY <1>0, <3>1 DEF ArchiveTypeOK
    <3>4. AskedIsArchived'
      BY <2>1, <3>1, <3>2, <3>3
    <3>5. UnderLock'
      BY <2>1, <2>2, <3>1, <3>2, <3>3
    <3>6. OfItsDay' /\ TombstoneArchived'
      BY <2>1, <3>2, <3>3
    <3>7. QED
      BY <3>4, <3>5, <3>6
  <2>3. CASE ~SameList(p)
    <3>1. heavyLock' = Unlocked(p) /\ Refused(p) /\ prunes' = [prunes EXCEPT ![p] = NoPrune]
      BY <1>16, <2>3 DEF PruneChecks, PruneEnds
    <3>2. QED
      BY <1>0, <2>1, <3>1, PruneGone
  <2>4. QED
    BY <2>2, <2>3
<1>17. ASSUME NEW p \in Pruners, PruneRenames(p)
       PROVE  (OfItsDay /\ AskedIsArchived /\ UnderLock /\ TombstoneArchived)'
  BY <1>0, <1>17 DEF PruneRenames, OnNas, ArchiveTypeOK, Prunes
<1>18. ASSUME NEW p \in Pruners, NEW f \in HotFiles, PruneRemoves(p, f)
       PROVE  (OfItsDay /\ AskedIsArchived /\ UnderLock /\ TombstoneArchived)'
  BY <1>0, <1>18 DEF PruneRemoves, OnNas, ArchiveTypeOK
<1>19. ASSUME NEW p \in Pruners, PruneDone(p)
       PROVE  (OfItsDay /\ AskedIsArchived /\ UnderLock /\ TombstoneArchived)'
  BY <1>0, <1>19, AnsweredPull DEF PruneDone, PruneEnds, NoPrune, OnNas, ArchiveTypeOK, Unlocked
<1>20. ASSUME NEW p \in Pruners, RemovalFails(p)
       PROVE  (OfItsDay /\ AskedIsArchived /\ UnderLock /\ TombstoneArchived)'
  BY <1>0, <1>20, AnsweredPull DEF RemovalFails, PruneEnds, NoPrune, OnNas, ArchiveTypeOK, Unlocked
<1>21. ASSUME NEW p \in Pruners, PruneDies(p)
       PROVE  (OfItsDay /\ AskedIsArchived /\ UnderLock /\ TombstoneArchived)'
  <2>1. /\ dayFiles' = dayFiles /\ tombstones' = tombstones /\ OnNas' = OnNas
        /\ heavyLock' = Unlocked(p) /\ Refused(p)
    BY <1>21 DEF PruneDies, OnNas
  <2>2. CASE prunes[p].at # "remove"
    <3>1. prunes' = [prunes EXCEPT ![p] = NoPrune] /\ prunes[p].at # "dead"
      BY <1>21, <2>2 DEF PruneDies
    <3>2. QED
      BY <1>0, <2>1, <2>2, <3>1, PruneGone
  <2>3. CASE prunes[p].at = "remove"
    <3>1. prunes' = [prunes EXCEPT ![p] = [NoPrune EXCEPT !.at = "dead"]]
      BY <1>21, <2>3 DEF PruneDies
    <3>2. prunes'[p].at = "dead" /\ \A q \in Pruners \ {p} : prunes'[q] = prunes[q]
      BY <1>0, <3>1 DEF ArchiveTypeOK, NoPrune
    <3>3. UnderLock'
      BY <2>1, <2>3, <3>2 DEF Unlocked
    <3>4. OfItsDay' /\ TombstoneArchived'
      BY <2>1, <3>2
    <3>5. AskedIsArchived'
      BY <1>0, <2>1, <3>2, AnsweredPull
    <3>6. QED
      BY <3>3, <3>4, <3>5
  <2>4. QED
    BY <2>2, <2>3
<1>22. QED
  BY <1>1, <1>2, <1>3, <1>4, <1>5, <1>6, <1>7, <1>8, <1>9, <1>10, <1>11, <1>12, <1>13, <1>14,
     <1>15, <1>16, <1>17, <1>18, <1>19, <1>20, <1>21
     DEF ArchiveNext, PullGoesOn, PruneGoesOn

-----------------------------------------------------------------------------
(* What the steps mean to the abstract removal.                            *)

LEMMA MoveArrives ==
  ASSUME ArchiveTypeOK, NEW f \in HotFiles, MoveToArchive(f)
  PROVE  OnCloud \subseteq OnCloud' /\ OnNas' = OnNas
BY ArchiveAssumption DEF MoveToArchive, ArchiveTypeOK, OnCloud, OnNas, cloudFiles, nasFiles

\* The renamed day is in the tombstone.
LEMMA RenameKeeps ==
  ASSUME ArchiveInv, NEW p \in Pruners, PruneRenames(p)
  PROVE  OnCloud' = OnCloud /\ OnNas' = OnNas
<1> DEFINE d == prunes[p].day
<1> USE ArchiveAssumption DEF ArchiveInv
<1>1. d \in Days /\ tombstones[p] = {}
  BY DEF PruneRenames, ArchiveTypeOK, TombstoneArchived
<1>2. /\ dayFiles'[d] = {} /\ \A e \in Days \ {d} : dayFiles'[e] = dayFiles[e]
      /\ tombstones'[p] = dayFiles[d] /\ \A q \in Pruners \ {p} : tombstones'[q] = tombstones[q]
  BY <1>1 DEF PruneRenames, ArchiveTypeOK
<1>3. \A f \in HotFiles : FileDay[f] \in Days
  OBVIOUS
<1>4. \A f \in dayFiles[d] : FileDay[f] = d
  BY <1>1 DEF OfItsDay
<1>5. QED
  BY <1>1, <1>2, <1>3, <1>4 DEF PruneRenames, OnCloud, OnNas, nasFiles

\* What is left of the tombstone is the day again.
LEMMA FailureKeeps ==
  ASSUME ArchiveInv, NEW p \in Pruners, RemovalFails(p)
  PROVE  OnCloud' = OnCloud /\ OnNas' = OnNas
<1> DEFINE d == prunes[p].day
<1> USE ArchiveAssumption DEF ArchiveInv
<1>1. /\ d \in Days /\ dayFiles[d] = {}
      /\ \A f \in tombstones[p] : FileDay[f] = d
  BY DEF RemovalFails, ArchiveTypeOK, TombstoneArchived
<1>2. /\ dayFiles'[d] = tombstones[p] /\ \A e \in Days \ {d} : dayFiles'[e] = dayFiles[e]
      /\ tombstones'[p] = {} /\ \A q \in Pruners \ {p} : tombstones'[q] = tombstones[q]
  BY <1>1 DEF RemovalFails, ArchiveTypeOK
<1>3. \A f \in HotFiles : FileDay[f] \in Days
  OBVIOUS
<1>4. QED
  BY <1>1, <1>2, <1>3 DEF RemovalFails, OnCloud, OnNas, nasFiles

\* What is removed is on the NAS.
LEMMA RemoveRemovesArchived ==
  ASSUME ArchiveInv, NEW p \in Pruners, NEW f \in HotFiles, PruneRemoves(p, f)
  PROVE  OnCloud' \subseteq OnCloud /\ OnCloud \subseteq OnCloud' \cup OnNas /\ OnNas' = OnNas
<1> USE DEF ArchiveInv
<1>1. f \in OnNas
  BY DEF PruneRemoves, TombstoneArchived
<1>2. /\ tombstones'[p] = tombstones[p] \ {f}
      /\ \A q \in Pruners \ {p} : tombstones'[q] = tombstones[q]
      /\ dayFiles' = dayFiles
  BY DEF PruneRemoves, ArchiveTypeOK
<1>3. OnNas' = OnNas
  BY DEF PruneRemoves, OnNas, nasFiles
<1>4. QED
  BY <1>1, <1>2, <1>3 DEF OnCloud

LEMMA ArchiveStepRemoval ==
  ArchiveInv /\ [ArchiveNext]_archiveVars =>
     [Removal!Arrives \/ Removal!CopiesChange \/ Removal!Removed]_<<OnCloud, OnNas>>
<1> SUFFICES ASSUME ArchiveInv, [ArchiveNext]_archiveVars
             PROVE  Removal!Arrives \/ Removal!CopiesChange \/ Removal!Removed
  OBVIOUS
<1> USE DEF Removal!Arrives, Removal!CopiesChange, Removal!Removed
<1>1. ASSUME NEW f \in HotFiles, MoveToArchive(f) PROVE Removal!Arrives
  BY <1>1, MoveArrives DEF ArchiveInv
<1>2. ASSUME NEW p \in Pruners, PruneRenames(p) \/ RemovalFails(p) PROVE Removal!CopiesChange
  BY <1>2, RenameKeeps, FailureKeeps
<1>3. ASSUME NEW p \in Pruners, NEW f \in HotFiles, PruneRemoves(p, f) PROVE Removal!Removed
  BY <1>3, RemoveRemovesArchived
<1>4. ASSUME UNCHANGED <<dayFiles, tombstones>> PROVE Removal!CopiesChange
  BY <1>4 DEF OnCloud
<1>5. ASSUME NEW p \in Pruners,
             \/ PruneLocks(p) \/ PruneLockTimeout(p) \/ PruneChecks(p) \/ PruneDone(p) \/ PruneDies(p)
      PROVE  UNCHANGED <<dayFiles, tombstones>>
  BY <1>5 DEF PruneLocks, PruneLockTimeout, PruneChecks, PruneDone, PruneDies, cloudFiles
<1>6. ASSUME \/ DayPasses \/ ScriptRuns \/ StartPull \/ TakeList \/ CopyFails \/ FinishBatch
             \/ CompareBatch \/ PullStops
             \/ \E f \in HotFiles : CopyFile(f) \/ CopyDamaged(f)
             \/ \E p \in Pruners : AskToPrune(p)
      PROVE  UNCHANGED <<dayFiles, tombstones>>
  BY <1>6 DEF DayPasses, ScriptRuns, StartPull, TakeList, CopyFails, FinishBatch, CompareBatch,
              PullStops, CopyFile, CopyDamaged, AskToPrune, cloudFiles
<1>7. CASE UNCHANGED archiveVars
  BY <1>4, <1>7 DEF archiveVars, cloudFiles
<1>8. QED
  BY <1>1, <1>2, <1>3, <1>4, <1>5, <1>6, <1>7 DEF ArchiveNext, PullGoesOn, PruneGoesOn

-----------------------------------------------------------------------------
\* The types of the job's and the removals' records hold in every state.
THEOREM ArchiveTypeCorrect == ArchiveSpec => []ArchiveTypeOK
<1>1. ArchiveInv => ArchiveTypeOK
  BY DEF ArchiveInv
<1>2. QED
  BY <1>1, ArchiveInvInit, ArchiveInvStep, PTL DEF ArchiveSpec

\* High-frequency files: nothing leaves the cloud that the NAS does not have, however
\* the script, the job and the removals interleave, die and are repeated.
THEOREM RemovalVerified == ArchiveSpec => RemovedOnceArchived
<1>1. ArchiveInit => OnCloud = {} /\ OnNas = {}
  BY ArchiveAssumption DEF ArchiveInit, OnCloud, OnNas
<1>2. QED
  BY <1>1, ArchiveInvInit, ArchiveInvStep, ArchiveStepRemoval, PTL
     DEF ArchiveSpec, RemovedOnceArchived, Removal!RemovalSpec

------------------------------------------------------------------------------
(***************************************************************************)
(* The archive of redacted bundles.                                        *)
(***************************************************************************)
\* A day is copied only before it has a receipt, which stands for ever.
CopiedOnce == nasRun.at = "copy" => nasRun.day \notin nasDone

\* A day that is to be removed has one.
KeptIsDone == nasRun.at = "keep" => nasRun.day \in nasDone

\* A removal is asked for with the list of an archived day that is intact.
AskedIntact ==
    \A p \in Removers :
       removals[p].at # "none" =>
          removals[p].day \in nasDone /\ removals[p].list \subseteq nasCopy[removals[p].day]

\* What is packed of a day that has been compared is on its list, or came too late.
ComparedIsListed ==
    \A p \in Removers : \A b \in Redacted :
       /\ removals[p].at = "remove" /\ removals[p].day = RedactedDay[b]
       /\ form[b] = "packed" /\ b \notin unseen
       => <<b, "packed">> \in removals[p].list

RedactedInv == RedactedTypeOK /\ CopiedOnce /\ KeptIsDone /\ AskedIntact /\ ComparedIsListed

LEMMA ManifestIsList == ASSUME RedactedTypeOK, NEW d PROVE Manifest(d) \in DayLists
BY DEF RedactedTypeOK, Manifest, OfDate, DayLists

LEMMA RunIsRun ==
  ASSUME NEW at \in {"idle", "day", "copy", "keep", "asked"}, NEW days \in SUBSET BundleDates,
         NEW cutoff \in Int, NEW day \in Nat, NEW list \in DayLists
  PROVE  Run(at, days, cutoff, day, list) \in NasRuns
BY DEF Run, NasRuns, DayLists

LEMMA NoRunIsRun == NoRun \in NasRuns /\ NoRun.at = "idle" /\ NoRemoval \in NasRemovals
<1>1. {} \in DayLists
  BY DEF DayLists
<1>2. NoRun \in NasRuns
  BY <1>1, RunIsRun DEF NoRun
<1>3. QED
  BY <1>1, <1>2 DEF NoRun, Run, NoRemoval, NasRemovals

LEMMA NextOfRunIsRun ==
  ASSUME RedactedTypeOK PROVE NextOfRun \in NasRuns /\ NextOfRun.at = "day"
<1>1. {} \in DayLists /\ nasRun.days \in SUBSET BundleDates /\ nasRun.cutoff \in Int
  BY DEF DayLists, RedactedTypeOK, NasRuns
<1>2. NextOfRun \in NasRuns
  BY <1>1, RunIsRun DEF NextOfRun
<1>3. QED
  BY <1>2 DEF NextOfRun, Run

\* What an answer, or an error, makes of the run.
LEMMA AnsweredRun ==
  ASSUME RedactedTypeOK, NEW p \in Removers, RunGoesOn(p) \/ RunFailsOn(p)
  PROVE  nasRun' = nasRun \/ (nasRun' \in NasRuns /\ nasRun'.at \in {"idle", "day"})
BY NoRunIsRun, NextOfRunIsRun DEF RunGoesOn, RunFailsOn

LEMMA RemovalForgotten ==
  ASSUME RedactedTypeOK, NEW p \in Removers, Forgotten(p)
  PROVE  /\ removals' \in [Removers -> NasRemovals]
         /\ removals'[p].at = "none" /\ \A q \in Removers \ {p} : removals'[q] = removals[q]
BY NoRunIsRun DEF Forgotten, RedactedTypeOK, NoRemoval

LEMMA RedactedInvInit == RedactedInit => RedactedInv
<1> SUFFICES ASSUME RedactedInit PROVE RedactedInv
  OBVIOUS
<1> USE RedactedAssumption, NoRunIsRun DEF RedactedInit
<1>1. RedactedTypeOK
  <2>1. {} \in DayLists /\ 1 \in BundleDates /\ NoRemoval.at = "none"
    BY DEF DayLists, BundleDates, NoRemoval
  <2>2. QED
    BY <2>1 DEF RedactedTypeOK
<1>2. CopiedOnce /\ KeptIsDone /\ AskedIntact /\ ComparedIsListed
  BY DEF CopiedOnce, KeptIsDone, AskedIntact, ComparedIsListed, NoRemoval
<1>3. QED
  BY <1>1, <1>2 DEF RedactedInv

LEMMA RedactedTypeStep == RedactedTypeOK /\ [RedactedNext]_redactedVars => RedactedTypeOK'
<1> SUFFICES ASSUME RedactedTypeOK, [RedactedNext]_redactedVars PROVE RedactedTypeOK'
  OBVIOUS
<1> USE RedactedAssumption DEF RedactedTypeOK, cloudDays, nasDays, Trouble, RunEnds
<1>1. CASE UNCHANGED redactedVars
  BY <1>1 DEF redactedVars
<1>2. CASE NextDate
  BY <1>2 DEF NextDate, BundleDates
<1>3. ASSUME NEW b \in Redacted, MakeBundleDir(b) \/ WriteRedacted(b) \/ PackRedacted(b)
      PROVE  RedactedTypeOK'
  BY <1>3 DEF MakeBundleDir, WriteRedacted, PackRedacted
<1>4. CASE StartRun
  <2>1. {d \in day_dirs : d < utc_day} \in SUBSET BundleDates /\ {} \in DayLists
    BY DEF DayLists
  <2>0. utc_day - (KeepDays - 1) \in Int
    <3>1. utc_day \in Int /\ KeepDays \in Int
      BY DEF BundleDates
    <3>2. QED
      BY <3>1
  <2>2. nasRun' \in NasRuns
    BY <1>4, <2>0, <2>1, RunIsRun DEF StartRun
  <2>3. nasRun'.at = "day"
    BY <1>4 DEF StartRun, Run
  <2>4. QED
    BY <1>4, <2>2, <2>3 DEF StartRun
<1>5. CASE BeginDay
  <2>1. CASE nasRun' = NoRun
    BY <1>5, <2>1, NoRunIsRun DEF BeginDay
  <2>2. ASSUME NEW d \in nasRun.days, NEW at \in {"copy", "keep"}, nasRun' = BegunRun(at, d)
        PROVE  RedactedTypeOK'
    <3>1. d \in BundleDates /\ d \in Nat /\ nasRun.days \ {d} \in SUBSET BundleDates
          /\ nasRun.cutoff \in Int
      BY DEF NasRuns, BundleDates
    <3>2. nasRun' \in NasRuns
      BY <2>2, <3>1, RunIsRun, ManifestIsList DEF BegunRun
    <3>3. nasRun'.day = d
      BY <2>2 DEF BegunRun, Run
    <3>4. QED
      BY <1>5, <3>1, <3>2, <3>3 DEF BeginDay
  <2>3. QED
    BY <1>5, <2>1, <2>2 DEF BeginDay
<1>6. ASSUME NEW b \in Redacted, CopyBundle(b) PROVE RedactedTypeOK'
  <2>1. nasRun.stage \cup {<<b, form[b]>>} \in DayLists
    BY <1>6 DEF CopyBundle, NasRuns, DayLists
  <2>2. nasRun' \in NasRuns /\ nasRun'.day = nasRun.day /\ nasRun'.at = nasRun.at
    BY <1>6, <2>1 DEF CopyBundle, NasRuns
  <2>3. QED
    BY <1>6, <2>2 DEF CopyBundle
<1>7. CASE FinishCopy
  <2>1. nasRun.day \in BundleDates /\ nasRun.list \in DayLists /\ nasRun.stage \in DayLists
    BY <1>7 DEF FinishCopy, NasRuns
  <2>2. CASE CopyIsTheList
    <3>1. nasRun' = [nasRun EXCEPT !.at = "keep"]
      BY <1>7, <2>2 DEF FinishCopy
    <3>2. nasRun' \in NasRuns /\ nasRun'.day = nasRun.day
      BY <3>1 DEF NasRuns
    <3>3. nasList' \in [BundleDates -> DayLists] /\ nasCopy' \in [BundleDates -> DayLists]
          /\ nasDone' \subseteq BundleDates
      BY <1>7, <2>1, <2>2 DEF FinishCopy
    <3>4. QED
      BY <1>7, <2>1, <3>2, <3>3 DEF FinishCopy
  <2>3. CASE ~CopyIsTheList
    BY <1>7, <2>3, NoRunIsRun DEF FinishCopy
  <2>4. QED
    BY <2>2, <2>3
<1>8. CASE KeepDay
  BY <1>8, NextOfRunIsRun DEF KeepDay
<1>9. ASSUME NEW p \in Removers, AskForRemoval(p) PROVE RedactedTypeOK'
  <2>1. nasRun.day \in BundleDates /\ nasRun.day \in Nat
    BY <1>9 DEF AskForRemoval, BundleDates
  <2>2. CASE CopyVerified(nasRun.day)
    <3>1. nasRun' \in NasRuns /\ nasRun'.day = nasRun.day
      <4>1. nasRun' = [nasRun EXCEPT !.at = "asked", !.by = p]
        BY <1>9, <2>2 DEF AskForRemoval
      <4>2. QED
        BY <4>1 DEF NasRuns
    <3>2. [at |-> "compare", day |-> nasRun.day, list |-> nasList[nasRun.day]] \in NasRemovals
      BY <2>1 DEF NasRemovals
    <3>3. QED
      BY <1>9, <2>1, <2>2, <3>1, <3>2 DEF AskForRemoval
  <2>3. CASE ~CopyVerified(nasRun.day)
    BY <1>9, <2>3, NoRunIsRun DEF AskForRemoval
  <2>4. QED
    BY <2>2, <2>3
<1>10. CASE RunStops
  BY <1>10, NoRunIsRun DEF RunStops
<1>11. ASSUME NEW d \in BundleDates, ArchiveDamaged(d) PROVE RedactedTypeOK'
  <2>1. PICK f \in nasCopy[d] : nasCopy' = [nasCopy EXCEPT ![d] = @ \ {f}]
    BY <1>11 DEF ArchiveDamaged
  <2>2. nasCopy[d] \ {f} \in DayLists
    BY DEF DayLists
  <2>3. nasCopy' \in [BundleDates -> DayLists]
    BY <2>1, <2>2
  <2>4. QED
    BY <1>11, <2>3 DEF ArchiveDamaged
<1>12. ASSUME NEW p \in Removers, CompareDay(p) PROVE RedactedTypeOK'
  <2>1. removals[p].day \in BundleDates
    BY <1>12 DEF CompareDay
  <2>2. CASE removals' = [removals EXCEPT ![p].at = "remove"] /\ UNCHANGED nasRun
    <3>1. [removals[p] EXCEPT !.at = "remove"] \in NasRemovals
          /\ [removals[p] EXCEPT !.at = "remove"].day = removals[p].day
      BY DEF NasRemovals
    <3>2. removals' = [removals EXCEPT ![p] = [removals[p] EXCEPT !.at = "remove"]]
      BY <2>2
    <3>3. /\ removals' \in [Removers -> NasRemovals]
          /\ \A q \in Removers : removals'[q].at # "none" => removals'[q].day \in BundleDates
      BY <2>1, <3>1, <3>2
    <3>4. QED
      BY <1>12, <2>2, <3>3 DEF CompareDay
  <2>3. CASE Forgotten(p) /\ RunFailsOn(p)
    BY <1>12, <2>3, AnsweredRun, RemovalForgotten DEF CompareDay
  <2>4. QED
    BY <1>12, <2>2, <2>3 DEF CompareDay
<1>13. ASSUME NEW p \in Removers, RemoveDay(p) PROVE RedactedTypeOK'
  BY <1>13, AnsweredRun, RemovalForgotten DEF RemoveDay, Without
<1>14. ASSUME NEW p \in Removers, RemovalDies(p) PROVE RedactedTypeOK'
  <2>1. form' \in [Redacted -> {"absent", "loose", "packed"}]
    BY <1>14 DEF RemovalDies, Without
  <2>2. QED
    BY <1>14, <2>1, AnsweredRun, RemovalForgotten DEF RemovalDies
<1>15. QED
  BY <1>1, <1>2, <1>3, <1>4, <1>5, <1>6, <1>7, <1>8, <1>9, <1>10, <1>11, <1>12, <1>13, <1>14
     DEF RedactedNext, RunStep, RemovalStep

\* A removal that is over.
LEMMA ForgottenInv ==
  ASSUME RedactedInv, NEW p \in Removers, Forgotten(p), RunGoesOn(p) \/ RunFailsOn(p),
         UNCHANGED nasDays, unseen' = unseen,
         \A b \in Redacted : form'[b] = "packed" => form[b] = "packed"
  PROVE  (CopiedOnce /\ KeptIsDone /\ AskedIntact /\ ComparedIsListed)'
<1> USE DEF RedactedInv, nasDays
<1>1. CopiedOnce' /\ KeptIsDone'
  BY AnsweredRun DEF CopiedOnce, KeptIsDone
<1>2. AskedIntact' /\ ComparedIsListed'
  BY RemovalForgotten DEF AskedIntact, ComparedIsListed
<1>3. QED
  BY <1>1, <1>2

LEMMA RedactedInvStep == RedactedInv /\ [RedactedNext]_redactedVars => RedactedInv'
<1> SUFFICES ASSUME RedactedInv, [RedactedNext]_redactedVars
             PROVE  (CopiedOnce /\ KeptIsDone /\ AskedIntact /\ ComparedIsListed)'
  BY RedactedTypeStep DEF RedactedInv
<1> USE RedactedAssumption DEF RedactedInv, CopiedOnce, KeptIsDone, AskedIntact, ComparedIsListed,
        cloudDays, nasDays
<1>0. RedactedTypeOK /\ RedactedTypeOK'
  BY RedactedTypeStep
<1>1. CASE UNCHANGED redactedVars
  BY <1>1 DEF redactedVars
<1>2. CASE NextDate
  BY <1>2 DEF NextDate
<1>3. ASSUME NEW b \in Redacted, MakeBundleDir(b) \/ WriteRedacted(b) \/ PackRedacted(b)
      PROVE  (CopiedOnce /\ KeptIsDone /\ AskedIntact /\ ComparedIsListed)'
  <2>1. CASE MakeBundleDir(b)
    BY <2>1 DEF MakeBundleDir
  <2>2. CASE WriteRedacted(b)
    BY <1>0, <2>2 DEF WriteRedacted, RedactedTypeOK
  <2>3. CASE PackRedacted(b)
    BY <1>0, <2>3 DEF PackRedacted, RedactedTypeOK
  <2>4. QED
    BY <1>3, <2>1, <2>2, <2>3
<1>4. CASE StartRun
  BY <1>4 DEF StartRun, Run
<1>5. CASE BeginDay
  BY <1>5 DEF BeginDay, BegunRun, RunEnds, NoRun, Run
<1>6. ASSUME NEW b \in Redacted, CopyBundle(b)
      PROVE  (CopiedOnce /\ KeptIsDone /\ AskedIntact /\ ComparedIsListed)'
  BY <1>0, <1>6 DEF CopyBundle, RedactedTypeOK, NasRuns
<1>7. CASE FinishCopy
  <2>1. CASE CopyIsTheList
    <3>0. nasRun' = [nasRun EXCEPT !.at = "keep"] /\ nasDone' = nasDone \cup {nasRun.day}
      BY <1>7, <2>1 DEF FinishCopy
    <3>1. /\ nasRun'.at = "keep" /\ nasRun'.day = nasRun.day
          /\ nasRun.day \in BundleDates /\ nasRun.day \notin nasDone
      BY <1>0, <1>7, <2>1 DEF FinishCopy, RedactedTypeOK, NasRuns
    <3>2. \A d \in nasDone : d \in nasDone' /\ nasCopy'[d] = nasCopy[d]
      BY <1>0, <1>7, <2>1, <3>1 DEF FinishCopy, RedactedTypeOK
    <3>3. QED
      BY <1>7, <3>0, <3>1, <3>2 DEF FinishCopy
  <2>2. CASE ~CopyIsTheList
    BY <1>7, <2>2, NoRunIsRun DEF FinishCopy, RunEnds
  <2>3. QED
    BY <2>1, <2>2
<1>8. CASE KeepDay
  BY <1>0, <1>8, NextOfRunIsRun DEF KeepDay
<1>9. ASSUME NEW p \in Removers, AskForRemoval(p)
      PROVE  (CopiedOnce /\ KeptIsDone /\ AskedIntact /\ ComparedIsListed)'
  <2>1. CASE CopyVerified(nasRun.day)
    <3>1. /\ removals' = [removals EXCEPT ![p] = [at |-> "compare", day |-> nasRun.day,
                                                  list |-> nasList[nasRun.day]]]
          /\ nasRun' = [nasRun EXCEPT !.at = "asked", !.by = p] /\ nasRun.at = "keep"
      BY <1>9, <2>1 DEF AskForRemoval
    <3>4. nasRun'.at = "asked"
      BY <1>0, <3>1 DEF RedactedTypeOK, NasRuns
    <3>2. nasRun.day \in nasDone /\ nasList[nasRun.day] = nasCopy[nasRun.day]
      BY <2>1, <3>1 DEF CopyVerified, KeptIsDone
    <3>3. QED
      BY <1>0, <1>9, <3>1, <3>2, <3>4 DEF AskForRemoval, RedactedTypeOK
  <2>2. CASE ~CopyVerified(nasRun.day)
    BY <1>9, <2>2, NoRunIsRun DEF AskForRemoval, RunEnds
  <2>3. QED
    BY <2>1, <2>2
<1>10. CASE RunStops
  BY <1>10, NoRunIsRun DEF RunStops, RunEnds
<1>11. ASSUME NEW d \in BundleDates, ArchiveDamaged(d)
       PROVE  (CopiedOnce /\ KeptIsDone /\ AskedIntact /\ ComparedIsListed)'
  BY <1>11 DEF ArchiveDamaged
<1>12. ASSUME NEW p \in Removers, CompareDay(p)
       PROVE  (CopiedOnce /\ KeptIsDone /\ AskedIntact /\ ComparedIsListed)'
  <2>1. CASE Forgotten(p) /\ RunFailsOn(p)
    BY <1>12, <2>1, ForgottenInv DEF CompareDay
  <2>2. CASE /\ Manifest(removals[p].day) = removals[p].list
             /\ removals' = [removals EXCEPT ![p].at = "remove"] /\ UNCHANGED nasRun
    <3>1. /\ removals'[p].at = "remove" /\ removals'[p].day = removals[p].day
          /\ removals'[p].list = removals[p].list
          /\ \A q \in Removers \ {p} : removals'[q] = removals[q]
      BY <1>0, <2>2 DEF RedactedTypeOK, NasRemovals
    <3>2. \A b \in Redacted :
             removals[p].day = RedactedDay[b] /\ form[b] = "packed"
             => <<b, "packed">> \in removals[p].list
      <4>1. SUFFICES ASSUME NEW b \in Redacted, removals[p].day = RedactedDay[b],
                            form[b] = "packed"
                     PROVE  <<b, form[b]>> \in Manifest(removals[p].day)
        BY <2>2
      <4>2. b \in OfDate(removals[p].day)
        BY <4>1 DEF OfDate
      <4>3. QED
        BY <4>1, <4>2 DEF Manifest
    <3>3. removals[p].at # "none"
      BY <1>12 DEF CompareDay
    <3>4. UNCHANGED <<form, unseen, nasDone, nasCopy>>
      BY <1>12 DEF CompareDay
    <3>5. AskedIntact'
      BY <3>1, <3>3, <3>4
    <3>6. ComparedIsListed'
      BY <3>1, <3>2, <3>4
    <3>7. CopiedOnce' /\ KeptIsDone'
      BY <2>2, <3>4
    <3>8. QED
      BY <3>5, <3>6, <3>7
  <2>3. QED
    BY <1>12, <2>1, <2>2 DEF CompareDay
<1>13. ASSUME NEW p \in Removers, RemoveDay(p)
       PROVE  (CopiedOnce /\ KeptIsDone /\ AskedIntact /\ ComparedIsListed)'
  <2>1. \A b \in Redacted : form'[b] = "packed" => form[b] = "packed"
    BY <1>13 DEF RemoveDay, Without
  <2>2. QED
    BY <1>13, <2>1, ForgottenInv DEF RemoveDay
<1>14. ASSUME NEW p \in Removers, RemovalDies(p)
       PROVE  (CopiedOnce /\ KeptIsDone /\ AskedIntact /\ ComparedIsListed)'
  <2>1. \A b \in Redacted : form'[b] = "packed" => form[b] = "packed"
    BY <1>14 DEF RemovalDies, Without
  <2>2. QED
    BY <1>14, <2>1, ForgottenInv DEF RemovalDies
<1>15. QED
  BY <1>1, <1>2, <1>3, <1>4, <1>5, <1>6, <1>7, <1>8, <1>9, <1>10, <1>11, <1>12, <1>13, <1>14
     DEF RedactedNext, RunStep, RemovalStep

-----------------------------------------------------------------------------
(* What the steps mean to the abstract removal.                            *)

\* What leaves the cloud with a removal, whole or a part of it.
LEMMA GoneIsArchived ==
  ASSUME RedactedInv, NEW p \in Removers, removals[p].at = "remove", unseen' = unseen,
         NEW gone \in SUBSET OfDate(removals[p].day), form' = Without(gone)
  PROVE  PackedOnCloud' \subseteq PackedOnCloud /\ PackedOnCloud \subseteq PackedOnCloud' \cup PackedOnNas
<1> USE DEF RedactedInv
<1>1. \A b \in Redacted : form'[b] = IF b \in gone THEN "absent" ELSE form[b]
  BY DEF Without
<1>2. ASSUME NEW b \in Redacted, b \in gone, form[b] = "packed", b \notin unseen
      PROVE  b \in PackedOnNas
  <2>1. RedactedDay[b] = removals[p].day
    BY <1>2 DEF OfDate
  <2>2. <<b, "packed">> \in removals[p].list
    BY <1>2, <2>1 DEF ComparedIsListed
  <2>3. removals[p].list \subseteq nasCopy[RedactedDay[b]]
    BY <2>1 DEF AskedIntact
  <2>4. QED
    BY <2>2, <2>3 DEF PackedOnNas
<1>3. QED
  BY <1>1, <1>2 DEF PackedOnCloud

LEMMA RedactedStepRemoval ==
  RedactedInv /\ [RedactedNext]_redactedVars =>
     [RedactedRemoval!Arrives \/ RedactedRemoval!CopiesChange \/ RedactedRemoval!Removed]_<<PackedOnCloud, PackedOnNas>>
<1> SUFFICES ASSUME RedactedInv, [RedactedNext]_redactedVars
             PROVE  RedactedRemoval!Arrives \/ RedactedRemoval!CopiesChange \/ RedactedRemoval!Removed
  OBVIOUS
<1> USE DEF RedactedRemoval!Arrives, RedactedRemoval!CopiesChange, RedactedRemoval!Removed,
        cloudDays, nasDays
<1>0. RedactedTypeOK
  BY DEF RedactedInv
<1>1. ASSUME UNCHANGED <<form, unseen>> PROVE RedactedRemoval!CopiesChange
  BY <1>1 DEF PackedOnCloud
<1>2. ASSUME NEW b \in Redacted, WriteRedacted(b) PROVE RedactedRemoval!CopiesChange
  BY <1>0, <1>2 DEF WriteRedacted, PackedOnCloud, RedactedTypeOK
<1>3. ASSUME NEW b \in Redacted, PackRedacted(b) PROVE RedactedRemoval!Arrives
  <2>1. PackedOnNas' = PackedOnNas
    BY <1>3 DEF PackRedacted, PackedOnNas
  <2>2. \A c \in PackedOnCloud : c # b
    BY <1>3 DEF PackRedacted, PackedOnCloud
  <2>3. PackedOnCloud \subseteq PackedOnCloud'
    BY <1>0, <1>3, <2>2 DEF PackRedacted, PackedOnCloud, RedactedTypeOK
  <2>4. QED
    BY <2>1, <2>3
<1>4. ASSUME NEW p \in Removers, RemoveDay(p) PROVE RedactedRemoval!Removed
  <2>1. PackedOnNas' = PackedOnNas
    BY <1>4 DEF RemoveDay, PackedOnNas
  <2>2. QED
    BY <1>4, <2>1, GoneIsArchived DEF RemoveDay
<1>5. ASSUME NEW p \in Removers, RemovalDies(p)
      PROVE  RedactedRemoval!Removed \/ RedactedRemoval!CopiesChange
  <2>1. PackedOnNas' = PackedOnNas
    BY <1>5 DEF RemovalDies, PackedOnNas
  <2>2. CASE removals[p].at = "remove"
    BY <1>5, <2>1, <2>2, GoneIsArchived DEF RemovalDies
  <2>3. CASE removals[p].at # "remove"
    BY <1>1, <1>5, <2>3 DEF RemovalDies
  <2>4. QED
    BY <2>2, <2>3
<1>6. ASSUME \/ NextDate \/ StartRun \/ BeginDay \/ FinishCopy \/ KeepDay \/ RunStops
             \/ \E b \in Redacted : MakeBundleDir(b) \/ CopyBundle(b)
             \/ \E p \in Removers : AskForRemoval(p) \/ CompareDay(p)
             \/ \E d \in BundleDates : ArchiveDamaged(d)
      PROVE  UNCHANGED <<form, unseen>>
  BY <1>6 DEF NextDate, StartRun, BeginDay, FinishCopy, KeepDay, RunStops, MakeBundleDir,
              CopyBundle, AskForRemoval, CompareDay, ArchiveDamaged
<1>7. CASE UNCHANGED redactedVars
  BY <1>1, <1>7 DEF redactedVars
<1>8. QED
  BY <1>1, <1>2, <1>3, <1>4, <1>5, <1>6, <1>7 DEF RedactedNext, RunStep, RemovalStep

-----------------------------------------------------------------------------
\* The types of the job's and the removals' records hold in every state.
THEOREM RedactedTypeCorrect == RedactedSpec => []RedactedTypeOK
<1>1. RedactedInv => RedactedTypeOK
  BY DEF RedactedInv
<1>2. QED
  BY <1>1, RedactedInvInit, RedactedInvStep, PTL DEF RedactedSpec

\* Redacted bundles: what is packed leaves the cloud only when the NAS has it, but for
\* what is packed between the comparison and the removal of its day.
THEOREM RedactedRemovalVerified == RedactedSpec => RedactedRemovedOnceArchived
<1>1. RedactedInit => PackedOnCloud = {} /\ PackedOnNas = {}
  BY RedactedAssumption DEF RedactedInit, PackedOnCloud, PackedOnNas
<1>2. QED
  BY <1>1, RedactedInvInit, RedactedInvStep, RedactedStepRemoval, PTL
     DEF RedactedSpec, RedactedRemovedOnceArchived, RedactedRemoval!RemovalSpec

-----------------------------------------------------------------------------
(* The trades of the lake: counted by minute, then archived.                *)

\* An instant before another is in its minute or an earlier one; in an earlier one when
\* the other begins a minute.
LEMMA MinutesInOrder ==
    ASSUME NEW a \in Nat, NEW b \in Nat
    PROVE  /\ MinuteOf(a) \in Nat
           /\ a <= b => MinuteOf(a) <= MinuteOf(b)
           /\ a < b /\ b % MinuteLength = 0 => MinuteOf(a) < MinuteOf(b)
  <1> DEFINE L == MinuteLength
  <1>1. L \in Nat \ {0}
    BY MarketAssumption
  <1> DEFINE q == a \div L
             r == b \div L
             x == a % L
             y == b % L
  <1>2. /\ q \in Int /\ r \in Int /\ x \in 0..(L - 1) /\ y \in 0..(L - 1)
        /\ a = L * q + x /\ b = L * r + y
    BY <1>1
  <1>3. q \in Nat /\ r \in Nat
    BY <1>1
  <1> HIDE DEF q, r, x, y, L
  <1>4. q > r => L * q >= L * r + L
    BY <1>1, <1>3
  <1>5. a <= b => q <= r
    BY <1>1, <1>2, <1>3, <1>4
  <1>6. q >= r => L * q >= L * r
    BY <1>1, <1>3
  <1>7. a < b /\ y = 0 => q < r
    BY <1>1, <1>2, <1>3, <1>6
  <1> QED
    BY <1>3, <1>5, <1>7 DEF q, r, y, L, MinuteOf

\* Files and the times of the script keep their shapes.
LEMMA MarketTypesStep ==
    ASSUME MarketTypeOK, [MarketNext]_marketVars
    PROVE  MarketTypeOK'
  <1> USE MarketAssumption DEF MarketTypeOK, lakeFiles, rollups
  <1>1. CASE InstantPasses
    <2>1. instant' \in 1..MaxInstant /\ pending' \subseteq 1..MaxInstant
      BY <1>1 DEF InstantPasses
    <2> QED
      BY <1>1, <2>1 DEF InstantPasses
  <1>2. CASE AppendTrades
    <2>1. [trades |-> pending, mtime |-> instant] \in TradeFiles
      BY DEF TradeFiles
    <2> QED
      BY <1>2, <2>1 DEF AppendTrades
  <1>3. ASSUME NEW batch \in SUBSET hot, Merge(batch)
        PROVE  hot' \subseteq TradeFiles /\ merges' \in 0..MaxMerges
    <2>1. Trades(batch) \subseteq 1..MaxInstant
      BY DEF Trades, TradeFiles
    <2>2. [trades |-> Trades(batch), mtime |-> instant] \in TradeFiles
      BY <2>1 DEF TradeFiles
    <2> QED
      BY <1>3, <2>2 DEF Merge
  <1>4. CASE Compact
    <2>1. hot' \subseteq TradeFiles /\ merges' \in 0..MaxMerges
      BY <1>3, <1>4 DEF Compact
    <2> QED
      BY <1>4, <2>1 DEF Compact
  <1>5. CASE Tidy
    <2>1. hot' \subseteq TradeFiles /\ merges' \in 0..MaxMerges
      BY <1>3, <1>5 DEF Tidy
    <2> QED
      BY <1>5, <2>1 DEF Tidy
  <1>6. CASE Rollup
    <2>1. Trades(hot) \subseteq 1..MaxInstant /\ Window \subseteq Trades(hot)
      BY DEF Trades, TradeFiles, Window, RecentFiles
    <2>2. \A m \in Minutes : InMinute(Window, m) \subseteq 1..MaxInstant
      BY <2>1 DEF InMinute
    <2>3. activity' \in [Minutes -> SUBSET (1..MaxInstant)]
      BY <1>6, <2>2 DEF Rollup
    <2>4. offered' \subseteq 1..MaxInstant /\ cut' \subseteq Minutes
      <3>1. Since \in Nat /\ Since <= MaxInstant
        BY DEF Since
      <3>2. MinuteOf(Since) \in Minutes
        BY <3>1, MinutesInOrder DEF Minutes
      <3> QED
        BY <1>6, <2>1, <3>2 DEF Rollup
    <2> QED
      BY <1>6, <2>3, <2>4 DEF Rollup
  <1>7. CASE \E f \in hot : ArchiveFile(f)
    BY <1>7 DEF ArchiveFile
  <1>8. CASE StartScript \/ RollupFails \/ ArchiveEnds \/ Maintain \/ Reindex
    <2>1. /\ UNCHANGED <<instant, pending, lakeFiles, rollups, started, merges, late>>
          /\ fileIndex' \in {fileIndex, hot}
      BY <1>8 DEF StartScript, RollupFails, ArchiveEnds, Maintain, Reindex
    <2>2. failures' \in {failures, failures + 1} /\ (failures' # failures => failures < MaxFailures)
      BY <1>8 DEF StartScript, RollupFails, ArchiveEnds, Maintain, Reindex, Fail
    <2>3. script' \in {"idle", "compact", "archive", "maintain", "tidy"}
      BY <1>8 DEF StartScript, RollupFails, ArchiveEnds, Maintain, Reindex
    <2>4. failures' \in 0..MaxFailures
      BY <2>2
    <2> QED
      BY <2>1, <2>3, <2>4
  <1>9. CASE UNCHANGED marketVars
    BY <1>9 DEF marketVars
  <1> QED
    BY <1>1, <1>2, <1>4, <1>5, <1>6, <1>7, <1>8, <1>9 DEF MarketNext

\* When trades came into the files: within an instant, and a file is written after its
\* trades; what is archived was old when the script started.
Written ==
    /\ \A t \in pending : instant <= t + 1 /\ t <= instant
    /\ \A f \in hot : \A t \in f.trades : t <= f.mtime
    /\ \A f \in hot : f.mtime <= instant
    /\ \A t \in Trades(cold) : t + HotHours < started
    /\ offered \subseteq Trades(hot) \cup Trades(cold)

\* Every trade written when the last rollup started was in the window of one, unless the
\* last was too long ago.
Rolled ==
    /\ rolledUp <= started
    /\ ~late => instant < rolledUp + Lookback
    /\ ~late => \A t \in Trades(hot) \cup Trades(cold) : t + 1 < rolledUp => t \in offered

RollupInv == Written /\ Rolled /\ MinuteWhole /\ ArchivedOffered

\* Trades move between files and do not get lost.
LEMMA FilesStep ==
    ASSUME MarketTypeOK, Written, [MarketNext]_marketVars, ~AppendTrades
    PROVE  /\ Trades(hot') \cup Trades(cold') = Trades(hot) \cup Trades(cold)
           /\ \A f \in hot' : \/ f \in hot
                              \/ f.mtime = instant /\ \A t \in f.trades : t <= instant
           /\ \A t \in Trades(cold') : t \in Trades(cold) \/ (t + HotHours < started /\ instant' = instant)
  <1> USE DEF lakeFiles, rollups
  <1>1. \A f \in hot : f.trades \subseteq 1..MaxInstant /\ f.mtime \in Int
    BY DEF MarketTypeOK, TradeFiles
  <1>2. instant \in Int /\ started \in Int /\ HotHours \in Int
    BY MarketAssumption DEF MarketTypeOK
  <1>3. ASSUME NEW batch \in SUBSET hot, Merge(batch)
        PROVE  /\ Trades(hot') = Trades(hot)
               /\ \A f \in hot' : \/ f \in hot
                                  \/ f.mtime = instant /\ \A t \in f.trades : t <= instant
    <2> DEFINE whole == [trades |-> Trades(batch), mtime |-> instant]
    <2>1. hot' = (hot \ batch) \cup {whole}
      BY <1>3 DEF Merge
    <2>2. whole.trades = Trades(batch) /\ whole.mtime = instant
      OBVIOUS
    <2>3. \A t \in Trades(batch) : t <= instant
      BY <1>1, <1>2 DEF Trades, Written
    <2> HIDE DEF whole
    <2> QED
      BY <2>1, <2>2, <2>3 DEF Trades
  <1>4. CASE \E f \in hot : ArchiveFile(f)
    <2>1. PICK f \in hot : ArchiveFile(f)
      BY <1>4
    <2>2. hot' = hot \ {f} /\ cold' = cold \cup {f} /\ instant' = instant
      BY <2>1 DEF ArchiveFile
    <2>3. f.mtime + HotHours < started
      BY <2>1 DEF ArchiveFile, Archivable, Old
    <2>4. \A t \in f.trades : t + HotHours < started
      BY <1>1, <1>2, <2>3 DEF Written
    <2> QED
      BY <2>2, <2>4 DEF Trades
  <1>5. CASE Compact \/ Tidy
    <2>1. /\ Trades(hot') = Trades(hot)
          /\ \A f \in hot' : \/ f \in hot
                             \/ f.mtime = instant /\ \A t \in f.trades : t <= instant
      BY <1>3, <1>5 DEF Compact, Tidy
    <2> QED
      BY <1>5, <2>1 DEF Compact, Tidy
  <1>6. CASE \/ InstantPasses \/ StartScript \/ Rollup \/ RollupFails \/ ArchiveEnds \/ Maintain
             \/ Reindex \/ UNCHANGED marketVars
    BY <1>6
    DEF InstantPasses, StartScript, Rollup, RollupFails, ArchiveEnds, Maintain, Reindex, marketVars
  <1> QED
    BY <1>4, <1>5, <1>6 DEF MarketNext

\* The rollup reads every trade of its window, whatever the index lacks: a file with one
\* was written in the window as well.
LEMMA WindowWhole ==
    ASSUME MarketTypeOK, Written
    PROVE  Window = {t \in Trades(hot) : t >= Since}
  <1>1. \A f \in hot : f.trades \subseteq 1..MaxInstant /\ f.mtime \in Int
    BY DEF MarketTypeOK, TradeFiles
  <1>2. Since \in Int
    BY MarketAssumption DEF MarketTypeOK, Since
  <1>3. \A f \in hot : \A t \in f.trades : t >= Since => f \in RecentFiles
    BY <1>1, <1>2 DEF Written, RecentFiles
  <1>4. RecentFiles \subseteq hot
    BY DEF RecentFiles
  <1> QED
    BY <1>3, <1>4 DEF Window, Trades

LEMMA WrittenStep ==
    ASSUME MarketTypeOK, Written, [MarketNext]_marketVars
    PROVE  Written'
  <1> USE DEF lakeFiles, rollups
  <1>1. /\ instant \in Int /\ started \in Int /\ HotHours \in Int /\ started <= instant
        /\ pending \subseteq Int /\ \A f \in hot : f.mtime \in Int
        /\ Trades(cold) \subseteq Int
    BY MarketAssumption DEF MarketTypeOK, TradeFiles, Trades
  <1>2. CASE AppendTrades
    <2> DEFINE new == [trades |-> pending, mtime |-> instant]
    <2>1. /\ hot' = hot \cup {new} /\ pending' = {}
          /\ UNCHANGED <<instant, cold, offered, started>>
      BY <1>2 DEF AppendTrades
    <2>2. new.trades = pending /\ new.mtime = instant
      OBVIOUS
    <2> HIDE DEF new
    <2>3. Trades(hot) \subseteq Trades(hot')
      BY <2>1 DEF Trades
    <2>4. \A f \in hot' : f.mtime <= instant' /\ \A t \in f.trades : t <= f.mtime
      <3>1. \A f \in hot : f.mtime <= instant /\ \A t \in f.trades : t <= f.mtime
        BY DEF Written
      <3>2. new.mtime <= instant /\ \A t \in new.trades : t <= new.mtime
        <4>1. \A t \in pending : t <= instant
          BY DEF Written
        <4>2. instant <= instant
          BY <1>1
        <4> QED
          BY <2>2, <4>1, <4>2, Zenon
      <3> QED
        BY <2>1, <3>1, <3>2
    <2>5. offered' \subseteq Trades(hot') \cup Trades(cold')
      BY <2>1, <2>3 DEF Written
    <2>6. \A t \in Trades(cold') : t + HotHours < started'
      BY <2>1 DEF Written
    <2> QED
      BY <2>1, <2>4, <2>5, <2>6 DEF Written
  <1>3. CASE ~AppendTrades
    <2>1. instant' >= instant /\ started' >= started /\ instant' \in Int /\ started' \in Int
      BY <1>1, <1>3
      DEF MarketNext, InstantPasses, StartScript, Compact, Rollup, RollupFails, ArchiveFile,
          ArchiveEnds, Maintain, Tidy, Reindex, marketVars
    <2>2. \A t \in pending' : instant' <= t + 1 /\ t <= instant'
      <3>1. CASE InstantPasses
        <4>1. /\ pending \subseteq {instant} /\ instant' = instant + 1
              /\ pending' = pending \/ pending' = pending \cup {instant'}
          BY <3>1 DEF InstantPasses
        <4>2. \A t \in pending' : t = instant \/ t = instant + 1
          BY <4>1
        <4> QED
          BY <1>1, <4>1, <4>2
      <3>2. CASE ~InstantPasses
        BY <1>3, <3>2
        DEF MarketNext, StartScript, Compact, Rollup, RollupFails, ArchiveFile,
            ArchiveEnds, Maintain, Tidy, Reindex, marketVars, Written
      <3> QED
        BY <3>1, <3>2
    <2>3. \A f \in hot' : f.mtime <= instant' /\ \A t \in f.trades : t <= f.mtime
      BY <1>1, <1>3, <2>1, FilesStep DEF Written
    <2>4. \A t \in Trades(cold') : t + HotHours < started'
      <3>1. \A t \in Trades(cold') : t + HotHours < started
        BY <1>3, FilesStep DEF Written
      <3>2. Trades(cold') \subseteq Int
        BY MarketTypesStep DEF MarketTypeOK, TradeFiles, Trades
      <3> QED
        BY <1>1, <2>1, <3>1, <3>2
    <2>5. offered' \subseteq Trades(hot') \cup Trades(cold')
      <3>1. offered' \subseteq offered \cup Trades(hot)
        BY <1>3
        DEF MarketNext, InstantPasses, StartScript, Compact, Rollup, RollupFails, ArchiveFile,
            ArchiveEnds, Maintain, Tidy, Reindex, marketVars
      <3> QED
        BY <1>3, <3>1, FilesStep DEF Written
    <2> QED
      BY <2>2, <2>3, <2>4, <2>5 DEF Written
  <1> QED
    BY <1>2, <1>3

LEMMA RolledStep ==
    ASSUME MarketTypeOK, Written, Rolled, [MarketNext]_marketVars
    PROVE  Rolled'
  <1> USE DEF lakeFiles, rollups
  <1>1. /\ instant \in Int /\ started \in Int /\ HotHours \in Int /\ Lookback \in Int
        /\ rolledUp \in Int /\ started <= instant /\ Lookback <= HotHours /\ Lookback >= 1
        /\ Trades(hot) \subseteq Nat /\ Trades(cold) \subseteq Nat /\ pending \subseteq Nat
    BY MarketAssumption DEF MarketTypeOK, TradeFiles, Trades
  <1>2. CASE AppendTrades
    <2>1. /\ Trades(hot') = Trades(hot) \cup pending
          /\ UNCHANGED <<instant, cold, offered, rolledUp, started, late>>
      <3> DEFINE new == [trades |-> pending, mtime |-> instant]
      <3>1. hot' = hot \cup {new} /\ UNCHANGED <<instant, cold, offered, rolledUp, started, late>>
        BY <1>2 DEF AppendTrades
      <3>2. new.trades = pending
        OBVIOUS
      <3> HIDE DEF new
      <3> QED
        BY <3>1, <3>2 DEF Trades
    <2>2. (rolledUp <= started)' /\ (~late => instant < rolledUp + Lookback)'
      BY <2>1 DEF Rolled
    <2>3. \A t \in pending : ~(t + 1 < rolledUp)
      BY <1>1 DEF Rolled, Written
    <2>4. ~late' => \A t \in Trades(hot') \cup Trades(cold') : t + 1 < rolledUp' => t \in offered'
      BY <2>1, <2>3 DEF Rolled
    <2> QED
      BY <2>2, <2>4 DEF Rolled
  <1>3. CASE Rollup
    <2>1. /\ UNCHANGED <<instant, hot, cold, started, late>>
          /\ rolledUp' = started
          /\ offered' = offered \cup {t \in Trades(hot) : t >= Since}
      BY <1>3 DEF Rollup
    <2>2. /\ Since \in Nat /\ (Since > 0 => Since = started - Lookback)
      BY <1>1, MarketAssumption DEF Since, MarketTypeOK
    <2>3. ASSUME ~late, NEW t \in Trades(hot) \cup Trades(cold) PROVE t \in offered'
      <3>1. CASE t \in Trades(hot) /\ t >= Since
        BY <2>1, <3>1
      <3>2. CASE t \in Trades(hot) /\ t < Since
        BY <1>1, <2>1, <2>2, <2>3, <3>2 DEF Rolled
      <3>3. CASE t \in Trades(cold)
        BY <1>1, <2>1, <2>3, <3>3 DEF Rolled, Written
      <3> QED
        BY <1>1, <2>2, <2>3, <3>1, <3>2, <3>3
    <2> QED
      BY <1>1, <2>1, <2>3 DEF Rolled
  <1>4. CASE ~AppendTrades /\ ~Rollup
    <2>1. /\ Trades(hot') \cup Trades(cold') = Trades(hot) \cup Trades(cold)
          /\ UNCHANGED <<offered, rolledUp>>
      BY <1>4, FilesStep
      DEF MarketNext, InstantPasses, StartScript, Compact, RollupFails, ArchiveFile,
          ArchiveEnds, Maintain, Tidy, Reindex, marketVars
    <2>2. \/ instant' = instant /\ late' = late
          \/ late' = (late \/ instant' >= rolledUp + Lookback)
      BY <1>1, <1>4
      DEF MarketNext, InstantPasses, StartScript, Compact, RollupFails, ArchiveFile,
          ArchiveEnds, Maintain, Tidy, Reindex, marketVars
    <2>3. instant' \in Int
      BY MarketTypesStep DEF MarketTypeOK
    <2>4. started' >= started
      BY <1>1, <1>4
      DEF MarketNext, InstantPasses, StartScript, Compact, RollupFails, ArchiveFile,
          ArchiveEnds, Maintain, Tidy, Reindex, marketVars
    <2>5. started' \in Int
      BY MarketTypesStep DEF MarketTypeOK
    <2>6. (rolledUp <= started)'
      BY <1>1, <2>1, <2>4, <2>5 DEF Rolled
    <2>7. ~late' => ~late
      BY <2>2
    <2>8. ~late' => instant' < rolledUp' + Lookback
      <3>1. CASE instant' = instant /\ late' = late
        BY <2>1, <3>1 DEF Rolled
      <3>2. CASE late' = (late \/ instant' >= rolledUp + Lookback)
        <4>1. ~late' => ~(instant' >= rolledUp + Lookback)
          BY <3>2
        <4> QED
          BY <1>1, <2>1, <2>3, <4>1
      <3> QED
        BY <2>2, <3>1, <3>2
    <2>9. ~late' => \A t \in Trades(hot') \cup Trades(cold') : t + 1 < rolledUp' => t \in offered'
      BY <2>1, <2>7 DEF Rolled
    <2> QED
      BY <2>6, <2>8, <2>9 DEF Rolled
  <1> QED
    BY <1>2, <1>3, <1>4

\* A rollup replaces a minute by the whole of it, unless its window begins in the middle
\* of it.
LEMMA MinuteWholeStep ==
    ASSUME MarketTypeOK, Written, MinuteWhole, [MarketNext]_marketVars
    PROVE  MinuteWhole'
  <1>1. CASE ~Rollup
    <2>1. UNCHANGED <<activity, offered, cut>>
      BY <1>1
      DEF MarketNext, InstantPasses, AppendTrades, StartScript, Compact, RollupFails, ArchiveFile,
          ArchiveEnds, Maintain, Tidy, Reindex, marketVars, rollups
    <2> QED
      BY <2>1 DEF MinuteWhole
  <1>2. CASE Rollup
    <2>1. /\ activity' = [m \in Minutes |->
                 IF InMinute(Window, m) # {} THEN InMinute(Window, m) ELSE activity[m]]
          /\ offered' = offered \cup {t \in Trades(hot) : t >= Since}
          /\ cut' = cut \cup {m \in {MinuteOf(Since)} : Since % MinuteLength # 0}
      BY <1>2 DEF Rollup
    <2>2. /\ started \in Nat /\ HotHours \in Nat /\ Lookback \in Nat \ {0} /\ MaxInstant \in Nat
          /\ Lookback <= HotHours
          /\ Trades(hot) \subseteq 1..MaxInstant /\ Trades(cold) \subseteq 1..MaxInstant
          /\ Since \in Nat /\ (Since > 0 => Since = started - Lookback)
          /\ Since = 0 => started <= Lookback
      BY MarketAssumption DEF MarketTypeOK, TradeFiles, Trades, Since
    <2>3. SUFFICES ASSUME NEW t \in offered', MinuteOf(t) \notin cut'
                   PROVE  t \in activity'[MinuteOf(t)]
      BY DEF MinuteWhole
    <2>4. t \in Trades(hot) \cup Trades(cold)
      BY <2>1, <2>3 DEF Written
    <2>5. t \in 1..MaxInstant /\ MinuteOf(t) \in Minutes
      BY <2>2, <2>4, MinutesInOrder DEF Minutes
    <2>6. CASE t \in Window
      BY <2>1, <2>5, <2>6 DEF InMinute
    <2>7. CASE t \notin Window
      <3>1. t \in offered /\ t < Since
        <4>1. CASE t \in Trades(hot)
          BY <2>1, <2>2, <2>3, <2>5, <2>7, <4>1, WindowWhole
        <4>2. CASE t \in Trades(cold)
          <5>1. t + HotHours < started
            BY <4>2 DEF Written
          <5>2. t < Since
            BY <2>2, <2>5, <5>1
          <5> QED
            BY <2>1, <2>2, <2>3, <2>5, <5>2
        <4> QED
          BY <2>4, <4>1, <4>2
      <3>2. t \in activity[MinuteOf(t)]
        BY <2>1, <2>3, <3>1 DEF MinuteWhole
      <3>3. InMinute(Window, MinuteOf(t)) = {}
        <4>1. SUFFICES ASSUME NEW u \in Window, MinuteOf(u) = MinuteOf(t) PROVE FALSE
          BY DEF InMinute
        <4>2. u \in Nat /\ Since <= u
          BY <2>2, WindowWhole
        <4>3. MinuteOf(t) <= MinuteOf(Since) /\ MinuteOf(Since) <= MinuteOf(u)
          BY <2>2, <2>5, <3>1, <4>2, MinutesInOrder
        <4>4. /\ MinuteOf(t) \in Nat /\ MinuteOf(Since) \in Nat
          BY <2>2, <2>5, MinutesInOrder
        <4>5. MinuteOf(t) = MinuteOf(Since)
          BY <4>1, <4>3, <4>4
        <4>6. Since % MinuteLength # 0
          BY <2>2, <2>5, <3>1, <4>4, <4>5, MinutesInOrder
        <4> QED
          BY <2>1, <2>3, <4>5, <4>6
      <3> QED
        BY <2>1, <2>5, <3>2, <3>3
    <2> QED
      BY <2>6, <2>7
  <1> QED
    BY <1>1, <1>2

\* What is old enough to be archived was written when the last rollup started.
LEMMA ArchivedOfferedStep ==
    ASSUME MarketTypeOK, Written, Rolled, ArchivedOffered, [MarketNext]_marketVars
    PROVE  ArchivedOffered'
  <1>1. CASE \E f \in hot : ArchiveFile(f)
    <2>1. PICK f \in hot : ArchiveFile(f)
      BY <1>1
    <2>2. /\ cold' = cold \cup {f} /\ UNCHANGED <<offered, late>>
          /\ f.mtime + HotHours < started
      BY <2>1 DEF ArchiveFile, Archivable, Old, rollups
    <2>3. ASSUME ~late, NEW t \in f.trades PROVE t \in offered
      <3>1. /\ t \in Int /\ f.mtime \in Int /\ started \in Int /\ instant \in Int
            /\ rolledUp \in Int /\ started <= instant /\ HotHours \in Int /\ Lookback \in Int
            /\ Lookback <= HotHours
        BY MarketAssumption DEF MarketTypeOK, TradeFiles
      <3>2. t <= f.mtime /\ instant < rolledUp + Lookback
        BY <2>3 DEF Written, Rolled
      <3>3. t + 1 < rolledUp
        BY <2>2, <3>1, <3>2
      <3>4. t \in Trades(hot)
        BY DEF Trades
      <3> QED
        BY <2>3, <3>3, <3>4 DEF Rolled
    <2>4. Trades(cold') = Trades(cold) \cup f.trades
      BY <2>2 DEF Trades
    <2> QED
      BY <2>2, <2>3, <2>4 DEF ArchivedOffered
  <1>2. CASE ~ \E f \in hot : ArchiveFile(f)
    <2>1. cold' = cold /\ offered \subseteq offered'
      BY <1>2
      DEF MarketNext, InstantPasses, AppendTrades, StartScript, Compact, Rollup, RollupFails,
          ArchiveEnds, Maintain, Tidy, Reindex, marketVars, rollups, lakeFiles
    <2>2. ~late' => ~late
      <3>1. late' = late \/ late' = (late \/ instant' >= rolledUp + Lookback)
        BY <1>2
        DEF MarketNext, InstantPasses, AppendTrades, StartScript, Compact, Rollup, RollupFails,
            ArchiveEnds, Maintain, Tidy, Reindex, marketVars
      <3> QED
        BY <3>1
    <2> QED
      BY <2>1, <2>2 DEF ArchivedOffered
  <1> QED
    BY <1>1, <1>2

\* The invariant of the rollup holds from the start.
LEMMA MarketInitial == MarketInit => MarketTypeOK /\ RollupInv
  <1> SUFFICES ASSUME MarketInit PROVE MarketTypeOK /\ RollupInv
    OBVIOUS
  <1>1. Trades({}) = {}
    BY DEF Trades
  <1>2. MarketTypeOK
    <2>1. MaxInstant \in Nat /\ MaxMerges \in Nat /\ MaxFailures \in Nat
      BY MarketAssumption
    <2>2. activity \in [Minutes -> SUBSET (1..MaxInstant)]
      BY DEF MarketInit
    <2>3. instant \in 0..MaxInstant /\ started \in 0..instant /\ rolledUp \in 0..instant
      BY <2>1 DEF MarketInit
    <2>4. merges \in 0..MaxMerges /\ failures \in 0..MaxFailures
      BY <2>1 DEF MarketInit
    <2>5. hot \subseteq TradeFiles /\ cold \subseteq TradeFiles /\ fileIndex \subseteq TradeFiles
      BY DEF MarketInit
    <2>6. /\ pending \subseteq 1..MaxInstant /\ offered \subseteq 1..MaxInstant
          /\ cut \subseteq Minutes
      BY DEF MarketInit
    <2>7. late \in BOOLEAN
      BY Zenon DEF MarketInit
    <2>8. script \in {"idle", "compact", "rollup", "archive", "maintain", "tidy", "reindex"}
      BY DEF MarketInit
    <2> QED
      BY <2>2, <2>3, <2>4, <2>5, <2>6, <2>7, <2>8, Zenon DEF MarketTypeOK
  <1> QED
    BY <1>1, <1>2, MarketAssumption
    DEF MarketInit, RollupInv, Written, Rolled, MinuteWhole, ArchivedOffered

LEMMA MarketAlways == MarketSpec => [](MarketTypeOK /\ RollupInv)
  <1>1. MarketTypeOK /\ RollupInv /\ [MarketNext]_marketVars => (MarketTypeOK /\ RollupInv)'
    BY MarketTypesStep, WrittenStep, RolledStep, MinuteWholeStep, ArchivedOfferedStep
    DEF RollupInv
  <1> QED
    BY <1>1, MarketInitial, PTL DEF MarketSpec

\* A trade counted once stays counted in its minute, whatever is merged, archived or
\* missing from the index when later rollups run, and however long the script takes
\* (compact_market_data.py, build_trade_activity_1m_rollup).
THEOREM MinutesStayWhole == MarketSpec => []MinuteWhole
  <1>1. RollupInv => MinuteWhole
    BY DEF RollupInv
  <1> QED
    BY <1>1, MarketAlways, PTL

\* Only trades that a rollup had in its window are archived, as long as one is written
\* in every lookback (compact_market_data.py, _archive_old_high_frequency_files).
THEOREM OnlyOfferedArchived == MarketSpec => []ArchivedOffered
  <1>1. RollupInv => ArchivedOffered
    BY DEF RollupInv
  <1> QED
    BY <1>1, MarketAlways, PTL
=============================================================================
