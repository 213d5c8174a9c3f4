---------------------------- MODULE DatasetProofs ----------------------------
(***************************************************************************)
(* The dataset lock excludes, for every set of jobs, but for its two lapses.*)
(* What keeps the file of a holder from being broken is that a file        *)
(* somebody is about to break is abandoned, or another than was judged.    *)
(* The jobs of DatasetStore touch the lock in no other way, so it excludes  *)
(* them whatever they do under it and wherever they are killed.             *)
(* So one job at a time is at work: its rows are kept, found and not        *)
(* doubled but for the named incidents, and readers, who take no lock, read *)
(* one moment of the dataset or one of the named mixtures.                  *)
(***************************************************************************)
EXTENDS DatasetStore, TLAPS

HolderCreated ==
    \A j \in Jobs :
       /\ Holds(j) => lock.by = j
       /\ stage[j] = "opened" => lock.pid = NoJob

Abandoned == lock.by # NoJob => ~Holds(lock.by)

\* The file names nobody but its creator, and it is empty after 5 s or there after
\* 600 s only if its creator is gone.
NamesCreator ==
    /\ lock.pid \in {NoJob, lock.by}
    /\ lock.by = NoJob => lock = NoLock
    /\ lock.age = "aged" /\ lock.pid = NoJob => Abandoned
    /\ lock.age = "old" => Abandoned

\* An age over 5 s that a job has taken is still about the file that is there.
LooksAtIt ==
    \A j \in Jobs \ outdated :
       /\ stage[j] = "aged" => lock = NoLock \/ lock.age \in {"aged", "old"}
       /\ stage[j] = "old" => lock = NoLock \/ lock.age = "old"

BreaksAbandoned == \A j \in Jobs \ outdated : stage[j] = "breaking" => Abandoned

\* It holds as long as there was no lapse.
LockInv == LockTypeOK /\ HolderCreated /\ NamesCreator /\ LooksAtIt /\ BreaksAbandoned

\* The inductive invariant gives the exclusion: both holders created the file.
LEMMA LockInvExcludes == LockInv => \A i, j \in Jobs : Holds(i) /\ Holds(j) => i = j
  BY DEF LockInv, HolderCreated

LEMMA LockInvInit == LockInit => LockInv
  BY JobsAssumption DEF LockInit, LockInv, LockTypeOK, HolderCreated, NamesCreator,
     LooksAtIt, BreaksAbandoned, Abandoned, NoLock, LockFiles, Stages, Ages, Holds, Dead

\* One step per action: who holds, what the file says, who has looked at it and
\* who is breaking it.
LEMMA LockInvStep == LockInv /\ [LockNext]_lockVars /\ lapses' = {} => LockInv'
<1> SUFFICES ASSUME LockInv, [LockNext]_lockVars, lapses' = {} PROVE LockInv'
  OBVIOUS
<1> USE JobsAssumption DEF LockInv, LockTypeOK, HolderCreated, NamesCreator, LooksAtIt,
        BreaksAbandoned, Abandoned, LockFiles, Stages, Ages, NoLock, Goto, Holds, Dead
<1>1. CASE LockAges
  <2>1. lock.pid = NoJob \/ lock.age = "aged" => Abandoned
    BY <1>1 DEF LockAges, AtWork
  <2>2. QED
    BY <1>1, <2>1 DEF LockAges
<1>2. ASSUME NEW j \in Jobs, Ask(j) PROVE LockInv'
  BY <1>2 DEF Ask
<1>3. ASSUME NEW j \in Jobs, CreateLock(j) PROVE LockInv'
  BY <1>3 DEF CreateLock
<1>4. ASSUME NEW j \in Jobs, WritePid(j) PROVE LockInv'
  <2>1. lock.by = j /\ lock.age = "fresh" /\ j # NoJob
    BY <1>4 DEF WritePid
  <2>2. lock' = [by |-> j, pid |-> j, age |-> "fresh"] /\ stage' = [stage EXCEPT ![j] = "in"]
    BY <1>4, <2>1 DEF WritePid
  <2>3. \A i \in Jobs \ outdated : stage[i] \notin {"aged", "old", "breaking"}
    BY <1>4, <2>1 DEF WritePid
  <2>4. QED
    BY <1>4, <2>1, <2>2, <2>3 DEF WritePid
<1>5. ASSUME NEW j \in Jobs, WritePidFails(j) PROVE LockInv'
  BY <1>5 DEF WritePidFails
<1>6. ASSUME NEW j \in Jobs, StatLock(j) PROVE LockInv'
  BY <1>6 DEF StatLock
<1>7. ASSUME NEW j \in Jobs, JudgeStale(j) PROVE LockInv'
  BY <1>7 DEF JudgeStale, Stale
<1>8. ASSUME NEW j \in Jobs, JudgeLive(j) PROVE LockInv'
  BY <1>8 DEF JudgeLive
<1>9. ASSUME NEW j \in Jobs, GiveUp(j) PROVE LockInv'
  BY <1>9 DEF GiveUp
<1>10. ASSUME NEW j \in Jobs, BreakLock(j) PROVE LockInv'
  <2>1. Abandoned
    BY <1>10 DEF BreakLock, AtWork
  <2>2. QED
    BY <1>10, <2>1 DEF BreakLock
<1>11. ASSUME NEW j \in Jobs, Unlock(j) PROVE LockInv'
  BY <1>11 DEF Unlock
<1>12. ASSUME NEW j \in Jobs, Die(j) PROVE LockInv'
  BY <1>12 DEF Die
<1>13. CASE UNCHANGED lockVars
  BY <1>13 DEF lockVars
<1>14. QED
  BY <1>1, <1>2, <1>3, <1>4, <1>5, <1>6, <1>7, <1>8, <1>9, <1>10, <1>11, <1>12, <1>13 DEF LockNext

\* A lapse is not forgotten.
LEMMA LapsesStay == [LockNext]_lockVars => (lapses' = {} => lapses = {})
  BY DEF LockNext, lockVars, LockAges, Ask, CreateLock, WritePid, WritePidFails, StatLock, JudgeStale,
         JudgeLive, GiveUp, BreakLock, Unlock, Die

\* The lock lets in one writer at a time, wherever jobs die and whoever breaks what file,
\* until a job at work is slow or has its file unlinked by one that judged the file before
\* it (lake.py 1877-1911).
THEOREM LockExcludes == LockSpec => []OneWriter
<1>1. LockInit => LockInv
  BY LockInvInit
<1>2. (lapses = {} => LockInv) /\ [LockNext]_lockVars => (lapses = {} => LockInv)'
  BY LockInvStep, LapsesStay
<1>3. (lapses = {} => LockInv) => OneWriter
  BY LockInvExcludes DEF OneWriter
<1>4. QED
  BY <1>1, <1>2, <1>3, PTL DEF LockSpec

------------------------------------------------------------------------------
\* Each step of a job is a step of the lock protocol or leaves the lock alone.
LEMMA JobStepsLock ==
  ASSUME NEW j \in Jobs, JobStep(j)
  PROVE  LockNext \/ UNCHANGED lockVars
<1>1. CASE Begin(j)
  BY <1>1 DEF Begin, LockNext
<1>2. CASE Look(j)
  BY <1>2 DEF Look, lockVars
<1>3. CASE BeginSeen(j)
  BY <1>3 DEF BeginSeen, LockNext
<1>4. CASE Lock(j)
  BY <1>4 DEF Lock, LockNext
<1>5. CASE NotLocked(j)
  BY <1>5 DEF NotLocked, LockNext
<1>6. CASE Finish(j)
  BY <1>6 DEF Finish, LockNext
<1>7. CASE \/ StartAppend(j) \/ AppendChunk(j) \/ AppendFails(j) \/ FinishAppend(j)
           \/ StageDirect(j) \/ UnlinkSource(j) \/ MoveCompacted(j) \/ FinishDirect(j)
           \/ DirectFails(j)
  BY <1>7 DEF StartAppend, AppendChunk, AppendFails, FinishAppend, StageDirect,
     UnlinkSource, MoveCompacted, FinishDirect, DirectFails, lockVars
<1>8. CASE \/ StageRepair(j) \/ MoveRepaired(j) \/ UnlinkBad(j) \/ FinishRepair(j)
            \/ RepairFails(j)
  BY <1>8 DEF StageRepair, MoveRepaired, UnlinkBad, FinishRepair, RepairFails, lockVars
<1>9. CASE \/ StageRewrite(j) \/ MoveAway(j) \/ MoveIn(j) \/ DiscardBackup(j)
           \/ GiveUpRewrite(j) \/ MoveInFails(j) \/ Restore(j) \/ RestoreFails(j)
  BY <1>9 DEF StageRewrite, MoveAway, MoveIn, DiscardBackup, GiveUpRewrite,
     MoveInFails, Restore, RestoreFails, lockVars
<1>10. CASE Crash(j)
  BY <1>10 DEF Crash, LockNext
<1>11. QED
  BY <1>1, <1>4, <1>5, <1>6, <1>7, <1>9, <1>10, <1>2, <1>3, <1>8 DEF JobStep

\* Readers do not touch the lock, and time does to it what it does in the protocol.
LEMMA StoreStepsLock == [StoreNext]_storeVars => [LockNext]_lockVars
<1> SUFFICES ASSUME [StoreNext]_storeVars PROVE [LockNext]_lockVars
  OBVIOUS
<1>1. ASSUME NEW j \in Jobs, JobStep(j) PROVE LockNext \/ UNCHANGED lockVars
  BY <1>1, JobStepsLock
<1>2. ASSUME NEW r \in Readers, ListFiles(r) \/ CheckFile(r) \/ ReadFile(r) \/ EndRead(r) \/ UseRows(r)
      PROVE  UNCHANGED lockVars
  BY <1>2 DEF ListFiles, CheckFile, ReadFile, EndRead, UseRows, lockVars
<1>3. ASSUME Age PROVE LockNext
  BY <1>3 DEF Age, LockNext
<1>4. CASE StoreNext
  BY <1>1, <1>2, <1>3, <1>4 DEF StoreNext
<1>5. CASE UNCHANGED storeVars
  BY <1>5 DEF storeVars, lockVars
<1>6. QED
  BY <1>4, <1>5

LEMMA StoreLapsesStay == [StoreNext]_storeVars => (lapses' = {} => lapses = {})
  BY StoreStepsLock, LapsesStay

\* The jobs of a dataset run the lock protocol, whatever they do under the lock.
THEOREM StoreImplementsLock == StoreSpec => LockSpec
<1>1. StoreInit => LockInit
  BY DEF StoreInit
<1>2. [StoreNext]_storeVars => [LockNext]_lockVars
  BY StoreStepsLock
<1>3. QED
  BY <1>1, <1>2, PTL DEF StoreSpec, LockSpec

\* One job at a time works on a dataset, whatever it does and wherever it is killed, until
\* the lock lapses.
THEOREM OneWriterWorks == StoreSpec => []OneWriter
  BY StoreImplementsLock, LockExcludes, PTL

-----------------------------------------------------------------------------
(***************************************************************************)
(* What jobs do to the rows of a dataset and what readers get of them, for *)
(* every set of jobs, readers and keys and every bound.                    *)
(*                                                                         *)
(* The lock lets one job at work at a time (OneWriterWorks), so what it    *)
(* does to its own record w and to the directory d is a relation between   *)
(* (w, d) and (w2, d2): Works, the disjunction of fifteen of them.  Every  *)
(* action of JobStep is one of them (Acts) or is without effect on the     *)
(* files (Rests).  On top of that stand three invariants:                  *)
(*   RowsInv   a job that has set rows aside carries all the rows that     *)
(*             are to come back or to be replaced (Carries, Kept);         *)
(*   OnceInv   an operation's rows are new until it begins to write, and   *)
(*             neither the dataset nor what a job will make of it has a    *)
(*             row in two files (OldRows, RowsOnce);                       *)
(*   ReadsInv  a name that is not data.parquet is that of one file for     *)
(*             ever (NamesInv), so what a reader has got is of the files   *)
(*             it listed, but for one data.parquet (ReaderInv).            *)
(***************************************************************************)


(***************************************************************************)
(* What jobs, directories and readers look like.                           *)
(***************************************************************************)
Quiet == {"none", "look", "start"}
Steps == Quiet \cup {"chunks", "direct", "repair", "away", "in", "discard", "restore", "leave"}
RowType == [key : Keys, write : Nat]
FileName == {<<"data">>} \cup ({"part", "compact", "repair"} \X Nat \X Keys)
FileType == [name : FileName, rows : SUBSET RowType]
DirType ==
    {d \in [there : BOOLEAN, files : SUBSET FileType, hidden : SUBSET FileType] :
        d.there \/ d = NoDirectory}
WorkType ==
    [step : Steps, op : Rewrites \cup {"none", "append", "direct", "repair"}, n : Nat,
     batch : SUBSET RowType, seen : SUBSET RowType, todo : SUBSET FileType,
     staged : SUBSET FileType, backup : DirType]
ReaderType ==
    [at : {"idle", "reading", "done"}, listed : SUBSET FileName, todo : SUBSET FileName,
     got : SUBSET RowType, passed : BOOLEAN, twice : BOOLEAN, mixed : BOOLEAN,
     first : SUBSET FileType, moments : SUBSET SUBSET RowType, doubled : BOOLEAN]

StoreShape ==
    /\ dataset \in DirType
    /\ work \in [Jobs -> WorkType]
    /\ orphans \subseteq DirType
    /\ writes \in Nat
    /\ reader \in [Readers -> ReaderType]
    /\ committed \subseteq RowType

\* A job that changes things.
Busy(w) == w.step \notin Quiet

\* Operations and steps go together.  The dataset is nowhere but in the backup of a job
\* that has one to put back.
InStep(w, d) ==
    /\ w.step = "chunks" => w.op = "append" /\ d.there
    /\ w.step = "direct" => w.op \in Appends
    /\ w.step = "repair" => w.op = "repair" /\ (w.staged # {} => d.there)
    /\ w.step \in {"away", "in", "discard", "restore"} => w.op \in Rewrites
    /\ w.step \in {"in", "restore"} => d = NoDirectory
    /\ w.step \notin {"in", "discard", "restore"} => w.backup = NoDirectory
    /\ w.step \in Quiet => w.todo = {} /\ w.staged = {}

\* As long as the lock has not lapsed.
WorkInv ==
    /\ LockInv
    /\ StoreShape
    /\ \A j \in Jobs : (Busy(work[j]) => stage[j] = "in") /\ InStep(work[j], dataset)

------------------------------------------------------------------------------
LEMMA RowsOf ==
  ASSUME NEW files \in SUBSET FileType
  PROVE  Rows(files) \subseteq RowType
  BY DEF Rows, FileType

LEMMA FileIs ==
  ASSUME NEW name \in FileName, NEW rows \in SUBSET RowType
  PROVE  [name |-> name, rows |-> rows] \in FileType
  BY DEF FileType

LEMMA ChunksAre ==
  ASSUME NEW prefix \in {"part", "compact", "repair"}, NEW n \in Nat, NEW rows \in SUBSET RowType
  PROVE  Chunks(prefix, n, rows) \in SUBSET FileType
<1> SUFFICES ASSUME NEW k \in KeysOf(rows)
             PROVE  [name |-> <<prefix, n, k>>, rows |-> {r \in rows : r.key = k}] \in FileType
  BY DEF Chunks
<1> DEFINE name == <<prefix, n, k>>  some == {r \in rows : r.key = k}
<1>1. k \in Keys
  BY DEF KeysOf, RowType
<1>2. name \in FileName
  BY <1>1 DEF FileName, name
<1>3. some \in SUBSET RowType
  BY DEF some
<1> HIDE DEF name, some
<1>4. [name |-> name, rows |-> some] \in FileType
  BY <1>2, <1>3, FileIs
<1>5. QED
  BY <1>4 DEF name, some

LEMMA RowsOfChunks ==
  ASSUME NEW prefix, NEW n, NEW rows
  PROVE  Rows(Chunks(prefix, n, rows)) = rows
<1> DEFINE chunk(k) == [name |-> <<prefix, n, k>>, rows |-> {r \in rows : r.key = k}]
<1>1. ASSUME NEW k PROVE chunk(k).rows = {r \in rows : r.key = k}
  OBVIOUS
<1> HIDE DEF chunk
<1>2. Rows({chunk(k) : k \in KeysOf(rows)}) = rows
  BY <1>1 DEF Rows, KeysOf
<1>3. QED
  BY <1>2 DEF Chunks, chunk

LEMMA RowsOfDataFile ==
  ASSUME NEW rows
  PROVE  Rows({DataFile(rows)}) = rows
  BY DEF Rows, DataFile

LEMMA DataFileIs ==
  ASSUME NEW rows \in SUBSET RowType
  PROVE  DataFile(rows) \in FileType
  BY DEF DataFile, FileType, FileName

LEMMA UpsertedIs ==
  ASSUME NEW rows \in SUBSET RowType, NEW batch \in SUBSET RowType
  PROVE  Upserted(rows, batch) \in SUBSET RowType
  BY DEF Upserted

LEMMA NoDirectoryIs == NoDirectory \in DirType
  BY DEF NoDirectory, DirType

LEMMA DirectoryIs ==
  ASSUME NEW files \in SUBSET FileType, NEW hidden \in SUBSET FileType
  PROVE  Directory(files, hidden) \in DirType
  BY DEF Directory, DirType

LEMMA NoWorkIs == NoWork \in WorkType
  BY NoDirectoryIs DEF NoWork, WorkType, Steps, Quiet

\* A directory whose files change stays one, if it is there.
LEMMA FilesChange ==
  ASSUME NEW d \in DirType, NEW files \in SUBSET FileType, d.there \/ files = {}
  PROVE  /\ [d EXCEPT !.files = files] \in DirType
         /\ [d EXCEPT !.files = files].files = files
         /\ [d EXCEPT !.files = files].hidden = d.hidden
         /\ [d EXCEPT !.files = files].there = d.there
  BY DEF DirType, NoDirectory

LEMMA HiddenShrinks ==
  ASSUME NEW d \in DirType, NEW gone
  PROVE  /\ [d EXCEPT !.hidden = @ \ gone] \in DirType
         /\ [d EXCEPT !.hidden = @ \ gone].files = d.files
         /\ [d EXCEPT !.hidden = @ \ gone].hidden = d.hidden \ gone
         /\ [d EXCEPT !.hidden = @ \ gone].there = d.there
  BY DEF DirType, NoDirectory

LEMMA NothingThere ==
  ASSUME NEW d \in DirType
  PROVE  d.files # {} \/ d.hidden # {} => d.there
  BY DEF DirType, NoDirectory

\* What Put leaves of the readers.
LEMMA PutIs ==
  ASSUME NEW d \in DirType, StoreShape, Put(d)
  PROVE  dataset' \in DirType /\ reader' \in [Readers -> ReaderType]
<1>1. Rows(d.files) \in SUBSET RowType
  BY RowsOf DEF DirType
<1>2. ASSUME NEW r \in Readers PROVE reader'[r] \in ReaderType
  <2> DEFINE R == reader[r]  more == R.moments \cup {Rows(d.files)}  twice == R.doubled \/ Doubled(d.files)
  <2>1. R \in ReaderType
    BY DEF StoreShape
  <2>2. more \in SUBSET SUBSET RowType /\ twice \in BOOLEAN
    BY <1>1, <2>1 DEF ReaderType
  <2>3. reader'[r] = IF R.at = "reading" THEN [R EXCEPT !.moments = more, !.doubled = twice] ELSE R
    BY DEF Put
  <2> HIDE DEF R, more, twice
  <2> USE <2>1, <2>2
  <2>4. [R EXCEPT !.moments = more, !.doubled = twice] \in ReaderType
    BY DEF ReaderType
  <2>5. QED
    BY <2>3, <2>4
<1>3. reader' = [r \in Readers |-> reader'[r]] /\ dataset' = d
  BY DEF Put
<1>4. QED
  BY <1>2, <1>3

------------------------------------------------------------------------------
(***************************************************************************)
(* What a step of a job does to its work w and the directory d.            *)
(***************************************************************************)
Becomes(w2, w, step, todo, staged, backup) ==
    /\ w2.op = w.op /\ w2.n = w.n /\ w2.batch = w.batch /\ w2.seen = w.seen
    /\ w2.step = step /\ w2.todo = todo /\ w2.staged = staged /\ w2.backup = backup
Leaves(w2) == w2 = [NoWork EXCEPT !.step = "leave"]
Has(d, files, hidden) == d.files = files /\ d.hidden = hidden
Parts(d) == {f \in d.files : f.name[1] = "part"}

StartsAppend(w, d, w2, d2) ==
    /\ w.step = "start" /\ w.op = "append"
    /\ Becomes(w2, w, "chunks", Chunks("part", w.n, w.batch), {}, NoDirectory)
    /\ d2 = Directory(d.files, d.hidden)
AppendsChunk(w, d, w2, d2) ==
    /\ w.step = "chunks"
    /\ \E f \in w.todo :
          /\ Becomes(w2, w, "chunks", w.todo \ {f}, w.staged, w.backup)
          /\ Has(d2, d.files \cup {f}, d.hidden)
StagesDirect(w, d, w2, d2) ==
    /\ w.op \in Appends
    /\ w.step = "start" \/ (w.step = "chunks" /\ w.todo = {})
    /\ \E some \in SUBSET d.files :
          Becomes(w2, w, "direct", some, Chunks("compact", w.n, Rows(some)), NoDirectory)
    /\ Has(d2, d.files, d.hidden \cup w2.staged)
UnlinksSource(w, d, w2, d2) ==
    /\ w.step = "direct"
    /\ \E f \in w.todo :
          /\ Becomes(w2, w, "direct", w.todo \ {f}, w.staged, w.backup)
          /\ Has(d2, d.files \ {f}, d.hidden)
MovesCompacted(w, d, w2, d2) ==
    /\ w.step = "direct" /\ w.todo = {}
    /\ w2 = w
    /\ \E f \in w.staged \cap d.hidden : Has(d2, d.files \cup {f}, d.hidden \ {f})
StagesRepair(w, d, w2, d2) ==
    /\ w.step = "start" /\ w.op = "repair"
    /\ \E bad \in (SUBSET Parts(d)) \ {{}} :
          Becomes(w2, w, "repair", bad, Chunks("repair", w.n, Rows(bad)), NoDirectory)
    /\ d2 = d
MovesRepaired(w, d, w2, d2) ==
    /\ w.step = "repair"
    /\ \E f \in w.staged :
          /\ Becomes(w2, w, "repair", w.todo, w.staged \ {f}, w.backup)
          /\ Has(d2, d.files \cup {f}, d.hidden)
UnlinksBad(w, d, w2, d2) ==
    /\ w.step = "repair" /\ w.staged = {}
    /\ \E f \in w.todo :
          /\ Becomes(w2, w, "repair", w.todo \ {f}, {}, w.backup)
          /\ Has(d2, d.files \ {f}, d.hidden)
Rewritten(w, old) ==
    CASE w.op = "upsert" -> {DataFile(Upserted(old, w.batch))}
      [] w.op = "replace" -> {DataFile(w.batch)}
      [] w.op = "merge" -> {DataFile(Upserted(w.seen, w.batch))}
      [] w.op = "seed" -> {DataFile(IF w.seen = {} THEN w.batch ELSE Upserted(old, w.batch))}
      [] w.op = "compact" -> Chunks("compact", w.n, old)
StagesRewrite(w, d, w2, d2) ==
    /\ w.step = "start" /\ w.op \in Rewrites
    /\ Becomes(w2, w, "away", {}, Rewritten(w, Rows(d.files)), NoDirectory)
    /\ d2 = d
MovesAway(w, d, w2, d2) ==
    /\ w.step = "away"
    /\ Becomes(w2, w, "in", w.todo, w.staged, d)
    /\ d2 = NoDirectory
MovesIn(w, d, w2, d2) ==
    /\ w.step = "in"
    /\ Becomes(w2, w, "discard", w.todo, w.staged, w.backup)
    /\ d2 = Directory(w.staged, {})
StaysOut(w, d, w2, d2) ==
    /\ w.step = "in"
    /\ Becomes(w2, w, "restore", w.todo, {}, w.backup)
    /\ d2 = d
PutsBack(w, d, w2, d2) ==
    /\ w.step = "restore" /\ Leaves(w2)
    /\ d2 = w.backup
Unstages(w, d, w2, d2) ==
    /\ w.step = "direct" /\ Leaves(w2)
    /\ Has(d2, d.files, d.hidden \ w.staged)
GoesAway(w, d, w2, d2) == Leaves(w2) /\ d2 = d

Works(w, d, w2, d2) ==
    \/ StartsAppend(w, d, w2, d2) \/ AppendsChunk(w, d, w2, d2) \/ StagesDirect(w, d, w2, d2)
    \/ UnlinksSource(w, d, w2, d2) \/ MovesCompacted(w, d, w2, d2)
    \/ StagesRepair(w, d, w2, d2) \/ MovesRepaired(w, d, w2, d2) \/ UnlinksBad(w, d, w2, d2)
    \/ StagesRewrite(w, d, w2, d2) \/ MovesAway(w, d, w2, d2) \/ MovesIn(w, d, w2, d2)
    \/ StaysOut(w, d, w2, d2) \/ PutsBack(w, d, w2, d2) \/ Unstages(w, d, w2, d2)
    \/ GoesAway(w, d, w2, d2)

Only(j) == work' \in [Jobs -> WorkType] /\ \A i \in Jobs \ {j} : work'[i] = work[i]

LEMMA WorkStep ==
  ASSUME StoreShape, NEW j \in Jobs, NEW step \in Steps, work' = [work EXCEPT ![j].step = step]
  PROVE  Only(j) /\ Becomes(work'[j], work[j], step, work[j].todo, work[j].staged, work[j].backup)
<1> HIDE DEF Steps
<1>1. QED
  BY DEF StoreShape, WorkType, Only, Becomes

LEMMA WorkTodo ==
  ASSUME StoreShape, NEW j \in Jobs, NEW todo \in SUBSET FileType, work' = [work EXCEPT ![j].todo = todo]
  PROVE  Only(j) /\ Becomes(work'[j], work[j], work[j].step, todo, work[j].staged, work[j].backup)
  BY DEF StoreShape, WorkType, Only, Becomes

LEMMA WorkStaged ==
  ASSUME StoreShape, NEW j \in Jobs, NEW staged \in SUBSET FileType, work' = [work EXCEPT ![j].staged = staged]
  PROVE  Only(j) /\ Becomes(work'[j], work[j], work[j].step, work[j].todo, staged, work[j].backup)
  BY DEF StoreShape, WorkType, Only, Becomes

LEMMA WorkStepTodo ==
  ASSUME StoreShape, NEW j \in Jobs, NEW step \in Steps, NEW todo \in SUBSET FileType,
         work' = [work EXCEPT ![j].step = step, ![j].todo = todo]
  PROVE  Only(j) /\ Becomes(work'[j], work[j], step, todo, work[j].staged, work[j].backup)
  BY DEF StoreShape, WorkType, Only, Becomes

LEMMA WorkStepStaged ==
  ASSUME StoreShape, NEW j \in Jobs, NEW step \in Steps, NEW staged \in SUBSET FileType,
         work' = [work EXCEPT ![j].step = step, ![j].staged = staged]
  PROVE  Only(j) /\ Becomes(work'[j], work[j], step, work[j].todo, staged, work[j].backup)
  BY DEF StoreShape, WorkType, Only, Becomes

LEMMA WorkStepBackup ==
  ASSUME StoreShape, NEW j \in Jobs, NEW step \in Steps, NEW backup \in DirType,
         work' = [work EXCEPT ![j].step = step, ![j].backup = backup]
  PROVE  Only(j) /\ Becomes(work'[j], work[j], step, work[j].todo, work[j].staged, backup)
  BY DEF StoreShape, WorkType, Only, Becomes

LEMMA WorkPlan ==
  ASSUME StoreShape, NEW j \in Jobs, NEW step \in Steps, NEW todo \in SUBSET FileType, NEW staged \in SUBSET FileType,
         work' = [work EXCEPT ![j].step = step, ![j].todo = todo, ![j].staged = staged]
  PROVE  Only(j) /\ Becomes(work'[j], work[j], step, todo, staged, work[j].backup)
  BY DEF StoreShape, WorkType, Only, Becomes

LEMMA WorkLeaves ==
  ASSUME StoreShape, NEW j \in Jobs, Leave(j)
  PROVE  Only(j) /\ Leaves(work'[j])
<1>1. [NoWork EXCEPT !.step = "leave"] \in WorkType
  BY NoDirectoryIs DEF NoWork, WorkType, Steps, Quiet
<1>2. QED
  BY <1>1 DEF StoreShape, Only, Leave, Leaves

LEMMA WorkEnds ==
  ASSUME StoreShape, NEW j \in Jobs, work' = [work EXCEPT ![j] = NoWork]
  PROVE  Only(j) /\ work'[j] = NoWork
  BY NoWorkIs DEF StoreShape, Only

------------------------------------------------------------------------------
\* A job works under the lock, or its work is quiet.
Acts(j) ==
    /\ stage[j] = "in" /\ stage' = stage
    /\ Only(j)
    /\ dataset' \in DirType
    /\ Works(work[j], dataset, work'[j], dataset')
    /\ Put(dataset') \/ Keep
    /\ UNCHANGED writes
Still(w) == w.todo = {} /\ w.staged = {} /\ w.backup = NoDirectory
Rests(j) ==
    /\ Only(j)
    /\ ~Busy(work'[j]) /\ Still(work'[j])
    /\ Keep
    /\ \A i \in Jobs \ {j} : stage'[i] = stage[i]

LEMMA AbandonIs ==
  ASSUME StoreShape, NEW j \in Jobs, Abandon(j)
  PROVE  orphans' \subseteq DirType /\ orphans \subseteq orphans'
  BY DEF StoreShape, Abandon, WorkType

LEMMA PartsAre ==
  ASSUME NEW d \in DirType
  PROVE  Parts(d) \subseteq d.files /\ d.files \subseteq FileType /\ d.hidden \subseteq FileType
  BY DEF Parts, DirType

\* What must be shown of a step under the lock.
LEMMA ActIs ==
  ASSUME StoreShape, NEW j \in Jobs, NEW d \in DirType, stage[j] = "in", UNCHANGED <<stage, writes>>, Only(j),
         Works(work[j], dataset, work'[j], d), Put(d) \/ (d = dataset /\ Keep)
  PROVE  Acts(j) /\ dataset' = d /\ reader' \in [Readers -> ReaderType]
<1>1. dataset' = d
  BY DEF Put, Keep
<1>2. reader' \in [Readers -> ReaderType]
  BY PutIs DEF Keep, StoreShape
<1>3. QED
  BY <1>1, <1>2 DEF Acts

\* A job that is done leaves the dataset as it is.
LEMMA LeavingIs ==
  ASSUME StoreShape, NEW j \in Jobs, stage[j] = "in", UNCHANGED <<stage, writes, committed>>,
         orphans' \subseteq DirType, Leave(j), Keep
  PROVE  Acts(j) /\ StoreShape'
<1>1. Only(j) /\ GoesAway(work[j], dataset, work'[j], dataset)
  BY WorkLeaves DEF GoesAway
<1>2. Acts(j) /\ dataset' = dataset /\ reader' \in [Readers -> ReaderType]
  BY <1>1, ActIs DEF Works, StoreShape
<1>3. QED
  BY <1>1, <1>2 DEF StoreShape, Only

LEMMA StepsOfAppend ==
  ASSUME WorkInv, NEW j \in Jobs,
         StartAppend(j) \/ AppendChunk(j) \/ AppendFails(j) \/ FinishAppend(j)
  PROVE  Acts(j) /\ StoreShape'
<1> DEFINE w == work[j]
<1> USE DEF WorkInv
<1>0. w \in WorkType /\ InStep(w, dataset) /\ dataset \in DirType
  BY DEF StoreShape
<1>1. CASE StartAppend(j)
  <2> DEFINE todo == Chunks("part", w.n, w.batch)  d == Directory(dataset.files, dataset.hidden)
  <2>1. todo \in SUBSET FileType
    BY <1>0, ChunksAre DEF WorkType
  <2>2. d \in DirType
    BY <1>0, PartsAre, DirectoryIs
  <2>3. work' = [work EXCEPT ![j].step = "chunks", ![j].todo = todo] /\ Put(d)
    BY <1>1 DEF StartAppend
  <2>4. stage[j] = "in" /\ w.op = "append" /\ w.step = "start" /\ UNCHANGED <<stage, writes, orphans, committed>>
    BY <1>1 DEF StartAppend, At
  <2> HIDE DEF todo, d
  <2>5. Only(j) /\ Becomes(work'[j], w, "chunks", todo, w.staged, w.backup)
    BY <2>1, <2>3, WorkStepTodo DEF Steps
  <2>6. w.staged = {} /\ w.backup = NoDirectory
    BY <1>0, <2>4 DEF InStep, Quiet
  <2>7. StartsAppend(w, dataset, work'[j], d)
    BY <2>4, <2>5, <2>6 DEF StartsAppend, todo, d
  <2>8. Acts(j) /\ dataset' = d /\ reader' \in [Readers -> ReaderType]
    BY <2>2, <2>3, <2>4, <2>5, <2>7, ActIs DEF Works
  <2>9. QED
    BY <2>2, <2>4, <2>5, <2>8 DEF StoreShape, Only
<1>2. CASE AppendChunk(j)
  <2>1. PICK f \in w.todo :
          /\ Put([dataset EXCEPT !.files = @ \cup {f}])
          /\ work' = [work EXCEPT ![j].todo = @ \ {f}]
          /\ committed' = committed \cup f.rows
    BY <1>2 DEF AppendChunk
  <2> DEFINE todo == w.todo \ {f}  files == dataset.files \cup {f}  d == [dataset EXCEPT !.files = files]
  <2>2. f \in FileType /\ todo \in SUBSET FileType /\ files \in SUBSET FileType
    BY <1>0, PartsAre DEF WorkType
  <2>3. stage[j] = "in" /\ w.op = "append" /\ w.step = "chunks" /\ UNCHANGED <<stage, writes, orphans>>
    BY <1>2 DEF AppendChunk, At
  <2>4. d \in DirType /\ Has(d, files, dataset.hidden)
    BY <1>0, <2>2, <2>3, FilesChange DEF InStep, Has
  <2>5. Put(d) /\ work' = [work EXCEPT ![j].todo = todo]
    BY <2>1
  <2>6. f.rows \subseteq RowType
    BY <2>2 DEF FileType
  <2> HIDE DEF d, todo
  <2>7. Only(j) /\ Becomes(work'[j], w, "chunks", todo, w.staged, w.backup)
    BY <2>2, <2>3, <2>5, WorkTodo
  <2>8. AppendsChunk(w, dataset, work'[j], d)
    BY <2>3, <2>4, <2>7 DEF AppendsChunk, todo
  <2>9. Acts(j) /\ dataset' = d /\ reader' \in [Readers -> ReaderType]
    BY <2>3, <2>4, <2>5, <2>7, <2>8, ActIs DEF Works
  <2>10. QED
    BY <2>1, <2>3, <2>4, <2>6, <2>7, <2>9 DEF StoreShape, Only
<1>3. CASE AppendFails(j) \/ FinishAppend(j)
  <2>1. /\ stage[j] = "in" /\ UNCHANGED <<stage, writes, orphans, committed>>
        /\ Leave(j) /\ Keep
    BY <1>3 DEF AppendFails, FinishAppend, At
  <2>2. QED
    BY <2>1, LeavingIs DEF StoreShape
<1>4. QED
  BY <1>1, <1>2, <1>3

LEMMA StepsOfDirect ==
  ASSUME WorkInv, NEW j \in Jobs,
         StageDirect(j) \/ UnlinkSource(j) \/ MoveCompacted(j) \/ FinishDirect(j) \/ DirectFails(j)
  PROVE  Acts(j) /\ StoreShape'
<1> DEFINE w == work[j]
<1> USE DEF WorkInv
<1>0. w \in WorkType /\ InStep(w, dataset) /\ dataset \in DirType
  BY DEF StoreShape
<1>1. CASE StageDirect(j)
  <2>0. PICK parts \in Batches(j) \ {{}} :
           LET outputs == Chunks("compact", w.n, Rows(parts)) IN
           /\ Put(Directory(dataset.files, dataset.hidden \cup outputs))
           /\ work' = [work EXCEPT ![j].step = "direct", ![j].todo = parts, ![j].staged = outputs]
    BY <1>1 DEF StageDirect
  <2> DEFINE outputs == Chunks("compact", w.n, Rows(parts))
             d == Directory(dataset.files, dataset.hidden \cup outputs)
  <2>1. parts \in SUBSET dataset.files /\ parts \in SUBSET FileType
    <3>1. Sources \in SUBSET dataset.files
      BY DEF Sources
    <3>2. parts \in SUBSET dataset.files
      BY <2>0, <3>1 DEF Batches
    <3>3. QED
      BY <1>0, <3>2, PartsAre
  <2>2. outputs \in SUBSET FileType
    BY <1>0, <2>1, ChunksAre, RowsOf DEF WorkType
  <2>3. d \in DirType /\ Has(d, dataset.files, dataset.hidden \cup outputs)
    BY <1>0, <2>2, PartsAre, DirectoryIs DEF Has, Directory
  <2>4. Put(d) /\ work' = [work EXCEPT ![j].step = "direct", ![j].todo = parts, ![j].staged = outputs]
    BY <2>0
  <2>5. /\ stage[j] = "in" /\ UNCHANGED <<stage, writes, orphans, committed>>
        /\ w.op \in Appends /\ (w.step = "start" \/ (w.step = "chunks" /\ w.todo = {}))
    BY <1>1 DEF StageDirect, DirectDue, At, Appends
  <2> HIDE DEF outputs, d
  <2>6. Only(j) /\ Becomes(work'[j], w, "direct", parts, outputs, NoDirectory)
    <3>1. w.backup = NoDirectory
      BY <1>0, <2>5 DEF InStep
    <3>2. "direct" \in Steps /\ StoreShape
      BY DEF Steps
    <3> HIDE DEF Steps
    <3>3. Only(j) /\ Becomes(work'[j], w, "direct", parts, outputs, w.backup)
      BY <2>1, <2>2, <2>4, <3>2, WorkPlan
    <3>4. QED
      BY <3>1, <3>3
  <2>7. StagesDirect(w, dataset, work'[j], d)
    BY <2>1, <2>3, <2>5, <2>6 DEF StagesDirect, Becomes, outputs
  <2>8. Acts(j) /\ dataset' = d /\ reader' \in [Readers -> ReaderType]
    BY <2>3, <2>4, <2>5, <2>6, <2>7, ActIs DEF Works
  <2>9. QED
    BY <2>3, <2>5, <2>6, <2>8 DEF StoreShape, Only
<1>2. CASE UnlinkSource(j)
  <2>1. PICK f \in w.todo :
          /\ f \in dataset.files
          /\ Put([dataset EXCEPT !.files = @ \ {f}])
          /\ work' = [work EXCEPT ![j].todo = @ \ {f}]
    BY <1>2 DEF UnlinkSource
  <2> DEFINE todo == w.todo \ {f}  files == dataset.files \ {f}  d == [dataset EXCEPT !.files = files]
  <2>2. todo \in SUBSET FileType /\ files \in SUBSET FileType
    BY <1>0, PartsAre DEF WorkType
  <2>3. stage[j] = "in" /\ w.step = "direct" /\ UNCHANGED <<stage, writes, orphans, committed>>
    BY <1>2 DEF UnlinkSource, At
  <2>4. d \in DirType /\ Has(d, files, dataset.hidden)
    BY <1>0, <2>1, <2>2, FilesChange, NothingThere DEF Has
  <2>5. Put(d) /\ work' = [work EXCEPT ![j].todo = todo]
    BY <2>1
  <2> HIDE DEF d, todo
  <2>6. Only(j) /\ Becomes(work'[j], w, "direct", todo, w.staged, w.backup)
    BY <2>2, <2>3, <2>5, WorkTodo
  <2>7. UnlinksSource(w, dataset, work'[j], d)
    BY <2>3, <2>4, <2>6 DEF UnlinksSource, todo
  <2>8. Acts(j) /\ dataset' = d /\ reader' \in [Readers -> ReaderType]
    BY <2>3, <2>4, <2>5, <2>6, <2>7, ActIs DEF Works
  <2>9. QED
    BY <2>3, <2>4, <2>6, <2>8 DEF StoreShape, Only
<1>3. CASE MoveCompacted(j)
  <2>1. PICK f \in w.staged \cap dataset.hidden :
          Put(Directory(dataset.files \cup {f}, dataset.hidden \ {f}))
    BY <1>3 DEF MoveCompacted
  <2> DEFINE d == Directory(dataset.files \cup {f}, dataset.hidden \ {f})
  <2>2. d \in DirType /\ Has(d, dataset.files \cup {f}, dataset.hidden \ {f})
    BY <1>0, PartsAre, DirectoryIs DEF Has, Directory
  <2>3. /\ stage[j] = "in" /\ w.step = "direct" /\ w.todo = {}
        /\ UNCHANGED <<stage, work, writes, orphans, committed>>
    BY <1>3 DEF MoveCompacted, At
  <2>4. Only(j) /\ work'[j] = w
    BY <2>3 DEF StoreShape, Only
  <2>5. MovesCompacted(w, dataset, work'[j], d)
    BY <2>2, <2>3, <2>4 DEF MovesCompacted
  <2>6. Acts(j) /\ dataset' = d /\ reader' \in [Readers -> ReaderType]
    BY <2>1, <2>2, <2>3, <2>4, <2>5, ActIs DEF Works
  <2>7. QED
    BY <2>2, <2>3, <2>4, <2>6 DEF StoreShape, Only
<1>4. CASE FinishDirect(j)
  <2>1. /\ stage[j] = "in" /\ UNCHANGED <<stage, writes, orphans, committed>>
        /\ Leave(j) /\ Keep
    BY <1>4 DEF FinishDirect, At
  <2>2. QED
    BY <2>1, LeavingIs DEF StoreShape
<1>5. CASE DirectFails(j)
  <2> DEFINE d == [dataset EXCEPT !.hidden = @ \ w.staged]
  <2>1. d \in DirType /\ Has(d, dataset.files, dataset.hidden \ w.staged)
    BY <1>0, HiddenShrinks DEF Has
  <2>2. /\ stage[j] = "in" /\ w.step = "direct" /\ UNCHANGED <<stage, writes, orphans, committed>>
        /\ Leave(j) /\ Put(d)
    BY <1>5 DEF DirectFails, At
  <2> HIDE DEF d
  <2>3. Only(j) /\ Unstages(w, dataset, work'[j], d)
    BY <2>1, <2>2, WorkLeaves DEF Unstages
  <2>4. Acts(j) /\ dataset' = d /\ reader' \in [Readers -> ReaderType]
    BY <2>1, <2>2, <2>3, ActIs DEF Works
  <2>5. QED
    BY <2>1, <2>2, <2>3, <2>4 DEF StoreShape, Only
<1>6. QED
  BY <1>1, <1>2, <1>3, <1>4, <1>5

LEMMA StepsOfRepair ==
  ASSUME WorkInv, NEW j \in Jobs,
         StageRepair(j) \/ MoveRepaired(j) \/ UnlinkBad(j) \/ FinishRepair(j) \/ RepairFails(j)
  PROVE  Acts(j) /\ StoreShape'
<1> DEFINE w == work[j]
<1> USE DEF WorkInv
<1>0. w \in WorkType /\ InStep(w, dataset) /\ dataset \in DirType
  BY DEF StoreShape
<1>1. CASE StageRepair(j)
  <2>1. PICK bad \in (SUBSET Sources) \ {{}} :
          work' = [work EXCEPT ![j].step = "repair", ![j].todo = bad,
                               ![j].staged = Chunks("repair", w.n, Rows(bad))]
    BY <1>1 DEF StageRepair
  <2> DEFINE staged == Chunks("repair", w.n, Rows(bad))
  <2>2. bad \in (SUBSET Parts(dataset)) \ {{}}
    BY DEF Sources, Parts
  <2>3. bad \in SUBSET FileType
    BY <1>0, <2>2, PartsAre
  <2>4. staged \in SUBSET FileType
    BY <1>0, <2>3, ChunksAre, RowsOf DEF WorkType
  <2>5. /\ stage[j] = "in" /\ w.step = "start" /\ w.op = "repair"
        /\ UNCHANGED <<stage, writes, orphans, committed>> /\ Keep
    BY <1>1 DEF StageRepair, At
  <2>6. work' = [work EXCEPT ![j].step = "repair", ![j].todo = bad, ![j].staged = staged]
    BY <2>1
  <2> HIDE DEF staged
  <2>7. Only(j) /\ Becomes(work'[j], w, "repair", bad, staged, NoDirectory)
    <3>1. w.backup = NoDirectory
      BY <1>0, <2>5 DEF InStep
    <3>2. "repair" \in Steps /\ StoreShape
      BY DEF Steps
    <3> HIDE DEF Steps
    <3>3. Only(j) /\ Becomes(work'[j], w, "repair", bad, staged, w.backup)
      BY <2>3, <2>4, <2>6, <3>2, WorkPlan
    <3>4. QED
      BY <3>1, <3>3
  <2>8. StagesRepair(w, dataset, work'[j], dataset)
    BY <2>2, <2>5, <2>7 DEF StagesRepair, staged
  <2>9. Acts(j) /\ dataset' = dataset /\ reader' \in [Readers -> ReaderType]
    BY <1>0, <2>5, <2>7, <2>8, ActIs DEF Works
  <2>10. QED
    BY <2>5, <2>7, <2>9 DEF StoreShape, Only
<1>2. CASE MoveRepaired(j)
  <2>1. PICK f \in w.staged :
          /\ Put([dataset EXCEPT !.files = @ \cup {f}])
          /\ work' = [work EXCEPT ![j].staged = @ \ {f}]
    BY <1>2 DEF MoveRepaired
  <2> DEFINE staged == w.staged \ {f}  files == dataset.files \cup {f}  d == [dataset EXCEPT !.files = files]
  <2>2. staged \in SUBSET FileType /\ files \in SUBSET FileType
    BY <1>0, PartsAre DEF WorkType
  <2>3. stage[j] = "in" /\ w.step = "repair" /\ UNCHANGED <<stage, writes, orphans, committed>>
    BY <1>2 DEF MoveRepaired, At
  <2>4. d \in DirType /\ Has(d, files, dataset.hidden)
    BY <1>0, <2>1, <2>2, <2>3, FilesChange DEF InStep, Has
  <2>5. Put(d) /\ work' = [work EXCEPT ![j].staged = staged]
    BY <2>1
  <2> HIDE DEF d, staged
  <2>6. Only(j) /\ Becomes(work'[j], w, "repair", w.todo, staged, w.backup)
    BY <2>2, <2>3, <2>5, WorkStaged
  <2>7. MovesRepaired(w, dataset, work'[j], d)
    BY <2>3, <2>4, <2>6 DEF MovesRepaired, staged
  <2>8. Acts(j) /\ dataset' = d /\ reader' \in [Readers -> ReaderType]
    BY <2>3, <2>4, <2>5, <2>6, <2>7, ActIs DEF Works
  <2>9. QED
    BY <2>3, <2>4, <2>6, <2>8 DEF StoreShape, Only
<1>3. CASE UnlinkBad(j)
  <2>1. PICK f \in w.todo :
          /\ Put([dataset EXCEPT !.files = @ \ {f}])
          /\ work' = [work EXCEPT ![j].todo = @ \ {f}]
    BY <1>3 DEF UnlinkBad
  <2> DEFINE todo == w.todo \ {f}  files == dataset.files \ {f}  d == [dataset EXCEPT !.files = files]
  <2>2. todo \in SUBSET FileType /\ files \in SUBSET FileType
    BY <1>0, PartsAre DEF WorkType
  <2>3. stage[j] = "in" /\ w.step = "repair" /\ w.staged = {} /\ UNCHANGED <<stage, writes, orphans, committed>>
    BY <1>3 DEF UnlinkBad, At
  <2>4. dataset.there \/ files = {}
    BY <1>0, NothingThere
  <2>5. d \in DirType /\ Has(d, files, dataset.hidden)
    BY <1>0, <2>2, <2>4, FilesChange DEF Has
  <2>6. Put(d) /\ work' = [work EXCEPT ![j].todo = todo]
    BY <2>1
  <2> HIDE DEF d, todo
  <2>7. Only(j) /\ Becomes(work'[j], w, "repair", todo, w.staged, w.backup)
    BY <2>2, <2>3, <2>6, WorkTodo
  <2>8. UnlinksBad(w, dataset, work'[j], d)
    BY <2>3, <2>5, <2>7 DEF UnlinksBad, todo
  <2>9. Acts(j) /\ dataset' = d /\ reader' \in [Readers -> ReaderType]
    BY <2>3, <2>5, <2>6, <2>7, <2>8, ActIs DEF Works
  <2>10. QED
    BY <2>3, <2>5, <2>7, <2>9 DEF StoreShape, Only
<1>4. CASE FinishRepair(j) \/ RepairFails(j)
  <2>1. /\ stage[j] = "in" /\ UNCHANGED <<stage, writes, orphans, committed>>
        /\ Leave(j) /\ Keep
    BY <1>4 DEF FinishRepair, RepairFails, At
  <2>2. QED
    BY <2>1, LeavingIs DEF StoreShape
<1>5. QED
  BY <1>1, <1>2, <1>3, <1>4

LEMMA RewrittenIs ==
  ASSUME NEW w \in WorkType, NEW rows \in SUBSET RowType, w.op \in Rewrites
  PROVE  Rewritten(w, rows) \in SUBSET FileType
<1>1. w.batch \in SUBSET RowType /\ w.seen \in SUBSET RowType /\ w.n \in Nat
  BY DEF WorkType
<1>2. CASE w.op = "upsert"
  BY <1>1, <1>2, UpsertedIs, DataFileIs DEF Rewritten
<1>3. CASE w.op = "replace"
  BY <1>1, <1>3, DataFileIs DEF Rewritten
<1>4. CASE w.op = "merge"
  BY <1>1, <1>4, UpsertedIs, DataFileIs DEF Rewritten
<1>5. CASE w.op = "seed"
  BY <1>1, <1>5, UpsertedIs, DataFileIs DEF Rewritten
<1>6. CASE w.op = "compact"
  BY <1>1, <1>6, ChunksAre DEF Rewritten
<1>7. QED
  BY <1>2, <1>3, <1>4, <1>5, <1>6 DEF Rewrites, ReadFirst

LEMMA StepsOfRewrite ==
  ASSUME WorkInv, NEW j \in Jobs,
         \/ StageRewrite(j) \/ MoveAway(j) \/ MoveIn(j) \/ DiscardBackup(j)
         \/ GiveUpRewrite(j) \/ MoveInFails(j) \/ Restore(j) \/ RestoreFails(j)
  PROVE  Acts(j) /\ StoreShape'
<1> DEFINE w == work[j]
<1> USE DEF WorkInv
<1>0. w \in WorkType /\ InStep(w, dataset) /\ dataset \in DirType
  BY DEF StoreShape
<1>1. CASE StageRewrite(j)
  <2> DEFINE staged == Rewritten(w, Rows(dataset.files))
  <2>1. /\ stage[j] = "in" /\ w.step = "start" /\ w.op \in Rewrites
        /\ UNCHANGED <<stage, writes, orphans, committed>> /\ Keep
    BY <1>1 DEF StageRewrite, At
  <2>2. NewFiles(j) = staged
    BY <2>1 DEF NewFiles, Rewritten, Rewrites, ReadFirst
  <2>3. staged \in SUBSET FileType
    BY <1>0, <2>1, RewrittenIs, RowsOf, PartsAre
  <2>4. work' = [work EXCEPT ![j].step = "away", ![j].staged = staged]
    BY <1>1, <2>2 DEF StageRewrite
  <2> HIDE DEF staged
  <2>5. w.todo = {} /\ w.backup = NoDirectory
    BY <1>0, <2>1 DEF InStep, Quiet
  <2>6. Only(j) /\ Becomes(work'[j], w, "away", {}, staged, NoDirectory)
    BY <2>3, <2>4, <2>5, WorkStepStaged DEF Steps
  <2>7. StagesRewrite(w, dataset, work'[j], dataset)
    BY <2>1, <2>6 DEF StagesRewrite, staged
  <2>8. Acts(j) /\ dataset' = dataset /\ reader' \in [Readers -> ReaderType]
    BY <1>0, <2>1, <2>6, <2>7, ActIs DEF Works
  <2>9. QED
    BY <2>1, <2>6, <2>8 DEF StoreShape, Only
<1>2. CASE MoveAway(j)
  <2>1. /\ stage[j] = "in" /\ w.step = "away"
        /\ UNCHANGED <<stage, writes, orphans, committed>> /\ Put(NoDirectory)
        /\ work' = [work EXCEPT ![j].step = "in", ![j].backup = dataset]
    BY <1>2 DEF MoveAway, At
  <2>2. Only(j) /\ Becomes(work'[j], w, "in", w.todo, w.staged, dataset)
    BY <1>0, <2>1, WorkStepBackup DEF Steps
  <2>3. MovesAway(w, dataset, work'[j], NoDirectory)
    BY <2>1, <2>2 DEF MovesAway
  <2>4. Acts(j) /\ dataset' = NoDirectory /\ reader' \in [Readers -> ReaderType]
    BY <2>1, <2>2, <2>3, NoDirectoryIs, ActIs DEF Works
  <2>5. QED
    BY <2>1, <2>2, <2>4, NoDirectoryIs DEF StoreShape, Only
<1>3. CASE MoveIn(j)
  <2> DEFINE d == Directory(w.staged, {})
  <2>1. /\ stage[j] = "in" /\ w.step = "in" /\ w.op \in Rewrites
        /\ UNCHANGED <<stage, writes, orphans>> /\ Put(d)
        /\ work' = [work EXCEPT ![j].step = "discard"]
    BY <1>3 DEF MoveIn, At
  <2>2. d \in DirType
    BY <1>0, DirectoryIs DEF WorkType
  <2>3. Only(j) /\ Becomes(work'[j], w, "discard", w.todo, w.staged, w.backup)
    BY <2>1, WorkStep DEF Steps
  <2>4. MovesIn(w, dataset, work'[j], d)
    BY <2>1, <2>3 DEF MovesIn
  <2> HIDE DEF d
  <2>5. Acts(j) /\ dataset' = d /\ reader' \in [Readers -> ReaderType]
    BY <2>1, <2>2, <2>3, <2>4, ActIs DEF Works
  <2>6. w.batch \in SUBSET RowType
    BY <1>0 DEF WorkType
  <2>7. committed' \in SUBSET RowType
    <3>1. committed' \in {Upserted(committed, w.batch), w.batch, committed}
      BY <1>3, <2>1 DEF MoveIn, Rewrites, ReadFirst
    <3>2. QED
      BY <2>6, <3>1, UpsertedIs DEF StoreShape
  <2>8. QED
    BY <2>1, <2>2, <2>3, <2>5, <2>7 DEF StoreShape, Only
<1>4. CASE DiscardBackup(j) \/ GiveUpRewrite(j) \/ RestoreFails(j)
  <2>1. /\ stage[j] = "in" /\ UNCHANGED <<stage, writes, committed>>
        /\ Leave(j) /\ Keep
    BY <1>4 DEF DiscardBackup, GiveUpRewrite, RestoreFails, At
  <2>2. Abandon(j) \/ UNCHANGED orphans
    BY <1>4 DEF DiscardBackup, GiveUpRewrite, RestoreFails
  <2>3. orphans' \subseteq DirType
    BY <2>2, AbandonIs DEF StoreShape
  <2>4. QED
    BY <2>1, <2>3, LeavingIs
<1>5. CASE MoveInFails(j) /\ w.op = "compact"
  <2>1. /\ stage[j] = "in" /\ UNCHANGED <<stage, writes, committed>>
        /\ Leave(j) /\ Keep /\ Abandon(j)
    BY <1>5 DEF MoveInFails, At
  <2>2. QED
    BY <2>1, AbandonIs, LeavingIs
<1>6. CASE MoveInFails(j) /\ w.op # "compact"
  <2>1. /\ stage[j] = "in" /\ w.step = "in" /\ UNCHANGED <<stage, writes, orphans, committed>> /\ Keep
        /\ work' = [work EXCEPT ![j].step = "restore", ![j].staged = {}]
    BY <1>6 DEF MoveInFails, At
  <2>2. Only(j) /\ Becomes(work'[j], w, "restore", w.todo, {}, w.backup)
    BY <2>1, WorkStepStaged DEF Steps
  <2>3. StaysOut(w, dataset, work'[j], dataset)
    BY <2>1, <2>2 DEF StaysOut
  <2>4. Acts(j) /\ dataset' = dataset /\ reader' \in [Readers -> ReaderType]
    BY <1>0, <2>1, <2>2, <2>3, ActIs DEF Works
  <2>5. QED
    BY <2>1, <2>2, <2>4 DEF StoreShape, Only
<1>7. CASE Restore(j) /\ w.backup.there /\ ~dataset.there
  <2>1. /\ stage[j] = "in" /\ w.step = "restore" /\ UNCHANGED <<stage, writes, orphans, committed>>
        /\ Put(w.backup) /\ Leave(j)
    BY <1>7 DEF Restore, At
  <2>2. w.backup \in DirType
    BY <1>0 DEF WorkType
  <2>3. Only(j) /\ PutsBack(w, dataset, work'[j], w.backup)
    BY <2>1, WorkLeaves DEF PutsBack
  <2>4. Acts(j) /\ dataset' = w.backup /\ reader' \in [Readers -> ReaderType]
    BY <2>1, <2>2, <2>3, ActIs DEF Works
  <2>5. QED
    BY <2>1, <2>2, <2>3, <2>4 DEF StoreShape, Only
<1>8. CASE Restore(j) /\ ~(w.backup.there /\ ~dataset.there)
  <2>1. /\ stage[j] = "in" /\ UNCHANGED <<stage, writes, committed>>
        /\ Leave(j) /\ Keep /\ Abandon(j)
    BY <1>8 DEF Restore, At
  <2>2. QED
    BY <2>1, AbandonIs, LeavingIs
<1>9. QED
  BY <1>1, <1>2, <1>3, <1>4, <1>5, <1>6, <1>7, <1>8

\* Outside the lock, and when it is given back or the job is killed, a job has nothing
\* in hand.
LEMMA StepsOfLock ==
  ASSUME WorkInv, NEW j \in Jobs,
         Begin(j) \/ Look(j) \/ BeginSeen(j) \/ NotLocked(j) \/ Finish(j) \/ Crash(j)
  PROVE  Rests(j) /\ StoreShape'
<1> DEFINE w == work[j]
<1> USE DEF WorkInv
<1>0. w \in WorkType /\ InStep(w, dataset)
  BY DEF StoreShape
<1>1. stage' \in [Jobs -> Stages] /\ \A i \in Jobs \ {j} : stage'[i] = stage[i]
  BY DEF LockInv, LockTypeOK, Begin, Look, BeginSeen, NotLocked, Finish, Crash, Ask, GiveUp,
     WritePidFails, Unlock, Die, Goto, Stages
<1>2. CASE Begin(j) \/ Look(j)
  <2>1. PICK step \in {"start", "look"}, op \in Operations, seen \in SUBSET RowType : NewWork(j, step, op, seen)
    <3>1. {} \in SUBSET RowType /\ Rows(dataset.files) \in SUBSET RowType
      BY RowsOf, PartsAre DEF StoreShape
    <3>2. CASE Begin(j)
      BY <3>1, <3>2 DEF Begin
    <3>3. CASE Look(j)
      BY <3>1, <3>3 DEF Look
    <3>4. QED
      BY <1>2, <3>2, <3>3
  <2>2. PICK keys \in SUBSET Keys :
          work' = [work EXCEPT ![j] =
              [NoWork EXCEPT !.step = step, !.op = op, !.n = writes + 1, !.seen = seen,
                             !.batch = [key : keys, write : {writes + 1}]]]
    BY <2>1 DEF NewWork
  <2> DEFINE batch == [key : keys, write : {writes + 1}]
             new == [NoWork EXCEPT !.step = step, !.op = op, !.n = writes + 1, !.seen = seen, !.batch = batch]
  <2>3. batch \in SUBSET RowType
    BY DEF StoreShape, RowType
  <2>4. step \in Steps /\ op \in Rewrites \cup {"none", "append", "direct", "repair"} /\ writes + 1 \in Nat
    BY StoreAssumption DEF Steps, Quiet, StoreShape
  <2> HIDE DEF batch
  <2>5. new \in WorkType /\ new.step = step /\ Still(new)
    BY <2>3, <2>4, NoWorkIs DEF NoWork, WorkType, Still
  <2> HIDE DEF new
  <2>6. work' = [work EXCEPT ![j] = new]
    BY <2>2 DEF new, batch
  <2>7. Only(j) /\ work'[j] = new
    BY <2>5, <2>6 DEF StoreShape, Only
  <2>8. UNCHANGED <<dataset, orphans, reader, committed>> /\ writes' = writes + 1
    BY <2>1 DEF NewWork
  <2>9. Rests(j)
    BY <1>1, <2>5, <2>7, <2>8 DEF Rests, Busy, Quiet, Keep
  <2>10. QED
    BY <2>4, <2>7, <2>8, <2>9 DEF StoreShape, Only
<1>3. CASE BeginSeen(j)
  <2>1. /\ w.step = "look" /\ work' = [work EXCEPT ![j].step = "start"]
        /\ UNCHANGED <<dataset, orphans, writes, reader, committed>>
    BY <1>3 DEF BeginSeen
  <2>2. Only(j) /\ Becomes(work'[j], w, "start", w.todo, w.staged, w.backup)
    BY <2>1, WorkStep DEF Steps, Quiet
  <2>3. w.todo = {} /\ w.staged = {} /\ w.backup = NoDirectory
    BY <1>0, <2>1 DEF InStep, Quiet
  <2>4. Rests(j)
    BY <1>1, <2>1, <2>2, <2>3 DEF Rests, Busy, Quiet, Keep, Becomes, Still
  <2>5. QED
    BY <2>1, <2>2, <2>4 DEF StoreShape, Only
<1>4. CASE NotLocked(j) \/ Finish(j) \/ Crash(j)
  <2>1. /\ work' = [work EXCEPT ![j] = NoWork]
        /\ UNCHANGED <<dataset, writes, reader, committed>>
        /\ Abandon(j) \/ UNCHANGED orphans
    BY <1>4 DEF NotLocked, Finish, Crash
  <2>2. Only(j) /\ work'[j] = NoWork /\ orphans' \subseteq DirType
    BY <2>1, WorkEnds, AbandonIs DEF StoreShape
  <2>3. Rests(j)
    BY <1>1, <2>1, <2>2 DEF Rests, Busy, Quiet, Keep, NoWork, Still
  <2>4. QED
    BY <2>1, <2>2, <2>3 DEF StoreShape, Only
<1>5. QED
  BY <1>2, <1>3, <1>4

------------------------------------------------------------------------------
\* While one job works, no other does.
LEMMA Solo ==
  ASSUME WorkInv, NEW j \in Jobs, stage[j] = "in", NEW i \in Jobs, i # j
  PROVE  ~Busy(work[i]) /\ Still(work[i])
<1>1. \A k, l \in Jobs : Holds(k) /\ Holds(l) => k = l
  BY LockInvExcludes DEF WorkInv
<1>2. stage[i] # "in"
  BY <1>1 DEF Holds
<1>3. ~Busy(work[i]) /\ InStep(work[i], dataset)
  BY <1>2 DEF WorkInv
<1>4. QED
  BY <1>3 DEF InStep, Busy, Quiet, Still

LEMMA InStepQuiet ==
  ASSUME NEW w, NEW d, ~Busy(w), Still(w)
  PROVE  InStep(w, d)
  BY DEF Busy, Still, InStep, Quiet

LEMMA InStepKept ==
  ASSUME NEW w \in WorkType, NEW d \in DirType, NEW w2 \in WorkType, NEW d2 \in DirType,
         InStep(w, d), Works(w, d, w2, d2)
  PROVE  InStep(w2, d2)
<1> USE DEF InStep, Becomes, Quiet
<1>1. CASE StartsAppend(w, d, w2, d2)
  BY <1>1 DEF StartsAppend, Directory
<1>2. CASE AppendsChunk(w, d, w2, d2)
  BY <1>2, NothingThere DEF AppendsChunk, Has
<1>3. CASE StagesDirect(w, d, w2, d2)
  BY <1>3 DEF StagesDirect
<1>4. CASE UnlinksSource(w, d, w2, d2)
  BY <1>4 DEF UnlinksSource
<1>5. CASE MovesCompacted(w, d, w2, d2)
  BY <1>5 DEF MovesCompacted
<1>6. CASE StagesRepair(w, d, w2, d2)
  <2>1. PICK bad \in (SUBSET Parts(d)) \ {{}} :
           Becomes(w2, w, "repair", bad, Chunks("repair", w.n, Rows(bad)), NoDirectory)
    BY <1>6 DEF StagesRepair
  <2>2. d.files # {} /\ d2 = d /\ w.op = "repair"
    BY <1>6 DEF StagesRepair, Parts
  <2>3. d.there
    BY <2>2, NothingThere
  <2>4. w2.step = "repair" /\ w2.op = w.op /\ w2.backup = NoDirectory
    BY <2>1
  <2>5. QED
    BY <2>2, <2>3, <2>4
<1>7. CASE MovesRepaired(w, d, w2, d2)
  BY <1>7, NothingThere DEF MovesRepaired, Has
<1>8. CASE UnlinksBad(w, d, w2, d2)
  BY <1>8 DEF UnlinksBad
<1>9. CASE StagesRewrite(w, d, w2, d2)
  BY <1>9 DEF StagesRewrite
<1>10. CASE MovesAway(w, d, w2, d2)
  BY <1>10 DEF MovesAway
<1>11. CASE MovesIn(w, d, w2, d2)
  BY <1>11 DEF MovesIn
<1>12. CASE StaysOut(w, d, w2, d2)
  BY <1>12 DEF StaysOut
<1>13. CASE Leaves(w2)
  BY <1>13 DEF Leaves, NoWork
<1>14. QED
  BY <1>1, <1>2, <1>3, <1>4, <1>5, <1>6, <1>7, <1>8, <1>9, <1>10, <1>11, <1>12, <1>13
     DEF Works, PutsBack, Unstages, GoesAway

\* Each step of a job works on the dataset, or rests.
LEMMA JobSteps ==
  ASSUME WorkInv, NEW j \in Jobs, JobStep(j), ~Lock(j)
  PROVE  (Acts(j) \/ Rests(j)) /\ StoreShape'
  BY StepsOfAppend, StepsOfDirect, StepsOfRepair, StepsOfRewrite, StepsOfLock DEF JobStep

LEMMA LockStepIs ==
  ASSUME WorkInv, (\E j \in Jobs : Lock(j)) \/ Age
  PROVE  /\ UNCHANGED <<dataset, work, orphans, writes, reader, committed, incidents>>
         /\ \A j \in Jobs : stage[j] = "in" => stage'[j] = "in"
<1>1. ASSUME NEW j \in Jobs, Lock(j), NEW i \in Jobs, stage[i] = "in" PROVE stage'[i] = "in"
  BY <1>1 DEF WorkInv, LockInv, LockTypeOK, Lock, CreateLock, WritePid, StatLock, JudgeStale, JudgeLive,
     BreakLock, Goto, LockFiles, Ages
<1>2. CASE Age
  BY <1>2 DEF Age, LockAges
<1>3. CASE \E j \in Jobs : Lock(j)
  BY <1>1, <1>3 DEF Lock
<1>4. QED
  BY <1>2, <1>3

LEMMA ReaderStepIs ==
  ASSUME StoreShape, NEW r \in Readers,
         ListFiles(r) \/ CheckFile(r) \/ ReadFile(r) \/ EndRead(r) \/ UseRows(r)
  PROVE  /\ UNCHANGED <<lock, stage, dataset, work, orphans, writes, committed, incidents>>
         /\ reader' \in [Readers -> ReaderType]
<1> DEFINE R == reader[r]
<1>1. R \in ReaderType /\ dataset.files \in SUBSET FileType
  BY PartsAre DEF StoreShape
<1>2. UNCHANGED <<lock, stage, dataset, work, orphans, writes, committed, incidents>>
  BY DEF ListFiles, CheckFile, ReadFile, EndRead, UseRows
<1>3. NamesThere \in SUBSET FileName /\ Rows(dataset.files) \in SUBSET RowType
  <2>1. \A f \in FileType : f.name \in FileName
    BY DEF FileType
  <2>2. QED
    BY <1>1, <2>1, RowsOf DEF NamesThere
<1>4. IdleReader \in ReaderType
  BY DEF IdleReader, ReaderType
<1>5. \E new \in ReaderType : reader' = [reader EXCEPT ![r] = new]
  <2>1. CASE ListFiles(r)
    <3> DEFINE listed == NamesThere  rows == Rows(dataset.files)  doubled == Doubled(dataset.files)
               first == dataset.files  moments == {rows}
               new == [IdleReader EXCEPT !.at = "reading", !.listed = listed, !.first = first,
                                         !.moments = moments, !.doubled = doubled]
    <3>1. doubled \in BOOLEAN /\ listed \in SUBSET FileName /\ moments \in SUBSET SUBSET RowType /\ first \in SUBSET FileType
      BY <1>1, <1>3 DEF Doubled
    <3>2. reader' = [reader EXCEPT ![r] = new]
      BY <2>1 DEF ListFiles
    <3> HIDE DEF doubled, listed, moments, first
    <3>3. new \in ReaderType
      BY <1>4, <3>1 DEF IdleReader, ReaderType
    <3>4. QED
      BY <3>2, <3>3
  <2>2. CASE CheckFile(r)
    <3>1. PICK name \in R.listed :
             reader' = [reader EXCEPT ![r].listed = @ \ {name},
                                      ![r].todo = @ \cup ({name} \cap NamesThere),
                                      ![r].passed = @ \/ name \notin NamesThere]
      BY <2>2 DEF CheckFile
    <3> DEFINE passed == R.passed \/ name \notin NamesThere  todo == R.todo \cup ({name} \cap NamesThere)
               new == [R EXCEPT !.listed = @ \ {name}, !.todo = todo, !.passed = passed]
    <3>2. passed \in BOOLEAN /\ todo \in SUBSET FileName
      BY <1>1, <1>3 DEF ReaderType
    <3>3. reader' = [reader EXCEPT ![r] = new]
      BY <3>1 DEF StoreShape
    <3> HIDE DEF passed, todo
    <3>4. new \in ReaderType
      BY <1>1, <3>2 DEF ReaderType
    <3>5. QED
      BY <3>3, <3>4
  <2>3. CASE ReadFile(r)
    <3>1. PICK f \in dataset.files :
             reader' = [reader EXCEPT ![r].todo = @ \ {f.name}, ![r].got = @ \cup f.rows,
                                      ![r].twice = @ \/ R.got \cap f.rows # {},
                                      ![r].mixed = @ \/ (R.got # {} /\ f \notin R.first)]
      BY <2>3 DEF ReadFile
    <3> DEFINE twice == R.twice \/ R.got \cap f.rows # {}  mixed == R.mixed \/ (R.got # {} /\ f \notin R.first)
               got == R.got \cup f.rows
               new == [R EXCEPT !.todo = @ \ {f.name}, !.got = got, !.twice = twice, !.mixed = mixed]
    <3>2. twice \in BOOLEAN /\ mixed \in BOOLEAN
      BY <1>1 DEF ReaderType
    <3>3. got \in SUBSET RowType
      BY <1>1 DEF ReaderType, FileType
    <3>4. reader' = [reader EXCEPT ![r] = new]
      BY <3>1
    <3> HIDE DEF twice, mixed, got
    <3>5. new \in ReaderType
      BY <1>1, <3>2, <3>3 DEF ReaderType
    <3>6. QED
      BY <3>4, <3>5
  <2>4. CASE EndRead(r) \/ UseRows(r)
    <3>1. reader' = [reader EXCEPT ![r] = [R EXCEPT !.at = "done"]] \/ reader' = [reader EXCEPT ![r] = IdleReader]
      BY <2>4 DEF EndRead, UseRows
    <3>2. [R EXCEPT !.at = "done"] \in ReaderType
      BY <1>1 DEF ReaderType
    <3>3. QED
      BY <1>4, <3>1, <3>2
  <2>5. QED
    BY <2>1, <2>2, <2>3, <2>4
<1>6. QED
  BY <1>2, <1>5 DEF StoreShape

LEMMA WorkInvInit == StoreInit => WorkInv
<1> SUFFICES ASSUME StoreInit PROVE WorkInv
  OBVIOUS
<1>1. LockInv
  BY LockInvInit DEF StoreInit
<1>2. IdleReader \in ReaderType
  BY DEF IdleReader, ReaderType
<1>3. StoreShape
  BY <1>2, NoDirectoryIs, NoWorkIs DEF StoreInit, StoreShape
<1>4. \A j \in Jobs : ~Busy(work[j]) /\ Still(work[j])
  BY DEF StoreInit, Busy, Still, Quiet, NoWork
<1>5. QED
  BY <1>1, <1>3, <1>4, InStepQuiet DEF WorkInv

LEMMA WorkInvStep == WorkInv /\ [StoreNext]_storeVars /\ lapses' = {} => WorkInv'
<1> SUFFICES ASSUME WorkInv, [StoreNext]_storeVars, lapses' = {} PROVE WorkInv'
  OBVIOUS
<1>1. LockInv'
  BY StoreStepsLock, LockInvStep DEF WorkInv
<1> DEFINE Keeps == \A i \in Jobs : (Busy(work'[i]) => stage'[i] = "in") /\ InStep(work'[i], dataset')
<1>2. ASSUME NEW j \in Jobs, Acts(j), StoreShape' PROVE Keeps
  <2> SUFFICES ASSUME NEW i \in Jobs
               PROVE  (Busy(work'[i]) => stage'[i] = "in") /\ InStep(work'[i], dataset')
    OBVIOUS
  <2>1. CASE i = j
    <3>1. InStep(work'[j], dataset')
      BY <1>2, InStepKept DEF Acts, WorkInv, StoreShape
    <3>2. QED
      BY <1>2, <2>1, <3>1 DEF Acts
  <2>2. CASE i # j
    <3>1. work'[i] = work[i] /\ stage'[i] = stage[i] /\ ~Busy(work[i]) /\ Still(work[i])
      BY <1>2, <2>2, Solo DEF Acts, Only
    <3>2. QED
      BY <3>1, InStepQuiet
  <2>3. QED
    BY <2>1, <2>2
<1>3. ASSUME NEW j \in Jobs, Rests(j) PROVE Keeps
  <2>1. dataset' = dataset
    BY <1>3 DEF Rests, Keep
  <2>2. InStep(work'[j], dataset') /\ ~Busy(work'[j])
    BY <1>3, InStepQuiet DEF Rests
  <2>3. \A i \in Jobs \ {j} : work'[i] = work[i] /\ stage'[i] = stage[i]
    BY <1>3 DEF Rests, Only
  <2>4. QED
    BY <2>1, <2>2, <2>3 DEF WorkInv
<1>4. ASSUME NEW j \in Jobs, JobStep(j), ~Lock(j) PROVE StoreShape' /\ Keeps
  <2>1. (Acts(j) \/ Rests(j)) /\ StoreShape'
    BY <1>4, JobSteps
  <2>2. QED
    BY <2>1, <1>2, <1>3
<1>5. ASSUME (\E j \in Jobs : Lock(j)) \/ Age PROVE StoreShape' /\ Keeps
  BY <1>5, LockStepIs DEF WorkInv, StoreShape
<1>6. ASSUME NEW r \in Readers, ListFiles(r) \/ CheckFile(r) \/ ReadFile(r) \/ EndRead(r) \/ UseRows(r)
      PROVE StoreShape' /\ Keeps
  BY <1>6, ReaderStepIs DEF WorkInv, StoreShape
<1>7. CASE UNCHANGED storeVars
  BY <1>1, <1>7 DEF WorkInv, storeVars, lockVars, StoreShape
<1>8. CASE StoreNext
  <2>1. StoreShape' /\ Keeps
    BY <1>4, <1>5, <1>6, <1>8 DEF StoreNext
  <2>2. QED
    BY <1>1, <2>1 DEF WorkInv
<1>9. QED
  BY <1>7, <1>8

------------------------------------------------------------------------------
(***************************************************************************)
(* No committed row is lost.                                               *)
(***************************************************************************)
\* A merge or a seed goes by rows that are not those it replaces.
OvertakenBy(w, old) == (w.op = "merge" /\ old # w.seen) \/ (w.op = "seed" /\ w.seen = {} /\ old # {})

\* The staged files hold what a rewrite keeps of the old rows, and its own.
Replaces(w, old) ==
    /\ w.op = "compact" => old \subseteq Rows(w.staged)
    /\ w.op = "replace" => w.batch \subseteq Rows(w.staged)
    /\ w.op \in {"upsert", "merge", "seed"} =>
          OvertakenBy(w, old) \/ Upserted(old, w.batch) \subseteq Rows(w.staged)

\* The rows of the files that go are in files that stay or come.
Carries(w, d) ==
    /\ w.step = "direct" =>
          /\ w.staged \subseteq d.files \cup d.hidden
          /\ w.todo # {} => w.staged \subseteq d.hidden
          /\ Rows(w.todo) \subseteq Rows(w.staged)
    /\ w.step = "repair" =>
          /\ w.staged \cap w.todo = {}
          /\ Rows(w.todo) \subseteq Rows((d.files \ w.todo) \cup w.staged)
    /\ w.step = "away" => Replaces(w, Rows(d.files))
    /\ w.step = "in" => Replaces(w, Rows(w.backup.files))

\* What a job holds that readers do not see.
Aside(w, d) ==
    IF w.step = "direct" THEN Rows(w.staged \cap d.hidden)
    ELSE IF w.step \in {"in", "restore"} THEN Rows(w.backup.files) ELSE {}

Safe(rows, ws, d, extra) ==
    \A row \in rows :
       row \in Rows(d.files) \/ row \in extra \/ \E j \in Jobs : row \in Aside(ws[j], d)

Orphaned(backups) == UNION {Rows(d.files) : d \in backups}

Kept ==
    /\ {"direct", "overtaken"} \cap incidents = {} => Safe(committed, work, dataset, Orphaned(orphans))
    /\ incidents \subseteq {"repair"} => Safe(committed, work, dataset, {})

RowsInv == WorkInv /\ (\A j \in Jobs : Carries(work[j], dataset)) /\ Kept

LEMMA RowsOfMore ==
  ASSUME NEW files, NEW more
  PROVE  Rows(files \cup more) = Rows(files) \cup Rows(more)
  BY DEF Rows

LEMMA RowsOfSome ==
  ASSUME NEW files, NEW some, some \subseteq files
  PROVE  Rows(some) \subseteq Rows(files)
  BY DEF Rows

LEMMA RowsWithout ==
  ASSUME NEW files, NEW f
  PROVE  Rows(files) \subseteq Rows(files \ {f}) \cup f.rows
  BY DEF Rows

LEMMA RowsOfOne ==
  ASSUME NEW files, NEW f \in files
  PROVE  f.rows \subseteq Rows(files)
  BY DEF Rows

LEMMA RowsOfNone == Rows({}) = {}
  BY DEF Rows

\* What is staged for a rewrite replaces what the dataset holds.
LEMMA RewrittenReplaces ==
  ASSUME NEW w \in WorkType, NEW old \in SUBSET RowType, w.op \in Rewrites,
         NEW w2 \in WorkType, w2.op = w.op, w2.batch = w.batch, w2.seen = w.seen,
         w2.staged = Rewritten(w, old)
  PROVE  Replaces(w2, old)
<1>1. CASE w.op = "upsert"
  BY <1>1, RowsOfDataFile DEF Rewritten, Replaces
<1>2. CASE w.op = "replace"
  BY <1>2, RowsOfDataFile DEF Rewritten, Replaces
<1>3. CASE w.op = "merge"
  BY <1>3, RowsOfDataFile DEF Rewritten, Replaces, OvertakenBy
<1>4. CASE w.op = "seed" /\ w.seen # {}
  BY <1>4, RowsOfDataFile DEF Rewritten, Replaces
<1>5. CASE w.op = "seed" /\ w.seen = {}
  <2>1. Rows(w2.staged) = w.batch
    BY <1>5, RowsOfDataFile DEF Rewritten
  <2>2. old = {} => Upserted(old, w.batch) = w.batch
    BY DEF Upserted
  <2>3. QED
    BY <1>5, <2>1, <2>2 DEF Replaces, OvertakenBy
<1>6. CASE w.op = "compact"
  BY <1>6, RowsOfChunks DEF Rewritten, Replaces
<1>7. QED
  BY <1>1, <1>2, <1>3, <1>4, <1>5, <1>6 DEF Rewrites, ReadFirst

\* Repaired files are none of the bad ones.
LEMMA KindsDiffer ==
  ASSUME NEW d \in DirType, NEW bad \in SUBSET Parts(d), NEW n, NEW rows
  PROVE  Chunks("repair", n, rows) \cap bad = {}
<1>1. \A f \in bad : f.name[1] = "part"
  BY DEF Parts
<1>2. \A f \in Chunks("repair", n, rows) : f.name[1] = "repair"
  BY DEF Chunks
<1>3. QED
  BY <1>1, <1>2

LEMMA CarriesKept ==
  ASSUME NEW w \in WorkType, NEW d \in DirType, NEW w2 \in WorkType, NEW d2 \in DirType,
         InStep(w, d), Works(w, d, w2, d2), Carries(w, d)
  PROVE  Carries(w2, d2)
<1>1. CASE \/ StartsAppend(w, d, w2, d2) \/ AppendsChunk(w, d, w2, d2) \/ MovesIn(w, d, w2, d2)
          \/ StaysOut(w, d, w2, d2) \/ Leaves(w2)
  <2>1. w2.step \in {"chunks", "discard", "restore", "leave"}
    BY <1>1 DEF StartsAppend, AppendsChunk, MovesIn, StaysOut, Becomes, Leaves, NoWork
  <2>2. QED
    BY <2>1 DEF Carries
<1>2. CASE StagesDirect(w, d, w2, d2)
  <2>1. /\ w2.step = "direct" /\ Rows(w2.staged) = Rows(w2.todo)
        /\ w2.staged \subseteq d2.hidden
    BY <1>2, RowsOfChunks DEF StagesDirect, Becomes, Has
  <2>2. QED
    BY <2>1 DEF Carries
<1>3. CASE UnlinksSource(w, d, w2, d2)
  <2>1. PICK f \in w.todo : w2.todo = w.todo \ {f} /\ w2.staged = w.staged /\ w2.step = "direct" /\ Has(d2, d.files \ {f}, d.hidden)
    BY <1>3 DEF UnlinksSource, Becomes
  <2>2. w.step = "direct"
    BY <1>3 DEF UnlinksSource
  <2>3. w.staged \subseteq d2.hidden
    BY <2>1, <2>2 DEF Carries, Has
  <2>4. Rows(w2.todo) \subseteq Rows(w2.staged)
    BY <2>1, <2>2, RowsOfSome DEF Carries
  <2>5. QED
    BY <2>1, <2>3, <2>4 DEF Carries
<1>4. CASE MovesCompacted(w, d, w2, d2)
  BY <1>4 DEF MovesCompacted, Carries, Has
<1>5. CASE StagesRepair(w, d, w2, d2)
  <2>1. PICK bad \in (SUBSET Parts(d)) \ {{}} :
           Becomes(w2, w, "repair", bad, Chunks("repair", w.n, Rows(bad)), NoDirectory)
    BY <1>5 DEF StagesRepair
  <2>2. /\ w2.step = "repair" /\ w2.todo = bad /\ Rows(w2.staged) = Rows(bad)
        /\ w2.staged \cap bad = {}
    BY <2>1, RowsOfChunks, KindsDiffer DEF Becomes
  <2>3. Rows(w2.todo) \subseteq Rows((d2.files \ w2.todo) \cup w2.staged)
    BY <2>2, RowsOfMore
  <2>4. QED
    BY <2>2, <2>3 DEF Carries
<1>6. CASE MovesRepaired(w, d, w2, d2)
  <2>1. PICK f \in w.staged : w2.todo = w.todo /\ w2.staged = w.staged \ {f} /\ w2.step = "repair" /\ Has(d2, d.files \cup {f}, d.hidden)
    BY <1>6 DEF MovesRepaired, Becomes
  <2>2. w.staged \cap w.todo = {} /\ Rows(w.todo) \subseteq Rows((d.files \ w.todo) \cup w.staged)
    BY <1>6 DEF MovesRepaired, Carries
  <2>3. (d2.files \ w2.todo) \cup w2.staged = (d.files \ w.todo) \cup w.staged
    BY <2>1, <2>2 DEF Has
  <2>4. QED
    BY <2>1, <2>2, <2>3 DEF Carries
<1>7. CASE UnlinksBad(w, d, w2, d2)
  <2>1. PICK f \in w.todo : w2.todo = w.todo \ {f} /\ w2.staged = {} /\ w2.step = "repair" /\ Has(d2, d.files \ {f}, d.hidden)
    BY <1>7 DEF UnlinksBad, Becomes
  <2>2. w.staged = {} /\ Rows(w.todo) \subseteq Rows((d.files \ w.todo) \cup w.staged)
    BY <1>7 DEF UnlinksBad, Carries
  <2>3. (d2.files \ w2.todo) \cup w2.staged = (d.files \ w.todo) \cup w.staged
    BY <2>1, <2>2 DEF Has
  <2>4. Rows(w2.todo) \subseteq Rows(w.todo)
    BY <2>1, RowsOfSome
  <2>5. QED
    BY <2>1, <2>2, <2>3, <2>4 DEF Carries
<1>8. CASE StagesRewrite(w, d, w2, d2)
  <2>1. /\ w2.step = "away" /\ w2.staged = Rewritten(w, Rows(d.files)) /\ d2 = d /\ w.op \in Rewrites
        /\ w2.op = w.op /\ w2.batch = w.batch /\ w2.seen = w.seen
    BY <1>8 DEF StagesRewrite, Becomes
  <2>2. Replaces(w2, Rows(d.files))
    BY <2>1, RewrittenReplaces, RowsOf, PartsAre
  <2>3. QED
    BY <2>1, <2>2 DEF Carries
<1>9. CASE MovesAway(w, d, w2, d2)
  BY <1>9 DEF MovesAway, Carries, Becomes, Replaces, OvertakenBy
<1>10. QED
  BY <1>1, <1>2, <1>3, <1>4, <1>5, <1>6, <1>7, <1>8, <1>9 DEF Works, PutsBack, Unstages, GoesAway

\* At every step of a job's work but its last one, and the one that replaces the dataset,
\* what was there or aside is there or aside.
LEMMA ReachKept ==
  ASSUME NEW w \in WorkType, NEW d \in DirType, NEW w2 \in WorkType, NEW d2 \in DirType,
         InStep(w, d), Works(w, d, w2, d2), Carries(w, d), w2.step \notin {"discard", "leave"}
  PROVE  Rows(d.files) \cup Aside(w, d) \subseteq Rows(d2.files) \cup Aside(w2, d2)
<1>1. CASE StartsAppend(w, d, w2, d2)
  BY <1>1 DEF StartsAppend, Directory, Aside
<1>2. CASE AppendsChunk(w, d, w2, d2)
  BY <1>2, RowsOfSome DEF AppendsChunk, Has, Aside
<1>3. CASE StagesDirect(w, d, w2, d2)
  BY <1>3 DEF StagesDirect, Has, Aside
<1>4. CASE UnlinksSource(w, d, w2, d2)
  <2>1. PICK f \in w.todo : w2.staged = w.staged /\ w2.step = "direct" /\ Has(d2, d.files \ {f}, d.hidden)
    BY <1>4 DEF UnlinksSource, Becomes
  <2>2. w.step = "direct"
    BY <1>4 DEF UnlinksSource
  <2>3. w.staged \subseteq d.hidden /\ f.rows \subseteq Rows(w.staged)
    BY <2>1, <2>2, RowsOfOne DEF Carries
  <2>4. Aside(w2, d2) = Rows(w.staged) /\ Aside(w, d) = Rows(w.staged)
    <3>1. w.staged \cap d.hidden = w.staged
      BY <2>3
    <3>2. QED
      BY <2>1, <2>2, <3>1 DEF Aside, Has
  <2>5. QED
    BY <2>1, <2>3, <2>4, RowsWithout DEF Has
<1>5. CASE MovesCompacted(w, d, w2, d2)
  <2>1. PICK f \in w.staged \cap d.hidden : Has(d2, d.files \cup {f}, d.hidden \ {f})
    BY <1>5 DEF MovesCompacted
  <2>2. w2 = w /\ w.step = "direct"
    BY <1>5 DEF MovesCompacted
  <2>3. Rows(w.staged \cap d.hidden) \subseteq Rows((w.staged \cap d.hidden) \ {f}) \cup f.rows
    BY RowsWithout
  <2>4. (w.staged \cap d.hidden) \ {f} = w2.staged \cap d2.hidden
    BY <2>1, <2>2 DEF Has
  <2>5. f.rows \subseteq Rows(d2.files) /\ Rows(d.files) \subseteq Rows(d2.files)
    BY <2>1, RowsOfOne, RowsOfSome DEF Has
  <2>6. QED
    BY <2>2, <2>3, <2>4, <2>5 DEF Aside
<1>6. CASE StagesRepair(w, d, w2, d2)
  BY <1>6 DEF StagesRepair, Aside
<1>7. CASE MovesRepaired(w, d, w2, d2)
  BY <1>7, RowsOfSome DEF MovesRepaired, Has, Aside
<1>8. CASE UnlinksBad(w, d, w2, d2)
  <2>1. PICK f \in w.todo : w2.staged = {} /\ w2.step = "repair" /\ Has(d2, d.files \ {f}, d.hidden)
    BY <1>8 DEF UnlinksBad, Becomes
  <2>2. w.step = "repair" /\ w.staged = {}
    BY <1>8 DEF UnlinksBad
  <2>3. (d.files \ w.todo) \cup w.staged \subseteq d2.files
    BY <2>1, <2>2 DEF Has
  <2>4. f.rows \subseteq Rows(d2.files)
    BY <2>1, <2>2, <2>3, RowsOfOne, RowsOfSome DEF Carries
  <2>5. QED
    BY <2>1, <2>2, <2>4, RowsWithout DEF Aside, Has
<1>9. CASE StagesRewrite(w, d, w2, d2)
  BY <1>9 DEF StagesRewrite, Aside
<1>10. CASE MovesAway(w, d, w2, d2)
  BY <1>10 DEF MovesAway, Aside, Becomes
<1>11. CASE StaysOut(w, d, w2, d2)
  BY <1>11 DEF StaysOut, Aside, Becomes
<1>12. QED
  BY <1>1, <1>2, <1>3, <1>4, <1>5, <1>6, <1>7, <1>8, <1>9, <1>10, <1>11
     DEF Works, MovesIn, Becomes, PutsBack, Unstages, GoesAway, Leaves, NoWork

------------------------------------------------------------------------------
Reach(w, d) == Rows(d.files) \cup Aside(w, d)

LEMMA SafeOne ==
  ASSUME NEW rows, NEW ws, NEW d, NEW extra, NEW j \in Jobs, \A i \in Jobs \ {j} : ~Busy(ws[i])
  PROVE  Safe(rows, ws, d, extra) <=> rows \subseteq Reach(ws[j], d) \cup extra
<1>1. \A i \in Jobs \ {j} : Aside(ws[i], d) = {}
  BY DEF Busy, Quiet, Aside
<1>2. QED
  BY <1>1 DEF Safe, Reach

\* A job at work keeps the rows if those it could lose are within its reach afterwards.
LEMMA KeptIf ==
  ASSUME WorkInv, Kept, NEW j \in Jobs, Acts(j), incidents \subseteq incidents',
         \/ ~({"direct", "overtaken"} \cap incidents' = {})
         \/ committed \subseteq Reach(work[j], dataset) \cup Orphaned(orphans)
            => committed' \subseteq Reach(work'[j], dataset') \cup Orphaned(orphans'),
         \/ ~(incidents' \subseteq {"repair"})
         \/ committed \subseteq Reach(work[j], dataset) => committed' \subseteq Reach(work'[j], dataset')
  PROVE  Kept'
<1>1. \A i \in Jobs \ {j} : ~Busy(work[i]) /\ ~Busy(work'[i])
  BY Solo DEF Acts, Only
<1>2. Safe(committed, work, dataset, Orphaned(orphans))
         <=> committed \subseteq Reach(work[j], dataset) \cup Orphaned(orphans)
  BY <1>1, SafeOne
<1>3. Safe(committed', work', dataset', Orphaned(orphans'))
         <=> committed' \subseteq Reach(work'[j], dataset') \cup Orphaned(orphans')
  BY <1>1, SafeOne
<1>4. Safe(committed, work, dataset, {}) <=> committed \subseteq Reach(work[j], dataset) \cup {}
  BY <1>1, SafeOne
<1>5. Safe(committed', work', dataset', {}) <=> committed' \subseteq Reach(work'[j], dataset') \cup {}
  BY <1>1, SafeOne
<1> HIDE DEF Safe, Reach, Orphaned
<1>6. {"direct", "overtaken"} \cap incidents' = {} => Safe(committed', work', dataset', Orphaned(orphans'))
  <2>1. {"direct", "overtaken"} \cap incidents' = {} => {"direct", "overtaken"} \cap incidents = {}
    OBVIOUS
  <2>2. QED
    BY <1>2, <1>3, <2>1 DEF Kept
<1>7. incidents' \subseteq {"repair"} => Safe(committed', work', dataset', {})
  <2>1. incidents' \subseteq {"repair"} => incidents \subseteq {"repair"}
    OBVIOUS
  <2>2. QED
    BY <1>4, <1>5, <2>1 DEF Kept
<1>8. QED
  BY <1>6, <1>7 DEF Kept

\* It does if nothing is committed and nothing gets out of its reach.
LEMMA KeptByReach ==
  ASSUME WorkInv, Kept, NEW j \in Jobs, Acts(j), incidents \subseteq incidents',
         UNCHANGED committed, orphans \subseteq orphans',
         Reach(work[j], dataset) \subseteq Reach(work'[j], dataset')
  PROVE  Kept'
<1>1. Orphaned(orphans) \subseteq Orphaned(orphans')
  BY DEF Orphaned
<1>2. QED
  BY <1>1, KeptIf

\* A backup that is abandoned is an orphan.
LEMMA AbandonKeeps ==
  ASSUME StoreShape, NEW j \in Jobs, Abandon(j)
  PROVE  Orphaned(orphans) \cup Rows(work[j].backup.files) \subseteq Orphaned(orphans')
<1>1. work[j].backup \in DirType
  BY DEF StoreShape, WorkType
<1>2. CASE work[j].backup.there
  BY <1>2 DEF Abandon, Orphaned
<1>3. CASE ~work[j].backup.there
  <2>1. work[j].backup.files = {}
    BY <1>1, <1>3, NothingThere
  <2>2. QED
    BY <1>3, <2>1, RowsOfNone DEF Abandon
<1>4. QED
  BY <1>2, <1>3

LEMMA LeavingKeeps ==
  ASSUME WorkInv, Kept, NEW j \in Jobs, Acts(j), Leave(j), Keep, incidents \subseteq incidents',
         UNCHANGED committed, orphans \subseteq orphans', Aside(work[j], dataset) = {}
  PROVE  Kept'
<1>1. dataset' = dataset
  BY DEF Keep
<1>2. Reach(work[j], dataset) \subseteq Reach(work'[j], dataset')
  BY <1>1 DEF Reach
<1>3. QED
  BY <1>2, KeptByReach

\* A job that stops between taking the dataset away and putting one in leaves an orphan.
LEMMA AbandoningKeeps ==
  ASSUME WorkInv, Kept, NEW j \in Jobs, Acts(j), Leave(j), Keep, incidents \subseteq incidents',
         UNCHANGED committed, Abandon(j), work[j].step \in {"in", "restore"},
         work[j].backup.there => ~(incidents' \subseteq {"repair"})
  PROVE  Kept'
<1>1. dataset' = dataset /\ Aside(work[j], dataset) = Rows(work[j].backup.files)
  BY DEF Keep, Aside
<1>2. Orphaned(orphans) \cup Rows(work[j].backup.files) \subseteq Orphaned(orphans')
  BY AbandonKeeps DEF WorkInv
<1>3. ~work[j].backup.there => work[j].backup.files = {}
  BY NothingThere DEF WorkInv, StoreShape, WorkType
<1>4. incidents' \subseteq {"repair"} => Aside(work[j], dataset) = {}
  BY <1>1, <1>3, RowsOfNone
<1>5. committed \subseteq Reach(work[j], dataset) \cup Orphaned(orphans)
         => committed' \subseteq Reach(work'[j], dataset') \cup Orphaned(orphans')
  BY <1>1, <1>2 DEF Reach
<1>6. ~(incidents' \subseteq {"repair"})
         \/ (committed \subseteq Reach(work[j], dataset) => committed' \subseteq Reach(work'[j], dataset'))
  BY <1>1, <1>4 DEF Reach
<1>7. QED
  BY <1>5, <1>6, KeptIf

\* The same for a job that rests.
LEMMA KeptAtRest ==
  ASSUME WorkInv, Kept, NEW j \in Jobs, Rests(j), incidents \subseteq incidents', UNCHANGED committed,
         orphans \subseteq orphans',
         \/ ~({"direct", "overtaken"} \cap incidents' = {})
         \/ Aside(work[j], dataset) \subseteq Rows(dataset.files) \cup Orphaned(orphans'),
         \/ ~(incidents' \subseteq {"repair"})
         \/ Aside(work[j], dataset) \subseteq Rows(dataset.files)
  PROVE  Kept'
<1>1. dataset' = dataset /\ \A i \in Jobs \ {j} : work'[i] = work[i]
  BY DEF Rests, Only, Keep
<1>2. ASSUME NEW extra, NEW more, extra \subseteq more, Safe(committed, work, dataset, extra),
             Aside(work[j], dataset) \subseteq Rows(dataset.files) \cup more
      PROVE  Safe(committed', work', dataset', more)
  BY <1>1, <1>2 DEF Safe
<1>3. Orphaned(orphans) \subseteq Orphaned(orphans')
  BY DEF Orphaned
<1>4. {"direct", "overtaken"} \cap incidents' = {} => Safe(committed', work', dataset', Orphaned(orphans'))
  <2>1. {"direct", "overtaken"} \cap incidents' = {} => {"direct", "overtaken"} \cap incidents = {}
    OBVIOUS
  <2>2. QED
    BY <1>2, <1>3, <2>1 DEF Kept
<1>5. incidents' \subseteq {"repair"} => Safe(committed', work', dataset', {})
  <2>1. incidents' \subseteq {"repair"} => incidents \subseteq {"repair"}
    OBVIOUS
  <2>2. QED
    BY <1>2, <2>1 DEF Kept
<1>6. QED
  BY <1>4, <1>5 DEF Kept

LEMMA KeptByAppend ==
  ASSUME WorkInv, Kept, NEW j \in Jobs, Carries(work[j], dataset),
         StartAppend(j) \/ AppendChunk(j) \/ AppendFails(j) \/ FinishAppend(j)
  PROVE  Kept'
<1> DEFINE w == work[j]
<1>1. Acts(j) /\ StoreShape'
  BY StepsOfAppend
<1>2. Works(w, dataset, work'[j], dataset') /\ InStep(w, dataset) /\ StoreShape
  BY <1>1 DEF Acts, WorkInv
<1>3. incidents' = incidents /\ orphans' = orphans
  BY DEF StartAppend, AppendChunk, AppendFails, FinishAppend
<1>4. CASE StartAppend(j)
  <2>1. work'[j].step = "chunks" /\ committed' = committed
    BY <1>2, <1>4 DEF StartAppend, StoreShape, WorkType
  <2>2. Reach(w, dataset) \subseteq Reach(work'[j], dataset')
    BY <1>1, <1>2, <2>1, ReachKept DEF StoreShape, Reach
  <2>3. QED
    BY <1>1, <1>3, <2>1, <2>2, KeptByReach
<1>5. CASE AppendChunk(j)
  <2>1. PICK f \in w.todo :
          /\ Put([dataset EXCEPT !.files = @ \cup {f}])
          /\ committed' = committed \cup f.rows
    BY <1>5 DEF AppendChunk
  <2>2. work'[j].step = "chunks"
    BY <1>2, <1>5 DEF AppendChunk, At, StoreShape, WorkType
  <2>3. Reach(w, dataset) \subseteq Reach(work'[j], dataset')
    BY <1>1, <1>2, <2>2, ReachKept DEF StoreShape, Reach
  <2>4. f \in dataset'.files
    BY <1>2, <2>1 DEF Put, StoreShape, DirType
  <2>5. f.rows \subseteq Reach(work'[j], dataset')
    BY <2>4, RowsOfOne DEF Reach
  <2> HIDE DEF Reach
  <2>6. QED
    BY <1>1, <1>3, <2>1, <2>3, <2>5, KeptIf
<1>6. CASE AppendFails(j) \/ FinishAppend(j)
  <2>1. Leave(j) /\ Keep /\ committed' = committed /\ w.step = "chunks"
    BY <1>6 DEF AppendFails, FinishAppend, At
  <2>2. Aside(w, dataset) = {}
    BY <2>1 DEF Aside
  <2>3. QED
    BY <1>1, <1>3, <2>1, <2>2, LeavingKeeps
<1>7. QED
  BY <1>4, <1>5, <1>6

LEMMA KeptByDirect ==
  ASSUME WorkInv, Kept, NEW j \in Jobs, Carries(work[j], dataset),
         StageDirect(j) \/ UnlinkSource(j) \/ MoveCompacted(j) \/ FinishDirect(j) \/ DirectFails(j)
  PROVE  Kept'
<1> DEFINE w == work[j]
<1>1. Acts(j) /\ StoreShape'
  BY StepsOfDirect
<1>2. Works(w, dataset, work'[j], dataset') /\ InStep(w, dataset) /\ StoreShape
  BY <1>1 DEF Acts, WorkInv
<1>3. orphans' = orphans /\ committed' = committed
  BY DEF StageDirect, UnlinkSource, MoveCompacted, FinishDirect, DirectFails
<1>4. CASE StageDirect(j) \/ UnlinkSource(j) \/ MoveCompacted(j)
  <2>1. work'[j].step = "direct" /\ incidents' = incidents
    BY <1>2, <1>4 DEF StageDirect, UnlinkSource, MoveCompacted, At, StoreShape, WorkType
  <2>2. Reach(w, dataset) \subseteq Reach(work'[j], dataset')
    BY <1>1, <1>2, <2>1, ReachKept DEF StoreShape, Reach
  <2>3. QED
    BY <1>1, <1>3, <2>1, <2>2, KeptByReach
<1>5. CASE FinishDirect(j)
  <2>1. /\ Leave(j) /\ Keep /\ incidents' = incidents
        /\ w.step = "start" \/ (w.step = "direct" /\ w.staged \cap dataset.hidden = {})
    BY <1>5 DEF FinishDirect, At
  <2>2. Aside(w, dataset) = {}
    BY <2>1, RowsOfNone DEF Aside
  <2>3. QED
    BY <1>1, <1>3, <2>1, <2>2, LeavingKeeps
<1>6. CASE DirectFails(j) /\ Unlinked(j)
  <2>1. incidents' = incidents \cup {"direct"}
    BY <1>6 DEF DirectFails
  <2>2. QED
    BY <1>1, <2>1, KeptIf
<1>7. CASE DirectFails(j) /\ ~Unlinked(j)
  <2>1. incidents' = incidents /\ w.step = "direct" /\ Rows(w.staged) \subseteq Rows(dataset.files)
    BY <1>7 DEF DirectFails, At, Unlinked
  <2>2. dataset'.files = dataset.files
    BY <1>2, <1>7, HiddenShrinks DEF DirectFails, Put, StoreShape
  <2>3. Rows(w.staged \cap dataset.hidden) \subseteq Rows(w.staged)
    BY RowsOfSome
  <2>4. Reach(w, dataset) \subseteq Reach(work'[j], dataset')
    BY <2>1, <2>2, <2>3 DEF Reach, Aside
  <2>5. QED
    BY <1>1, <1>3, <2>1, <2>4, KeptByReach
<1>8. QED
  BY <1>4, <1>5, <1>6, <1>7

LEMMA KeptByRepair ==
  ASSUME WorkInv, Kept, NEW j \in Jobs, Carries(work[j], dataset),
         StageRepair(j) \/ MoveRepaired(j) \/ UnlinkBad(j) \/ FinishRepair(j) \/ RepairFails(j)
  PROVE  Kept'
<1> DEFINE w == work[j]
<1>1. Acts(j) /\ StoreShape'
  BY StepsOfRepair
<1>2. Works(w, dataset, work'[j], dataset') /\ InStep(w, dataset) /\ StoreShape
  BY <1>1 DEF Acts, WorkInv
<1>3. orphans' = orphans /\ committed' = committed /\ incidents \subseteq incidents'
  BY DEF StageRepair, MoveRepaired, UnlinkBad, FinishRepair, RepairFails
<1>4. CASE StageRepair(j) \/ MoveRepaired(j) \/ UnlinkBad(j)
  <2>1. work'[j].step = "repair"
    BY <1>2, <1>4 DEF StageRepair, MoveRepaired, UnlinkBad, At, StoreShape, WorkType
  <2>2. Reach(w, dataset) \subseteq Reach(work'[j], dataset')
    BY <1>1, <1>2, <2>1, ReachKept DEF StoreShape, Reach
  <2>3. QED
    BY <1>1, <1>3, <2>2, KeptByReach
<1>5. CASE FinishRepair(j) \/ RepairFails(j)
  <2>1. Leave(j) /\ Keep /\ w.step \in {"start", "repair"}
    BY <1>5 DEF FinishRepair, RepairFails, At
  <2>2. Aside(w, dataset) = {}
    BY <2>1 DEF Aside
  <2>3. QED
    BY <1>1, <1>3, <2>1, <2>2, LeavingKeeps
<1>6. QED
  BY <1>4, <1>5

\* What is committed when a rewrite moves in is in its staged files, unless it was overtaken.
Commits(w, rows, after) ==
    after = CASE w.op \in {"upsert", "merge", "seed"} -> Upserted(rows, w.batch)
              [] w.op = "replace" -> w.batch
              [] w.op = "compact" -> rows

LEMMA RewriteCommits ==
  ASSUME NEW w \in WorkType, NEW rows \in SUBSET RowType, NEW extra, NEW after,
         Replaces(w, Rows(w.backup.files)), w.op \in Rewrites,
         ~OvertakenBy(w, Rows(w.backup.files)),
         rows \subseteq Rows(w.backup.files) \cup extra, Commits(w, rows, after)
  PROVE  after \subseteq Rows(w.staged) \cup extra
<1>1. CASE w.op \in {"upsert", "merge", "seed"}
  <2>1. after = Upserted(rows, w.batch)
    BY <1>1 DEF Commits
  <2>2. Upserted(rows, w.batch) \subseteq Upserted(Rows(w.backup.files), w.batch) \cup extra
    BY DEF Upserted
  <2>3. QED
    BY <1>1, <2>1, <2>2 DEF Replaces
<1>2. CASE w.op = "replace"
  BY <1>2 DEF Replaces, Commits
<1>3. CASE w.op = "compact"
  BY <1>3 DEF Replaces, Commits
<1>4. QED
  BY <1>1, <1>2, <1>3 DEF Rewrites, ReadFirst

LEMMA KeptByRewrite ==
  ASSUME WorkInv, Kept, NEW j \in Jobs, Carries(work[j], dataset),
         \/ StageRewrite(j) \/ MoveAway(j) \/ MoveIn(j) \/ DiscardBackup(j)
         \/ GiveUpRewrite(j) \/ MoveInFails(j) \/ Restore(j) \/ RestoreFails(j)
  PROVE  Kept'
<1> DEFINE w == work[j]
<1>1. Acts(j) /\ StoreShape'
  BY StepsOfRewrite
<1>2. Works(w, dataset, work'[j], dataset') /\ InStep(w, dataset) /\ StoreShape
  BY <1>1 DEF Acts, WorkInv
<1>3. CASE StageRewrite(j) \/ MoveAway(j) \/ (MoveInFails(j) /\ w.op # "compact")
  <2>1. work'[j].step \in {"away", "in", "restore"} /\ UNCHANGED <<orphans, committed, incidents>>
    BY <1>2, <1>3 DEF StageRewrite, MoveAway, MoveInFails, StoreShape, WorkType
  <2>2. Reach(w, dataset) \subseteq Reach(work'[j], dataset')
    BY <1>1, <1>2, <2>1, ReachKept DEF StoreShape, Reach
  <2>3. QED
    BY <1>1, <2>1, <2>2, KeptByReach
<1>4. CASE MoveIn(j)
  <2>1. /\ w.step = "in" /\ w.op \in Rewrites /\ orphans' = orphans /\ Put(Directory(w.staged, {}))
        /\ Commits(w, committed, committed')
        /\ incidents' = IF Overtaken(j) THEN incidents \cup {"overtaken"} ELSE incidents
    BY <1>4 DEF MoveIn, At, Commits
  <2>2. w \in WorkType /\ committed \in SUBSET RowType /\ Replaces(w, Rows(w.backup.files))
    BY <1>2, <2>1 DEF StoreShape, Carries
  <2>3. Reach(w, dataset) = Rows(w.backup.files)
    BY <1>2, <2>1, RowsOfNone DEF InStep, Reach, Aside, NoDirectory
  <2>4. Rows(w.staged) \subseteq Reach(work'[j], dataset')
    BY <2>1 DEF Put, Directory, Reach
  <2>5. Overtaken(j) <=> OvertakenBy(w, Rows(w.backup.files))
    BY DEF Overtaken, OvertakenBy
  <2>6. CASE Overtaken(j)
    BY <1>1, <2>1, <2>6, KeptIf
  <2>7. CASE ~Overtaken(j)
    <3>1. ASSUME NEW extra, committed \subseteq Reach(w, dataset) \cup extra
          PROVE  committed' \subseteq Reach(work'[j], dataset') \cup extra
      <4>1. committed' \subseteq Rows(w.staged) \cup extra
        BY <2>1, <2>2, <2>3, <2>5, <2>7, <3>1, RewriteCommits
      <4>2. QED
        BY <2>4, <4>1
    <3>2. committed \subseteq Reach(w, dataset) \cup Orphaned(orphans)
            => committed' \subseteq Reach(work'[j], dataset') \cup Orphaned(orphans')
      BY <2>1, <3>1
    <3>3. committed \subseteq Reach(w, dataset) => committed' \subseteq Reach(work'[j], dataset')
      <4>1. committed \subseteq Reach(w, dataset) \cup {} => committed' \subseteq Reach(work'[j], dataset') \cup {}
        BY <3>1
      <4>2. QED
        BY <4>1
    <3> HIDE DEF Reach, Orphaned
    <3>4. QED
      BY <1>1, <2>1, <2>7, <3>2, <3>3, KeptIf
  <2>8. QED
    BY <2>6, <2>7
<1>5. CASE DiscardBackup(j) \/ GiveUpRewrite(j)
  <2>1. /\ Leave(j) /\ Keep /\ UNCHANGED <<committed, incidents>> /\ w.step \in {"discard", "away", "start"}
        /\ Abandon(j) \/ UNCHANGED orphans
    BY <1>5 DEF DiscardBackup, GiveUpRewrite, At
  <2>2. Aside(w, dataset) = {} /\ orphans \subseteq orphans'
    BY <1>2, <2>1, AbandonIs DEF Aside
  <2>3. QED
    BY <1>1, <2>1, <2>2, LeavingKeeps
<1>6. CASE (MoveInFails(j) /\ w.op = "compact") \/ RestoreFails(j)
  <2>1. /\ Leave(j) /\ Keep /\ UNCHANGED committed /\ w.step \in {"in", "restore"} /\ Abandon(j)
        /\ incidents' \in {incidents \cup {"compact"}, incidents \cup {"restore"}}
    BY <1>6 DEF MoveInFails, RestoreFails, At
  <2>2. incidents \subseteq incidents' /\ ~(incidents' \subseteq {"repair"})
    BY <2>1
  <2>3. QED
    BY <1>1, <2>1, <2>2, AbandoningKeeps
<1>7. CASE Restore(j) /\ w.backup.there
  <2>1. w.step = "restore" /\ dataset = NoDirectory /\ UNCHANGED <<committed, incidents>>
    BY <1>2, <1>7 DEF Restore, At, InStep
  <2>2. ~dataset.there
    BY <2>1 DEF NoDirectory
  <2>3. dataset' = w.backup /\ orphans' = orphans
    BY <1>7, <2>2 DEF Restore, Put
  <2>4. Reach(w, dataset) \subseteq Reach(work'[j], dataset')
    BY <2>1, <2>3, RowsOfNone DEF Reach, Aside, NoDirectory
  <2>5. QED
    BY <1>1, <2>1, <2>3, <2>4, KeptByReach
<1>8. CASE Restore(j) /\ ~w.backup.there
  <2>1. w.step = "restore" /\ UNCHANGED <<committed, incidents>> /\ Leave(j) /\ Keep /\ Abandon(j)
    BY <1>8 DEF Restore, At
  <2>2. QED
    BY <1>1, <1>8, <2>1, AbandoningKeeps
<1>9. QED
  BY <1>3, <1>4, <1>5, <1>6, <1>7, <1>8

\* A job that was not killed comes to rest when its work is done.
LEMMA NotAtWork ==
  ASSUME WorkInv, NEW j \in Jobs, Begin(j) \/ Look(j) \/ BeginSeen(j) \/ NotLocked(j) \/ Finish(j)
  PROVE  ~Busy(work[j]) \/ work[j].step = "leave"
<1>1. CASE Begin(j) \/ Look(j)
  <2>1. work[j] = NoWork
    BY <1>1 DEF Begin, Look, NewWork
  <2>2. QED
    BY <2>1 DEF NoWork, Busy, Quiet
<1>2. CASE BeginSeen(j) \/ Finish(j)
  BY <1>2 DEF BeginSeen, Finish, Busy, Quiet
<1>3. CASE NotLocked(j)
  BY <1>3 DEF WorkInv, NotLocked, GiveUp, WritePidFails, Ages
<1>4. QED
  BY <1>1, <1>2, <1>3

LEMMA KeptByLock ==
  ASSUME WorkInv, Kept, NEW j \in Jobs,
         Begin(j) \/ Look(j) \/ BeginSeen(j) \/ NotLocked(j) \/ Finish(j) \/ Crash(j)
  PROVE  Kept'
<1> DEFINE w == work[j]
<1>1. Rests(j) /\ StoreShape'
  BY StepsOfLock
<1>2. InStep(w, dataset) /\ (Busy(w) => stage[j] = "in") /\ StoreShape
  BY DEF WorkInv
<1>3. committed' = committed
  BY DEF Begin, Look, BeginSeen, NewWork, NotLocked, Finish, Crash
<1>4. CASE ~Crash(j)
  <2>1. UNCHANGED <<orphans, incidents>>
    BY <1>4 DEF Begin, Look, BeginSeen, NewWork, NotLocked, Finish
  <2>2. ~Busy(w) \/ w.step = "leave"
    BY <1>4, NotAtWork
  <2>3. Aside(w, dataset) = {}
    BY <2>2 DEF Aside, Busy, Quiet
  <2>4. QED
    BY <1>1, <1>3, <2>1, <2>3, KeptAtRest
<1>5. CASE Crash(j)
  <2>1. /\ Abandon(j)
        /\ incidents \subseteq incidents'
        /\ At(j, Appends, "direct") /\ Unlinked(j) => "direct" \in incidents'
        /\ w.backup.there /\ ~dataset.there => "crash" \in incidents'
    <3> DEFINE direct == IF At(j, Appends, "direct") /\ Unlinked(j) THEN {"direct"} ELSE {}
               crash == IF w.backup.there /\ ~dataset.there THEN {"crash"} ELSE {}
               repair == IF LeavesDoubled(j) THEN {"repair"} ELSE {}
    <3>1. incidents' = incidents \cup direct \cup crash \cup repair /\ Abandon(j)
      BY <1>5 DEF Crash
    <3>2. /\ At(j, Appends, "direct") /\ Unlinked(j) => "direct" \in direct
          /\ w.backup.there /\ ~dataset.there => "crash" \in crash
      OBVIOUS
    <3> HIDE DEF direct, crash, repair
    <3>3. QED
      BY <3>1, <3>2
  <2>2. orphans \subseteq orphans' /\ Rows(w.backup.files) \subseteq Orphaned(orphans')
    BY <1>2, <2>1, AbandonIs, AbandonKeeps
  <2>3. CASE w.step = "direct"
    <3>1. At(j, Appends, "direct")
      BY <1>2, <2>3 DEF InStep, Busy, Quiet, At
    <3>2. Aside(w, dataset) \subseteq Rows(w.staged)
      BY <2>3, RowsOfSome DEF Aside
    <3>3. CASE Unlinked(j)
      BY <1>1, <1>3, <2>1, <2>2, <3>1, <3>3, KeptAtRest
    <3>4. CASE ~Unlinked(j)
      <4>1. Aside(w, dataset) \subseteq Rows(dataset.files)
        BY <3>2, <3>4 DEF Unlinked
      <4>2. QED
        BY <1>1, <1>3, <2>1, <2>2, <4>1, KeptAtRest
    <3>5. QED
      BY <3>3, <3>4
  <2>4. CASE w.step \in {"in", "restore"}
    <3>1. Aside(w, dataset) = Rows(w.backup.files) /\ ~dataset.there
      BY <1>2, <2>4 DEF Aside, InStep, NoDirectory
    <3>2. ~w.backup.there => Rows(w.backup.files) = {}
      BY <1>2, NothingThere, RowsOfNone DEF StoreShape, WorkType
    <3>3. QED
      BY <1>1, <1>3, <2>1, <2>2, <3>1, <3>2, KeptAtRest
  <2>5. CASE w.step \notin {"direct", "in", "restore"}
    <3>1. Aside(w, dataset) = {}
      BY <2>5 DEF Aside
    <3>2. QED
      BY <1>1, <1>3, <2>1, <2>2, <3>1, KeptAtRest
  <2>6. QED
    BY <2>3, <2>4, <2>5
<1>6. QED
  BY <1>4, <1>5

LEMMA RowsInvInit == StoreInit => RowsInv
<1> SUFFICES ASSUME StoreInit PROVE RowsInv
  OBVIOUS
<1>1. \A j \in Jobs : Carries(work[j], dataset)
  BY DEF StoreInit, NoWork, Carries
<1>2. Kept
  BY DEF StoreInit, Kept, Safe
<1>3. QED
  BY <1>1, <1>2, WorkInvInit DEF RowsInv

LEMMA RowsInvStep == RowsInv /\ [StoreNext]_storeVars /\ lapses' = {} => RowsInv'
<1> SUFFICES ASSUME RowsInv, [StoreNext]_storeVars, lapses' = {} PROVE RowsInv'
  OBVIOUS
<1>1. WorkInv /\ WorkInv' /\ Kept /\ \A j \in Jobs : Carries(work[j], dataset)
  BY WorkInvStep DEF RowsInv
<1> DEFINE Carried == \A j \in Jobs : Carries(work'[j], dataset')
<1>2. ASSUME NEW j \in Jobs, JobStep(j), ~Lock(j) PROVE Carried /\ Kept'
  <2>1. Acts(j) \/ Rests(j)
    BY <1>1, <1>2, JobSteps
  <2>2. ASSUME Acts(j) PROVE Carried
    <3>1. Carries(work'[j], dataset')
      BY <1>1, <2>2, CarriesKept DEF Acts, Only, WorkInv, StoreShape
    <3>2. ASSUME NEW i \in Jobs, i # j PROVE Carries(work'[i], dataset')
      <4>1. work'[i] = work[i] /\ ~Busy(work[i])
        BY <1>1, <2>2, <3>2, Solo DEF Acts, Only
      <4>2. QED
        BY <4>1 DEF Busy, Quiet, Carries
    <3>3. QED
      BY <3>1, <3>2
  <2>3. ASSUME Rests(j) PROVE Carried
    <3>1. Carries(work'[j], dataset')
      BY <2>3 DEF Rests, Busy, Quiet, Carries
    <3>2. QED
      BY <1>1, <2>3, <3>1 DEF Rests, Only, Keep
  <2>4. Kept'
    BY <1>1, <1>2, KeptByAppend, KeptByDirect, KeptByRepair, KeptByRewrite, KeptByLock DEF JobStep
  <2>5. QED
    BY <2>1, <2>2, <2>3, <2>4
<1>3. ASSUME UNCHANGED <<dataset, work, orphans, committed, incidents>> PROVE Carried /\ Kept'
  BY <1>1, <1>3 DEF Kept
<1>4. ASSUME (\E j \in Jobs : Lock(j)) \/ Age PROVE Carried /\ Kept'
  BY <1>1, <1>3, <1>4, LockStepIs
<1>5. ASSUME NEW r \in Readers, ListFiles(r) \/ CheckFile(r) \/ ReadFile(r) \/ EndRead(r) \/ UseRows(r)
      PROVE  Carried /\ Kept'
  BY <1>1, <1>3, <1>5, ReaderStepIs DEF WorkInv
<1>6. CASE UNCHANGED storeVars
  BY <1>1, <1>3, <1>6 DEF storeVars, RowsInv
<1>7. CASE StoreNext
  <2>1. Carried /\ Kept'
    BY <1>2, <1>4, <1>5, <1>7 DEF StoreNext
  <2>2. QED
    BY <1>1, <2>1 DEF RowsInv
<1>8. QED
  BY <1>6, <1>7

LEMMA RowsInvOnDisk == (lapses = {} => RowsInv) => CommittedOnDisk
<1> SUFFICES ASSUME RowsInv, {"direct", "overtaken"} \cap incidents = {} PROVE committed \subseteq RowsOnDisk
  BY DEF CommittedOnDisk
<1>1. Safe(committed, work, dataset, Orphaned(orphans))
  BY DEF RowsInv, Kept
<1>2. Rows(dataset.files) \subseteq RowsOnDisk /\ Orphaned(orphans) \subseteq RowsOnDisk
  BY DEF RowsOnDisk, AllRows, Orphaned
<1>3. ASSUME NEW j \in Jobs PROVE Aside(work[j], dataset) \subseteq RowsOnDisk
  <2>1. Rows(work[j].staged \cap dataset.hidden) \subseteq Rows(dataset.hidden)
    BY RowsOfSome
  <2>2. Rows(work[j].backup.files) \subseteq RowsOnDisk /\ Rows(dataset.hidden) \subseteq RowsOnDisk
    BY DEF RowsOnDisk, AllRows
  <2>3. QED
    BY <2>1, <2>2 DEF Aside
<1>4. QED
  BY <1>1, <1>2, <1>3 DEF Safe

LEMMA RowsInvVisible == (lapses = {} => RowsInv) => CommittedVisible
<1> SUFFICES ASSUME RowsInv, incidents \subseteq {"repair"}, \A j \in Jobs : ~Holds(j)
             PROVE  committed \subseteq Rows(dataset.files)
  BY DEF CommittedVisible
<1>1. Safe(committed, work, dataset, {})
  BY DEF RowsInv, Kept
<1>2. \A j \in Jobs : Aside(work[j], dataset) = {}
  BY DEF RowsInv, WorkInv, Holds, Busy, Quiet, Aside
<1>3. QED
  BY <1>1, <1>2 DEF Safe

\* No committed row leaves the disk, whatever fails and whoever is killed, except by the two
\* mishaps that CommittedOnDisk names.
THEOREM CommittedStays == StoreSpec => []CommittedOnDisk
<1>1. StoreInit => RowsInv
  BY RowsInvInit
<1>2. (lapses = {} => RowsInv) /\ [StoreNext]_storeVars => (lapses = {} => RowsInv)'
  BY RowsInvStep, StoreLapsesStay
<1>3. (lapses = {} => RowsInv) => CommittedOnDisk
  BY RowsInvOnDisk
<1>4. QED
  BY <1>1, <1>2, <1>3, PTL DEF StoreSpec

\* Between jobs every committed row is where readers find it, unless one of the mishaps
\* that hide the dataset has happened.
THEOREM CommittedFound == StoreSpec => []CommittedVisible
<1>1. StoreInit => RowsInv
  BY RowsInvInit
<1>2. (lapses = {} => RowsInv) /\ [StoreNext]_storeVars => (lapses = {} => RowsInv)'
  BY RowsInvStep, StoreLapsesStay
<1>3. (lapses = {} => RowsInv) => CommittedVisible
  BY RowsInvVisible
<1>4. QED
  BY <1>1, <1>2, <1>3, PTL DEF StoreSpec

------------------------------------------------------------------------------
(***************************************************************************)
(* No row is in two files.                                                 *)
(***************************************************************************)
Planned(w) == w.step \in {"look", "start"}

\* Operations have numbers of their own, which their rows carry.
Numbered(ws, m) ==
    \A j \in Jobs :
       /\ ws[j].n <= m
       /\ \A row \in ws[j].batch : row.write = ws[j].n
       /\ Planned(ws[j]) => ws[j].n # 0 /\ \A i \in Jobs : ws[i].n = ws[j].n => i = j

\* A row that is not of an operation that has not begun to write.
OldRow(row, ws, m) == row.write <= m /\ \A j \in Jobs : Planned(ws[j]) => row.write # ws[j].n

\* The rows of the dataset and those that may come into it.
Content(w, d) == Rows(d.files) \cup Rows(w.todo) \cup Rows(w.staged) \cup Rows(w.backup.files) \cup w.seen

OldRows ==
    /\ Numbered(work, writes)
    /\ \A j \in Jobs : \A row \in Content(work[j], dataset) : OldRow(row, work, writes)
    /\ \A row \in Rows(dataset.files) : OldRow(row, work, writes)

\* What the dataset will hold when the job is done.
Outcome(w, d) ==
    IF w.step = "chunks" THEN d.files \cup w.todo
    ELSE IF w.step \in {"direct", "repair"} THEN (d.files \ w.todo) \cup w.staged
    ELSE IF w.step \in {"away", "in"} THEN w.staged ELSE {}

Clean(w, d) == ~Doubled(Outcome(w, d)) /\ ~Doubled(w.backup.files)

RowsOnce ==
    "repair" \notin incidents =>
       /\ (\A j \in Jobs : work[j].step # "repair") => ~Doubled(dataset.files)
       /\ \A j \in Jobs : Clean(work[j], dataset)

OnceInv == WorkInv /\ OldRows /\ RowsOnce

LEMMA UpsertedRows ==
  ASSUME NEW rows, NEW batch
  PROVE  Upserted(rows, batch) \subseteq rows \cup batch
  BY DEF Upserted

LEMMA RewrittenRows ==
  ASSUME NEW w \in WorkType, NEW old, w.op \in Rewrites
  PROVE  Rows(Rewritten(w, old)) \subseteq old \cup w.seen \cup w.batch
<1>1. CASE w.op = "upsert"
  BY <1>1, RowsOfDataFile, UpsertedRows DEF Rewritten
<1>2. CASE w.op = "replace"
  BY <1>2, RowsOfDataFile DEF Rewritten
<1>3. CASE w.op = "merge"
  BY <1>3, RowsOfDataFile, UpsertedRows DEF Rewritten
<1>4. CASE w.op = "seed"
  <2>1. CASE w.seen = {}
    BY <1>4, <2>1, RowsOfDataFile DEF Rewritten
  <2>2. CASE w.seen # {}
    BY <1>4, <2>2, RowsOfDataFile, UpsertedRows DEF Rewritten
  <2>3. QED
    BY <2>1, <2>2
<1>5. CASE w.op = "compact"
  BY <1>5, RowsOfChunks DEF Rewritten
<1>6. QED
  BY <1>1, <1>2, <1>3, <1>4, <1>5 DEF Rewrites, ReadFirst

\* Rows come into the dataset and into staged files from there, or from the batch of an
\* operation that begins to write.
LEMMA RowsComeFrom ==
  ASSUME NEW w \in WorkType, NEW d \in DirType, NEW w2 \in WorkType, NEW d2 \in DirType,
         InStep(w, d), Works(w, d, w2, d2)
  PROVE  Content(w2, d2) \subseteq Content(w, d) \cup (IF w.step = "start" THEN w.batch ELSE {})
<1> USE RowsOfNone
<1>1. CASE StartsAppend(w, d, w2, d2)
  BY <1>1, RowsOfChunks DEF StartsAppend, Becomes, Directory, Content, NoDirectory
<1>2. CASE AppendsChunk(w, d, w2, d2)
  <2>1. PICK f \in w.todo : Becomes(w2, w, "chunks", w.todo \ {f}, w.staged, w.backup) /\ Has(d2, d.files \cup {f}, d.hidden)
    BY <1>2 DEF AppendsChunk
  <2>2. Rows(w.todo \ {f}) \subseteq Rows(w.todo) /\ Rows({f}) \subseteq Rows(w.todo)
    BY RowsOfSome
  <2>3. QED
    BY <2>1, <2>2, RowsOfMore DEF Becomes, Has, Content
<1>3. CASE StagesDirect(w, d, w2, d2)
  <2>1. PICK some \in SUBSET d.files :
           Becomes(w2, w, "direct", some, Chunks("compact", w.n, Rows(some)), NoDirectory)
    BY <1>3 DEF StagesDirect
  <2>2. Rows(some) \subseteq Rows(d.files)
    BY RowsOfSome
  <2>3. QED
    BY <1>3, <2>1, <2>2, RowsOfChunks DEF StagesDirect, Becomes, Has, Content, NoDirectory
<1>4. CASE UnlinksSource(w, d, w2, d2)
  <2>1. PICK f \in w.todo : Becomes(w2, w, "direct", w.todo \ {f}, w.staged, w.backup) /\ Has(d2, d.files \ {f}, d.hidden)
    BY <1>4 DEF UnlinksSource
  <2>2. Rows(w.todo \ {f}) \subseteq Rows(w.todo) /\ Rows(d.files \ {f}) \subseteq Rows(d.files)
    BY RowsOfSome
  <2>3. QED
    BY <2>1, <2>2 DEF Becomes, Has, Content
<1>5. CASE MovesCompacted(w, d, w2, d2)
  <2>1. PICK f \in w.staged \cap d.hidden : Has(d2, d.files \cup {f}, d.hidden \ {f})
    BY <1>5 DEF MovesCompacted
  <2>2. Rows({f}) \subseteq Rows(w.staged)
    BY RowsOfSome
  <2>3. QED
    BY <1>5, <2>1, <2>2, RowsOfMore DEF MovesCompacted, Has, Content
<1>6. CASE StagesRepair(w, d, w2, d2)
  <2>1. PICK bad \in (SUBSET Parts(d)) \ {{}} :
           Becomes(w2, w, "repair", bad, Chunks("repair", w.n, Rows(bad)), NoDirectory)
    BY <1>6 DEF StagesRepair
  <2>2. Rows(bad) \subseteq Rows(d.files) /\ d2 = d
    BY <1>6, RowsOfSome, PartsAre DEF StagesRepair
  <2>3. Rows(w2.todo) = Rows(bad) /\ Rows(w2.staged) = Rows(bad) /\ w2.backup = NoDirectory /\ w2.seen = w.seen
    BY <2>1, RowsOfChunks DEF Becomes
  <2>4. QED
    BY <2>2, <2>3 DEF Content, NoDirectory
<1>7. CASE MovesRepaired(w, d, w2, d2)
  <2>1. PICK f \in w.staged : Becomes(w2, w, "repair", w.todo, w.staged \ {f}, w.backup) /\ Has(d2, d.files \cup {f}, d.hidden)
    BY <1>7 DEF MovesRepaired
  <2>2. Rows(w.staged \ {f}) \subseteq Rows(w.staged) /\ Rows({f}) \subseteq Rows(w.staged)
    BY RowsOfSome
  <2>3. QED
    BY <2>1, <2>2, RowsOfMore DEF Becomes, Has, Content
<1>8. CASE UnlinksBad(w, d, w2, d2)
  <2>1. PICK f \in w.todo : Becomes(w2, w, "repair", w.todo \ {f}, {}, w.backup) /\ Has(d2, d.files \ {f}, d.hidden)
    BY <1>8 DEF UnlinksBad
  <2>2. Rows(w.todo \ {f}) \subseteq Rows(w.todo) /\ Rows(d.files \ {f}) \subseteq Rows(d.files)
    BY RowsOfSome
  <2>3. QED
    BY <2>1, <2>2 DEF Becomes, Has, Content
<1>9. CASE StagesRewrite(w, d, w2, d2)
  <2>1. Rows(w2.staged) \subseteq Rows(d.files) \cup w.seen \cup w.batch
    BY <1>9, RewrittenRows DEF StagesRewrite, Becomes
  <2>2. QED
    BY <1>9, <2>1 DEF StagesRewrite, Becomes, Content, NoDirectory
<1>10. CASE MovesAway(w, d, w2, d2)
  BY <1>10 DEF MovesAway, Becomes, Content, NoDirectory
<1>11. CASE MovesIn(w, d, w2, d2)
  BY <1>11 DEF MovesIn, Becomes, Content, Directory
<1>12. CASE StaysOut(w, d, w2, d2)
  BY <1>12 DEF StaysOut, Becomes, Content
<1>13. CASE PutsBack(w, d, w2, d2)
  BY <1>13 DEF PutsBack, Leaves, NoWork, Content, NoDirectory
<1>14. CASE Unstages(w, d, w2, d2) \/ GoesAway(w, d, w2, d2)
  BY <1>14 DEF Unstages, GoesAway, Has, Leaves, NoWork, Content, NoDirectory
<1>15. QED
  BY <1>1, <1>2, <1>3, <1>4, <1>5, <1>6, <1>7, <1>8, <1>9, <1>10, <1>11, <1>12, <1>13, <1>14 DEF Works

LEMMA NoneDoubled ==
  ASSUME NEW files, NEW some, some \subseteq files, ~Doubled(files)
  PROVE  ~Doubled(some)
  BY DEF Doubled

LEMMA ChunksOnce ==
  ASSUME NEW prefix, NEW n, NEW rows
  PROVE  ~Doubled(Chunks(prefix, n, rows))
<1> DEFINE chunk(k) == [name |-> <<prefix, n, k>>, rows |-> {r \in rows : r.key = k}]
<1>1. ASSUME NEW k PROVE chunk(k).rows = {r \in rows : r.key = k}
  OBVIOUS
<1> HIDE DEF chunk
<1>2. ~Doubled({chunk(k) : k \in KeysOf(rows)})
  <2> SUFFICES ASSUME NEW k \in KeysOf(rows), NEW l \in KeysOf(rows), NEW row \in chunk(k).rows \cap chunk(l).rows
               PROVE  chunk(k) = chunk(l)
    BY DEF Doubled
  <2>1. row.key = k /\ row.key = l
    BY <1>1
  <2>2. QED
    BY <2>1
<1>3. QED
  BY <1>2 DEF Chunks, chunk

LEMMA OneFile ==
  ASSUME NEW f
  PROVE  ~Doubled({f})
  BY DEF Doubled

LEMMA NotDoubledTogether ==
  ASSUME NEW files, NEW more, ~Doubled(files), ~Doubled(more), Rows(files) \cap Rows(more) = {}
  PROVE  ~Doubled(files \cup more)
<1> SUFFICES ASSUME NEW f \in files \cup more, NEW g \in files \cup more, f # g, NEW row \in f.rows \cap g.rows
             PROVE  FALSE
  BY DEF Doubled
<1>1. ~(f \in files /\ g \in files) /\ ~(f \in more /\ g \in more)
  BY DEF Doubled
<1>2. row \in Rows(files) /\ row \in Rows(more)
  BY <1>1 DEF Rows
<1>3. QED
  BY <1>2

LEMMA RestDisjoint ==
  ASSUME NEW files, NEW some, some \subseteq files, ~Doubled(files)
  PROVE  Rows(files \ some) \cap Rows(some) = {}
<1> SUFFICES ASSUME NEW f \in files \ some, NEW g \in some, NEW row \in f.rows \cap g.rows PROVE FALSE
  BY DEF Rows
<1>1. QED
  BY DEF Doubled

\* Chunks of some files' rows in the place of the files double nothing.
LEMMA ChunkedOnce ==
  ASSUME NEW files, NEW some, some \subseteq files, ~Doubled(files), NEW prefix, NEW n
  PROVE  ~Doubled((files \ some) \cup Chunks(prefix, n, Rows(some)))
<1>1. ~Doubled(files \ some)
  BY NoneDoubled
<1>2. Rows(files \ some) \cap Rows(Chunks(prefix, n, Rows(some))) = {}
  BY RestDisjoint, RowsOfChunks
<1>3. QED
  BY <1>1, <1>2, ChunksOnce, NotDoubledTogether

LEMMA NothingDoubled == ~Doubled({})
  BY DEF Doubled

LEMMA WorksOn ==
  ASSUME NEW w \in WorkType, NEW d \in DirType, NEW w2 \in WorkType, NEW d2 \in DirType,
         InStep(w, d), Works(w, d, w2, d2)
  PROVE  /\ ~Planned(w2)
         /\ \/ w2.n = w.n /\ w2.batch = w.batch
            \/ w2.n = 0 /\ w2.batch = {}
         /\ Planned(w) => w.step = "start" \/ Leaves(w2)
  BY DEF Works, Planned, StartsAppend, AppendsChunk, StagesDirect, UnlinksSource, MovesCompacted, StagesRepair,
     MovesRepaired, UnlinksBad, StagesRewrite, MovesAway, MovesIn, StaysOut, PutsBack, Unstages, GoesAway,
     Becomes, Leaves, NoWork

LEMMA OldRowsByAct ==
  ASSUME WorkInv, OldRows, NEW j \in Jobs, Acts(j), StoreShape'
  PROVE  OldRows'
<1> DEFINE w == work[j]  w2 == work'[j]
<1>1. /\ w \in WorkType /\ w2 \in WorkType /\ dataset \in DirType /\ dataset' \in DirType
      /\ InStep(w, dataset) /\ Works(w, dataset, w2, dataset') /\ writes' = writes
      /\ \A i \in Jobs \ {j} : work'[i] = work[i] /\ Still(work[i])
  BY Solo DEF WorkInv, Acts, Only, StoreShape
<1>2. /\ ~Planned(w2)
      /\ (w2.n = w.n /\ w2.batch = w.batch) \/ (w2.n = 0 /\ w2.batch = {})
  BY <1>1, WorksOn
<1>3. writes \in Nat
  BY DEF WorkInv, StoreShape
<1>4. Numbered(work', writes')
  <2> SUFFICES ASSUME NEW i \in Jobs
               PROVE  /\ work'[i].n <= writes
                      /\ \A row \in work'[i].batch : row.write = work'[i].n
                      /\ Planned(work'[i]) => work'[i].n # 0 /\ \A k \in Jobs : work'[k].n = work'[i].n => k = i
    BY <1>1 DEF Numbered
  <2>1. CASE i = j
    BY <1>2, <1>3, <2>1 DEF OldRows, Numbered
  <2>2. CASE i # j
    <3>1. work'[i] = work[i]
      BY <1>1, <2>2
    <3>2. ASSUME Planned(work[i]), NEW k \in Jobs, work'[k].n = work[i].n PROVE k = i
      <4>1. work[i].n # 0 /\ (work[k].n = work[i].n => k = i)
        BY <3>2 DEF OldRows, Numbered
      <4>2. work'[k].n \in {work[k].n, 0}
        BY <1>1, <1>2
      <4>3. QED
        BY <3>2, <4>1, <4>2
    <3>3. QED
      BY <3>1, <3>2 DEF OldRows, Numbered
  <2>3. QED
    BY <2>1, <2>2
<1>5. ASSUME NEW row, OldRow(row, work, writes) PROVE OldRow(row, work', writes')
  BY <1>1, <1>2, <1>5 DEF OldRow
<1>6. ASSUME w.step = "start", NEW row \in w.batch PROVE OldRow(row, work', writes')
  <2>1. row.write = w.n /\ w.n <= writes /\ \A i \in Jobs \ {j} : Planned(work[i]) => work[i].n # w.n
    BY <1>6 DEF OldRows, Numbered
  <2>2. QED
    BY <1>1, <1>2, <2>1 DEF OldRow
<1>7. \A row \in Content(w2, dataset') : OldRow(row, work', writes')
  <2>1. Content(w2, dataset') \subseteq Content(w, dataset) \cup (IF w.step = "start" THEN w.batch ELSE {})
    BY <1>1, RowsComeFrom
  <2>2. QED
    BY <2>1, <1>5, <1>6 DEF OldRows
<1>8. \A row \in Rows(dataset'.files) : OldRow(row, work', writes')
  BY <1>7 DEF Content
<1>9. ASSUME NEW i \in Jobs, i # j, NEW row \in Content(work'[i], dataset') PROVE OldRow(row, work', writes')
  <2>1. work'[i] = work[i] /\ Still(work[i])
    BY <1>1, <1>9
  <2>2. row \in Rows(dataset'.files) \/ row \in Content(work[i], dataset)
    BY <1>9, <2>1, RowsOfNone DEF Content, Still, NoDirectory
  <2>3. QED
    BY <1>5, <1>8, <2>2 DEF OldRows
<1>10. QED
  BY <1>4, <1>7, <1>8, <1>9 DEF OldRows

LEMMA OldRowsByLock ==
  ASSUME WorkInv, OldRows, NEW j \in Jobs,
         Begin(j) \/ Look(j) \/ BeginSeen(j) \/ NotLocked(j) \/ Finish(j) \/ Crash(j)
  PROVE  OldRows'
<1>1. Rests(j) /\ StoreShape'
  BY StepsOfLock
<1>2. dataset' = dataset /\ (\A i \in Jobs \ {j} : work'[i] = work[i]) /\ work \in [Jobs -> WorkType] /\ writes \in Nat
  BY <1>1 DEF Rests, Only, Keep, WorkInv, StoreShape
<1>3. CASE Begin(j) \/ Look(j)
  <2>1. /\ writes' = writes + 1 /\ work'[j].n = writes + 1
        /\ work'[j].seen \subseteq Rows(dataset.files)
        /\ \A row \in work'[j].batch : row.write = writes + 1
    <3>1. PICK step \in {"start", "look"}, op \in Operations, seen \in SUBSET Rows(dataset.files) : NewWork(j, step, op, seen)
      <4>1. {} \in SUBSET Rows(dataset.files) /\ Rows(dataset.files) \in SUBSET Rows(dataset.files)
        OBVIOUS
      <4>2. CASE Begin(j)
        BY <4>1, <4>2 DEF Begin
      <4>3. CASE Look(j)
        BY <4>1, <4>3 DEF Look
      <4>4. QED
        BY <1>3, <4>2, <4>3
    <3>2. PICK keys :
            work' = [work EXCEPT ![j] =
                [NoWork EXCEPT !.step = step, !.op = op, !.n = writes + 1, !.seen = seen,
                               !.batch = [key : keys, write : {writes + 1}]]]
      BY <3>1 DEF NewWork
    <3>3. /\ work'[j].n = writes + 1 /\ work'[j].seen = seen
          /\ work'[j].batch = [key : keys, write : {writes + 1}]
      BY <1>2, <3>2 DEF NoWork
    <3>4. \A row \in [key : keys, write : {writes + 1}] : row.write = writes + 1
      OBVIOUS
    <3>5. writes' = writes + 1
      BY <3>1 DEF NewWork
    <3>6. QED
      BY <3>1, <3>3, <3>4, <3>5
  <2>2. \A i \in Jobs : work[i].n <= writes /\ work[i].n \in Nat
    BY <1>2 DEF OldRows, Numbered, WorkType
  <2>3. Numbered(work', writes')
    <3> SUFFICES ASSUME NEW i \in Jobs
                 PROVE  /\ work'[i].n <= writes'
                        /\ \A row \in work'[i].batch : row.write = work'[i].n
                        /\ Planned(work'[i]) => work'[i].n # 0 /\ \A k \in Jobs : work'[k].n = work'[i].n => k = i
      BY DEF Numbered
    <3>1. CASE i = j
      BY <1>2, <2>1, <2>2, <3>1
    <3>2. CASE i # j
      BY <1>2, <2>1, <2>2, <3>2 DEF OldRows, Numbered
    <3>3. QED
      BY <3>1, <3>2
  <2>4. ASSUME NEW row, OldRow(row, work, writes), row.write \in Nat PROVE OldRow(row, work', writes')
    BY <1>2, <2>1, <2>4 DEF OldRow
  <2>5. \A row \in RowType : row.write \in Nat
    BY DEF RowType
  <2>6. \A i \in Jobs : Content(work[i], dataset) \subseteq RowType
    BY <1>2, RowsOf DEF Content, WorkType, WorkInv, StoreShape, DirType
  <2>7. Rows(dataset.files) \subseteq Content(work[j], dataset)
    BY DEF Content
  <2>8. Content(work'[j], dataset') \subseteq Rows(dataset.files)
    BY <1>1, <1>2, <2>1, RowsOfNone DEF Rests, Still, Content, NoDirectory
  <2>9. QED
    BY <1>2, <2>3, <2>4, <2>5, <2>6, <2>7, <2>8 DEF OldRows
<1>4. CASE BeginSeen(j) \/ NotLocked(j) \/ Finish(j) \/ Crash(j)
  <2>1. /\ writes' = writes
        /\ \/ work'[j] = NoWork
           \/ Planned(work[j]) /\ work'[j].n = work[j].n /\ work'[j].batch = work[j].batch /\ work'[j].seen = work[j].seen
    BY <1>2, <1>4 DEF BeginSeen, NotLocked, Finish, Crash, Planned, WorkType
  <2>2. Numbered(work', writes')
    <3> SUFFICES ASSUME NEW i \in Jobs
                 PROVE  /\ work'[i].n <= writes
                        /\ \A row \in work'[i].batch : row.write = work'[i].n
                        /\ Planned(work'[i]) => work'[i].n # 0 /\ \A k \in Jobs : work'[k].n = work'[i].n => k = i
      BY <2>1 DEF Numbered
    <3>1. ASSUME Planned(work'[i]) PROVE Planned(work[i]) /\ work'[i].n = work[i].n
      BY <1>2, <2>1, <3>1 DEF NoWork, Planned
    <3>2. \A k \in Jobs : work'[k].n = work[k].n \/ work'[k].n = 0
      BY <1>2, <2>1 DEF NoWork
    <3>3. work'[i].n <= writes /\ \A row \in work'[i].batch : row.write = work'[i].n
      BY <1>2, <2>1 DEF NoWork, OldRows, Numbered
    <3>4. QED
      BY <3>1, <3>2, <3>3 DEF OldRows, Numbered
  <2>3. ASSUME NEW row, OldRow(row, work, writes) PROVE OldRow(row, work', writes')
    BY <1>2, <2>1, <2>3 DEF OldRow, NoWork, Planned
  <2>4. Content(work'[j], dataset') \subseteq Content(work[j], dataset)
    BY <1>1, <1>2, <2>1, RowsOfNone DEF Rests, Still, Content, NoDirectory, NoWork
  <2>5. QED
    BY <1>2, <2>2, <2>3, <2>4 DEF OldRows
<1>5. QED
  BY <1>3, <1>4

\* Whatever a job does doubles no row, but a repair while it lasts.
LEMMA CleanKept ==
  ASSUME NEW w \in WorkType, NEW d \in DirType, NEW w2 \in WorkType, NEW d2 \in DirType,
         InStep(w, d), Works(w, d, w2, d2), Clean(w, d), w.step # "repair" => ~Doubled(d.files),
         w.step = "start" => Rows(d.files) \cap w.batch = {}
  PROVE  Clean(w2, d2) /\ (w2.step # "repair" /\ w.step # "repair" => ~Doubled(d2.files))
<1> USE NothingDoubled DEF NoDirectory
<1>1. CASE StartsAppend(w, d, w2, d2)
  <2>1. Outcome(w2, d2) = d.files \cup Chunks("part", w.n, w.batch) /\ w2.backup = NoDirectory /\ d2.files = d.files
        /\ w.step = "start"
    BY <1>1 DEF StartsAppend, Becomes, Directory, Outcome
  <2>2. QED
    BY <2>1, ChunksOnce, RowsOfChunks, NotDoubledTogether DEF Clean
<1>2. CASE AppendsChunk(w, d, w2, d2)
  <2>1. Outcome(w2, d2) \subseteq Outcome(w, d) /\ w2.backup = w.backup /\ d2.files \subseteq Outcome(w, d)
    BY <1>2 DEF AppendsChunk, Becomes, Has, Outcome
  <2>2. QED
    BY <2>1, NoneDoubled DEF Clean
<1>3. CASE StagesDirect(w, d, w2, d2)
  <2>1. PICK some \in SUBSET d.files :
           Becomes(w2, w, "direct", some, Chunks("compact", w.n, Rows(some)), NoDirectory)
    BY <1>3 DEF StagesDirect
  <2>2. /\ Outcome(w2, d2) = (d.files \ some) \cup Chunks("compact", w.n, Rows(some))
        /\ w2.backup = NoDirectory /\ d2.files = d.files /\ w.step # "repair"
    BY <1>3, <2>1 DEF StagesDirect, Becomes, Has, Outcome
  <2>3. QED
    BY <2>2, ChunkedOnce DEF Clean
<1>4. CASE UnlinksSource(w, d, w2, d2)
  <2>1. Outcome(w2, d2) \subseteq Outcome(w, d) /\ w2.backup = w.backup /\ d2.files \subseteq d.files /\ w.step # "repair"
    BY <1>4 DEF UnlinksSource, Becomes, Has, Outcome
  <2>2. QED
    BY <2>1, NoneDoubled DEF Clean
<1>5. CASE MovesCompacted(w, d, w2, d2)
  <2>1. Outcome(w2, d2) \subseteq Outcome(w, d) /\ w2.backup = w.backup /\ d2.files \subseteq Outcome(w, d)
    BY <1>5 DEF MovesCompacted, Has, Outcome
  <2>2. QED
    BY <2>1, NoneDoubled DEF Clean
<1>6. CASE StagesRepair(w, d, w2, d2)
  <2>1. PICK bad \in (SUBSET Parts(d)) \ {{}} :
           Becomes(w2, w, "repair", bad, Chunks("repair", w.n, Rows(bad)), NoDirectory)
    BY <1>6 DEF StagesRepair
  <2>2. bad \subseteq d.files /\ d2 = d /\ w.step = "start"
    BY <1>6, PartsAre DEF StagesRepair
  <2>3. /\ Outcome(w2, d2) = (d.files \ bad) \cup Chunks("repair", w.n, Rows(bad))
        /\ w2.backup = NoDirectory /\ w2.step = "repair"
    BY <2>1, <2>2 DEF Becomes, Outcome
  <2>4. QED
    BY <2>2, <2>3, ChunkedOnce DEF Clean
<1>7. CASE MovesRepaired(w, d, w2, d2) \/ UnlinksBad(w, d, w2, d2)
  <2>1. Outcome(w2, d2) \subseteq Outcome(w, d) /\ w2.backup = w.backup /\ w2.step = "repair"
    BY <1>7 DEF MovesRepaired, UnlinksBad, Becomes, Has, Outcome
  <2>2. QED
    BY <2>1, NoneDoubled DEF Clean
<1>8. CASE StagesRewrite(w, d, w2, d2)
  <2>1. /\ Outcome(w2, d2) = Rewritten(w, Rows(d.files)) /\ w2.backup = NoDirectory /\ d2 = d
        /\ w.op \in Rewrites /\ w.step # "repair"
    BY <1>8 DEF StagesRewrite, Becomes, Outcome
  <2>2. ~Doubled(Rewritten(w, Rows(d.files)))
    BY <2>1, OneFile, ChunksOnce DEF Rewritten, Rewrites, ReadFirst
  <2>3. QED
    BY <2>1, <2>2 DEF Clean
<1>9. CASE MovesAway(w, d, w2, d2)
  BY <1>9 DEF MovesAway, Becomes, Outcome, Clean
<1>10. CASE MovesIn(w, d, w2, d2)
  BY <1>10 DEF MovesIn, Becomes, Outcome, Clean, Directory
<1>11. CASE StaysOut(w, d, w2, d2)
  BY <1>11 DEF StaysOut, Becomes, Outcome, Clean
<1>12. CASE PutsBack(w, d, w2, d2)
  BY <1>12 DEF PutsBack, Leaves, NoWork, Outcome, Clean
<1>13. CASE Unstages(w, d, w2, d2) \/ GoesAway(w, d, w2, d2)
  BY <1>13 DEF Unstages, GoesAway, Has, Leaves, NoWork, Outcome, Clean
<1>14. QED
  BY <1>1, <1>2, <1>3, <1>4, <1>5, <1>6, <1>7, <1>8, <1>9, <1>10, <1>11, <1>12, <1>13 DEF Works

LEMMA IncidentsStay ==
  ASSUME NEW j \in Jobs, JobStep(j)
  PROVE  incidents \subseteq incidents'
<1>1. CASE \/ Begin(j) \/ Look(j) \/ BeginSeen(j) \/ Lock(j) \/ NotLocked(j) \/ Finish(j) \/ Crash(j)
  BY <1>1 DEF Begin, Look, BeginSeen, NewWork, Lock, NotLocked, Finish, Crash
<1>2. CASE \/ StartAppend(j) \/ AppendChunk(j) \/ AppendFails(j) \/ FinishAppend(j)
           \/ StageDirect(j) \/ UnlinkSource(j) \/ MoveCompacted(j) \/ FinishDirect(j) \/ DirectFails(j)
  BY <1>2 DEF StartAppend, AppendChunk, AppendFails, FinishAppend, StageDirect, UnlinkSource, MoveCompacted,
     FinishDirect, DirectFails
<1>3. CASE StageRepair(j) \/ MoveRepaired(j) \/ UnlinkBad(j) \/ FinishRepair(j) \/ RepairFails(j)
  BY <1>3 DEF StageRepair, MoveRepaired, UnlinkBad, FinishRepair, RepairFails
<1>4. CASE \/ StageRewrite(j) \/ MoveAway(j) \/ MoveIn(j) \/ DiscardBackup(j)
           \/ GiveUpRewrite(j) \/ MoveInFails(j) \/ Restore(j) \/ RestoreFails(j)
  BY <1>4 DEF StageRewrite, MoveAway, MoveIn, DiscardBackup, GiveUpRewrite, MoveInFails, Restore, RestoreFails
<1>5. QED
  BY <1>1, <1>2, <1>3, <1>4 DEF JobStep

\* A repair ends with no row doubled, or says so.
LEMMA RepairEnds ==
  ASSUME WorkInv, NEW j \in Jobs, JobStep(j), work[j].step = "repair", work'[j].step # "repair",
         "repair" \notin incidents', ~Doubled(Outcome(work[j], dataset))
  PROVE  ~Doubled(dataset'.files)
<1> DEFINE w == work[j]
<1>1. InStep(w, dataset) /\ stage[j] = "in" /\ work \in [Jobs -> WorkType]
  BY DEF WorkInv, StoreShape, Busy, Quiet
<1>2. At(j, {"repair"}, "repair")
  BY <1>1 DEF At, InStep
<1>3. CASE FinishRepair(j)
  <2>1. w.staged = {} /\ w.todo = {} /\ dataset' = dataset
    BY <1>3 DEF FinishRepair, At, Keep
  <2>2. Outcome(w, dataset) = dataset.files
    BY <2>1 DEF Outcome
  <2>3. QED
    BY <2>1, <2>2
<1>4. CASE RepairFails(j) \/ Crash(j)
  <2>1. ~LeavesDoubled(j) /\ dataset' = dataset
    BY <1>4 DEF RepairFails, Crash, Keep
  <2>2. QED
    BY <1>2, <2>1 DEF LeavesDoubled
<1>5. CASE StageRepair(j) \/ MoveRepaired(j) \/ UnlinkBad(j)
  <2>1. ~StageRepair(j)
    BY <1>1 DEF StageRepair, At
  <2>2. ASSUME MoveRepaired(j) PROVE work'[j].step = work[j].step
    <3>1. PICK f \in w.staged : work' = [work EXCEPT ![j].staged = @ \ {f}]
      BY <2>2 DEF MoveRepaired
    <3>2. QED
      BY <1>1, <3>1 DEF WorkType
  <2>3. ASSUME UnlinkBad(j) PROVE work'[j].step = work[j].step
    <3>1. PICK f \in w.todo : work' = [work EXCEPT ![j].todo = @ \ {f}]
      BY <2>3 DEF UnlinkBad
    <3>2. QED
      BY <1>1, <3>1 DEF WorkType
  <2>4. QED
    BY <1>5, <2>1, <2>2, <2>3
<1>6. CASE \/ Begin(j) \/ Look(j) \/ BeginSeen(j) \/ Lock(j) \/ NotLocked(j) \/ Finish(j)
  <2>1. CASE Lock(j)
    BY <2>1 DEF Lock
  <2>2. QED
    BY <1>6, <2>1, NotAtWork DEF Busy, Quiet
<1>7. CASE \/ StartAppend(j) \/ AppendChunk(j) \/ AppendFails(j) \/ FinishAppend(j)
           \/ StageDirect(j) \/ UnlinkSource(j) \/ MoveCompacted(j) \/ FinishDirect(j) \/ DirectFails(j)
  BY <1>7 DEF StartAppend, AppendChunk, AppendFails, FinishAppend, StageDirect, DirectDue, UnlinkSource,
     MoveCompacted, FinishDirect, DirectFails, At
<1>8. CASE \/ StageRewrite(j) \/ MoveAway(j) \/ MoveIn(j) \/ DiscardBackup(j)
           \/ GiveUpRewrite(j) \/ MoveInFails(j) \/ Restore(j) \/ RestoreFails(j)
  BY <1>8 DEF StageRewrite, MoveAway, MoveIn, DiscardBackup, GiveUpRewrite, MoveInFails, Restore, RestoreFails, At
<1>9. QED
  BY <1>3, <1>4, <1>5, <1>6, <1>7, <1>8 DEF JobStep

LEMMA RowsOnceByJob ==
  ASSUME OnceInv, NEW j \in Jobs, JobStep(j), ~Lock(j)
  PROVE  RowsOnce'
<1> SUFFICES ASSUME "repair" \notin incidents'
             PROVE  /\ (\A i \in Jobs : work'[i].step # "repair") => ~Doubled(dataset'.files)
                    /\ \A i \in Jobs : Clean(work'[i], dataset')
  BY DEF RowsOnce
<1> DEFINE w == work[j]  w2 == work'[j]
<1>1. /\ (\A i \in Jobs : work[i].step # "repair") => ~Doubled(dataset.files)
      /\ \A i \in Jobs : Clean(work[i], dataset)
  BY IncidentsStay DEF OnceInv, RowsOnce
<1>2. w.step = "repair" /\ w2.step # "repair" => ~Doubled(dataset'.files)
  BY <1>1, RepairEnds DEF OnceInv, Clean
<1>3. (Acts(j) \/ Rests(j)) /\ StoreShape'
  BY JobSteps DEF OnceInv
<1>4. ASSUME NEW v, NEW d, ~Busy(v), Still(v) PROVE Clean(v, d)
  BY <1>4, NothingDoubled DEF Clean, Outcome, Busy, Quiet, Still, NoDirectory
<1>5. ASSUME Acts(j)
      PROVE  /\ (\A i \in Jobs : work'[i].step # "repair") => ~Doubled(dataset'.files)
             /\ \A i \in Jobs : Clean(work'[i], dataset')
  <2>1. /\ w \in WorkType /\ w2 \in WorkType /\ dataset \in DirType /\ dataset' \in DirType
        /\ InStep(w, dataset) /\ Works(w, dataset, w2, dataset')
        /\ \A i \in Jobs \ {j} : work'[i] = work[i] /\ ~Busy(work[i]) /\ Still(work[i])
    BY <1>3, <1>5, Solo DEF OnceInv, WorkInv, Acts, Only, StoreShape
  <2>2. w.step # "repair" => ~Doubled(dataset.files)
    BY <1>1, <2>1 DEF Busy, Quiet
  <2>3. w.step = "start" => Rows(dataset.files) \cap w.batch = {}
    <3>1. w.step = "start" => \A row \in w.batch : row.write = w.n
      BY DEF OnceInv, OldRows, Numbered
    <3>2. w.step = "start" => \A row \in Rows(dataset.files) : row.write # w.n
      BY DEF OnceInv, OldRows, OldRow, Planned
    <3>3. QED
      BY <3>1, <3>2
  <2>4. Clean(w2, dataset') /\ (w2.step # "repair" /\ w.step # "repair" => ~Doubled(dataset'.files))
    BY <1>1, <2>1, <2>2, <2>3, CleanKept
  <2>5. ASSUME NEW i \in Jobs PROVE Clean(work'[i], dataset')
    BY <1>4, <2>1, <2>4
  <2>6. QED
    BY <1>2, <2>4, <2>5
<1>6. ASSUME Rests(j)
      PROVE  /\ (\A i \in Jobs : work'[i].step # "repair") => ~Doubled(dataset'.files)
             /\ \A i \in Jobs : Clean(work'[i], dataset')
  <2>1. /\ dataset' = dataset /\ ~Busy(w2) /\ Still(w2)
        /\ \A i \in Jobs \ {j} : work'[i] = work[i]
    BY <1>6 DEF Rests, Only, Keep
  <2>2. Clean(w2, dataset')
    BY <1>4, <2>1
  <2>3. w2.step # "repair"
    BY <2>1 DEF Busy, Quiet
  <2>4. QED
    BY <1>1, <1>2, <2>1, <2>2, <2>3
<1>7. QED
  BY <1>3, <1>5, <1>6

LEMMA OnceInvInit == StoreInit => OnceInv
<1> SUFFICES ASSUME StoreInit PROVE OnceInv
  OBVIOUS
<1>1. OldRows
  <2>1. \A j \in Jobs : work[j] = NoWork
    BY DEF StoreInit
  <2>2. dataset = NoDirectory /\ writes = 0
    BY DEF StoreInit
  <2>3. Content(NoWork, NoDirectory) = {} /\ Rows(NoDirectory.files) = {}
    BY RowsOfNone DEF Content, NoWork, NoDirectory
  <2>4. NoWork.n = 0 /\ NoWork.batch = {} /\ ~Planned(NoWork)
    BY DEF NoWork, Planned
  <2>5. Numbered(work, writes)
    BY <2>1, <2>2, <2>4 DEF Numbered
  <2>6. QED
    BY <2>1, <2>2, <2>3, <2>5 DEF OldRows
<1>2. RowsOnce
  BY NothingDoubled DEF StoreInit, NoWork, NoDirectory, RowsOnce, Clean, Outcome
<1>3. QED
  BY <1>1, <1>2, WorkInvInit DEF OnceInv

LEMMA OnceInvStep == OnceInv /\ [StoreNext]_storeVars /\ lapses' = {} => OnceInv'
<1> SUFFICES ASSUME OnceInv, [StoreNext]_storeVars, lapses' = {} PROVE OnceInv'
  OBVIOUS
<1>1. WorkInv /\ WorkInv' /\ OldRows /\ RowsOnce
  BY WorkInvStep DEF OnceInv
<1>2. ASSUME NEW j \in Jobs, JobStep(j), ~Lock(j) PROVE OldRows' /\ RowsOnce'
  <2>1. OldRows'
    <3>1. CASE Begin(j) \/ Look(j) \/ BeginSeen(j) \/ NotLocked(j) \/ Finish(j) \/ Crash(j)
      BY <1>1, <3>1, OldRowsByLock
    <3>2. CASE ~(Begin(j) \/ Look(j) \/ BeginSeen(j) \/ NotLocked(j) \/ Finish(j) \/ Crash(j))
      <4>1. Acts(j) /\ StoreShape'
        BY <1>1, <1>2, <3>2, StepsOfAppend, StepsOfDirect, StepsOfRepair, StepsOfRewrite DEF JobStep
      <4>2. QED
        BY <1>1, <4>1, OldRowsByAct
    <3>3. QED
      BY <3>1, <3>2
  <2>2. QED
    BY <1>2, <2>1, RowsOnceByJob
<1>3. ASSUME UNCHANGED <<dataset, work, writes, incidents>> PROVE OldRows' /\ RowsOnce'
  BY <1>1, <1>3 DEF OldRows, RowsOnce
<1>4. ASSUME (\E j \in Jobs : Lock(j)) \/ Age PROVE OldRows' /\ RowsOnce'
  BY <1>1, <1>3, <1>4, LockStepIs
<1>5. ASSUME NEW r \in Readers, ListFiles(r) \/ CheckFile(r) \/ ReadFile(r) \/ EndRead(r) \/ UseRows(r)
      PROVE  OldRows' /\ RowsOnce'
  BY <1>1, <1>3, <1>5, ReaderStepIs DEF WorkInv
<1>6. CASE UNCHANGED storeVars
  BY <1>1, <1>3, <1>6 DEF storeVars, OnceInv
<1>7. CASE StoreNext
  <2>1. OldRows' /\ RowsOnce'
    BY <1>2, <1>4, <1>5, <1>7 DEF StoreNext
  <2>2. QED
    BY <1>1, <2>1 DEF OnceInv
<1>8. QED
  BY <1>6, <1>7

LEMMA OnceInvNoDuplicates == (lapses = {} => OnceInv) => NoDuplicates
<1> SUFFICES ASSUME OnceInv, "repair" \notin incidents, Doubled(dataset.files)
             PROVE  \E j \in Jobs : At(j, {"repair"}, "repair")
  BY DEF NoDuplicates
<1>1. PICK j \in Jobs : work[j].step = "repair"
  BY DEF OnceInv, RowsOnce
<1>2. QED
  BY <1>1 DEF OnceInv, WorkInv, InStep, Busy, Quiet, At

\* Readers never find a row in two files, but for the time of a repair or after one that
\* was stopped.
THEOREM RowsAreOnce == StoreSpec => []NoDuplicates
<1>1. StoreInit => OnceInv
  BY OnceInvInit
<1>2. (lapses = {} => OnceInv) /\ [StoreNext]_storeVars => (lapses = {} => OnceInv)'
  BY OnceInvStep, StoreLapsesStay
<1>3. (lapses = {} => OnceInv) => NoDuplicates
  BY OnceInvNoDuplicates
<1>4. QED
  BY <1>1, <1>2, <1>3, PTL DEF StoreSpec

------------------------------------------------------------------------------
(***************************************************************************)
(* A read is of one moment.  But for data.parquet a name stands for one    *)
(* file for ever: it carries the number of the operation that wrote it.    *)
(***************************************************************************)
IsData(f) == f.name = <<"data">>

\* The files a job may put, or put back, into the dataset.
Active(w) == IF w.step \in {"in", "restore"} THEN w.backup.files ELSE {}
Coming(w) ==
    Active(w) \cup (IF w.step = "discard" THEN {} ELSE w.staged)
       \cup (IF w.step = "chunks" THEN w.todo ELSE {})

\* No operation will give this name to a file.
OldName(name, ws, m) ==
    /\ name[2] <= m
    /\ \A j \in Jobs :
          /\ Planned(ws[j]) => name[2] # ws[j].n
          /\ ws[j].step = "chunks" /\ name[2] = ws[j].n => name[1] # "compact"

OneData(files) == \A f, g \in files : IsData(f) /\ IsData(g) => f = g

\* data.parquet is the one file of a rewrite.
Shaped(w, d) ==
    /\ OneData(d.files) /\ OneData(w.backup.files)
    /\ w.step \in {"away", "in"} => \A f \in w.staged : IsData(f) => w.staged = {f}
    /\ w.step \in {"chunks", "direct", "repair"} => \A f \in w.staged : ~IsData(f)
    /\ w.step = "chunks" => \A f \in w.todo : ~IsData(f)

Known(f) ==
    \/ f \in dataset.files
    \/ \E j \in Jobs : f \in Coming(work[j])
    \/ \E r \in Readers : f \in reader[r].first

NamesInv ==
    /\ \A f \in FileType : Known(f) /\ ~IsData(f) => OldName(f.name, work, writes)
    /\ \A f, g \in FileType : Known(f) /\ Known(g) /\ f.name = g.name /\ ~IsData(f) => f = g
    /\ OneData(dataset.files) /\ \A j \in Jobs : Shaped(work[j], dataset)

LEMMA ChunkNames ==
  ASSUME NEW prefix \in {"part", "compact", "repair"}, NEW n, NEW rows
  PROVE  /\ \A f \in Chunks(prefix, n, rows) : ~IsData(f) /\ f.name[1] = prefix /\ f.name[2] = n
         /\ \A f, g \in Chunks(prefix, n, rows) : f.name = g.name => f = g
<1> DEFINE chunk(k) == [name |-> <<prefix, n, k>>, rows |-> {r \in rows : r.key = k}]
<1>1. ASSUME NEW k PROVE chunk(k).name = <<prefix, n, k>>
  OBVIOUS
<1>2. ASSUME NEW k
      PROVE  chunk(k).name[1] = prefix /\ chunk(k).name[2] = n /\ chunk(k).name[3] = k
  BY <1>1
<1>3. <<"data">>[1] = "data"
  OBVIOUS
<1> HIDE DEF chunk
<1>4. ASSUME NEW f \in {chunk(k) : k \in KeysOf(rows)}
      PROVE  ~IsData(f) /\ f.name[1] = prefix /\ f.name[2] = n
  <2>1. f.name[1] = prefix /\ f.name[2] = n
    BY <1>2, <1>4
  <2>2. QED
    BY <1>3, <2>1 DEF IsData
<1>5. ASSUME NEW f \in {chunk(k) : k \in KeysOf(rows)}, NEW g \in {chunk(k) : k \in KeysOf(rows)}, f.name = g.name
      PROVE  f = g
  <2>1. PICK k \in KeysOf(rows) : f = chunk(k)
    BY <1>5
  <2>2. PICK l \in KeysOf(rows) : g = chunk(l)
    BY <1>5
  <2>3. k = l
    BY <1>2, <1>5, <2>1, <2>2
  <2>4. QED
    BY <2>1, <2>2, <2>3
<1>6. Chunks(prefix, n, rows) = {chunk(k) : k \in KeysOf(rows)}
  BY DEF Chunks, chunk
<1>7. QED
  BY <1>4, <1>5, <1>6

LEMMA DataFileIsData ==
  ASSUME NEW rows
  PROVE  IsData(DataFile(rows))
  BY DEF IsData, DataFile

LEMMA RewrittenShape ==
  ASSUME NEW w \in WorkType, NEW old, w.op \in Rewrites
  PROVE  \/ w.op # "compact" /\ \E rows : Rewritten(w, old) = {DataFile(rows)}
         \/ w.op = "compact" /\ Rewritten(w, old) = Chunks("compact", w.n, old)
<1>1. CASE w.op = "upsert"
  BY <1>1 DEF Rewritten
<1>2. CASE w.op = "replace"
  BY <1>2 DEF Rewritten
<1>3. CASE w.op = "merge"
  BY <1>3 DEF Rewritten
<1>4. CASE w.op = "seed"
  BY <1>4 DEF Rewritten
<1>5. CASE w.op = "compact"
  BY <1>5 DEF Rewritten
<1>6. QED
  BY <1>1, <1>2, <1>3, <1>4, <1>5 DEF Rewrites, ReadFirst

LEMMA ShapedKept ==
  ASSUME NEW w \in WorkType, NEW d \in DirType, NEW w2 \in WorkType, NEW d2 \in DirType,
         InStep(w, d), Works(w, d, w2, d2), Shaped(w, d)
  PROVE  Shaped(w2, d2)
<1> USE DEF Shaped, NoDirectory
<1>0. OneData({})
  BY DEF OneData
<1>1. CASE StartsAppend(w, d, w2, d2)
  BY <1>0, <1>1, ChunkNames DEF StartsAppend, Becomes, Directory
<1>2. CASE AppendsChunk(w, d, w2, d2)
  BY <1>2 DEF AppendsChunk, Becomes, Has, OneData
<1>3. CASE StagesDirect(w, d, w2, d2)
  BY <1>0, <1>3, ChunkNames DEF StagesDirect, Becomes, Has
<1>4. CASE UnlinksSource(w, d, w2, d2)
  BY <1>4 DEF UnlinksSource, Becomes, Has, OneData
<1>5. CASE MovesCompacted(w, d, w2, d2)
  BY <1>5 DEF MovesCompacted, Has, OneData
<1>6. CASE StagesRepair(w, d, w2, d2)
  <2>1. PICK bad \in (SUBSET Parts(d)) \ {{}} :
           Becomes(w2, w, "repair", bad, Chunks("repair", w.n, Rows(bad)), NoDirectory)
    BY <1>6 DEF StagesRepair
  <2>2. w2.step = "repair" /\ w2.staged = Chunks("repair", w.n, Rows(bad)) /\ w2.backup = NoDirectory
    BY <2>1 DEF Becomes
  <2>3. d2 = d
    BY <1>6 DEF StagesRepair
  <2>4. QED
    BY <1>0, <2>2, <2>3, ChunkNames
<1>7. CASE MovesRepaired(w, d, w2, d2)
  BY <1>7 DEF MovesRepaired, Becomes, Has, OneData
<1>8. CASE UnlinksBad(w, d, w2, d2)
  BY <1>8 DEF UnlinksBad, Becomes, Has, OneData
<1>9. CASE StagesRewrite(w, d, w2, d2)
  <2>1. w2.step = "away" /\ w2.staged = Rewritten(w, Rows(d.files)) /\ w2.backup = NoDirectory /\ d2 = d /\ w.op \in Rewrites
    BY <1>9 DEF StagesRewrite, Becomes
  <2>2. \A f \in w2.staged : IsData(f) => w2.staged = {f}
    BY <2>1, RewrittenShape, ChunkNames
  <2>3. QED
    BY <1>0, <2>1, <2>2
<1>10. CASE MovesAway(w, d, w2, d2)
  BY <1>0, <1>10 DEF MovesAway, Becomes
<1>11. CASE MovesIn(w, d, w2, d2)
  BY <1>11 DEF MovesIn, Becomes, Directory, OneData
<1>12. CASE StaysOut(w, d, w2, d2)
  BY <1>12 DEF StaysOut, Becomes
<1>13. CASE PutsBack(w, d, w2, d2)
  BY <1>0, <1>13 DEF PutsBack, Leaves, NoWork
<1>14. CASE Unstages(w, d, w2, d2) \/ GoesAway(w, d, w2, d2)
  BY <1>0, <1>14 DEF Unstages, GoesAway, Has, Leaves, NoWork
<1>15. QED
  BY <1>1, <1>2, <1>3, <1>4, <1>5, <1>6, <1>7, <1>8, <1>9, <1>10, <1>11, <1>12, <1>13, <1>14 DEF Works

Come(w, d) == d.files \cup Coming(w)

\* What comes was there or coming, is data.parquet, or has a name of an operation that just
\* began to write such files.
LEMMA FilesComeFrom ==
  ASSUME NEW w \in WorkType, NEW d \in DirType, NEW w2 \in WorkType, NEW d2 \in DirType,
         InStep(w, d), Works(w, d, w2, d2)
  PROVE  \/ \A f \in Come(w2, d2) : f \in Come(w, d) \/ IsData(f)
         \/ \E prefix \in {"part", "compact", "repair"}, rows \in SUBSET RowType :
               /\ w.step = "start" \/ (w.step = "chunks" /\ prefix = "compact")
               /\ w2.step = "chunks" => prefix = "part"
               /\ Come(w2, d2) \subseteq Come(w, d) \cup Chunks(prefix, w.n, rows)
<1> USE DEF Come, Coming, Active, NoDirectory
<1>1. CASE StartsAppend(w, d, w2, d2)
  <2>1. Come(w2, d2) \subseteq Come(w, d) \cup Chunks("part", w.n, w.batch) /\ w.step = "start"
    BY <1>1 DEF StartsAppend, Becomes, Directory
  <2>2. w.batch \in SUBSET RowType
    BY DEF WorkType
  <2>3. QED
    BY <2>1, <2>2
<1>2. CASE AppendsChunk(w, d, w2, d2)
  BY <1>2 DEF AppendsChunk, Becomes, Has
<1>3. CASE StagesDirect(w, d, w2, d2)
  <2>1. PICK some \in SUBSET d.files :
           Becomes(w2, w, "direct", some, Chunks("compact", w.n, Rows(some)), NoDirectory)
    BY <1>3 DEF StagesDirect
  <2>2. /\ Come(w2, d2) \subseteq Come(w, d) \cup Chunks("compact", w.n, Rows(some))
        /\ w.step \in {"start", "chunks"} /\ w2.step = "direct"
    BY <1>3, <2>1 DEF StagesDirect, Becomes, Has
  <2>3. Rows(some) \in SUBSET RowType
    <3>1. some \in SUBSET FileType
      BY PartsAre
    <3>2. QED
      BY <3>1, RowsOf
  <2>4. QED
    BY <2>2, <2>3
<1>4. CASE UnlinksSource(w, d, w2, d2)
  BY <1>4 DEF UnlinksSource, Becomes, Has
<1>5. CASE MovesCompacted(w, d, w2, d2)
  BY <1>5 DEF MovesCompacted, Has
<1>6. CASE StagesRepair(w, d, w2, d2)
  <2>1. PICK bad \in (SUBSET Parts(d)) \ {{}} :
           Becomes(w2, w, "repair", bad, Chunks("repair", w.n, Rows(bad)), NoDirectory)
    BY <1>6 DEF StagesRepair
  <2>2. /\ w2.step = "repair" /\ w2.staged = Chunks("repair", w.n, Rows(bad)) /\ w2.backup = NoDirectory
        /\ d2 = d /\ w.step = "start"
    BY <1>6, <2>1 DEF StagesRepair, Becomes
  <2>3. Rows(bad) \in SUBSET RowType
    BY RowsOf, PartsAre
  <2>4. Come(w2, d2) \subseteq Come(w, d) \cup Chunks("repair", w.n, Rows(bad))
    BY <2>2
  <2>5. QED
    BY <2>2, <2>3, <2>4
<1>7. CASE MovesRepaired(w, d, w2, d2)
  BY <1>7 DEF MovesRepaired, Becomes, Has
<1>8. CASE UnlinksBad(w, d, w2, d2)
  BY <1>8 DEF UnlinksBad, Becomes, Has
<1>9. CASE StagesRewrite(w, d, w2, d2)
  <2>1. /\ w2.step = "away" /\ w2.staged = Rewritten(w, Rows(d.files)) /\ d2 = d /\ w.op \in Rewrites
        /\ w.step = "start"
    BY <1>9 DEF StagesRewrite, Becomes
  <2>2. CASE w.op # "compact"
    BY <2>1, <2>2, RewrittenShape, DataFileIsData
  <2>3. CASE w.op = "compact"
    <3>1. Come(w2, d2) \subseteq Come(w, d) \cup Chunks("compact", w.n, Rows(d.files))
      BY <2>1, <2>3, RewrittenShape
    <3>2. Rows(d.files) \in SUBSET RowType
      BY RowsOf, PartsAre
    <3>3. QED
      BY <2>1, <3>1, <3>2
  <2>4. QED
    BY <2>2, <2>3
<1>10. CASE MovesAway(w, d, w2, d2)
  BY <1>10 DEF MovesAway, Becomes
<1>11. CASE MovesIn(w, d, w2, d2)
  BY <1>11 DEF MovesIn, Becomes, Directory
<1>12. CASE StaysOut(w, d, w2, d2)
  BY <1>12 DEF StaysOut, Becomes
<1>13. CASE PutsBack(w, d, w2, d2)
  BY <1>13 DEF PutsBack, Leaves, NoWork
<1>14. CASE Unstages(w, d, w2, d2) \/ GoesAway(w, d, w2, d2)
  BY <1>14 DEF Unstages, GoesAway, Has, Leaves, NoWork
<1>15. QED
  BY <1>1, <1>2, <1>3, <1>4, <1>5, <1>6, <1>7, <1>8, <1>9, <1>10, <1>11, <1>12, <1>13, <1>14 DEF Works

\* A data.parquet comes only as the one file of a rewrite.
LEMMA DataComesFrom ==
  ASSUME NEW w \in WorkType, NEW d \in DirType, NEW w2 \in WorkType, NEW d2 \in DirType,
         InStep(w, d), Works(w, d, w2, d2), Shaped(w, d),
         NEW f \in d2.files \cup Active(w2), IsData(f)
  PROVE  \/ f \in d.files \cup Active(w)
         \/ d2.files = {f} /\ Come(w2, d2) = {f}
<1> USE DEF Active, NoDirectory
<1>1. CASE StartsAppend(w, d, w2, d2)
  BY <1>1 DEF StartsAppend, Becomes, Directory
<1>2. CASE AppendsChunk(w, d, w2, d2)
  BY <1>2 DEF AppendsChunk, Becomes, Has, Shaped
<1>3. CASE StagesDirect(w, d, w2, d2)
  BY <1>3 DEF StagesDirect, Becomes, Has
<1>4. CASE UnlinksSource(w, d, w2, d2)
  BY <1>4 DEF UnlinksSource, Becomes, Has
<1>5. CASE MovesCompacted(w, d, w2, d2)
  BY <1>5 DEF MovesCompacted, Has, Shaped
<1>6. CASE StagesRepair(w, d, w2, d2)
  BY <1>6 DEF StagesRepair, Becomes
<1>7. CASE MovesRepaired(w, d, w2, d2)
  BY <1>7 DEF MovesRepaired, Becomes, Has, Shaped
<1>8. CASE UnlinksBad(w, d, w2, d2)
  BY <1>8 DEF UnlinksBad, Becomes, Has
<1>9. CASE StagesRewrite(w, d, w2, d2)
  BY <1>9 DEF StagesRewrite, Becomes
<1>10. CASE MovesAway(w, d, w2, d2)
  BY <1>10 DEF MovesAway, Becomes
<1>11. CASE MovesIn(w, d, w2, d2)
  <2>1. f \in w.staged /\ w.staged = {f} /\ d2.files = {f} /\ w2.step = "discard" /\ w2.todo = w.todo
    BY <1>11 DEF MovesIn, Becomes, Directory, Shaped
  <2>2. QED
    BY <2>1 DEF Come, Coming
<1>12. CASE StaysOut(w, d, w2, d2)
  BY <1>12 DEF StaysOut, Becomes
<1>13. CASE PutsBack(w, d, w2, d2)
  BY <1>13 DEF PutsBack, Leaves, NoWork
<1>14. CASE Unstages(w, d, w2, d2) \/ GoesAway(w, d, w2, d2)
  BY <1>14 DEF Unstages, GoesAway, Has, Leaves, NoWork
<1>15. QED
  BY <1>1, <1>2, <1>3, <1>4, <1>5, <1>6, <1>7, <1>8, <1>9, <1>10, <1>11, <1>12, <1>13, <1>14 DEF Works

LEMMA ChunksStep ==
  ASSUME NEW w \in WorkType, NEW d \in DirType, NEW w2 \in WorkType, NEW d2 \in DirType,
         Works(w, d, w2, d2), w2.step = "chunks"
  PROVE  w2.n = w.n /\ w.step \in {"start", "chunks"}
  BY DEF Works, StartsAppend, AppendsChunk, StagesDirect, UnlinksSource, MovesCompacted, StagesRepair,
     MovesRepaired, UnlinksBad, StagesRewrite, MovesAway, MovesIn, StaysOut, PutsBack, Unstages, GoesAway,
     Becomes, Leaves, NoWork

\* A job with nothing in hand has nothing to put into the dataset.
LEMMA NothingComes ==
  ASSUME NEW w, NEW d, ~Busy(w), Still(w), OneData(d.files)
  PROVE  Coming(w) = {} /\ Active(w) = {} /\ Shaped(w, d)
<1>1. OneData({})
  BY DEF OneData
<1>2. QED
  BY <1>1 DEF Busy, Quiet, Still, NoDirectory, Coming, Active, Shaped

\* A writer tells the readers what it puts there and leaves them what they have read.
LEMMA FirstStays ==
  ASSUME StoreShape, NEW d, Put(d) \/ Keep, NEW r \in Readers
  PROVE  reader'[r].first = reader[r].first
<1> DEFINE R == reader[r]  moments == R.moments \cup {Rows(d.files)}  doubled == R.doubled \/ Doubled(d.files)
<1>1. R \in ReaderType
  BY DEF StoreShape
<1>2. CASE Put(d)
  <2>1. reader'[r] = IF R.at = "reading" THEN [R EXCEPT !.moments = moments, !.doubled = doubled] ELSE R
    BY <1>2 DEF Put
  <2> HIDE DEF moments, doubled, R
  <2>2. [R EXCEPT !.moments = moments, !.doubled = doubled].first = R.first
    BY <1>1 DEF ReaderType
  <2>3. QED
    BY <2>1, <2>2 DEF R
<1>3. CASE Keep
  BY <1>3 DEF Keep
<1>4. QED
  BY <1>2, <1>3

\* The prefix and the number of a file that is not data.parquet tell it from others.
LEMMA NamesByAct ==
  ASSUME OnceInv, NamesInv, NEW j \in Jobs, Acts(j), StoreShape'
  PROVE  NamesInv'
<1> DEFINE w == work[j]  w2 == work'[j]
<1>1. /\ w \in WorkType /\ w2 \in WorkType /\ dataset \in DirType /\ dataset' \in DirType
      /\ InStep(w, dataset) /\ Works(w, dataset, w2, dataset') /\ writes' = writes
      /\ Shaped(w, dataset) /\ OneData(dataset.files)
  BY DEF OnceInv, WorkInv, Acts, Only, StoreShape, NamesInv
<1>2. \A i \in Jobs \ {j} : work'[i] = work[i] /\ ~Busy(work[i]) /\ Still(work[i])
  BY Solo DEF OnceInv, Acts, Only
<1>3. \A r \in Readers : reader'[r].first = reader[r].first
  BY FirstStays DEF Acts, OnceInv, WorkInv
<1>4. Numbered(work, writes)
  BY DEF OnceInv, OldRows
<1>5. Shaped(w2, dataset') /\ OneData(dataset'.files)
  BY <1>1, ShapedKept DEF Shaped
<1>6. \A i \in Jobs \ {j} : Coming(work'[i]) = {} /\ Shaped(work'[i], dataset')
  BY <1>2, <1>5, NothingComes
<1>7. ASSUME NEW f, Known(f)' PROVE Known(f) \/ f \in Come(w2, dataset')
  BY <1>3, <1>6, <1>7 DEF Known, Come
<1>8. ASSUME NEW f \in Come(w, dataset) PROVE Known(f)
  BY <1>8 DEF Known, Come
<1>9. ~Planned(w2) /\ (w2.step = "chunks" => w2.n = w.n /\ w.step \in {"start", "chunks"})
  BY <1>1, WorksOn, ChunksStep
<1>10. ASSUME NEW name, OldName(name, work, writes) PROVE OldName(name, work', writes')
  <2> SUFFICES ASSUME NEW i \in Jobs
               PROVE  /\ Planned(work'[i]) => name[2] # work'[i].n
                      /\ work'[i].step = "chunks" /\ name[2] = work'[i].n => name[1] # "compact"
    BY <1>1, <1>10 DEF OldName
  <2>1. CASE i = j
    BY <1>9, <1>10, <2>1 DEF OldName, Planned
  <2>2. CASE i # j
    BY <1>2, <1>10, <2>2 DEF OldName
  <2>3. QED
    BY <2>1, <2>2
<1>11. CASE \A f \in Come(w2, dataset') : f \in Come(w, dataset) \/ IsData(f)
  <2>1. ASSUME NEW f, Known(f)', ~IsData(f) PROVE Known(f)
    BY <1>7, <1>8, <1>11, <2>1
  <2>2. \A f \in FileType : Known(f)' /\ ~IsData(f) => OldName(f.name, work', writes')
    BY <1>10, <2>1 DEF NamesInv
  <2>3. \A f, g \in FileType : Known(f)' /\ Known(g)' /\ f.name = g.name /\ ~IsData(f) => f = g
    <3> SUFFICES ASSUME NEW f \in FileType, NEW g \in FileType, Known(f)', Known(g)', f.name = g.name, ~IsData(f)
                 PROVE  f = g
      OBVIOUS
    <3>1. ~IsData(g)
      BY DEF IsData
    <3>2. QED
      BY <2>1, <3>1 DEF NamesInv
  <2>4. QED
    BY <1>5, <1>6, <2>2, <2>3 DEF NamesInv, IsData
<1>12. ASSUME NEW prefix \in {"part", "compact", "repair"}, NEW rows \in SUBSET RowType,
              w.step = "start" \/ (w.step = "chunks" /\ prefix = "compact"),
              w2.step = "chunks" => prefix = "part",
              Come(w2, dataset') \subseteq Come(w, dataset) \cup Chunks(prefix, w.n, rows)
       PROVE  NamesInv'
  <2> DEFINE New == Chunks(prefix, w.n, rows)
  <2>1. \A f \in New : ~IsData(f) /\ f.name[1] = prefix /\ f.name[2] = w.n
    BY ChunkNames
  <2>2. \A f, g \in New : f.name = g.name => f = g
    BY ChunkNames
  <2>3. ASSUME NEW f, Known(f)' PROVE Known(f) \/ f \in New
    BY <1>7, <1>8, <1>12, <2>3
  <2> HIDE DEF New
  <2>4. ASSUME NEW f \in FileType, NEW g \in New, Known(f), ~IsData(f) PROVE f.name # g.name
    <3>1. OldName(f.name, work, writes)
      BY <2>4 DEF NamesInv
    <3>2. CASE w.step = "start"
      BY <2>1, <3>1, <3>2 DEF OldName, Planned
    <3>3. CASE w.step = "chunks" /\ prefix = "compact"
      BY <2>1, <3>1, <3>3 DEF OldName
    <3>4. QED
      BY <1>12, <3>2, <3>3
  <2>5. ASSUME NEW f \in New PROVE OldName(f.name, work', writes')
    <3>1. f.name[2] = w.n /\ f.name[1] = prefix /\ w.n <= writes
      BY <1>4, <2>1 DEF Numbered
    <3>2. ASSUME NEW i \in Jobs
          PROVE  /\ Planned(work'[i]) => w.n # work'[i].n
                 /\ work'[i].step = "chunks" => prefix # "compact"
      <4>1. CASE i = j
        BY <1>9, <1>12, <4>1
      <4>2. CASE i # j
        <5>1. work'[i] = work[i] /\ work[i].step # "chunks"
          BY <1>2, <4>2 DEF Busy, Quiet
        <5>2. Planned(work[i]) => work[i].n # w.n
          BY <1>4, <4>2 DEF Numbered
        <5>3. QED
          BY <5>1, <5>2
      <4>3. QED
        BY <4>1, <4>2
    <3>3. QED
      BY <1>1, <3>1, <3>2 DEF OldName
  <2>6. \A f \in FileType : Known(f)' /\ ~IsData(f) => OldName(f.name, work', writes')
    BY <1>10, <2>3, <2>5 DEF NamesInv
  <2>7. \A f, g \in FileType : Known(f)' /\ Known(g)' /\ f.name = g.name /\ ~IsData(f) => f = g
    <3> SUFFICES ASSUME NEW f \in FileType, NEW g \in FileType, Known(f)', Known(g)', f.name = g.name, ~IsData(f)
                 PROVE  f = g
      OBVIOUS
    <3>1. ~IsData(g)
      BY DEF IsData
    <3>2. CASE Known(f) /\ Known(g)
      BY <3>2 DEF NamesInv
    <3>3. CASE f \in New /\ g \in New
      BY <2>2, <3>3
    <3>4. CASE f \in New /\ Known(g)
      BY <2>4, <3>1, <3>4
    <3>5. CASE Known(f) /\ g \in New
      BY <2>4, <3>5
    <3>6. QED
      BY <2>3, <3>2, <3>3, <3>4, <3>5
  <2>8. QED
    BY <1>5, <1>6, <2>6, <2>7 DEF NamesInv, IsData
<1>13. QED
  BY <1>1, <1>11, <1>12, FilesComeFrom

\* A job that asks for the lock, gives it back or dies names no file.
LEMMA NamesByLock ==
  ASSUME OnceInv, NamesInv, NEW j \in Jobs,
         Begin(j) \/ Look(j) \/ BeginSeen(j) \/ NotLocked(j) \/ Finish(j) \/ Crash(j)
  PROVE  NamesInv'
<1>1. Rests(j) /\ StoreShape'
  BY StepsOfLock DEF OnceInv
<1>2. /\ dataset' = dataset /\ reader' = reader /\ (\A i \in Jobs \ {j} : work'[i] = work[i])
      /\ ~Busy(work'[j]) /\ Still(work'[j]) /\ work \in [Jobs -> WorkType] /\ writes \in Nat
  BY <1>1 DEF Rests, Only, Keep, OnceInv, WorkInv, StoreShape
<1>3. Coming(work'[j]) = {} /\ Shaped(work'[j], dataset')
  BY <1>2, NothingComes DEF NamesInv
<1>4. ASSUME NEW f, Known(f)' PROVE Known(f)
  BY <1>2, <1>3, <1>4 DEF Known
<1>5. \/ writes' = writes + 1 /\ work'[j].n = writes + 1
      \/ writes' = writes /\ (Planned(work'[j]) => Planned(work[j]) /\ work'[j].n = work[j].n)
  <2>1. CASE Begin(j) \/ Look(j)
    <3>1. PICK step \in {"start", "look"}, op \in Operations, seen \in {{}, Rows(dataset.files)} : NewWork(j, step, op, seen)
      BY <2>1 DEF Begin, Look
    <3>2. PICK keys :
            work' = [work EXCEPT ![j] =
                [NoWork EXCEPT !.step = step, !.op = op, !.n = writes + 1, !.seen = seen,
                               !.batch = [key : keys, write : {writes + 1}]]]
      BY <3>1 DEF NewWork
    <3>3. work'[j].n = writes + 1
      BY <1>2, <3>2 DEF NoWork
    <3>4. QED
      BY <3>1, <3>3 DEF NewWork
  <2>2. CASE BeginSeen(j)
    BY <1>2, <2>2 DEF BeginSeen, Planned, WorkType
  <2>3. CASE NotLocked(j) \/ Finish(j) \/ Crash(j)
    <3>1. writes' = writes /\ work' = [work EXCEPT ![j] = NoWork]
      BY <2>3 DEF NotLocked, Finish, Crash
    <3>2. work'[j] = NoWork
      BY <1>2, <3>1
    <3>3. QED
      BY <3>1, <3>2 DEF Planned, NoWork
  <2>4. QED
    BY <2>1, <2>2, <2>3
<1>6. ASSUME NEW f \in FileType, ~IsData(f), OldName(f.name, work, writes) PROVE OldName(f.name, work', writes')
  <2>1. f.name[2] \in Nat
    BY <1>6 DEF IsData, FileType, FileName
  <2>2. work'[j].step # "chunks"
    BY <1>2 DEF Busy, Quiet
  <2>3. QED
    BY <1>2, <1>5, <1>6, <2>1, <2>2 DEF OldName
<1>7. \A i \in Jobs : Shaped(work'[i], dataset')
  BY <1>2, <1>3 DEF NamesInv
<1>8. \A f \in FileType : Known(f)' /\ ~IsData(f) => OldName(f.name, work', writes')
  BY <1>4, <1>6 DEF NamesInv
<1>9. \A f, g \in FileType : Known(f)' /\ Known(g)' /\ f.name = g.name /\ ~IsData(f) => f = g
  BY <1>4 DEF NamesInv
<1>10. QED
  BY <1>2, <1>7, <1>8, <1>9 DEF NamesInv, IsData

\* A reader that has looked at a file and one that has read a file.
Looked(R, R2, name, there) ==
    /\ R2.at = R.at /\ R2.got = R.got /\ R2.twice = R.twice /\ R2.mixed = R.mixed
    /\ R2.first = R.first /\ R2.moments = R.moments /\ R2.doubled = R.doubled
    /\ R2.listed = R.listed \ {name}
    /\ R2.todo = R.todo \cup ({name} \cap there)
    /\ R2.passed = (R.passed \/ name \notin there)
HasRead(R, R2, f) ==
    /\ R2.at = R.at /\ R2.listed = R.listed /\ R2.passed = R.passed
    /\ R2.first = R.first /\ R2.moments = R.moments /\ R2.doubled = R.doubled
    /\ R2.todo = R.todo \ {f.name}
    /\ R2.got = R.got \cup f.rows
    /\ R2.twice = (R.twice \/ R.got \cap f.rows # {})
    /\ R2.mixed = (R.mixed \/ (R.got # {} /\ f \notin R.first))

LEMMA CheckIs ==
  ASSUME StoreShape, NEW r \in Readers, CheckFile(r)
  PROVE  \E name \in reader[r].listed : Looked(reader[r], reader'[r], name, NamesThere)
<1> DEFINE R == reader[r]
<1>1. R \in ReaderType
  BY DEF StoreShape
<1>2. PICK name \in R.listed :
         reader' = [reader EXCEPT ![r].listed = @ \ {name},
                                  ![r].todo = @ \cup ({name} \cap NamesThere),
                                  ![r].passed = @ \/ name \notin NamesThere]
  BY DEF CheckFile
<1> DEFINE listed == R.listed \ {name}  todo == R.todo \cup ({name} \cap NamesThere)
           passed == R.passed \/ name \notin NamesThere
           new == [R EXCEPT !.listed = listed, !.todo = todo, !.passed = passed]
<1>3. reader'[r] = new
  BY <1>2 DEF StoreShape
<1> HIDE DEF listed, todo, passed
<1>4. /\ new.listed = listed /\ new.todo = todo /\ new.passed = passed
      /\ new.at = R.at /\ new.got = R.got /\ new.twice = R.twice /\ new.mixed = R.mixed
      /\ new.first = R.first /\ new.moments = R.moments /\ new.doubled = R.doubled
  BY <1>1 DEF ReaderType
<1>5. QED
  BY <1>3, <1>4 DEF Looked, listed, todo, passed

LEMMA ReadIs ==
  ASSUME StoreShape, NEW r \in Readers, ReadFile(r)
  PROVE  /\ reader[r].at = "reading" /\ reader[r].listed = {}
         /\ \E f \in dataset.files : f.name \in reader[r].todo /\ HasRead(reader[r], reader'[r], f)
<1> DEFINE R == reader[r]
<1>1. R \in ReaderType
  BY DEF StoreShape
<1>2. PICK f \in dataset.files :
         /\ f.name \in R.todo
         /\ reader' = [reader EXCEPT ![r].todo = @ \ {f.name}, ![r].got = @ \cup f.rows,
                                     ![r].twice = @ \/ R.got \cap f.rows # {},
                                     ![r].mixed = @ \/ (R.got # {} /\ f \notin R.first)]
  BY DEF ReadFile
<1> DEFINE todo == R.todo \ {f.name}  got == R.got \cup f.rows  twice == R.twice \/ R.got \cap f.rows # {}
           mixed == R.mixed \/ (R.got # {} /\ f \notin R.first)
           new == [R EXCEPT !.todo = todo, !.got = got, !.twice = twice, !.mixed = mixed]
<1>3. reader'[r] = new
  BY <1>2 DEF StoreShape
<1> HIDE DEF todo, got, twice, mixed
<1>4. /\ new.todo = todo /\ new.got = got /\ new.twice = twice /\ new.mixed = mixed
      /\ new.at = R.at /\ new.listed = R.listed /\ new.passed = R.passed
      /\ new.first = R.first /\ new.moments = R.moments /\ new.doubled = R.doubled
  BY <1>1 DEF ReaderType
<1>5. HasRead(R, reader'[r], f)
  BY <1>3, <1>4 DEF HasRead, todo, got, twice, mixed
<1>6. QED
  BY <1>2, <1>5 DEF ReadFile

\* Readers know the files of the dataset, and forget them.
LEMMA NamesByReader ==
  ASSUME OnceInv, NamesInv, NEW r \in Readers,
         ListFiles(r) \/ CheckFile(r) \/ ReadFile(r) \/ EndRead(r) \/ UseRows(r)
  PROVE  NamesInv'
<1>1. UNCHANGED <<dataset, work, writes>> /\ reader \in [Readers -> ReaderType]
  BY ReaderStepIs DEF OnceInv, WorkInv, StoreShape
<1>2. ASSUME NEW q \in Readers PROVE reader'[q].first \subseteq reader[q].first \cup dataset.files
  <2>1. CASE q # r
    BY <1>1, <2>1 DEF ListFiles, CheckFile, ReadFile, EndRead, UseRows
  <2>2. CASE q = r /\ ListFiles(r)
    BY <1>1, <2>2 DEF ListFiles, IdleReader
  <2>3. CASE q = r /\ (CheckFile(r) \/ ReadFile(r))
    BY <2>3, CheckIs, ReadIs DEF Looked, HasRead, OnceInv, WorkInv
  <2>4. CASE q = r /\ (EndRead(r) \/ UseRows(r))
    BY <1>1, <2>4 DEF EndRead, UseRows, IdleReader, ReaderType
  <2>5. QED
    BY <2>1, <2>2, <2>3, <2>4
<1>3. ASSUME NEW f, Known(f)' PROVE Known(f)
  BY <1>1, <1>2, <1>3 DEF Known
<1>4. QED
  BY <1>1, <1>3 DEF NamesInv, IsData, OldName, Shaped

LEMMA NamesInvInit == StoreInit => NamesInv
<1> SUFFICES ASSUME StoreInit PROVE NamesInv
  OBVIOUS
<1>1. \A j \in Jobs : work[j] = NoWork
  BY DEF StoreInit
<1>2. dataset.files = {} /\ \A r \in Readers : reader[r].first = {}
  BY DEF StoreInit, NoDirectory, IdleReader
<1>3. OneData(dataset.files)
  BY <1>2 DEF OneData
<1>4. \A j \in Jobs : Coming(work[j]) = {} /\ Shaped(work[j], dataset)
  BY <1>1, <1>3, NothingComes DEF Busy, Still, NoWork, Quiet
<1>5. \A f : ~Known(f)
  BY <1>2, <1>4 DEF Known
<1>6. QED
  BY <1>3, <1>4, <1>5 DEF NamesInv

------------------------------------------------------------------------------
Names(files) == {f.name : f \in files}

\* None of these files is in the dataset or will be, but for data.parquet.
GoneFor(files, d, ws) ==
    \A f \in files : ~IsData(f) => f \notin d.files /\ \A j \in Jobs : f \notin Coming(ws[j])

\* A data.parquet that took the place of the listed one was once the only file, and the
\* reader may have seen that moment.
Watching(R, d, ws) ==
    \A f \in FileType :
       /\ IsData(f) /\ f \notin R.first /\ <<"data">> \in Names(R.first)
       /\ f \in d.files \/ \E j \in Jobs : f \in Active(ws[j])
       => GoneFor(R.first, d, ws) /\ f.rows \in R.moments

Left(R) == R.listed \cup R.todo
Listing(R) == {f \in R.first : f.name \notin Left(R)}

Begun(R) ==
    /\ Left(R) \subseteq Names(R.first)
    /\ OneData(R.first)
    /\ Rows(R.first) \in R.moments
    /\ Doubled(R.first) => R.doubled
    /\ R.at = "done" => Left(R) = {}

\* A read of the listed files, of the data.parquet in the place of one only, or of some of
\* them and that one.
Straight(R) ==
    /\ ~R.mixed
    /\ R.got \subseteq Rows(Listing(R))
    /\ ~R.passed => R.got = Rows(Listing(R))
    /\ R.twice => Doubled(R.first)
Replaced(R) ==
    /\ ~R.mixed
    /\ R.got \in R.moments
    /\ R.twice => Doubled(R.first)
Mixed(R) ==
    /\ R.mixed
    /\ \E rows \in R.moments : rows \subseteq R.got /\ R.got \subseteq Rows(R.first) \cup rows

ReaderInv(R, d, ws) ==
    R.at # "idle" =>
       /\ Begun(R)
       /\ R.at = "reading" => Watching(R, d, ws)
       /\ \/ Straight(R)
          \/ /\ Replaced(R) \/ Mixed(R)
             /\ <<"data">> \notin Left(R)
             /\ R.at = "reading" => GoneFor(R.first, d, ws)

ReadsInv ==
    /\ OnceInv /\ NamesInv
    /\ \A r \in Readers : ReaderInv(reader[r], dataset, work)

\* At the end of a read that is what it must be.
LEMMA ReadEnds ==
  ASSUME NEW R \in ReaderType, NEW d, NEW ws, ReaderInv(R, d, ws), R.at = "done"
  PROVE  /\ \/ R.got \in R.moments
            \/ R.passed /\ \E rows \in R.moments : R.got \subseteq rows
            \/ /\ R.mixed
               /\ \E old, new \in R.moments : new \subseteq R.got /\ R.got \subseteq old \cup new
         /\ R.twice => R.doubled \/ R.mixed
<1>1. Begun(R) /\ (Straight(R) \/ Replaced(R) \/ Mixed(R))
  BY DEF ReaderInv
<1>2. Listing(R) = R.first /\ Rows(R.first) \in R.moments /\ (Doubled(R.first) => R.doubled)
  BY <1>1 DEF Begun, Listing
<1>3. CASE Straight(R)
  BY <1>2, <1>3 DEF Straight
<1>4. CASE Replaced(R)
  BY <1>2, <1>4 DEF Replaced
<1>5. CASE Mixed(R)
  BY <1>2, <1>5 DEF Mixed
<1>6. QED
  BY <1>1, <1>3, <1>4, <1>5

\* What a reader has survives what the others do: more moments to choose from, and files
\* that have gone stay away.
LEMMA ReaderWaits ==
  ASSUME NEW R \in ReaderType, NEW R2 \in ReaderType, NEW d, NEW ws, NEW d2, NEW ws2,
         ReaderInv(R, d, ws),
         R2.at = R.at, R2.listed = R.listed, R2.todo = R.todo, R2.got = R.got, R2.passed = R.passed,
         R2.twice = R.twice, R2.mixed = R.mixed, R2.first = R.first,
         R.moments \subseteq R2.moments, R.doubled => R2.doubled,
         GoneFor(R.first, d, ws) => GoneFor(R.first, d2, ws2),
         R.at = "reading" => Watching(R2, d2, ws2)
  PROVE  ReaderInv(R2, d2, ws2)
<1> SUFFICES ASSUME R.at # "idle" PROVE ReaderInv(R2, d2, ws2)
  BY DEF ReaderInv
<1>1. Begun(R2)
  BY DEF ReaderInv, Begun, Left
<1>2. CASE Straight(R)
  <2>1. Straight(R2)
    BY <1>2 DEF Straight, Listing, Left
  <2>2. QED
    BY <1>1, <2>1 DEF ReaderInv
<1>3. CASE (Replaced(R) \/ Mixed(R)) /\ <<"data">> \notin Left(R) /\ (R.at = "reading" => GoneFor(R.first, d, ws))
  <2>1. Replaced(R2) \/ Mixed(R2)
    BY <1>3 DEF Replaced, Mixed
  <2>2. Left(R2) = Left(R)
    BY DEF Left
  <2>3. QED
    BY <1>1, <1>3, <2>1, <2>2 DEF ReaderInv
<1>4. QED
  BY <1>2, <1>3 DEF ReaderInv

\* A file a reader has listed that has gone does not come back, but for data.parquet.
LEMMA NoneReturns ==
  ASSUME OnceInv, NamesInv, NEW j \in Jobs, Acts(j), StoreShape',
         NEW f \in FileType, Known(f), ~IsData(f), f \in Come(work'[j], dataset')
  PROVE  f \in Come(work[j], dataset)
<1> DEFINE w == work[j]  w2 == work'[j]
<1>1. /\ w \in WorkType /\ w2 \in WorkType /\ dataset \in DirType /\ dataset' \in DirType
      /\ InStep(w, dataset) /\ Works(w, dataset, w2, dataset')
  BY DEF OnceInv, WorkInv, Acts, Only, StoreShape
<1>2. OldName(f.name, work, writes)
  BY DEF NamesInv
<1>3. ASSUME NEW prefix \in {"part", "compact", "repair"}, NEW rows \in SUBSET RowType,
             w.step = "start" \/ (w.step = "chunks" /\ prefix = "compact"),
             f \in Chunks(prefix, w.n, rows)
      PROVE  FALSE
  <2>1. f.name[1] = prefix /\ f.name[2] = w.n
    BY <1>3, ChunkNames
  <2>2. QED
    BY <1>2, <1>3, <2>1 DEF OldName, Planned
<1>4. QED
  BY <1>1, <1>3, FilesComeFrom

LEMMA GoneByAct ==
  ASSUME OnceInv, NamesInv, NEW j \in Jobs, Acts(j), StoreShape',
         NEW files \in SUBSET FileType, \A f \in files : Known(f), GoneFor(files, dataset, work)
  PROVE  GoneFor(files, dataset', work')
<1> SUFFICES ASSUME NEW f \in files, ~IsData(f), NEW i \in Jobs
             PROVE  f \notin dataset'.files /\ f \notin Coming(work'[i])
  BY DEF GoneFor
<1>1. f \notin Come(work[j], dataset)
  BY DEF GoneFor, Come
<1>2. f \notin Come(work'[j], dataset')
  BY <1>1, NoneReturns
<1>3. CASE i = j
  BY <1>2, <1>3 DEF Come
<1>4. CASE i # j
  <2>1. work'[i] = work[i]
    BY <1>4 DEF Acts, Only
  <2>2. QED
    BY <1>2, <2>1 DEF Come, GoneFor
<1>5. QED
  BY <1>3, <1>4

\* What a job at work leaves of a reader.
LEMMA WatchedIs ==
  ASSUME StoreShape, NEW d \in DirType, Put(d) \/ Keep, NEW r \in Readers
  PROVE  LET R == reader[r]  R2 == reader'[r] IN
         /\ R2.at = R.at /\ R2.listed = R.listed /\ R2.todo = R.todo /\ R2.got = R.got /\ R2.passed = R.passed
         /\ R2.twice = R.twice /\ R2.mixed = R.mixed /\ R2.first = R.first
         /\ R.moments \subseteq R2.moments /\ (R.doubled => R2.doubled)
         /\ Put(d) /\ R.at = "reading" => Rows(d.files) \in R2.moments
<1> DEFINE R == reader[r]  moments == R.moments \cup {Rows(d.files)}  doubled == R.doubled \/ Doubled(d.files)
           new == [R EXCEPT !.moments = moments, !.doubled = doubled]
<1>1. R \in ReaderType
  BY DEF StoreShape
<1>2. Put(d) => reader'[r] = IF R.at = "reading" THEN new ELSE R
  BY DEF Put
<1>3. Keep => reader'[r] = R
  BY DEF Keep
<1>4. R.moments \subseteq moments /\ Rows(d.files) \in moments /\ (R.doubled => doubled)
  BY DEF moments, doubled
<1> HIDE DEF moments, doubled, R
<1>5. /\ new.at = R.at /\ new.listed = R.listed /\ new.todo = R.todo /\ new.got = R.got /\ new.passed = R.passed
      /\ new.twice = R.twice /\ new.mixed = R.mixed /\ new.first = R.first
      /\ new.moments = moments /\ new.doubled = doubled
  BY <1>1 DEF ReaderType
<1> HIDE DEF new
<1>6. CASE Put(d) /\ R.at = "reading"
  <2>1. reader'[r] = new
    BY <1>2, <1>6
  <2>2. QED
    BY <1>4, <1>5, <2>1, <1>6 DEF R
<1>7. CASE ~(Put(d) /\ R.at = "reading")
  <2>1. reader'[r] = R
    BY <1>2, <1>3, <1>7
  <2>2. QED
    BY <2>1, <1>7 DEF R
<1>8. QED
  BY <1>6, <1>7

LEMMA ReadersByAct ==
  ASSUME ReadsInv, NEW j \in Jobs, Acts(j), StoreShape', NEW r \in Readers
  PROVE  ReaderInv(reader'[r], dataset', work')
<1> DEFINE R == reader[r]  R2 == reader'[r]  w == work[j]  w2 == work'[j]
<1>1. /\ w \in WorkType /\ w2 \in WorkType /\ dataset \in DirType /\ dataset' \in DirType
      /\ InStep(w, dataset) /\ Works(w, dataset, w2, dataset') /\ Shaped(w, dataset)
      /\ R \in ReaderType /\ R2 \in ReaderType
  BY DEF ReadsInv, OnceInv, WorkInv, Acts, Only, StoreShape, NamesInv
<1>2. \A i \in Jobs \ {j} : work'[i] = work[i] /\ Coming(work[i]) = {} /\ Active(work[i]) = {}
  BY Solo, NothingComes DEF ReadsInv, OnceInv, Acts, Only, NamesInv
<1>3. /\ R2.at = R.at /\ R2.listed = R.listed /\ R2.todo = R.todo /\ R2.got = R.got /\ R2.passed = R.passed
      /\ R2.twice = R.twice /\ R2.mixed = R.mixed /\ R2.first = R.first
      /\ R.moments \subseteq R2.moments /\ (R.doubled => R2.doubled)
      /\ Put(dataset') /\ R.at = "reading" => Rows(dataset'.files) \in R2.moments
  BY <1>1, WatchedIs DEF ReadsInv, OnceInv, WorkInv, Acts
<1>4. R.first \in SUBSET FileType /\ \A f \in R.first : Known(f)
  BY <1>1 DEF ReaderType, Known
<1>5. GoneFor(R.first, dataset, work) => GoneFor(R.first, dataset', work')
  BY <1>4, GoneByAct DEF ReadsInv
<1>6. ReaderInv(R, dataset, work)
  BY DEF ReadsInv
<1>7. ASSUME R.at = "reading" PROVE Watching(R2, dataset', work')
  <2> SUFFICES ASSUME NEW f \in FileType, IsData(f), f \notin R.first, <<"data">> \in Names(R.first),
                      f \in dataset'.files \/ \E i \in Jobs : f \in Active(work'[i])
               PROVE  GoneFor(R.first, dataset', work') /\ f.rows \in R2.moments
    BY <1>3 DEF Watching
  <2>1. f \in dataset'.files \cup Active(w2)
    BY <1>2
  <2>2. CASE f \in dataset.files \cup Active(w)
    <3>1. Watching(R, dataset, work)
      BY <1>6, <1>7 DEF ReaderInv
    <3>2. GoneFor(R.first, dataset, work) /\ f.rows \in R.moments
      BY <2>2, <3>1 DEF Watching
    <3>3. QED
      BY <1>3, <1>5, <3>2
  <2>3. CASE f \notin dataset.files \cup Active(w)
    <3>1. dataset'.files = {f} /\ Come(w2, dataset') = {f}
      BY <1>1, <2>1, <2>3, DataComesFrom
    <3>2. Put(dataset')
      BY <2>3, <3>1 DEF Acts, Keep
    <3>3. f.rows \in R2.moments
      <4>1. Rows(dataset'.files) = f.rows
        BY <3>1 DEF Rows
      <4>2. QED
        BY <1>3, <1>7, <3>2, <4>1
    <3>4. ASSUME NEW g \in R.first, ~IsData(g), NEW i \in Jobs
          PROVE  g \notin dataset'.files /\ g \notin Coming(work'[i])
      <4>1. g \notin Come(w2, dataset')
        BY <3>1, <3>4
      <4>2. QED
        BY <1>2, <4>1 DEF Come
    <3>5. GoneFor(R.first, dataset', work')
      BY <3>4 DEF GoneFor
    <3>6. QED
      BY <3>3, <3>5
  <2>4. QED
    BY <2>2, <2>3
<1>8. QED
  BY <1>1, <1>3, <1>5, <1>6, <1>7, ReaderWaits

LEMMA ReadersByLock ==
  ASSUME ReadsInv, NEW j \in Jobs, Rests(j), NEW r \in Readers
  PROVE  ReaderInv(reader'[r], dataset', work')
<1> DEFINE R == reader[r]
<1>1. /\ dataset' = dataset /\ reader' = reader /\ (\A i \in Jobs \ {j} : work'[i] = work[i])
      /\ ~Busy(work'[j]) /\ Still(work'[j]) /\ R \in ReaderType
  BY DEF Rests, Only, Keep, ReadsInv, OnceInv, WorkInv, StoreShape
<1>2. Coming(work'[j]) = {} /\ Active(work'[j]) = {}
  BY <1>1, NothingComes DEF ReadsInv, NamesInv
<1>3. ASSUME GoneFor(R.first, dataset, work) PROVE GoneFor(R.first, dataset', work')
  BY <1>1, <1>2, <1>3 DEF GoneFor
<1>4. ReaderInv(R, dataset, work)
  BY DEF ReadsInv
<1>5. ASSUME R.at = "reading" PROVE Watching(R, dataset', work')
  <2>1. Watching(R, dataset, work)
    BY <1>4, <1>5 DEF ReaderInv
  <2>2. QED
    BY <1>1, <1>2, <1>3, <2>1 DEF Watching
<1>6. QED
  BY <1>1, <1>3, <1>4, <1>5, ReaderWaits

\* A reader begins with what it lists.
LEMMA ReaderLists ==
  ASSUME ReadsInv, NEW r \in Readers, ListFiles(r)
  PROVE  ReaderInv(reader'[r], dataset, work)
<1> DEFINE R2 == reader'[r]
<1>1. /\ R2.at = "reading" /\ R2.listed = NamesThere /\ R2.todo = {} /\ R2.got = {} /\ R2.passed = FALSE
      /\ R2.twice = FALSE /\ R2.mixed = FALSE /\ R2.first = dataset.files
      /\ R2.moments = {Rows(dataset.files)} /\ R2.doubled = Doubled(dataset.files)
  BY DEF ListFiles, IdleReader, ReadsInv, OnceInv, WorkInv, StoreShape
<1>2. Begun(R2)
  BY <1>1 DEF Begun, Left, Names, NamesThere, ReadsInv, NamesInv
<1>3. Listing(R2) = {}
  BY <1>1 DEF Listing, Left, NamesThere
<1>4. Straight(R2)
  BY <1>1, <1>3, RowsOfNone DEF Straight
<1>5. Watching(R2, dataset, work)
  <2> SUFFICES ASSUME NEW f, f \notin R2.first, <<"data">> \in Names(R2.first),
                      f \in dataset.files \/ \E i \in Jobs : f \in Active(work[i])
               PROVE  FALSE
    BY DEF Watching
  <2>1. PICK i \in Jobs : f \in Active(work[i])
    BY <1>1
  <2>2. dataset = NoDirectory
    BY <2>1 DEF Active, ReadsInv, OnceInv, WorkInv, InStep
  <2>3. QED
    BY <1>1, <2>2 DEF Names, NoDirectory
<1>6. QED
  BY <1>1, <1>2, <1>4, <1>5 DEF ReaderInv

\* A file that is not there is passed over, and the others stay to be read.
LEMMA ReaderChecks ==
  ASSUME ReadsInv, NEW r \in Readers, CheckFile(r)
  PROVE  ReaderInv(reader'[r], dataset, work)
<1> DEFINE R == reader[r]  R2 == reader'[r]
<1>1. PICK name \in R.listed : Looked(R, R2, name, NamesThere)
  BY CheckIs DEF ReadsInv, OnceInv, WorkInv
<1>2. ReaderInv(R, dataset, work) /\ R \in ReaderType
  BY DEF ReadsInv, OnceInv, WorkInv, StoreShape
<1>3. /\ R2.at = R.at /\ R2.got = R.got /\ R2.twice = R.twice /\ R2.mixed = R.mixed
      /\ R2.first = R.first /\ R2.moments = R.moments /\ R2.doubled = R.doubled
  BY <1>1 DEF Looked
<1>4. /\ Left(R2) \subseteq Left(R)
      /\ ~R2.passed => ~R.passed /\ Left(R2) = Left(R)
  BY <1>1 DEF Looked, Left
<1> SUFFICES ASSUME R.at # "idle" PROVE ReaderInv(R2, dataset, work)
  BY <1>3 DEF ReaderInv
<1>5. Begun(R2)
  BY <1>2, <1>3, <1>4 DEF ReaderInv, Begun
<1>6. R2.at = "reading" => Watching(R2, dataset, work)
  BY <1>2, <1>3 DEF ReaderInv, Watching
<1>7. CASE Straight(R)
  <2>1. Listing(R) \subseteq Listing(R2) /\ (~R2.passed => Listing(R2) = Listing(R))
    BY <1>3, <1>4 DEF Listing
  <2>2. Rows(Listing(R)) \subseteq Rows(Listing(R2))
    BY <2>1 DEF Rows
  <2>3. Straight(R2)
    BY <1>3, <1>4, <1>7, <2>1, <2>2 DEF Straight
  <2>4. QED
    BY <1>5, <1>6, <2>3 DEF ReaderInv
<1>8. CASE (Replaced(R) \/ Mixed(R)) /\ <<"data">> \notin Left(R) /\ (R.at = "reading" => GoneFor(R.first, dataset, work))
  <2>1. Replaced(R2) \/ Mixed(R2)
    BY <1>3, <1>8 DEF Replaced, Mixed
  <2>2. QED
    BY <1>3, <1>4, <1>5, <1>6, <1>8, <2>1 DEF ReaderInv
<1>9. QED
  BY <1>2, <1>7, <1>8 DEF ReaderInv

\* A listed name leads to the listed file, or to the data.parquet in its place.
LEMMA ReaderReads ==
  ASSUME ReadsInv, NEW r \in Readers, ReadFile(r)
  PROVE  ReaderInv(reader'[r], dataset, work)
<1> DEFINE R == reader[r]  R2 == reader'[r]
<1>1. R.at = "reading" /\ R.listed = {} /\ dataset.files \in SUBSET FileType /\ R \in ReaderType
  BY ReadIs, PartsAre DEF ReadsInv, OnceInv, WorkInv, StoreShape
<1>2. PICK f \in dataset.files : f.name \in R.todo /\ HasRead(R, R2, f)
  BY ReadIs DEF ReadsInv, OnceInv, WorkInv
<1>3. Begun(R) /\ Watching(R, dataset, work)
  BY <1>1 DEF ReadsInv, ReaderInv
<1>4. /\ R2.at = R.at /\ R2.passed = R.passed /\ R2.first = R.first /\ R2.moments = R.moments /\ R2.doubled = R.doubled
      /\ R2.got = R.got \cup f.rows /\ Left(R2) = Left(R) \ {f.name}
      /\ R2.twice = (R.twice \/ R.got \cap f.rows # {})
      /\ R2.mixed = (R.mixed \/ (R.got # {} /\ f \notin R.first))
  BY <1>1, <1>2 DEF HasRead, Left
<1>5. f.name \in Left(R) /\ f \in FileType /\ Known(f)
  BY <1>1, <1>2 DEF Left, Known
<1>6. PICK g \in R.first : g.name = f.name
  BY <1>3, <1>5 DEF Begun, Names
<1>7. g \in FileType /\ Known(g)
  BY <1>1, <1>6 DEF ReaderType, Known
<1>8. ~IsData(f) => f = g
  BY <1>5, <1>6, <1>7 DEF ReadsInv, NamesInv
<1>9. Begun(R2)
  BY <1>1, <1>3, <1>4 DEF Begun
<1>10. R2.at = "reading" /\ Watching(R2, dataset, work)
  BY <1>1, <1>3, <1>4 DEF Watching
<1>11. CASE <<"data">> \notin Left(R) /\ GoneFor(R.first, dataset, work)
  <2>1. ~IsData(f)
    BY <1>5, <1>11 DEF IsData
  <2>2. QED
    BY <1>6, <1>8, <1>11, <2>1 DEF GoneFor
<1>12. CASE Straight(R) /\ f \in R.first
  <2>1. \A h \in R.first : h.name = f.name => h = f
    <3> SUFFICES ASSUME NEW h \in R.first, h.name = f.name PROVE h = f
      OBVIOUS
    <3>1. h \in FileType /\ Known(h)
      BY <1>1 DEF ReaderType, Known
    <3>2. CASE IsData(f)
      BY <1>3, <1>12, <3>2 DEF Begun, OneData, IsData
    <3>3. CASE ~IsData(f)
      BY <1>5, <3>1, <3>3 DEF ReadsInv, NamesInv
    <3>4. QED
      BY <3>2, <3>3
  <2>2. Listing(R2) = Listing(R) \cup {f} /\ f \notin Listing(R) /\ Listing(R) \subseteq R.first
    BY <1>4, <1>5, <1>12, <2>1 DEF Listing
  <2>3. Rows(Listing(R2)) = Rows(Listing(R)) \cup f.rows
    BY <2>2 DEF Rows
  <2>4. R.got \cap f.rows # {} => Doubled(R.first)
    <3> SUFFICES ASSUME NEW row \in R.got, row \in f.rows PROVE Doubled(R.first)
      OBVIOUS
    <3>1. PICK h \in Listing(R) : row \in h.rows
      BY <1>12 DEF Straight, Rows
    <3>2. QED
      BY <1>12, <2>2, <3>1 DEF Doubled
  <2>5. Straight(R2)
    BY <1>4, <1>12, <2>3, <2>4 DEF Straight
  <2>6. QED
    BY <1>9, <1>10, <2>5 DEF ReaderInv
<1>13. CASE Straight(R) /\ f \notin R.first
  <2>1. IsData(f) /\ <<"data">> \in Names(R.first)
    BY <1>6, <1>8, <1>13 DEF IsData, Names
  <2>2. GoneFor(R.first, dataset, work) /\ f.rows \in R.moments
    BY <1>3, <1>5, <1>13, <2>1 DEF Watching
  <2>3. <<"data">> \notin Left(R2)
    BY <1>4, <2>1 DEF IsData
  <2>4. CASE R.got = {}
    <3>1. Replaced(R2)
      BY <1>4, <1>13, <2>2, <2>4 DEF Replaced, Straight
    <3>2. QED
      BY <1>4, <1>9, <1>10, <2>2, <2>3, <3>1 DEF ReaderInv
  <2>5. CASE R.got # {}
    <3>1. R.got \subseteq Rows(R.first)
      BY <1>13 DEF Straight, Listing, Rows
    <3>2. Mixed(R2)
      BY <1>4, <1>13, <2>2, <2>5, <3>1 DEF Mixed
    <3>3. QED
      BY <1>4, <1>9, <1>10, <2>2, <2>3, <3>2 DEF ReaderInv
  <2>6. QED
    BY <2>4, <2>5
<1>14. QED
  BY <1>1, <1>11, <1>12, <1>13 DEF ReadsInv, ReaderInv

\* A read that ends has nothing left to read, or is given up.
LEMMA ReaderEnds ==
  ASSUME ReadsInv, NEW r \in Readers, EndRead(r) \/ UseRows(r)
  PROVE  ReaderInv(reader'[r], dataset, work)
<1> DEFINE R == reader[r]  R2 == reader'[r]
<1>1. R \in ReaderType /\ reader \in [Readers -> ReaderType]
  BY DEF ReadsInv, OnceInv, WorkInv, StoreShape
<1>2. CASE reader' = [reader EXCEPT ![r] = IdleReader]
  BY <1>1, <1>2 DEF ReaderInv, IdleReader
<1>3. CASE R.at = "reading" /\ R.listed = {} /\ R.todo = {} /\ reader' = [reader EXCEPT ![r].at = "done"]
  <2>1. /\ R2.at = "done" /\ R2.listed = {} /\ R2.todo = {} /\ R2.got = R.got /\ R2.passed = R.passed
        /\ R2.twice = R.twice /\ R2.mixed = R.mixed /\ R2.first = R.first
        /\ R2.moments = R.moments /\ R2.doubled = R.doubled
    BY <1>1, <1>3 DEF ReaderType
  <2>2. ReaderInv(R, dataset, work)
    BY DEF ReadsInv
  <2>3. Left(R2) = {} /\ Left(R) = {}
    BY <1>3, <2>1 DEF Left
  <2>4. Begun(R2)
    BY <1>3, <2>1, <2>2, <2>3 DEF ReaderInv, Begun
  <2>5. Listing(R2) = Listing(R)
    BY <2>1, <2>3 DEF Listing
  <2>6. Straight(R) => Straight(R2)
    BY <2>1, <2>5 DEF Straight
  <2>7. Replaced(R) \/ Mixed(R) => Replaced(R2) \/ Mixed(R2)
    BY <2>1 DEF Replaced, Mixed
  <2>8. QED
    BY <1>3, <2>1, <2>2, <2>3, <2>4, <2>6, <2>7 DEF ReaderInv
<1>4. QED
  BY <1>2, <1>3 DEF EndRead, UseRows

LEMMA ReadsInvInit == StoreInit => ReadsInv
  BY OnceInvInit, NamesInvInit DEF StoreInit, ReadsInv, ReaderInv, IdleReader

LEMMA ReadsInvStep == ReadsInv /\ [StoreNext]_storeVars /\ lapses' = {} => ReadsInv'
<1> SUFFICES ASSUME ReadsInv, [StoreNext]_storeVars, lapses' = {} PROVE ReadsInv'
  OBVIOUS
<1>1. OnceInv /\ OnceInv' /\ NamesInv /\ WorkInv
  BY OnceInvStep DEF ReadsInv, OnceInv
<1> DEFINE Readers2 == \A r \in Readers : ReaderInv(reader'[r], dataset', work')
<1>2. ASSUME NEW j \in Jobs, JobStep(j), ~Lock(j) PROVE NamesInv' /\ Readers2
  <2>1. CASE Begin(j) \/ Look(j) \/ BeginSeen(j) \/ NotLocked(j) \/ Finish(j) \/ Crash(j)
    <3>1. Rests(j)
      BY <1>1, <2>1, StepsOfLock
    <3>2. QED
      BY <1>1, <2>1, <3>1, NamesByLock, ReadersByLock
  <2>2. CASE ~(Begin(j) \/ Look(j) \/ BeginSeen(j) \/ NotLocked(j) \/ Finish(j) \/ Crash(j))
    <3>1. Acts(j) /\ StoreShape'
      BY <1>1, <1>2, <2>2, StepsOfAppend, StepsOfDirect, StepsOfRepair, StepsOfRewrite DEF JobStep
    <3>2. QED
      BY <1>1, <3>1, NamesByAct, ReadersByAct
  <2>3. QED
    BY <2>1, <2>2
<1>3. ASSUME UNCHANGED <<dataset, work, writes, reader>> PROVE NamesInv' /\ Readers2
  BY <1>1, <1>3 DEF NamesInv, Known, IsData, OldName, Shaped, ReadsInv
<1>4. ASSUME (\E j \in Jobs : Lock(j)) \/ Age PROVE NamesInv' /\ Readers2
  BY <1>1, <1>3, <1>4, LockStepIs
<1>5. ASSUME NEW r \in Readers, ListFiles(r) \/ CheckFile(r) \/ ReadFile(r) \/ EndRead(r) \/ UseRows(r)
      PROVE  NamesInv' /\ Readers2
  <2>1. NamesInv'
    BY <1>1, <1>5, NamesByReader
  <2>2. UNCHANGED <<dataset, work>>
    BY <1>1, <1>5, ReaderStepIs DEF WorkInv
  <2>3. ReaderInv(reader'[r], dataset, work)
    BY <1>5, ReaderLists, ReaderChecks, ReaderReads, ReaderEnds
  <2>4. ASSUME NEW q \in Readers, q # r PROVE reader'[q] = reader[q]
    BY <1>1, <1>5, <2>4 DEF ListFiles, CheckFile, ReadFile, EndRead, UseRows, WorkInv, StoreShape
  <2>5. ASSUME NEW q \in Readers PROVE ReaderInv(reader'[q], dataset', work')
    BY <2>2, <2>3, <2>4 DEF ReadsInv
  <2>6. QED
    BY <2>1, <2>5
<1>6. CASE UNCHANGED storeVars
  BY <1>1, <1>3, <1>6 DEF storeVars, ReadsInv
<1>7. CASE StoreNext
  <2>1. NamesInv' /\ Readers2
    BY <1>2, <1>4, <1>5, <1>7 DEF StoreNext
  <2>2. QED
    BY <1>1, <2>1 DEF ReadsInv
<1>8. QED
  BY <1>6, <1>7

\* A read that ends well returns one moment of the dataset, or what it may have mixed.
THEOREM ReadsAreWhole == StoreSpec => []ReadIsOneMoment
<1>1. StoreInit => ReadsInv
  BY ReadsInvInit
<1>2. (lapses = {} => ReadsInv) /\ [StoreNext]_storeVars => (lapses = {} => ReadsInv)'
  BY ReadsInvStep, StoreLapsesStay
<1>3. (lapses = {} => ReadsInv) => ReadIsOneMoment
  <2> SUFFICES ASSUME lapses = {}, ReadsInv, NEW r \in Readers, reader[r].at = "done"
               PROVE  /\ \/ reader[r].got \in reader[r].moments
                         \/ reader[r].passed /\ \E rows \in reader[r].moments : reader[r].got \subseteq rows
                         \/ /\ reader[r].mixed
                            /\ \E old, new \in reader[r].moments :
                                  new \subseteq reader[r].got /\ reader[r].got \subseteq old \cup new
                      /\ reader[r].twice => reader[r].doubled \/ reader[r].mixed
    BY DEF ReadIsOneMoment
  <2>1. reader[r] \in ReaderType /\ ReaderInv(reader[r], dataset, work)
    BY DEF ReadsInv, OnceInv, WorkInv, StoreShape
  <2>2. QED
    BY <2>1, ReadEnds
<1>4. QED
  BY <1>1, <1>2, <1>3, PTL DEF StoreSpec
=============================================================================
