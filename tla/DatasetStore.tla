---------------------------- MODULE DatasetStore -----------------------------
(***************************************************************************)
(* One dataset of the lake (data/lake.py): a directory of parquet files    *)
(* that jobs append to, upsert, replace and compact under DatasetLock, and *)
(* that readers read without it.                                           *)
(*                                                                         *)
(* A row is a key and the number of the write that made it.  A write that  *)
(* replaces the dataset stages the new directory beside the old one,       *)
(* renames the old one to a backup, renames the staged one into place and  *)
(* removes the backup.  A direct compaction stages its outputs inside the  *)
(* dataset in an internal directory readers skip (`hidden`), unlinks the   *)
(* files it read one by one and moves the outputs in one by one.  A repair *)
(* of partition values moves its outputs in first.                         *)
(*                                                                         *)
(* Some writers read the dataset before they ask for the lock: a merge     *)
(* writes what it read with its batch, a seed replaces a dataset that it   *)
(* found empty and upserts into any other.                                 *)
(***************************************************************************)
EXTENDS DatasetLock

CONSTANTS
    Readers,
    Keys,
    Operations,        \* what the jobs of this dataset do
    AutoCompactFiles,  \* an append compacts when more files than these are there
    MaxWrites,         \* bound on the operations
    MaxCrashes,        \* bound on the jobs that die
    MaxFaults          \* bound on the system calls that fail

ReadFirst == {"merge", "seed"}
Rewrites == {"upsert", "replace", "compact"} \cup ReadFirst
Appends == {"append", "direct"}
Batched == {"append", "upsert", "replace"} \cup ReadFirst

ASSUME StoreAssumption ==
    /\ Operations \subseteq Rewrites \cup {"append", "direct", "repair"}
    /\ AutoCompactFiles \in Nat
    /\ MaxWrites \in Nat
    /\ MaxCrashes \in Nat
    /\ MaxFaults \in Nat

VARIABLES
    dataset,    \* the dataset's directory
    work,       \* what each job is doing under the lock
    orphans,    \* backups nobody will remove
    writes,     \* number of operations begun
    faults,     \* number of system calls that failed
    reader,     \* what each reader has read
    committed,  \* auxiliary: the rows of finished writes that no later one replaced
    incidents   \* auxiliary: the mishaps that hide or lose rows, by kind

storeVars ==
    <<lockVars, dataset, work, orphans, writes, faults, reader, committed, incidents>>

NoDirectory == [there |-> FALSE, files |-> {}, hidden |-> {}]
Directory(files, hidden) == [there |-> TRUE, files |-> files, hidden |-> hidden]

NoWork ==
    [step |-> "none", op |-> "none", n |-> 0, batch |-> {}, seen |-> {}, todo |-> {},
     staged |-> {}, backup |-> NoDirectory]

Rows(files) == UNION {f.rows : f \in files}
AllRows(directory) == Rows(directory.files) \cup Rows(directory.hidden)
KeysOf(rows) == {r.key : r \in rows}
Upserted(rows, batch) == {r \in rows : r.key \notin KeysOf(batch)} \cup batch

\* (Of older rows with one key, which only a dataset that is appended to as well has, the
\* streaming upsert keeps all, like this, and the one in memory the last it read, :814.)

\* A row is in two files.
Doubled(files) == \E f, g \in files : f # g /\ f.rows \cap g.rows # {}

\* The one file of a rewritten dataset always has the same name; the others carry
\* the time and the pid, that is the number of the operation.
DataFile(rows) == [name |-> <<"data">>, rows |-> rows]

Chunks(prefix, n, rows) ==
    {[name |-> <<prefix, n, k>>, rows |-> {r \in rows : r.key = k}] : k \in KeysOf(rows)}

NamesThere == {f.name : f \in dataset.files}

\* Compaction skips what it wrote before and data.parquet, if it is not asked for them.
Sources == {f \in dataset.files : f.name[1] = "part"}

IdleReader ==
    [at |-> "idle", listed |-> {}, todo |-> {}, got |-> {}, passed |-> FALSE, twice |-> FALSE,
     mixed |-> FALSE, first |-> {}, moments |-> {}, doubled |-> FALSE]

StoreInit ==
    /\ LockInit
    /\ dataset = NoDirectory
    /\ work = [j \in Jobs |-> NoWork]
    /\ orphans = {}
    /\ writes = 0
    /\ faults = 0
    /\ reader = [r \in Readers |-> IdleReader]
    /\ committed = {}
    /\ incidents = {}

------------------------------------------------------------------------------
\* A job at a step of its operation, and its next step.
At(j, op, step) == stage[j] = "in" /\ work[j].op \in op /\ work[j].step = step

\* The directory becomes d, and every reader at work could have seen it.
Put(d) ==
    /\ dataset' = d
    /\ reader' = [r \in Readers |->
            IF reader[r].at = "reading"
            THEN [reader[r] EXCEPT !.moments = @ \cup {Rows(d.files)},
                                   !.doubled = @ \/ Doubled(d.files)]
            ELSE reader[r]]

Keep == UNCHANGED <<dataset, reader>>

Fault ==
    /\ faults < MaxFaults
    /\ faults' = faults + 1

NoFault == UNCHANGED faults

\* The backup of a job that will not remove it.
Abandon(j) ==
    orphans' = IF work[j].backup.there THEN orphans \cup {work[j].backup} ELSE orphans

Leave(j) == work' = [work EXCEPT ![j] = [NoWork EXCEPT !.step = "leave"]]

------------------------------------------------------------------------------
(***************************************************************************)
(* Taking the lock.  What to do is settled when the job asks; what is in   *)
(* the dataset is read when it holds the lock.                             *)
(***************************************************************************)
NewWork(j, step, op, seen) ==
    /\ writes < MaxWrites
    /\ work[j] = NoWork
    /\ \E keys \in IF op \in Batched THEN (SUBSET Keys) \ {{}} ELSE {{}} :
           work' = [work EXCEPT ![j] =
              [NoWork EXCEPT !.step = step, !.op = op, !.n = writes + 1, !.seen = seen,
                             !.batch = [key : keys, write : {writes + 1}]]]
    /\ writes' = writes + 1
    /\ UNCHANGED <<dataset, orphans, faults, reader, committed, incidents>>

Begin(j) ==
    /\ Ask(j)
    /\ \E op \in Operations \ ReadFirst : NewWork(j, "start", op, {})

\* The rows are read without the lock.  (A read that fails ends the call.)
Look(j) ==
    /\ stage[j] = "out"
    /\ \E op \in Operations \cap ReadFirst : NewWork(j, "look", op, Rows(dataset.files))
    /\ UNCHANGED <<lock, stage, outdated, lapses>>

BeginSeen(j) ==
    /\ work[j].step = "look"
    /\ Ask(j)
    /\ work' = [work EXCEPT ![j].step = "start"]
    /\ UNCHANGED <<dataset, orphans, writes, faults, reader, committed, incidents>>

Lock(j) ==
    /\ \/ CreateLock(j) \/ WritePid(j) \/ StatLock(j)
       \/ JudgeStale(j) \/ JudgeLive(j) \/ BreakLock(j)
    /\ UNCHANGED <<dataset, work, orphans, writes, faults, reader, committed, incidents>>

\* The lock is not to be had.
NotLocked(j) ==
    /\ \/ GiveUp(j) /\ NoFault
       \/ WritePidFails(j) /\ Fault
    /\ work' = [work EXCEPT ![j] = NoWork]
    /\ UNCHANGED <<dataset, orphans, writes, reader, committed, incidents>>

Finish(j) ==
    /\ work[j].step = "leave"
    /\ Unlock(j)
    /\ work' = [work EXCEPT ![j] = NoWork]
    /\ UNCHANGED <<dataset, orphans, writes, faults, reader, committed, incidents>>

Age ==
    /\ LockAges
    /\ UNCHANGED <<dataset, work, orphans, writes, faults, reader, committed, incidents>>

------------------------------------------------------------------------------
(***************************************************************************)
(* Appending: a file per chunk, each written aside and renamed into place. *)
(***************************************************************************)
StartAppend(j) ==
    /\ At(j, {"append"}, "start")
    /\ Put(Directory(dataset.files, dataset.hidden))
    /\ work' = [work EXCEPT ![j].step = "chunks",
                            ![j].todo = Chunks("part", work[j].n, work[j].batch)]
    /\ NoFault
    /\ UNCHANGED <<lock, stage, outdated, lapses, orphans, writes, committed, incidents>>

AppendChunk(j) ==
    /\ At(j, {"append"}, "chunks")
    /\ \E f \in work[j].todo :
          /\ Put([dataset EXCEPT !.files = @ \cup {f}])
          /\ work' = [work EXCEPT ![j].todo = @ \ {f}]
          /\ committed' = committed \cup f.rows
    /\ NoFault
    /\ UNCHANGED <<lock, stage, outdated, lapses, orphans, writes, incidents>>

\* The chunks written before the failure stay.
AppendFails(j) ==
    /\ At(j, {"append"}, "chunks")
    /\ work[j].todo # {}
    /\ Fault
    /\ Leave(j)
    /\ Keep
    /\ UNCHANGED <<lock, stage, outdated, lapses, orphans, writes, committed, incidents>>

\* An append that leaves few enough files is over.
FinishAppend(j) ==
    /\ At(j, {"append"}, "chunks")
    /\ work[j].todo = {}
    /\ Cardinality(Sources) <= AutoCompactFiles
    /\ Leave(j)
    /\ Keep
    /\ NoFault
    /\ UNCHANGED <<lock, stage, outdated, lapses, orphans, writes, committed, incidents>>

------------------------------------------------------------------------------
(***************************************************************************)
(* Direct compaction, on its own or at the end of an append.               *)
(***************************************************************************)
DirectDue(j) ==
    \/ At(j, {"direct"}, "start")
    \/ At(j, {"append"}, "chunks") /\ work[j].todo = {} /\ Cardinality(Sources) > AutoCompactFiles

\* The append's compaction takes them all; the maintenance as many as it is told to, and
\* of a dataset with many compacted files of these too.
Batches(j) == {Sources} \cup (IF work[j].op = "direct" THEN SUBSET dataset.files ELSE {})

StageDirect(j) ==
    /\ DirectDue(j)
    /\ \E batch \in Batches(j) \ {{}} :
          LET outputs == Chunks("compact", work[j].n, Rows(batch)) IN
          /\ Put(Directory(dataset.files, dataset.hidden \cup outputs))
          /\ work' = [work EXCEPT ![j].step = "direct", ![j].todo = batch,
                                  ![j].staged = outputs]
    /\ NoFault
    /\ UNCHANGED <<lock, stage, outdated, lapses, orphans, writes, committed, incidents>>

UnlinkSource(j) ==
    /\ At(j, Appends, "direct")
    /\ \E f \in work[j].todo :
          /\ f \in dataset.files
          /\ Put([dataset EXCEPT !.files = @ \ {f}])
          /\ work' = [work EXCEPT ![j].todo = @ \ {f}]
    /\ NoFault
    /\ UNCHANGED <<lock, stage, outdated, lapses, orphans, writes, committed, incidents>>

\* The outputs move in before the sources are unlinked, as a repair does.
MoveBeforeUnlink(j) ==
    /\ At(j, Appends, "direct")
    /\ \E f \in work[j].staged \cap dataset.hidden :
          Put(Directory(dataset.files \cup {f}, dataset.hidden \ {f}))
    /\ NoFault
    /\ UNCHANGED <<lock, stage, outdated, lapses, work, orphans, writes, committed, incidents>>

MoveCompacted(j) ==
    /\ At(j, Appends, "direct")
    /\ work[j].todo = {}
    /\ \E f \in work[j].staged \cap dataset.hidden :
          Put(Directory(dataset.files \cup {f}, dataset.hidden \ {f}))
    /\ NoFault
    /\ UNCHANGED <<lock, stage, outdated, lapses, work, orphans, writes, committed, incidents>>

\* Nothing left to move, or nothing to compact.
FinishDirect(j) ==
    /\ \/ At(j, {"direct"}, "start") /\ Sources = {}
       \/ /\ At(j, Appends, "direct")
          /\ work[j].todo = {}
          /\ work[j].staged \cap dataset.hidden = {}
    /\ Leave(j)
    /\ Keep
    /\ NoFault
    /\ UNCHANGED <<lock, stage, outdated, lapses, orphans, writes, committed, incidents>>

\* Some rows are in the staged files only.
Unlinked(j) == ~(Rows(work[j].staged) \subseteq Rows(dataset.files))

\* Whatever fails, the staging directory is removed.
DirectFails(j) ==
    /\ At(j, Appends, "direct")
    /\ \/ Fault
       \/ ~(work[j].todo \subseteq dataset.files) /\ NoFault
    /\ Put([dataset EXCEPT !.hidden = @ \ work[j].staged])
    /\ incidents' = IF Unlinked(j) THEN incidents \cup {"direct"} ELSE incidents
    /\ Leave(j)
    /\ UNCHANGED <<lock, stage, outdated, lapses, orphans, writes, committed>>

------------------------------------------------------------------------------
(***************************************************************************)
(* The repair of the files in a bad partition directory: the repaired ones *)
(* are staged beside the dataset and moved in, then the bad ones unlinked. *)
(***************************************************************************)
StageRepair(j) ==
    /\ At(j, {"repair"}, "start")
    /\ \E bad \in (SUBSET Sources) \ {{}} :
          work' = [work EXCEPT ![j].step = "repair", ![j].todo = bad,
                               ![j].staged = Chunks("repair", work[j].n, Rows(bad))]
    /\ Keep
    /\ NoFault
    /\ UNCHANGED <<lock, stage, outdated, lapses, orphans, writes, committed, incidents>>

MoveRepaired(j) ==
    /\ At(j, {"repair"}, "repair")
    /\ \E f \in work[j].staged :
          /\ Put([dataset EXCEPT !.files = @ \cup {f}])
          /\ work' = [work EXCEPT ![j].staged = @ \ {f}]
    /\ NoFault
    /\ UNCHANGED <<lock, stage, outdated, lapses, orphans, writes, committed, incidents>>

UnlinkBad(j) ==
    /\ At(j, {"repair"}, "repair")
    /\ work[j].staged = {}
    /\ \E f \in work[j].todo :
          /\ Put([dataset EXCEPT !.files = @ \ {f}])
          /\ work' = [work EXCEPT ![j].todo = @ \ {f}]
    /\ NoFault
    /\ UNCHANGED <<lock, stage, outdated, lapses, orphans, writes, committed, incidents>>

\* Nothing is bad, or nothing is any more.
FinishRepair(j) ==
    /\ \/ At(j, {"repair"}, "start")
       \/ At(j, {"repair"}, "repair") /\ work[j].staged = {} /\ work[j].todo = {}
    /\ Leave(j)
    /\ Keep
    /\ NoFault
    /\ UNCHANGED <<lock, stage, outdated, lapses, orphans, writes, committed, incidents>>

\* The repair stops with rows in a repaired and in a bad file.
LeavesDoubled(j) == At(j, {"repair"}, "repair") /\ Doubled(dataset.files)

\* What has moved in stays.
RepairFails(j) ==
    /\ At(j, {"repair"}, "repair")
    /\ Fault
    /\ incidents' = IF LeavesDoubled(j) THEN incidents \cup {"repair"} ELSE incidents
    /\ Leave(j)
    /\ Keep
    /\ UNCHANGED <<lock, stage, outdated, lapses, orphans, writes, committed>>

------------------------------------------------------------------------------
(***************************************************************************)
(* Rewriting: upsert, replace and whole compaction, merges and seeds.      *)
(***************************************************************************)
\* An upsert keeps the last row of a key; a compaction keeps every row; a merge and a
\* seed go by what they have seen.
NewFiles(j) ==
    LET old == Rows(dataset.files) batch == work[j].batch IN
    CASE work[j].op = "upsert" -> {DataFile(Upserted(old, batch))}
      [] work[j].op = "replace" -> {DataFile(batch)}
      [] work[j].op = "merge" -> {DataFile(Upserted(work[j].seen, batch))}
      [] work[j].op = "seed" -> {DataFile(IF work[j].seen = {} THEN batch ELSE Upserted(old, batch))}
      [] work[j].op = "compact" -> Chunks("compact", work[j].n, old)

StageRewrite(j) ==
    /\ At(j, Rewrites, "start")
    /\ work[j].op = "compact" => dataset.files # {}
    /\ work' = [work EXCEPT ![j].step = "away", ![j].staged = NewFiles(j)]
    /\ Keep
    /\ NoFault
    /\ UNCHANGED <<lock, stage, outdated, lapses, orphans, writes, committed, incidents>>

\* The old directory is removed at once.
RemoveFirst(j) ==
    /\ At(j, Rewrites, "away")
    /\ work' = [work EXCEPT ![j].step = "in"]
    /\ Put(NoDirectory)
    /\ NoFault
    /\ UNCHANGED <<lock, stage, outdated, lapses, orphans, writes, committed, incidents>>

\* The old directory becomes the backup, if there is one.
MoveAway(j) ==
    /\ At(j, Rewrites, "away")
    /\ work' = [work EXCEPT ![j].step = "in", ![j].backup = dataset]
    /\ Put(NoDirectory)
    /\ NoFault
    /\ UNCHANGED <<lock, stage, outdated, lapses, orphans, writes, committed, incidents>>

\* rename(2) replaces an empty directory and no other; the staged directory must
\* still be there.
CanMoveIn(j) ==
    /\ dataset.files \cup dataset.hidden = {}
    /\ work[j].staged # {}

\* The rows the dataset had are not those that were read before the lock.
Overtaken(j) ==
    LET had == Rows(work[j].backup.files) IN
    \/ work[j].op = "merge" /\ had # work[j].seen
    \/ work[j].op = "seed" /\ work[j].seen = {} /\ had # {}

MoveIn(j) ==
    /\ At(j, Rewrites, "in")
    /\ CanMoveIn(j)
    /\ Put(Directory(work[j].staged, {}))
    /\ work' = [work EXCEPT ![j].step = "discard"]
    /\ committed' =
          CASE work[j].op \in {"upsert", "merge", "seed"} -> Upserted(committed, work[j].batch)
            [] work[j].op = "replace" -> work[j].batch
            [] work[j].op = "compact" -> committed
    /\ incidents' = IF Overtaken(j) THEN incidents \cup {"overtaken"} ELSE incidents
    /\ NoFault
    /\ UNCHANGED <<lock, stage, outdated, lapses, orphans, writes>>

\* The backup is removed; a failure to remove it is logged and no more.
DiscardBackup(j) ==
    /\ At(j, Rewrites, "discard")
    /\ \/ NoFault /\ UNCHANGED orphans
       \/ Fault /\ Abandon(j)
    /\ Leave(j)
    /\ Keep
    /\ UNCHANGED <<lock, stage, outdated, lapses, writes, committed, incidents>>

\* A failure before anything moved, or nothing to compact.
GiveUpRewrite(j) ==
    /\ \/ At(j, Rewrites, "away") /\ Fault
       \/ At(j, {"compact"}, "start") /\ dataset.files = {} /\ NoFault
    /\ Leave(j)
    /\ Keep
    /\ UNCHANGED <<lock, stage, outdated, lapses, orphans, writes, committed, incidents>>

\* The staged directory does not move in.  A compaction leaves it at that; the
\* other operations put the backup back.
MoveInFails(j) ==
    /\ At(j, Rewrites, "in")
    /\ \/ Fault
       \/ ~CanMoveIn(j) /\ NoFault
    /\ Keep
    /\ IF work[j].op = "compact"
       THEN /\ Abandon(j)
            /\ incidents' = incidents \cup {"compact"}
            /\ Leave(j)
       ELSE /\ work' = [work EXCEPT ![j].step = "restore", ![j].staged = {}]
            /\ UNCHANGED <<orphans, incidents>>
    /\ UNCHANGED <<lock, stage, outdated, lapses, writes, committed>>

\* The backup is not put back.
LeaveBackup(j) ==
    /\ At(j, Rewrites, "restore")
    /\ Keep
    /\ Abandon(j)
    /\ Leave(j)
    /\ NoFault
    /\ UNCHANGED <<lock, stage, outdated, lapses, writes, committed, incidents>>

Restore(j) ==
    /\ At(j, Rewrites, "restore")
    /\ IF work[j].backup.there /\ ~dataset.there
       THEN Put(work[j].backup) /\ UNCHANGED orphans
       ELSE Keep /\ Abandon(j)
    /\ Leave(j)
    /\ NoFault
    /\ UNCHANGED <<lock, stage, outdated, lapses, writes, committed, incidents>>

\* Both attempts to put the backup back fail.
RestoreFails(j) ==
    /\ At(j, Rewrites, "restore")
    /\ work[j].backup.there /\ ~dataset.there
    /\ Fault
    /\ Keep
    /\ Abandon(j)
    /\ incidents' = incidents \cup {"restore"}
    /\ Leave(j)
    /\ UNCHANGED <<lock, stage, outdated, lapses, writes, committed>>

------------------------------------------------------------------------------
(***************************************************************************)
(* A job is killed: the units and timeout(1) around the maintenance do it. *)
(* What it staged inside the dataset stays there; its backup stays too, as *)
(* nothing but the job that made a backup ever looks at it.                *)
(***************************************************************************)
Crash(j) ==
    /\ Cardinality({i \in Jobs : Dead(i)}) < MaxCrashes
    /\ Die(j)
    /\ Abandon(j)
    /\ incidents' = incidents
          \cup (IF At(j, Appends, "direct") /\ Unlinked(j) THEN {"direct"} ELSE {})
          \cup (IF work[j].backup.there /\ ~dataset.there THEN {"crash"} ELSE {})
          \cup (IF LeavesDoubled(j) THEN {"repair"} ELSE {})
    /\ work' = [work EXCEPT ![j] = NoWork]
    /\ UNCHANGED <<dataset, writes, faults, reader, committed>>

------------------------------------------------------------------------------
(***************************************************************************)
(* Readers list the files, look at the first and last bytes of each, then  *)
(* read them one by one.  A file that has gone before the look is passed   *)
(* over, one that goes after it fails the read.                            *)
(***************************************************************************)
ListFiles(r) ==
    /\ reader[r].at = "idle"
    /\ reader' = [reader EXCEPT ![r] =
          [IdleReader EXCEPT !.at = "reading", !.listed = NamesThere,
                             !.first = dataset.files,
                             !.moments = {Rows(dataset.files)},
                             !.doubled = Doubled(dataset.files)]]
    /\ UNCHANGED <<lock, stage, outdated, lapses, dataset, work, orphans, writes, faults,
                   committed, incidents>>

CheckFile(r) ==
    /\ \E name \in reader[r].listed :
          reader' = [reader EXCEPT ![r].listed = @ \ {name},
                                   ![r].todo = @ \cup ({name} \cap NamesThere),
                                   ![r].passed = @ \/ name \notin NamesThere]
    /\ UNCHANGED <<lock, stage, outdated, lapses, dataset, work, orphans, writes, faults,
                   committed, incidents>>

ReadFile(r) ==
    /\ reader[r].at = "reading"
    /\ reader[r].listed = {}
    /\ \E f \in dataset.files :
          /\ f.name \in reader[r].todo
          /\ reader' = [reader EXCEPT ![r].todo = @ \ {f.name}, ![r].got = @ \cup f.rows,
                                      ![r].twice = @ \/ reader[r].got \cap f.rows # {},
                                      ![r].mixed = @ \/ (reader[r].got # {} /\ f \notin reader[r].first)]
    /\ UNCHANGED <<lock, stage, outdated, lapses, dataset, work, orphans, writes, faults,
                   committed, incidents>>

\* (a mutant: files that go after the look are passed over as well)
SkipMissing(r) ==
    /\ reader[r].at = "reading"
    /\ reader[r].listed = {}
    /\ reader[r].todo \cap NamesThere = {}
    /\ reader' = [reader EXCEPT ![r].at = "done"]
    /\ UNCHANGED <<lock, stage, outdated, lapses, dataset, work, orphans, writes, faults,
                   committed, incidents>>

\* All is read, or a file is missing.
EndRead(r) ==
    /\ reader[r].at = "reading"
    /\ reader[r].listed = {}
    /\ \/ /\ reader[r].todo = {}
          /\ reader' = [reader EXCEPT ![r].at = "done"]
       \/ /\ ~(reader[r].todo \subseteq NamesThere)
          /\ reader' = [reader EXCEPT ![r] = IdleReader]
    /\ UNCHANGED <<lock, stage, outdated, lapses, dataset, work, orphans, writes, faults,
                   committed, incidents>>

UseRows(r) ==
    /\ reader[r].at = "done"
    /\ reader' = [reader EXCEPT ![r] = IdleReader]
    /\ UNCHANGED <<lock, stage, outdated, lapses, dataset, work, orphans, writes, faults,
                   committed, incidents>>

------------------------------------------------------------------------------
JobStep(j) ==
    \/ Begin(j) \/ Look(j) \/ BeginSeen(j) \/ Lock(j) \/ NotLocked(j) \/ Finish(j)
    \/ StartAppend(j) \/ AppendChunk(j) \/ AppendFails(j) \/ FinishAppend(j)
    \/ StageDirect(j) \/ UnlinkSource(j) \/ MoveCompacted(j) \/ FinishDirect(j)
    \/ DirectFails(j)
    \/ StageRepair(j) \/ MoveRepaired(j) \/ UnlinkBad(j) \/ FinishRepair(j) \/ RepairFails(j)
    \/ StageRewrite(j) \/ MoveAway(j) \/ MoveIn(j) \/ DiscardBackup(j)
    \/ GiveUpRewrite(j) \/ MoveInFails(j) \/ Restore(j) \/ RestoreFails(j)
    \/ Crash(j)

StoreNext ==
    \/ \E j \in Jobs : JobStep(j)
    \/ \E r \in Readers : ListFiles(r) \/ CheckFile(r) \/ ReadFile(r) \/ EndRead(r) \/ UseRows(r)
    \/ Age

StoreSpec == StoreInit /\ [][StoreNext]_storeVars

(***************************************************************************)
(* The cleanup at the end of the compaction script                         *)
(* (deploy/scripts/compact_lake_hot_datasets.sh): it removes backups and   *)
(* the staging directories of compactions, whoever is using them.          *)
(***************************************************************************)
Cleanup ==
    /\ orphans' = {}
    /\ work' = [j \in Jobs |->
          [work[j] EXCEPT !.backup = NoDirectory,
                          !.staged = IF work[j].op \in Rewrites \ {"compact"} THEN @ ELSE {}]]
    /\ Put([dataset EXCEPT !.hidden = {}])
    /\ UNCHANGED <<lock, stage, outdated, lapses, writes, faults, committed, incidents>>

CleanedSpec == StoreInit /\ [][StoreNext \/ Cleanup]_storeVars

------------------------------------------------------------------------------
AllKinds == {"data", "part", "compact", "repair"}
RowSet == [key : Keys, write : 1..MaxWrites]

IsFile(f) ==
    /\ f.name[1] \in AllKinds
    /\ f.rows \subseteq RowSet
    /\ f.rows # {}

IsDirectory(d) ==
    /\ DOMAIN d = {"there", "files", "hidden"}
    /\ \A f \in d.files \cup d.hidden : IsFile(f)
    /\ d.there \/ d = NoDirectory

\* A dataset holds files only while its directory is there, whatever is renamed
\* or unlinked, and the files hold rows somebody wrote.
StoreTypeOK ==
    /\ LockTypeOK
    /\ IsDirectory(dataset)
    /\ \A j \in Jobs :
          /\ work[j].batch \cup work[j].seen \subseteq RowSet
          /\ IsDirectory(work[j].backup)
          /\ \A f \in work[j].todo \cup work[j].staged : IsFile(f)
    /\ \A d \in orphans : IsDirectory(d) /\ d.there
    /\ writes \in 0..MaxWrites
    /\ faults \in 0..MaxFaults
    /\ \A r \in Readers : reader[r].got \subseteq RowSet
    /\ committed \subseteq RowSet
    /\ incidents \subseteq {"direct", "compact", "restore", "crash", "repair", "overtaken"}

\* The rows that are in the dataset, in a staging directory inside it, or in a
\* backup on disk.
RowsOnDisk ==
    AllRows(dataset)
      \cup (UNION {AllRows(work[j].backup) : j \in Jobs})
      \cup (UNION {AllRows(d) : d \in orphans})

\* Killing jobs and failing system calls at any point loses no committed row from
\* the disk until the lock lapses, except where a direct compaction stops between
\* unlinking its sources and moving its outputs in (lake.py 641-662), or where another
\* job wrote between the read of a merge and its lock (v5_reports.py 261-273,
\* ingest.py 2824-2826).
CommittedOnDisk ==
    lapses = {} /\ {"direct", "overtaken"} \cap incidents = {} => committed \subseteq RowsOnDisk

\* With no job at work, readers find every committed row, unless a job was killed
\* or failed at one of the points that hide the dataset, or a merge was overtaken: the
\* rest of the failures leave it whole until the lock lapses
\* (tests/test_lake_resilience.py, "keeps previous data").
CommittedVisible ==
    lapses = {} /\ incidents \subseteq {"repair"} /\ (\A j \in Jobs : ~Holds(j))
        => committed \subseteq Rows(dataset.files)

\* Until the lock lapses no row is in two files readers see, at any step of any operation:
\* compaction removes its sources before its outputs appear, and a rewrite swaps whole
\* directories.  Only a repair (lake.py 732-740) shows rows twice, until it is over,
\* or for good if it stops in the middle.
NoDuplicates ==
    lapses # {} \/ "repair" \in incidents \/ (\E j \in Jobs : At(j, {"repair"}, "repair"))
        \/ ~Doubled(dataset.files)

\* A read that ends well returns what the dataset held at one moment of the read,
\* each row once, though it took no lock and files came and went meanwhile: unless
\* a repair showed a row twice meanwhile.  A read that passed over a file which had
\* gone before it was looked at (lake.py 1162, 1317-1319) returns some of the rows of
\* one moment, perhaps none of a dataset that never was empty.  One that had read other
\* files when a rewrite put its data.parquet in the place of the listed one returns that
\* one whole, with rows it replaced or rows it holds as well.  All this until the lock
\* lapses.
ReadIsOneMoment ==
    \A r \in Readers :
       lapses = {} /\ reader[r].at = "done" =>
          /\ \/ reader[r].got \in reader[r].moments
             \/ reader[r].passed /\ \E rows \in reader[r].moments : reader[r].got \subseteq rows
             \/ /\ reader[r].mixed
                /\ \E old, new \in reader[r].moments :
                      new \subseteq reader[r].got /\ reader[r].got \subseteq old \cup new
          /\ reader[r].twice => reader[r].doubled \/ reader[r].mixed

\* The cleanup leaves alone what a job at work has set aside
\* (docs/LAKE_OPTIMIZATION.md 39-41).
FreshPathsAvoided ==
    [][\A j \in Jobs :
          /\ work'[j].step = work[j].step
          /\ work[j].backup.there
          => work'[j].backup = work[j].backup]_storeVars
=============================================================================
