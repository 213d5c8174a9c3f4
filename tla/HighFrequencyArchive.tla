------------------------- MODULE HighFrequencyArchive -------------------------
(***************************************************************************)
(* The way of the high-frequency files to the NAS (deploy/nas_archive/     *)
(* pull_qyun2_high_frequency.sh and prune_verified_high_frequency_archive.py).*)
(*                                                                         *)
(* The hourly script of the cloud moves files that have cooled down into   *)
(* the archive, by the day they were written.  A job of the NAS takes each *)
(* day that is over: it lists the files with their hashes, copies them     *)
(* into a batch named after the list, and asks the cloud to remove the day *)
(* if it still is that list.  The removal is a process of its own on the   *)
(* cloud, under the lock of the hourly script, and outlives the connection *)
(* it was asked for over.                                                  *)
(*                                                                         *)
(* A file is a name with its hash, of one dataset; it never changes.  What *)
(* the NAS has of a file is an intact copy or none.                        *)
(***************************************************************************)
EXTENDS Naturals

CONSTANTS HotFiles,      \* the files
          FileDay,       \* the day each was last written
          LastDay,       \* a bound: the days
          Pruners,       \* the removals that may be under way
          NoPruner,
          MaxMishaps     \* a bound: runs that are cut short, copies that are damaged

Days == 1..LastDay

ASSUME ArchiveAssumption ==
    /\ LastDay \in Nat \ {0} /\ MaxMishaps \in Nat
    /\ FileDay \in [HotFiles -> Days]
    /\ NoPruner \notin Pruners \cup {"script", "nobody"}
    /\ {"script", "nobody"} \cap Pruners = {}

VARIABLES today,
          inLake,      \* the files that are in the lake still
          dayFiles,    \* archive/high_frequency: the files of each day
          tombstones,  \* what is left of the days being removed
          heavyLock,   \* who holds quant-lab-heavy.lock
          batches,     \* the finished batches of the NAS
          stages,      \* the unfinished ones
          pull,        \* the job of the NAS
          prunes,      \* the removals
          mishaps      \* how much has gone wrong

cloudFiles == <<inLake, dayFiles, tombstones>>
nasFiles == <<batches, stages>>
archiveVars == <<today, cloudFiles, heavyLock, nasFiles, pull, prunes, mishaps>>

NoPull == [at |-> "idle", days |-> {}, day |-> 0, list |-> {}, by |-> NoPruner]
NoPrune == [at |-> "none", day |-> 0, list |-> {}]

ArchiveInit ==
    /\ today = 1
    /\ inLake = HotFiles /\ dayFiles = [d \in Days |-> {}] /\ tombstones = [p \in Pruners |-> {}]
    /\ heavyLock = "nobody"
    /\ batches = {} /\ stages = {}
    /\ pull = NoPull /\ prunes = [p \in Pruners |-> NoPrune]
    /\ mishaps = 0

Mishap == mishaps < MaxMishaps /\ mishaps' = mishaps + 1

-----------------------------------------------------------------------------
(* The cloud: days pass, and the script moves files.                       *)

DayPasses ==
    /\ today < LastDay
    /\ today' = today + 1
    /\ UNCHANGED <<cloudFiles, heavyLock, nasFiles, pull, prunes, mishaps>>

ScriptRuns ==
    /\ \/ heavyLock = "nobody" /\ heavyLock' = "script"
       \/ heavyLock = "script" /\ heavyLock' = "nobody"
    /\ UNCHANGED <<today, cloudFiles, nasFiles, pull, prunes, mishaps>>

\* A file older than the hot hours, which are a day: its day may be one that the NAS
\* has begun with.
MoveToArchive(f) ==
    /\ heavyLock = "script"
    /\ f \in inLake /\ FileDay[f] < today
    /\ inLake' = inLake \ {f}
    /\ dayFiles' = [dayFiles EXCEPT ![FileDay[f]] = @ \cup {f}]
    /\ UNCHANGED <<today, tombstones, heavyLock, nasFiles, pull, prunes, mishaps>>

-----------------------------------------------------------------------------
(* The NAS: one run at a time, under a flock.                              *)

\* The run is over, with an error or without.
PullEnds == pull' = NoPull

StartPull ==
    /\ pull.at = "idle"
    /\ pull' = [NoPull EXCEPT !.at = "list", !.days = {d \in Days : d < today /\ dayFiles[d] # {}}]
    /\ UNCHANGED <<today, cloudFiles, heavyLock, nasFiles, prunes, mishaps>>

\* (a mutant: one batch for a day)
BatchOfDay(d, list) == {b \in batches : b.day = d}

Batch(d, list) == {b \in batches : b.day = d /\ b.list = list}
Stage(d, list) == {s \in stages : s.day = d /\ s.list = list}

NextDay == pull' = [NoPull EXCEPT !.at = "list", !.days = pull.days]

Begun(d, at) ==
    [at |-> at, days |-> pull.days \ {d}, day |-> d, list |-> dayFiles[d], by |-> NoPruner]

\* The list of the first day.  A batch of that name is compared, a stage of that
\* name is gone on with.  A day that is gone ends the run.  (Its directory is not left
\* empty: it is renamed as a whole.)
TakeList ==
    /\ pull.at = "list"
    /\ \/ pull.days = {} /\ PullEnds /\ UNCHANGED stages
       \/ \E d \in pull.days :
             /\ \A e \in pull.days : d <= e
             /\ \/ dayFiles[d] = {} /\ PullEnds /\ UNCHANGED stages
                \/ /\ dayFiles[d] # {} /\ Batch(d, dayFiles[d]) # {}
                   /\ pull' = Begun(d, "compare") /\ UNCHANGED stages
                \/ /\ dayFiles[d] # {} /\ Batch(d, dayFiles[d]) = {}
                   /\ pull' = Begun(d, "copy")
                   /\ stages' = IF Stage(d, dayFiles[d]) # {} THEN stages
                                ELSE stages \cup {[day |-> d, list |-> dayFiles[d], files |-> {}]}
    /\ UNCHANGED <<today, cloudFiles, heavyLock, batches, prunes, mishaps>>

\* rsync, retried: file by file from the day's directory.
CopyFile(f) ==
    /\ pull.at = "copy"
    /\ \E s \in Stage(pull.day, pull.list) :
          /\ f \in pull.list \ s.files
          /\ f \in dayFiles[pull.day]
          /\ stages' = (stages \ {s}) \cup {[s EXCEPT !.files = @ \cup {f}]}
    /\ UNCHANGED <<today, cloudFiles, heavyLock, batches, pull, prunes, mishaps>>

\* The attempts are used up because the day is gone.
CopyFails ==
    /\ pull.at = "copy"
    /\ \E s \in Stage(pull.day, pull.list) : ~(pull.list \subseteq s.files \cup dayFiles[pull.day])
    /\ PullEnds
    /\ UNCHANGED <<today, cloudFiles, heavyLock, nasFiles, prunes, mishaps>>

\* The copy is hashed and compared with the list, gets its receipt and its name.
FinishBatch ==
    /\ pull.at = "copy"
    /\ \E s \in Stage(pull.day, pull.list) :
          /\ s.files = pull.list
          /\ stages' = stages \ {s}
          /\ batches' = batches \cup {s}
    /\ pull' = [pull EXCEPT !.at = "ask"]
    /\ UNCHANGED <<today, cloudFiles, heavyLock, prunes, mishaps>>

\* The hashes of a batch that is there already.
CompareBatch ==
    /\ pull.at = "compare"
    /\ IF \E b \in Batch(pull.day, pull.list) : b.files = pull.list
         THEN pull' = [pull EXCEPT !.at = "ask"]
         ELSE PullEnds
    /\ UNCHANGED <<today, cloudFiles, heavyLock, nasFiles, prunes, mishaps>>

\* ssh ... prune_verified_high_frequency_archive.py, and what it answers.
AskToPrune(p) ==
    /\ pull.at = "ask" /\ prunes[p].at = "none"
    /\ prunes' = [prunes EXCEPT ![p] = [at |-> "lock", day |-> pull.day, list |-> pull.list]]
    /\ pull' = [pull EXCEPT !.at = "asked", !.by = p]
    /\ UNCHANGED <<today, cloudFiles, heavyLock, nasFiles, mishaps>>

\* The run, if it still waits for p, goes on with the next day or ends.
Answered(p) == IF pull.at = "asked" /\ pull.by = p THEN NextDay ELSE UNCHANGED pull
Refused(p) == IF pull.at = "asked" /\ pull.by = p THEN PullEnds ELSE UNCHANGED pull

\* The run is killed, loses its connection, or its disk is full.
PullStops ==
    /\ pull.at # "idle" /\ Mishap
    /\ PullEnds
    /\ UNCHANGED <<today, cloudFiles, heavyLock, nasFiles, prunes>>

\* A copy in a finished batch is damaged, between the runs.  (Nothing would notice it
\* between the comparison and the removal.)
CopyDamaged(f) ==
    /\ pull.at = "idle" /\ \A p \in Pruners : prunes[p].at \in {"none", "dead"}
    /\ Mishap
    /\ \E b \in batches : f \in b.files
          /\ batches' = (batches \ {b}) \cup {[b EXCEPT !.files = @ \ {f}]}
    /\ UNCHANGED <<today, cloudFiles, heavyLock, stages, pull, prunes>>

-----------------------------------------------------------------------------
(* The removal on the cloud: prune_verified_archive_day.                   *)

PruneEnds(p) == prunes' = [prunes EXCEPT ![p] = NoPrune]
Unlocked(p) == IF heavyLock = p THEN "nobody" ELSE heavyLock

PruneLocks(p) ==
    /\ prunes[p].at = "lock"
    /\ heavyLock = "nobody"
    /\ heavyLock' = p
    /\ prunes' = [prunes EXCEPT ![p].at = "check"]
    /\ UNCHANGED <<today, cloudFiles, nasFiles, pull, mishaps>>

\* heavy_lock_timeout, after ten minutes: the run goes on without the removal.
PruneLockTimeout(p) ==
    /\ prunes[p].at = "lock" /\ heavyLock # "nobody"
    /\ PruneEnds(p) /\ Answered(p)
    /\ UNCHANGED <<today, cloudFiles, heavyLock, nasFiles, mishaps>>

\* (a mutant: everything that was listed is there)
ListStillThere(p) == prunes[p].list \subseteq dayFiles[prunes[p].day]

\* The day is as it was listed, or the removal ends with an error.
SameList(p) == dayFiles[prunes[p].day] = prunes[p].list

PruneChecks(p) ==
    /\ prunes[p].at = "check"
    /\ IF SameList(p)
         THEN /\ prunes' = [prunes EXCEPT ![p].at = "rename"]
              /\ UNCHANGED <<heavyLock, pull>>
         ELSE PruneEnds(p) /\ Refused(p) /\ heavyLock' = Unlocked(p)
    /\ UNCHANGED <<today, cloudFiles, nasFiles, mishaps>>

PruneRenames(p) ==
    /\ prunes[p].at = "rename"
    /\ dayFiles' = [dayFiles EXCEPT ![prunes[p].day] = {}]
    /\ tombstones' = [tombstones EXCEPT ![p] = dayFiles[prunes[p].day]]
    /\ prunes' = [prunes EXCEPT ![p].at = "remove"]
    /\ UNCHANGED <<today, inLake, heavyLock, nasFiles, pull, mishaps>>

PruneRemoves(p, f) ==
    /\ prunes[p].at = "remove" /\ f \in tombstones[p]
    /\ tombstones' = [tombstones EXCEPT ![p] = @ \ {f}]
    /\ UNCHANGED <<today, inLake, dayFiles, heavyLock, nasFiles, pull, prunes, mishaps>>

PruneDone(p) ==
    /\ prunes[p].at = "remove" /\ tombstones[p] = {}
    /\ PruneEnds(p) /\ Answered(p) /\ heavyLock' = Unlocked(p)
    /\ UNCHANGED <<today, cloudFiles, nasFiles, mishaps>>

\* rmtree raises: what is left gets its name back.
RemovalFails(p) ==
    /\ prunes[p].at = "remove" /\ tombstones[p] # {} /\ Mishap
    /\ dayFiles' = [dayFiles EXCEPT ![prunes[p].day] = tombstones[p]]
    /\ tombstones' = [tombstones EXCEPT ![p] = {}]
    /\ PruneEnds(p) /\ Refused(p) /\ heavyLock' = Unlocked(p)
    /\ UNCHANGED <<today, inLake, nasFiles>>

\* The process dies, and the kernel releases the lock; a tombstone that is left is
\* nobody's any more (and stays in the model with a process that starts no more).
PruneDies(p) ==
    /\ prunes[p].at \notin {"none", "dead"} /\ Mishap
    /\ prunes' = [prunes EXCEPT ![p] = IF @.at = "remove" THEN [NoPrune EXCEPT !.at = "dead"]
                                       ELSE NoPrune]
    /\ Refused(p) /\ heavyLock' = Unlocked(p)
    /\ UNCHANGED <<today, cloudFiles, nasFiles>>

-----------------------------------------------------------------------------
PullGoesOn ==
    \/ TakeList \/ CopyFails \/ FinishBatch \/ CompareBatch
    \/ (\E f \in HotFiles : CopyFile(f)) \/ (\E p \in Pruners : AskToPrune(p))

PruneGoesOn(p) ==
    \/ PruneLocks(p) \/ PruneLockTimeout(p) \/ PruneChecks(p) \/ PruneRenames(p) \/ PruneDone(p)
    \/ \E f \in HotFiles : PruneRemoves(p, f)

ArchiveNext ==
    \/ DayPasses \/ ScriptRuns \/ \E f \in HotFiles : MoveToArchive(f)
    \/ StartPull \/ PullGoesOn \/ PullStops
    \/ \E f \in HotFiles : CopyDamaged(f)
    \/ \E p \in Pruners : PruneGoesOn(p) \/ RemovalFails(p) \/ PruneDies(p)

ArchiveSpec == ArchiveInit /\ [][ArchiveNext]_archiveVars

\* The NAS starts the job again and again; what was begun goes on.
ArchiveFairness ==
    /\ WF_archiveVars(StartPull) /\ WF_archiveVars(PullGoesOn)
    /\ \A p \in Pruners : WF_archiveVars(PruneGoesOn(p))
FairArchiveSpec == ArchiveSpec /\ ArchiveFairness

-----------------------------------------------------------------------------
(* What must hold.                                                         *)

Batches == [day : Days, list : SUBSET HotFiles, files : SUBSET HotFiles]
Pulls == [at : {"idle", "list", "copy", "compare", "ask", "asked"}, days : SUBSET Days,
          day : Nat, list : SUBSET HotFiles, by : Pruners \cup {NoPruner}]
Prunes == [at : {"none", "lock", "check", "rename", "remove", "dead"}, day : Nat,
           list : SUBSET HotFiles]

ArchiveTypeOK ==
    /\ today \in Days /\ mishaps \in 0..MaxMishaps
    /\ inLake \subseteq HotFiles
    /\ dayFiles \in [Days -> SUBSET HotFiles] /\ tombstones \in [Pruners -> SUBSET HotFiles]
    /\ heavyLock \in Pruners \cup {"script", "nobody"}
    /\ batches \subseteq Batches /\ stages \subseteq Batches
    /\ pull \in Pulls /\ prunes \in [Pruners -> Prunes]
    /\ pull.at \in {"copy", "compare", "ask", "asked"} => pull.day \in Days
    /\ \A p \in Pruners : prunes[p].at \notin {"none", "dead"} => prunes[p].day \in Days

OnCloud == {f \in HotFiles : f \in dayFiles[FileDay[f]] \/ \E p \in Pruners : f \in tombstones[p]}
OnNas == UNION {b.files : b \in batches}

\* The removal is safe, whatever the two machines, the hourly script and the processes
\* that outlive their connections do: see VerifiedRemoval.
Removal == INSTANCE VerifiedRemoval WITH onCloud <- OnCloud, onNas <- OnNas
RemovedOnceArchived == Removal!RemovalSpec

\* Again and again, the NAS has all that was moved into the archive of a day that is
\* over, also of a day that was archived before, unless a batch is damaged: that ends
\* every run.
Damaged == \E b \in batches : b.files # b.list
MovedIsArchived ==
    []<>(Damaged \/ \A f \in HotFiles :
                        f \in dayFiles[FileDay[f]] /\ FileDay[f] < today => f \in OnNas)
=============================================================================
