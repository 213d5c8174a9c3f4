--------------------------- MODULE RedactedArchive ---------------------------
(***************************************************************************)
(* The way of the redacted bundles to the NAS (deploy/nas_archive/         *)
(* pull_qyun2_redacted_v5.sh, verify_redacted_v5_archive_receipt.py and    *)
(* prune_verified_redacted_v5_archive.py).                                 *)
(*                                                                         *)
(* The ingestion of a bundle makes its directory under the day of the      *)
(* bundle, writes the redacted files, and packs them when all of it is in  *)
(* the lake (ingest.py archive_v5_bundle, _compact_redacted_files).  Which *)
(* day that is has nothing to do with when it happens.  A job of the NAS   *)
(* archives every day that is over, once, and has the days that are older  *)
(* than two removed on the cloud, if what is there still is what it has.   *)
(* The removal takes no lock and outlives the connection it was asked for  *)
(* over.                                                                   *)
(***************************************************************************)
EXTENDS Integers

CONSTANTS Redacted,      \* the bundles
          RedactedDay,   \* the day of each
          EndDay,        \* a bound: the days
          KeepDays,      \* QUANT_ARCHIVE_SOURCE_KEEP_DAYS
          Removers,      \* the removals that may be under way
          NoRemover,
          MaxTroubles    \* a bound: runs that are cut short, copies that are damaged

BundleDates == 1..EndDay

ASSUME RedactedAssumption ==
    /\ EndDay \in Nat \ {0} /\ MaxTroubles \in Nat /\ KeepDays \in Nat \ {0}
    /\ RedactedDay \in [Redacted -> BundleDates]
    /\ NoRemover \notin Removers

VARIABLES utc_day,
          form,        \* what there is of a bundle: "absent", "loose" or "packed" files
          day_dirs,    \* the directories of days on the cloud
          nasDone,     \* the days with a receipt on the NAS
          nasList,     \* their manifests
          nasCopy,     \* the files behind them that are intact
          nasRun,      \* the job of the NAS
          removals,    \* the removals
          troubles,    \* how much has gone wrong
          unseen       \* (auxiliary) bundles packed after their day was compared

cloudDays == <<form, day_dirs, unseen>>
nasDays == <<nasDone, nasList, nasCopy>>
redactedVars == <<utc_day, cloudDays, nasDays, nasRun, removals, troubles>>

Run(at, days, cutoff, day, list) ==
    [at |-> at, days |-> days, cutoff |-> cutoff, day |-> day, list |-> list, stage |-> {},
     by |-> NoRemover]
NoRun == Run("idle", {}, 0, 0, {})
NoRemoval == [at |-> "none", day |-> 0, list |-> {}]

RedactedInit ==
    /\ utc_day = 1
    /\ form = [b \in Redacted |-> "absent"] /\ day_dirs = {} /\ unseen = {}
    /\ nasDone = {}
    /\ nasList = [d \in BundleDates |-> {}] /\ nasCopy = [d \in BundleDates |-> {}]
    /\ nasRun = NoRun /\ removals = [p \in Removers |-> NoRemoval]
    /\ troubles = 0

Trouble == troubles < MaxTroubles /\ troubles' = troubles + 1

\* The files of a day, for its manifest: a directory without files is nothing.
OfDate(d) == {b \in Redacted : RedactedDay[b] = d}
Manifest(d) == {<<b, form[b]>> : b \in {c \in OfDate(d) : form[c] # "absent"}}

-----------------------------------------------------------------------------
(* The cloud.                                                              *)

NextDate ==
    /\ utc_day < EndDay
    /\ utc_day' = utc_day + 1
    /\ UNCHANGED <<cloudDays, nasDays, nasRun, removals, troubles>>

\* archive_v5_bundle, also of a bundle that is ingested already.
MakeBundleDir(b) ==
    /\ RedactedDay[b] <= utc_day
    /\ day_dirs' = day_dirs \cup {RedactedDay[b]}
    /\ UNCHANGED <<utc_day, form, unseen, nasDays, nasRun, removals, troubles>>

\* The redacted files, or those of an earlier try written again.
WriteRedacted(b) ==
    /\ RedactedDay[b] \in day_dirs /\ form[b] = "absent"
    /\ form' = [form EXCEPT ![b] = "loose"]
    /\ UNCHANGED <<utc_day, day_dirs, unseen, nasDays, nasRun, removals, troubles>>

\* _compact_redacted_files: nothing is packed that was removed meanwhile.
PackRedacted(b) ==
    /\ form[b] = "loose"
    /\ form' = [form EXCEPT ![b] = "packed"]
    /\ unseen' = IF \E p \in Removers : removals[p].at = "remove" /\ removals[p].day = RedactedDay[b]
                   THEN unseen \cup {b} ELSE unseen
    /\ UNCHANGED <<utc_day, day_dirs, nasDays, nasRun, removals, troubles>>

-----------------------------------------------------------------------------
(* The NAS: one run at a time, under a flock; any error ends the run.      *)

RunEnds == nasRun' = NoRun

StartRun ==
    /\ nasRun.at = "idle"
    /\ nasRun' = Run("day", {d \in day_dirs : d < utc_day}, utc_day - (KeepDays - 1), 0, {})
    /\ UNCHANGED <<utc_day, cloudDays, nasDays, removals, troubles>>

BegunRun(at, d) == Run(at, nasRun.days \ {d}, nasRun.cutoff, d, Manifest(d))

\* A day without a receipt is copied into an empty stage, against its list.
BeginDay ==
    /\ nasRun.at = "day"
    /\ \/ nasRun.days = {} /\ RunEnds
       \/ \E d \in nasRun.days :
             /\ \A e \in nasRun.days : d <= e
             /\ nasRun' = IF d \in nasDone THEN BegunRun("keep", d)
                          ELSE IF d \in day_dirs THEN BegunRun("copy", d) ELSE NoRun
    /\ UNCHANGED <<utc_day, cloudDays, nasDays, removals, troubles>>

CopyBundle(b) ==
    /\ nasRun.at = "copy" /\ b \in OfDate(nasRun.day) /\ form[b] # "absent"
    /\ \A f \in nasRun.stage : f[1] # b
    /\ nasRun' = [nasRun EXCEPT !.stage = @ \cup {<<b, form[b]>>}]
    /\ UNCHANGED <<utc_day, cloudDays, nasDays, removals, troubles>>

\* A day without files has no lines in its list, as its copy has none: it gets a
\* receipt too, which the verification refuses for ever.
CopyIsTheList == nasRun.stage = nasRun.list

FinishCopy ==
    /\ nasRun.at = "copy"
    /\ \A b \in OfDate(nasRun.day) : form[b] # "absent" => \E f \in nasRun.stage : f[1] = b
    /\ IF CopyIsTheList
         THEN /\ nasDone' = nasDone \cup {nasRun.day}
              /\ nasList' = [nasList EXCEPT ![nasRun.day] = nasRun.list]
              /\ nasCopy' = [nasCopy EXCEPT ![nasRun.day] = nasRun.stage]
              /\ nasRun' = [nasRun EXCEPT !.at = "keep"]
         ELSE RunEnds /\ UNCHANGED nasDays
    /\ UNCHANGED <<utc_day, cloudDays, removals, troubles>>

NextOfRun == Run("day", nasRun.days, nasRun.cutoff, 0, {})

\* A day that the cloud keeps is done with.
KeepDay ==
    /\ nasRun.at = "keep" /\ nasRun.day >= nasRun.cutoff
    /\ nasRun' = NextOfRun
    /\ UNCHANGED <<utc_day, cloudDays, nasDays, removals, troubles>>

\* (a mutant: the receipt and its manifest are not compared with the files)
ReceiptVerified(d) == nasList[d] # {}

\* verify_redacted_archive_receipt, every file of the archived day.
CopyVerified(d) == nasList[d] # {} /\ nasCopy[d] = nasList[d]

\* ssh ... prune_verified_redacted_v5_archive.py
AskForRemoval(p) ==
    /\ nasRun.at = "keep" /\ nasRun.day < nasRun.cutoff
    /\ removals[p].at = "none"
    /\ IF CopyVerified(nasRun.day)
         THEN /\ removals' = [removals EXCEPT ![p] = [at |-> "compare", day |-> nasRun.day,
                                                      list |-> nasList[nasRun.day]]]
              /\ nasRun' = [nasRun EXCEPT !.at = "asked", !.by = p]
         ELSE RunEnds /\ UNCHANGED removals
    /\ UNCHANGED <<utc_day, cloudDays, nasDays, troubles>>

WaitsFor(p) == nasRun.at = "asked" /\ nasRun.by = p
RunGoesOn(p) == nasRun' = IF WaitsFor(p) THEN NextOfRun ELSE nasRun

\* (a mutant: a connection that is gone is waited for)
HangsOn(p) == nasRun' = nasRun

RunFailsOn(p) == nasRun' = IF WaitsFor(p) THEN NoRun ELSE nasRun

\* The run is killed or loses its connection.
RunStops ==
    /\ nasRun.at # "idle" /\ Trouble
    /\ RunEnds
    /\ UNCHANGED <<utc_day, cloudDays, nasDays, removals>>

\* A file of an archived day goes bad, while nothing is being removed for its sake.
ArchiveDamaged(d) ==
    /\ nasRun.at = "idle" /\ \A p \in Removers : removals[p].at = "none"
    /\ Trouble
    /\ \E f \in nasCopy[d] : nasCopy' = [nasCopy EXCEPT ![d] = @ \ {f}]
    /\ UNCHANGED <<utc_day, cloudDays, nasDone, nasList, nasRun, removals>>

-----------------------------------------------------------------------------
(* The removal on the cloud: prune_verified_redacted_day.                  *)

Forgotten(p) == removals' = [removals EXCEPT ![p] = NoRemoval]
Without(bundles) == [b \in Redacted |-> IF b \in bundles THEN "absent" ELSE form[b]]

CompareDay(p) ==
    /\ removals[p].at = "compare"
    /\ IF removals[p].day \in day_dirs /\ Manifest(removals[p].day) = removals[p].list
         THEN removals' = [removals EXCEPT ![p].at = "remove"] /\ UNCHANGED nasRun
         ELSE Forgotten(p) /\ RunFailsOn(p)
    /\ UNCHANGED <<utc_day, cloudDays, nasDays, troubles>>

\* rmtree, whatever is there by now.
RemoveDay(p) ==
    /\ removals[p].at = "remove"
    /\ form' = Without(OfDate(removals[p].day))
    /\ day_dirs' = day_dirs \ {removals[p].day}
    /\ Forgotten(p)
    /\ IF removals[p].day \in day_dirs THEN RunGoesOn(p) ELSE RunFailsOn(p)
    /\ UNCHANGED <<utc_day, unseen, nasDays, troubles>>

\* The process dies or fails before, or part of the way.
RemovalDies(p) ==
    /\ removals[p].at # "none" /\ Trouble
    /\ IF removals[p].at = "remove"
         THEN \E gone \in SUBSET OfDate(removals[p].day) : form' = Without(gone)
         ELSE UNCHANGED form
    /\ Forgotten(p) /\ RunFailsOn(p)
    /\ UNCHANGED <<utc_day, day_dirs, unseen, nasDays>>

-----------------------------------------------------------------------------
RunStep ==
    \/ BeginDay \/ FinishCopy \/ KeepDay
    \/ (\E b \in Redacted : CopyBundle(b)) \/ (\E p \in Removers : AskForRemoval(p))

RemovalStep(p) == CompareDay(p) \/ RemoveDay(p)

RedactedNext ==
    \/ NextDate
    \/ \E b \in Redacted : MakeBundleDir(b) \/ WriteRedacted(b) \/ PackRedacted(b)
    \/ StartRun \/ RunStep \/ RunStops \/ \E d \in BundleDates : ArchiveDamaged(d)
    \/ \E p \in Removers : RemovalStep(p) \/ RemovalDies(p)

RedactedSpec == RedactedInit /\ [][RedactedNext]_redactedVars

\* The NAS starts the job again and again; what was begun goes on.
RedactedFairness ==
    /\ WF_redactedVars(StartRun) /\ WF_redactedVars(RunStep)
    /\ \A p \in Removers : WF_redactedVars(RemovalStep(p))
FairRedactedSpec == RedactedSpec /\ RedactedFairness

-----------------------------------------------------------------------------
(* What must hold.                                                         *)

DayLists == SUBSET (Redacted \X {"loose", "packed"})
NasRuns == [at : {"idle", "day", "copy", "keep", "asked"}, days : SUBSET BundleDates, cutoff : Int,
         day : Nat, list : DayLists, stage : DayLists, by : Removers \cup {NoRemover}]
NasRemovals == [at : {"none", "compare", "remove"}, day : Nat, list : DayLists]

RedactedTypeOK ==
    /\ utc_day \in BundleDates /\ troubles \in 0..MaxTroubles
    /\ form \in [Redacted -> {"absent", "loose", "packed"}]
    /\ day_dirs \subseteq BundleDates /\ nasDone \subseteq BundleDates /\ unseen \subseteq Redacted
    /\ nasList \in [BundleDates -> DayLists] /\ nasCopy \in [BundleDates -> DayLists]
    /\ nasRun \in NasRuns /\ removals \in [Removers -> NasRemovals]
    /\ nasRun.at \in {"copy", "keep", "asked"} => nasRun.day \in BundleDates
    /\ \A p \in Removers : removals[p].at # "none" => removals[p].day \in BundleDates

PackedOnCloud == {b \in Redacted : form[b] = "packed"} \ unseen
PackedOnNas == {b \in Redacted : <<b, "packed">> \in nasCopy[RedactedDay[b]]}

\* A bundle that is redacted and packed is removed from the cloud only when the NAS has
\* it, see VerifiedRemoval; but for one that is packed while its day is being removed:
\* nothing keeps the ingestion away between the comparison and the removal.
RedactedRemoval == INSTANCE VerifiedRemoval WITH onCloud <- PackedOnCloud, onNas <- PackedOnNas
RedactedRemovedOnceArchived == RedactedRemoval!RemovalSpec

\* A day that is not what the NAS has of it, or has nothing in it, ends every run.
Stuck ==
    \E d \in nasDone \cap day_dirs :
        nasList[d] = {} \/ nasCopy[d] # nasList[d] \/ nasList[d] # Manifest(d)

\* Again and again, the NAS has every bundle of a day that is over that is packed, unless
\* the run is stuck at a day that was archived already.
PackedIsArchived ==
    []<>(Stuck \/ \A b \in Redacted :
                      form[b] = "packed" /\ RedactedDay[b] < utc_day => b \in PackedOnNas \cup unseen)
=============================================================================
