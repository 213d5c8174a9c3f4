-------------------------- MODULE TelemetryBundles --------------------------
(***************************************************************************)
(* The V5 telemetry bundles: pulled into an inbox from the V5 host         *)
(* (strategy_telemetry/remote_pull.py), archived and written into the lake *)
(* (ingest.py), and removed by the retention job (retention.py).           *)
(*                                                                         *)
(* The deployment runs one sync at a time, under two locks, every ten      *)
(* minutes: it pulls at most the newest bundle, looks at the newest of the *)
(* inbox only and ingests it.  The retention job takes the same lock, so   *)
(* it runs between two syncs.  A run may be killed between any two of its  *)
(* writes (`timeout 15m`, memory, an error); nothing but the files and     *)
(* the lake survives it.                                                   *)
(*                                                                         *)
(* Bundles are numbered in the order of the time in their names.  The      *)
(* sixty silver datasets are four here: one per way of writing them that   *)
(* tells a repeated or late bundle apart.                                  *)
(***************************************************************************)
EXTENDS Naturals, FiniteSets

CONSTANTS MaxBundle,       \* a bound: V5 publishes this many bundles
          MaxInterrupts,   \* a bound: this many runs are cut short
          Events,          \* the events and rows the bundles report
          Reports,         \* what each bundle reports; the windows overlap
          DayOf            \* the day in the name of a bundle

Bundles == 1..MaxBundle

ASSUME BundleAssumption ==
    /\ MaxBundle \in Nat /\ MaxInterrupts \in Nat
    /\ Reports \in [Bundles -> SUBSET Events]
    /\ DayOf \in [Bundles -> Nat]

VARIABLES produced,     \* the newest bundle on the V5 host, 0 before the first
          inbox,        \* the copy of each bundle in the inbox
          restricted,   \* the bundles with a raw copy in the restricted archive
          indexed,      \* how many times raw_file_index lists a bundle's files
          counted,      \* the event datasets: source_count, and the latest bundle
          stable,       \* the stable-key datasets: the bundle that wrote a row, or 0
          snapshot,     \* the *_current datasets: the bundle they are of, or 0
          manifest,     \* the bundles bundle_manifest lists
          step,         \* what the sync run does next
          bundle,       \* the bundle it ingests
          interrupts,   \* how many runs were cut short
          received,     \* auxiliary: every bundle that once arrived whole
          written,      \* auxiliary: every bundle whose events were written
          late,         \* auxiliary: the bundles written after a newer one
          outOfTurn     \* auxiliary: those of them that were written before, too

sources == <<produced, inbox, restricted, received>>
silver == <<counted, stable, snapshot>>
syncRun == <<step, bundle>>
outcomes == <<written, late, outOfTurn>>
bundleVars == <<sources, indexed, silver, manifest, syncRun, interrupts, outcomes>>

Steps == {"idle", "scan", "archive", "bronze", "events", "stable", "snapshot", "commit"}

BundlesInit ==
    /\ produced = 0 /\ inbox = [b \in Bundles |-> "absent"]
    /\ restricted = {} /\ received = {}
    /\ indexed = [b \in Bundles |-> 0]
    /\ counted = [e \in Events |-> [source_count |-> 0, latest |-> 0]]
    /\ stable = [e \in Events |-> 0] /\ snapshot = 0
    /\ manifest = {}
    /\ step = "idle" /\ bundle = 0
    /\ interrupts = 0 /\ written = {} /\ late = {} /\ outOfTurn = {}

-----------------------------------------------------------------------------
(* The V5 host and the pull (remote_pull.py).                              *)

\* The host publishes its next bundle; the listing skips files younger than
\* a minute, so a listed bundle no longer grows.
V5Publishes ==
    /\ produced < MaxBundle
    /\ produced' = produced + 1
    /\ UNCHANGED <<inbox, restricted, received, indexed, silver, manifest, syncRun,
                   interrupts, outcomes>>

\* The pull: the newest listed bundle unless a file of that name is in the
\* inbox already (--ignore-existing).  A transfer cut short leaves what
\* arrived under the final name (--partial).  An unreachable host, a timeout
\* and an exit code are warnings; the sync goes on to the inbox.
Pull ==
    /\ step = "idle"
    /\ step' = "scan"
    /\ \/ UNCHANGED <<inbox, received>>
       \/ /\ produced \in Bundles /\ inbox[produced] = "absent"
          /\ \/ /\ inbox' = [inbox EXCEPT ![produced] = "whole"]
                /\ received' = received \cup {produced}
             \/ /\ inbox' = [inbox EXCEPT ![produced] = "partial"]
                /\ UNCHANGED received
    /\ UNCHANGED <<produced, restricted, indexed, silver, manifest, bundle,
                   interrupts, outcomes>>

-----------------------------------------------------------------------------
(* The ingest of the inbox (ingest.py).                                    *)

InInbox == {b \in Bundles : inbox[b] # "absent"}

\* The one file a run looks at: sorted by name, newest first, one scanned.
Scanned(b) == b \in InInbox /\ \A other \in InInbox : other <= b

\* (a mutant: the raw copy is taken as the proof of an ingest)
ArchivedBefore(b) == b \in restricted

\* A bundle is ingested when the manifest lists it.
AlreadyIngested(b) == b \in manifest

\* ingest_v5_inbox and the validation: a known bundle is skipped; a truncated
\* one raises (EOFError, which validate_v5_bundle does not catch) or is
\* rejected, before anything is written.
Scan ==
    /\ step = "scan"
    /\ IF \E b \in Bundles : Scanned(b) /\ ~AlreadyIngested(b) /\ inbox[b] = "whole"
         THEN step' = "archive" /\ \E b \in Bundles : Scanned(b) /\ bundle' = b
         ELSE step' = "idle" /\ UNCHANGED bundle
    /\ UNCHANGED <<sources, indexed, silver, manifest, interrupts, outcomes>>

\* archive_v5_bundle: the raw copy, made before the manifest is read again.
Archive ==
    /\ step = "archive"
    /\ restricted' = restricted \cup {bundle}
    /\ step' = IF bundle \in manifest THEN "idle" ELSE "bronze"
    /\ UNCHANGED <<produced, inbox, received, indexed, silver, manifest, bundle,
                   interrupts, outcomes>>

\* _append_rows of raw_file_index: nothing when the bundle is listed already.
AppendOnce(n) == IF n > 0 THEN n ELSE n + 1

Bronze ==
    /\ step = "bronze"
    /\ indexed' = [indexed EXCEPT ![bundle] = AppendOnce(@)]
    /\ step' = "events"
    /\ UNCHANGED <<sources, silver, manifest, bundle, interrupts, outcomes>>

Newer(a, b) == IF a < b THEN b ELSE a

MergeAgain(row, b) ==                     \* (a mutant: no look at the same bundle)
    [source_count |-> row.source_count + 1, latest |-> Newer(row.latest, b)]

\* _same_bundle_event_observation and _merge_event_row: the same bundle again
\* changes nothing; else the count grows and the newer bundle's row is kept.
MergeEventRow(row, b) ==
    IF row.latest = b THEN row
    ELSE [source_count |-> row.source_count + 1, latest |-> Newer(row.latest, b)]

\* _write_silver, the datasets with event keys.
WriteEvents ==
    /\ step = "events"
    /\ counted' = [e \in Events |->
                      IF e \in Reports[bundle] THEN MergeEventRow(counted[e], bundle) ELSE counted[e]]
    /\ written' = written \cup {bundle}
    /\ late' = late \cup {b \in {bundle} : \E n \in written : n > b}
    /\ outOfTurn' = outOfTurn \cup {b \in {bundle} \cap written : \E n \in written : n > b}
    /\ step' = "stable"
    /\ UNCHANGED <<sources, indexed, stable, snapshot, manifest, bundle, interrupts>>

\* (a mutant: a row that is there already is kept)
FirstRow(e) == IF e \in Reports[bundle] /\ stable[e] = 0 THEN bundle ELSE stable[e]

LastRow(e) == IF e \in Reports[bundle] THEN bundle ELSE stable[e]

\* _write_silver, the datasets with stable row keys: upserted, the last write wins.
WriteStable ==
    /\ step = "stable"
    /\ stable' = [e \in Events |-> LastRow(e)]
    /\ step' = "snapshot"
    /\ UNCHANGED <<sources, indexed, counted, snapshot, manifest, bundle, interrupts, outcomes>>

\* _write_silver, the *_current datasets: replaced as a whole.
WriteSnapshot ==
    /\ step = "snapshot"
    /\ snapshot' = bundle
    /\ step' = "commit"
    /\ UNCHANGED <<sources, indexed, counted, stable, manifest, bundle, interrupts, outcomes>>

\* _write_bundle_manifest: the last write of a run.
Commit ==
    /\ step = "commit"
    /\ manifest' = manifest \cup {bundle}
    /\ step' = "idle"
    /\ UNCHANGED <<sources, indexed, silver, bundle, interrupts, outcomes>>

\* The run ends before its next write.
Interrupt ==
    /\ step # "idle" /\ interrupts < MaxInterrupts
    /\ step' = "idle"
    /\ interrupts' = interrupts + 1
    /\ UNCHANGED <<sources, indexed, silver, manifest, bundle, outcomes>>

-----------------------------------------------------------------------------
(* The retention job (retention.py).  How old a copy is is left open: V5   *)
(* may have been silent for any number of days.                            *)

\* _load_ingested_bundle_sha256s: the bundles the job may remove.
Removable == manifest

\* _prune_ingested_inbox_files: the hash of a partial file is in no manifest.
RemoveInboxFile(b) ==
    /\ step = "idle"
    /\ inbox[b] = "whole" /\ b \in Removable
    /\ inbox' = [inbox EXCEPT ![b] = "absent"]
    /\ UNCHANGED <<produced, restricted, received, indexed, silver, manifest, syncRun,
                   interrupts, outcomes>>

OfDay(d) == {b \in restricted : DayOf[b] = d}

\* _prune_ingested_restricted_days: a day goes as a whole, once all its
\* bundles are in the manifest.
RemoveRestrictedDay(d) ==
    /\ step = "idle"
    /\ OfDay(d) # {} /\ OfDay(d) \subseteq Removable
    /\ restricted' = restricted \ OfDay(d)
    /\ UNCHANGED <<produced, inbox, received, indexed, silver, manifest, syncRun,
                   interrupts, outcomes>>

-----------------------------------------------------------------------------
Ingest == Archive \/ Bronze \/ WriteEvents \/ WriteStable \/ WriteSnapshot \/ Commit
Sync == Pull \/ Scan \/ Ingest
Retention == \/ \E b \in Bundles : RemoveInboxFile(b)
             \/ \E b \in Bundles : RemoveRestrictedDay(DayOf[b])

BundlesNext == V5Publishes \/ Sync \/ Interrupt \/ Retention

\* The timer starts a run ten minutes after the last one ended, and a run
\* goes on until it ends or is cut short.
BundlesFairness == WF_bundleVars(Sync)

BundlesSpec == BundlesInit /\ [][BundlesNext]_bundleVars
FairBundlesSpec == BundlesSpec /\ BundlesFairness

-----------------------------------------------------------------------------
(* Properties.                                                             *)

BundlesTypeOK ==
    /\ produced \in 0..MaxBundle
    /\ inbox \in [Bundles -> {"absent", "partial", "whole"}]
    /\ restricted \subseteq Bundles /\ received \subseteq Bundles
    /\ indexed \in [Bundles -> Nat]
    /\ counted \in [Events -> [source_count : Nat, latest : 0..MaxBundle]]
    /\ stable \in [Events -> 0..MaxBundle] /\ snapshot \in 0..MaxBundle
    /\ manifest \subseteq Bundles /\ written \subseteq Bundles
    /\ late \subseteq Bundles /\ outOfTurn \subseteq Bundles
    /\ step \in Steps /\ bundle \in 0..MaxBundle
    /\ step \notin {"idle", "scan"} => bundle \in Bundles
    /\ interrupts \in 0..MaxInterrupts

\* What a row, or a whole dataset, is of: b or a newer bundle, or one that came late.
IsOf(v, b, lateOnes) == v >= b \/ v \in lateOnes

InLake(b) ==
    /\ indexed[b] > 0 /\ IsOf(snapshot, b, late)
    /\ \A e \in Reports[b] : counted[e].latest >= b /\ IsOf(stable[e], b, late)

\* A bundle that once arrived is in the inbox, in the restricted archive, or
\* all it reports is in the lake: the retention job (retention.py:216-330)
\* goes by the manifest, which ingest_v5_bundle writes last (ingest.py:425),
\* and runs may be cut short anywhere between.
RawUntilIngested ==
    \A b \in received : inbox[b] = "whole" \/ b \in restricted \/ InLake(b)

\* What a bundle in the manifest reports is there: each event in the version of that
\* bundle or of a newer one (ingest.py:3104), each row and snapshot too, but where a
\* bundle that was written after a newer one has put its own (ingest.py:682-689).
NewestContent ==
    \A b \in manifest : InLake(b)

\* Nothing that arrived is lost, neither before the manifest lists it nor after: what the
\* retention job removes is in the lake, in no version older than it but that of a bundle
\* that came late (retention.py:188-249).
BundlesKept == RawUntilIngested /\ NewestContent

Having(e, bundles) == {b \in bundles : e \in Reports[b]}

\* However often a bundle is begun, and however late it comes, its files are listed
\* once and its events counted once (ingest.py:2803 and 3093,
\* tests/test_v5_telemetry_idempotency.py:221), unless it is begun again after a newer
\* one was written: only the bundle of the latest row is compared.
CountedOnce ==
    /\ \A b \in Bundles : indexed[b] <= 1
    /\ \A e \in Events :
          Having(e, outOfTurn) = {} =>
             counted[e].source_count = Cardinality(Having(e, written))

\* Again and again, what is whole in the inbox is ingested or has a newer one beside it
\* (ingest.py:515-525: only the newest is looked at).  That it does not leave the inbox
\* otherwise is BundlesKept.
IngestedOrOvertaken ==
    []<>(\A b \in Bundles :
            inbox[b] = "whole" => b \in manifest \/ \E n \in (b + 1)..MaxBundle : inbox[n] # "absent")
=============================================================================
