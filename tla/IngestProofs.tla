----------------------------- MODULE IngestProofs -----------------------------
(***************************************************************************)
(* The ways into the lake that keep what they have read: the telemetry     *)
(* bundles, for any number of bundles and interrupted runs, the websocket  *)
(* collector, for any messages, errors and size of the buffer, and the     *)
(* deepening of the bars' history, for any window and size of its pages.   *)
(***************************************************************************)
EXTENDS TelemetryBundles, WsCollector, HistoryBackfill, Integers, TLAPS, FiniteSetTheorems,
        WellFoundedInduction

(***************************************************************************)
(* The bundles.  A run has done what its earlier steps write, and nothing  *)
(* that is in the lake is ever taken back; so the manifest, which is       *)
(* written last, lists only what is all there.                             *)
(***************************************************************************)
RunProgress ==
    /\ step \in {"events", "stable", "snapshot", "commit"} => indexed[bundle] > 0
    /\ step \in {"stable", "snapshot", "commit"} =>
          /\ \A e \in Reports[bundle] : counted[e].latest >= bundle
          /\ bundle \in written /\ \A n \in written : n > bundle => bundle \in late
    /\ step \in {"snapshot", "commit"} => \A e \in Reports[bundle] : stable[e] = bundle
    /\ step = "commit" => snapshot = bundle

\* What the manifest lists was written, and what is not listed is kept in the raw.
RawKept ==
    /\ manifest \subseteq written
    /\ \A b \in received : inbox[b] = "whole" \/ b \in restricted \/ b \in manifest

\* An event of bundles that were not written out of turn has the latest of them, and
\* their number.
LatestWritten ==
    \A e \in Events :
       Having(e, outOfTurn) = {} =>
          /\ \A b \in Having(e, written) : b <= counted[e].latest
          /\ counted[e].latest \in Having(e, written) \cup {0}
          /\ counted[e].source_count = Cardinality(Having(e, written))

BundlesInv ==
    /\ BundlesTypeOK /\ RunProgress /\ NewestContent /\ RawKept
    /\ (\A b \in Bundles : indexed[b] <= 1) /\ LatestWritten

LEMMA BundlesInvInit == BundlesInit => BundlesInv
<1> SUFFICES ASSUME BundlesInit PROVE BundlesInv
  OBVIOUS
<1> USE BundleAssumption DEF BundlesInit
<1>1. BundlesTypeOK
  BY DEF BundlesTypeOK, Steps
<1>2. RunProgress /\ NewestContent /\ RawKept /\ \A b \in Bundles : indexed[b] <= 1
  BY DEF RunProgress, NewestContent, RawKept
<1>3. \A e : Having(e, written) = {}
  BY DEF Having
<1>4. LatestWritten
  BY <1>3, FS_EmptySet DEF LatestWritten
<1>5. QED
  BY <1>1, <1>2, <1>4 DEF BundlesInv

LEMMA MergedRow ==
  ASSUME NEW row \in [source_count : Nat, latest : 0..MaxBundle], NEW b \in Bundles
  PROVE  LET m == MergeEventRow(row, b) IN
         /\ m \in [source_count : Nat, latest : 0..MaxBundle]
         /\ m.latest >= b /\ m.latest >= row.latest
         /\ m.latest \in {b, row.latest}
         /\ m.source_count = IF row.latest = b THEN row.source_count ELSE row.source_count + 1
BY BundleAssumption DEF MergeEventRow, Newer, Bundles

LEMMA BundlesTypeStep == BundlesTypeOK /\ [BundlesNext]_bundleVars => BundlesTypeOK'
<1> SUFFICES ASSUME BundlesTypeOK, [BundlesNext]_bundleVars PROVE BundlesTypeOK'
  OBVIOUS
<1> USE BundleAssumption DEF BundlesTypeOK, sources, silver, syncRun, outcomes, Steps
<1>1. CASE UNCHANGED bundleVars
  BY <1>1 DEF bundleVars
<1>2. CASE V5Publishes
  BY <1>2 DEF V5Publishes
<1>3. CASE Pull
  BY <1>3 DEF Pull
<1>4. CASE Scan
  <2>1. /\ UNCHANGED <<sources, indexed, silver, manifest, interrupts, outcomes>>
        /\ \/ step' = "archive" /\ bundle' \in Bundles
           \/ step' = "idle" /\ bundle' = bundle
    BY <1>4 DEF Scan
  <2>2. bundle' \in 0..MaxBundle
    BY <2>1 DEF Bundles
  <2>3. QED
    BY <2>1, <2>2
<1>5. CASE Archive
  BY <1>5 DEF Archive
<1>6. CASE Bronze
  BY <1>6 DEF Bronze, AppendOnce
<1>7. CASE WriteEvents
  <2>1. bundle \in Bundles
    BY <1>7 DEF WriteEvents
  <2>2. counted' \in [Events -> [source_count : Nat, latest : 0..MaxBundle]]
    BY <1>7, <2>1, MergedRow DEF WriteEvents
  <2>3. QED
    BY <1>7, <2>1, <2>2 DEF WriteEvents
<1>8. CASE WriteStable
  BY <1>8 DEF WriteStable, LastRow
<1>9. CASE WriteSnapshot
  BY <1>9 DEF WriteSnapshot
<1>10. CASE Commit
  BY <1>10 DEF Commit
<1>11. CASE Interrupt
  BY <1>11 DEF Interrupt
<1>12. ASSUME NEW b \in Bundles, RemoveInboxFile(b) PROVE BundlesTypeOK'
  BY <1>12 DEF RemoveInboxFile
<1>13. ASSUME NEW b \in Bundles, RemoveRestrictedDay(DayOf[b]) PROVE BundlesTypeOK'
  BY <1>13 DEF RemoveRestrictedDay
<1>14. QED
  BY <1>1, <1>2, <1>3, <1>4, <1>5, <1>6, <1>7, <1>8, <1>9, <1>10, <1>11, <1>12, <1>13
     DEF BundlesNext, Sync, Ingest, Retention

\* What is in the lake stays there: a row of a written bundle gives way to a newer one,
\* or to one that came late.
LakeKept ==
    /\ \A b \in Bundles : indexed[b] <= indexed'[b]
    /\ \A e \in Events : counted[e].latest <= counted'[e].latest
    /\ \A b \in written :
          /\ IsOf(snapshot, b, late) => IsOf(snapshot', b, late')
          /\ \A e \in Events : IsOf(stable[e], b, late) => IsOf(stable'[e], b, late')
    /\ written \subseteq written'

LEMMA StepKeepsLake ==
  ASSUME BundlesTypeOK, RunProgress, [BundlesNext]_bundleVars
  PROVE  LakeKept
<1> USE BundleAssumption DEF BundlesTypeOK, sources, silver, syncRun, outcomes, LakeKept
<1>0. /\ \A b \in Bundles : indexed[b] \in Nat
      /\ \A e \in Events : counted[e].latest \in Nat
  OBVIOUS
<1>1. ASSUME UNCHANGED <<indexed, counted, stable, snapshot, written, late>> PROVE LakeKept
  BY <1>0, <1>1
<1>2. CASE Bronze
  BY <1>0, <1>2 DEF Bronze, AppendOnce
<1>3. CASE WriteEvents
  <2>0. bundle \in Bundles
    BY <1>3 DEF WriteEvents
  <2>1. \A e \in Events : counted[e].latest <= counted'[e].latest
    BY <1>0, <1>3, <2>0, MergedRow DEF WriteEvents
  <2>2. UNCHANGED <<indexed, stable, snapshot>> /\ written \subseteq written' /\ late \subseteq late'
    BY <1>3 DEF WriteEvents
  <2>3. QED
    BY <1>0, <2>1, <2>2 DEF IsOf
<1>a. ASSUME step \in {"stable", "snapshot"}, NEW b \in written
      PROVE  IsOf(bundle, b, late)
  BY <1>a DEF RunProgress, IsOf, Bundles
<1>4. CASE WriteStable
  <2>1. UNCHANGED <<indexed, counted, snapshot, written, late>> /\ step = "stable"
    BY <1>4 DEF WriteStable
  <2>2. \A e \in Events : stable'[e] \in {bundle, stable[e]}
    BY <1>4 DEF WriteStable, LastRow
  <2>3. QED
    BY <1>0, <1>a, <2>1, <2>2
<1>5. CASE WriteSnapshot
  <2>1. UNCHANGED <<indexed, counted, stable, written, late>> /\ step = "snapshot"
        /\ snapshot' = bundle
    BY <1>5 DEF WriteSnapshot
  <2>2. QED
    BY <1>0, <1>a, <2>1
<1>6. ASSUME \/ V5Publishes \/ Pull \/ Scan \/ Archive \/ Commit \/ Interrupt \/ Retention
             \/ UNCHANGED bundleVars
      PROVE  UNCHANGED <<indexed, counted, stable, snapshot, written, late>>
  BY <1>6 DEF V5Publishes, Pull, Scan, Archive, Commit, Interrupt, Retention, RemoveInboxFile,
              RemoveRestrictedDay, bundleVars
<1>7. QED
  BY <1>1, <1>2, <1>3, <1>4, <1>5, <1>6 DEF BundlesNext, Sync, Ingest

LEMMA LakeStays ==
  ASSUME BundlesTypeOK, BundlesTypeOK', LakeKept, NEW b \in written, InLake(b)
  PROVE  InLake(b)'
<1>1. b \in Bundles /\ \A e \in Reports[b] : e \in Events
  BY BundleAssumption DEF BundlesTypeOK
<1>2. \A e \in Events : counted[e].latest \in Nat /\ counted'[e].latest \in Nat
  BY BundleAssumption DEF BundlesTypeOK
<1>3. b \in Nat /\ indexed[b] \in Nat /\ indexed'[b] \in Nat
  BY <1>1, BundleAssumption DEF BundlesTypeOK, Bundles
<1>4. indexed'[b] > 0 /\ \A e \in Reports[b] : counted'[e].latest >= b
  BY <1>1, <1>2, <1>3 DEF InLake, LakeKept
<1>5. QED
  BY <1>1, <1>4 DEF InLake, LakeKept

LEMMA ProgressStep ==
  ASSUME BundlesInv, BundlesTypeOK', [BundlesNext]_bundleVars, LakeKept
  PROVE  RunProgress' /\ NewestContent' /\ RawKept' /\ \A b \in Bundles : indexed'[b] <= 1
<1> USE BundleAssumption DEF BundlesInv, sources, silver, syncRun, outcomes
<1>0. /\ \A b \in Bundles : indexed[b] \in Nat /\ b \in Nat /\ b # 0
      /\ \A e \in Events : counted[e] \in [source_count : Nat, latest : 0..MaxBundle]
      /\ \A b \in Bundles : \A e \in Reports[b] : e \in Events
  BY DEF BundlesTypeOK, Bundles
<1>1. /\ written \subseteq written' /\ \A b \in manifest : b \in written
      /\ \A b \in manifest : InLake(b)'
  BY LakeStays DEF RawKept, LakeKept, NewestContent
<1>2. CASE WriteEvents
  <2>1. bundle \in Bundles /\ step = "events" /\ step' = "stable" /\ bundle' = bundle
    BY <1>2 DEF WriteEvents, BundlesTypeOK
  <2>2. UNCHANGED <<inbox, restricted, received, manifest, indexed>>
    BY <1>2 DEF WriteEvents
  <2>3. \A e \in Reports[bundle] : counted'[e].latest >= bundle
    BY <1>0, <1>2, <2>1, MergedRow DEF WriteEvents, BundlesTypeOK
  <2>a. bundle \in written' /\ \A n \in written' : n > bundle => bundle \in late'
    BY <1>0, <1>2, <2>1 DEF WriteEvents
  <2>4. RunProgress'
    BY <2>1, <2>2, <2>3, <2>a DEF RunProgress
  <2>5. NewestContent' /\ RawKept'
    BY <1>1, <2>2 DEF NewestContent, RawKept, BundlesTypeOK
  <2>6. QED
    BY <2>2, <2>4, <2>5
<1>3. CASE Bronze
  <2>1. bundle \in Bundles /\ step' = "events" /\ bundle' = bundle
    BY <1>3 DEF Bronze, BundlesTypeOK
  <2>2. UNCHANGED <<inbox, restricted, received, manifest>>
    BY <1>3 DEF Bronze
  <2>3. indexed'[bundle] > 0 /\ \A b \in Bundles : indexed'[b] <= 1
    BY <1>0, <1>3, <2>1 DEF Bronze, AppendOnce, BundlesTypeOK
  <2>4. RunProgress'
    BY <2>1, <2>3 DEF RunProgress
  <2>5. NewestContent' /\ RawKept'
    BY <1>1, <2>2 DEF NewestContent, RawKept, BundlesTypeOK
  <2>6. QED
    BY <2>3, <2>4, <2>5
<1>4. CASE WriteStable
  <2>1. bundle \in Bundles /\ step = "stable" /\ step' = "snapshot" /\ bundle' = bundle
    BY <1>4 DEF WriteStable, BundlesTypeOK
  <2>2. UNCHANGED <<inbox, restricted, received, manifest, indexed, counted, written, late>>
    BY <1>4 DEF WriteStable
  <2>3. \A e \in Reports[bundle] : stable'[e] = bundle
    BY <1>0, <1>4, <2>1 DEF WriteStable, LastRow
  <2>4. RunProgress'
    BY <2>1, <2>2, <2>3 DEF RunProgress
  <2>5. NewestContent' /\ RawKept'
    BY <1>1, <2>2 DEF NewestContent, RawKept, BundlesTypeOK
  <2>6. QED
    BY <2>2, <2>4, <2>5
<1>5. CASE WriteSnapshot
  <2>1. bundle \in Bundles /\ step = "snapshot" /\ step' = "commit" /\ bundle' = bundle
    BY <1>5 DEF WriteSnapshot, BundlesTypeOK
  <2>2. UNCHANGED <<inbox, restricted, received, manifest, indexed, counted, stable, written, late>>
    BY <1>5 DEF WriteSnapshot
  <2>3. snapshot' = bundle
    BY <1>0, <1>5, <2>1 DEF WriteSnapshot
  <2>4. RunProgress'
    BY <2>1, <2>2, <2>3 DEF RunProgress
  <2>5. NewestContent' /\ RawKept'
    BY <1>1, <2>2 DEF NewestContent, RawKept, BundlesTypeOK
  <2>6. QED
    BY <2>2, <2>4, <2>5
<1>6. CASE Commit
  <2>1. bundle \in Bundles /\ step = "commit" /\ step' = "idle" /\ manifest' = manifest \cup {bundle}
    BY <1>6 DEF Commit, BundlesTypeOK
  <2>2. UNCHANGED <<inbox, restricted, received, indexed, counted, stable, snapshot, written, late>>
    BY <1>6 DEF Commit
  <2>3. PICK b : b = bundle
    OBVIOUS
  <2>a. b \in written /\ InLake(b)
    BY <1>0, <2>1, <2>3 DEF RunProgress, InLake, IsOf
  <2>b. InLake(b)'
    BY <2>a, LakeStays
  <2>4. NewestContent' /\ RawKept'
    BY <1>1, <2>1, <2>2, <2>3, <2>a, <2>b DEF NewestContent, RawKept, BundlesTypeOK
  <2>5. QED
    BY <2>1, <2>2, <2>4 DEF RunProgress
<1>7. CASE Pull
  <2>1. /\ step' = "scan" /\ UNCHANGED <<restricted, manifest, indexed>>
        /\ \A b \in received' : b \in received \/ inbox'[b] = "whole"
        /\ \A b \in Bundles : inbox[b] = "whole" => inbox'[b] = "whole"
    BY <1>7 DEF Pull, BundlesTypeOK
  <2>2. NewestContent' /\ RawKept'
    BY <1>1, <2>1 DEF NewestContent, RawKept, BundlesTypeOK
  <2>3. QED
    BY <2>1, <2>2 DEF RunProgress
<1>8. ASSUME NEW b \in Bundles, RemoveInboxFile(b)
      PROVE  RunProgress' /\ NewestContent' /\ RawKept' /\ \A c \in Bundles : indexed'[c] <= 1
  <2>1. /\ UNCHANGED <<step, restricted, received, manifest, indexed>> /\ step = "idle"
        /\ \A c \in Bundles \ {b} : inbox'[c] = inbox[c]
    BY <1>8 DEF RemoveInboxFile, BundlesTypeOK
  <2>2. b \in manifest
    BY <1>8 DEF RemoveInboxFile, Removable
  <2>3. NewestContent' /\ RawKept'
    BY <1>1, <2>1, <2>2 DEF NewestContent, RawKept, BundlesTypeOK
  <2>4. QED
    BY <2>1, <2>3 DEF RunProgress
<1>9. ASSUME NEW d \in Bundles, RemoveRestrictedDay(DayOf[d])
      PROVE  RunProgress' /\ NewestContent' /\ RawKept' /\ \A c \in Bundles : indexed'[c] <= 1
  <2>1. /\ UNCHANGED <<step, inbox, received, manifest, indexed>> /\ step = "idle"
        /\ \A c \in restricted : c \in restricted' \/ c \in manifest
    BY <1>9 DEF RemoveRestrictedDay, Removable
  <2>2. NewestContent' /\ RawKept'
    BY <1>1, <2>1 DEF NewestContent, RawKept, BundlesTypeOK
  <2>3. QED
    BY <2>1, <2>2 DEF RunProgress
<1>10. CASE Scan \/ Archive \/ Interrupt \/ V5Publishes
  <2>1. /\ UNCHANGED <<inbox, received, manifest, indexed, counted, stable, snapshot, written, late>>
        /\ restricted \subseteq restricted'
    BY <1>10 DEF Scan, Archive, Interrupt, V5Publishes
  <2>2. step' \in {"idle", "archive", "bronze"} \/ UNCHANGED <<step, bundle>>
    BY <1>10 DEF Scan, Archive, Interrupt, V5Publishes
  <2>3. NewestContent' /\ RawKept'
    BY <1>1, <2>1 DEF NewestContent, RawKept, BundlesTypeOK
  <2>4. QED
    BY <2>1, <2>2, <2>3 DEF RunProgress
<1>11. CASE UNCHANGED bundleVars
  <2>1. NewestContent' /\ RawKept'
    BY <1>1, <1>11 DEF NewestContent, RawKept, BundlesTypeOK, bundleVars
  <2>2. QED
    BY <1>11, <2>1 DEF RunProgress, bundleVars
<1>12. QED
  BY <1>2, <1>3, <1>4, <1>5, <1>6, <1>7, <1>8, <1>9, <1>10, <1>11
     DEF BundlesNext, Sync, Ingest, Retention

\* What is written makes the number of bundles that report an event one larger, once.
LEMMA CountStep ==
  ASSUME BundlesTypeOK, LatestWritten, WriteEvents
  PROVE  LatestWritten'
<1> USE BundleAssumption DEF LatestWritten
<1>0. /\ bundle \in Bundles /\ written' = written \cup {bundle} /\ written \subseteq Bundles
      /\ outOfTurn' = outOfTurn \cup {b \in {bundle} \cap written : \E n \in written : n > b}
      /\ \A b \in Bundles : b \in Nat /\ b # 0
      /\ \A e \in Events : counted[e] \in [source_count : Nat, latest : 0..MaxBundle]
  BY DEF WriteEvents, BundlesTypeOK, outcomes, Bundles
<1>1. SUFFICES ASSUME NEW e \in Events, Having(e, outOfTurn') = {}
               PROVE  /\ \A b \in Having(e, written') : b <= counted'[e].latest
                      /\ counted'[e].latest \in Having(e, written') \cup {0}
                      /\ counted'[e].source_count = Cardinality(Having(e, written'))
  BY DEF Having
<1>2. Having(e, outOfTurn) = {}
  BY <1>0, <1>1 DEF Having
<1>3. /\ \A b \in Having(e, written) : b <= counted[e].latest
      /\ counted[e].latest \in Having(e, written) \cup {0}
      /\ counted[e].source_count = Cardinality(Having(e, written))
  BY <1>2
<1>4. CASE e \notin Reports[bundle]
  <2>1. Having(e, written') = Having(e, written)
    BY <1>0, <1>4 DEF Having
  <2>2. counted'[e] = counted[e]
    BY <1>4 DEF WriteEvents
  <2>3. QED
    BY <1>3, <2>1, <2>2
<1>5. CASE e \in Reports[bundle]
  <2>1. /\ counted'[e].latest >= bundle /\ counted'[e].latest >= counted[e].latest
        /\ counted'[e].latest \in {bundle, counted[e].latest}
        /\ counted'[e].source_count = IF counted[e].latest = bundle THEN counted[e].source_count
                                      ELSE counted[e].source_count + 1
        /\ counted'[e].latest \in Nat
    BY <1>0, <1>5, MergedRow DEF WriteEvents
  <2>2. Having(e, written') = Having(e, written) \cup {bundle}
    BY <1>0, <1>5 DEF Having
  <2>3. \A b \in Having(e, written) : b \in Bundles
    BY <1>0 DEF Having
  <2>4. /\ \A b \in Having(e, written') : b <= counted'[e].latest
        /\ counted'[e].latest \in Having(e, written') \cup {0}
    <3>1. bundle \in Nat /\ counted[e].latest \in Nat
      BY <1>0
    <3>2. \A b \in Having(e, written) : b \in Nat
      BY <1>0, <2>3
    <3>3. QED
      BY <1>3, <2>1, <2>2, <3>1, <3>2
  <2>5. IsFiniteSet(Having(e, written))
    <3>1. IsFiniteSet(Bundles)
      BY FS_Interval DEF Bundles
    <3>2. Having(e, written) \subseteq Bundles
      BY <2>3
    <3>3. QED
      BY <3>1, <3>2, FS_Subset
  <2>6. CASE counted[e].latest = bundle
    <3>1. bundle \in Having(e, written)
      BY <1>0, <1>3, <2>6
    <3>2. QED
      BY <1>3, <2>1, <2>2, <2>4, <2>6, <3>1
  <2>7. CASE counted[e].latest # bundle
    <3>1. bundle \notin written
      <4>1. SUFFICES ASSUME bundle \in written PROVE FALSE
        OBVIOUS
      <4>2. bundle \in Having(e, written)
        BY <1>5, <4>1 DEF Having
      <4>3. counted[e].latest > bundle /\ counted[e].latest \in written
        BY <1>0, <1>3, <2>7, <4>2 DEF Having
      <4>4. bundle \in outOfTurn'
        BY <1>0, <4>1, <4>3
      <4>5. QED
        BY <1>1, <1>5, <4>4 DEF Having
    <3>2. Cardinality(Having(e, written')) = Cardinality(Having(e, written)) + 1
      BY <2>2, <2>5, <3>1, FS_AddElement DEF Having
    <3>3. QED
      BY <1>3, <2>1, <2>4, <2>7, <3>2
  <2>8. QED
    BY <2>6, <2>7
<1>6. QED
  BY <1>4, <1>5

LEMMA BundlesInvStep == BundlesInv /\ [BundlesNext]_bundleVars => BundlesInv'
<1> SUFFICES ASSUME BundlesInv, [BundlesNext]_bundleVars PROVE BundlesInv'
  OBVIOUS
<1>1. BundlesTypeOK /\ BundlesTypeOK'
  BY BundlesTypeStep DEF BundlesInv
<1>2. RunProgress' /\ NewestContent' /\ RawKept' /\ \A b \in Bundles : indexed'[b] <= 1
  BY <1>1, StepKeepsLake, ProgressStep DEF BundlesInv
<1>3. LatestWritten'
  <2>1. CASE WriteEvents
    BY <1>1, <2>1, CountStep DEF BundlesInv
  <2>2. ASSUME UNCHANGED <<written, outOfTurn, counted>> PROVE LatestWritten'
    BY <2>2 DEF BundlesInv, LatestWritten, Having
  <2>3. ASSUME \/ V5Publishes \/ Pull \/ Scan \/ Archive \/ Bronze \/ WriteStable \/ WriteSnapshot
               \/ Commit \/ Interrupt \/ Retention \/ UNCHANGED bundleVars
        PROVE  UNCHANGED <<written, outOfTurn, counted>>
    BY <2>3 DEF V5Publishes, Pull, Scan, Archive, Bronze, WriteStable, WriteSnapshot, Commit,
                Interrupt, Retention, RemoveInboxFile, RemoveRestrictedDay, bundleVars, silver,
                outcomes
  <2>4. QED
    BY <2>1, <2>2, <2>3 DEF BundlesNext, Sync, Ingest
<1>4. QED
  BY <1>1, <1>2, <1>3 DEF BundlesInv

-----------------------------------------------------------------------------
\* A bundle that once arrived whole is kept until all of it is in the lake, wherever
\* runs are cut short and whenever the retention job runs, and all that the bundles of
\* the manifest report is there, in no version older than theirs but that of a bundle that
\* was written after a newer one (retention.py:188-249, ingest.py:682-689).
THEOREM BundlesStay == BundlesSpec => []BundlesKept
<1>1. BundlesInv => BundlesKept
  BY DEF BundlesInv, BundlesKept, RawKept, RawUntilIngested, NewestContent
<1>2. QED
  BY <1>1, BundlesInvInit, BundlesInvStep, PTL DEF BundlesSpec

\* The files of a bundle are listed once and its events counted once, unless it is begun
\* again after a newer one was written (ingest.py:3093-3145).
THEOREM EventsCountedOnce == BundlesSpec => []CountedOnce
<1>1. BundlesInv => CountedOnce
  BY DEF BundlesInv, LatestWritten, CountedOnce
<1>2. QED
  BY <1>1, BundlesInvInit, BundlesInvStep, PTL DEF BundlesSpec

(***************************************************************************)
(* The collector.  A flush has written the datasets before the next one,   *)
(* and what the buffer holds is in no other yet, until a flush raises.     *)
(***************************************************************************)
Datasets4 == {"raw_ws", "market_bar", "trade_print", "orderbook_snapshot"}
Flushing == {"flush", "lastFlush"}

Written(k) == k < writing /\ pc \in Flushing

CollectorTypes ==
    /\ messages_read \in 0..Len(Feeds)
    /\ buffer \in Seq(Messages) /\ \A m \in Range(buffer) : m <= messages_read
    /\ stored \in [Datasets4 -> [Messages -> Nat]]
    /\ writing \in 1..5 /\ pc \in Places
    /\ pc = "connect" => messages_read = 0
    /\ pc = "report" => buffer = <<>>

\* What was read is buffered, or in its datasets; a flush has written so far.
ReadIsKept ==
    /\ \A m \in 1..messages_read : InDatasets(m) \/ m \in Range(buffer)
    /\ \A k \in 1..4 : Written(k) => \A m \in Taken(Datasets[k], buffer) : stored[Datasets[k]][m] > 0
    /\ pc \in {"lastReport", "stopped"} => \A m \in 1..messages_read : InDatasets(m)

\* What is buffered is in no dataset that is still to be written.
BufferedIsNew ==
    (~broken /\ pc # "failed") =>
       \A d \in Datasets4 : \A m \in Messages :
          /\ stored[d][m] <= 1
          /\ m > messages_read => stored[d][m] = 0
          /\ /\ m \in Range(buffer) /\ pc \notin {"killed", "lastReport", "stopped"}
             /\ \A k \in 1..4 : d = Datasets[k] => ~Written(k)
             => stored[d][m] = 0

CollectorInv == CollectorTypes /\ ReadIsKept /\ BufferedIsNew /\ (pc = "failed" => broken)

LEMMA DatasetNames ==
  /\ Len(Datasets) = 4 /\ Range(Datasets) = Datasets4
  /\ Datasets[1] = "raw_ws" /\ Datasets[2] = "market_bar"
  /\ Datasets[3] = "trade_print" /\ Datasets[4] = "orderbook_snapshot"
  /\ \A k \in 1..4 : Datasets[k] \in Datasets4
<1>1. /\ Len(Datasets) = 4 /\ DOMAIN Datasets = 1..4
      /\ Datasets[1] = "raw_ws" /\ Datasets[2] = "market_bar"
      /\ Datasets[3] = "trade_print" /\ Datasets[4] = "orderbook_snapshot"
  BY DEF Datasets
<1>2. \A k \in 1..4 : k = 1 \/ k = 2 \/ k = 3 \/ k = 4
  OBVIOUS
<1>3. Range(Datasets) = Datasets4
  BY <1>1, <1>2 DEF Range, Datasets4
<1>4. QED
  BY <1>1, <1>2, <1>3 DEF Datasets4

LEMMA DistinctNames == \A k, l \in 1..4 : Datasets[k] = Datasets[l] => k = l
<1>1. \A k \in 1..4 : k = 1 \/ k = 2 \/ k = 3 \/ k = 4
  OBVIOUS
<1>2. QED
  BY <1>1, DatasetNames

LEMMA FeedOfMessage ==
  /\ Messages = 1..Len(Feeds) /\ Len(Feeds) \in Nat
  /\ \A m \in Messages : Feeds[m] \in {"market_bar", "trade_print", "orderbook_snapshot", "none"}
BY CollectorAssumption DEF Messages

LEMMA BufferRange ==
  /\ Range(<<>>) = {}
  /\ \A b \in Seq(Messages), m \in Messages :
        Append(b, m) \in Seq(Messages) /\ Range(Append(b, m)) = Range(b) \cup {m}
  /\ \A b \in Seq(Messages) : Range(b) \subseteq Messages
<1>1. Range(<<>>) = {}
  BY DEF Range
<1>2. ASSUME NEW b \in Seq(Messages), NEW m \in Messages
      PROVE  Append(b, m) \in Seq(Messages) /\ Range(Append(b, m)) = Range(b) \cup {m}
  <2>1. /\ Append(b, m) \in Seq(Messages) /\ DOMAIN Append(b, m) = 1..(Len(b) + 1)
        /\ \A i \in 1..Len(b) : Append(b, m)[i] = b[i]
        /\ Append(b, m)[Len(b) + 1] = m
        /\ DOMAIN b = 1..Len(b) /\ Len(b) \in Nat
    BY <1>2
  <2>2. QED
    BY <2>1 DEF Range
<1>3. ASSUME NEW b \in Seq(Messages) PROVE Range(b) \subseteq Messages
  BY <1>3 DEF Range
<1>4. QED
  BY <1>1, <1>2, <1>3

LEMMA CollectorInvInit == CollectorInit => CollectorInv
<1> SUFFICES ASSUME CollectorInit PROVE CollectorInv
  OBVIOUS
<1> USE DatasetNames, FeedOfMessage, BufferRange DEF CollectorInit
<1>1. CollectorTypes
  BY DEF CollectorTypes, Places
<1>2. ReadIsKept /\ BufferedIsNew
  BY DEF ReadIsKept, BufferedIsNew, Written, Flushing
<1>3. QED
  BY <1>1, <1>2 DEF CollectorInv

\* When all four datasets are written, all that was buffered is in them.
LEMMA AllWritten ==
  ASSUME CollectorTypes,
         \A k \in 1..4 : \A m \in Taken(Datasets[k], buffer) : stored[Datasets[k]][m] > 0,
         NEW m \in Range(buffer)
  PROVE  InDatasets(m)
<1>1. m \in Messages
  BY BufferRange DEF CollectorTypes
<1>2. SUFFICES ASSUME NEW d \in {"raw_ws", Feeds[m]} \ {"none"} PROVE stored[d][m] > 0
  BY DEF InDatasets
<1>3. PICK k \in 1..4 : d = Datasets[k]
  BY <1>1, <1>2, DatasetNames, FeedOfMessage
<1>4. m \in Taken(Datasets[k], buffer)
  BY <1>2, <1>3 DEF Taken
<1>5. QED
  BY <1>3, <1>4

\* A write to the next dataset.
LEMMA WriteMakes ==
  ASSUME CollectorTypes, WriteNext
  PROVE  /\ writing \in 1..4 /\ writing' = writing + 1
         /\ stored' \in [Datasets4 -> [Messages -> Nat]]
         /\ \A d \in Datasets4 : d # Datasets[writing] => stored'[d] = stored[d]
         /\ \A m \in Messages :
               /\ m \in Taken(Datasets[writing], buffer) =>
                     /\ stored'[Datasets[writing]][m] > 0
                     /\ stored[Datasets[writing]][m] = 0 => stored'[Datasets[writing]][m] = 1
               /\ m \notin Taken(Datasets[writing], buffer) =>
                     stored'[Datasets[writing]][m] = stored[Datasets[writing]][m]
         /\ \A d \in Datasets4 : \A m \in Messages : stored[d][m] > 0 => stored'[d][m] > 0
<1> DEFINE d0 == Datasets[writing]
<1>1. writing \in 1..4 /\ writing' = writing + 1 /\ d0 \in Datasets4
  BY DatasetNames DEF WriteNext, CollectorTypes
<1>2. stored' = [stored EXCEPT ![d0] = Put(d0, buffer)]
  BY DEF WriteNext
<1> HIDE DEF d0
<1>3. \A m \in Messages : stored[d0][m] \in Nat
  BY <1>1 DEF CollectorTypes
<1>4. /\ Put(d0, buffer) \in [Messages -> Nat]
      /\ \A m \in Messages :
            /\ m \in Taken(d0, buffer) =>
                  /\ Put(d0, buffer)[m] > 0
                  /\ stored[d0][m] = 0 => Put(d0, buffer)[m] = 1
            /\ m \notin Taken(d0, buffer) => Put(d0, buffer)[m] = stored[d0][m]
  BY <1>3 DEF Put
<1>5. /\ stored' \in [Datasets4 -> [Messages -> Nat]] /\ stored'[d0] = Put(d0, buffer)
      /\ \A d \in Datasets4 : d # d0 => stored'[d] = stored[d]
  BY <1>1, <1>2, <1>4 DEF CollectorTypes
<1>6. \A d \in Datasets4 : \A m \in Messages : stored[d][m] > 0 => stored'[d][m] > 0
  BY <1>3, <1>4, <1>5
<1>7. QED
  BY <1>1, <1>4, <1>5, <1>6 DEF d0

LEMMA WriteKeeps ==
  ASSUME CollectorInv, WriteNext, pc \in Flushing, pc' \in Flushing \cup {"lastReport"},
         pc' = "lastReport" => writing = 4,
         UNCHANGED <<messages_read, buffer, broken>>
  PROVE  CollectorInv'
<1> USE DatasetNames, FeedOfMessage, BufferRange, WriteMakes DEF CollectorInv
<1>0. CollectorTypes'
  BY DEF CollectorTypes, Flushing, Places
<1>1. \A m \in 1..messages_read : InDatasets(m) => InDatasets(m)'
  <2>1. SUFFICES ASSUME NEW m \in 1..messages_read, InDatasets(m),
                        NEW d \in {"raw_ws", Feeds[m]} \ {"none"}
                 PROVE  stored'[d][m] > 0
    BY DEF InDatasets
  <2>2. m \in Messages
    BY <2>1 DEF CollectorTypes
  <2>3. d \in Datasets4 /\ stored[d][m] > 0
    BY <2>1, <2>2 DEF InDatasets, Datasets4
  <2>4. QED
    BY <2>2, <2>3
<1>2. \A k \in 1..4 : k < writing' =>
         \A m \in Taken(Datasets[k], buffer) : stored'[Datasets[k]][m] > 0
  <2>1. SUFFICES ASSUME NEW k \in 1..4, k < writing', NEW m \in Taken(Datasets[k], buffer)
                 PROVE  stored'[Datasets[k]][m] > 0
    OBVIOUS
  <2>2. m \in Messages
    BY <2>1 DEF Taken, CollectorTypes
  <2>3. CASE k = writing
    BY <2>1, <2>2, <2>3
  <2>4. CASE k # writing
    <3>1. k < writing
      BY <2>1, <2>4 DEF CollectorTypes
    <3>2. stored[Datasets[k]][m] > 0
      BY <2>1, <3>1 DEF ReadIsKept, Written
    <3>3. QED
      BY <2>2, <3>2
  <2>5. QED
    BY <2>3, <2>4
<1>3. ReadIsKept'
  <2>1. \A k \in 1..4 : Taken(Datasets[k], buffer)' = Taken(Datasets[k], buffer)
    BY DEF Taken
  <2>2. CASE pc' \in Flushing
    BY <1>1, <1>2, <2>1, <2>2 DEF ReadIsKept, Written, Flushing
  <2>3. CASE pc' = "lastReport"
    <3>1. \A k \in 1..4 : \A m \in Taken(Datasets[k], buffer') : stored'[Datasets[k]][m] > 0
      BY <1>2, <2>3 DEF CollectorTypes
    <3>2. \A m \in Range(buffer') : InDatasets(m)'
      <4>1. SUFFICES ASSUME NEW m \in Range(buffer'),
                            NEW d \in {"raw_ws", Feeds[m]} \ {"none"}
                     PROVE  stored'[d][m] > 0
        BY DEF InDatasets
      <4>2. m \in Messages
        BY <1>0 DEF CollectorTypes
      <4>3. PICK k \in 1..4 : d = Datasets[k]
        BY <4>1, <4>2
      <4>4. m \in Taken(Datasets[k], buffer')
        BY <4>1, <4>3 DEF Taken
      <4>5. QED
        BY <3>1, <4>3, <4>4
    <3>3. \A m \in 1..messages_read' : InDatasets(m)'
      BY <1>1, <3>2 DEF ReadIsKept
    <3>4. QED
      BY <2>3, <3>3 DEF ReadIsKept, Written, Flushing
  <2>4. QED
    BY <2>2, <2>3
<1>4. BufferedIsNew'
  <2>1. SUFFICES ASSUME ~broken, pc' # "failed", NEW d \in Datasets4, NEW m \in Messages
                 PROVE  /\ stored'[d][m] <= 1
                        /\ m > messages_read => stored'[d][m] = 0
                        /\ /\ m \in Range(buffer) /\ pc' \notin {"killed", "lastReport", "stopped"}
                           /\ \A k \in 1..4 : d = Datasets[k] => ~(k < writing' /\ pc' \in Flushing)
                           => stored'[d][m] = 0
    BY DEF BufferedIsNew, Written
  <2>2. pc \notin {"failed", "killed", "lastReport", "stopped"}
    BY DEF Flushing
  <2>3. /\ stored[d][m] <= 1
        /\ m > messages_read => stored[d][m] = 0
        /\ m \in Range(buffer) /\ (\A k \in 1..4 : d = Datasets[k] => ~(k < writing)) => stored[d][m] = 0
    BY <2>1, <2>2 DEF BufferedIsNew, Written
  <2>4. CASE d = Datasets[writing]
    <3>1. writing \in 1..4 /\ writing' = writing + 1
      BY WriteMakes
    <3>2. \A k \in 1..4 : d = Datasets[k] => k = writing
      <4>1. \A k, l \in 1..4 : Datasets[k] = Datasets[l] => k = l
        BY DistinctNames
      <4>2. QED
        BY <2>4, <3>1, <4>1
    <3>3. m \in Taken(d, buffer) => m \in Range(buffer) /\ ~(m > messages_read)
      BY DEF CollectorTypes, Taken
    <3>4. m \in Taken(d, buffer) => stored[d][m] = 0
      BY <2>3, <3>1, <3>2, <3>3 DEF CollectorTypes
    <3>5. /\ m \in Taken(d, buffer) => stored'[d][m] = 1
          /\ m \notin Taken(d, buffer) => stored'[d][m] = stored[d][m]
      BY <2>4, <3>4, WriteMakes
    <3>6. stored'[d][m] <= 1 /\ (m > messages_read => stored'[d][m] = 0)
      BY <2>3, <3>3, <3>5
    <3>7. pc' # "lastReport" => writing < writing' /\ pc' \in Flushing
      BY <3>1 DEF CollectorTypes
    <3>8. QED
      BY <2>4, <3>1, <3>6, <3>7
  <2>5. CASE d # Datasets[writing]
    <3>1. stored'[d] = stored[d]
      BY <2>5
    <3>2. \A k \in 1..4 : d = Datasets[k] => (k < writing => k < writing')
      BY DEF CollectorTypes
    <3>3. QED
      BY <2>3, <3>1, <3>2
  <2>6. QED
    BY <2>4, <2>5
<1>5. QED
  BY <1>0, <1>3, <1>4 DEF Flushing

\* A step that writes nothing, reads nothing and starts every flush anew.
LEMMA QuietKeeps ==
  ASSUME CollectorInv, UNCHANGED <<stored, buffer, messages_read>>,
         pc' \in Places \ {"connect"}, writing' \in 1..5,
         pc' \in Flushing => writing' = 1,
         pc' = "report" => buffer = <<>>,
         pc' \in {"lastReport", "stopped"} => \A m \in 1..messages_read : InDatasets(m),
         broken => broken', pc' = "failed" => broken',
         \/ broken' \/ buffer = <<>> \/ pc' \in {"killed", "lastReport", "stopped"}
         \/ pc \notin Flushing \cup {"killed", "lastReport", "stopped", "failed"}
  PROVE  CollectorInv'
<1> USE DEF CollectorInv
<1>1. CollectorTypes'
  BY DEF CollectorTypes
<1>2. \A m \in 1..messages_read : InDatasets(m)' <=> InDatasets(m)
  BY DEF InDatasets
<1>3. \A k \in 1..4 : ~Written(k)'
  BY DEF Written
<1>4. ReadIsKept'
  BY <1>2, <1>3 DEF ReadIsKept
<1>5. BufferedIsNew'
  <2>1. SUFFICES ASSUME ~broken', pc' # "failed", NEW d \in Datasets4, NEW m \in Messages
                 PROVE  /\ stored[d][m] <= 1
                        /\ m > messages_read => stored[d][m] = 0
                        /\ m \in Range(buffer) /\ pc' \notin {"killed", "lastReport", "stopped"}
                           => stored[d][m] = 0
    BY DEF BufferedIsNew
  <2>2. stored[d][m] <= 1 /\ (m > messages_read => stored[d][m] = 0)
    BY <2>1 DEF BufferedIsNew
  <2>3. ASSUME m \in Range(buffer), pc' \notin {"killed", "lastReport", "stopped"}
        PROVE  stored[d][m] = 0
    <3>1. buffer # <<>>
      BY <2>3, BufferRange
    <3>2. pc \notin Flushing \cup {"killed", "lastReport", "stopped", "failed"}
      BY <2>1, <2>3, <3>1
    <3>3. \A k \in 1..4 : ~Written(k)
      BY <3>2 DEF Written
    <3>4. QED
      BY <2>1, <2>3, <3>2, <3>3 DEF BufferedIsNew
  <2>4. QED
    BY <2>2, <2>3
<1>6. QED
  BY <1>1, <1>4, <1>5

LEMMA ReceiveKeeps == CollectorInv /\ Receive => CollectorInv'
<1> SUFFICES ASSUME CollectorInv, Receive PROVE CollectorInv'
  OBVIOUS
<1> DEFINE n == messages_read + 1
<1> USE DEF CollectorInv
<1>1. /\ pc = "receive" /\ n \in Messages /\ n \in 1..Len(Feeds)
      /\ messages_read' = n /\ buffer' = Append(buffer, n)
      /\ UNCHANGED <<stored, broken>>
      /\ (pc' = "flush" /\ writing' = 1) \/ (pc' = "receive" /\ writing' = writing)
  BY FeedOfMessage DEF Receive, Buffered, CollectorTypes
<1>2. buffer' \in Seq(Messages) /\ Range(buffer') = Range(buffer) \cup {n}
  BY <1>1, BufferRange DEF CollectorTypes
<1>3. CollectorTypes'
  <2>1. messages_read \in Nat /\ \A m \in Range(buffer) : m \in Nat /\ m <= messages_read
    BY BufferRange, FeedOfMessage DEF CollectorTypes
  <2>2. \A m \in Range(buffer') : m <= n
    BY <1>2, <2>1
  <2>3. QED
    BY <1>1, <1>2, <2>2, FeedOfMessage DEF CollectorTypes, Places
<1>4. (\A k \in 1..4 : ~Written(k)) /\ (\A k \in 1..4 : ~Written(k)')
  BY <1>1 DEF Written, Flushing
<1>5. \A m \in 1..messages_read : InDatasets(m)' <=> InDatasets(m)
  BY <1>1 DEF InDatasets
<1>6. ReadIsKept'
  <2>1. \A m \in 1..n : m \in 1..messages_read \/ m = n
    BY <1>1 DEF CollectorTypes
  <2>2. QED
    BY <1>1, <1>2, <1>4, <1>5, <2>1 DEF ReadIsKept
<1>7. BufferedIsNew'
  <2>1. SUFFICES ASSUME ~broken, NEW d \in Datasets4, NEW m \in Messages
                 PROVE  /\ stored[d][m] <= 1
                        /\ m > n => stored[d][m] = 0
                        /\ m \in Range(buffer) \cup {n} => stored[d][m] = 0
    BY <1>1, <1>2 DEF BufferedIsNew
  <2>2. /\ stored[d][m] <= 1
        /\ m > messages_read => stored[d][m] = 0
        /\ m \in Range(buffer) => stored[d][m] = 0
    BY <1>1, <1>4, <2>1 DEF BufferedIsNew
  <2>3. messages_read \in Nat /\ m \in Nat
    BY FeedOfMessage DEF CollectorTypes
  <2>4. QED
    BY <2>2, <2>3
<1>8. QED
  BY <1>1, <1>3, <1>6, <1>7

LEMMA FlushKeeps == CollectorInv /\ Flush => CollectorInv'
<1> SUFFICES ASSUME CollectorInv, Flush PROVE CollectorInv'
  OBVIOUS
<1> USE DatasetNames
<1>1. pc = "flush" /\ UNCHANGED messages_read
  BY DEF Flush
<1>2. CASE WriteNext /\ UNCHANGED <<buffer, pc, status, errors, broken>>
  BY <1>1, <1>2, WriteKeeps DEF Flushing
<1>3. CASE /\ writing > Len(Datasets) /\ buffer' = Cleared(buffer) /\ pc' = "report"
           /\ UNCHANGED <<stored, writing, status, errors, broken>>
  <2> USE DEF CollectorInv
  <2>1. buffer' = <<>> /\ Range(buffer') = {} /\ writing = 5
    BY <1>3, BufferRange DEF Cleared, CollectorTypes
  <2>2. \A k \in 1..4 : Written(k)
    BY <1>1, <2>1 DEF Written, Flushing
  <2>3. \A m \in Range(buffer) : InDatasets(m)
    BY <2>2, AllWritten DEF ReadIsKept
  <2>4. \A m \in 1..messages_read : InDatasets(m)'
    BY <1>3, <2>3 DEF ReadIsKept, InDatasets
  <2>5. \A k \in 1..4 : ~Written(k)'
    BY <1>3 DEF Written, Flushing
  <2>6. ReadIsKept'
    BY <1>1, <1>3, <2>4, <2>5 DEF ReadIsKept
  <2>7. BufferedIsNew'
    BY <1>1, <1>3, <2>1 DEF BufferedIsNew
  <2>8. CollectorTypes'
    BY <1>1, <1>3, <2>1 DEF CollectorTypes, Places
  <2>9. QED
    BY <1>3, <2>6, <2>7, <2>8
<1>4. CASE /\ writing <= Len(Datasets) /\ Fails /\ broken' = TRUE
           /\ status' = "ERROR" /\ pc' = "lastFlush" /\ writing' = 1
           /\ UNCHANGED <<buffer, stored>>
  BY <1>1, <1>4, QuietKeeps DEF Flushing, Places
<1>5. QED
  BY <1>2, <1>3, <1>4 DEF Flush

LEMMA LastFlushKeeps == CollectorInv /\ LastFlush => CollectorInv'
<1> SUFFICES ASSUME CollectorInv, LastFlush PROVE CollectorInv'
  OBVIOUS
<1> USE DatasetNames
<1>1. pc = "lastFlush" /\ UNCHANGED messages_read
  BY DEF LastFlush
<1>2. CASE NothingLeft /\ pc' = "lastReport" /\ UNCHANGED <<flushVars, errors, broken>>
  <2>1. \A m \in 1..messages_read : InDatasets(m)
    BY <1>2, BufferRange DEF NothingLeft, CollectorInv, ReadIsKept
  <2>2. writing' \in 1..5 /\ UNCHANGED <<stored, buffer>>
    BY <1>2 DEF flushVars, CollectorInv, CollectorTypes
  <2>3. QED
    BY <1>1, <1>2, <2>1, <2>2, QuietKeeps DEF Flushing, Places
<1>3. CASE /\ ~NothingLeft /\ WriteNext
           /\ pc' = IF writing = Len(Datasets) THEN "lastReport" ELSE pc
           /\ UNCHANGED <<buffer, errors, broken>>
  BY <1>1, <1>3, WriteKeeps DEF Flushing
<1>4. CASE /\ ~NothingLeft /\ Fails /\ broken' = TRUE /\ pc' = "failed"
           /\ UNCHANGED flushVars
  <2>1. writing' \in 1..5 /\ UNCHANGED <<stored, buffer>>
    BY <1>4 DEF flushVars, CollectorInv, CollectorTypes
  <2>2. QED
    BY <1>1, <1>4, <2>1, QuietKeeps DEF Flushing, Places
<1>5. QED
  BY <1>2, <1>3, <1>4 DEF LastFlush

LEMMA OthersKeep ==
  ASSUME CollectorInv,
         \/ Start \/ ReceiveMalformed \/ ReceiveFails \/ Reconnect \/ ReadingEnds
         \/ Report \/ LastReport \/ Killed
  PROVE  CollectorInv'
<1> USE DEF flushVars, connection
<1>0. writing \in 1..5
  BY DEF CollectorInv, CollectorTypes
<1>1. CASE Start
  <2>1. messages_read = 0
    BY <1>1 DEF Start, CollectorInv, CollectorTypes
  <2>2. QED
    BY <1>0, <1>1, <2>1, QuietKeeps DEF Start, Flushing, Places
<1>2. CASE ReceiveMalformed
  BY <1>2, QuietKeeps DEF ReceiveMalformed, Flushing, Places
<1>3. CASE ReceiveFails
  <2>1. /\ pc = "receive" /\ UNCHANGED <<stored, buffer, messages_read, broken>>
        /\ \/ pc' = "lastFlush" /\ writing' = 1
           \/ pc' = "reconnect" /\ writing' = writing
    BY <1>3 DEF ReceiveFails
  <2>2. QED
    BY <1>0, <2>1, QuietKeeps DEF Flushing, Places
<1>4. CASE Reconnect
  BY <1>0, <1>4, QuietKeeps DEF Reconnect, Flushing, Places
<1>5. CASE ReadingEnds
  BY <1>5, QuietKeeps DEF ReadingEnds, Flushing, Places
<1>6. CASE Report
  BY <1>0, <1>6, QuietKeeps DEF Report, Flushing, Places
<1>7. CASE LastReport
  <2>1. \A m \in 1..messages_read : InDatasets(m)
    BY <1>7 DEF LastReport, CollectorInv, ReadIsKept
  <2>2. QED
    BY <1>0, <1>7, <2>1, QuietKeeps DEF LastReport, Flushing, Places
<1>8. CASE Killed
  BY <1>0, <1>8, QuietKeeps DEF Killed, Flushing, Places
<1>9. QED
  BY <1>1, <1>2, <1>3, <1>4, <1>5, <1>6, <1>7, <1>8

LEMMA CollectorInvStep == CollectorInv /\ [CollectorNext]_collectorVars => CollectorInv'
<1> SUFFICES ASSUME CollectorInv, [CollectorNext]_collectorVars PROVE CollectorInv'
  OBVIOUS
<1>1. ASSUME UNCHANGED collectorVars PROVE CollectorInv'
  BY <1>1 DEF collectorVars, connection, flushVars, CollectorInv, CollectorTypes,
     ReadIsKept, BufferedIsNew, Written, InDatasets, Taken
<1>2. CASE Ended
  BY <1>1, <1>2 DEF Ended
<1>3. QED
  BY <1>1, <1>2, ReceiveKeeps, FlushKeeps, LastFlushKeeps, OthersKeep DEF CollectorNext

LEMMA CollectorInvariant == CollectorSpec => []CollectorInv
BY CollectorInvInit, CollectorInvStep, PTL DEF CollectorSpec

\* No message that was read is lost while the process lives and its last flush does not
\* raise: it is in its datasets or still buffered; and unless a flush raised, no dataset
\* holds a message twice (okx_ws_public.py:344-420).
THEOREM MessagesDelivered == CollectorSpec => []DeliveredOnce
<1>1. CollectorInv => MessagesKept
  BY DEF CollectorInv, ReadIsKept, MessagesKept
<1>2. CollectorInv => StoredOnce
  BY DatasetNames DEF CollectorInv, BufferedIsNew, StoredOnce
<1>3. CollectorInv => DeliveredOnce
  BY <1>1, <1>2 DEF DeliveredOnce
<1>4. QED
  BY <1>3, CollectorInvariant, PTL

(***************************************************************************)
(* The deepening of a symbol's bars.  A run has all the bars of the window *)
(* from its cursor up to where it began, which is a stored bar or an hour  *)
(* that had not closed, and the pages it may still fetch reach the start.  *)
(***************************************************************************)
\* The bars of the window from an hour up to where the run began to fetch: a bar that
\* is stored, or an hour that had not closed when the run began.
Joined(from, bars, held, since) ==
    \E top \in Hours :
       /\ from <= top
       /\ bars = {t \in TheWindow : from <= t /\ t < top}
       /\ top \in held \/ top >= since

\* A deepening run has fetched all from its cursor up, and the pages it may still fetch
\* take it to the start; it ends when it is there.
Deepening ==
    LET at == cursor["deepen"]
        bars == fetched["deepen"]
        left == pages_left["deepen"]
    IN  /\ left > 0 /\ at = Nowhere => bars = {} /\ left = MaxPages
        /\ left > 0 /\ at # Nowhere =>
              /\ WindowStart < at /\ at <= hour
              /\ at <= WindowStart + left * PageLimit
              /\ Joined(at, bars, InWindow, began)
        /\ left = 0 => Joined(0, bars, InWindow, began)

\* What was fetched had closed, and a cursor is a bar there is, or nowhere.
HistoryTypes ==
    /\ BackfillTypeOK
    /\ \A b \in Backfills :
          fetched[b] \subseteq 0..hour /\ cursor[b] \in (0..hour) \cup {Nowhere}

HistoryInv == HistoryTypes /\ (ReachesStart /\ "deepen" \in running => Deepening)

\* A set of hours that is not empty has a first one.
LEMMA FirstHour ==
    ASSUME NEW T, T \subseteq Nat, T # {}
    PROVE  \E x \in T : \A y \in T : x <= y
  <1> DEFINE R == OpToRel(<, Nat)
  <1>1. IsWellFoundedOn(R, Nat)
    BY NatLessThanWellFounded
  <1>2. \A x, y \in Nat : <<y, x>> \in R <=> y < x
    BY DEF OpToRel
  <1> HIDE DEF R
  <1>3. PICK x \in T : \A y \in T : ~ (<<y, x>> \in R)
    BY <1>1, WFMin
  <1>4. ASSUME NEW y \in T PROVE x <= y
    <2>1. x \in Nat /\ y \in Nat /\ ~ (<<y, x>> \in R)
      BY <1>3
    <2>2. ~ (y < x)
      BY <1>2, <2>1
    <2> QED
      BY <2>1, <2>2
  <1> QED
    BY <1>4

\* A page is what lies just below its cursor, and is short only at the first hour.
LEMMA PageIs ==
    ASSUME HistoryTypes, NEW from \in (0..hour) \cup {Nowhere}
    PROVE  /\ Top(from) \in 0..(hour + 1)
           /\ from = Nowhere => Top(from) = hour + 1
           /\ from # Nowhere => Top(from) = from
           /\ Page(from) \subseteq 0..hour
           /\ \A t \in 0..hour : t \in Page(from) <=> t < Top(from) /\ Top(from) <= t + PageLimit
           /\ Cardinality(Page(from)) < PageLimit => Top(from) < PageLimit
           /\ ~ Cardinality(Page(from)) < PageLimit =>
                 /\ Top(from) >= PageLimit
                 /\ (CHOOSE t \in Page(from) : \A u \in Page(from) : t <= u) = Top(from) - PageLimit
  <1>1. /\ hour \in Nat /\ LastHour \in Nat /\ PageLimit \in Nat \ {0} /\ hour <= LastHour
        /\ Nowhere = LastHour + 1
    BY BackfillAssumption DEF HistoryTypes, BackfillTypeOK, Hours, Nowhere
  <1>2. /\ Top(from) \in 0..(hour + 1)
        /\ from = Nowhere => Top(from) = hour + 1
        /\ from # Nowhere => Top(from) = from
    BY <1>1 DEF Top
  <1> DEFINE top == Top(from)
             page == Page(from)
  <1>3. page = {t \in 0..hour : t < top /\ t + PageLimit >= top}
    BY DEF Page
  <1>4. /\ page \subseteq 0..hour
        /\ \A t \in 0..hour : t \in page <=> t < top /\ top <= t + PageLimit
    BY <1>1, <1>2, <1>3
  <1> HIDE DEF top, page
  <1>5. CASE top >= PageLimit
    <2>1. page = (top - PageLimit)..(top - 1)
      BY <1>1, <1>2, <1>3, <1>5 DEF top
    <2>2. Cardinality(page) = PageLimit
      <3>1. top - PageLimit \in Int /\ top - 1 \in Int
        BY <1>1, <1>2 DEF top
      <3>2. Cardinality((top - PageLimit)..(top - 1))
              = IF top - PageLimit > top - 1 THEN 0 ELSE (top - 1) - (top - PageLimit) + 1
        BY <3>1, FS_Interval
      <3> QED
        BY <1>1, <1>2, <2>1, <3>2 DEF top
    <2>3. (CHOOSE t \in page : \A u \in page : t <= u) = top - PageLimit
      <3>1. top - PageLimit \in page /\ \A u \in page : top - PageLimit <= u
        BY <1>1, <1>2, <2>1 DEF top
      <3>2. \A t \in page : (\A u \in page : t <= u) => t = top - PageLimit
        BY <1>1, <1>2, <2>1, <3>1 DEF top
      <3> QED
        BY <3>1, <3>2
    <2> QED
      BY <1>1, <1>2, <1>4, <1>5, <2>2, <2>3 DEF top, page
  <1>6. CASE top < PageLimit
    <2>1. page = 0..(top - 1)
      BY <1>1, <1>2, <1>3, <1>6 DEF top
    <2>2. Cardinality(page) < PageLimit
      <3>1. 0 \in Int /\ top - 1 \in Int
        BY <1>2 DEF top
      <3>2. Cardinality(0..(top - 1)) = IF 0 > top - 1 THEN 0 ELSE (top - 1) - 0 + 1
        BY <3>1, FS_Interval
      <3> QED
        BY <1>1, <1>2, <1>6, <2>1, <3>2 DEF top
    <2> QED
      BY <1>2, <1>4, <1>6, <2>2 DEF top, page
  <1> QED
    BY <1>1, <1>2, <1>5, <1>6 DEF top

\* The checkpoint is a bar of the window that is stored and not its start, or nowhere.
LEMMA CheckpointIs ==
    ASSUME HistoryTypes
    PROVE  \/ Checkpoint = Nowhere
           \/ /\ Checkpoint \in InWindow /\ Checkpoint \in 0..hour
              /\ WindowStart < Checkpoint
  <1> SUFFICES ASSUME Checkpoint # Nowhere
               PROVE  /\ Checkpoint \in InWindow /\ Checkpoint \in 0..hour
                      /\ WindowStart < Checkpoint
    OBVIOUS
  <1>1. InWindow # {} /\ ~ HasWindowStart /\ Checkpoint = EarliestBar
    BY DEF Checkpoint
  <1>2. InWindow \subseteq 0..hour /\ hour \in Nat /\ WindowStart \in Nat
    <2>1. InWindow \subseteq 0..hour
      BY DEF InWindow, HistoryTypes, BackfillTypeOK
    <2>2. hour \in Nat /\ WindowStart \in Nat
      BY BackfillAssumption DEF HistoryTypes, BackfillTypeOK, Hours
    <2> QED
      BY <2>1, <2>2
  <1>3. \E t \in InWindow : \A u \in InWindow : t <= u
    <2>1. InWindow \subseteq Nat
      BY <1>2
    <2> QED
      BY <1>1, <2>1, FirstHour
  <1>4. EarliestBar \in InWindow
    BY <1>3 DEF EarliestBar
  <1>5. ~ (EarliestBar <= WindowStart + 1)
    BY <1>1 DEF HasWindowStart
  <1> QED
    BY <1>1, <1>2, <1>4, <1>5

LEMMA HistoryInitial == BackfillInit => HistoryInv
  <1> SUFFICES ASSUME BackfillInit PROVE HistoryInv
    OBVIOUS
  <1>1. {LastHour, MaxOutages} \subseteq Nat
    BY BackfillAssumption
  <1>2. running \subseteq Backfills /\ stored_bars \subseteq 0..hour /\ "deepen" \notin running
    BY DEF BackfillInit
  <1>3. hour \in Hours /\ outages \in 0..MaxOutages /\ began \in 0..hour
    BY <1>1 DEF BackfillInit, Hours
  <1>4. Nowhere \in 0..Nowhere
    BY <1>1 DEF Nowhere
  <1>5. /\ cursor \in [Backfills -> 0..Nowhere]
        /\ fetched \in [Backfills -> SUBSET Hours]
        /\ pages_left \in [Backfills -> Nat]
    BY <1>4 DEF BackfillInit
  <1>6. \A b \in Backfills : fetched[b] \subseteq 0..hour /\ cursor[b] \in (0..hour) \cup {Nowhere}
    BY DEF BackfillInit
  <1> QED
    BY <1>2, <1>3, <1>5, <1>6 DEF HistoryInv, HistoryTypes, BackfillTypeOK

\* What a page leaves: older bars and a cursor of its own, or no pages.
LEMMA FetchMakes ==
    ASSUME HistoryTypes, NEW b \in Backfills, FetchPage(b)
    PROVE  LET from == cursor[b] page == Page(from) IN
           /\ b \in running /\ pages_left[b] \in Nat \ {0}
           /\ fetched' = [fetched EXCEPT ![b] = fetched[b] \cup Wanted(b, page)]
           /\ LastPage(b, page) =>
                 pages_left' = [pages_left EXCEPT ![b] = 0] /\ cursor' = cursor
           /\ ~ LastPage(b, page) =>
                 /\ pages_left' = [pages_left EXCEPT ![b] = pages_left[b] - 1]
                 /\ Top(from) >= PageLimit
                 /\ cursor' = [cursor EXCEPT ![b] = Top(from) - PageLimit]
  <1>1. /\ b \in running /\ pages_left[b] > 0
        /\ fetched' = [fetched EXCEPT ![b] = fetched[b] \cup Wanted(b, Page(cursor[b]))]
    BY DEF FetchPage, Gathered
  <1>2. pages_left[b] \in Nat \ {0}
    BY <1>1 DEF HistoryTypes, BackfillTypeOK
  <1>3. LastPage(b, Page(cursor[b])) =>
           pages_left' = [pages_left EXCEPT ![b] = 0] /\ cursor' = cursor
    BY DEF FetchPage
  <1>4. ASSUME ~ LastPage(b, Page(cursor[b]))
        PROVE  /\ pages_left' = [pages_left EXCEPT ![b] = pages_left[b] - 1]
               /\ Top(cursor[b]) >= PageLimit
               /\ cursor' = [cursor EXCEPT ![b] = Top(cursor[b]) - PageLimit]
    <2>1. cursor[b] \in (0..hour) \cup {Nowhere} /\ ~ Cardinality(Page(cursor[b])) < PageLimit
      BY <1>4 DEF HistoryTypes, LastPage
    <2>2. /\ Top(cursor[b]) >= PageLimit
          /\ (CHOOSE t \in Page(cursor[b]) : \A u \in Page(cursor[b]) : t <= u)
               = Top(cursor[b]) - PageLimit
      BY <2>1, PageIs
    <2> QED
      BY <1>4, <2>2 DEF FetchPage
  <1> QED
    BY <1>1, <1>2, <1>3, <1>4

LEMMA HistoryTypesStep == HistoryTypes /\ [BackfillNext]_backfillVars => HistoryTypes'
  <1> SUFFICES ASSUME HistoryTypes, [BackfillNext]_backfillVars PROVE HistoryTypes'
    OBVIOUS
  <1>1. /\ LastHour \in Nat /\ MaxOutages \in Nat /\ Nowhere = LastHour + 1
        /\ {PageLimit, MaxPages, HistoryPages, RepairPages} \subseteq Nat \ {0}
    BY BackfillAssumption DEF Nowhere
  <1>2. /\ hour \in 0..LastHour /\ stored_bars \subseteq 0..hour /\ running \subseteq Backfills
        /\ cursor \in [Backfills -> 0..Nowhere] /\ fetched \in [Backfills -> SUBSET Hours]
        /\ pages_left \in [Backfills -> Nat]
        /\ outages \in 0..MaxOutages /\ began \in 0..hour
        /\ \A b \in Backfills : fetched[b] \subseteq 0..hour
        /\ \A b \in Backfills : cursor[b] \in (0..hour) \cup {Nowhere}
    BY DEF HistoryTypes, BackfillTypeOK, Hours
  <1>3. CASE BarCloses
    <2>1. /\ hour' = hour + 1 /\ hour' \in 0..LastHour
          /\ UNCHANGED <<running, cursor, fetched, pages_left, began, outages>>
      BY <1>1, <1>2, <1>3 DEF BarCloses, jobVars
    <2>2. stored_bars' \subseteq 0..hour'
      BY <1>2, <1>3, <2>1 DEF BarCloses
    <2>3. began' \in 0..hour'
      BY <1>2, <2>1
    <2>4. \A b \in Backfills : fetched[b] \subseteq 0..hour'
      BY <1>2, <2>1
    <2>5. \A b \in Backfills : cursor[b] \in (0..hour') \cup {Nowhere}
      BY <1>2, <2>1
    <2> QED
      BY <1>2, <2>1, <2>2, <2>3, <2>4, <2>5 DEF HistoryTypes, BackfillTypeOK, Hours
  <1>4. ASSUME NEW b \in Backfills, NEW from \in (0..hour) \cup {Nowhere}, NEW pages \in Nat,
               Begin(b, from, pages), began' \in 0..hour
        PROVE  HistoryTypes'
    <2>1. /\ hour' = hour /\ stored_bars' = stored_bars /\ outages' = outages
          /\ running' \subseteq Backfills
      BY <1>2, <1>4 DEF Begin
    <2>2. from \in 0..Nowhere
      BY <1>1, <1>2
    <2>3. cursor' \in [Backfills -> 0..Nowhere]
      BY <1>2, <1>4, <2>2 DEF Begin
    <2>4. fetched' \in [Backfills -> SUBSET Hours]
      BY <1>2, <1>4 DEF Begin
    <2>5. pages_left' \in [Backfills -> Nat]
      BY <1>2, <1>4 DEF Begin
    <2>6. \A c \in Backfills : fetched'[c] \subseteq 0..hour
      BY <1>2, <1>4 DEF Begin
    <2>7. \A c \in Backfills : cursor'[c] \in (0..hour) \cup {Nowhere}
      BY <1>2, <1>4 DEF Begin
    <2> QED
      BY <1>2, <1>4, <2>1, <2>3, <2>4, <2>5, <2>6, <2>7
      DEF HistoryTypes, BackfillTypeOK, Hours
  <1>5. CASE BeginDeepen
    <2>1. Checkpoint \in (0..hour) \cup {Nowhere}
      BY CheckpointIs
    <2>2. Begin("deepen", Checkpoint, MaxPages) /\ began' \in 0..hour
      BY <1>2, <1>5 DEF BeginDeepen
    <2> QED
      BY <1>1, <1>4, <2>1, <2>2 DEF Backfills
  <1>6. CASE BeginRenew \/ BeginRecent
    <2>1. RenewPages + 1 \in Nat /\ 1 \in Nat
      BY <1>1 DEF RenewPages
    <2>2. /\ began' \in 0..hour
          /\ Begin("renew", Nowhere, RenewPages + 1) \/ Begin("renew", Nowhere, 1)
      BY <1>2, <1>6 DEF BeginRenew, BeginRecent
    <2> QED
      BY <1>4, <2>1, <2>2 DEF Backfills
  <1>7. ASSUME NEW b \in Backfills, FetchPage(b) PROVE HistoryTypes'
    <2> DEFINE from == cursor[b]
               page == Page(from)
    <2>1. from \in (0..hour) \cup {Nowhere}
      BY <1>2
    <2>2. page \subseteq 0..hour /\ Top(from) \in 0..(hour + 1)
      BY <2>1, PageIs
    <2>3. /\ fetched' = [fetched EXCEPT ![b] = fetched[b] \cup Wanted(b, page)]
          /\ UNCHANGED <<hour, stored_bars, running, outages, began>>
      BY <1>7, FetchMakes DEF FetchPage
    <2>4. \/ pages_left' = [pages_left EXCEPT ![b] = 0] /\ cursor' = cursor
          \/ /\ pages_left' = [pages_left EXCEPT ![b] = pages_left[b] - 1]
             /\ pages_left[b] \in Nat \ {0}
             /\ Top(from) >= PageLimit
             /\ cursor' = [cursor EXCEPT ![b] = Top(from) - PageLimit]
      BY <1>7, FetchMakes
    <2> HIDE DEF page, from
    <2>5. Wanted(b, page) \subseteq 0..hour /\ 0..hour \subseteq Hours
      <3>1. Wanted(b, page) \subseteq page
        BY DEF Wanted, Closed
      <3>2. 0..hour \subseteq Hours
        BY <1>1, <1>2 DEF Hours
      <3> QED
        BY <2>2, <3>1, <3>2
    <2>6. fetched' \in [Backfills -> SUBSET Hours]
      BY <1>2, <2>3, <2>5
    <2>7. \A c \in Backfills : fetched'[c] \subseteq 0..hour
      BY <1>2, <2>3, <2>5
    <2>8. pages_left' \in [Backfills -> Nat]
      BY <1>2, <2>4
    <2>9. \A c \in Backfills : cursor'[c] \in (0..hour) \cup {Nowhere}
      <3>1. Top(from) >= PageLimit => Top(from) - PageLimit \in 0..hour
        BY <1>1, <1>2, <2>2
      <3> QED
        BY <1>2, <2>4, <3>1
    <2>10. cursor' \in [Backfills -> 0..Nowhere]
      <3>1. Top(from) >= PageLimit => Top(from) - PageLimit \in 0..Nowhere
        BY <1>1, <1>2, <2>2
      <3> QED
        BY <1>2, <2>4, <3>1
    <2> QED
      BY <1>2, <2>3, <2>6, <2>7, <2>8, <2>9, <2>10 DEF HistoryTypes, BackfillTypeOK, Hours
  <1>8. ASSUME NEW b \in Backfills, Forget(b), UNCHANGED <<hour, began>>,
               stored_bars' \subseteq 0..hour, outages' \in 0..MaxOutages
        PROVE  HistoryTypes'
    <2>1. Nowhere \in 0..Nowhere
      BY <1>1
    <2>2. /\ running' \subseteq Backfills
          /\ cursor' \in [Backfills -> 0..Nowhere]
          /\ fetched' \in [Backfills -> SUBSET Hours]
          /\ pages_left' \in [Backfills -> Nat]
      BY <1>2, <1>8, <2>1 DEF Forget
    <2>3. \A c \in Backfills : fetched'[c] \subseteq 0..hour
      BY <1>2, <1>8 DEF Forget
    <2>4. \A c \in Backfills : cursor'[c] \in (0..hour) \cup {Nowhere}
      BY <1>2, <1>8 DEF Forget
    <2> QED
      BY <1>2, <1>8, <2>2, <2>3, <2>4 DEF HistoryTypes, BackfillTypeOK, Hours
  <1>9. ASSUME NEW b \in Backfills, PublishBars(b) PROVE HistoryTypes'
    <2>1. stored_bars' \subseteq 0..hour /\ outages' \in 0..MaxOutages
      BY <1>2, <1>9 DEF PublishBars
    <2> QED
      BY <1>8, <1>9, <2>1 DEF PublishBars
  <1>10. ASSUME NEW b \in Backfills, RunFails(b) PROVE HistoryTypes'
    <2>1. stored_bars' \subseteq 0..hour /\ outages' \in 0..MaxOutages
      BY <1>1, <1>2, <1>10 DEF RunFails
    <2> QED
      BY <1>8, <1>10, <2>1 DEF RunFails
  <1>11. CASE UNCHANGED backfillVars
    BY <1>2, <1>11 DEF HistoryTypes, BackfillTypeOK, Hours, backfillVars
  <1> QED
    BY <1>3, <1>5, <1>6, <1>7, <1>9, <1>10, <1>11 DEF BackfillNext

\* A page joins what the pages before it brought, and the last one ends below the window.
LEMMA PageJoins ==
    ASSUME HistoryInv, ReachesStart, "deepen" \in running, FetchPage("deepen")
    PROVE  Deepening'
  <1> DEFINE at == cursor["deepen"]
             bars == fetched["deepen"]
             left == pages_left["deepen"]
             top == Top(at)
             page == Page(at)
             more == Wanted("deepen", page)
             last == LastPage("deepen", page)
  <1>1. /\ hour \in 0..LastHour /\ began \in 0..hour
        /\ LastHour \in Nat /\ WindowStart \in Nat /\ WindowEnd \in Nat
        /\ WindowEnd <= LastHour /\ Nowhere = LastHour + 1
        /\ PageLimit \in Nat \ {0} /\ MaxPages \in Nat \ {0}
        /\ "deepen" \in Backfills
    BY BackfillAssumption
    DEF HistoryInv, HistoryTypes, BackfillTypeOK, Hours, Nowhere, Backfills
  <1>2. /\ at \in (0..hour) \cup {Nowhere}
        /\ cursor \in [Backfills -> 0..Nowhere] /\ fetched \in [Backfills -> SUBSET Hours]
        /\ pages_left \in [Backfills -> Nat]
    BY <1>1 DEF HistoryInv, HistoryTypes, BackfillTypeOK
  <1>3. /\ UNCHANGED <<hour, stored_bars, began>> /\ left \in Nat \ {0}
        /\ fetched' = [fetched EXCEPT !["deepen"] = bars \cup more]
        /\ last => pages_left' = [pages_left EXCEPT !["deepen"] = 0]
        /\ ~ last =>
              /\ pages_left' = [pages_left EXCEPT !["deepen"] = left - 1]
              /\ top >= PageLimit
              /\ cursor' = [cursor EXCEPT !["deepen"] = top - PageLimit]
    BY <1>1, FetchMakes DEF HistoryInv, FetchPage
  <1>4. /\ top \in 0..(hour + 1)
        /\ at = Nowhere => top = hour + 1
        /\ at # Nowhere => top = at
        /\ page \subseteq 0..hour
        /\ \A t \in 0..hour : t \in page <=> t < top /\ top <= t + PageLimit
        /\ Cardinality(page) < PageLimit => top < PageLimit
    BY <1>2, PageIs DEF HistoryInv
  <1>5. /\ last <=> \/ Cardinality(page) < PageLimit
                    \/ \E t \in page : t <= WindowStart
        /\ more = {t \in page : t < hour} \cap TheWindow
    BY DEF LastPage, Wanted, Closed
  <1>6. /\ at = Nowhere => bars = {} /\ left = MaxPages
        /\ at # Nowhere =>
              /\ WindowStart < at /\ at <= hour /\ at <= WindowStart + left * PageLimit
              /\ Joined(at, bars, InWindow, began)
    BY <1>3 DEF HistoryInv, Deepening
  <1>7. LastHour - WindowStart < MaxPages * PageLimit
    BY DEF ReachesStart
  <1>8. \A t \in TheWindow : t \in Nat /\ WindowStart <= t /\ t < WindowEnd
    BY <1>1 DEF TheWindow
  <1>9. InWindow' = InWindow
    BY <1>3 DEF InWindow
  <1> HIDE DEF at, bars, left, top, page, more, last
  <1>10. PICK high \in Hours :
           /\ top - 1 <= high
           /\ bars = {t \in TheWindow : top <= t /\ t < high}
           /\ more = {t \in TheWindow : t < high /\ t < top /\ top <= t + PageLimit}
           /\ high \in InWindow \/ high >= began
    <2>1. CASE at = Nowhere
      <3>1. more = {t \in TheWindow : t < hour /\ t < top /\ top <= t + PageLimit}
        BY <1>1, <1>4, <1>5, <1>8
      <3>2. bars = {t \in TheWindow : top <= t /\ t < hour}
        BY <1>1, <1>4, <1>6, <1>8, <2>1
      <3> QED
        BY <1>1, <1>4, <2>1, <3>1, <3>2 DEF Hours
    <2>2. CASE at # Nowhere
      <3>1. PICK high \in Hours :
               /\ at <= high /\ bars = {t \in TheWindow : at <= t /\ t < high}
               /\ high \in InWindow \/ high >= began
        BY <1>6, <2>2 DEF Joined
      <3>2. more = {t \in TheWindow : t < high /\ t < top /\ top <= t + PageLimit}
        BY <1>1, <1>4, <1>5, <1>6, <1>8, <2>2, <3>1 DEF Hours
      <3> QED
        BY <1>1, <1>2, <1>4, <1>6, <2>2, <3>1, <3>2 DEF Hours
    <2> QED
      BY <2>1, <2>2
  <1>11. fetched'["deepen"] = bars \cup more
    BY <1>1, <1>2, <1>3
  <1>12. high \in Nat
    BY <1>1 DEF Hours
  <1>13. CASE last
    <2>1. pages_left'["deepen"] = 0
      BY <1>1, <1>2, <1>3, <1>13
    <2>2. \A t \in TheWindow : top <= t + PageLimit
      BY <1>1, <1>4, <1>5, <1>8, <1>13
    <2>3. bars \cup more = {t \in TheWindow : 0 <= t /\ t < high}
      BY <1>1, <1>4, <1>8, <1>10, <1>12, <2>2
    <2>4. Joined(0, fetched'["deepen"], InWindow', began')
      BY <1>3, <1>9, <1>10, <1>11, <1>12, <2>3 DEF Joined
    <2> QED
      BY <2>1, <2>4 DEF Deepening
  <1>14. CASE ~ last
    <2> DEFINE next == top - PageLimit
    <2>1. /\ pages_left'["deepen"] = left - 1 /\ cursor'["deepen"] = next
          /\ next \in 0..hour
      BY <1>1, <1>2, <1>3, <1>4, <1>14
    <2>2. WindowStart < next
      <3>1. next \in page
        BY <1>1, <1>4, <2>1
      <3> QED
        BY <1>1, <1>5, <1>14, <2>1, <3>1
    <2>3. (left - 1) * PageLimit = left * PageLimit - PageLimit /\ left * PageLimit \in Nat
      BY <1>1, <1>3
    <2>4. top <= WindowStart + left * PageLimit
      BY <1>1, <1>2, <1>4, <1>6, <1>7
    <2>5. next <= WindowStart + (left - 1) * PageLimit
      BY <1>1, <1>4, <2>3, <2>4
    <2>6. left - 1 > 0
      BY <1>1, <1>3, <2>1, <2>2, <2>5
    <2>7. bars \cup more = {t \in TheWindow : next <= t /\ t < high}
      BY <1>1, <1>4, <1>8, <1>10, <1>12
    <2>8. Joined(next, fetched'["deepen"], InWindow', began')
      <3>1. next <= high
        BY <1>1, <1>4, <1>10, <1>12
      <3> QED
        BY <1>3, <1>9, <1>10, <1>11, <2>7, <3>1 DEF Joined
    <2>9. next # Nowhere /\ next <= hour'
      BY <1>1, <1>3, <2>1
    <2> HIDE DEF next
    <2> QED
      BY <2>1, <2>2, <2>5, <2>6, <2>8, <2>9 DEF Deepening
  <1> QED
    BY <1>13, <1>14

\* More stored bars leave what was joined joined.
LEMMA StaysJoined ==
    ASSUME NEW from, NEW bars, NEW since, NEW held, NEW more, held \subseteq more,
           Joined(from, bars, held, since)
    PROVE  Joined(from, bars, more, since)
  BY DEF Joined

\* What the deepening does not do leaves it where it is.
LEMMA OthersLeaveDeepening ==
    ASSUME HistoryInv, ReachesStart, "deepen" \in running, began' = began,
           hour \in Nat, hour' \in Nat, hour <= hour', stored_bars \subseteq stored_bars',
           cursor'["deepen"] = cursor["deepen"], fetched'["deepen"] = fetched["deepen"],
           pages_left'["deepen"] = pages_left["deepen"]
    PROVE  Deepening'
  <1>1. InWindow \subseteq InWindow'
    BY DEF InWindow
  <1>2. Deepening
    BY DEF HistoryInv
  <1>3. \A from : Joined(from, fetched["deepen"], InWindow, began) =>
                    Joined(from, fetched["deepen"], InWindow', began)
    BY <1>1, StaysJoined
  <1>4. cursor["deepen"] \in (0..hour) \cup {Nowhere}
    BY DEF HistoryInv, HistoryTypes, Backfills
  <1>5. cursor["deepen"] # Nowhere /\ cursor["deepen"] <= hour => cursor["deepen"] <= hour'
    BY <1>4
  <1> QED
    BY <1>2, <1>3, <1>5 DEF Deepening

LEMMA HistoryStep == HistoryInv /\ [BackfillNext]_backfillVars => HistoryInv'
  <1> SUFFICES ASSUME HistoryInv, [BackfillNext]_backfillVars PROVE HistoryInv'
    OBVIOUS
  <1>1. HistoryTypes'
    BY HistoryTypesStep DEF HistoryInv
  <1> SUFFICES ASSUME ReachesStart, "deepen" \in running' PROVE Deepening'
    BY <1>1 DEF HistoryInv, ReachesStart
  <1>2. /\ hour \in 0..LastHour /\ LastHour \in Nat /\ MaxPages \in Nat \ {0}
        /\ "deepen" \in Backfills /\ "renew" \in Backfills /\ "deepen" # "renew"
        /\ Backfills = {"deepen", "renew"}
        /\ cursor \in [Backfills -> 0..Nowhere] /\ fetched \in [Backfills -> SUBSET Hours]
        /\ pages_left \in [Backfills -> Nat]
    BY BackfillAssumption DEF HistoryInv, HistoryTypes, BackfillTypeOK, Hours, Backfills
  <1>3. CASE BeginDeepen
    <2>1. /\ cursor'["deepen"] = Checkpoint /\ fetched'["deepen"] = {}
          /\ pages_left'["deepen"] = MaxPages
          /\ UNCHANGED <<hour, stored_bars>> /\ began' = hour
      BY <1>2, <1>3 DEF BeginDeepen, Begin
    <2>2. CASE Checkpoint = Nowhere
      BY <1>2, <2>1, <2>2 DEF Deepening
    <2>3. CASE Checkpoint # Nowhere
      <3>1. /\ Checkpoint \in InWindow /\ Checkpoint \in 0..hour /\ WindowStart < Checkpoint
        BY <2>3, CheckpointIs DEF HistoryInv
      <3>2. WindowStart \in Nat /\ PageLimit \in Nat /\ LastHour - WindowStart < MaxPages * PageLimit
        BY BackfillAssumption DEF ReachesStart
      <3>3. Checkpoint <= WindowStart + MaxPages * PageLimit
        <4>1. MaxPages * PageLimit \in Nat
          BY <1>2, <3>2
        <4> QED
          BY <1>2, <3>1, <3>2, <4>1
      <3>4. Checkpoint \in Hours /\ Checkpoint <= Checkpoint
        BY <1>2, <3>1 DEF Hours
      <3>5. {t \in TheWindow : Checkpoint <= t /\ t < Checkpoint} = {}
        <4>1. \A t \in TheWindow : t \in Int
          BY BackfillAssumption DEF TheWindow
        <4> QED
          BY <1>2, <3>1, <4>1
      <3>6. InWindow' = InWindow
        BY <2>1 DEF InWindow
      <3>7. Joined(Checkpoint, {}, InWindow', began')
        BY <3>1, <3>4, <3>5, <3>6 DEF Joined
      <3> QED
        BY <1>2, <2>1, <2>3, <3>1, <3>3, <3>7 DEF Deepening
    <2> QED
      BY <2>2, <2>3
  <1>4. CASE BarCloses
    <2>1. /\ "deepen" \in running /\ began' = began /\ hour \in Nat /\ hour' = hour + 1
          /\ stored_bars \subseteq stored_bars'
          /\ UNCHANGED <<cursor, fetched, pages_left>>
      BY <1>2, <1>4 DEF BarCloses, jobVars
    <2> QED
      BY <2>1, OthersLeaveDeepening
  <1>5. CASE BeginRenew \/ BeginRecent
    <2>1. PICK pages : Begin("renew", Nowhere, pages) /\ began' = began
      BY <1>5 DEF BeginRenew, BeginRecent
    <2>2. /\ "deepen" \in running /\ began' = began /\ hour \in Nat
          /\ UNCHANGED <<hour, stored_bars>>
          /\ cursor'["deepen"] = cursor["deepen"] /\ fetched'["deepen"] = fetched["deepen"]
          /\ pages_left'["deepen"] = pages_left["deepen"]
      BY <1>2, <2>1 DEF Begin
    <2> QED
      BY <2>2, OthersLeaveDeepening
  <1>6. CASE FetchPage("deepen")
    <2>1. "deepen" \in running
      BY <1>6 DEF FetchPage
    <2> QED
      BY <1>6, <2>1, PageJoins
  <1>7. CASE FetchPage("renew")
    <2>1. /\ "deepen" \in running /\ began' = began /\ hour \in Nat
          /\ UNCHANGED <<hour, stored_bars>>
      BY <1>2, <1>7 DEF FetchPage
    <2>2. /\ cursor'["deepen"] = cursor["deepen"] /\ fetched'["deepen"] = fetched["deepen"]
          /\ pages_left'["deepen"] = pages_left["deepen"]
      BY <1>2, <1>7 DEF FetchPage
    <2> QED
      BY <2>1, <2>2, OthersLeaveDeepening
  <1>8. ASSUME NEW b \in Backfills, PublishBars(b) \/ RunFails(b) PROVE Deepening'
    <2>1. /\ b = "renew" /\ "deepen" \in running
      BY <1>2, <1>8 DEF PublishBars, RunFails, Forget
    <2>2. /\ began' = began /\ hour \in Nat /\ hour' = hour
          /\ stored_bars \subseteq stored_bars'
          /\ cursor'["deepen"] = cursor["deepen"] /\ fetched'["deepen"] = fetched["deepen"]
          /\ pages_left'["deepen"] = pages_left["deepen"]
      BY <1>2, <1>8, <2>1 DEF PublishBars, RunFails, Forget
    <2> QED
      BY <2>1, <2>2, OthersLeaveDeepening
  <1>9. CASE UNCHANGED backfillVars
    <2>1. /\ "deepen" \in running /\ began' = began /\ hour \in Nat
          /\ UNCHANGED <<hour, stored_bars, cursor, fetched, pages_left>>
      BY <1>2, <1>9 DEF backfillVars
    <2> QED
      BY <2>1, OthersLeaveDeepening
  <1> QED
    BY <1>2, <1>3, <1>4, <1>5, <1>6, <1>7, <1>8, <1>9 DEF BackfillNext

\* The deepening ends by publishing, which joins what it fetched to what it started from.
LEMMA PublishedJoins ==
    ASSUME HistoryInv, BackfillNext, ReachesStart, running \ running' = {"deepen"}
    PROVE  Missing(InWindow)' \ Missing(InWindow) \subseteq began..LastHour
  <1>1. PublishBars("deepen") \/ RunFails("deepen")
    <2>1. ~ (BarCloses \/ BeginDeepen \/ BeginRenew \/ BeginRecent)
      BY DEF BarCloses, jobVars, BeginDeepen, BeginRenew, BeginRecent, Begin
    <2>2. \A b \in Backfills : ~ FetchPage(b)
      BY DEF FetchPage
    <2>3. \A b \in Backfills : PublishBars(b) \/ RunFails(b) => b = "deepen"
      BY DEF PublishBars, RunFails, Forget
    <2> QED
      BY <2>1, <2>2, <2>3 DEF BackfillNext
  <1>2. CASE RunFails("deepen")
    <2>1. InWindow' = InWindow
      BY <1>2 DEF RunFails, InWindow
    <2> QED
      BY <2>1 DEF Missing
  <1>3. CASE PublishBars("deepen")
    <2>1. /\ "deepen" \in running /\ pages_left["deepen"] = 0
          /\ stored_bars' = stored_bars \cup fetched["deepen"]
      BY <1>3 DEF PublishBars
    <2>2. PICK top \in Hours :
             /\ fetched["deepen"] = {t \in TheWindow : 0 <= t /\ t < top}
             /\ top \in InWindow \/ top >= began
      BY <2>1 DEF HistoryInv, Deepening, Joined
    <2>3. InWindow' = InWindow \cup {t \in TheWindow : t < top}
      <3>1. \A t \in TheWindow : 0 <= t
        BY BackfillAssumption DEF TheWindow
      <3> QED
        BY <2>1, <2>2, <3>1 DEF InWindow
    <2>4. /\ LastHour \in Nat /\ Hours = 0..LastHour /\ began \in Nat
          /\ \A t \in TheWindow : t \in Int
          /\ InWindow \subseteq TheWindow /\ TheWindow = WindowStart..(WindowEnd - 1)
          /\ WindowStart \in Nat /\ WindowEnd \in Nat
      BY BackfillAssumption
      DEF Hours, TheWindow, InWindow, HistoryInv, HistoryTypes, BackfillTypeOK
    <2>5. ASSUME NEW b \in Missing(InWindow'), b \notin Missing(InWindow)
          PROVE  b \in began..LastHour
      <3>1. PICK t, u \in InWindow' : t < b /\ b < u
        BY DEF Missing
      <3>2. b \in Hours /\ b \notin InWindow'
        BY DEF Missing
      <3>3. b \in TheWindow /\ top <= b
        BY <2>2, <2>3, <2>4, <3>1, <3>2
      <3>4. u \in InWindow /\ b \notin InWindow
        BY <2>2, <2>3, <2>4, <3>1, <3>2, <3>3
      <3>5. top \notin InWindow
        <4> SUFFICES ASSUME top \in InWindow PROVE FALSE
          OBVIOUS
        <4>1. top < b
          BY <2>2, <2>4, <3>2, <3>3, <3>4
        <4> QED
          BY <2>5, <3>1, <3>2, <3>4, <4>1 DEF Missing
      <3> QED
        BY <2>2, <2>4, <3>2, <3>3, <3>5
    <2>6. Missing(InWindow)' = Missing(InWindow')
      BY DEF Missing
    <2> QED
      BY <2>5, <2>6
  <1> QED
    BY <1>1, <1>2, <1>3

\* What a deepening run publishes makes no gap among the bars that had closed when it
\* began, for any window, page size and number of pages that reaches the window's start
\* (okx_public.py:551-587).
THEOREM DeepeningJoins == BackfillSpec => NoGapMade
  <1>1. HistoryInv /\ [BackfillNext]_backfillVars =>
           [ReachesStart /\ running \ running' = {"deepen"} =>
              Missing(InWindow)' \ Missing(InWindow) \subseteq began..LastHour]_backfillVars
    BY PublishedJoins
  <1>2. BackfillSpec => []HistoryInv
    BY HistoryInitial, HistoryStep, PTL DEF BackfillSpec
  <1> QED
    BY <1>1, <1>2, PTL DEF BackfillSpec, NoGapMade
=============================================================================
