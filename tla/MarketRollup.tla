---------------------------- MODULE MarketRollup ----------------------------
(***************************************************************************)
(* The high-frequency trades of the lake: the collector appends them in    *)
(* small files, an hourly script (deploy/scripts/                          *)
(* compact_lake_hot_datasets.sh) merges the files, counts the trades of    *)
(* the recent past by minute into silver/trade_activity_1m, moves old      *)
(* files to the archive (jobs/compact_market_data.py) and indexes what is  *)
(* left (data/file_index.py, jobs/small_file_maintenance.py).              *)
(*                                                                         *)
(* The script runs under a flock, and each of its steps may fail or time   *)
(* out; the next one is tried all the same.  The collector goes on         *)
(* appending.  The index is as old as the last maintenance: it names files *)
(* that are gone and lacks new ones.                                       *)
(*                                                                         *)
(* A trade is the instant it happened at.  The order book is rolled up the *)
(* same way into a dataset of its own.  A file of the archive has the name *)
(* and the hour of the file it was, which no other has.                    *)
(***************************************************************************)
EXTENDS Naturals, FiniteSets

CONSTANTS MinuteLength,   \* instants in a minute
          Lookback,       \* rollup_lookback_hours
          HotHours,       \* hot_hours: files younger than this stay
          MinFiles,       \* files a compaction merges, at least
          MaxInstant,     \* a bound: the time
          MaxTrades,      \* a bound: trades
          MaxMerges,      \* a bound: compactions
          MaxFailures     \* a bound: steps of the script that fail

ASSUME MarketAssumption ==
    /\ {MinuteLength, Lookback, MinFiles} \subseteq Nat \ {0}
    /\ {HotHours, MaxInstant, MaxTrades, MaxMerges, MaxFailures} \subseteq Nat
    /\ Lookback <= HotHours

VARIABLES instant,     \* the time
          pending,     \* trades the collector has not appended yet
          hot,         \* the files of silver/trade_print
          cold,        \* the files of archive/high_frequency
          fileIndex,   \* the files bronze/lake_file_index lists
          activity,    \* silver/trade_activity_1m: the trades counted in each minute
          script,      \* what the hourly script does next
          started,     \* when its rollup command started
          merges,      \* how many compactions there were
          failures,    \* how many steps failed
          rolledUp,    \* auxiliary: when the last rollup that was written started
          offered,     \* auxiliary: the trades that were in the files and the window of a rollup
          cut,         \* auxiliary: the minutes a window began in the middle of
          late         \* auxiliary: no rollup was written for a whole lookback

marketVars == <<instant, pending, hot, cold, fileIndex, activity, script, started, merges,
                failures, rolledUp, offered, cut, late>>
lakeFiles == <<hot, cold>>
rollups == <<activity, rolledUp, offered, cut>>

MinuteOf(t) == t \div MinuteLength
Minutes == 0..MinuteOf(MaxInstant)

\* Files are never changed, so that what the index says of one stays true of it.
Trades(files) == UNION {f.trades : f \in files}
Earliest(f) == CHOOSE t \in f.trades : \A u \in f.trades : t <= u
Newest(f) == CHOOSE t \in f.trades : \A u \in f.trades : u <= t

MarketInit ==
    /\ instant = 0 /\ pending = {}
    /\ hot = {} /\ cold = {} /\ fileIndex = {}
    /\ activity = [m \in Minutes |-> {}]
    /\ script = "idle" /\ started = 0
    /\ merges = 0 /\ failures = 0
    /\ rolledUp = 0 /\ offered = {} /\ cut = {} /\ late = FALSE

Fail == failures < MaxFailures /\ failures' = failures + 1

-----------------------------------------------------------------------------
(* Trades, and the collector that appends them within an instant.          *)

\* The next instant has a trade, or it has none.
InstantPasses ==
    /\ instant < MaxInstant
    /\ pending \subseteq {instant}
    /\ instant' = instant + 1
    /\ pending' \in {pending, pending \cup {instant'}}
    /\ Cardinality(pending' \cup Trades(hot \cup cold)) <= MaxTrades
    /\ late' = (late \/ instant' >= rolledUp + Lookback)
    /\ UNCHANGED <<lakeFiles, fileIndex, rollups, script, started, merges, failures>>

AppendTrades ==
    /\ pending # {}
    /\ hot' = hot \cup {[trades |-> pending, mtime |-> instant]}
    /\ pending' = {}
    /\ UNCHANGED <<instant, cold, fileIndex, rollups, script, started, merges, failures, late>>

-----------------------------------------------------------------------------
(* The script.  (The steps inside a compaction are those of DatasetStore.) *)

StartScript ==
    /\ script = "idle"
    /\ script' = "compact"
    /\ UNCHANGED <<instant, pending, lakeFiles, fileIndex, rollups, started, merges,
                   failures, late>>

\* Some of the files become one, of the age of now.
Merge(batch) ==
    /\ Cardinality(batch) >= MinFiles
    /\ merges < MaxMerges
    /\ merges' = merges + 1
    /\ hot' = (hot \ batch) \cup {[trades |-> Trades(batch), mtime |-> instant]}

\* compact_hot_ws_dataset; with too few files, or when it fails, nothing.
Compact ==
    /\ script = "compact"
    /\ script' = "rollup" /\ started' = instant
    /\ \/ \E batch \in SUBSET hot : Merge(batch)
       \/ UNCHANGED <<hot, merges>>
    /\ UNCHANGED <<instant, pending, cold, fileIndex, rollups, failures, late>>

\* _rollup_since
Since == IF started > Lookback THEN started - Lookback ELSE 0

\* (a mutant: only the files the index lists are read)
IndexedFiles == {f \in fileIndex \cap hot : Newest(f) >= Since}

\* _recent_parquet_files: what the index lists and is still there, and what was
\* written recently.
RecentFiles ==
    {f \in fileIndex \cap hot : Newest(f) >= Since} \cup {f \in hot : f.mtime >= Since}

Window == {t \in Trades(RecentFiles) : t >= Since}
InMinute(trades, m) == {t \in trades : MinuteOf(t) = m}

\* build_trade_activity_1m_rollup and its upsert by minute: a minute of the window
\* replaces what was counted before, the other minutes stay.
Rollup ==
    /\ script = "rollup"
    /\ script' = "archive"
    /\ activity' = [m \in Minutes |->
                       IF InMinute(Window, m) # {} THEN InMinute(Window, m) ELSE activity[m]]
    /\ rolledUp' = started
    /\ offered' = offered \cup {t \in Trades(hot) : t >= Since}
    /\ cut' = cut \cup {m \in {MinuteOf(Since)} : Since % MinuteLength # 0}
    /\ UNCHANGED <<instant, pending, lakeFiles, fileIndex, started, merges, failures, late>>

\* The source cannot be opened, which is taken for an empty one, and the archiving
\* goes on; or the command raises or is killed.
RollupFails ==
    /\ script = "rollup"
    /\ Fail
    /\ script' \in {"archive", "maintain"}
    /\ UNCHANGED <<instant, pending, lakeFiles, fileIndex, rollups, started, merges, late>>

RolledMinutes == {m \in Minutes : activity[m] # {}}
CoverageStart == CHOOSE m \in RolledMinutes : \A n \in RolledMinutes : m <= n
CoverageEnd == CHOOSE m \in RolledMinutes : \A n \in RolledMinutes : n <= m

\* (a mutant: what is covered need not be old)
OldAtOnce(f) == TRUE

\* The last write of the file is older than the hot hours.
Old(f) == f.mtime + HotHours < started

\* files_fully_within_time_range: the indexed files between the first minute that
\* is rolled up and the last one, whether those between are or not.  (The trades of an
\* old file are before the cutoff too, line 535: none is younger than its file.)
Covered ==
    {f \in fileIndex :
        /\ RolledMinutes # {}
        /\ Earliest(f) >= CoverageStart * MinuteLength
        /\ Newest(f) < (CoverageEnd + 1) * MinuteLength}

Archivable == {f \in Covered \cap hot : Old(f)}

\* _archive_dataset_files, one file after the other.
ArchiveFile(f) ==
    /\ script = "archive"
    /\ f \in Archivable
    /\ hot' = hot \ {f} /\ cold' = cold \cup {f}
    /\ UNCHANGED <<instant, pending, fileIndex, rollups, script, started, merges,
                   failures, late>>

\* All are moved, or the time is up.
ArchiveEnds ==
    /\ script = "archive"
    /\ IF Archivable = {} THEN UNCHANGED failures ELSE Fail
    /\ script' = "maintain"
    /\ UNCHANGED <<instant, pending, lakeFiles, fileIndex, rollups, started, merges, late>>

\* lake_small_file_maintenance: index, compaction, index.  It fails, or the script
\* has used up its time.
Maintain ==
    /\ script = "maintain"
    /\ \/ script' = "tidy" /\ fileIndex' = hot /\ UNCHANGED failures
       \/ script' = "idle" /\ Fail /\ UNCHANGED fileIndex
    /\ UNCHANGED <<instant, pending, lakeFiles, rollups, started, merges, late>>

Tidy ==
    /\ script = "tidy"
    /\ script' = "reindex"
    /\ \/ \E batch \in SUBSET (fileIndex \cap hot) : Merge(batch)
       \/ UNCHANGED <<hot, merges>>
    /\ UNCHANGED <<instant, pending, cold, fileIndex, rollups, started, failures, late>>

Reindex ==
    /\ script = "reindex"
    /\ script' = "idle"
    /\ \/ fileIndex' = hot /\ UNCHANGED failures
       \/ Fail /\ UNCHANGED fileIndex
    /\ UNCHANGED <<instant, pending, lakeFiles, rollups, started, merges, late>>

-----------------------------------------------------------------------------
MarketNext ==
    \/ InstantPasses \/ AppendTrades
    \/ StartScript \/ Compact \/ Rollup \/ RollupFails
    \/ \E f \in hot : ArchiveFile(f)
    \/ ArchiveEnds \/ Maintain \/ Tidy \/ Reindex

MarketSpec == MarketInit /\ [][MarketNext]_marketVars

-----------------------------------------------------------------------------
(* Properties.                                                             *)

TradeFiles == [trades : SUBSET (1..MaxInstant), mtime : 0..MaxInstant]

MarketTypeOK ==
    /\ instant \in 0..MaxInstant /\ started \in 0..instant
    /\ pending \subseteq 1..MaxInstant
    /\ hot \subseteq TradeFiles /\ cold \subseteq TradeFiles /\ fileIndex \subseteq TradeFiles
    /\ activity \in [Minutes -> SUBSET (1..MaxInstant)]
    /\ script \in {"idle", "compact", "rollup", "archive", "maintain", "tidy", "reindex"}
    /\ merges \in 0..MaxMerges /\ failures \in 0..MaxFailures
    /\ rolledUp \in 0..instant /\ offered \subseteq 1..MaxInstant
    /\ cut \subseteq Minutes /\ late \in BOOLEAN

\* A trade that a rollup had in its window stays counted in its minute, whatever
\* was merged, archived or not indexed when it ran or the rollups after it did
\* (compact_market_data.py:432-470).  Not so for the minute a window begins in:
\* only its rest is read, and replaces what was counted (line 207).
MinuteWhole ==
    \A t \in offered : MinuteOf(t) \notin cut => t \in activity[MinuteOf(t)]

\* A trade is archived after a rollup had it in its window, as long as one is
\* written in every lookback.  After a longer pause the archived range has a hole
\* (compact_market_data.py:527-545 compares with the first and last minute only).
ArchivedOffered ==
    ~late => Trades(cold) \subseteq offered
=============================================================================
