---------------------------- MODULE CostEstimates ----------------------------
(***************************************************************************)
(* What a trade of one symbol costs: the hourly calibration that replaces  *)
(* the rows of its day (costs/calibrate.py), the choice of a row for a     *)
(* request and the trust in it (costs/model.py, contracts/models.py), and  *)
(* the two caches of /v1/costs/estimate (api/cache.py, api/main.py).       *)
(*                                                                         *)
(* A row ages: 36 hours after it was made it is stale.  Snapshots and      *)
(* estimates do not: they are kept under the signature of the datasets.    *)
(***************************************************************************)
EXTENDS Naturals, FiniteSets

CONSTANTS
    Inquirers,       \* the requests the API serves at a time
    Asks,            \* regime, notional_usdt and notional_bucket of a request
    Evidence,        \* what the fills of a day may show
    Sizes,           \* the notional buckets of calibrated rows, but for "all"
    DayLength,       \* hours in a day
    StaleAfter,      \* COST_BUCKET_STALE_SECONDS
    MaxEstimates,    \* entries of _COST_ESTIMATE_CACHE
    MaxHours,        \* bound on the time
    MaxRuns          \* bound on the runs of the calibration

ActualSources == {"actual_fills", "mixed_actual_proxy", "actual_okx_fills_fee_missing"}
CostSources == ActualSources \cup {"bootstrap_cost_probe", "public_spread_proxy", "global_default"}

\* The class of live_cost_sample_count: under 30, under 100, or more.
LiveSamples == {"few", "some", "many"}
Buckets == Sizes \cup {"all"}

ASSUME CostAssumption ==
    /\ {DayLength, MaxEstimates} \subseteq Nat \ {0}
    /\ {StaleAfter, MaxHours, MaxRuns} \subseteq Nat
    /\ "all" \notin Sizes /\ "any" \notin Buckets
    \* `sizes` are the buckets the notional lies in, two of them at a boundary.
    /\ Asks \subseteq [regime : STRING, bucket : Buckets \cup {"any"}, sizes : SUBSET Sizes]
    \* Rows without any fallback have their fees.
    /\ Evidence \subseteq [source : ActualSources \cup {"bootstrap_cost_probe"},
                           live : LiveSamples, complete : BOOLEAN, slips : BOOLEAN]

VARIABLES
    hour,         \* the time
    lake,         \* cost_bucket_daily: its version and rows; version 0 is no directory
    costHealth,   \* the version of cost_health_daily
    calibration,  \* where the run of calibrate-costs stands
    runs,         \* how many there were
    buckets,      \* the snapshot of _COST_BUCKET_CACHE
    estimates,    \* _COST_ESTIMATE_CACHE
    inquiry,      \* where the thread of each request stands
    unread        \* history: the signatures under which a read found nothing

costVars == <<hour, lake, costHealth, calibration, runs, buckets, estimates, inquiry, unread>>

CostRows == [own : BOOLEAN, regime : {"realized", "public_proxy", "global_default"},
         bucket : Buckets, source : CostSources, live : LiveSamples,
         complete : BOOLEAN, slips : BOOLEAN, made : Nat]

Gone == [nr |-> 0, rows |-> {}]
DayOf(row) == row.made \div DayLength

-----------------------------------------------------------------------------
(* calibrate.py: the rows of the symbol, and the global one.                 *)

\* `complete` is a fallback_level of NONE, `slips` a known slippage above zero.
RealizedRow(e, bucket) ==
    [own |-> TRUE, regime |-> "realized", bucket |-> bucket, source |-> e.source,
     live |-> e.live, complete |-> e.complete, slips |-> e.slips, made |-> hour]

PublicSpreadProxyRow ==
    [own |-> TRUE, regime |-> "public_proxy", bucket |-> "all", source |-> "public_spread_proxy",
     live |-> "few", complete |-> FALSE, slips |-> FALSE, made |-> hour]

GlobalDefaultRow(own) ==
    [own |-> own, regime |-> "global_default", bucket |-> "all", source |-> "global_default",
     live |-> "few", complete |-> FALSE, slips |-> FALSE, made |-> hour]

\* What the fills of several sizes show together may be anything.
Together(shown) ==
    IF \E b \in Sizes : DOMAIN shown = {b} THEN {shown[b] : b \in DOMAIN shown} ELSE Evidence

\* _actual_fill_rows: a row for each size there are fills of, and one for all of them.
ActualFillRows ==
    UNION {{{RealizedRow(shown[b], b) : b \in DOMAIN shown} \cup {RealizedRow(e, "all")} :
                e \in Together(shown)} :
           shown \in UNION {[sizes -> Evidence] : sizes \in (SUBSET Sizes) \ {{}}}}

\* Fills of the symbol, or its spreads, or only its bars, or no data at all; or others
\* have fills and it has nothing.
CostBucketDailyRows ==
    ActualFillRows
      \cup {{PublicSpreadProxyRow}, {GlobalDefaultRow(TRUE)}, {GlobalDefaultRow(FALSE)}, {}}

Resting == [at |-> "idle", rows |-> {}, aside |-> Gone]

\* The rows of other days are read without the dataset's lock.
Calibrate ==
    /\ calibration.at = "idle"
    /\ runs < MaxRuns
    /\ runs' = runs + 1
    /\ \E found \in CostBucketDailyRows :
           calibration' = [Resting EXCEPT !.at = "computed",
               !.rows = {r \in lake.rows : DayOf(r) # hour \div DayLength} \cup found]
    /\ UNCHANGED <<hour, lake, costHealth, buckets, estimates, inquiry, unread>>

\* write_parquet_dataset: the directory is renamed away, the new one takes its place.
Withdraw ==
    /\ calibration.at = "computed"
    /\ lake # Gone
    /\ calibration' = [calibration EXCEPT !.at = "withdrawn", !.aside = lake]
    /\ lake' = Gone
    /\ UNCHANGED <<hour, costHealth, runs, buckets, estimates, inquiry, unread>>

ReplaceRows ==
    /\ calibration.at = "withdrawn" \/ (calibration.at = "computed" /\ lake = Gone)
    /\ lake' = [nr |-> runs, rows |-> calibration.rows]
    /\ calibration' = [Resting EXCEPT !.at = "replaced"]
    /\ UNCHANGED <<hour, costHealth, runs, buckets, estimates, inquiry, unread>>

PublishHealth ==
    /\ calibration.at = "replaced"
    /\ costHealth' = costHealth + 1
    /\ calibration' = Resting
    /\ UNCHANGED <<hour, lake, runs, buckets, estimates, inquiry, unread>>

\* A failure puts the directory back; a kill does not.
CalibrationFails ==
    /\ calibration.at # "idle"
    /\ calibration' = Resting
    /\ \/ UNCHANGED lake
       \/ calibration.at = "withdrawn" /\ lake' = calibration.aside
    /\ UNCHANGED <<hour, costHealth, runs, buckets, estimates, inquiry, unread>>

-----------------------------------------------------------------------------
(* _rank_cost_bucket_rows: which row answers.                                *)

\* _requested_cost_regime_aliases
AskedRegime(row, ask) ==
    row.regime = ask.regime \/ (ask.regime = "normal" /\ row.regime = "realized")

\* _row_matches_notional
Fits(row, ask) ==
    IF ask.bucket = "any" THEN row.bucket \in ask.sizes \cup {"all"} ELSE row.bucket = ask.bucket

StaleRow(row) == hour > row.made + StaleAfter
Probe(row) == row.source = "bootstrap_cost_probe"

\* A row whose regime is not asked for, by what its costs were measured with.
SourceTier(row) ==
    CASE row.source \in ActualSources -> 2
      [] Probe(row) -> 4
      [] row.source = "public_spread_proxy" -> 6
      [] OTHER -> 8

OwnTier(row, ask) ==
    CASE AskedRegime(row, ask) -> IF Fits(row, ask) THEN 0 ELSE 1
      [] ~AskedRegime(row, ask) /\ Fits(row, ask) -> SourceTier(row)
      [] OTHER -> IF row.source = "global_default" THEN 10 ELSE SourceTier(row) + 1

\* (a mutant: the demotion takes no account of whether a fresh row is the symbol's)
DemotedByAny(row, rows) ==
    row.own /\ StaleRow(row) /\ ~Probe(row) /\ \E r \in rows : ~StaleRow(r)

\* (a mutant: no row is demoted)
DemotedNever(row, rows) == FALSE

\* A stale row goes behind if there is a fresh one of the symbol.
Demoted(row, rows) ==
    row.own /\ StaleRow(row) /\ ~Probe(row) /\ \E r \in rows : r.own /\ ~StaleRow(r)

\* A global row stands in for the symbol's.
Tier(row, rows, ask) ==
    IF row.own THEN OwnTier(row, ask) + (IF Demoted(row, rows) THEN 10 ELSE 0)
    ELSE IF AskedRegime(row, ask) /\ Fits(row, ask) THEN 11 ELSE 12

\* _source_priority
Priority(row) ==
    CASE row.source \in {"actual_fills", "mixed_actual_proxy"} -> 0
      [] row.source = "actual_okx_fills_fee_missing" -> 1
      [] Probe(row) -> 2
      [] row.source = "public_spread_proxy" -> 3
      [] OTHER -> 4

Before(row, other, rows, ask) ==
    \/ Tier(row, rows, ask) < Tier(other, rows, ask)
    \/ /\ Tier(row, rows, ask) = Tier(other, rows, ask)
       /\ \/ Priority(row) < Priority(other)
          \/ (Priority(row) = Priority(other) /\ DayOf(row) > DayOf(other))

\* Which of them has most samples is left open.
Best(rows, ask) == {row \in rows : \A other \in rows : ~Before(other, row, rows, ask)}

-----------------------------------------------------------------------------
(* estimate_cost_from_cost_bucket_daily_rows and CostEstimate.               *)

\* The fallback_level of the estimate is NONE.
Exact(row, ask) == AskedRegime(row, ask) /\ Fits(row, ask) /\ row.complete

\* A stale probe is not called stale.
CalledStale(row) == StaleRow(row) /\ ~Probe(row)

Blocked(row) == CalledStale(row) \/ row.source = "global_default"

\* _cost_estimate_live_trust
TrustLevel(row, ask) ==
    LET measured == ~Blocked(row) /\ Exact(row, ask) /\ row.slips
        scale == measured /\ row.source = "actual_fills" /\ row.live = "many"
        canary == /\ measured /\ row.live # "few"
                  /\ row.source \in {"actual_fills", "mixed_actual_proxy"}
    IN CASE Blocked(row) -> "BLOCK"
         [] scale -> "SCALE_READY"
         [] canary /\ ~scale -> "CANARY"
         [] OTHER -> "PAPER_ONLY"

\* No row at all answers as the global default does.
NoEstimate(nr) == [rows |-> {}, trust |-> "BLOCK", nr |-> nr]

EstimatesOf(rows, ask, nr) ==
    IF rows = {} THEN {NoEstimate(nr)}
    ELSE {[rows |-> {row}, trust |-> TrustLevel(row, ask), nr |-> nr] : row \in Best(rows, ask)}

-----------------------------------------------------------------------------
(* _cost_estimate_cached and CostBucketCache.get_snapshot.                   *)

NoSignature == [lake |-> 0, health |-> 0]
Unasked == [at |-> "idle", ask |-> {}, sig |-> NoSignature, nr |-> 0, rows |-> {},
            begun |-> 0, answer |-> NoEstimate(0)]

\* What the lake holds, or will hold again when a write that failed is undone.
Current == IF lake = Gone THEN calibration.aside.nr ELSE lake.nr

Inquire(c) ==
    /\ inquiry[c].at = "idle"
    /\ \E ask \in Asks :
           inquiry' = [inquiry EXCEPT ![c] =
               [Unasked EXCEPT !.at = "sign", !.ask = {ask}, !.begun = Current]]
    /\ UNCHANGED <<hour, lake, costHealth, calibration, runs, buckets, estimates, unread>>

\* _cost_bucket_source_signature, one dataset after the other.
SignBuckets(c) ==
    /\ inquiry[c].at = "sign"
    /\ inquiry' = [inquiry EXCEPT ![c].at = "signed", ![c].sig.lake = lake.nr]
    /\ UNCHANGED <<hour, lake, costHealth, calibration, runs, buckets, estimates, unread>>

SignHealth(c) ==
    /\ inquiry[c].at = "signed"
    /\ inquiry' = [inquiry EXCEPT ![c].at = "lookup", ![c].sig.health = costHealth]
    /\ UNCHANGED <<hour, lake, costHealth, calibration, runs, buckets, estimates, unread>>

Known(c) == \E s \in buckets : s.sig = inquiry[c].sig

UseSnapshot(c) ==
    \E s \in buckets :
        /\ s.sig = inquiry[c].sig
        /\ inquiry' = [inquiry EXCEPT ![c].at = "get", ![c].nr = s.nr, ![c].rows = s.rows]

SnapshotFound(c) ==
    /\ inquiry[c].at = "lookup"
    /\ UseSnapshot(c)
    /\ UNCHANGED <<hour, lake, costHealth, calibration, runs, buckets, estimates, unread>>

SnapshotUnknown(c) ==
    /\ inquiry[c].at = "lookup"
    /\ ~Known(c)
    /\ inquiry' = [inquiry EXCEPT ![c].at = "load"]
    /\ UNCHANGED <<hour, lake, costHealth, calibration, runs, buckets, estimates, unread>>

\* _cost_bucket_rows_for_api: whatever is raised is no rows.
LoadRows(c) ==
    /\ inquiry[c].at = "load"
    /\ inquiry' = [inquiry EXCEPT ![c].at = "keep", ![c].nr = lake.nr, ![c].rows = lake.rows]
    /\ unread' = IF lake = Gone THEN unread \cup {inquiry[c].sig} ELSE unread
    /\ UNCHANGED <<hour, lake, costHealth, calibration, runs, buckets, estimates>>

LoadFails(c) ==
    /\ inquiry[c].at = "load"
    /\ inquiry' = [inquiry EXCEPT ![c].at = "keep"]
    /\ unread' = unread \cup {inquiry[c].sig}
    /\ UNCHANGED <<hour, lake, costHealth, calibration, runs, buckets, estimates>>

KeepRows(c) ==
    /\ inquiry[c].at = "keep"
    /\ IF Known(c) THEN UseSnapshot(c) /\ UNCHANGED buckets
       ELSE /\ buckets' = {[sig |-> inquiry[c].sig, nr |-> inquiry[c].nr, rows |-> inquiry[c].rows]}
            /\ inquiry' = [inquiry EXCEPT ![c].at = "get"]
    /\ UNCHANGED <<hour, lake, costHealth, calibration, runs, estimates, unread>>

\* (a mutant: the key names the request alone)
KeyOfAsk(c, e) == e.ask = inquiry[c].ask

\* _cost_estimate_cache_key
SameKey(c, e) == e.ask = inquiry[c].ask /\ e.sig = inquiry[c].sig

EstimateFound(c) ==
    /\ inquiry[c].at = "get"
    /\ \E e \in estimates :
           /\ SameKey(c, e)
           /\ inquiry' = [inquiry EXCEPT ![c].at = "answered", ![c].answer = e.answer]
    /\ UNCHANGED <<hour, lake, costHealth, calibration, runs, buckets, estimates, unread>>

EstimateUnknown(c) ==
    /\ inquiry[c].at = "get"
    /\ \A e \in estimates : ~SameKey(c, e)
    /\ inquiry' = [inquiry EXCEPT ![c].at = "compute"]
    /\ UNCHANGED <<hour, lake, costHealth, calibration, runs, buckets, estimates, unread>>

\* ExactKeyCache.set; which entry makes room, the oldest, is left open.
SetEstimate(kept, e) ==
    IF Cardinality(kept \cup {e}) <= MaxEstimates THEN estimates' = kept \cup {e}
    ELSE \E out \in kept \cup {e} : estimates' = (kept \cup {e}) \ {out}

ComputeEstimate(c) ==
    /\ inquiry[c].at = "compute"
    /\ \E ask \in inquiry[c].ask : \E answer \in EstimatesOf(inquiry[c].rows, ask, inquiry[c].nr) :
           /\ inquiry' = [inquiry EXCEPT ![c].at = "answered", ![c].answer = answer]
           /\ SetEstimate({e \in estimates : ~SameKey(c, e)},
                          [ask |-> inquiry[c].ask, sig |-> inquiry[c].sig, answer |-> answer])
    /\ UNCHANGED <<hour, lake, costHealth, calibration, runs, buckets, unread>>

InquiryEnds(c) ==
    /\ inquiry[c].at = "answered"
    /\ inquiry' = [inquiry EXCEPT ![c] = Unasked]
    /\ UNCHANGED <<hour, lake, costHealth, calibration, runs, buckets, estimates, unread>>

HourPasses ==
    /\ hour < MaxHours
    /\ hour' = hour + 1
    /\ UNCHANGED <<lake, costHealth, calibration, runs, buckets, estimates, inquiry, unread>>

CostInit ==
    /\ hour = 0 /\ lake = Gone /\ costHealth = 0
    /\ calibration = Resting /\ runs = 0
    /\ buckets = {} /\ estimates = {} /\ unread = {}
    /\ inquiry = [c \in Inquirers |-> Unasked]

CalibrationNext == Calibrate \/ Withdraw \/ ReplaceRows \/ PublishHealth \/ CalibrationFails

InquiryNext(c) ==
    \/ Inquire(c) \/ SignBuckets(c) \/ SignHealth(c)
    \/ SnapshotFound(c) \/ SnapshotUnknown(c) \/ LoadRows(c) \/ LoadFails(c) \/ KeepRows(c)
    \/ EstimateFound(c) \/ EstimateUnknown(c) \/ ComputeEstimate(c) \/ InquiryEnds(c)

CostNext == CalibrationNext \/ HourPasses \/ \E c \in Inquirers : InquiryNext(c)

CostSpec == CostInit /\ [][CostNext]_costVars

-----------------------------------------------------------------------------
(* Properties.                                                               *)

CostPhases == {"idle", "sign", "signed", "lookup", "load", "keep", "get", "compute", "answered"}
Signatures == [lake : Nat, health : Nat]
Estimated == [rows : SUBSET CostRows, trust : {"BLOCK", "PAPER_ONLY", "CANARY", "SCALE_READY"}, nr : Nat]
Inquired == [at : CostPhases, ask : SUBSET Asks, sig : Signatures, nr : Nat, rows : SUBSET CostRows,
             begun : Nat, answer : Estimated]

CostTypeOK ==
    /\ {hour, costHealth, runs} \subseteq Nat
    /\ lake \in [nr : Nat, rows : SUBSET CostRows]
    /\ calibration \in [at : {"idle", "computed", "withdrawn", "replaced"}, rows : SUBSET CostRows,
                        aside : [nr : Nat, rows : SUBSET CostRows]]
    /\ buckets \subseteq [sig : Signatures, nr : Nat, rows : SUBSET CostRows]
    /\ estimates \subseteq [ask : SUBSET Asks, sig : Signatures, answer : Estimated]
    /\ inquiry \in [Inquirers -> Inquired]
    /\ unread \subseteq Signatures

\* A row of the symbol is never passed over for a global one, stale and put behind as it
\* may be.
OwnRowFirst ==
    \A ask \in Asks : \A row \in Best(lake.rows, ask) :
        (\E own \in lake.rows : own.own) => row.own

\* An estimate is blocked, for a stale row or the default, only if nothing but the default
\* is fresh for the symbol, or the default was asked for.
BlockedLastResort ==
    \A ask \in Asks : \A row \in Best(lake.rows, ask), fresh \in lake.rows :
        TrustLevel(row, ask) = "BLOCK" /\ fresh.own /\ ~StaleRow(fresh)
            => "global_default" \in {fresh.source, ask.regime}

\* An estimate is made from rows no older than those the lake held when it was asked for,
\* or from none after a read under the same signature found none; but for one asked for
\* while the dataset is away.
EstimateCurrent ==
    \A c \in Inquirers :
        inquiry[c].at = "answered" /\ inquiry[c].sig.lake # 0
            => \/ inquiry[c].answer.nr >= inquiry[c].begun
               \/ inquiry[c].answer.nr = 0 /\ inquiry[c].sig \in unread
=============================================================================
