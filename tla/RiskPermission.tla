--------------------------- MODULE RiskPermission ---------------------------
(***************************************************************************)
(* The risk permission of a strategy: publish_risk_permission              *)
(* (risk/publish.py), which writes one row every ten minutes, and the two   *)
(* live-permission handlers of the API (api/main.py), which recompute it,   *)
(* serve the more conservative of the two and cache what they served.       *)
(*                                                                         *)
(* The handlers are synchronous, so that FastAPI runs each request in a    *)
(* thread of its own.  The timer's publisher holds a flock, the run before *)
(* the daily export and a manual one do not.                               *)
(*                                                                         *)
(* A dataset's signature lists the names, times and sizes of its files: it *)
(* is modelled as the number of the write that made them, and is 0, the    *)
(* empty list, whenever the directory is away: lake.py renames the old one *)
(* aside before the new one takes its place.  A reader that finds it away, *)
(* or whose read fails, has no rows (_safe_parquet_lazy).                   *)
(***************************************************************************)
EXTENDS Naturals, FiniteSets

CONSTANTS
    Threads,          \* requests the API serves at one time
    Publishers,       \* runs of publish-risk-permission that may overlap
    Threshold,        \* 90 minutes: DEFAULT_TELEMETRY_STALE_THRESHOLD_SECONDS
    CriticalDelay,    \* age at which the newest market bar is critical
    MaxEntries,       \* of the evaluation cache
    Ahead,            \* by how much the clock of the strategy's host may be ahead
    MaxTime,          \* bound on the clock
    MaxChanges,       \* bound on the changes of the context
    MaxPublishes      \* bound on the rows written

ASSUME RiskAssumption ==
    /\ Threads # {}
    /\ {Threshold, CriticalDelay, MaxEntries} \subseteq Nat \ {0}
    /\ {Ahead, MaxTime, MaxChanges, MaxPublishes} \subseteq Nat

VARIABLES
    clock,     \* the time on every host
    health,    \* what a permission is computed from, and its age
    bundle,    \* bundle_ts of the newest telemetry in the manifest, 0 for none
    row,       \* the row of gold/risk_permission, NoRow while it is away
    aside,     \* the row that the run which replaces it has set aside
    published, \* how many rows were written
    meta,      \* the write of risk_permission_api_dependency_meta, 0: it is away
    metas,     \* how many there were
    publisher, \* where each run of the publisher stands
    cache,     \* _RISK_PERMISSION_EVALUATION_CACHE
    thread,    \* where each request stands, and its answer
    asked,     \* history: what the lake held when a request came in
    unfound    \* history: the keys under which a read found no such telemetry or row

rowVars == <<row, aside, published>>
metaVars == <<meta, metas>>
lakeVars == <<health, bundle, rowVars, metaVars>>
apiVars == <<cache, thread, asked, unfound>>
riskVars == <<clock, lakeVars, publisher, apiVars>>

Permissions == {"ALLOW", "SELL_ONLY", "ABORT"}

\* The worst of the required gates: none at all, DEAD, QUARANTINE, that of the
\* bootstrap, or PAPER_READY and better.
Gates == {"none", "dead", "quarantine", "bootstrap", "ready"}

\* alarm: a compliance violation or a CRITICAL strategy health; sig: of the gates
\* and of the cost health; bar: the close of the newest market bar.  The API takes the
\* bar from market_bar_health (barSeen) and, without a cost_health_daily, judges the
\* cost buckets by rules of its own (costSeen).
Health == [gates : Gates, costOk : BOOLEAN, costSeen : BOOLEAN, alarm : BOOLEAN,
           bar : Nat, barSeen : Nat, sig : Nat, changes : Nat]

Rows == [perm : Permissions, asOf : Nat, bundle : Nat, enforceable : BOOLEAN, nr : Nat]
NoRow == [perm |-> "ABORT", asOf |-> 0, bundle |-> 0, enforceable |-> FALSE, nr |-> 0]

Larger(a, b) == IF a >= b THEN a ELSE b

Rank(perm) == CASE perm = "ALLOW" -> 0 [] perm = "SELL_ONLY" -> 1 [] OTHER -> 2
MoreConservative(p, q) == Rank(p) > Rank(q)

-----------------------------------------------------------------------------
(* The permission a context calls for.                                       *)

EvaluateLivePermission(gates, critical, costOk) ==
    IF critical \/ gates \in {"none", "dead"} THEN "ABORT"
    ELSE IF ~costOk \/ gates \in {"quarantine", "bootstrap"} THEN "SELL_ONLY"
    ELSE "ALLOW"

DataCritical(bar) == health.alarm \/ clock - bar >= CriticalDelay

PublishedNow == EvaluateLivePermission(health.gates, DataCritical(health.bar), health.costOk)

\* Under the bootstrap gate the API takes critical data for a warning.
RecomputedNow ==
    EvaluateLivePermission(health.gates,
                           DataCritical(health.barSeen) /\ health.gates # "bootstrap",
                           health.costSeen)

\* latest_strategy_telemetry_ts: the newest bundle of the manifest; if the manifest is
\* away or its read fails, what strategy_health_daily shows, or nothing (0).
TelemetryShown == 0 .. Larger(bundle, clock)

-----------------------------------------------------------------------------
(* publish_risk_permission.                                                  *)

Idle == [at |-> "idle", perm |-> "ABORT", asOf |-> 0, bundle |-> 0]

PublishRead(p) ==
    /\ publisher[p].at = "idle"
    /\ \E ts \in TelemetryShown :
           publisher' = [publisher EXCEPT ![p] =
               [at |-> "read", perm |-> PublishedNow, asOf |-> 0, bundle |-> ts]]
    /\ UNCHANGED <<clock, lakeVars, apiVars>>

\* as_of_ts is taken after the reads.
PublishAsOf(p) ==
    /\ publisher[p].at = "read"
    /\ publisher' = [publisher EXCEPT ![p].at = "row", ![p].asOf = clock]
    /\ UNCHANGED <<clock, lakeVars, apiVars>>

Annotate(perm, asOf, ts) ==
    [perm |-> perm, asOf |-> asOf, bundle |-> ts, enforceable |-> ts <= asOf + Threshold]

\* The dataset's lock keeps the replacements apart.
NobodyAt(phase) == \A p \in Publishers : publisher[p].at # phase

WithdrawRow(p) ==
    /\ publisher[p].at = "row"
    /\ NobodyAt("rowAway") /\ row # NoRow
    /\ row' = NoRow /\ aside' = row
    /\ publisher' = [publisher EXCEPT ![p].at = "rowAway"]
    /\ UNCHANGED <<clock, health, bundle, published, metaVars, apiVars>>

PublishRow(p) ==
    /\ publisher[p].at = "rowAway" \/ (publisher[p].at = "row" /\ NobodyAt("rowAway") /\ row = NoRow)
    /\ published < MaxPublishes
    /\ LET w == publisher[p]
           a == Annotate(w.perm, w.asOf, w.bundle)
       IN row' = [perm |-> a.perm, asOf |-> a.asOf, bundle |-> a.bundle,
                  enforceable |-> a.enforceable, nr |-> published + 1]
    /\ aside' = NoRow
    /\ published' = published + 1
    /\ publisher' = [publisher EXCEPT ![p].at = "meta"]
    /\ UNCHANGED <<clock, health, bundle, metaVars, apiVars>>

WithdrawMeta(p) ==
    /\ publisher[p].at = "meta"
    /\ NobodyAt("metaAway") /\ meta # 0
    /\ meta' = 0
    /\ publisher' = [publisher EXCEPT ![p].at = "metaAway"]
    /\ UNCHANGED <<clock, health, bundle, rowVars, metas, apiVars>>

PublishMeta(p) ==
    /\ publisher[p].at = "metaAway" \/ (publisher[p].at = "meta" /\ NobodyAt("metaAway") /\ meta = 0)
    /\ meta' = metas + 1
    /\ metas' = metas + 1
    /\ publisher' = [publisher EXCEPT ![p] = Idle]
    /\ UNCHANGED <<clock, health, bundle, rowVars, apiVars>>

\* A failure puts back what was set aside; TimeoutStartSec or a halt of the host does not.
PublisherStops(p) ==
    /\ publisher[p].at # "idle"
    /\ publisher' = [publisher EXCEPT ![p] = Idle]
    /\ aside' = IF publisher[p].at = "rowAway" THEN NoRow ELSE aside
    /\ \/ UNCHANGED <<row, meta>>
       \/ publisher[p].at = "rowAway" /\ row' = aside /\ UNCHANGED meta
       \/ publisher[p].at = "metaAway" /\ meta' = metas /\ UNCHANGED row
    /\ UNCHANGED <<clock, health, bundle, published, metas, apiVars>>

-----------------------------------------------------------------------------
(* A request: the key, the cache, the evaluation.                            *)

Keys == [bundle : Nat, row : Nat, meta : {"meta", "fallback"} \X Nat \X Nat]

\* Without its directory, the signatures of what the permission is made from.
MetaSignature ==
    IF meta = 0 THEN <<"fallback", row.nr, health.sig>> ELSE <<"meta", meta, 0>>

Answers == [perm : Permissions, status : {"active", "stale", "no_fresh"}, expires : Nat, row : Nat]

NoKey == [bundle |-> 0, row |-> 0, meta |-> <<"fallback", 0, 0>>]
NoAnswer == [perm |-> "ABORT", status |-> "stale", expires |-> 0, row |-> 0]
NoRequest == [at |-> "idle", bundle |-> 0, key |-> NoKey,
              row |-> NoRow, verdict |-> "none", answer |-> NoAnswer]
NotAsked == [since |-> 0, bundle |-> 0, row |-> NoRow]

\* The row that is published, or that will be again when its replacement fails.
RowStanding == IF row = NoRow THEN aside ELSE row

\* latest_strategy_telemetry_ts comes first.
Request(t) ==
    /\ thread[t].at = "idle"
    /\ \E ts \in TelemetryShown :
           thread' = [thread EXCEPT ![t] =
               [NoRequest EXCEPT !.at = "key", !.bundle = ts, !.key.bundle = ts]]
    /\ asked' = [asked EXCEPT ![t] =
           [since |-> clock, bundle |-> bundle, row |-> RowStanding]]
    /\ UNCHANGED <<clock, lakeVars, publisher, cache, unfound>>

\* _risk_permission_cache_key: the two signatures, one after the other.
SignRow(t) ==
    /\ thread[t].at = "key"
    /\ thread' = [thread EXCEPT ![t].at = "sign", ![t].key.row = row.nr]
    /\ UNCHANGED <<clock, lakeVars, publisher, cache, asked, unfound>>

SignMeta(t) ==
    /\ thread[t].at = "sign"
    /\ thread' = [thread EXCEPT ![t].at = "lookup", ![t].key.meta = MetaSignature]
    /\ UNCHANGED <<clock, lakeVars, publisher, cache, asked, unfound>>

\* (a mutant: an entry is used for as long as its key is)
HitOfKey(e, key) == e.key = key

\* (a mutant: the dependency meta stands for the permission too)
HitOfMeta(e, key) ==
    e.key.bundle = key.bundle /\ e.key.meta = key.meta /\ e.answer.expires >= clock

\* _cached_live_permission_valid
Hit(e, key) == e.key = key /\ e.answer.expires >= clock

AnswerCached(t) ==
    /\ thread[t].at = "lookup"
    /\ \E e \in cache :
           /\ Hit(e, thread[t].key)
           /\ thread' = [thread EXCEPT ![t] =
                  [NoRequest EXCEPT !.at = "answered", !.key = thread[t].key, !.answer = e.answer]]
    /\ UNCHANGED <<clock, lakeVars, publisher, cache, asked, unfound>>

\* The evaluation reads the telemetry again.
Evaluate(t) ==
    /\ thread[t].at = "lookup"
    /\ \A e \in cache : ~Hit(e, thread[t].key)
    /\ \E ts \in TelemetryShown :
           /\ thread' = [thread EXCEPT ![t].at = "select", ![t].bundle = ts]
           /\ unfound' = IF ts >= bundle THEN unfound
                         ELSE unfound \cup {<<"telemetry", thread[t].key>>}
    /\ UNCHANGED <<clock, lakeVars, publisher, cache, asked>>

\* (a mutant: a permission expires at its expires_at)
EndedAtExpiry(r) == r.asOf + Threshold <= clock

\* _permission_expired
Ended(r) == r.asOf + Threshold < clock

\* _normalize_published_risk_permission
Judge(r, ts) ==
    IF r = NoRow THEN "none"
    ELSE IF /\ r.enforceable /\ ~Ended(r)
            /\ Larger(ts, r.bundle) <= r.asOf + Threshold THEN "active"
    ELSE "stale"

\* The row that is there, or none: it is away, or the read failed.
Select(t) ==
    /\ thread[t].at = "select"
    /\ \E r \in {row, NoRow} :
           /\ thread' = [thread EXCEPT ![t].at = "compute", ![t].row = r,
                                       ![t].verdict = Judge(r, thread[t].bundle)]
           /\ unfound' = IF r # NoRow \/ thread[t].key.row = 0 THEN unfound
                         ELSE unfound \cup {<<"row", thread[t].key>>}
    /\ UNCHANGED <<clock, lakeVars, publisher, cache, asked>>

\* What it is recomputed to; without the gates or the bars, whose reads may fail, ABORT.
Recomputable == {RecomputedNow, "ABORT"}

\* Telemetry that was not found is looked for again.
TelemetryThen(ts) == IF ts = 0 THEN TelemetryShown ELSE {ts}

Computed(perm, r, ts) ==
    [perm |-> perm, status |-> IF ts <= clock + Threshold THEN "active" ELSE "stale",
     expires |-> clock + Threshold, row |-> r.nr]

Published(r) ==
    [perm |-> r.perm, status |-> "active", expires |-> r.asOf + Threshold, row |-> r.nr]

\* The published permission, unless the recomputed one is more conservative.
Choose(perm, r, ts) ==
    IF MoreConservative(perm, r.perm) THEN Computed(perm, r, ts) ELSE Published(r)

\* A stale row may have expired since it was selected.
Decide(perm, r, verdict, ts) ==
    CASE verdict = "active" -> Choose(perm, r, ts)
      [] verdict = "stale" /\ ~Ended(r) -> [Choose(perm, r, ts) EXCEPT !.status = "stale"]
      [] OTHER -> [Computed(perm, r, ts) EXCEPT !.status = "no_fresh"]

\* ExactKeyCache.set: the entry replaces its key's.  Which one makes room when
\* there are too many (the oldest) is left open.
Store(e) ==
    LET kept == {old \in cache : old.key # e.key} \cup {e}
    IN IF Cardinality(kept) <= MaxEntries THEN cache' = kept
       ELSE \E evicted \in kept : cache' = kept \ {evicted}

Compute(t) ==
    /\ thread[t].at = "compute"
    /\ \E perm \in Recomputable, ts \in TelemetryThen(thread[t].bundle) :
           LET answer == Decide(perm, thread[t].row, thread[t].verdict, ts)
           IN /\ Store([key |-> thread[t].key, answer |-> answer])
              /\ thread' = [thread EXCEPT ![t] =
                     [NoRequest EXCEPT !.at = "answered", !.key = thread[t].key,
                                       !.answer = answer]]
    /\ UNCHANGED <<clock, lakeVars, publisher, asked, unfound>>

Respond(t) ==
    /\ thread[t].at = "answered"
    /\ thread' = [thread EXCEPT ![t] = NoRequest]
    /\ asked' = [asked EXCEPT ![t] = NotAsked]
    /\ UNCHANGED <<clock, lakeVars, publisher, cache, unfound>>

\* The process starts again, with _ensure_risk_permission_dependency_meta, which waits
\* for the lock of the dependency meta.
ApiStarts ==
    /\ NobodyAt("metaAway")
    /\ cache' = {}
    /\ thread' = [t \in Threads |-> NoRequest]
    /\ asked' = [t \in Threads |-> NotAsked]
    /\ IF meta = 0 /\ row # NoRow THEN meta' = metas + 1 /\ metas' = metas + 1
       ELSE UNCHANGED metaVars
    /\ UNCHANGED <<clock, health, bundle, rowVars, publisher, unfound>>

-----------------------------------------------------------------------------
(* What the permission depends on, written by other jobs.                    *)

HealthChanges(h) ==
    /\ health' = h
    /\ UNCHANGED <<clock, bundle, rowVars, metaVars, publisher, apiVars>>

\* The gates or the cost health are published.
GatesChange ==
    /\ health.changes < MaxChanges
    /\ \E g \in Gates, c \in BOOLEAN, seen \in BOOLEAN :
           /\ <<g, c, seen>> # <<health.gates, health.costOk, health.costSeen>>
           /\ HealthChanges([health EXCEPT !.gates = g, !.costOk = c, !.costSeen = seen,
                                           !.sig = @ + 1, !.changes = @ + 1])

AlarmChanges ==
    /\ health.changes < MaxChanges
    /\ HealthChanges([health EXCEPT !.alarm = ~@, !.changes = @ + 1])

\* write_market_bars, and after it _write_market_bar_health, whose failure is only logged.
NewBar ==
    /\ health.bar < clock
    /\ HealthChanges([health EXCEPT !.bar = clock])

BarSeen ==
    /\ health.barSeen < health.bar
    /\ HealthChanges([health EXCEPT !.barSeen = health.bar])

NewTelemetry ==
    /\ \E ts \in {clock, clock + Ahead} : ts > bundle /\ bundle' = ts
    /\ UNCHANGED <<clock, health, rowVars, metaVars, publisher, apiVars>>

TimePasses ==
    /\ clock < MaxTime
    /\ clock' = clock + 1
    /\ UNCHANGED <<lakeVars, publisher, apiVars>>

-----------------------------------------------------------------------------

RiskInit ==
    /\ clock = 0
    /\ health = [gates |-> "ready", costOk |-> TRUE, costSeen |-> TRUE, alarm |-> FALSE,
                 bar |-> 0, barSeen |-> 0, sig |-> 0, changes |-> 0]
    /\ bundle = 0
    /\ row = NoRow /\ aside = NoRow /\ published = 0
    /\ meta = 0 /\ metas = 0
    /\ publisher = [p \in Publishers |-> Idle]
    /\ cache = {}
    /\ thread = [t \in Threads |-> NoRequest]
    /\ asked = [t \in Threads |-> NotAsked]
    /\ unfound = {}

Publish(p) ==
    \/ PublishRead(p) \/ PublishAsOf(p) \/ WithdrawRow(p) \/ PublishRow(p)
    \/ WithdrawMeta(p) \/ PublishMeta(p) \/ PublisherStops(p)

Serve(t) ==
    \/ Request(t) \/ SignRow(t) \/ SignMeta(t) \/ AnswerCached(t)
    \/ Evaluate(t) \/ Select(t) \/ Compute(t) \/ Respond(t)

RiskNext ==
    \/ \E p \in Publishers : Publish(p)
    \/ \E t \in Threads : Serve(t)
    \/ ApiStarts
    \/ GatesChange \/ AlarmChanges \/ NewBar \/ BarSeen \/ NewTelemetry \/ TimePasses

RiskSpec == RiskInit /\ [][RiskNext]_riskVars

-----------------------------------------------------------------------------
(* Properties.                                                               *)

Answered(t) == thread[t].at = "answered"

RiskTypeOK ==
    /\ {clock, bundle, published, meta, metas} \subseteq Nat
    /\ health \in Health
    /\ {row, aside} \subseteq Rows
    /\ publisher \in [Publishers -> [at : {"idle", "read", "row", "rowAway", "meta", "metaAway"},
                                     perm : Permissions, asOf : Nat, bundle : Nat]]
    /\ cache \subseteq [key : Keys, answer : Answers]
    /\ thread \in [Threads -> [at : {"idle", "key", "sign", "lookup", "select", "compute", "answered"},
                               bundle : Nat, key : Keys, row : Rows,
                               verdict : {"none", "stale", "active"}, answer : Answers]]
    /\ asked \in [Threads -> [since : Nat, bundle : Nat, row : Rows]]
    /\ unfound \subseteq {"telemetry", "row"} \X Keys

\* An enforceable answer had not expired when it was asked for; nor was it older than the
\* telemetry of that moment by more than the threshold, unless the request, or an
\* evaluation under its key, could not read that telemetry.
ServedFresh ==
    \A t \in Threads :
        Answered(t) /\ thread[t].answer.status = "active"
            => /\ thread[t].answer.expires >= asked[t].since
               /\ \/ thread[t].answer.expires >= asked[t].bundle
                  \/ thread[t].key.bundle < asked[t].bundle
                  \/ <<"telemetry", thread[t].key>> \in unfound

\* A publication ends the use of every answer that was made before it, and of every answer
\* without a row: a request answers from a row no older than the one that stood when it came
\* in, or from none after a read under the very key of such a row found none; but for one
\* that took its key while the row was away.
NotSuperseded ==
    \A t \in Threads :
        Answered(t) /\ thread[t].key.row # 0
            => \/ thread[t].answer.row >= asked[t].row.nr
               \/ thread[t].answer.row = 0 /\ <<"row", thread[t].key>> \in unfound

\* NO_FRESH_PERMISSION is not served while the row that stood when the request came in is
\* there and fresh, unless a read under its key found none, or it took its key while the
\* row was away.
FreshIsServed ==
    \A t \in Threads :
        Answered(t) /\ thread[t].answer.status = "no_fresh" /\ thread[t].key.row # 0
            /\ row = asked[t].row
            => \/ row = NoRow \/ row.asOf + Threshold < clock
               \/ thread[t].answer.row = 0 /\ <<"row", thread[t].key>> \in unfound

\* docs/API_CONTRACT.md:275-277: the API returns the recomputed permission if the
\* current context is more conservative than a still-fresh row.
CurrentContextServed ==
    [][\A t \in Threads :
          ~Answered(t) /\ Answered(t)' /\ thread'[t].answer.status = "active"
              => ~MoreConservative(RecomputedNow, thread'[t].answer.perm)]_riskVars
=============================================================================
