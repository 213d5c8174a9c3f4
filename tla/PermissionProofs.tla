--------------------------- MODULE PermissionProofs ---------------------------
(***************************************************************************)
(* The cached permission: for any number of requests and publishers and    *)
(* any thresholds, what an answer is made from is no older than the        *)
(* request, whatever moment a read found the row away or failed, unless a  *)
(* read under its key did.                                                 *)
(*                                                                         *)
(* The key that a request takes first names telemetry and a row that are   *)
(* no older than the request; what the evaluation reads later is no older  *)
(* than the key, or is marked as not found; so an entry is never older     *)
(* than its key, or its key is marked.                                     *)
(***************************************************************************)
EXTENDS RiskPermission, TLAPS

Expired(r) == r = NoRow \/ r.asOf + Threshold < clock

NoTelemetry(key) == <<"telemetry", key>> \in unfound
NoRowFound(key) == <<"row", key>> \in unfound

\* The directory and the one set aside: at most one is there, and it is the last written.
RowsKept ==
    /\ row = NoRow \/ row.nr = published
    /\ aside = NoRow \/ (row = NoRow /\ aside.nr = published)

\* What a request found when it came in, and the telemetry it was shown.
AskedGood(t) ==
    thread[t].at # "idle" =>
       /\ asked[t].since <= clock /\ asked[t].bundle <= bundle /\ asked[t].row.nr <= published
       /\ thread[t].key.bundle <= Larger(bundle, clock)

\* Its key names no older row, or none.
KeyGood(t) ==
    thread[t].at \in {"sign", "lookup", "select", "compute", "answered"} =>
       /\ thread[t].key.row <= published
       /\ thread[t].key.row = 0 \/ asked[t].row.nr <= thread[t].key.row

\* The telemetry an evaluation has read is no older than that of the key.
ToldGood(t) ==
    thread[t].at \in {"select", "compute"} =>
       \/ NoTelemetry(thread[t].key)
       \/ thread[t].key.bundle <= Larger(thread[t].bundle, clock)

\* The row it has selected is no older than that of the key, and the verdict on it.
SelectedGood(t) ==
    thread[t].at = "compute" =>
       /\ thread[t].row.nr <= published
       /\ \/ thread[t].key.row = 0 \/ thread[t].key.row <= thread[t].row.nr
          \/ thread[t].row.nr = 0 /\ NoRowFound(thread[t].key)
       /\ thread[t].row.nr # 0 /\ thread[t].row.nr = published
             => RowStanding \in {thread[t].row, NoRow}
       /\ thread[t].verdict = "none" => thread[t].row.nr = 0
       /\ thread[t].verdict = "active" =>
             /\ asked[t].since <= thread[t].row.asOf + Threshold
             /\ \/ NoTelemetry(thread[t].key)
                \/ thread[t].key.bundle <= thread[t].row.asOf + Threshold

\* An answer is as good as its key.
Good(a, key) ==
    /\ a.row <= published
    /\ \/ key.row = 0 \/ key.row <= a.row
       \/ a.row = 0 /\ NoRowFound(key)
    /\ a.status = "active" => NoTelemetry(key) \/ key.bundle <= a.expires
    /\ a.status = "no_fresh" /\ a.row # 0 /\ a.row = published => Expired(RowStanding)

EntriesGood == \A e \in cache : Good(e.answer, e.key)

AnswerGood(t) ==
    Answered(t) =>
       /\ Good(thread[t].answer, thread[t].key)
       /\ thread[t].answer.status = "active" => asked[t].since <= thread[t].answer.expires

ThreadGood(t) ==
    AskedGood(t) /\ KeyGood(t) /\ ToldGood(t) /\ SelectedGood(t) /\ AnswerGood(t)

RiskInv == RiskTypeOK /\ RowsKept /\ EntriesGood /\ \A t \in Threads : ThreadGood(t)

Requests == [at : {"idle", "key", "sign", "lookup", "select", "compute", "answered"},
             bundle : Nat, key : Keys, row : Rows,
             verdict : {"none", "stale", "active"}, answer : Answers]

Questions == [since : Nat, bundle : Nat, row : Rows]

Runs == [at : {"idle", "read", "row", "rowAway", "meta", "metaAway"},
         perm : Permissions, asOf : Nat, bundle : Nat]

\* What every step does with what the requests have seen.
MovesOn ==
    /\ clock <= clock' /\ bundle <= bundle' /\ unfound \subseteq unfound'
    /\ \/ published' = published /\ RowStanding' \in {RowStanding, NoRow}
       \/ published' = published + 1

-----------------------------------------------------------------------------
(* The operators a permission is made with.                                *)

LEMMA Constants == Threshold \in Nat /\ CriticalDelay \in Nat /\ Ahead \in Nat
BY RiskAssumption

LEMMA Typed ==
  ASSUME RiskTypeOK
  PROVE  /\ clock \in Nat /\ bundle \in Nat /\ published \in Nat /\ meta \in Nat /\ metas \in Nat
         /\ row \in Rows /\ aside \in Rows /\ row.nr \in Nat /\ RowStanding \in Rows
         /\ thread \in [Threads -> Requests] /\ asked \in [Threads -> Questions]
         /\ publisher \in [Publishers -> Runs]
         /\ cache \subseteq [key : Keys, answer : Answers]
         /\ unfound \subseteq {"telemetry", "row"} \X Keys
<1>1. row \in Rows /\ aside \in Rows
  BY DEF RiskTypeOK
<1>2. row.nr \in Nat /\ RowStanding \in Rows
  BY <1>1 DEF Rows, RowStanding
<1>3. QED
  BY <1>1, <1>2 DEF RiskTypeOK, Requests, Questions, Runs

LEMMA NothingYet ==
  /\ NoRow \in Rows /\ NoRow.nr = 0
  /\ NoKey \in Keys /\ NoAnswer \in Answers /\ NoRequest \in Requests
  /\ NoRequest.at = "idle" /\ NotAsked \in Questions /\ Idle \in Runs /\ NoKey.bundle = 0
<1>1. NoRow \in Rows /\ NoKey \in Keys /\ NoAnswer \in Answers /\ NoKey.bundle = 0 /\ NoRow.nr = 0
  BY DEF NoRow, Rows, Permissions, NoKey, Keys, NoAnswer, Answers
<1>2. NoRequest \in Requests /\ NoRequest.at = "idle" /\ NotAsked \in Questions
  BY <1>1 DEF NoRequest, Requests, NotAsked, Questions
<1>3. Idle \in Runs
  BY DEF Idle, Runs, Permissions
<1>4. QED
  BY <1>1, <1>2, <1>3

LEMMA PermissionOfContext == PublishedNow \in Permissions /\ Recomputable \subseteq Permissions
BY DEF PublishedNow, RecomputedNow, Recomputable, EvaluateLivePermission, Permissions

\* What the telemetry shows is no later than the newest bundle or the time.
LEMMA Shown ==
  ASSUME RiskTypeOK, NEW ts \in TelemetryShown
  PROVE  ts \in Nat /\ ts <= Larger(bundle, clock)
BY Typed DEF TelemetryShown, Larger

LEMMA ShownThen ==
  ASSUME RiskTypeOK, NEW b \in Nat, NEW ts \in TelemetryThen(b)
  PROVE  ts \in Nat /\ b <= ts
<1>1. CASE b = 0
  BY <1>1, Shown DEF TelemetryThen
<1>2. CASE b # 0
  BY <1>2 DEF TelemetryThen
<1>3. QED
  BY <1>1, <1>2

LEMMA ComputedAnswer ==
  ASSUME RiskTypeOK, NEW perm \in Permissions, NEW r \in Rows, NEW ts \in Nat
  PROVE  /\ Computed(perm, r, ts) \in Answers /\ Computed(perm, r, ts).row = r.nr
         /\ Computed(perm, r, ts).expires = clock + Threshold
         /\ Computed(perm, r, ts).status \in {"active", "stale"}
         /\ Computed(perm, r, ts).status = "active" => ts <= clock + Threshold
BY Typed, Constants DEF Computed, Answers, Rows

LEMMA PublishedAnswer ==
  ASSUME NEW r \in Rows
  PROVE  /\ Published(r) \in Answers /\ Published(r).row = r.nr
         /\ Published(r).expires = r.asOf + Threshold /\ Published(r).status = "active"
BY Constants DEF Published, Answers, Rows

LEMMA AnswerMarked ==
  ASSUME NEW a \in Answers, NEW s \in {"stale", "no_fresh"}
  PROVE  /\ [a EXCEPT !.status = s] \in Answers /\ [a EXCEPT !.status = s].row = a.row
         /\ [a EXCEPT !.status = s].status = s
BY DEF Answers

\* What is decided: an enforceable answer comes from an active row, and NO_FRESH from none
\* or from one that has expired.
LEMMA DecidedAnswer ==
  ASSUME RiskTypeOK, NEW perm \in Permissions, NEW r \in Rows, NEW ts \in Nat,
         NEW verdict \in {"none", "stale", "active"}
  PROVE  LET a == Decide(perm, r, verdict, ts) IN
         /\ a \in Answers /\ a.row = r.nr
         /\ a.status = "active" =>
               /\ verdict = "active"
               /\ \/ a.expires = clock + Threshold /\ ts <= clock + Threshold
                  \/ a.expires = r.asOf + Threshold
         /\ a.status = "no_fresh" => verdict = "none" \/ r.asOf + Threshold < clock
<1>0. Choose(perm, r, ts) \in Answers /\ Choose(perm, r, ts).row = r.nr
  BY ComputedAnswer, PublishedAnswer DEF Choose
<1>1. CASE verdict = "active"
  BY <1>1, ComputedAnswer, PublishedAnswer DEF Decide, Choose
<1>2. CASE verdict = "stale" /\ ~Ended(r)
  <2>1. Decide(perm, r, verdict, ts) = [Choose(perm, r, ts) EXCEPT !.status = "stale"]
    BY <1>2 DEF Decide
  <2>2. QED
    BY <1>0, <2>1, AnswerMarked
<1>3. CASE verdict = "none" \/ (verdict = "stale" /\ Ended(r))
  <2>1. Decide(perm, r, verdict, ts) = [Computed(perm, r, ts) EXCEPT !.status = "no_fresh"]
    BY <1>3 DEF Decide
  <2>2. verdict = "none" \/ r.asOf + Threshold < clock
    BY <1>3 DEF Ended
  <2>3. Computed(perm, r, ts) \in Answers /\ Computed(perm, r, ts).row = r.nr
    BY ComputedAnswer
  <2>4. QED
    BY <2>1, <2>2, <2>3, AnswerMarked
<1>4. QED
  BY <1>1, <1>2, <1>3

LEMMA Judged ==
  ASSUME RiskTypeOK, NEW r \in Rows, NEW ts \in Nat
  PROVE  /\ Judge(r, ts) \in {"none", "stale", "active"}
         /\ Judge(r, ts) = "active" => clock <= r.asOf + Threshold /\ ts <= r.asOf + Threshold
         /\ Judge(r, ts) = "none" => r = NoRow
BY Typed, Constants DEF Judge, Larger, Ended, Rows

-----------------------------------------------------------------------------
(* What the requests do to their records.                                  *)

\* A record of a request takes the place of another.
LEMMA ThreadSet ==
  ASSUME RiskTypeOK, NEW t \in Threads, NEW r \in Requests,
         thread' = [thread EXCEPT ![t] = r]
  PROVE  /\ thread' \in [Threads -> Requests] /\ thread'[t] = r
         /\ \A u \in Threads \ {t} : thread'[u] = thread[u]
BY Typed

LEMMA RequestTyped ==
  ASSUME RiskTypeOK, NEW t \in Threads, Request(t)
  PROVE  /\ thread' \in [Threads -> Requests] /\ asked' \in [Threads -> Questions]
         /\ thread'[t].at = "key" /\ thread'[t].key.bundle <= Larger(bundle, clock)
         /\ asked'[t] = [since |-> clock, bundle |-> bundle, row |-> RowStanding]
         /\ \A u \in Threads \ {t} : thread'[u] = thread[u] /\ asked'[u] = asked[u]
<1>1. PICK ts \in TelemetryShown :
         thread' = [thread EXCEPT ![t] =
             [NoRequest EXCEPT !.at = "key", !.bundle = ts, !.key.bundle = ts]]
  BY DEF Request
<1> DEFINE r == [NoRequest EXCEPT !.at = "key", !.bundle = ts, !.key.bundle = ts]
<1>2. r \in Requests /\ r.at = "key" /\ r.key.bundle = ts
  BY NothingYet, Shown DEF Requests, Keys
<1>3. thread' = [thread EXCEPT ![t] = r]
  BY <1>1
<1> HIDE DEF r
<1>4. asked' \in [Threads -> Questions]
      /\ asked'[t] = [since |-> clock, bundle |-> bundle, row |-> RowStanding]
      /\ \A u \in Threads \ {t} : asked'[u] = asked[u]
  BY Typed DEF Request, Questions
<1>5. QED
  BY <1>2, <1>3, <1>4, ThreadSet, Shown

LEMMA SignRowTyped ==
  ASSUME RiskTypeOK, NEW t \in Threads, SignRow(t)
  PROVE  /\ thread' \in [Threads -> Requests]
         /\ thread'[t].at = "sign"
         /\ thread'[t].key.bundle = thread[t].key.bundle /\ thread'[t].key.row = row.nr
         /\ \A u \in Threads \ {t} : thread'[u] = thread[u]
<1> DEFINE r == [thread[t] EXCEPT !.at = "sign", !.key.row = row.nr]
<1>1. thread[t] \in Requests /\ row.nr \in Nat
  BY Typed
<1>2. r \in Requests /\ r.at = "sign" /\ r.key.bundle = thread[t].key.bundle /\ r.key.row = row.nr
  BY <1>1 DEF Requests, Keys
<1>3. thread' = [thread EXCEPT ![t] = r]
  BY DEF SignRow
<1> HIDE DEF r
<1>4. QED
  BY <1>2, <1>3, ThreadSet

LEMMA SignMetaTyped ==
  ASSUME RiskTypeOK, NEW t \in Threads, SignMeta(t)
  PROVE  /\ thread' \in [Threads -> Requests]
         /\ thread'[t].at = "lookup"
         /\ thread'[t].key.bundle = thread[t].key.bundle
         /\ thread'[t].key.row = thread[t].key.row
         /\ \A u \in Threads \ {t} : thread'[u] = thread[u]
<1> DEFINE s == MetaSignature
           r == [thread[t] EXCEPT !.at = "lookup", !.key.meta = s]
<1>1. thread[t] \in Requests /\ row.nr \in Nat /\ meta \in Nat
  BY Typed
<1>2. s \in {"meta", "fallback"} \X Nat \X Nat
  BY <1>1 DEF RiskTypeOK, Health, MetaSignature
<1>3. thread' = [thread EXCEPT ![t] = r]
  BY DEF SignMeta
<1> HIDE DEF s
<1>4. /\ r \in Requests /\ r.at = "lookup" /\ r.key.bundle = thread[t].key.bundle
      /\ r.key.row = thread[t].key.row
  BY <1>1, <1>2 DEF Requests, Keys
<1> HIDE DEF r
<1>5. QED
  BY <1>3, <1>4, ThreadSet

LEMMA CachedTyped ==
  ASSUME RiskTypeOK, NEW t \in Threads, AnswerCached(t)
  PROVE  /\ thread' \in [Threads -> Requests]
         /\ \A u \in Threads \ {t} : thread'[u] = thread[u]
         /\ thread'[t].at = "answered" /\ thread'[t].key = thread[t].key
         /\ \E e \in cache : Hit(e, thread[t].key) /\ thread'[t].answer = e.answer
<1>1. PICK e \in cache :
         /\ Hit(e, thread[t].key)
         /\ thread' = [thread EXCEPT ![t] =
                [NoRequest EXCEPT !.at = "answered", !.key = thread[t].key, !.answer = e.answer]]
  BY DEF AnswerCached
<1> DEFINE r == [NoRequest EXCEPT !.at = "answered", !.key = thread[t].key, !.answer = e.answer]
<1>2. thread[t].key \in Keys /\ e.answer \in Answers
  BY Typed DEF Requests
<1>3. r \in Requests /\ r.at = "answered" /\ r.answer = e.answer /\ r.key = thread[t].key
  BY <1>2, NothingYet DEF Requests
<1>4. thread' = [thread EXCEPT ![t] = r]
  BY <1>1
<1> HIDE DEF r
<1>5. QED
  BY <1>1, <1>3, <1>4, ThreadSet

LEMMA EvaluateTyped ==
  ASSUME RiskTypeOK, NEW t \in Threads, Evaluate(t)
  PROVE  /\ thread' \in [Threads -> Requests]
         /\ \A u \in Threads \ {t} : thread'[u] = thread[u]
         /\ thread'[t].at = "select" /\ thread'[t].key = thread[t].key
         /\ thread[t].key \in Keys /\ unfound \subseteq unfound'
         /\ unfound' \subseteq {"telemetry", "row"} \X Keys
         /\ thread'[t].bundle >= bundle \/ <<"telemetry", thread[t].key>> \in unfound'
<1>1. PICK ts \in TelemetryShown :
         /\ thread' = [thread EXCEPT ![t].at = "select", ![t].bundle = ts]
         /\ unfound' = IF ts >= bundle THEN unfound
                       ELSE unfound \cup {<<"telemetry", thread[t].key>>}
  BY DEF Evaluate
<1> DEFINE r == [thread[t] EXCEPT !.at = "select", !.bundle = ts]
<1>2. thread[t] \in Requests /\ thread[t].key \in Keys /\ ts \in Nat
  BY Typed, Shown DEF Requests
<1>3. r \in Requests /\ r.at = "select" /\ r.bundle = ts /\ r.key = thread[t].key
  BY <1>2 DEF Requests
<1>4. thread' = [thread EXCEPT ![t] = r]
  BY <1>1
<1> HIDE DEF r
<1>5. /\ unfound \subseteq unfound' /\ unfound' \subseteq {"telemetry", "row"} \X Keys
      /\ ts >= bundle \/ <<"telemetry", thread[t].key>> \in unfound'
  BY <1>1, <1>2, Typed
<1>6. QED
  BY <1>2, <1>3, <1>4, <1>5, ThreadSet

LEMMA SelectTyped ==
  ASSUME RiskTypeOK, NEW t \in Threads, Select(t)
  PROVE  /\ thread' \in [Threads -> Requests]
         /\ \A u \in Threads \ {t} : thread'[u] = thread[u]
         /\ unfound \subseteq unfound' /\ unfound' \subseteq {"telemetry", "row"} \X Keys
         /\ thread'[t].at = "compute" /\ thread'[t].row \in {row, NoRow}
         /\ thread'[t].verdict = Judge(thread'[t].row, thread[t].bundle)
         /\ thread'[t].key = thread[t].key /\ thread'[t].bundle = thread[t].bundle
         /\ \/ thread'[t].row # NoRow \/ thread[t].key.row = 0
            \/ <<"row", thread[t].key>> \in unfound'
<1>1. PICK s \in {row, NoRow} :
         /\ thread' = [thread EXCEPT ![t].at = "compute", ![t].row = s,
                                     ![t].verdict = Judge(s, thread[t].bundle)]
         /\ unfound' = IF s # NoRow \/ thread[t].key.row = 0 THEN unfound
                       ELSE unfound \cup {<<"row", thread[t].key>>}
  BY DEF Select
<1> DEFINE v == Judge(s, thread[t].bundle)
           r == [thread[t] EXCEPT !.at = "compute", !.row = s, !.verdict = v]
<1>2. thread[t] \in Requests /\ thread[t].key \in Keys /\ thread[t].bundle \in Nat /\ s \in Rows
  BY Typed, NothingYet DEF Requests
<1>3. v \in {"none", "stale", "active"}
  BY <1>2, Judged
<1>4. thread' = [thread EXCEPT ![t] = r]
  BY <1>1
<1> HIDE DEF v
<1>5. r \in Requests /\ r.at = "compute" /\ r.row = s /\ r.verdict = v /\ r.key = thread[t].key
      /\ r.bundle = thread[t].bundle
  BY <1>2, <1>3 DEF Requests
<1> HIDE DEF r
<1>6. thread'[t] = r /\ thread' \in [Threads -> Requests]
      /\ \A u \in Threads \ {t} : thread'[u] = thread[u]
  BY <1>4, <1>5, ThreadSet
<1>7. /\ unfound \subseteq unfound' /\ unfound' \subseteq {"telemetry", "row"} \X Keys
      /\ s # NoRow \/ thread[t].key.row = 0 \/ <<"row", thread[t].key>> \in unfound'
  BY <1>1, <1>2, Typed
<1>8. QED
  BY <1>5, <1>6, <1>7 DEF v

LEMMA ComputeTyped ==
  ASSUME RiskTypeOK, NEW t \in Threads, Compute(t)
  PROVE  \E perm \in Permissions, ts \in Nat :
           LET a == Decide(perm, thread[t].row, thread[t].verdict, ts)
               e == [key |-> thread[t].key, answer |-> a]
           IN /\ thread[t].bundle <= ts
              /\ thread' \in [Threads -> Requests]
              /\ \A u \in Threads \ {t} : thread'[u] = thread[u]
              /\ thread'[t].at = "answered" /\ thread'[t].answer = a
              /\ thread'[t].key = thread[t].key
              /\ a \in Answers /\ e \in [key : Keys, answer : Answers]
              /\ cache' \subseteq cache \cup {e}
<1>0. /\ thread[t].row \in Rows /\ thread[t].key \in Keys /\ thread[t].bundle \in Nat
      /\ thread[t].verdict \in {"none", "stale", "active"}
  BY Typed DEF Requests
<1>1. PICK perm \in Recomputable, ts \in TelemetryThen(thread[t].bundle) :
           LET answer == Decide(perm, thread[t].row, thread[t].verdict, ts)
           IN /\ Store([key |-> thread[t].key, answer |-> answer])
              /\ thread' = [thread EXCEPT ![t] =
                     [NoRequest EXCEPT !.at = "answered", !.key = thread[t].key,
                                       !.answer = answer]]
  BY DEF Compute
<1> DEFINE a == Decide(perm, thread[t].row, thread[t].verdict, ts)
           e == [key |-> thread[t].key, answer |-> a]
           r == [NoRequest EXCEPT !.at = "answered", !.key = thread[t].key, !.answer = a]
<1>2. perm \in Permissions /\ ts \in Nat /\ thread[t].bundle <= ts
  BY <1>0, ShownThen, PermissionOfContext
<1>3. a \in Answers
  BY <1>0, <1>2, DecidedAnswer
<1>4. thread' = [thread EXCEPT ![t] = r] /\ Store(e)
  BY <1>1
<1> HIDE DEF a
<1>5. r \in Requests /\ r.at = "answered" /\ r.answer = a /\ r.key = thread[t].key
  BY <1>0, <1>3, NothingYet DEF Requests
<1>6. e \in [key : Keys, answer : Answers]
  BY <1>0, <1>3
<1> HIDE DEF r, e
<1>7. cache' \subseteq cache \cup {e}
  BY <1>4 DEF Store
<1>8. /\ thread' \in [Threads -> Requests] /\ thread'[t] = r
      /\ \A u \in Threads \ {t} : thread'[u] = thread[u]
  BY <1>4, <1>5, ThreadSet
<1>9. QED
  BY <1>2, <1>3, <1>5, <1>6, <1>7, <1>8 DEF a, e

-----------------------------------------------------------------------------
(* Types, and the row that is there or set aside.                          *)

LEMMA RiskInvInit == RiskInit => RiskInv
<1> SUFFICES ASSUME RiskInit PROVE RiskInv
  OBVIOUS
<1>1. RiskTypeOK
  BY NothingYet DEF RiskInit, RiskTypeOK, Health, Gates, Requests, Questions, Runs
<1>2. RowsKept /\ EntriesGood
  BY DEF RiskInit, RowsKept, EntriesGood
<1>3. \A t \in Threads : ThreadGood(t)
  BY NothingYet DEF RiskInit, ThreadGood, AskedGood, KeyGood, ToldGood, SelectedGood, AnswerGood,
                    Answered
<1>4. QED
  BY <1>1, <1>2, <1>3 DEF RiskInv

\* A run of the publisher.
LEMMA PublishTyped ==
  ASSUME RiskTypeOK, NEW p \in Publishers, Publish(p)
  PROVE  RiskTypeOK'
<1> USE Constants, Typed DEF lakeVars, apiVars, rowVars, metaVars
<1>0. publisher[p] \in Runs /\ publisher \in [Publishers -> Runs]
  OBVIOUS
<1>1. /\ publisher' \in [Publishers -> Runs] /\ {row', aside'} \subseteq Rows
      /\ {published', meta', metas'} \subseteq Nat
  <2>1. CASE PublishRead(p)
    <3>1. PICK ts \in TelemetryShown : publisher' = [publisher EXCEPT ![p] =
               [at |-> "read", perm |-> PublishedNow, asOf |-> 0, bundle |-> ts]]
      BY <2>1 DEF PublishRead
    <3>2. [at |-> "read", perm |-> PublishedNow, asOf |-> 0, bundle |-> ts] \in Runs
      BY Shown, PermissionOfContext DEF Runs
    <3>3. QED
      BY <1>0, <2>1, <3>1, <3>2 DEF PublishRead
  <2>2. CASE PublishAsOf(p)
    BY <1>0, <2>2 DEF PublishAsOf, Runs
  <2>3. CASE WithdrawRow(p)
    BY <1>0, <2>3, NothingYet DEF WithdrawRow, Runs
  <2>4. CASE PublishRow(p)
    <3>1. row' \in Rows
      BY <1>0, <2>4 DEF PublishRow, Annotate, Rows, Runs
    <3>2. publisher' \in [Publishers -> Runs]
      BY <1>0, <2>4 DEF PublishRow, Runs
    <3>3. QED
      BY <2>4, <3>1, <3>2, NothingYet DEF PublishRow
  <2>5. CASE WithdrawMeta(p)
    BY <1>0, <2>5 DEF WithdrawMeta, Runs
  <2>6. CASE PublishMeta(p)
    BY <1>0, <2>6, NothingYet DEF PublishMeta
  <2>7. CASE PublisherStops(p)
    BY <1>0, <2>7, NothingYet DEF PublisherStops
  <2>8. QED
    BY <2>1, <2>2, <2>3, <2>4, <2>5, <2>6, <2>7 DEF Publish
<1>2. UNCHANGED <<clock, health, bundle, apiVars>>
  BY DEF Publish, PublishRead, PublishAsOf, WithdrawRow, PublishRow, WithdrawMeta, PublishMeta,
         PublisherStops
<1>3. QED
  BY <1>1, <1>2 DEF RiskTypeOK, Runs

LEMMA ServeTyped ==
  ASSUME RiskTypeOK, NEW t \in Threads, Serve(t)
  PROVE  RiskTypeOK' /\ UNCHANGED <<clock, lakeVars, publisher>> /\ unfound \subseteq unfound'
<1> USE Typed
<1>1. UNCHANGED <<clock, lakeVars, publisher>>
  BY DEF Serve, Request, SignRow, SignMeta, AnswerCached, Evaluate, Select, Compute, Respond
<1>2. /\ thread' \in [Threads -> Requests] /\ asked' \in [Threads -> Questions]
      /\ cache' \subseteq [key : Keys, answer : Answers] /\ unfound \subseteq unfound'
      /\ unfound' \subseteq {"telemetry", "row"} \X Keys
  <2>1. CASE Request(t)
    BY <2>1, RequestTyped DEF Request
  <2>2. CASE SignRow(t)
    BY <2>2, SignRowTyped DEF SignRow
  <2>3. CASE SignMeta(t)
    BY <2>3, SignMetaTyped DEF SignMeta
  <2>4. CASE AnswerCached(t)
    BY <2>4, CachedTyped DEF AnswerCached
  <2>5. CASE Evaluate(t)
    BY <2>5, EvaluateTyped DEF Evaluate
  <2>6. CASE Select(t)
    BY <2>6, SelectTyped DEF Select
  <2>7. CASE Compute(t)
    BY <2>7, ComputeTyped DEF Compute
  <2>8. CASE Respond(t)
    BY <2>8, NothingYet DEF Respond
  <2>9. QED
    BY <2>1, <2>2, <2>3, <2>4, <2>5, <2>6, <2>7, <2>8 DEF Serve
<1>3. QED
  BY <1>1, <1>2 DEF RiskTypeOK, lakeVars, rowVars, metaVars, Requests, Questions

LEMMA HealthTyped ==
  ASSUME RiskTypeOK, GatesChange \/ AlarmChanges \/ NewBar \/ BarSeen
  PROVE  RiskTypeOK' /\ UNCHANGED <<clock, bundle, rowVars, apiVars>>
<1>1. /\ health \in Health /\ health.sig \in Nat /\ health.changes \in Nat /\ clock \in Nat
      /\ health.bar \in Nat /\ health.alarm \in BOOLEAN
  BY DEF RiskTypeOK, Health
<1>2. health' \in Health
  <2>1. CASE GatesChange
    <3>1. PICK g \in Gates, c \in BOOLEAN, seen \in BOOLEAN :
             health' = [health EXCEPT !.gates = g, !.costOk = c, !.costSeen = seen,
                                      !.sig = @ + 1, !.changes = @ + 1]
      BY <2>1 DEF GatesChange, HealthChanges
    <3>2. health.sig + 1 \in Nat /\ health.changes + 1 \in Nat
      BY <1>1
    <3>3. QED
      BY <1>1, <3>1, <3>2 DEF Health
  <2>2. CASE AlarmChanges
    <3>1. health' = [health EXCEPT !.alarm = ~@, !.changes = @ + 1]
      BY <2>2 DEF AlarmChanges, HealthChanges
    <3>2. health.changes + 1 \in Nat /\ (~health.alarm) \in BOOLEAN
      BY <1>1
    <3>3. QED
      BY <1>1, <3>1, <3>2 DEF Health
  <2>3. CASE NewBar
    BY <1>1, <2>3 DEF NewBar, HealthChanges, Health
  <2>4. CASE BarSeen
    BY <1>1, <2>4 DEF BarSeen, HealthChanges, Health
  <2>5. QED
    BY <2>1, <2>2, <2>3, <2>4
<1>3. UNCHANGED <<clock, bundle, rowVars, metaVars, publisher, apiVars>>
  BY DEF GatesChange, AlarmChanges, NewBar, BarSeen, HealthChanges
<1>4. QED
  BY <1>2, <1>3 DEF RiskTypeOK, rowVars, metaVars, apiVars

LEMMA RestartTyped ==
  ASSUME RiskTypeOK, ApiStarts
  PROVE  RiskTypeOK'
<1>1. {meta', metas'} \subseteq Nat
  BY Typed DEF ApiStarts, metaVars
<1>2. QED
  BY <1>1, NothingYet DEF ApiStarts, RiskTypeOK, rowVars, Requests, Questions

LEMMA RiskTypeStep == RiskTypeOK /\ [RiskNext]_riskVars => RiskTypeOK'
<1> SUFFICES ASSUME RiskTypeOK, [RiskNext]_riskVars PROVE RiskTypeOK'
  OBVIOUS
<1> USE DEF lakeVars, apiVars, rowVars, metaVars
<1>1. CASE UNCHANGED riskVars
  BY <1>1 DEF riskVars, RiskTypeOK
<1>2. CASE \E p \in Publishers : Publish(p)
  BY <1>2, PublishTyped
<1>3. CASE \E t \in Threads : Serve(t)
  BY <1>3, ServeTyped
<1>4. CASE ApiStarts
  BY <1>4, RestartTyped
<1>5. CASE GatesChange \/ AlarmChanges \/ NewBar \/ BarSeen
  BY <1>5, HealthTyped
<1>6. CASE NewTelemetry
  BY <1>6, Constants DEF NewTelemetry, RiskTypeOK
<1>7. CASE TimePasses
  BY <1>7 DEF TimePasses, RiskTypeOK
<1>8. QED
  BY <1>1, <1>2, <1>3, <1>4, <1>5, <1>6, <1>7 DEF RiskNext

\* A run takes no row back, and what it withdraws stands until it is replaced or lost.
LEMMA PublishMoves ==
  ASSUME RiskTypeOK, RowsKept, NEW p \in Publishers, Publish(p)
  PROVE  RowsKept' /\ MovesOn
<1> USE Typed, NothingYet DEF RowsKept, MovesOn, RowStanding, rowVars, metaVars, lakeVars, apiVars
<1>1. CASE PublishRead(p) \/ PublishAsOf(p) \/ WithdrawMeta(p) \/ PublishMeta(p)
  BY <1>1 DEF PublishRead, PublishAsOf, WithdrawMeta, PublishMeta
<1>2. CASE WithdrawRow(p)
  BY <1>2 DEF WithdrawRow
<1>3. CASE PublishRow(p)
  BY <1>3 DEF PublishRow
<1>4. CASE PublisherStops(p)
  BY <1>4 DEF PublisherStops
<1>5. QED
  BY <1>1, <1>2, <1>3, <1>4 DEF Publish

-----------------------------------------------------------------------------
(* The invariant.                                                          *)

\* An answer stays as good as its key.
LEMMA StillGood ==
  ASSUME RiskTypeOK, RiskTypeOK', RowsKept, RowsKept', MovesOn,
         NEW a \in Answers, NEW key \in Keys, Good(a, key)
  PROVE  Good(a, key)'
<1>1. /\ clock \in Nat /\ clock' \in Nat /\ published \in Nat /\ published' \in Nat
      /\ RowStanding \in Rows /\ RowStanding' \in Rows /\ clock <= clock'
      /\ a.row \in Nat /\ key.row \in Nat /\ a.expires \in Nat /\ key.bundle \in Nat
  <2>1. RowStanding' \in Rows
    BY DEF RiskTypeOK, RowStanding
  <2>2. QED
    BY <2>1, Typed DEF RiskTypeOK, MovesOn, Answers, Keys
<1>2. published <= published' /\ (NoTelemetry(key) => NoTelemetry(key)')
      /\ (NoRowFound(key) => NoRowFound(key)')
  BY <1>1 DEF MovesOn, NoTelemetry, NoRowFound
<1>3. a.row = published' => published' = published /\ RowStanding' \in {RowStanding, NoRow}
  BY <1>1 DEF MovesOn, Good
<1>4. Expired(RowStanding) /\ RowStanding' \in {RowStanding, NoRow} => Expired(RowStanding)'
  BY <1>1, Constants DEF Expired, Rows
<1>5. QED
  BY <1>1, <1>2, <1>3, <1>4 DEF Good

\* And so does a request that does not move.
LEMMA RequestStays ==
  ASSUME RiskTypeOK, RiskTypeOK', RowsKept, RowsKept', MovesOn, NEW t \in Threads,
         ThreadGood(t), thread'[t] = thread[t], asked'[t] = asked[t]
  PROVE  ThreadGood(t)'
<1> DEFINE r == thread[t]
           q == asked[t]
<1>0. /\ clock \in Nat /\ clock' \in Nat /\ published \in Nat /\ published' \in Nat
      /\ bundle \in Nat /\ bundle' \in Nat /\ clock <= clock' /\ bundle <= bundle'
      /\ published <= published' /\ unfound \subseteq unfound'
  BY Typed DEF RiskTypeOK, MovesOn
<1>1. /\ r.key \in Keys /\ r.answer \in Answers /\ r.row \in Rows /\ r.bundle \in Nat
      /\ r.key.bundle \in Nat /\ r.key.row \in Nat /\ r.row.nr \in Nat /\ r.row.asOf \in Nat
      /\ q.since \in Nat /\ q.bundle \in Nat /\ q.row.nr \in Nat
  BY Typed DEF Requests, Keys, Rows, Questions
<1>2. AskedGood(t)' /\ KeyGood(t)' /\ ToldGood(t)'
  BY <1>0, <1>1 DEF ThreadGood, AskedGood, KeyGood, ToldGood, Larger, NoTelemetry
<1>3. SelectedGood(t)'
  <2>1. r.row.nr = published' /\ r.row.nr <= published
          => published' = published /\ RowStanding' \in {RowStanding, NoRow}
    BY <1>0, <1>1 DEF MovesOn
  <2>2. QED
    BY <1>0, <1>1, <2>1 DEF ThreadGood, SelectedGood, NoTelemetry, NoRowFound
<1>4. AnswerGood(t)'
  <2>1. Good(r.answer, r.key) => Good(r.answer, r.key)'
    BY <1>1, StillGood
  <2>2. QED
    BY <2>1 DEF ThreadGood, AnswerGood, Answered
<1>5. QED
  BY <1>2, <1>3, <1>4 DEF ThreadGood

\* A step that is not of a request.
LEMMA ContextStep ==
  ASSUME RiskInv, RiskTypeOK', RowsKept', MovesOn, UNCHANGED <<thread, asked, cache>>
  PROVE  RiskInv'
<1>1. \A t \in Threads : ThreadGood(t)'
  BY RequestStays DEF RiskInv
<1>2. EntriesGood'
  BY Typed, StillGood DEF RiskInv, EntriesGood
<1>3. QED
  BY <1>1, <1>2 DEF RiskInv

\* A step of a request, and of no other.
LEMMA RequestMoves ==
  ASSUME RiskInv, NEW t \in Threads, Serve(t), ThreadGood(t)', EntriesGood',
         \A u \in Threads \ {t} : thread'[u] = thread[u] /\ asked'[u] = asked[u]
  PROVE  RiskInv'
<1>1. RiskTypeOK' /\ UNCHANGED <<clock, lakeVars, publisher>> /\ unfound \subseteq unfound'
  BY ServeTyped DEF RiskInv
<1>2. RowsKept' /\ MovesOn
  BY <1>1, Typed DEF RiskInv, RowsKept, MovesOn, RowStanding, lakeVars, rowVars
<1>3. \A u \in Threads \ {t} : ThreadGood(u)'
  BY <1>1, <1>2, RequestStays DEF RiskInv
<1>4. QED
  BY <1>1, <1>2, <1>3 DEF RiskInv

\* Entries stay good when no other is added.
LEMMA EntriesStay ==
  ASSUME RiskInv, NEW t \in Threads, Serve(t), cache' \subseteq cache
  PROVE  EntriesGood'
<1>1. RiskTypeOK' /\ UNCHANGED <<clock, lakeVars, publisher>> /\ unfound \subseteq unfound'
  BY ServeTyped DEF RiskInv
<1>2. RowsKept' /\ MovesOn
  BY <1>1, Typed DEF RiskInv, RowsKept, MovesOn, RowStanding, lakeVars, rowVars
<1>3. QED
  BY <1>1, <1>2, Typed, StillGood DEF RiskInv, EntriesGood

LEMMA RequestStep ==
  ASSUME RiskInv, NEW t \in Threads, Serve(t)
  PROVE  RiskInv'
<1> USE Constants, Typed
<1>r. PICK r, q : r = thread[t] /\ q = asked[t]
  OBVIOUS
<1> USE <1>r
<1>0. RiskTypeOK /\ RiskTypeOK' /\ RowsKept /\ EntriesGood /\ ThreadGood(t)
  BY ServeTyped DEF RiskInv
<1>1. /\ UNCHANGED <<clock, bundle, published, row, aside>> /\ RowStanding' = RowStanding
      /\ unfound \subseteq unfound'
  BY <1>0, ServeTyped DEF lakeVars, rowVars, RowStanding
<1>2. /\ r \in Requests /\ r.key \in Keys /\ r.answer \in Answers /\ r.row \in Rows
      /\ r.bundle \in Nat /\ r.key.bundle \in Nat /\ r.key.row \in Nat /\ r.row.nr \in Nat
      /\ r.row.asOf \in Nat /\ q.since \in Nat /\ q.bundle \in Nat /\ q.row.nr \in Nat
      /\ clock \in Nat /\ bundle \in Nat /\ published \in Nat /\ row.nr \in Nat /\ row \in Rows
      /\ r.verdict \in {"none", "stale", "active"}
  BY <1>0 DEF Requests, Keys, Rows, Questions
<1>3. CASE Request(t)
  <2>1. /\ thread'[t].at = "key" /\ thread'[t].key.bundle <= Larger(bundle, clock)
        /\ asked'[t] = [since |-> clock, bundle |-> bundle, row |-> RowStanding]
        /\ \A u \in Threads \ {t} : thread'[u] = thread[u] /\ asked'[u] = asked[u]
        /\ cache' = cache
    BY <1>0, <1>3, RequestTyped DEF Request
  <2>2. RowStanding.nr <= published
    BY <1>0, <1>2, NothingYet DEF RowsKept, RowStanding
  <2>3. ThreadGood(t)'
    BY <1>1, <1>2, <2>1, <2>2 DEF ThreadGood, AskedGood, KeyGood, ToldGood, SelectedGood,
                                  AnswerGood, Answered, Larger
  <2>4. QED
    BY <2>1, <2>3, EntriesStay, RequestMoves
<1>4. CASE SignRow(t)
  <2>1. /\ r.at = "key" /\ thread'[t].at = "sign"
        /\ thread'[t].key.bundle = r.key.bundle /\ thread'[t].key.row = row.nr
        /\ \A u \in Threads \ {t} : thread'[u] = thread[u] /\ asked'[u] = asked[u]
        /\ cache' = cache /\ asked' = asked
    BY <1>0, <1>4, SignRowTyped DEF SignRow
  <2>2. row.nr = 0 \/ row.nr = published
    BY <1>0, NothingYet DEF RowsKept
  <2>3. ThreadGood(t)'
    BY <1>0, <1>1, <1>2, <2>1, <2>2 DEF ThreadGood, AskedGood, KeyGood, ToldGood, SelectedGood,
                                        AnswerGood, Answered, Larger
  <2>4. QED
    BY <2>1, <2>3, EntriesStay, RequestMoves
<1>5. CASE SignMeta(t)
  <2>1. /\ r.at = "sign" /\ thread'[t].at = "lookup"
        /\ thread'[t].key.bundle = r.key.bundle /\ thread'[t].key.row = r.key.row
        /\ \A u \in Threads \ {t} : thread'[u] = thread[u] /\ asked'[u] = asked[u]
        /\ cache' = cache /\ asked' = asked
    BY <1>0, <1>5, SignMetaTyped DEF SignMeta
  <2>2. ThreadGood(t)'
    BY <1>0, <1>1, <1>2, <2>1 DEF ThreadGood, AskedGood, KeyGood, ToldGood, SelectedGood,
                                  AnswerGood, Answered, Larger
  <2>3. QED
    BY <2>1, <2>2, EntriesStay, RequestMoves
<1>6. CASE AnswerCached(t)
  <2>1. PICK e \in cache : Hit(e, r.key) /\ thread'[t].answer = e.answer
    BY <1>0, <1>6, CachedTyped
  <2>2. /\ r.at = "lookup" /\ thread'[t].at = "answered" /\ thread'[t].key = r.key
        /\ \A u \in Threads \ {t} : thread'[u] = thread[u] /\ asked'[u] = asked[u]
        /\ cache' = cache /\ asked' = asked /\ unfound' = unfound
    BY <1>0, <1>6, CachedTyped DEF AnswerCached
  <2>3. Good(e.answer, r.key) /\ clock <= e.answer.expires /\ e.answer.expires \in Nat
    BY <1>0, <2>1 DEF Hit, EntriesGood, Answers
  <2>4. Good(e.answer, r.key)'
    BY <1>1, <2>2, <2>3 DEF Good, NoTelemetry, NoRowFound, Expired
  <2>5. q.since <= e.answer.expires
    BY <1>0, <1>2, <2>2, <2>3 DEF ThreadGood, AskedGood
  <2>6. ThreadGood(t)'
    BY <1>0, <1>1, <1>2, <2>1, <2>2, <2>4, <2>5 DEF ThreadGood, AskedGood, KeyGood, ToldGood,
                                                    SelectedGood, AnswerGood, Answered, Larger
  <2>7. QED
    BY <2>2, <2>6, EntriesStay, RequestMoves
<1>7. CASE Evaluate(t)
  <2>1. /\ r.at = "lookup" /\ thread'[t].at = "select" /\ thread'[t].key = r.key
        /\ \A u \in Threads \ {t} : thread'[u] = thread[u] /\ asked'[u] = asked[u]
        /\ cache' = cache /\ asked' = asked
        /\ thread'[t].bundle >= bundle \/ NoTelemetry(r.key)'
    BY <1>0, <1>7, EvaluateTyped DEF Evaluate, NoTelemetry
  <2>2. thread'[t].bundle \in Nat
    BY <1>0, <1>7, EvaluateTyped DEF Requests
  <2>3. ToldGood(t)'
    BY <1>0, <1>1, <1>2, <2>1, <2>2 DEF ThreadGood, AskedGood, ToldGood, Larger, NoTelemetry
  <2>4. (AskedGood(t) /\ KeyGood(t) /\ SelectedGood(t) /\ AnswerGood(t))'
    BY <1>0, <1>1, <1>2, <2>1 DEF ThreadGood, AskedGood, KeyGood, SelectedGood, AnswerGood,
                                  Answered, Larger
  <2>5. QED
    BY <2>1, <2>3, <2>4, EntriesStay, RequestMoves DEF ThreadGood
<1>8. CASE Select(t)
  <2> DEFINE s == thread'[t].row
  <2>1. /\ r.at = "select" /\ thread'[t].at = "compute" /\ s \in {row, NoRow}
        /\ thread'[t].key = r.key /\ thread'[t].bundle = r.bundle
        /\ s # NoRow \/ r.key.row = 0 \/ NoRowFound(r.key)'
        /\ \A u \in Threads \ {t} : thread'[u] = thread[u] /\ asked'[u] = asked[u]
        /\ cache' = cache /\ asked' = asked
    BY <1>0, <1>8, SelectTyped DEF Select, NoRowFound
  <2>2. s \in Rows /\ s.nr \in Nat /\ s.asOf \in Nat /\ NoRow.nr = 0
    BY <1>2, <2>1, NothingYet DEF Rows
  <2>3. /\ thread'[t].verdict = "active"
              => clock <= s.asOf + Threshold /\ r.bundle <= s.asOf + Threshold
        /\ thread'[t].verdict = "none" => s = NoRow
    BY <1>0, <1>2, <1>8, <2>2, SelectTyped, Judged
  <2>4. s = NoRow \/ (s = row /\ s = RowStanding /\ s.nr = published)
    BY <1>0, <2>1 DEF RowsKept, RowStanding
  <2> HIDE DEF s
  <2>5. SelectedGood(t)'
    <3>1. s.nr <= published /\ (s.nr # 0 => RowStanding = s)
      BY <1>2, <2>2, <2>4
    <3>2. r.key.row = 0 \/ r.key.row <= s.nr \/ (s.nr = 0 /\ NoRowFound(r.key)')
      BY <1>0, <1>2, <2>1, <2>2, <2>4 DEF ThreadGood, KeyGood
    <3>3. thread'[t].verdict = "active" =>
             /\ q.since <= s.asOf + Threshold
             /\ NoTelemetry(r.key)' \/ r.key.bundle <= s.asOf + Threshold
      <4>1. NoTelemetry(r.key) => NoTelemetry(r.key)'
        BY <1>1 DEF NoTelemetry
      <4>2. QED
        BY <1>0, <1>2, <2>1, <2>2, <2>3, <4>1 DEF ThreadGood, AskedGood, ToldGood, Larger
    <3>4. QED
      BY <1>1, <2>1, <2>2, <2>3, <3>1, <3>2, <3>3 DEF SelectedGood, NoTelemetry, NoRowFound, s
  <2>6. (AskedGood(t) /\ KeyGood(t) /\ AnswerGood(t))'
    BY <1>0, <1>1, <1>2, <2>1 DEF ThreadGood, AskedGood, KeyGood, AnswerGood, Answered, Larger
  <2>7. ToldGood(t)'
    <3>1. NoTelemetry(r.key) \/ r.key.bundle <= Larger(r.bundle, clock)
      BY <1>0, <2>1 DEF ThreadGood, ToldGood
    <3>2. QED
      BY <1>1, <2>1, <3>1 DEF ToldGood, NoTelemetry, Larger
  <2>8. QED
    BY <2>1, <2>5, <2>6, <2>7, EntriesStay, RequestMoves DEF ThreadGood
<1>9. CASE Compute(t)
  <2>1. PICK perm \in Permissions, ts \in Nat, a \in Answers :
           LET e == [key |-> r.key, answer |-> a]
           IN /\ a = Decide(perm, r.row, r.verdict, ts) /\ r.bundle <= ts
              /\ thread' \in [Threads -> Requests]
              /\ \A u \in Threads \ {t} : thread'[u] = thread[u]
              /\ thread'[t].at = "answered" /\ thread'[t].answer = a
              /\ thread'[t].key = r.key
              /\ e \in [key : Keys, answer : Answers]
              /\ cache' \subseteq cache \cup {e}
    BY <1>0, <1>9, ComputeTyped
  <2> DEFINE e == [key |-> r.key, answer |-> a]
  <2>2. /\ a.row = r.row.nr /\ a \in Answers
        /\ a.status = "active" =>
              /\ r.verdict = "active"
              /\ \/ a.expires = clock + Threshold /\ ts <= clock + Threshold
                 \/ a.expires = r.row.asOf + Threshold
        /\ a.status = "no_fresh" => r.verdict = "none" \/ r.row.asOf + Threshold < clock
    BY <1>0, <1>2, <2>1, DecidedAnswer
  <2>3. /\ r.at = "compute" /\ thread'[t].at = "answered" /\ thread'[t].answer = a
        /\ thread'[t].key = r.key /\ cache' \subseteq cache \cup {e} /\ r.bundle <= ts
        /\ \A u \in Threads \ {t} : thread'[u] = thread[u] /\ asked'[u] = asked[u]
        /\ asked' = asked /\ unfound' = unfound
    BY <1>9, <2>1 DEF Compute
  <2>4. AskedGood(t) /\ ToldGood(t) /\ SelectedGood(t)
    BY <1>0 DEF ThreadGood
  <2>5. a.status = "active" => /\ q.since <= a.expires
                               /\ NoTelemetry(r.key) \/ r.key.bundle <= a.expires
    BY <1>2, <2>2, <2>3, <2>4 DEF AskedGood, ToldGood, SelectedGood, Larger
  <2>6. a.status = "no_fresh" /\ a.row # 0 /\ a.row = published => Expired(RowStanding)
    BY <1>2, <2>2, <2>3, <2>4 DEF SelectedGood, Expired
  <2>7. Good(a, r.key)
    BY <1>2, <2>2, <2>3, <2>4, <2>5, <2>6 DEF Good, SelectedGood
  <2>8. Good(a, r.key)'
    BY <1>1, <2>3, <2>7 DEF Good, NoTelemetry, NoRowFound, Expired
  <2>9. EntriesGood'
    <3>1. \A old \in cache : Good(old.answer, old.key)'
      BY <1>0, <1>1, <2>3 DEF EntriesGood, Good, NoTelemetry, NoRowFound, Expired
    <3>2. Good(e.answer, e.key)'
      BY <2>8
    <3> HIDE DEF e
    <3>3. QED
      BY <2>3, <3>1, <3>2 DEF EntriesGood
  <2>10. ThreadGood(t)'
    BY <1>0, <1>1, <1>2, <2>3, <2>5, <2>8 DEF ThreadGood, AskedGood, KeyGood, ToldGood,
                                              SelectedGood, AnswerGood, Answered, Larger
  <2>11. QED
    BY <2>3, <2>9, <2>10, RequestMoves
<1>10. CASE Respond(t)
  <2>1. /\ thread'[t] = NoRequest /\ NoRequest.at = "idle" /\ cache' = cache
        /\ \A u \in Threads \ {t} : thread'[u] = thread[u] /\ asked'[u] = asked[u]
    BY <1>0, <1>10, NothingYet DEF Respond
  <2>2. ThreadGood(t)'
    BY <2>1 DEF ThreadGood, AskedGood, KeyGood, ToldGood, SelectedGood, AnswerGood, Answered
  <2>3. QED
    BY <2>1, <2>2, EntriesStay, RequestMoves
<1>11. QED
  BY <1>3, <1>4, <1>5, <1>6, <1>7, <1>8, <1>9, <1>10 DEF Serve

LEMMA RiskInvStep == RiskInv /\ [RiskNext]_riskVars => RiskInv'
<1> SUFFICES ASSUME RiskInv, [RiskNext]_riskVars PROVE RiskInv'
  OBVIOUS
<1> USE DEF lakeVars, apiVars, rowVars, metaVars
<1>0. RiskTypeOK /\ RowsKept /\ RiskTypeOK'
  BY RiskTypeStep DEF RiskInv
<1>1. ASSUME UNCHANGED rowVars, UNCHANGED apiVars, clock <= clock', bundle <= bundle'
      PROVE  RiskInv'
  BY <1>0, <1>1, ContextStep DEF RowsKept, MovesOn, RowStanding
<1>2. CASE UNCHANGED riskVars
  BY <1>0, <1>1, <1>2, Typed DEF riskVars
<1>3. CASE \E p \in Publishers : Publish(p)
  <2>1. PICK p \in Publishers : Publish(p)
    BY <1>3
  <2>2. UNCHANGED apiVars
    BY <2>1 DEF Publish, PublishRead, PublishAsOf, WithdrawRow, PublishRow, WithdrawMeta,
                PublishMeta, PublisherStops
  <2>3. QED
    BY <1>0, <2>1, <2>2, PublishMoves, ContextStep
<1>4. CASE \E t \in Threads : Serve(t)
  BY <1>4, RequestStep
<1>5. CASE ApiStarts
  <2>1. RowsKept' /\ EntriesGood'
    BY <1>0, <1>5 DEF ApiStarts, RowsKept, EntriesGood
  <2>2. \A t \in Threads : ThreadGood(t)'
    BY <1>5, NothingYet DEF ApiStarts, ThreadGood, AskedGood, KeyGood, ToldGood, SelectedGood,
                            AnswerGood, Answered
  <2>3. QED
    BY <1>0, <2>1, <2>2 DEF RiskInv
<1>6. CASE GatesChange \/ AlarmChanges \/ NewBar \/ BarSeen
  BY <1>0, <1>1, <1>6, HealthTyped, Typed
<1>7. CASE NewTelemetry
  BY <1>0, <1>1, <1>7, Typed, Constants DEF NewTelemetry
<1>8. CASE TimePasses
  BY <1>0, <1>1, <1>8, Typed DEF TimePasses
<1>9. QED
  BY <1>2, <1>3, <1>4, <1>5, <1>6, <1>7, <1>8 DEF RiskNext

-----------------------------------------------------------------------------
\* Every variable keeps to its type, whatever the thresholds.
THEOREM RiskTypeCorrect == RiskSpec => []RiskTypeOK
<1>1. RiskInv => RiskTypeOK
  BY DEF RiskInv
<1>2. QED
  BY <1>1, RiskInvInit, RiskInvStep, PTL DEF RiskSpec

\* An enforceable answer had not expired when it was asked for, and was not older than
\* the telemetry of that moment by more than the threshold, unless that telemetry could
\* not be read (api/main.py:871-897).
THEOREM PermissionFresh == RiskSpec => []ServedFresh
<1>1. RiskInv => ServedFresh
  <2> SUFFICES ASSUME RiskInv, NEW t \in Threads, Answered(t), thread[t].answer.status = "active"
               PROVE  /\ thread[t].answer.expires >= asked[t].since
                      /\ \/ thread[t].answer.expires >= asked[t].bundle
                         \/ thread[t].key.bundle < asked[t].bundle
                         \/ <<"telemetry", thread[t].key>> \in unfound
    BY DEF ServedFresh
  <2>1. /\ thread[t].answer.expires \in Nat /\ thread[t].key.bundle \in Nat
        /\ asked[t].since \in Nat /\ asked[t].bundle \in Nat
    BY Typed DEF RiskInv, Requests, Answers, Keys, Questions
  <2>2. AnswerGood(t)
    BY DEF RiskInv, ThreadGood
  <2>3. QED
    BY <2>1, <2>2 DEF AnswerGood, Good, NoTelemetry
<1>2. QED
  BY <1>1, RiskInvInit, RiskInvStep, PTL DEF RiskSpec

\* No answer comes from a row older than the one that stood when its request came in, and
\* none from no row, though it may be cached under a key that was taken before any of it was
\* read, the row may be away at any of these moments, and any read may fail; but for what a
\* read under its very key has not found.
THEOREM PermissionNotSuperseded == RiskSpec => []NotSuperseded
<1>1. RiskInv => NotSuperseded
  <2> SUFFICES ASSUME RiskInv, NEW t \in Threads, Answered(t), thread[t].key.row # 0
               PROVE  \/ thread[t].answer.row >= asked[t].row.nr
                      \/ thread[t].answer.row = 0 /\ <<"row", thread[t].key>> \in unfound
    BY DEF NotSuperseded
  <2>1. thread[t].answer.row \in Nat /\ thread[t].key.row \in Nat /\ asked[t].row.nr \in Nat
    BY Typed DEF RiskInv, Requests, Answers, Keys, Questions, Rows
  <2>2. AnswerGood(t) /\ KeyGood(t)
    BY DEF RiskInv, ThreadGood
  <2>3. QED
    BY <2>1, <2>2 DEF AnswerGood, KeyGood, Good, NoRowFound, Answered
<1>2. QED
  BY <1>1, RiskInvInit, RiskInvStep, PTL DEF RiskSpec

\* NO_FRESH_PERMISSION is not served over a fresh row that was there, or set aside, when it
\* was asked for, unless a read under its key has not found that row.
THEOREM FreshPermissionServed == RiskSpec => []FreshIsServed
<1>1. RiskInv => FreshIsServed
  <2> SUFFICES ASSUME RiskInv, NEW t \in Threads, Answered(t), thread[t].key.row # 0,
                      thread[t].answer.status = "no_fresh", row = asked[t].row, row # NoRow,
                      ~(thread[t].answer.row = 0 /\ <<"row", thread[t].key>> \in unfound)
               PROVE  row.asOf + Threshold < clock
    BY DEF FreshIsServed
  <2>1. /\ thread[t].answer.row \in Nat /\ thread[t].key.row \in Nat /\ published \in Nat
    BY Typed DEF RiskInv, Requests, Answers, Keys
  <2>2. row.nr = published /\ RowStanding = row
    BY DEF RiskInv, RowsKept, RowStanding
  <2>3. AnswerGood(t) /\ KeyGood(t)
    BY DEF RiskInv, ThreadGood
  <2>4. thread[t].answer.row = published /\ published # 0
    BY <2>1, <2>2, <2>3 DEF AnswerGood, KeyGood, Good, NoRowFound, Answered
  <2>5. QED
    BY <2>2, <2>3, <2>4 DEF AnswerGood, Good, Expired
<1>2. QED
  BY <1>1, RiskInvInit, RiskInvStep, PTL DEF RiskSpec
=============================================================================
