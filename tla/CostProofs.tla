------------------------------ MODULE CostProofs ------------------------------
(***************************************************************************)
(* Cost estimates: for any rows the calibration may leave in the lake, the *)
(* one that answers is the symbol's, and usable if any fresh one is; for   *)
(* any requests, runs of the calibration and failures, an estimate is made *)
(* from rows no older than those the lake held when it was asked for.      *)
(*                                                                         *)
(* The version a request may have seen never goes back (Latest): a write   *)
(* that is undone puts back what was there.  What is kept under a          *)
(* signature was read after it was taken, or is nothing.                   *)
(***************************************************************************)
EXTENDS CostEstimates, TLAPS

\* The rows the calibration makes.
MadeRows == {r \in CostRows : r.source = "global_default" => r.regime = "global_default"}

LEMMA OwnTiers ==
  ASSUME NEW row, NEW ask
  PROVE  /\ SourceTier(row) \in {2, 4, 6, 8}
         /\ AskedRegime(row, ask) => OwnTier(row, ask) \in {0, 1}
         /\ ~AskedRegime(row, ask) =>
               \/ OwnTier(row, ask) \in {SourceTier(row), SourceTier(row) + 1}
                    /\ (Fits(row, ask) \/ row.source # "global_default")
               \/ OwnTier(row, ask) = 10 /\ row.source = "global_default"
         /\ OwnTier(row, ask) \in 0..10
<1>1. SourceTier(row) \in {2, 4, 6, 8}
  BY DEF SourceTier
<1>2. CASE AskedRegime(row, ask)
  BY <1>1, <1>2 DEF OwnTier
<1>3. CASE ~AskedRegime(row, ask) /\ Fits(row, ask)
  BY <1>1, <1>3 DEF OwnTier
<1>4. CASE ~AskedRegime(row, ask) /\ ~Fits(row, ask)
  BY <1>1, <1>4 DEF OwnTier
<1>5. QED
  BY <1>2, <1>3, <1>4

\* Of the symbol's rows one is never put behind: a fresh one, or any if none is fresh.
LEMMA OwnTierOfFirst ==
  ASSUME NEW rows, NEW ask, NEW own \in rows, own.own
  PROVE  \E first \in rows : first.own /\ Tier(first, rows, ask) \in 0..10
<1>1. PICK first \in rows : first.own /\ ~Demoted(first, rows)
  BY DEF Demoted
<1>2. Tier(first, rows, ask) = OwnTier(first, ask)
  BY <1>1, OwnTiers DEF Tier
<1>3. QED
  BY <1>1, <1>2, OwnTiers

\* Whatever the lake holds, a row of the symbol goes before the global ones.
LEMMA BestIsOwn ==
  ASSUME NEW rows, NEW ask, NEW row \in Best(rows, ask), NEW own \in rows, own.own
  PROVE  row.own
<1> SUFFICES ASSUME ~row.own PROVE FALSE
  OBVIOUS
<1>1. PICK first \in rows : first.own /\ Tier(first, rows, ask) \in 0..10
  BY OwnTierOfFirst
<1>2. Tier(row, rows, ask) \in {11, 12}
  BY DEF Tier
<1>3. Before(first, row, rows, ask)
  BY <1>1, <1>2 DEF Before
<1>4. QED
  BY <1>1, <1>3 DEF Best

\* Nor does a blocked one go before a fresh one of the symbol that is more than the default.
LEMMA BestIsUsable ==
  ASSUME NEW rows \in SUBSET MadeRows, NEW ask, NEW row \in Best(rows, ask), NEW fresh \in rows,
         TrustLevel(row, ask) = "BLOCK", fresh.own, ~StaleRow(fresh)
  PROVE  "global_default" \in {fresh.source, ask.regime}
<1> SUFFICES ASSUME fresh.source # "global_default", ask.regime # "global_default" PROVE FALSE
  OBVIOUS
<1>1. row \in rows /\ row.own
  BY BestIsOwn DEF Best
<1>2. SourceTier(fresh) \in 2..6
  BY DEF MadeRows, CostRows, CostSources, SourceTier, Probe
<1>3. Tier(fresh, rows, ask) = OwnTier(fresh, ask) /\ OwnTier(fresh, ask) \in 0..7
  <2>1. OwnTier(fresh, ask) \in 0..7
    BY <1>2, OwnTiers
  <2>2. QED
    BY <2>1 DEF Tier, Demoted
<1>4. Blocked(row)
  BY DEF TrustLevel
<1>5. CASE CalledStale(row)
  <2>1. Tier(row, rows, ask) = OwnTier(row, ask) + 10
    BY <1>1, <1>5 DEF Tier, Demoted, CalledStale
  <2>2. Before(fresh, row, rows, ask)
    BY <1>3, <2>1, OwnTiers DEF Before
  <2>3. QED
    BY <2>2 DEF Best
<1>6. CASE row.source = "global_default"
  <2>1. SourceTier(row) = 8
    BY <1>6 DEF SourceTier, Probe, ActualSources
  <2>2. ~AskedRegime(row, ask)
    BY <1>1, <1>6 DEF MadeRows, AskedRegime
  <2>3. OwnTier(row, ask) >= 8
    BY <2>1, <2>2, OwnTiers
  <2>4. Tier(row, rows, ask) >= OwnTier(row, ask)
    BY <1>1, OwnTiers DEF Tier
  <2>5. Before(fresh, row, rows, ask)
    BY <1>1, <1>3, <2>3, <2>4, OwnTiers DEF Before, Tier
  <2>6. QED
    BY <2>5 DEF Best
<1>7. QED
  BY <1>4, <1>5, <1>6 DEF Blocked

-----------------------------------------------------------------------------
(* What is read is never older than what was signed.                         *)

Lakes == [nr : Nat, rows : SUBSET MadeRows]

\* The version a request may have seen at most: what is withdrawn may come back.
Latest ==
    IF lake # Gone THEN lake.nr
    ELSE IF calibration.at = "withdrawn" THEN calibration.aside.nr ELSE runs

CostsTyped ==
    /\ hour \in Nat /\ costHealth \in Nat /\ runs \in Nat
    /\ lake \in Lakes
    /\ calibration \in [at : {"idle", "computed", "withdrawn", "replaced"}, rows : SUBSET MadeRows, aside : Lakes]
    /\ inquiry \in [Inquirers -> Inquired]

VersionsInOrder ==
    /\ lake.nr <= runs /\ calibration.aside.nr <= runs
    /\ calibration.at = "withdrawn" => lake = Gone
    /\ calibration.at # "withdrawn" => calibration.aside = Gone

\* Rows kept under a signature are no older, or a read under it found none.
ReadAfter(sig, nr, empty) == sig.lake # 0 => nr >= sig.lake \/ (nr = 0 /\ sig \in empty)

InOrder(r, latest, empty) ==
    /\ r.begun <= latest /\ r.sig.lake <= latest
    /\ r.at \notin {"idle", "sign"} => r.begun <= r.sig.lake \/ r.sig.lake = 0
    /\ r.at \in {"sign", "signed", "lookup", "load"} => r.nr = 0
    /\ r.at \in {"keep", "get", "compute"} => ReadAfter(r.sig, r.nr, empty)
    /\ r.at = "answered" => ReadAfter(r.sig, r.answer.nr, empty)

CachesInOrder ==
    /\ buckets \subseteq [sig : Signatures, nr : Nat, rows : SUBSET CostRows]
    /\ estimates \subseteq [ask : SUBSET Asks, sig : Signatures, answer : Estimated]
    /\ \A s \in buckets : ReadAfter(s.sig, s.nr, unread)
    /\ \A e \in estimates : ReadAfter(e.sig, e.answer.nr, unread)

CostInv ==
    /\ CostsTyped /\ VersionsInOrder /\ CachesInOrder
    /\ \A c \in Inquirers : InOrder(inquiry[c], Latest, unread)

LEMMA RowsAreMade ==
  ASSUME CostsTyped
  PROVE  CostBucketDailyRows \subseteq SUBSET MadeRows
<1>1. \A e \in Evidence, b \in Buckets : RealizedRow(e, b) \in MadeRows
  BY CostAssumption DEF CostsTyped, RealizedRow, MadeRows, CostRows, CostSources, ActualSources, LiveSamples
<1>2. PublicSpreadProxyRow \in MadeRows /\ \A own \in BOOLEAN : GlobalDefaultRow(own) \in MadeRows
  BY DEF CostsTyped, PublicSpreadProxyRow, GlobalDefaultRow, MadeRows, CostRows, CostSources, Buckets, LiveSamples
<1>3. ASSUME NEW found \in CostBucketDailyRows PROVE found \in SUBSET MadeRows
  <2>1. CASE found \in ActualFillRows
    <3>1. PICK shown \in UNION {[sizes -> Evidence] : sizes \in (SUBSET Sizes) \ {{}}} :
            \E e \in Together(shown) :
                found = {RealizedRow(shown[b], b) : b \in DOMAIN shown} \cup {RealizedRow(e, "all")}
      BY <2>1 DEF ActualFillRows
    <3>2. DOMAIN shown \subseteq Sizes /\ \A b \in DOMAIN shown : shown[b] \in Evidence
      BY <3>1
    <3>3. Together(shown) \subseteq Evidence
      BY <3>2 DEF Together
    <3>4. QED
      BY <1>1, <3>1, <3>2, <3>3 DEF Buckets
  <2>2. CASE found \in {{PublicSpreadProxyRow}, {GlobalDefaultRow(TRUE)}, {GlobalDefaultRow(FALSE)}, {}}
    BY <1>2, <2>2
  <2>3. QED
    BY <1>3, <2>1, <2>2 DEF CostBucketDailyRows
<1>4. QED
  BY <1>3

LEMMA UnaskedTyped == Unasked \in Inquired /\ Unasked.at = "idle" /\ Unasked.nr = 0
                      /\ Unasked.begun = 0 /\ Unasked.sig = NoSignature /\ NoSignature.lake = 0
<1>1. NoEstimate(0) \in Estimated
  BY DEF NoEstimate, Estimated
<1>2. QED
  BY <1>1 DEF Unasked, Inquired, NoSignature, Signatures, CostPhases

LEMMA CostInvInit == CostInit => CostInv
<1> SUFFICES ASSUME CostInit PROVE CostInv
  OBVIOUS
<1>1. Gone \in Lakes /\ Gone.nr = 0 /\ Resting.aside = Gone
  BY DEF Gone, Lakes, Resting
<1>2. CostsTyped
  BY <1>1, UnaskedTyped DEF CostInit, CostsTyped, Resting
<1>3. VersionsInOrder
  BY <1>1 DEF CostInit, VersionsInOrder, Resting
<1>4. CachesInOrder
  BY DEF CostInit, CachesInOrder
<1>5. Latest = 0
  BY DEF CostInit, Latest, Resting
<1>6. \A c \in Inquirers : InOrder(inquiry[c], Latest, unread)
  BY <1>5, UnaskedTyped DEF CostInit, InOrder
<1>7. QED
  BY <1>2, <1>3, <1>4, <1>6 DEF CostInv

-----------------------------------------------------------------------------
(* The runs of the calibration.                                              *)

LEMMA LatestTyped ==
  ASSUME CostInv
  PROVE  Latest \in Nat /\ Latest <= runs /\ (lake # Gone => Latest = lake.nr)
BY DEF CostInv, CostsTyped, VersionsInOrder, Latest, Lakes

\* If what may have been seen only grows, the requests that stay as they are are in order.
LEMMA StaysInOrder ==
  ASSUME CostInv, Latest \in Nat, Latest' \in Nat, Latest <= Latest', unread \subseteq unread',
         NEW c \in Inquirers, inquiry'[c] = inquiry[c]
  PROVE  InOrder(inquiry'[c], Latest', unread')
BY DEF CostInv, CostsTyped, Inquired, Signatures, InOrder, ReadAfter

LEMMA CalibrationKeeps ==
  ASSUME CostInv, CalibrationNext
  PROVE  CostInv'
<1>0. Gone \in Lakes /\ Gone.nr = 0 /\ Gone.rows = {}
  BY DEF Gone, Lakes
<1>1. CostsTyped' /\ VersionsInOrder' /\ Latest <= Latest'
  <2>1. CASE Calibrate
    <3>1. PICK found \in CostBucketDailyRows : calibration' = [Resting EXCEPT !.at = "computed",
               !.rows = {r \in lake.rows : DayOf(r) # hour \div DayLength} \cup found]
      BY <2>1 DEF Calibrate
    <3>2. found \in SUBSET MadeRows
      BY RowsAreMade DEF CostInv
    <3>3. /\ calibration'.at = "computed" /\ calibration'.aside = Gone
          /\ calibration' \in [at : {"idle", "computed", "withdrawn", "replaced"}, rows : SUBSET MadeRows, aside : Lakes]
      BY <1>0, <3>1, <3>2 DEF Resting, CostInv, CostsTyped, Lakes
    <3>4. runs' = runs + 1 /\ UNCHANGED <<hour, lake, costHealth, inquiry>> /\ calibration.at = "idle"
      BY <2>1 DEF Calibrate
    <3>5. QED
      BY <1>0, <3>3, <3>4 DEF CostInv, CostsTyped, VersionsInOrder, Latest, Lakes
  <2>2. CASE Withdraw
    <3>1. /\ calibration'.at = "withdrawn" /\ calibration'.aside = lake /\ lake' = Gone
          /\ calibration' \in [at : {"idle", "computed", "withdrawn", "replaced"}, rows : SUBSET MadeRows, aside : Lakes]
          /\ UNCHANGED <<hour, costHealth, runs, inquiry>> /\ lake # Gone
      BY <2>2 DEF Withdraw, CostInv, CostsTyped
    <3>2. QED
      BY <1>0, <3>1 DEF CostInv, CostsTyped, VersionsInOrder, Latest, Lakes
  <2>3. CASE ReplaceRows
    <3>1. lake' = [nr |-> runs, rows |-> calibration.rows] /\ lake' \in Lakes /\ lake'.nr = runs
      BY <2>3 DEF ReplaceRows, CostInv, CostsTyped, Lakes
    <3>2. calibration' = [at |-> "replaced", rows |-> {}, aside |-> Gone]
      BY <2>3 DEF ReplaceRows, Resting
    <3>3. UNCHANGED <<hour, costHealth, runs, inquiry>>
      BY <2>3 DEF ReplaceRows
    <3>4. Latest <= runs
      BY LatestTyped
    <3>5. Latest' = runs
      BY <3>1, <3>2, <3>3 DEF Latest
    <3>6. QED
      BY <1>0, <3>1, <3>2, <3>3, <3>4, <3>5 DEF CostInv, CostsTyped, VersionsInOrder, Lakes
  <2>4. CASE PublishHealth
    BY <1>0, <2>4 DEF PublishHealth, CostInv, CostsTyped, VersionsInOrder, Latest, Lakes, Resting
  <2>5. CASE CalibrationFails
    BY <1>0, <2>5 DEF CalibrationFails, CostInv, CostsTyped, VersionsInOrder, Latest, Lakes, Resting
  <2>6. QED
    BY <2>1, <2>2, <2>3, <2>4, <2>5 DEF CalibrationNext
<1>2. UNCHANGED <<buckets, estimates, inquiry, unread>>
  BY DEF CalibrationNext, Calibrate, Withdraw, ReplaceRows, PublishHealth, CalibrationFails
<1>3. CachesInOrder'
  BY <1>2 DEF CostInv, CachesInOrder, ReadAfter
<1>4. Latest \in Nat /\ Latest' \in Nat
  BY <1>1, LatestTyped DEF CostsTyped, Latest, Lakes
<1>5. \A c \in Inquirers : InOrder(inquiry'[c], Latest', unread')
  BY <1>1, <1>2, <1>4, StaysInOrder
<1>6. QED
  BY <1>1, <1>3, <1>5 DEF CostInv

-----------------------------------------------------------------------------
(* The requests.                                                             *)

LEMMA AnswersCarryVersion ==
  ASSUME NEW rows \in SUBSET CostRows, NEW ask, NEW nr \in Nat, NEW answer \in EstimatesOf(rows, ask, nr)
  PROVE  answer \in Estimated /\ answer.nr = nr
<1>1. CASE rows = {}
  BY <1>1 DEF EstimatesOf, NoEstimate, Estimated
<1>2. CASE rows # {}
  <2>1. PICK row \in Best(rows, ask) : answer = [rows |-> {row}, trust |-> TrustLevel(row, ask), nr |-> nr]
    BY <1>2 DEF EstimatesOf
  <2>2. row \in CostRows
    BY DEF Best
  <2>3. TrustLevel(row, ask) \in {"BLOCK", "PAPER_ONLY", "CANARY", "SCALE_READY"}
    BY DEF TrustLevel
  <2>4. QED
    BY <2>1, <2>2, <2>3 DEF Estimated
<1>3. QED
  BY <1>1, <1>2

\* The lake, the calibration and the time are not the requests' business.
LakeSame == UNCHANGED <<hour, lake, costHealth, calibration, runs>>

\* A request moves on with record r; the others stay as they are.
Becomes(c, r) == inquiry' = [inquiry EXCEPT ![c] = r]

LEMMA RequestKeeps ==
  ASSUME CostInv, NEW c \in Inquirers, NEW r \in Inquired, Becomes(c, r), LakeSame,
         unread \subseteq unread', InOrder(r, Latest', unread'), CachesInOrder'
  PROVE  CostInv'
<1>1. Latest' = Latest /\ Latest \in Nat
  BY LatestTyped DEF LakeSame, Latest
<1>2. CostsTyped' /\ VersionsInOrder'
  BY DEF CostInv, CostsTyped, VersionsInOrder, LakeSame, Becomes
<1>3. \A d \in Inquirers \ {c} : inquiry'[d] = inquiry[d]
  BY DEF CostInv, CostsTyped, Becomes
<1>4. \A d \in Inquirers \ {c} : InOrder(inquiry'[d], Latest', unread')
  BY <1>1, <1>3, StaysInOrder
<1>5. inquiry'[c] = r
  BY DEF CostInv, CostsTyped, Becomes
<1>6. InOrder(inquiry'[c], Latest', unread')
  BY <1>5 DEF InOrder, ReadAfter
<1>7. QED
  BY <1>2, <1>4, <1>6 DEF CostInv

LEMMA CachesStay ==
  ASSUME CostInv, UNCHANGED <<buckets, estimates>>, unread \subseteq unread'
  PROVE  CachesInOrder'
BY DEF CostInv, CachesInOrder, ReadAfter

LEMMA RequestFacts ==
  ASSUME CostInv, NEW c \in Inquirers
  PROVE  inquiry[c] \in Inquired /\ InOrder(inquiry[c], Latest, unread)
BY DEF CostInv, CostsTyped

LEMMA InquireKeeps ==
  ASSUME CostInv, NEW c \in Inquirers, Inquire(c)
  PROVE  CostInv'
<1>1. PICK ask \in Asks :
         Becomes(c, [Unasked EXCEPT !.at = "sign", !.ask = {ask}, !.begun = Current])
  BY DEF Inquire, Becomes
<1>2. LakeSame /\ UNCHANGED <<buckets, estimates, unread>>
  BY DEF Inquire, LakeSame
<1> DEFINE r == [Unasked EXCEPT !.at = "sign", !.ask = {ask}, !.begun = Current]
<1>3. Current \in Nat /\ Current <= Latest /\ Latest' = Latest /\ Latest \in Nat
  BY <1>2, LatestTyped DEF CostInv, CostsTyped, VersionsInOrder, Latest, Current, Lakes, Gone, LakeSame
<1>4. r \in Inquired /\ r.at = "sign" /\ r.nr = 0 /\ r.begun = Current /\ r.sig.lake = 0
  BY <1>3, UnaskedTyped DEF Inquired, Unasked, CostPhases, NoSignature
<1>5. InOrder(r, Latest', unread')
  BY <1>3, <1>4 DEF InOrder
<1> HIDE DEF r
<1>6. QED
  BY <1>1, <1>2, <1>4, <1>5, RequestKeeps, CachesStay DEF r

LEMMA SignBucketsKeeps ==
  ASSUME CostInv, NEW c \in Inquirers, SignBuckets(c)
  PROVE  CostInv'
<1> DEFINE r == [inquiry[c] EXCEPT !.at = "signed", !.sig.lake = lake.nr]
<1>1. Becomes(c, r) /\ inquiry[c].at = "sign"
  BY DEF SignBuckets, Becomes
<1>2. LakeSame /\ UNCHANGED <<buckets, estimates, unread>>
  BY DEF SignBuckets, LakeSame
<1>3. lake.nr \in Nat /\ lake.nr <= Latest /\ Latest' = Latest /\ Latest \in Nat
      /\ (lake.nr # 0 => lake.nr = Latest)
  BY <1>2, LatestTyped DEF CostInv, CostsTyped, Latest, Lakes, Gone, LakeSame
<1>4. inquiry[c] \in Inquired /\ InOrder(inquiry[c], Latest, unread)
  BY RequestFacts
<1>5. r \in Inquired /\ r.at = "signed" /\ r.nr = inquiry[c].nr /\ r.begun = inquiry[c].begun
      /\ r.sig.lake = lake.nr
  BY <1>3, <1>4 DEF Inquired, Signatures, CostPhases
<1>6. InOrder(r, Latest', unread')
  BY <1>1, <1>3, <1>4, <1>5 DEF InOrder
<1> HIDE DEF r
<1>7. QED
  BY <1>1, <1>2, <1>5, <1>6, RequestKeeps, CachesStay

LEMMA SignHealthKeeps ==
  ASSUME CostInv, NEW c \in Inquirers, SignHealth(c)
  PROVE  CostInv'
<1> DEFINE r == [inquiry[c] EXCEPT !.at = "lookup", !.sig.health = costHealth]
<1>1. Becomes(c, r) /\ inquiry[c].at = "signed"
  BY DEF SignHealth, Becomes
<1>2. LakeSame /\ UNCHANGED <<buckets, estimates, unread>>
  BY DEF SignHealth, LakeSame
<1>3. Latest' = Latest /\ costHealth \in Nat
  BY <1>2 DEF CostInv, CostsTyped, Latest, LakeSame
<1>4. inquiry[c] \in Inquired /\ InOrder(inquiry[c], Latest, unread)
  BY RequestFacts
<1>5. r \in Inquired /\ r.at = "lookup" /\ r.nr = inquiry[c].nr /\ r.begun = inquiry[c].begun
      /\ r.sig.lake = inquiry[c].sig.lake
  BY <1>3, <1>4 DEF Inquired, Signatures, CostPhases
<1>6. InOrder(r, Latest', unread')
  BY <1>1, <1>3, <1>4, <1>5 DEF InOrder
<1> HIDE DEF r
<1>7. QED
  BY <1>1, <1>2, <1>5, <1>6, RequestKeeps, CachesStay

\* A snapshot is used under its own signature.
LEMMA UsedSnapshotKeeps ==
  ASSUME CostInv, NEW c \in Inquirers, inquiry[c].at \in {"lookup", "keep"}, UseSnapshot(c),
         LakeSame, UNCHANGED <<buckets, estimates, unread>>
  PROVE  CostInv'
<1>1. PICK s \in buckets : s.sig = inquiry[c].sig /\
         Becomes(c, [inquiry[c] EXCEPT !.at = "get", !.nr = s.nr, !.rows = s.rows])
  BY DEF UseSnapshot, Becomes
<1> DEFINE r == [inquiry[c] EXCEPT !.at = "get", !.nr = s.nr, !.rows = s.rows]
<1>2. Latest' = Latest /\ unread' = unread
  BY DEF Latest, LakeSame
<1>3. inquiry[c] \in Inquired /\ InOrder(inquiry[c], Latest, unread)
  BY RequestFacts
<1>4. s.nr \in Nat /\ s.rows \in SUBSET CostRows /\ ReadAfter(s.sig, s.nr, unread)
  BY DEF CostInv, CachesInOrder
<1>5. r \in Inquired /\ r.at = "get" /\ r.nr = s.nr /\ r.begun = inquiry[c].begun /\ r.sig = inquiry[c].sig
  BY <1>3, <1>4 DEF Inquired, CostPhases
<1>6. InOrder(r, Latest', unread')
  BY <1>1, <1>2, <1>3, <1>4, <1>5 DEF InOrder, ReadAfter
<1> HIDE DEF r
<1>7. QED
  BY <1>1, <1>5, <1>6, RequestKeeps, CachesStay DEF r

LEMMA SnapshotUnknownKeeps ==
  ASSUME CostInv, NEW c \in Inquirers, SnapshotUnknown(c)
  PROVE  CostInv'
<1> DEFINE r == [inquiry[c] EXCEPT !.at = "load"]
<1>1. Becomes(c, r) /\ inquiry[c].at = "lookup"
  BY DEF SnapshotUnknown, Becomes
<1>2. LakeSame /\ UNCHANGED <<buckets, estimates, unread>>
  BY DEF SnapshotUnknown, LakeSame
<1>3. Latest' = Latest
  BY <1>2 DEF Latest, LakeSame
<1>4. inquiry[c] \in Inquired /\ InOrder(inquiry[c], Latest, unread)
  BY RequestFacts
<1>5. r \in Inquired /\ r.at = "load" /\ r.nr = inquiry[c].nr /\ r.begun = inquiry[c].begun
      /\ r.sig = inquiry[c].sig
  BY <1>4 DEF Inquired, CostPhases
<1>6. InOrder(r, Latest', unread')
  BY <1>1, <1>3, <1>4, <1>5 DEF InOrder
<1> HIDE DEF r
<1>7. QED
  BY <1>1, <1>2, <1>5, <1>6, RequestKeeps, CachesStay

\* What is loaded is no older than the signature, or nothing.
LEMMA LoadKeeps ==
  ASSUME CostInv, NEW c \in Inquirers, LoadRows(c) \/ LoadFails(c)
  PROVE  CostInv'
<1>0. inquiry[c] \in Inquired /\ InOrder(inquiry[c], Latest, unread) /\ inquiry[c].at = "load" /\ inquiry[c].nr = 0
  BY RequestFacts DEF InOrder, LoadRows, LoadFails
<1>1. LakeSame /\ UNCHANGED <<buckets, estimates>> /\ unread \subseteq unread'
  BY DEF LoadRows, LoadFails, LakeSame
<1>2. CachesInOrder'
  <2>1. unread' \subseteq unread \cup {inquiry[c].sig}
    BY DEF LoadRows, LoadFails
  <2>2. QED
    BY <1>1, CachesStay
<1>3. Latest' = Latest
  BY <1>1 DEF Latest, LakeSame
<1>4. CASE LoadRows(c)
  <2> DEFINE r == [inquiry[c] EXCEPT !.at = "keep", !.nr = lake.nr, !.rows = lake.rows]
  <2>1. Becomes(c, r) /\ (lake = Gone => inquiry[c].sig \in unread')
    BY <1>4 DEF LoadRows, Becomes
  <2>2. lake.nr \in Nat /\ lake.rows \in SUBSET CostRows
    BY DEF CostInv, CostsTyped, Lakes, MadeRows
  <2>3. r \in Inquired /\ r.at = "keep" /\ r.nr = lake.nr /\ r.begun = inquiry[c].begun
        /\ r.sig = inquiry[c].sig
    BY <1>0, <2>2 DEF Inquired, CostPhases
  <2>4. ReadAfter(r.sig, r.nr, unread')
    BY <1>0, <2>1, <2>2, <2>3 DEF ReadAfter, InOrder, Latest, Gone, Inquired, Signatures
  <2>5. InOrder(r, Latest', unread')
    BY <1>0, <1>3, <2>3, <2>4 DEF InOrder
  <2> HIDE DEF r
  <2>6. QED
    BY <1>1, <1>2, <2>1, <2>3, <2>5, RequestKeeps
<1>5. CASE LoadFails(c)
  <2> DEFINE r == [inquiry[c] EXCEPT !.at = "keep"]
  <2>1. Becomes(c, r) /\ inquiry[c].sig \in unread'
    BY <1>5 DEF LoadFails, Becomes
  <2>2. r \in Inquired /\ r.at = "keep" /\ r.nr = 0 /\ r.begun = inquiry[c].begun
        /\ r.sig = inquiry[c].sig
    BY <1>0 DEF Inquired, CostPhases
  <2>3. InOrder(r, Latest', unread')
    BY <1>0, <1>3, <2>1, <2>2 DEF InOrder, ReadAfter
  <2> HIDE DEF r
  <2>4. QED
    BY <1>1, <1>2, <2>1, <2>2, <2>3, RequestKeeps
<1>6. QED
  BY <1>4, <1>5

LEMMA KeepRowsKeeps ==
  ASSUME CostInv, NEW c \in Inquirers, KeepRows(c)
  PROVE  CostInv'
<1>1. LakeSame /\ UNCHANGED <<estimates, unread>> /\ inquiry[c].at = "keep"
  BY DEF KeepRows, LakeSame
<1>2. CASE Known(c)
  BY <1>1, <1>2, UsedSnapshotKeeps DEF KeepRows
<1>3. CASE ~Known(c)
  <2> DEFINE r == [inquiry[c] EXCEPT !.at = "get"]
             s == [sig |-> inquiry[c].sig, nr |-> inquiry[c].nr, rows |-> inquiry[c].rows]
  <2>1. Becomes(c, r) /\ buckets' = {s}
    BY <1>3 DEF KeepRows, Becomes
  <2>2. inquiry[c] \in Inquired /\ InOrder(inquiry[c], Latest, unread)
    BY RequestFacts
  <2>3. r \in Inquired /\ r.at = "get" /\ r.nr = inquiry[c].nr /\ r.begun = inquiry[c].begun
        /\ r.sig = inquiry[c].sig
    BY <2>2 DEF Inquired, CostPhases
  <2>4. Latest' = Latest /\ unread' = unread
    BY <1>1 DEF Latest, LakeSame
  <2>5. InOrder(r, Latest', unread')
    BY <1>1, <2>2, <2>3, <2>4 DEF InOrder
  <2>6. s \in [sig : Signatures, nr : Nat, rows : SUBSET CostRows] /\ ReadAfter(s.sig, s.nr, unread)
    BY <1>1, <2>2 DEF InOrder, Inquired
  <2>7. CachesInOrder'
    BY <1>1, <2>1, <2>6 DEF CachesInOrder, CostInv
  <2> HIDE DEF r
  <2>8. QED
    BY <1>1, <2>1, <2>3, <2>5, <2>7, RequestKeeps
<1>4. QED
  BY <1>2, <1>3

LEMMA EstimateFoundKeeps ==
  ASSUME CostInv, NEW c \in Inquirers, EstimateFound(c)
  PROVE  CostInv'
<1>1. LakeSame /\ UNCHANGED <<buckets, estimates, unread>> /\ inquiry[c].at = "get"
  BY DEF EstimateFound, LakeSame
<1>2. PICK e \in estimates : e.sig = inquiry[c].sig
                             /\ Becomes(c, [inquiry[c] EXCEPT !.at = "answered", !.answer = e.answer])
  BY DEF EstimateFound, SameKey, Becomes
<1> DEFINE r == [inquiry[c] EXCEPT !.at = "answered", !.answer = e.answer]
<1>3. inquiry[c] \in Inquired /\ InOrder(inquiry[c], Latest, unread)
  BY RequestFacts
<1>4. e.answer \in Estimated /\ ReadAfter(e.sig, e.answer.nr, unread)
  BY DEF CostInv, CachesInOrder
<1>5. r \in Inquired /\ r.at = "answered" /\ r.begun = inquiry[c].begun /\ r.sig = inquiry[c].sig
      /\ r.answer = e.answer
  BY <1>3, <1>4 DEF Inquired, CostPhases
<1>6. Latest' = Latest /\ unread' = unread
  BY <1>1 DEF Latest, LakeSame
<1>7. InOrder(r, Latest', unread')
  BY <1>1, <1>2, <1>3, <1>4, <1>5, <1>6 DEF InOrder
<1> HIDE DEF r
<1>8. QED
  BY <1>1, <1>2, <1>5, <1>7, RequestKeeps, CachesStay DEF r

LEMMA EstimateUnknownKeeps ==
  ASSUME CostInv, NEW c \in Inquirers, EstimateUnknown(c)
  PROVE  CostInv'
<1> DEFINE r == [inquiry[c] EXCEPT !.at = "compute"]
<1>1. Becomes(c, r) /\ inquiry[c].at = "get"
  BY DEF EstimateUnknown, Becomes
<1>2. LakeSame /\ UNCHANGED <<buckets, estimates, unread>>
  BY DEF EstimateUnknown, LakeSame
<1>3. Latest' = Latest /\ unread' = unread
  BY <1>2 DEF Latest, LakeSame
<1>4. inquiry[c] \in Inquired /\ InOrder(inquiry[c], Latest, unread)
  BY RequestFacts
<1>5. r \in Inquired /\ r.at = "compute" /\ r.nr = inquiry[c].nr /\ r.begun = inquiry[c].begun
      /\ r.sig = inquiry[c].sig
  BY <1>4 DEF Inquired, CostPhases
<1>6. InOrder(r, Latest', unread')
  BY <1>1, <1>3, <1>4, <1>5 DEF InOrder
<1> HIDE DEF r
<1>7. QED
  BY <1>1, <1>2, <1>5, <1>6, RequestKeeps, CachesStay

LEMMA ComputeEstimateKeeps ==
  ASSUME CostInv, NEW c \in Inquirers, ComputeEstimate(c)
  PROVE  CostInv'
<1>1. LakeSame /\ UNCHANGED <<buckets, unread>> /\ inquiry[c].at = "compute"
  BY DEF ComputeEstimate, LakeSame
<1>2a. PICK ask \in inquiry[c].ask : \E answer \in EstimatesOf(inquiry[c].rows, ask, inquiry[c].nr) :
         /\ inquiry' = [inquiry EXCEPT ![c].at = "answered", ![c].answer = answer]
         /\ SetEstimate({e \in estimates : ~SameKey(c, e)},
                        [ask |-> inquiry[c].ask, sig |-> inquiry[c].sig, answer |-> answer])
  BY DEF ComputeEstimate
<1>2. PICK answer \in EstimatesOf(inquiry[c].rows, ask, inquiry[c].nr) :
         /\ Becomes(c, [inquiry[c] EXCEPT !.at = "answered", !.answer = answer])
         /\ SetEstimate({e \in estimates : ~SameKey(c, e)},
                        [ask |-> inquiry[c].ask, sig |-> inquiry[c].sig, answer |-> answer])
  BY <1>2a DEF Becomes
<1> DEFINE r == [inquiry[c] EXCEPT !.at = "answered", !.answer = answer]
           new == [ask |-> inquiry[c].ask, sig |-> inquiry[c].sig, answer |-> answer]
<1>3. inquiry[c] \in Inquired /\ InOrder(inquiry[c], Latest, unread)
  BY RequestFacts
<1>4. answer \in Estimated /\ answer.nr = inquiry[c].nr
  BY <1>3, AnswersCarryVersion DEF Inquired
<1>5. r \in Inquired /\ r.at = "answered" /\ r.begun = inquiry[c].begun /\ r.sig = inquiry[c].sig
      /\ r.answer = answer
  BY <1>3, <1>4 DEF Inquired, CostPhases
<1>6. Latest' = Latest /\ unread' = unread
  BY <1>1 DEF Latest, LakeSame
<1>7. ReadAfter(inquiry[c].sig, answer.nr, unread)
  BY <1>1, <1>3, <1>4 DEF InOrder
<1>8. InOrder(r, Latest', unread')
  BY <1>1, <1>3, <1>5, <1>6, <1>7 DEF InOrder
<1>9. new \in [ask : SUBSET Asks, sig : Signatures, answer : Estimated]
      /\ ReadAfter(new.sig, new.answer.nr, unread)
  BY <1>3, <1>4, <1>7 DEF Inquired
<1>10. estimates' \subseteq estimates \cup {new}
  BY <1>2 DEF SetEstimate
<1>11. CachesInOrder'
  BY <1>1, <1>9, <1>10 DEF CachesInOrder, CostInv
<1> HIDE DEF r
<1>12. QED
  BY <1>1, <1>2, <1>5, <1>8, <1>11, RequestKeeps DEF r

LEMMA InquiryEndsKeeps ==
  ASSUME CostInv, NEW c \in Inquirers, InquiryEnds(c)
  PROVE  CostInv'
<1>1. LakeSame /\ UNCHANGED <<buckets, estimates, unread>> /\ Becomes(c, Unasked)
  BY DEF InquiryEnds, LakeSame, Becomes
<1>2. Latest' = Latest /\ Latest \in Nat
  BY <1>1, LatestTyped DEF Latest, LakeSame
<1>3. InOrder(Unasked, Latest', unread')
  BY <1>2, UnaskedTyped DEF InOrder
<1>4. QED
  BY <1>1, <1>3, UnaskedTyped, RequestKeeps, CachesStay

-----------------------------------------------------------------------------
LEMMA CostInvStep == CostInv /\ [CostNext]_costVars => CostInv'
<1> SUFFICES ASSUME CostInv, [CostNext]_costVars PROVE CostInv'
  OBVIOUS
<1>1. CASE CalibrationNext
  BY <1>1, CalibrationKeeps
<1>2. ASSUME NEW c \in Inquirers, InquiryNext(c) PROVE CostInv'
  <2>1. CASE SnapshotFound(c)
    <3>1. /\ inquiry[c].at = "lookup" /\ UseSnapshot(c)
          /\ LakeSame /\ UNCHANGED <<buckets, estimates, unread>>
      BY <2>1 DEF SnapshotFound, LakeSame
    <3>2. QED
      BY <3>1, UsedSnapshotKeeps
  <2>2. QED
    BY <1>2, <2>1, InquireKeeps, SignBucketsKeeps, SignHealthKeeps, SnapshotUnknownKeeps,
       LoadKeeps, KeepRowsKeeps, EstimateFoundKeeps, EstimateUnknownKeeps, ComputeEstimateKeeps,
       InquiryEndsKeeps DEF InquiryNext
<1>3. CASE HourPasses \/ UNCHANGED costVars
  <2>1. /\ UNCHANGED <<lake, costHealth, calibration, runs, buckets, estimates, inquiry, unread>>
        /\ hour' \in Nat
    BY <1>3 DEF HourPasses, costVars, CostInv, CostsTyped
  <2>2. Latest' = Latest /\ CostsTyped' /\ VersionsInOrder' /\ CachesInOrder'
    BY <2>1 DEF CostInv, CostsTyped, VersionsInOrder, CachesInOrder, Latest
  <2>3. QED
    BY <2>1, <2>2 DEF CostInv
<1>4. QED
  BY <1>1, <1>2, <1>3 DEF CostNext

LEMMA CostInvariant == CostSpec => []CostInv
  BY CostInvInit, CostInvStep, PTL DEF CostSpec

-----------------------------------------------------------------------------
\* Whatever rows are stale, a row of the symbol answers before a global one
\* (costs/model.py:1226-1306).
THEOREM OwnRowAnswers == CostSpec => []OwnRowFirst
<1>1. OwnRowFirst
  BY BestIsOwn DEF OwnRowFirst
<1>2. QED
  BY <1>1, PTL

\* An estimate is blocked only if nothing but the default is fresh for the symbol, or the
\* default was asked for (costs/model.py:1236-1297, contracts/models.py:336-402).
THEOREM UsableRowAnswers == CostSpec => []BlockedLastResort
<1>1. CostInv => BlockedLastResort
  BY BestIsUsable DEF BlockedLastResort, CostInv, CostsTyped, Lakes
<1>2. QED
  BY <1>1, CostInvariant, PTL

\* An estimate is of rows no older than those of the request, through both caches, or of
\* none after a failed read (api/main.py:929-963, api/cache.py:191-224).
THEOREM EstimatesCurrent == CostSpec => []EstimateCurrent
<1>1. CostInv => EstimateCurrent
  <2> SUFFICES ASSUME CostInv, NEW c \in Inquirers, inquiry[c].at = "answered", inquiry[c].sig.lake # 0
               PROVE  \/ inquiry[c].answer.nr >= inquiry[c].begun
                      \/ inquiry[c].answer.nr = 0 /\ inquiry[c].sig \in unread
    BY DEF EstimateCurrent
  <2>1. QED
    BY RequestFacts DEF InOrder, ReadAfter, Inquired, Signatures, Estimated
<1>2. QED
  BY <1>1, CostInvariant, PTL
=============================================================================
