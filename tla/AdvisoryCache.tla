--------------------------- MODULE AdvisoryCache ---------------------------
(***************************************************************************)
(* The strategy advisories of the API: a snapshot of the rows kept in      *)
(* memory under the signature of the datasets they come from, and the      *)
(* filtered responses kept under the snapshot's digest (api/cache.py,      *)
(* _strategy_opportunity_advisory_response in api/main.py).                 *)
(*                                                                         *)
(* Requests are threads of one process.  The signature is taken and the    *)
(* rows are read one dataset after the other without a lock, while other   *)
(* processes rewrite the datasets; only the two dictionaries are locked.   *)
(* A rewrite renames the old directory aside before the new one takes its  *)
(* place: meanwhile, or when it fails, a read finds no rows, and instead   *)
(* of those of Gold it takes those of the latest report pack.              *)
(***************************************************************************)
EXTENDS Naturals, Sequences, FiniteSets

CONSTANTS
    Clients,         \* who asks; each asks for one thing at a time
    Sources,         \* the datasets an advisory is made from
    Gold,            \* the one that holds the rows and their expires_at
    Report,          \* the report packs, which stand in for it
    MaxLife,         \* how long a row is fresh, at most
    MaxResponses,    \* entries of the response cache
    MaxNow,          \* bound on the time
    MaxWrites        \* bound on the versions of each dataset

ASSUME AdvisoryAssumption ==
    /\ {Gold, Report} \subseteq Sources /\ Gold # Report
    /\ {MaxLife, MaxResponses} \subseteq Nat \ {0}
    /\ {MaxNow, MaxWrites} \subseteq Nat

VARIABLES
    now,        \* the time
    version,    \* dataset -> the write whose files are there, its signature; 0 is away
    backup,     \* dataset -> the version a rewrite has set aside, or 0
    writes,     \* dataset -> how often it was written
    written,    \* version of Gold, and of Report -> the expiries of its rows
    snapshot,   \* the one of _STRATEGY_OPPORTUNITY_ADVISORY_CACHE
    responses,  \* _STRATEGY_OPPORTUNITY_ADVISORY_RESPONSE_CACHE
    client,     \* where the thread that serves each client stands
    copy,       \* the last response each client received, with its ETag
    begun,      \* history: the versions that stood when each request came
    missed      \* history: the datasets that reads did not find, under which signature

lakeFiles == <<version, backup, writes, written>>
sourceVars == <<now, lakeFiles>>
requestVars == <<snapshot, responses, client, copy, begun, missed>>
advisoryVars == <<sourceVars, requestVars>>

Versions == [Sources -> Nat]
Unread == [s \in Sources |-> 0]

\* A snapshot holds what was loaded under a signature; its digest names the
\* signature alone.
Snapshots == [sig : Versions, loaded : Versions]
NoSnapshot == [sig |-> Unread, loaded |-> Unread]

Idling == [at |-> "idle", fresh |-> FALSE, since |-> 0, done |-> {},
           sig |-> Unread, loaded |-> Unread]

\* What the lake holds, or will hold again when a rewrite that failed is undone.
Standing(s) == IF version[s] = 0 THEN backup[s] ELSE version[s]

\* The expiries of the rows loaded: those of a report pack if Gold gave none.
GoldRows(loaded) == IF loaded[Gold] = 0 THEN {} ELSE written[Gold][loaded[Gold]]

RowsOf(loaded) ==
    IF GoldRows(loaded) # {} THEN GoldRows(loaded)
    ELSE IF loaded[Report] = 0 THEN {} ELSE written[Report][loaded[Report]]

-----------------------------------------------------------------------------
(* StrategyOpportunityAdvisoryCache.get_snapshot.                            *)

Ask(c) ==
    /\ client[c].at = "idle"
    /\ \E fresh \in BOOLEAN :
           client' = [client EXCEPT ![c] =
               [Idling EXCEPT !.at = "sign", !.fresh = fresh, !.since = now]]
    /\ begun' = [begun EXCEPT ![c] = [s \in Sources |-> Standing(s)]]
    /\ UNCHANGED <<sourceVars, snapshot, responses, copy, missed>>

\* Every dataset is visited once in a phase, Gold before the others; the report packs are
\* the last to be signed, and the next to be loaded.
Unvisited(c) ==
    LET left == Sources \ client[c].done
    IN CASE Gold \in left -> {Gold}
         [] Gold \notin left /\ Report \in left /\ client[c].at = "load" -> {Report}
         [] OTHER -> IF left = {Report} THEN left ELSE left \ {Report}
Visited(c, s) == client[c].done \cup {s}
NowDone(c, s) == IF Visited(c, s) = Sources THEN {} ELSE Visited(c, s)
NowAt(c, s, phase, next) == IF Visited(c, s) = Sources THEN next ELSE phase

\* The report pack is in the signature when Gold is not.
Signature(c, s) == IF s = Report /\ client[c].sig[Gold] # 0 THEN 0 ELSE version[s]

\* _strategy_opportunity_advisory_source_signature
Sign(c) ==
    /\ client[c].at = "sign"
    /\ \E s \in Unvisited(c) :
           client' = [client EXCEPT ![c].sig[s] = Signature(c, s),
                                    ![c].done = NowDone(c, s),
                                    ![c].at = NowAt(c, s, "sign", "lookup")]
    /\ UNCHANGED <<sourceVars, snapshot, responses, copy, begun, missed>>

\* (a mutant: a snapshot is used while its rows are not of another version)
CachedOfGold(c) == snapshot # NoSnapshot /\ snapshot.sig[Gold] = client[c].sig[Gold]

Cached(c) == snapshot # NoSnapshot /\ snapshot.sig = client[c].sig

SnapshotHit(c) ==
    /\ client[c].at = "lookup"
    /\ Cached(c)
    /\ client' = [client EXCEPT ![c].at = "clear", ![c].loaded = snapshot.loaded]
    /\ UNCHANGED <<sourceVars, snapshot, responses, copy, begun, missed>>

SnapshotMiss(c) ==
    /\ client[c].at = "lookup"
    /\ ~Cached(c)
    /\ client' = [client EXCEPT ![c].at = "load"]
    /\ UNCHANGED <<sourceVars, snapshot, responses, copy, begun, missed>>

\* No report pack is opened if Gold gave rows.
Unneeded(s, loaded) == s = Report /\ GoldRows(loaded) # {}

\* _strategy_opportunity_advisory_rows_uncached: whatever is raised is no rows.
Load(c) ==
    /\ client[c].at = "load"
    /\ \E s \in Unvisited(c) :
       \E v \in IF Unneeded(s, client[c].loaded) THEN {0} ELSE {version[s], 0} :
           /\ client' = [client EXCEPT ![c].loaded[s] = v,
                                       ![c].done = NowDone(c, s),
                                       ![c].at = NowAt(c, s, "load", "keep")]
           /\ missed' = IF v # 0 \/ client[c].sig[s] = 0 \/ Unneeded(s, client[c].loaded)
                        THEN missed ELSE missed \cup {<<s, client[c].sig>>}
    /\ UNCHANGED <<sourceVars, snapshot, responses, copy, begun>>

\* Another thread may have kept the same signature; a slower one may replace a
\* newer snapshot by its own.
KeepSnapshot(c) ==
    /\ client[c].at = "keep"
    /\ IF Cached(c)
       THEN /\ client' = [client EXCEPT ![c].at = "clear", ![c].loaded = snapshot.loaded]
            /\ UNCHANGED snapshot
       ELSE /\ client' = [client EXCEPT ![c].at = "clear"]
            /\ snapshot' = [sig |-> client[c].sig, loaded |-> client[c].loaded]
    /\ UNCHANGED <<sourceVars, responses, copy, begun, missed>>

-----------------------------------------------------------------------------
(* _strategy_opportunity_advisory_response: the filtered response.           *)

\* clear_except_source_sha
ClearOthers(c) ==
    /\ client[c].at = "clear"
    /\ responses' = {r \in responses : r.sig = client[c].sig}
    /\ client' = [client EXCEPT ![c].at = "get"]
    /\ UNCHANGED <<sourceVars, snapshot, copy, begun, missed>>

\* The entry of the request's key: the digest and the filters.
Keyed(c, r) == r.sig = client[c].sig /\ r.fresh = client[c].fresh

\* _fresh_only_response_valid_until: at the time of the request, the response has not
\* outlived its first row.
Valid(c, r) == r.fresh => \A e \in r.expiries : client[c].since < e

\* The digest and the bytes of a response are its ETag; If-None-Match brings the
\* one the client holds.
SameETag(c, r) ==
    copy[c].sig = r.sig /\ copy[c].loaded = r.loaded /\ copy[c].expiries = r.expiries

\* 304, or the response.
Reply(c, r) ==
    /\ copy' = IF SameETag(c, r) THEN copy
               ELSE [copy EXCEPT ![c] =
                   [sig |-> r.sig, loaded |-> r.loaded, expiries |-> r.expiries]]
    /\ client' = [client EXCEPT ![c].at = "answered"]

ResponseHit(c) ==
    /\ client[c].at = "get"
    /\ \E r \in responses : Keyed(c, r) /\ Valid(c, r) /\ Reply(c, r)
    /\ UNCHANGED <<sourceVars, snapshot, responses, begun, missed>>

\* An entry that is not valid any more is removed.
ResponseMiss(c) ==
    /\ client[c].at = "get"
    /\ \A r \in responses : Keyed(c, r) => ~Valid(c, r)
    /\ responses' = {r \in responses : ~Keyed(c, r)}
    /\ client' = [client EXCEPT ![c].at = "filter"]
    /\ UNCHANGED <<sourceVars, snapshot, copy, begun, missed>>

\* (a mutant: a row is dropped at the instant it expires)
FilteredAfter(c, all) == {e \in all : client[c].fresh => e > client[c].since}

\* _filter_strategy_opportunity_advisory_rows
Filtered(c, all) == {e \in all : client[c].fresh => e >= client[c].since}

\* Which entry makes room when there are too many (the oldest) is left open.
Keep(kept, r) ==
    IF Cardinality(kept \cup {r}) <= MaxResponses THEN responses' = kept \cup {r}
    ELSE \E evicted \in kept \cup {r} : responses' = (kept \cup {r}) \ {evicted}

\* StrategyOpportunityAdvisoryResponseCache.set
SetResponse(c) ==
    /\ client[c].at = "filter"
    /\ LET rows == Filtered(c, RowsOf(client[c].loaded))
           r == [sig |-> client[c].sig, fresh |-> client[c].fresh, loaded |-> client[c].loaded,
                 expiries |-> rows]
       IN /\ Keep({old \in responses : ~Keyed(c, old)}, r)
          /\ Reply(c, r)
    /\ UNCHANGED <<sourceVars, snapshot, begun, missed>>

Leave(c) ==
    /\ client[c].at = "answered"
    /\ client' = [client EXCEPT ![c] = Idling]
    /\ begun' = [begun EXCEPT ![c] = Unread]
    /\ UNCHANGED <<sourceVars, snapshot, responses, copy, missed>>

-----------------------------------------------------------------------------
(* Other processes, and the time.                                            *)

SetAside(s) ==
    /\ s # Report /\ version[s] # 0
    /\ version' = [version EXCEPT ![s] = 0]
    /\ backup' = [backup EXCEPT ![s] = version[s]]
    /\ UNCHANGED <<now, writes, written, requestVars>>

\* The new directory takes its place, or a report pack is there.
Rewrite(s) ==
    /\ s = Report \/ version[s] = 0
    /\ writes[s] < MaxWrites
    /\ version' = [version EXCEPT ![s] = writes[s] + 1]
    /\ backup' = [backup EXCEPT ![s] = 0]
    /\ writes' = [writes EXCEPT ![s] = @ + 1]
    /\ IF s \in {Gold, Report}
       THEN \E rows \in SUBSET (now + 1 .. now + MaxLife) :
                written' = [written EXCEPT ![s] = Append(@, rows)]
       ELSE UNCHANGED written
    /\ UNCHANGED <<now, requestVars>>

\* A failure puts the directory back; a kill does not.
RewriteStops(s) ==
    /\ backup[s] # 0
    /\ \E v \in {0, backup[s]} : version' = [version EXCEPT ![s] = v]
    /\ backup' = [backup EXCEPT ![s] = 0]
    /\ UNCHANGED <<now, writes, written, requestVars>>

NowPasses ==
    /\ now < MaxNow
    /\ now' = now + 1
    /\ UNCHANGED <<lakeFiles, requestVars>>

AdvisoryInit ==
    /\ now = 0
    /\ version = Unread /\ backup = Unread /\ writes = Unread
    /\ written = [s \in {Gold, Report} |-> <<>>]
    /\ snapshot = NoSnapshot
    /\ responses = {}
    /\ client = [c \in Clients |-> Idling]
    /\ copy = [c \in Clients |-> [sig |-> Unread, loaded |-> Unread, expiries |-> {}]]
    /\ begun = [c \in Clients |-> Unread]
    /\ missed = {}

Advise(c) ==
    \/ Ask(c) \/ Sign(c) \/ SnapshotHit(c) \/ SnapshotMiss(c) \/ Load(c) \/ KeepSnapshot(c)
    \/ ClearOthers(c) \/ ResponseHit(c) \/ ResponseMiss(c) \/ SetResponse(c) \/ Leave(c)

AdvisoryNext ==
    \/ \E c \in Clients : Advise(c)
    \/ \E s \in Sources : SetAside(s) \/ Rewrite(s) \/ RewriteStops(s)
    \/ NowPasses

AdvisorySpec == AdvisoryInit /\ [][AdvisoryNext]_advisoryVars

-----------------------------------------------------------------------------
(* Properties.                                                               *)

Phases == {"idle", "sign", "lookup", "load", "keep", "clear", "get", "filter", "answered"}

Responses == [sig : Versions, fresh : BOOLEAN, loaded : Versions, expiries : SUBSET Nat]
Requested == [at : Phases, fresh : BOOLEAN, since : Nat,
              done : SUBSET Sources, sig : Versions, loaded : Versions]

AdvisoryTypeOK ==
    /\ now \in Nat
    /\ {version, backup, writes} \subseteq Versions
    /\ written \in [{Gold, Report} -> Seq(SUBSET Nat)]
    /\ snapshot \in Snapshots
    /\ responses \subseteq Responses
    /\ client \in [Clients -> Requested]
    /\ copy \in [Clients -> [sig : Versions, loaded : Versions, expiries : SUBSET Nat]]
    /\ begun \in [Clients -> Versions]
    /\ missed \subseteq Sources \X Versions
    /\ Cardinality(responses) <= MaxResponses

\* What a client holds after an answer is no older, in any dataset, than what stood when
\* it asked; or holds nothing of it, after a read under the same signature found none, and
\* nothing of a report pack when there were rows of Gold.  But for a dataset that was away
\* when the signature was taken, and for report packs while Gold was there.
NoStaleRows ==
    \A c \in Clients, s \in Sources :
        client[c].at = "answered" /\ copy[c].sig[s] # 0
            => \/ copy[c].loaded[s] >= begun[c][s]
               \/ /\ copy[c].loaded[s] = 0
                  /\ <<s, copy[c].sig>> \in missed \/ Unneeded(s, copy[c].loaded)

\* After an answer it holds every row of that version that is fresh still; after one to
\* fresh_only it holds none that had expired when it asked.
ExactlyFreshRows ==
    \A c \in Clients :
        client[c].at = "answered"
            => /\ {e \in RowsOf(copy[c].loaded) : e >= now} \subseteq copy[c].expiries
               /\ client[c].fresh => \A e \in copy[c].expiries : e >= client[c].since
=============================================================================
