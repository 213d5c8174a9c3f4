---------------------------- MODULE AdvisoryProofs ----------------------------
(***************************************************************************)
(* The advisory caches: for any number of clients, datasets and versions,  *)
(* whatever moment a dataset is away and whichever read fails, what a      *)
(* client holds after an answer is no older than its request, or was not   *)
(* found by a read under its signature, and has exactly the rows that are  *)
(* fresh.                                                                  *)
(*                                                                         *)
(* Everything kept under a signature was read after it was taken, dataset  *)
(* by dataset; so who takes a signature later and finds it in a cache gets *)
(* rows that are as new.  That a slower thread replaces a newer snapshot   *)
(* by its own does no harm.                                                *)
(***************************************************************************)
EXTENDS AdvisoryCache, TLAPS, SequenceTheorems

NoOlder(v, w) == \A s \in Sources : v[s] <= w[s]

\* A signature names no version older than v, or none.
Follows(v, sig) == \A s \in Sources : sig[s] = 0 \/ v[s] <= sig[s]

Later == {"lookup", "load", "keep", "clear", "get", "filter", "answered"}
Done == {"clear", "get", "filter", "answered"}

Copies == [sig : Versions, loaded : Versions, expiries : SUBSET Nat]

\* A directory, there or set aside, is the last that was written.
LastStands == \A s \in Sources : {version[s], backup[s]} \subseteq {0, writes[s]}

\* The rows of every version of Gold, and of every report pack, are kept for the model.
RowsWritten ==
    /\ written \in [{Gold, Report} -> Seq(SUBSET Nat)]
    /\ \A s \in {Gold, Report} : Len(written[s]) = writes[s]

\* What was read of a dataset under a signature that names it.
Found(sig, loaded, s) ==
    \/ sig[s] = 0 \/ sig[s] <= loaded[s]
    \/ loaded[s] = 0 /\ (<<s, sig>> \in missed \/ Unneeded(s, loaded))

\* A signature, and what was read after it.
SignedThenLoaded(r) == NoOlder(r.loaded, writes) /\ \A s \in Sources : Found(r.sig, r.loaded, s)

\* What the thread of a client has seen so far, in the order it sees it.
SeenInOrder ==
    \A c \in Clients :
       LET r == client[c] IN
       /\ r.at # "idle" => NoOlder(begun[c], writes) /\ r.since <= now
       /\ \A s \in Sources :
             r.at = "sign" /\ s \in r.done => r.sig[s] = 0 \/ begun[c][s] <= r.sig[s]
       /\ \A s \in Sources : r.at # "idle" => r.sig[s] <= writes[s]
       /\ r.at \in Later => Follows(begun[c], r.sig)
       /\ r.at = "lookup" => r.done = {}
       /\ r.at = "load" => r.done = {} \/ Gold \in r.done
       /\ \A s \in Sources :
             r.at = "load" /\ s \in r.done => Found(r.sig, r.loaded, s) /\ r.loaded[s] <= writes[s]
       /\ r.at \in {"keep"} \cup Done => SignedThenLoaded(r)

SnapshotInOrder == SignedThenLoaded(snapshot)

\* A response has the rows of what was loaded that were fresh at a time before now.
Complete(r, loaded) == \A e \in RowsOf(loaded) : e >= now => e \in r.expiries

ResponsesInOrder == \A r \in responses : SignedThenLoaded(r) /\ Complete(r, r.loaded)

CopiesInOrder ==
    \A c \in Clients :
       /\ NoOlder(copy[c].loaded, writes)
       /\ client[c].at = "answered" =>
             /\ SignedThenLoaded(copy[c]) /\ Follows(begun[c], copy[c].sig)
             /\ Complete(copy[c], copy[c].loaded)
             /\ client[c].fresh => \A e \in copy[c].expiries : e >= client[c].since

TypeInv ==
    /\ now \in Nat /\ version \in Versions /\ backup \in Versions /\ writes \in Versions
    /\ snapshot \in Snapshots
    /\ responses \subseteq Responses
    /\ client \in [Clients -> Requested]
    /\ copy \in [Clients -> Copies]
    /\ begun \in [Clients -> Versions]

Order == SeenInOrder /\ SnapshotInOrder /\ ResponsesInOrder /\ CopiesInOrder

AdvisoryInv == TypeInv /\ LastStands /\ RowsWritten /\ Order

-----------------------------------------------------------------------------
LEMMA IdlingIsRequested ==
  /\ Unread \in Versions /\ Idling \in Requested /\ Idling.at = "idle" /\ Idling.done = {}
  /\ Idling.sig = Unread
  /\ NoSnapshot \in Snapshots
  /\ Unread = [s \in Sources |-> 0]
<1>1. Unread \in Versions
  BY DEF Unread, Versions
<1>2. Idling \in Requested
  BY <1>1 DEF Idling, Requested, Phases
<1>3. QED
  BY <1>1, <1>2 DEF Idling, NoSnapshot, Snapshots, Unread

LEMMA RowsOfType ==
  ASSUME TypeInv, RowsWritten, NEW v \in Versions, NoOlder(v, writes)
  PROVE  /\ RowsOf(v) \in SUBSET Nat
         /\ \A s \in {Gold, Report} : v[s] # 0 => v[s] \in 1..Len(written[s])
<1>1. \A s \in {Gold, Report} : /\ s \in Sources /\ v[s] \in Nat /\ v[s] <= Len(written[s])
                                /\ written[s] \in Seq(SUBSET Nat)
  BY AdvisoryAssumption DEF RowsWritten, NoOlder, Versions
<1>2. \A s \in {Gold, Report} : v[s] # 0 => v[s] \in 1..Len(written[s])
  BY <1>1
<1>3. \A s \in {Gold, Report} : v[s] # 0 => written[s][v[s]] \in SUBSET Nat
  BY <1>1, <1>2, ElementOfSeq
<1>4. QED
  BY <1>2, <1>3 DEF RowsOf, GoldRows

\* A dataset's version, standing or away, is none or the last; so is its signature.
LEMMA Signed ==
  ASSUME AdvisoryInv, NEW c \in Clients, NEW s \in Sources
  PROVE  /\ Standing(s) \in Nat /\ Standing(s) <= writes[s]
         /\ Signature(c, s) \in {0, writes[s]} /\ writes[s] \in Nat /\ version[s] \in {0, writes[s]}
<1>1. version[s] \in {0, writes[s]} /\ backup[s] \in {0, writes[s]} /\ writes[s] \in Nat
  BY DEF AdvisoryInv, LastStands, TypeInv, Versions
<1>2. QED
  BY <1>1 DEF Standing, Signature

LEMMA AdvisoryInvInit == AdvisoryInit => AdvisoryInv
<1> SUFFICES ASSUME AdvisoryInit PROVE AdvisoryInv
  OBVIOUS
<1> USE AdvisoryAssumption DEF AdvisoryInit
<1>1. TypeInv
  BY IdlingIsRequested DEF TypeInv, Copies
<1>2. RowsWritten /\ LastStands
  BY DEF RowsWritten, LastStands, Unread
<1>3. SeenInOrder /\ SnapshotInOrder /\ ResponsesInOrder /\ CopiesInOrder
  BY IdlingIsRequested DEF SeenInOrder, Later, Done, SnapshotInOrder, SignedThenLoaded, NoSnapshot,
     NoOlder, Found, ResponsesInOrder, CopiesInOrder
<1>4. QED
  BY <1>1, <1>2, <1>3 DEF AdvisoryInv, Order

-----------------------------------------------------------------------------
(* What the steps of a thread make of its record.                          *)

LEMMA AskMakes ==
  ASSUME AdvisoryInv, NEW c \in Clients, Ask(c)
  PROVE  /\ client' \in [Clients -> Requested]
         /\ \A d \in Clients \ {c} : client'[d] = client[d] /\ begun'[d] = begun[d]
         /\ client'[c].at = "sign" /\ client'[c].since = now /\ client'[c].done = {}
         /\ client'[c].sig = Unread /\ begun' \in [Clients -> Versions] /\ begun'[c] = [s \in Sources |-> Standing(s)]
<1> USE DEF AdvisoryInv
<1>1. PICK fresh \in BOOLEAN :
         client' = [client EXCEPT ![c] = [Idling EXCEPT !.at = "sign", !.fresh = fresh, !.since = now]]
  BY DEF Ask
<1> DEFINE r == [Idling EXCEPT !.at = "sign", !.fresh = fresh, !.since = now]
<1>2. r \in Requested /\ r.at = "sign" /\ r.since = now /\ r.done = {} /\ r.sig = Unread
  BY IdlingIsRequested DEF TypeInv, Requested, Phases
<1>3. client' = [client EXCEPT ![c] = r]
  BY <1>1
<1> HIDE DEF r
<1>4. [s \in Sources |-> Standing(s)] \in Versions
  BY Signed DEF Versions
<1>5. QED
  BY <1>2, <1>3, <1>4 DEF Ask, TypeInv

LEMMA SignMakes ==
  ASSUME AdvisoryInv, NEW c \in Clients, Sign(c)
  PROVE  /\ client' \in [Clients -> Requested]
         /\ \A d \in Clients \ {c} : client'[d] = client[d]
         /\ client'[c].since = client[c].since
         /\ \E s \in Sources :
               /\ client'[c].sig[s] \in {0, writes[s]}
               /\ \A o \in Sources \ {s} : client'[c].sig[o] = client[c].sig[o]
               /\ \/ client'[c].at = "sign" /\ client'[c].done = client[c].done \cup {s}
                  \/ /\ client'[c].at = "lookup" /\ client'[c].done = {}
                     /\ client[c].done \cup {s} = Sources
<1> USE DEF AdvisoryInv
<1>0. client[c] \in Requested /\ client[c].sig \in Versions /\ client[c].done \in SUBSET Sources
  BY DEF TypeInv, Requested
<1>1. PICK s \in Sources :
         client' = [client EXCEPT ![c].sig[s] = Signature(c, s),
                                  ![c].done = NowDone(c, s),
                                  ![c].at = NowAt(c, s, "sign", "lookup")]
  BY <1>0, AdvisoryAssumption DEF Sign, Unvisited
<1> DEFINE v == [client[c].sig EXCEPT ![s] = Signature(c, s)]
           r == [client[c] EXCEPT !.sig = v, !.done = NowDone(c, s),
                                  !.at = NowAt(c, s, "sign", "lookup")]
<1>2. v \in Versions /\ v[s] \in {0, writes[s]} /\ \A o \in Sources \ {s} : v[o] = client[c].sig[o]
  BY <1>0, Signed DEF Versions, TypeInv
<1>3. NowDone(c, s) \in SUBSET Sources /\ NowAt(c, s, "sign", "lookup") \in Phases
  BY <1>0 DEF NowDone, NowAt, Visited, Phases
<1>4. client' = [client EXCEPT ![c] = r]
  BY <1>1 DEF TypeInv, Requested
<1> HIDE DEF v
<1>5. r \in Requested /\ r.sig = v /\ r.done = NowDone(c, s)
      /\ r.at = NowAt(c, s, "sign", "lookup") /\ r.since = client[c].since
  BY <1>0, <1>2, <1>3 DEF Requested
<1>6. \/ r.at = "sign" /\ r.done = client[c].done \cup {s}
      \/ r.at = "lookup" /\ r.done = {} /\ client[c].done \cup {s} = Sources
  BY <1>5 DEF NowDone, NowAt, Visited
<1> HIDE DEF r
<1>7. client'[c] = r /\ client' \in [Clients -> Requested]
      /\ \A d \in Clients \ {c} : client'[d] = client[d]
  BY <1>4, <1>5 DEF TypeInv
<1>8. QED
  BY <1>2, <1>5, <1>6, <1>7

LEMMA LoadMakes ==
  ASSUME AdvisoryInv, NEW c \in Clients, Load(c)
  PROVE  /\ client' \in [Clients -> Requested]
         /\ \A d \in Clients \ {c} : client'[d] = client[d]
         /\ client'[c].since = client[c].since /\ client'[c].sig = client[c].sig
         /\ missed \subseteq missed'
         /\ \E s \in Sources :
               /\ client'[c].loaded[s] <= writes[s]
               /\ client[c].done = {} \/ (s # Gold /\ Gold \in client[c].done)
               /\ s = Gold \/ Gold \in client[c].done
               /\ \/ client[c].sig[s] = 0 \/ client[c].sig[s] <= client'[c].loaded[s]
                  \/ /\ client'[c].loaded[s] = 0
                     /\ <<s, client[c].sig>> \in missed' \/ Unneeded(s, client'[c].loaded)
               /\ \A o \in Sources \ {s} : client'[c].loaded[o] = client[c].loaded[o]
               /\ \/ client'[c].at = "load" /\ client'[c].done = client[c].done \cup {s}
                  \/ client'[c].at = "keep" /\ client[c].done \cup {s} = Sources
<1> USE DEF AdvisoryInv, Order
<1>0. /\ client[c] \in Requested /\ client[c].loaded \in Versions /\ client[c].sig \in Versions
      /\ client[c].done \in SUBSET Sources /\ client[c].at = "load"
      /\ \A s \in Sources : client[c].sig[s] \in Nat /\ client[c].sig[s] <= writes[s]
  BY DEF TypeInv, Requested, Load, SeenInOrder, Versions
<1>1. PICK s \in Unvisited(c) :
       \E x \in IF Unneeded(s, client[c].loaded) THEN {0} ELSE {version[s], 0} :
          /\ client' = [client EXCEPT ![c].loaded[s] = x,
                                      ![c].done = NowDone(c, s),
                                      ![c].at = NowAt(c, s, "load", "keep")]
          /\ missed' = IF x # 0 \/ client[c].sig[s] = 0 \/ Unneeded(s, client[c].loaded)
                       THEN missed ELSE missed \cup {<<s, client[c].sig>>}
  BY DEF Load
<1>2. PICK x \in IF Unneeded(s, client[c].loaded) THEN {0} ELSE {version[s], 0} :
          /\ client' = [client EXCEPT ![c].loaded[s] = x,
                                      ![c].done = NowDone(c, s),
                                      ![c].at = NowAt(c, s, "load", "keep")]
          /\ missed' = IF x # 0 \/ client[c].sig[s] = 0 \/ Unneeded(s, client[c].loaded)
                       THEN missed ELSE missed \cup {<<s, client[c].sig>>}
  BY <1>1
<1>3. /\ s \in Sources /\ (s = Gold \/ Gold \in client[c].done)
      /\ client[c].done = {} \/ (s # Gold /\ Gold \in client[c].done)
  <2>1. s \in Sources \ client[c].done /\ (s = Gold \/ Gold \in client[c].done)
    BY <1>1, AdvisoryAssumption DEF Unvisited
  <2>2. client[c].done = {} \/ Gold \in client[c].done
    BY <1>0 DEF SeenInOrder
  <2>3. QED
    BY <2>1, <2>2
<1>4. x \in {0, writes[s]} /\ writes[s] \in Nat
  BY <1>2, <1>3, Signed
<1> DEFINE v == [client[c].loaded EXCEPT ![s] = x]
           r == [client[c] EXCEPT !.loaded = v, !.done = NowDone(c, s),
                                  !.at = NowAt(c, s, "load", "keep")]
<1>5. v \in Versions /\ v[s] = x /\ \A o \in Sources \ {s} : v[o] = client[c].loaded[o]
  BY <1>0, <1>3, <1>4 DEF Versions
<1>6. NowDone(c, s) \in SUBSET Sources /\ NowAt(c, s, "load", "keep") \in Phases
  BY <1>0, <1>3 DEF NowDone, NowAt, Visited, Phases
<1>7. client' = [client EXCEPT ![c] = r]
  BY <1>2 DEF TypeInv, Requested
<1> HIDE DEF v
<1>8. r \in Requested /\ r.loaded = v /\ r.done = NowDone(c, s) /\ r.sig = client[c].sig
      /\ r.at = NowAt(c, s, "load", "keep") /\ r.since = client[c].since
  BY <1>0, <1>5, <1>6 DEF Requested
<1>9. \/ r.at = "load" /\ r.done = client[c].done \cup {s}
      \/ r.at = "keep" /\ client[c].done \cup {s} = Sources
  BY <1>8 DEF NowDone, NowAt, Visited
<1> HIDE DEF r
<1>10. client'[c] = r /\ client' \in [Clients -> Requested]
       /\ \A d \in Clients \ {c} : client'[d] = client[d]
  BY <1>7, <1>8 DEF TypeInv
<1>11. Unneeded(s, client[c].loaded) => Unneeded(s, v)
  BY <1>5, AdvisoryAssumption DEF Unneeded, GoldRows
<1>12. client[c].sig[s] = 0 \/ client[c].sig[s] <= x
       \/ (x = 0 /\ (<<s, client[c].sig>> \in missed' \/ Unneeded(s, v)))
  <2>1. CASE x = 0 /\ client[c].sig[s] # 0
    BY <1>2, <1>11, <2>1
  <2>2. CASE x # 0 \/ client[c].sig[s] = 0
    BY <1>0, <1>3, <1>4, <2>2
  <2>3. QED
    BY <2>1, <2>2
<1>13. missed \subseteq missed'
  BY <1>2
<1>14. QED
  BY <1>3, <1>4, <1>5, <1>8, <1>9, <1>10, <1>12, <1>13

LEMMA RequestMoved ==
  ASSUME NEW r \in Requested, NEW at \in Phases, NEW v \in Versions
  PROVE  /\ [r EXCEPT !.at = at] \in Requested
         /\ [r EXCEPT !.at = at].at = at /\ [r EXCEPT !.at = at].since = r.since
         /\ [r EXCEPT !.at = at].sig = r.sig /\ [r EXCEPT !.at = at].loaded = r.loaded
         /\ [r EXCEPT !.at = at].done = r.done /\ [r EXCEPT !.at = at].fresh = r.fresh
         /\ [r EXCEPT !.at = at, !.loaded = v] \in Requested
         /\ [r EXCEPT !.at = at, !.loaded = v].at = at
         /\ [r EXCEPT !.at = at, !.loaded = v].since = r.since
         /\ [r EXCEPT !.at = at, !.loaded = v].sig = r.sig
         /\ [r EXCEPT !.at = at, !.loaded = v].loaded = v
         /\ [r EXCEPT !.at = at, !.loaded = v].done = r.done
BY DEF Requested

\* The step of a thread from one place to the next.
MovedTo(c, at) ==
    /\ client' \in [Clients -> Requested]
    /\ \A d \in Clients \ {c} : client'[d] = client[d]
    /\ client'[c].at = at /\ client'[c].since = client[c].since /\ client'[c].sig = client[c].sig
    /\ client'[c].done = client[c].done

LEMMA MoveMakes ==
  ASSUME TypeInv, NEW c \in Clients, NEW at \in Phases,
         client' = [client EXCEPT ![c].at = at]
  PROVE  MovedTo(c, at) /\ client'[c].loaded = client[c].loaded /\ client'[c].fresh = client[c].fresh
<1> DEFINE r == [client[c] EXCEPT !.at = at]
<1>1. client[c] \in Requested /\ client[c].loaded \in Versions
  BY DEF TypeInv, Requested
<1>2. client' = [client EXCEPT ![c] = r]
  OBVIOUS
<1>3. r \in Requested /\ r.at = at /\ r.since = client[c].since /\ r.sig = client[c].sig
      /\ r.done = client[c].done /\ r.loaded = client[c].loaded /\ r.fresh = client[c].fresh
  BY <1>1, RequestMoved
<1> HIDE DEF r
<1>4. QED
  BY <1>2, <1>3 DEF MovedTo, TypeInv

LEMMA LoadedMakes ==
  ASSUME TypeInv, NEW c \in Clients, NEW at \in Phases, NEW v \in Versions,
         client' = [client EXCEPT ![c].at = at, ![c].loaded = v]
  PROVE  MovedTo(c, at) /\ client'[c].loaded = v
<1> DEFINE r == [client[c] EXCEPT !.at = at, !.loaded = v]
<1>1. client[c] \in Requested
  BY DEF TypeInv
<1>2. client' = [client EXCEPT ![c] = r]
  BY DEF TypeInv
<1>3. r \in Requested /\ r.at = at /\ r.since = client[c].since /\ r.sig = client[c].sig
      /\ r.done = client[c].done /\ r.loaded = v
  BY <1>1 DEF Requested
<1> HIDE DEF r
<1>4. QED
  BY <1>2, <1>3 DEF MovedTo, TypeInv

LEMMA ReplyMakes ==
  ASSUME TypeInv, NEW c \in Clients, NEW r \in Responses, Reply(c, r)
  PROVE  /\ MovedTo(c, "answered") /\ client'[c].fresh = client[c].fresh
         /\ copy' \in [Clients -> Copies]
         /\ \A d \in Clients \ {c} : copy'[d] = copy[d]
         /\ copy'[c].sig = r.sig /\ copy'[c].loaded = r.loaded /\ copy'[c].expiries = r.expiries
<1>1. client' = [client EXCEPT ![c].at = "answered"]
  BY DEF Reply
<1>2. MovedTo(c, "answered") /\ client'[c].fresh = client[c].fresh
  BY <1>1, MoveMakes DEF Phases
<1>3. [sig |-> r.sig, loaded |-> r.loaded, expiries |-> r.expiries] \in Copies
  BY DEF Responses, Copies
<1>4. QED
  BY <1>2, <1>3 DEF Reply, SameETag, TypeInv

-----------------------------------------------------------------------------
(* The steps of a thread.                                                  *)

\* What was read stays read.
LEMMA StillRead ==
  ASSUME UNCHANGED <<writes, written>>, missed \subseteq missed'
  PROVE  \A v, w, s : Found(v, w, s) => Found(v, w, s)'
BY DEF Found, Unneeded, GoldRows

\* A thread that goes on, and what is cached afterwards.
LEMMA MovedOn ==
  ASSUME AdvisoryInv, NEW c \in Clients, NEW at \in {"load"} \cup (Done \ {"answered"}),
         client[c].at \in Later, client[c].at # "answered", MovedTo(c, at),
         at = "load" => client[c].done = {},
         at # "load" => /\ NoOlder(client'[c].loaded, writes)
                        /\ \A s \in Sources : Found(client[c].sig, client'[c].loaded, s),
         UNCHANGED <<now, version, backup, writes, written, copy, begun, missed>>,
         NEW kept \in Snapshots, snapshot' = kept, SignedThenLoaded(kept),
         responses' \subseteq responses
  PROVE  (TypeInv /\ Order)'
<1> USE DEF AdvisoryInv, MovedTo, Order
<1>0. \A v, w, s : Found(v, w, s) => Found(v, w, s)'
  BY StillRead
<1>1. TypeInv'
  BY DEF TypeInv
<1>2. SeenInOrder'
  BY <1>0 DEF SeenInOrder, Later, Done, SignedThenLoaded, NoOlder, Follows
<1>3. SnapshotInOrder'
  BY <1>0 DEF SnapshotInOrder, SignedThenLoaded
<1>4. ResponsesInOrder'
  BY <1>0 DEF ResponsesInOrder, SignedThenLoaded, Complete, RowsOf, GoldRows
<1>5. CopiesInOrder'
  BY <1>0 DEF CopiesInOrder, SignedThenLoaded, Complete, RowsOf, GoldRows, Done
<1>6. QED
  BY <1>1, <1>2, <1>3, <1>4, <1>5

LEMMA RepliedWith ==
  ASSUME AdvisoryInv, NEW c \in Clients, NEW r \in Responses, Reply(c, r),
         client[c].at \in {"get", "filter"}, r.sig = client[c].sig,
         SignedThenLoaded(r), Complete(r, r.loaded),
         client[c].fresh => \A e \in r.expiries : e >= client[c].since,
         UNCHANGED <<now, version, backup, writes, written, snapshot, begun, missed>>,
         responses' \subseteq responses \cup {r}
  PROVE  (TypeInv /\ Order)'
<1> USE DEF AdvisoryInv, Order
<1>0. TypeInv /\ \A v, w, s : Found(v, w, s) => Found(v, w, s)'
  BY StillRead
<1>1. /\ MovedTo(c, "answered") /\ client'[c].fresh = client[c].fresh
      /\ client'[c].loaded = client[c].loaded
      /\ copy' \in [Clients -> Copies]
      /\ \A d \in Clients \ {c} : copy'[d] = copy[d]
      /\ copy'[c].sig = r.sig /\ copy'[c].loaded = r.loaded /\ copy'[c].expiries = r.expiries
  BY <1>0, ReplyMakes, MoveMakes DEF Reply, Phases
<1>2. TypeInv'
  BY <1>1 DEF TypeInv, MovedTo
<1>3. Follows(begun[c], client[c].sig) /\ SignedThenLoaded(client[c])
  BY DEF SeenInOrder, Later, Done
<1>4. SeenInOrder'
  BY <1>0, <1>1, <1>3 DEF SeenInOrder, Later, Done, SignedThenLoaded, NoOlder, Follows, MovedTo
<1>5. SnapshotInOrder' /\ ResponsesInOrder'
  <2>1. SnapshotInOrder'
    BY <1>0 DEF SnapshotInOrder, SignedThenLoaded
  <2>2. \A o \in responses \cup {r} : SignedThenLoaded(o) /\ Complete(o, o.loaded)
    BY DEF ResponsesInOrder
  <2>3. ASSUME NEW o, SignedThenLoaded(o), Complete(o, o.loaded)
        PROVE  SignedThenLoaded(o)' /\ Complete(o, o.loaded)'
    <3>1. SignedThenLoaded(o)'
      BY <1>0, <2>3 DEF SignedThenLoaded
    <3>2. Complete(o, o.loaded)'
      BY <2>3 DEF Complete, RowsOf, GoldRows
    <3>3. QED
      BY <3>1, <3>2
  <2>4. ResponsesInOrder'
    BY <2>2, <2>3 DEF ResponsesInOrder
  <2>5. QED
    BY <2>1, <2>4
<1>6. CopiesInOrder'
  <2>1. ASSUME NEW k, SignedThenLoaded(k), Complete(k, k.loaded)
        PROVE  SignedThenLoaded(k)' /\ Complete(k, k.loaded)'
    <3>1. SignedThenLoaded(k)'
      BY <1>0, <2>1 DEF SignedThenLoaded
    <3>2. Complete(k, k.loaded)'
      BY <2>1 DEF Complete, RowsOf, GoldRows
    <3>3. QED
      BY <3>1, <3>2
  <2>2. ASSUME NEW d \in Clients
        PROVE  \E k \in Copies :
                  /\ copy'[d] = k /\ NoOlder(k.loaded, writes)
                  /\ client'[d].at = "answered" =>
                        /\ SignedThenLoaded(k) /\ Complete(k, k.loaded) /\ Follows(begun[d], k.sig)
                        /\ client'[d].fresh => \A e \in k.expiries : e >= client'[d].since
    <3>1. PICK k \in Copies : copy'[d] = k
      BY <1>1
    <3>2. CASE d # c
      BY <1>1, <2>2, <3>1, <3>2 DEF CopiesInOrder, MovedTo
    <3>3. CASE d = c
      <4>1. k.sig = r.sig /\ k.loaded = r.loaded /\ k.expiries = r.expiries
        BY <1>1, <3>1, <3>3
      <4>2. SignedThenLoaded(k) /\ NoOlder(k.loaded, writes) /\ Complete(k, k.loaded)
        BY <4>1 DEF SignedThenLoaded, Complete
      <4>3. Follows(begun[d], k.sig)
        BY <1>3, <3>3, <4>1
      <4>4. client'[d].fresh => \A e \in k.expiries : e >= client'[d].since
        BY <1>1, <3>3, <4>1 DEF MovedTo
      <4>5. QED
        BY <3>1, <4>2, <4>3, <4>4
    <3>4. QED
      BY <3>2, <3>3
  <2>3. ASSUME NEW d \in Clients
        PROVE  /\ NoOlder(copy[d].loaded, writes)'
               /\ (client[d].at = "answered")' =>
                     /\ SignedThenLoaded(copy[d])' /\ Follows(begun[d], copy[d].sig)'
                     /\ Complete(copy[d], copy[d].loaded)'
                     /\ client'[d].fresh => \A e \in copy'[d].expiries : e >= client'[d].since
    <3>1. PICK k \in Copies :
                  /\ copy'[d] = k /\ NoOlder(k.loaded, writes)
                  /\ client'[d].at = "answered" =>
                        /\ SignedThenLoaded(k) /\ Complete(k, k.loaded) /\ Follows(begun[d], k.sig)
                        /\ client'[d].fresh => \A e \in k.expiries : e >= client'[d].since
      BY <2>2, <2>3
    <3>2. CASE client'[d].at # "answered"
      BY <3>1, <3>2 DEF NoOlder
    <3>3. CASE client'[d].at = "answered"
      <4>1. SignedThenLoaded(k)' /\ Complete(k, k.loaded)' /\ Follows(begun[d], k.sig)'
        BY <2>1, <3>1, <3>3 DEF Follows
      <4>2. SignedThenLoaded(copy[d])' /\ Complete(copy[d], copy[d].loaded)'
        BY <3>1, <4>1
      <4>3. QED
        BY <3>1, <3>3, <4>2 DEF NoOlder, Follows
    <3>4. QED
      BY <3>2, <3>3
  <2>4. QED
    BY <2>3 DEF CopiesInOrder
<1>7. QED
  BY <1>2, <1>4, <1>5, <1>6

LEMMA ThreadStep ==
  ASSUME AdvisoryInv, NEW c \in Clients, Advise(c)
  PROVE  (TypeInv /\ Order)'
<1> USE AdvisoryAssumption DEF AdvisoryInv, Order, sourceVars, lakeFiles
<1>0. /\ TypeInv /\ client[c] \in Requested /\ client[c].sig \in Versions /\ client[c].loaded \in Versions
      /\ snapshot.sig \in Versions /\ snapshot.loaded \in Versions /\ writes \in Versions
      /\ begun[c] \in Versions /\ now \in Nat /\ client[c].since \in Nat
      /\ snapshot \in Snapshots /\ SignedThenLoaded(snapshot)
  BY DEF TypeInv, Requested, Snapshots, SnapshotInOrder
<1>1. UNCHANGED <<now, version, backup, writes, written>>
  BY DEF Advise, Ask, Sign, SnapshotHit, SnapshotMiss, Load, KeepSnapshot, ClearOthers,
         ResponseHit, ResponseMiss, SetResponse, Leave
<1>a. missed \subseteq missed' => \A v, w, s : Found(v, w, s) => Found(v, w, s)'
  BY <1>1, StillRead
<1>2. CASE Ask(c)
  <2>1. UNCHANGED <<snapshot, responses, copy, missed>>
    BY <1>2 DEF Ask
  <2>2. /\ \A s \in Sources : Standing(s) <= writes[s]
        /\ \A s \in Sources : 0 <= writes[s]
    BY <1>0, Signed DEF Versions
  <2>3. /\ client' \in [Clients -> Requested] /\ begun' \in [Clients -> Versions]
        /\ \A d \in Clients \ {c} : client'[d] = client[d] /\ begun'[d] = begun[d]
        /\ client'[c].at = "sign" /\ client'[c].since = now /\ client'[c].done = {}
        /\ client'[c].sig = Unread
        /\ begun'[c] = [s \in Sources |-> Standing(s)]
    BY <1>2, AskMakes
  <2>4. TypeInv'
    BY <1>0, <1>1, <2>1, <2>3 DEF TypeInv
  <2>5. SeenInOrder'
    BY <1>0, <1>1, <1>a, <2>1, <2>2, <2>3
       DEF SeenInOrder, Later, Done, NoOlder, Follows, SignedThenLoaded, Unread
  <2>6. SnapshotInOrder' /\ ResponsesInOrder' /\ CopiesInOrder'
    BY <1>0, <1>1, <1>a, <2>1, <2>3
       DEF SnapshotInOrder, ResponsesInOrder, CopiesInOrder, SignedThenLoaded, NoOlder, Follows,
           Complete, RowsOf, GoldRows
  <2>7. QED
    BY <2>4, <2>5, <2>6
<1>3. CASE Sign(c)
  <2>1. UNCHANGED <<snapshot, responses, copy, begun, missed>> /\ client[c].at = "sign"
    BY <1>3 DEF Sign
  <2>2. TypeInv'
    BY <1>0, <1>1, <1>3, <2>1, SignMakes DEF TypeInv
  <2>3. PICK s \in Sources :
           /\ client'[c].sig[s] \in {0, writes[s]}
           /\ \A o \in Sources \ {s} : client'[c].sig[o] = client[c].sig[o]
           /\ \/ client'[c].at = "sign" /\ client'[c].done = client[c].done \cup {s}
              \/ /\ client'[c].at = "lookup" /\ client'[c].done = {}
                 /\ client[c].done \cup {s} = Sources
    BY <1>0, <1>3, SignMakes
  <2>4. /\ client'[c].since = client[c].since
        /\ \A d \in Clients \ {c} : client'[d] = client[d]
    BY <1>0, <1>3, SignMakes
  <2>5. /\ NoOlder(begun[c], writes) /\ client[c].since <= now
        /\ \A o \in client[c].done \cap Sources :
              client[c].sig[o] = 0 \/ begun[c][o] <= client[c].sig[o]
        /\ \A o \in Sources : client[c].sig[o] <= writes[o]
        /\ begun[c][s] <= writes[s] /\ writes[s] <= writes[s] /\ 0 <= writes[s]
    BY <1>0, <2>1 DEF SeenInOrder, NoOlder, Versions
  <2>6. /\ \A o \in (client[c].done \cup {s}) \cap Sources :
              client'[c].sig[o] = 0 \/ begun[c][o] <= client'[c].sig[o]
        /\ \A o \in Sources : client'[c].sig[o] <= writes[o]
    BY <2>3, <2>5
  <2>7. SeenInOrder'
    BY <1>1, <1>a, <2>1, <2>3, <2>4, <2>5, <2>6
       DEF SeenInOrder, Later, Done, NoOlder, Follows, SignedThenLoaded
  <2>8. SnapshotInOrder' /\ ResponsesInOrder' /\ CopiesInOrder'
    BY <1>1, <1>a, <2>1, <2>3, <2>4
       DEF SnapshotInOrder, ResponsesInOrder, CopiesInOrder, SignedThenLoaded, NoOlder, Follows,
           Complete, RowsOf, GoldRows
  <2>9. QED
    BY <2>2, <2>7, <2>8
<1>4. CASE SnapshotHit(c)
  <2>1. /\ UNCHANGED <<snapshot, responses, copy, begun, missed>> /\ client[c].at = "lookup"
        /\ snapshot.sig = client[c].sig
    BY <1>4 DEF SnapshotHit, Cached
  <2>2. MovedTo(c, "clear") /\ client'[c].loaded = snapshot.loaded
    BY <1>0, <1>4, LoadedMakes DEF SnapshotHit, Phases
  <2>3. QED
    BY <1>0, <1>1, <2>1, <2>2, MovedOn DEF SignedThenLoaded, Done, Later
<1>5. CASE SnapshotMiss(c)
  <2>1. UNCHANGED <<snapshot, responses, copy, begun, missed>> /\ client[c].at = "lookup"
    BY <1>5 DEF SnapshotMiss
  <2>2. MovedTo(c, "load") /\ client'[c].loaded = client[c].loaded
    BY <1>0, <1>5, MoveMakes DEF SnapshotMiss, Phases
  <2>3. client[c].done = {}
    BY <2>1 DEF SeenInOrder
  <2>4. QED
    BY <1>0, <1>1, <2>1, <2>2, <2>3, MovedOn DEF Done, Later
<1>6. CASE Load(c)
  <2>1. UNCHANGED <<snapshot, responses, copy, begun>> /\ client[c].at = "load"
    BY <1>6 DEF Load
  <2>2. /\ client' \in [Clients -> Requested]
        /\ \A d \in Clients \ {c} : client'[d] = client[d]
        /\ client'[c].since = client[c].since /\ client'[c].sig = client[c].sig
        /\ missed \subseteq missed'
    BY <1>6, LoadMakes
  <2>3. PICK s \in Sources :
           /\ client'[c].loaded[s] <= writes[s]
           /\ client[c].done = {} \/ (s # Gold /\ Gold \in client[c].done)
           /\ s = Gold \/ Gold \in client[c].done
           /\ \/ client[c].sig[s] = 0 \/ client[c].sig[s] <= client'[c].loaded[s]
              \/ /\ client'[c].loaded[s] = 0
                 /\ <<s, client[c].sig>> \in missed' \/ Unneeded(s, client'[c].loaded)
           /\ \A o \in Sources \ {s} : client'[c].loaded[o] = client[c].loaded[o]
           /\ \/ client'[c].at = "load" /\ client'[c].done = client[c].done \cup {s}
              \/ client'[c].at = "keep" /\ client[c].done \cup {s} = Sources
    BY <1>6, LoadMakes
  <2>4. TypeInv'
    BY <1>0, <1>1, <2>1, <2>2 DEF TypeInv
  <2>5. /\ NoOlder(begun[c], writes) /\ client[c].since <= now
        /\ Follows(begun[c], client[c].sig)
        /\ \A o \in Sources : client[c].sig[o] <= writes[o]
        /\ \A o \in client[c].done \cap Sources :
              Found(client[c].sig, client[c].loaded, o) /\ client[c].loaded[o] <= writes[o]
    BY <2>1 DEF SeenInOrder, Later
  <2>6. PICK v, w, m : v = client[c].sig /\ w = client'[c].loaded /\ m = client[c].loaded
    OBVIOUS
  <2>7. \A o \in client[c].done \cap Sources : o # s => Found(v, w, o)
    <3>1. SUFFICES ASSUME NEW o \in client[c].done \cap Sources, o # s PROVE Found(v, w, o)
      OBVIOUS
    <3>2. s # Gold /\ w[Gold] = m[Gold] /\ w[o] = m[o]
      BY <2>3, <2>6, <3>1
    <3>3. QED
      BY <2>5, <2>6, <3>1, <3>2 DEF Found, Unneeded, GoldRows
  <2>8. Found(v, w, s)'
    BY <1>1, <2>3, <2>6 DEF Found, Unneeded, GoldRows
  <2>9. \A o \in (client[c].done \cup {s}) \cap Sources : Found(v, w, o)' /\ w[o] <= writes[o]
    BY <1>a, <2>2, <2>3, <2>5, <2>6, <2>7, <2>8
  <2>10. SeenInOrder'
    BY <1>1, <1>a, <2>1, <2>2, <2>3, <2>5, <2>6, <2>9
       DEF SeenInOrder, Later, Done, NoOlder, Follows, SignedThenLoaded
  <2>11. SnapshotInOrder' /\ ResponsesInOrder' /\ CopiesInOrder'
    BY <1>1, <1>a, <2>1, <2>2, <2>3
       DEF SnapshotInOrder, ResponsesInOrder, CopiesInOrder, SignedThenLoaded, NoOlder, Follows,
           Complete, RowsOf, GoldRows
  <2>12. QED
    BY <2>4, <2>10, <2>11
<1>7. CASE KeepSnapshot(c)
  <2>1. /\ UNCHANGED <<responses, copy, begun, missed>> /\ client[c].at = "keep"
        /\ SignedThenLoaded(client[c])
    BY <1>7 DEF KeepSnapshot, SeenInOrder
  <2>2. CASE Cached(c)
    <3>1. UNCHANGED snapshot /\ snapshot.sig = client[c].sig
      BY <1>7, <2>2 DEF KeepSnapshot, Cached
    <3>2. MovedTo(c, "clear") /\ client'[c].loaded = snapshot.loaded
      BY <1>0, <1>7, <2>2, LoadedMakes DEF KeepSnapshot, Phases
    <3>3. QED
      BY <1>0, <1>1, <2>1, <3>1, <3>2, MovedOn DEF SignedThenLoaded, Done, Later
  <2>3. CASE ~Cached(c)
    <3>1. snapshot' = [sig |-> client[c].sig, loaded |-> client[c].loaded]
      BY <1>7, <2>3 DEF KeepSnapshot
    <3>2. MovedTo(c, "clear") /\ client'[c].loaded = client[c].loaded
      BY <1>0, <1>7, <2>3, MoveMakes DEF KeepSnapshot, Phases
    <3>3. PICK kept : kept = [sig |-> client[c].sig, loaded |-> client[c].loaded]
      OBVIOUS
    <3>4. snapshot' = kept /\ kept \in Snapshots /\ SignedThenLoaded(kept)
      BY <1>0, <2>1, <3>1, <3>3 DEF Snapshots, SignedThenLoaded
    <3>5. NoOlder(client'[c].loaded, writes)
          /\ \A s \in Sources : Found(client[c].sig, client'[c].loaded, s)
      BY <2>1, <3>2 DEF SignedThenLoaded
    <3>6. QED
      BY <1>0, <1>1, <2>1, <3>2, <3>4, <3>5, MovedOn DEF Done, Later
  <2>4. QED
    BY <2>2, <2>3
<1>8. CASE ClearOthers(c)
  <2>1. /\ UNCHANGED <<snapshot, copy, begun, missed>> /\ client[c].at = "clear"
        /\ responses' \subseteq responses
        /\ SignedThenLoaded(client[c])
    BY <1>8 DEF ClearOthers, SeenInOrder, Done
  <2>2. MovedTo(c, "get") /\ client'[c].loaded = client[c].loaded
    BY <1>0, <1>8, MoveMakes DEF ClearOthers, Phases
  <2>3. QED
    BY <1>0, <1>1, <2>1, <2>2, MovedOn DEF SignedThenLoaded, Done, Later
<1>9. CASE ResponseMiss(c)
  <2>1. /\ UNCHANGED <<snapshot, copy, begun, missed>> /\ client[c].at = "get"
        /\ responses' \subseteq responses
        /\ SignedThenLoaded(client[c])
    BY <1>9 DEF ResponseMiss, SeenInOrder, Done
  <2>2. MovedTo(c, "filter") /\ client'[c].loaded = client[c].loaded
    BY <1>0, <1>9, MoveMakes DEF ResponseMiss, Phases
  <2>3. QED
    BY <1>0, <1>1, <2>1, <2>2, MovedOn DEF SignedThenLoaded, Done, Later
<1>10. CASE ResponseHit(c)
  <2>1. PICK r \in responses : Keyed(c, r) /\ Valid(c, r) /\ Reply(c, r)
    BY <1>10 DEF ResponseHit
  <2>2. /\ UNCHANGED <<snapshot, responses, begun, missed>> /\ client[c].at = "get"
        /\ SignedThenLoaded(client[c]) /\ r \in Responses
    BY <1>10 DEF ResponseHit, SeenInOrder, Done, TypeInv
  <2>3. r.sig = client[c].sig /\ SignedThenLoaded(r) /\ Complete(r, r.loaded)
    BY <2>1 DEF ResponsesInOrder, Keyed
  <2>4. client[c].fresh => \A e \in r.expiries : e >= client[c].since
    <3>1. \A e \in r.expiries : e \in Nat
      BY <2>2 DEF Responses
    <3>2. QED
      BY <1>0, <2>1, <3>1 DEF Keyed, Valid
  <2>5. QED
    BY <1>0, <1>1, <2>1, <2>2, <2>3, <2>4, RepliedWith
<1>11. CASE SetResponse(c)
  <2> DEFINE rows == Filtered(c, RowsOf(client[c].loaded))
             r == [sig |-> client[c].sig, fresh |-> client[c].fresh, loaded |-> client[c].loaded,
                   expiries |-> rows]
  <2>1. /\ UNCHANGED <<snapshot, begun, missed>> /\ client[c].at = "filter" /\ Reply(c, r)
        /\ responses' \subseteq responses \cup {r}
        /\ SignedThenLoaded(client[c])
    BY <1>11 DEF SetResponse, SeenInOrder, Done, Keep
  <2>2. RowsOf(client[c].loaded) \in SUBSET Nat
    BY <1>0, <2>1, RowsOfType DEF SignedThenLoaded
  <2>3. /\ rows \in SUBSET Nat
        /\ \A e \in RowsOf(client[c].loaded) : e >= now => e \in rows
        /\ client[c].fresh => \A e \in rows : e >= client[c].since
    <3>1. client[c].since <= now
      BY <2>1 DEF SeenInOrder
    <3>2. QED
      BY <1>0, <2>2, <3>1 DEF Filtered
  <2> HIDE DEF rows
  <2>4. /\ r \in Responses /\ r.sig = client[c].sig /\ r.loaded = client[c].loaded
        /\ r.expiries = rows
    BY <1>0, <2>3 DEF Responses, Requested
  <2> HIDE DEF r
  <2>5. SignedThenLoaded(r) /\ Complete(r, r.loaded)
    BY <2>1, <2>3, <2>4 DEF SignedThenLoaded, Complete
  <2>6. QED
    BY <1>0, <1>1, <2>1, <2>3, <2>4, <2>5, RepliedWith
<1>12. CASE Leave(c)
  <2>1. UNCHANGED <<snapshot, responses, copy, missed>> /\ client'[c] = Idling /\ begun'[c] = Unread
        /\ \A d \in Clients \ {c} : client'[d] = client[d] /\ begun'[d] = begun[d]
    BY <1>0, <1>12 DEF Leave, TypeInv
  <2>2. TypeInv'
    BY <1>0, <1>1, <1>12, <2>1, IdlingIsRequested DEF TypeInv, Leave
  <2>3. SeenInOrder'
    <3>1. \A s \in Sources : 0 <= writes[s]
      BY <1>0 DEF Versions
    <3>2. QED
      BY <1>1, <1>a, <2>1, <3>1, IdlingIsRequested DEF SeenInOrder, SignedThenLoaded, Later, Done
  <2>4. SnapshotInOrder' /\ ResponsesInOrder'
    BY <1>1, <1>a, <2>1 DEF SnapshotInOrder, ResponsesInOrder, SignedThenLoaded, Complete, RowsOf, GoldRows
  <2>5. CopiesInOrder'
    BY <1>1, <1>a, <2>1, IdlingIsRequested
       DEF CopiesInOrder, SignedThenLoaded, Complete, RowsOf, GoldRows
  <2>6. QED
    BY <2>2, <2>3, <2>4, <2>5
<1>13. QED
  BY <1>2, <1>3, <1>4, <1>5, <1>6, <1>7, <1>8, <1>9, <1>10, <1>11, <1>12 DEF Advise

-----------------------------------------------------------------------------
(* The other processes, and the time.                                      *)

\* What stands, and what is set aside, is the last that was written.
LEMMA LakeStep ==
  ASSUME AdvisoryInv, NEW s \in Sources, SetAside(s) \/ RewriteStops(s)
  PROVE  AdvisoryInv'
<1> USE DEF AdvisoryInv, requestVars
<1>1. UNCHANGED <<now, writes, written, snapshot, responses, client, copy, begun, missed>>
  BY DEF SetAside, RewriteStops
<1>2. /\ version' \in Versions /\ backup' \in Versions
      /\ \A o \in Sources : {version'[o], backup'[o]} \subseteq {version[o], backup[o], 0}
  BY DEF SetAside, RewriteStops, TypeInv, Versions
<1>3. TypeInv' /\ LastStands' /\ RowsWritten'
  BY <1>1, <1>2 DEF TypeInv, LastStands, RowsWritten
<1>4. \A v, w, o : Found(v, w, o)' <=> Found(v, w, o)
  BY <1>1 DEF Found, Unneeded, GoldRows
<1>5. SeenInOrder' /\ SnapshotInOrder'
  BY <1>1, <1>4 DEF Order, SeenInOrder, SnapshotInOrder, SignedThenLoaded
<1>6. ResponsesInOrder' /\ CopiesInOrder'
  BY <1>1, <1>4 DEF Order, ResponsesInOrder, CopiesInOrder, SignedThenLoaded, Complete, RowsOf, GoldRows
<1>7. QED
  BY <1>3, <1>5, <1>6 DEF Order

LEMMA RewriteStep ==
  ASSUME AdvisoryInv, NEW s \in Sources, Rewrite(s)
  PROVE  AdvisoryInv'
<1> USE AdvisoryAssumption DEF AdvisoryInv, Order, requestVars
<1>0. /\ writes \in Versions /\ writes[s] \in Nat /\ now \in Nat /\ MaxLife \in Nat
      /\ written \in [{Gold, Report} -> Seq(SUBSET Nat)]
  BY DEF TypeInv, Versions, RowsWritten
<1>1. UNCHANGED <<now, snapshot, responses, client, copy, begun, missed>>
  BY DEF Rewrite
<1>2. /\ writes' = [writes EXCEPT ![s] = @ + 1] /\ writes' \in Versions
      /\ NoOlder(writes, writes')
  BY <1>0 DEF Rewrite, Versions, NoOlder
<1>3. TypeInv' /\ LastStands'
  <2>1. /\ version' = [version EXCEPT ![s] = writes[s] + 1] /\ backup' = [backup EXCEPT ![s] = 0]
    BY DEF Rewrite
  <2>2. version' \in Versions /\ backup' \in Versions
    BY <1>0, <2>1 DEF TypeInv, Versions
  <2>3. QED
    BY <1>0, <1>1, <1>2, <2>1, <2>2 DEF TypeInv, LastStands, Versions
<1>4. /\ RowsWritten'
      /\ \A o \in {Gold, Report} : Len(written[o]) <= Len(written'[o])
                                   /\ \A i \in 1..Len(written[o]) : written'[o][i] = written[o][i]
  <2>0. \A o \in {Gold, Report} : Len(written[o]) = writes[o] /\ writes[o] \in Nat
    BY <1>0 DEF RowsWritten, Versions
  <2>1. CASE s \in {Gold, Report}
    <3>1. PICK rows \in SUBSET (now + 1 .. now + MaxLife) :
             written' = [written EXCEPT ![s] = Append(@, rows)]
      BY <2>1 DEF Rewrite
    <3>2. rows \in SUBSET Nat /\ written[s] \in Seq(SUBSET Nat)
      BY <1>0, <2>1, <3>1
    <3> DEFINE new == Append(written[s], rows)
    <3>3. /\ new \in Seq(SUBSET Nat) /\ Len(new) = Len(written[s]) + 1
          /\ \A i \in 1..Len(written[s]) : new[i] = written[s][i]
      BY <3>2, AppendProperties
    <3>4. written' = [written EXCEPT ![s] = new]
      BY <3>1
    <3> HIDE DEF new
    <3>5. /\ written' \in [{Gold, Report} -> Seq(SUBSET Nat)] /\ written'[s] = new
          /\ \A o \in {Gold, Report} : o # s => written'[o] = written[o]
      BY <1>0, <2>1, <3>3, <3>4
    <3>6. writes'[s] = writes[s] + 1 /\ \A o \in {Gold, Report} : o # s => writes'[o] = writes[o]
      BY <1>0, <1>2, <2>1 DEF Versions
    <3>7. \A o \in {Gold, Report} : Len(written'[o]) = writes'[o]
      BY <2>0, <2>1, <3>3, <3>5, <3>6
    <3>8. RowsWritten'
      BY <3>5, <3>7 DEF RowsWritten
    <3>9. \A o \in {Gold, Report} : \/ o = s
                                    \/ o # s /\ written'[o] = written[o] /\ Len(written[o]) \in Nat
      BY <1>0, <3>5
    <3>10. Len(written[s]) <= Len(written'[s])
           /\ \A i \in 1..Len(written[s]) : written'[s][i] = written[s][i]
      BY <2>0, <2>1, <3>3, <3>5
    <3>11. QED
      BY <3>8, <3>9, <3>10
  <2>2. CASE s \notin {Gold, Report}
    <3>1. written' = written /\ \A o \in {Gold, Report} : writes'[o] = writes[o]
      BY <1>0, <1>2, <2>2 DEF Rewrite, Versions
    <3>2. QED
      BY <2>0, <3>1 DEF RowsWritten
  <2>3. QED
    BY <2>1, <2>2
<1>5. ASSUME NEW v \in Versions, NoOlder(v, writes)
      PROVE  /\ NoOlder(v, writes') /\ RowsOf(v)' = RowsOf(v)
             /\ \A u, o : Found(u, v, o) => Found(u, v, o)'
  <2>1. NoOlder(v, writes')
    BY <1>0, <1>2, <1>5 DEF NoOlder, Versions
  <2>2. \A o \in {Gold, Report} : v[o] # 0 => v[o] \in 1..Len(written[o])
    BY <1>5, RowsOfType
  <2>3. /\ RowsOf(v)' = RowsOf(v) /\ GoldRows(v)' = GoldRows(v)
    BY <1>4, <2>2 DEF RowsOf, GoldRows
  <2>4. QED
    BY <1>1, <2>1, <2>3 DEF Found, Unneeded
<1>6. ASSUME NEW r, r.loaded \in Versions, SignedThenLoaded(r)
      PROVE  NoOlder(r.loaded, writes') /\ \A o \in Sources : Found(r.sig, r.loaded, o)'
  BY <1>5, <1>6 DEF SignedThenLoaded
<1>7. SeenInOrder'
  <2>1. \A o \in Sources : writes[o] \in Nat /\ writes'[o] \in Nat /\ writes[o] <= writes'[o]
    BY <1>0, <1>2 DEF NoOlder, Versions
  <2>2. \A c \in Clients : /\ begun[c] \in Versions /\ client[c].sig \in Versions
                           /\ client[c].loaded \in Versions
    BY DEF TypeInv, Requested
  <2>3. \A c \in Clients, o \in Sources :
           begun[c][o] \in Nat /\ client[c].sig[o] \in Nat /\ client[c].loaded[o] \in Nat
    BY <2>2 DEF Versions
  <2>4. \A c \in Clients, o \in Sources :
           client[c].at = "load" /\ o \in client[c].done =>
              Found(client[c].sig, client[c].loaded, o)'
    <3>1. SUFFICES ASSUME NEW c \in Clients, NEW o \in Sources, client[c].at = "load", o \in client[c].done
                   PROVE  Found(client[c].sig, client[c].loaded, o)'
      OBVIOUS
    <3>2. PICK u, v : u = client[c].sig /\ v = client[c].loaded
      OBVIOUS
    <3>3. Found(u, v, o) /\ Gold \in client[c].done /\ v[Gold] <= writes[Gold] /\ v[Gold] \in Nat
      BY <2>3, <3>1, <3>2 DEF SeenInOrder
    <3>4. v[Gold] # 0 => v[Gold] \in 1..Len(written[Gold])
      BY <3>3 DEF RowsWritten
    <3>5. GoldRows(v)' = GoldRows(v)
      BY <1>4, <3>4 DEF GoldRows
    <3>6. Found(u, v, o)'
      BY <1>1, <3>3, <3>5 DEF Found, Unneeded
    <3>7. QED
      BY <1>1, <3>2, <3>6
  <2>5. \A c \in Clients : client[c].at \in {"keep"} \cup Done =>
           NoOlder(client[c].loaded, writes') /\ \A o \in Sources : Found(client[c].sig, client[c].loaded, o)'
    <3>1. SUFFICES ASSUME NEW c \in Clients, client[c].at \in {"keep"} \cup Done
                   PROVE  /\ NoOlder(client[c].loaded, writes')
                          /\ \A o \in Sources : Found(client[c].sig, client[c].loaded, o)'
      OBVIOUS
    <3>2. PICK r : r = client[c]
      OBVIOUS
    <3>3. r.loaded \in Versions /\ SignedThenLoaded(r)
      BY <2>2, <3>1, <3>2 DEF SeenInOrder
    <3>4. QED
      BY <1>1, <1>6, <3>2, <3>3
  <2>6. QED
    BY <1>1, <2>1, <2>3, <2>4, <2>5 DEF SeenInOrder, SignedThenLoaded, NoOlder
<1>8. SnapshotInOrder'
  <2>1. PICK r : r = snapshot
    OBVIOUS
  <2>2. r.loaded \in Versions /\ SignedThenLoaded(r)
    BY <2>1 DEF TypeInv, Snapshots, SnapshotInOrder
  <2>3. QED
    BY <1>1, <1>6, <2>1, <2>2 DEF SnapshotInOrder, SignedThenLoaded
<1>9. ResponsesInOrder'
  <2>1. SUFFICES ASSUME NEW r \in responses PROVE SignedThenLoaded(r)' /\ Complete(r, r.loaded)'
    BY <1>1 DEF ResponsesInOrder
  <2>2. r.loaded \in Versions /\ SignedThenLoaded(r) /\ Complete(r, r.loaded)
    BY DEF TypeInv, Responses, ResponsesInOrder
  <2>3. QED
    BY <1>1, <1>5, <1>6, <2>2 DEF SignedThenLoaded, Complete
<1>10. CopiesInOrder'
  <2>1. SUFFICES ASSUME NEW c \in Clients
                 PROVE  /\ NoOlder(copy[c].loaded, writes')
                        /\ client[c].at = "answered" =>
                              /\ SignedThenLoaded(copy[c])' /\ Complete(copy[c], copy[c].loaded)'
    BY <1>1 DEF CopiesInOrder, Follows
  <2>2. PICK r : r = copy[c]
    OBVIOUS
  <2>3. r.loaded \in Versions /\ NoOlder(r.loaded, writes)
    BY <2>2 DEF TypeInv, Copies, CopiesInOrder
  <2>4. NoOlder(r.loaded, writes') /\ RowsOf(r.loaded)' = RowsOf(r.loaded)
    BY <1>5, <2>3
  <2>5. CASE client[c].at = "answered"
    <3>1. SignedThenLoaded(r) /\ Complete(r, r.loaded)
      BY <2>2, <2>5 DEF CopiesInOrder
    <3>2. SignedThenLoaded(r)' /\ Complete(r, r.loaded)'
      BY <1>1, <1>6, <2>3, <2>4, <3>1 DEF SignedThenLoaded, Complete
    <3>3. QED
      BY <1>1, <2>2, <2>4, <3>2
  <2>6. QED
    BY <2>2, <2>4, <2>5
<1>11. QED
  BY <1>3, <1>4, <1>7, <1>8, <1>9, <1>10

LEMMA TimeStep ==
  ASSUME AdvisoryInv, NowPasses
  PROVE  AdvisoryInv'
<1> USE DEF AdvisoryInv, Order, NowPasses, lakeFiles, requestVars
<1>1. now \in Nat /\ now' = now + 1
  BY DEF TypeInv
<1>2. TypeInv' /\ RowsWritten' /\ LastStands'
  BY <1>1 DEF TypeInv, RowsWritten, LastStands
<1>3. \A v, w, s : Found(v, w, s)' <=> Found(v, w, s)
  BY DEF Found, Unneeded, GoldRows
<1>4. SeenInOrder' /\ SnapshotInOrder'
  <2>1. \A c \in Clients : client[c].since \in Nat
    BY DEF TypeInv, Requested
  <2>2. QED
    BY <1>1, <1>3, <2>1 DEF SeenInOrder, SnapshotInOrder, SignedThenLoaded
<1>5. ASSUME NEW r, NEW v \in Versions, NoOlder(v, writes), Complete(r, v)
      PROVE  Complete(r, v)'
  <2>1. RowsOf(v) \in SUBSET Nat /\ RowsOf(v)' = RowsOf(v)
    BY <1>5, RowsOfType DEF RowsOf, GoldRows
  <2>2. QED
    BY <1>1, <1>5, <2>1 DEF Complete
<1>6. ResponsesInOrder'
  <2>1. SUFFICES ASSUME NEW r \in responses PROVE SignedThenLoaded(r)' /\ Complete(r, r.loaded)'
    BY DEF ResponsesInOrder
  <2>2. r.loaded \in Versions /\ SignedThenLoaded(r) /\ Complete(r, r.loaded)
    BY DEF TypeInv, Responses, ResponsesInOrder
  <2>3. Complete(r, r.loaded)'
    BY <1>5, <2>2 DEF SignedThenLoaded, Complete
  <2>4. QED
    BY <1>3, <2>2, <2>3 DEF SignedThenLoaded
<1>7. CopiesInOrder'
  <2>1. \A c \in Clients : copy[c].loaded \in Versions /\ NoOlder(copy[c].loaded, writes)
    BY DEF TypeInv, Copies, CopiesInOrder
  <2>2. ASSUME NEW c \in Clients, Complete(copy[c], copy[c].loaded)
        PROVE  Complete(copy[c], copy[c].loaded)'
    BY <1>5, <2>1, <2>2 DEF Complete
  <2>3. QED
    BY <1>3, <2>1, <2>2 DEF CopiesInOrder, SignedThenLoaded
<1>8. QED
  BY <1>2, <1>4, <1>6, <1>7

LEMMA AdvisoryInvStep == AdvisoryInv /\ [AdvisoryNext]_advisoryVars => AdvisoryInv'
<1> SUFFICES ASSUME AdvisoryInv, [AdvisoryNext]_advisoryVars PROVE AdvisoryInv'
  OBVIOUS
<1>1. ASSUME NEW c \in Clients, Advise(c) PROVE AdvisoryInv'
  <2>1. UNCHANGED <<version, backup, writes, written>>
    BY <1>1 DEF Advise, Ask, Sign, SnapshotHit, SnapshotMiss, Load, KeepSnapshot, ClearOthers,
                ResponseHit, ResponseMiss, SetResponse, Leave, sourceVars, lakeFiles
  <2>2. RowsWritten' /\ LastStands'
    BY <2>1 DEF AdvisoryInv, RowsWritten, LastStands
  <2>3. QED
    BY <1>1, <2>2, ThreadStep DEF AdvisoryInv
<1>2. CASE UNCHANGED advisoryVars
  <2> USE <1>2 DEF advisoryVars, sourceVars, lakeFiles, requestVars, AdvisoryInv
  <2>1. TypeInv' /\ LastStands' /\ RowsWritten'
    BY DEF TypeInv, LastStands, RowsWritten
  <2>2. \A v, w, o : Found(v, w, o)' <=> Found(v, w, o)
    BY DEF Found, Unneeded, GoldRows
  <2>3. SeenInOrder' /\ SnapshotInOrder'
    BY <2>2 DEF Order, SeenInOrder, SnapshotInOrder, SignedThenLoaded
  <2>4. ResponsesInOrder' /\ CopiesInOrder'
    BY <2>2 DEF Order, ResponsesInOrder, CopiesInOrder, SignedThenLoaded, Complete, RowsOf, GoldRows
  <2>5. QED
    BY <2>1, <2>3, <2>4 DEF Order
<1>3. QED
  BY <1>1, <1>2, LakeStep, RewriteStep, TimeStep DEF AdvisoryNext

-----------------------------------------------------------------------------
\* What a client holds after an answer is no older, in any dataset its signature names, than
\* what stood when it asked; or it holds nothing of it after a read under that signature
\* found none, and nothing of a report pack where Gold gave rows (api/cache.py:67-106).
THEOREM AdviceNotStale == AdvisorySpec => []NoStaleRows
<1>1. AdvisoryInv => NoStaleRows
  <2> SUFFICES ASSUME AdvisoryInv, NEW c \in Clients, NEW s \in Sources,
                      client[c].at = "answered", copy[c].sig[s] # 0
               PROVE  \/ copy[c].loaded[s] >= begun[c][s]
                      \/ /\ copy[c].loaded[s] = 0
                         /\ <<s, copy[c].sig>> \in missed \/ Unneeded(s, copy[c].loaded)
    BY DEF NoStaleRows
  <2>1. copy[c].sig[s] \in Nat /\ copy[c].loaded[s] \in Nat /\ begun[c][s] \in Nat
    BY DEF AdvisoryInv, TypeInv, Versions, Copies
  <2>2. Found(copy[c].sig, copy[c].loaded, s) /\ begun[c][s] <= copy[c].sig[s]
    BY DEF AdvisoryInv, Order, CopiesInOrder, SignedThenLoaded, Follows
  <2>3. QED
    BY <2>1, <2>2 DEF Found
<1>2. QED
  BY <1>1, AdvisoryInvInit, AdvisoryInvStep, PTL DEF AdvisorySpec

\* It holds every row of that version that is fresh, and after fresh_only none that had
\* expired (api/main.py:1850-1901).
THEOREM AdviceFresh == AdvisorySpec => []ExactlyFreshRows
<1>1. AdvisoryInv => ExactlyFreshRows
  BY DEF AdvisoryInv, Order, CopiesInOrder, Complete, ExactlyFreshRows
<1>2. QED
  BY <1>1, AdvisoryInvInit, AdvisoryInvStep, PTL DEF AdvisorySpec
=============================================================================
