---------------------------- MODULE PublicationLog ----------------------------
(***************************************************************************)
(* What the public side of the decision workflow promises a reader of      *)
(* publication.json, with nothing of how it is kept: a result is published *)
(* once, at one time, and the served result is only ever replaced by one   *)
(* that was generated later from facts that are not older.                 *)
(***************************************************************************)
EXTENDS Integers

CONSTANT Names

VARIABLES
    served,   \* the published result: [result, gen, basis], or None
    log       \* every publication so far: result -> time

None == [result |-> 0, gen |-> 0, basis |-> 0]

Init ==
    /\ served = None
    /\ log = [r \in {} |-> 0]

\* `gen` is the result's generated_at and `basis` the generated_at of its input.
Publish(r, gen, basis, at) ==
    /\ r \notin DOMAIN log
    /\ served # None => gen > served.gen /\ basis >= served.basis
    /\ served' = [result |-> r, gen |-> gen, basis |-> basis]
    /\ log' = [q \in DOMAIN log \cup {r} |-> IF q = r THEN at ELSE log[q]]

Next ==
    LET r == served'.result IN
      /\ r \in Names
      /\ Publish(r, served'.gen, served'.basis, log'[r])

Spec == Init /\ [][Next]_<<served, log>>
=============================================================================
