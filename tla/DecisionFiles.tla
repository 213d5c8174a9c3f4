---------------------------- MODULE DecisionFiles ----------------------------
(***************************************************************************)
(* The files the two halves of the decision workflow share, and the clock  *)
(* they are stamped with.                                                  *)
(*                                                                         *)
(* qyun2 (the cloud) signs hourly market inputs and publishes the results  *)
(* a NAS worker computes from them.  The two exchange plain files: the     *)
(* worker pulls `inputs/`, `current-input.json` and                        *)
(* `publication-receipts.json`, and pushes `inbox/result-*.json` and       *)
(* `inbox/archive-ack.json`.  A directory is a partial function from file  *)
(* names to what the model keeps of their contents; every write is one     *)
(* atomic replace (decision/storage.py, atomic_json), so a crash falls     *)
(* between two writes and never inside one.                                *)
(*                                                                         *)
(* Names are content hashes in the code.  Here they are numbers: their     *)
(* order is the order of sorted(glob(...)), which has nothing to do with   *)
(* time because a result may take any unused number.                       *)
(***************************************************************************)
EXTENDS Integers, FiniteSets

CONSTANTS
    ResultIds,    \* names of analysis results
    Contents,     \* market facts: the identity of a signed input
    MaxTime,      \* bound on the clock
    Retention,    \* hot retention of the cloud (retention_days)
    AckMaxAge,    \* an archive acknowledgement older than this is stale
    Tolerance     \* clock skew the readers forgive (timedelta(seconds=5))

ASSUME NamesAssumption ==
    /\ ResultIds \subseteq Nat \ {0}
    /\ Contents \subseteq Nat \ {0}
    /\ IsFiniteSet(ResultIds)
    /\ IsFiniteSet(Contents)

\* Two days and seven to thirty days in the code: an acknowledgement that is
\* still fresh was written when nothing prunable was new.
ASSUME TimesAssumption ==
    /\ MaxTime \in Nat
    /\ Retention \in Nat
    /\ AckMaxAge \in Nat
    /\ Tolerance \in Nat
    /\ AckMaxAge < Retention

VARIABLES
    clock,         \* the cloud's clock
    made,          \* every result a worker signed: name -> [gen, input, sound]
    signed,        \* every input the cloud signed: set of [input, gen]
    inbox,         \* names of the results in inbox/
    ack,           \* inbox/archive-ack.json
    inputs,        \* inputs/: identity -> generated_at, which is also its mtime
    currentInput,  \* current-input.json
    published      \* publication-receipts.json: set of [result, at]

fileVars == <<clock, made, signed, inbox, ack, inputs, currentInput, published>>

NoResult == 0
NoTime == 0

SignedInputs == [input : Contents, gen : Nat]
Publications == [result : ResultIds, at : Nat]
Results == [gen : Int, input : Contents, sound : BOOLEAN]

NoInput == [input |-> 0, gen |-> NoTime]
NoAck == [at |-> NoTime, results |-> {}, inputs |-> {}]

\* A file written (created or atomically replaced), and a file unlinked.
Write(dir, name, value) ==
    [n \in DOMAIN dir \cup {name} |-> IF n = name THEN value ELSE dir[n]]
Unlink(dir, name) == [n \in DOMAIN dir \ {name} |-> dir[n]]

NoFiles == [n \in {} |-> NoTime]

\* A directory with files of these names and contents.
IsDirectory(dir, names, contents) ==
    DOMAIN dir \subseteq names /\ \A n \in DOMAIN dir : dir[n] \in contents

FilesInit ==
    /\ clock = 1
    /\ made = NoFiles
    /\ signed = {}
    /\ inbox = {}
    /\ ack = NoAck
    /\ inputs = NoFiles
    /\ currentInput = NoInput
    /\ published = {}

FilesTypeOK ==
    /\ clock \in Nat
    /\ IsDirectory(made, ResultIds, Results)
    /\ signed \subseteq SignedInputs
    /\ inbox \subseteq DOMAIN made
    /\ ack \in [at : Int, results : SUBSET ResultIds, inputs : SUBSET SignedInputs]
    /\ IsDirectory(inputs, Contents, Nat)
    /\ currentInput \in SignedInputs \cup {NoInput}
    /\ published \subseteq Publications

\* Time passes between any two steps of either machine.
Tick ==
    /\ clock < MaxTime
    /\ clock' = clock + 1
    /\ UNCHANGED <<made, signed, inbox, ack, inputs, currentInput, published>>
=============================================================================
