---------------------------- MODULE DecisionWorker ----------------------------
(***************************************************************************)
(* The NAS half of the decision workflow: one run of                       *)
(* `qlab decision nas-worker` (run_worker).  It pulls what the cloud       *)
(* offers in three transfers that are not one snapshot, registers the      *)
(* publications it learns of in the forward ledger, computes a result      *)
(* unless nothing changed, archives it, and pushes it and an               *)
(* acknowledgement of its archive.                                         *)
(*                                                                         *)
(* Runs are serialised by `flock -n` and cut by `timeout 12m`              *)
(* (deploy/decision/run_nas_decision.sh): a run may stop between any two   *)
(* steps.  The two horizons of an observation are registered in the same   *)
(* loop under the same conditions and are one entry here.                  *)
(***************************************************************************)
EXTENDS DecisionFiles

CONSTANTS
    MaxWorkerFaults,  \* bound on the runs and transfers that fail
    WorkerSkew,    \* the NAS clock minus the cloud clock
    AckWindow,     \* an acknowledgement lists files younger than this
    Opportunity,   \* input -> the market hour its advice is about
    Deadline       \* input -> min(reference_entry_at, expires_at) of its advice

\* Fourteen days against seven: what may be pruned is still listed.
ASSUME WorkerAssumption ==
    /\ MaxWorkerFaults \in Nat
    /\ WorkerSkew \in Int
    /\ WorkerSkew <= 2 * Tolerance
    /\ AckWindow \in Nat
    /\ Retention < AckWindow
    /\ Opportunity \in [Contents -> Nat]
    /\ Deadline \in [Contents -> Nat]

VARIABLES
    wfaults,       \* failures so far
    nasInputs,     \* archive/inputs/: input -> generated_at
    nasCurrent,    \* archive/current-input.json
    nasPublished,  \* archive/publication-receipts.json
    nasResults,    \* archive/results/
    nasPrevious,   \* archive/current-result.json
    nasForward,    \* the observations its forward summary covers
    ledger,        \* forward.duckdb: opportunity -> [result, at] first registered
    wire,          \* results whose transfer was given up but may still land
    wireAcks,      \* and acknowledgements
    wpc,           \* the next step of the run
    wnow,          \* its `current`
    wtodo,         \* publications not yet registered by the run
    wsubject       \* the result the run is about

nasVars == <<nasInputs, nasCurrent, nasPublished, nasResults, nasPrevious, nasForward, ledger>>
wrunVars == <<wnow, wtodo, wsubject>>
workerVars == <<wfaults, nasVars, wire, wireAcks, wpc, wrunVars>>

WPCs == {"idle", "pullInputs", "pullCurrent", "pullPublished", "check", "register",
         "decide", "pointer", "push", "ack"}

WorkerInit ==
    /\ wfaults = 0
    /\ nasInputs = NoFiles
    /\ nasCurrent = NoInput
    /\ nasPublished = {}
    /\ nasResults = {}
    /\ nasPrevious = NoResult
    /\ nasForward = {}
    /\ ledger = NoFiles
    /\ wire = {}
    /\ wireAcks = {}
    /\ wpc = "idle"
    /\ wnow = NoTime
    /\ wtodo = {}
    /\ wsubject = NoResult

\* The archive holds every result that was made and only inputs the cloud signed,
\* whatever the three transfers brought together; a run that is to push has a result.
WorkerTypeOK ==
    /\ wfaults \in 0..MaxWorkerFaults
    /\ DOMAIN nasInputs \subseteq Contents
    /\ \A c \in DOMAIN nasInputs : [input |-> c, gen |-> nasInputs[c]] \in signed
    /\ nasCurrent \in signed \cup {NoInput}
    /\ nasPublished \subseteq Publications
    /\ nasResults = DOMAIN made
    /\ nasPrevious \in nasResults \cup {NoResult}
    /\ \A o \in DOMAIN ledger : ledger[o] \in Publications
    /\ nasForward \subseteq DOMAIN ledger
    /\ wire \subseteq nasResults
    /\ \A a \in wireAcks :
          /\ a = [at |-> a.at, results |-> a.results, inputs |-> a.inputs]
          /\ a.at \in (-Tolerance)..(clock + 2 * Tolerance)
          /\ a.results \subseteq DOMAIN made /\ a.inputs \subseteq signed
    /\ wpc \in WPCs
    /\ wnow \in Int
    /\ wtodo \subseteq nasPublished
    /\ wsubject \in nasResults \cup {NoResult}
    /\ wpc \in {"pointer", "push"} => wsubject # NoResult

WStop ==
    /\ wpc' = "idle"
    /\ wnow' = NoTime
    /\ wtodo' = {}
    /\ wsubject' = NoResult

WorkerFails ==
    /\ wfaults < MaxWorkerFaults
    /\ wfaults' = wfaults + 1

WStart ==
    /\ wpc = "idle"
    /\ wpc' = "pullInputs"
    /\ UNCHANGED <<fileVars, wfaults, nasVars, wire, wireAcks, wrunVars>>

-----------------------------------------------------------------------------
(* Transport.pull: rsync of inputs/ (nothing is deleted here, a file that    *)
(* differs is replaced), then each of the two files.                         *)

\* (a mutant: the archive mirrors the cloud, rsync --delete)
PullMirrored ==
    /\ wpc = "pullInputs"
    /\ nasInputs' = inputs
    /\ wpc' = "pullCurrent"
    /\ UNCHANGED <<fileVars, wfaults, nasCurrent, nasPublished, nasResults, nasPrevious,
                   nasForward, ledger, wire, wireAcks, wrunVars>>

PullInputs ==
    /\ wpc = "pullInputs"
    /\ nasInputs' = [c \in DOMAIN nasInputs \cup DOMAIN inputs |->
                        IF c \in DOMAIN inputs THEN inputs[c] ELSE nasInputs[c]]
    /\ wpc' = "pullCurrent"
    /\ UNCHANGED <<fileVars, wfaults, nasCurrent, nasPublished, nasResults, nasPrevious,
                   nasForward, ledger, wire, wireAcks, wrunVars>>

\* Before the first cycle there is no input to read and the run fails.
PullCurrent ==
    /\ wpc = "pullCurrent"
    /\ IF currentInput = NoInput
       THEN WStop /\ UNCHANGED nasCurrent
       ELSE nasCurrent' = currentInput /\ wpc' = "pullPublished" /\ UNCHANGED wrunVars
    /\ UNCHANGED <<fileVars, wfaults, nasInputs, nasPublished, nasResults, nasPrevious,
                   nasForward, ledger, wire, wireAcks>>

\* The worker reads its clock once, after the transfers.
PullPublished ==
    /\ wpc = "pullPublished"
    /\ nasPublished' = published
    /\ wnow' = clock + WorkerSkew
    /\ wpc' = "check"
    /\ UNCHANGED <<fileVars, wfaults, nasInputs, nasCurrent, nasResults, nasPrevious,
                   nasForward, ledger, wire, wireAcks, wtodo, wsubject>>

-----------------------------------------------------------------------------
(* run_worker *)

\* The input must not be from the future, and the archive must hold this very
\* input; it is written when rsync ran before the cloud published it.
CheckInput ==
    LET c == nasCurrent.input IN
      /\ wpc = "check"
      /\ IF nasCurrent.gen <= wnow + Tolerance
            /\ (c \in DOMAIN nasInputs => nasInputs[c] = nasCurrent.gen)
         THEN /\ nasInputs' = Write(nasInputs, c, nasCurrent.gen)
              /\ wtodo' = nasPublished
              /\ wpc' = "register"
              /\ UNCHANGED <<wnow, wsubject>>
         ELSE WStop /\ UNCHANGED nasInputs
      /\ UNCHANGED <<fileVars, wfaults, nasCurrent, nasPublished, nasResults, nasPrevious,
                     nasForward, ledger, wire, wireAcks>>

Timely(p) == p.at < Deadline[made[p.result].input]

Observe(o, p) == IF Timely(p) /\ o \notin DOMAIN ledger THEN Write(ledger, o, p) ELSE ledger

\* (a mutant: the receipts are registered as they come)
AsTheyCome(p) == p \in wtodo

InOrder(p) == p \in wtodo /\ \A q \in wtodo : p.at < q.at \/ (p.at = q.at /\ p.result <= q.result)

\* Ledger.register, one publication after the other in the order they were
\* published.  An impossible time is an error; a late publication is never an
\* observation; an observation already there is never replaced.  (One release gives all
\* advice one strategy and one cost version, so that the error for an hour that has
\* advice of two is left out.)
Register ==
    /\ wpc = "register"
    /\ \E p \in wtodo :
         LET o == Opportunity[made[p.result].input] IN
         /\ InOrder(p)
         /\ IF p.result \in nasResults /\ made[p.result].gen <= p.at /\ p.at <= wnow
            THEN /\ ledger' = Observe(o, p)
                 /\ wtodo' = wtodo \ {p}
                 /\ UNCHANGED <<wpc, wnow, wsubject>>
            ELSE WStop /\ UNCHANGED ledger
    /\ UNCHANGED <<fileVars, wfaults, nasInputs, nasCurrent, nasPublished, nasResults,
                   nasPrevious, nasForward, wire, wireAcks>>

\* (a mutant: the first run has nothing to compare with)
SameInputOrFirst == nasPrevious # NoResult => made[nasPrevious].input = nasCurrent.input

SameInput == nasPrevious # NoResult /\ made[nasPrevious].input = nasCurrent.input

\* (a mutant: what was pushed once has arrived)
Pushed(r) == TRUE

Reported(r) == \E p \in nasPublished : p.result = r

\* Same input, same observations: no new result.  The old one is sent again
\* unless the cloud has already reported it as published.
KeepPrevious ==
    /\ wpc = "decide"
    /\ SameInput
    /\ nasForward = DOMAIN ledger
    /\ IF Reported(nasPrevious)
       THEN wpc' = "ack" /\ UNCHANGED wsubject
       ELSE wpc' = "push" /\ wsubject' = nasPrevious
    /\ UNCHANGED <<fileVars, wfaults, nasVars, wire, wireAcks, wnow, wtodo>>

\* A new result is archived before anything points at it.  The registration
\* diagnostics of the summary move with the hour, so the same input and the
\* same observations may also give a new one.
NewResult ==
    /\ wpc = "decide"
    /\ \E r \in ResultIds \ DOMAIN made :
         /\ made' = Write(made, r, [gen |-> wnow, input |-> nasCurrent.input, sound |-> TRUE])
         /\ nasResults' = nasResults \cup {r}
         /\ wsubject' = r
    /\ wpc' = "pointer"
    /\ UNCHANGED <<clock, signed, inbox, ack, inputs, currentInput, published,
                   wfaults, nasInputs, nasCurrent, nasPublished, nasPrevious, nasForward, ledger,
                   wire, wireAcks, wnow, wtodo>>

Registered ==
    /\ wpc = "register"
    /\ wtodo = {}
    /\ wpc' = "decide"
    /\ UNCHANGED <<fileVars, wfaults, nasVars, wire, wireAcks, wrunVars>>

PointPrevious ==
    /\ wpc = "pointer"
    /\ nasPrevious' = wsubject
    /\ nasForward' = DOMAIN ledger
    /\ wpc' = "push"
    /\ UNCHANGED <<fileVars, wfaults, nasInputs, nasCurrent, nasPublished, nasResults,
                   ledger, wire, wireAcks, wrunVars>>

-----------------------------------------------------------------------------
(* Transport.push: put under a .part name, then rename; one retry.           *)

PushResult ==
    /\ wpc = "push"
    /\ inbox' = inbox \cup {wsubject}
    /\ wpc' = "ack"
    /\ UNCHANGED <<clock, made, signed, ack, inputs, currentInput, published,
                   wfaults, nasVars, wire, wireAcks, wrunVars>>

\* Both attempts fail: nothing landed, or it landed and the answer was lost, or
\* the rename of an attempt that was given up is still to come.
PushResultFails ==
    /\ wpc = "push"
    /\ WorkerFails
    /\ \/ UNCHANGED <<inbox, wire>>
       \/ inbox' = inbox \cup {wsubject} /\ UNCHANGED wire
       \/ wire' = wire \cup {wsubject} /\ UNCHANGED inbox
    /\ WStop
    /\ UNCHANGED <<clock, made, signed, ack, inputs, currentInput, published, nasVars, wireAcks>>

LandLate ==
    /\ \E r \in wire :
         /\ wire' = wire \ {r}
         /\ inbox' = inbox \cup {r}
    /\ UNCHANGED <<clock, made, signed, ack, inputs, currentInput, published,
                   wfaults, nasVars, wireAcks, wpc, wrunVars>>

\* write_archive_ack: what the archive holds and is not too old to matter.
Listed(mtime) == mtime >= wnow - AckWindow

ArchiveAck ==
    [at |-> wnow,
     results |-> {r \in nasResults : Listed(made[r].gen)},
     inputs |-> {[input |-> c, gen |-> nasInputs[c]] :
                   c \in {d \in DOMAIN nasInputs : Listed(nasInputs[d])}}]

PushAck ==
    /\ wpc = "ack"
    /\ ack' = ArchiveAck
    /\ WStop
    /\ UNCHANGED <<clock, made, signed, inbox, inputs, currentInput, published,
                   wfaults, nasVars, wire, wireAcks>>

\* Given up as a result is; it may take the place of a later one.
PushAckFails ==
    /\ wpc = "ack"
    /\ WorkerFails
    /\ wireAcks' = wireAcks \cup {ArchiveAck}
    /\ WStop
    /\ UNCHANGED <<fileVars, nasVars, wire>>

LandAckLate ==
    /\ \E a \in wireAcks :
         /\ wireAcks' = wireAcks \ {a}
         /\ ack' = a
    /\ UNCHANGED <<clock, made, signed, inbox, inputs, currentInput, published,
                   wfaults, nasVars, wire, wpc, wrunVars>>

\* The run stops: timeout, reboot, a transfer that failed, a full disk.
WorkerStops ==
    /\ wpc # "idle"
    /\ WorkerFails
    /\ WStop
    /\ UNCHANGED <<fileVars, nasVars, wire, wireAcks>>

WorkerRun ==
    \/ WStart
    \/ PullInputs \/ PullCurrent \/ PullPublished
    \/ CheckInput \/ Register \/ Registered
    \/ KeepPrevious \/ NewResult \/ PointPrevious
    \/ PushResult \/ PushAck

WorkerStep ==
    WorkerRun \/ PushResultFails \/ LandLate \/ PushAckFails \/ LandAckLate \/ WorkerStops
=============================================================================
