---------------------------- MODULE DecisionCloud ----------------------------
(***************************************************************************)
(* The cloud half of the decision workflow: one run of                     *)
(* `qlab decision cloud-cycle` (prune, accept, publish the next input) or  *)
(* of `accept-only`, file by file.                                         *)
(*                                                                         *)
(* Both commands run under one flock (deploy/systemd), so there is one     *)
(* program counter.  The units have a timeout and the host may stop: a     *)
(* run can end between any two file operations, and the next run starts    *)
(* from the files (Crash).  An operation may also raise OSError            *)
(* (PruneFails, AcceptFails); outside the two phases that catch it an       *)
(* OSError ends the run as a crash does.                                    *)
(*                                                                         *)
(* The worker is left abstract here (Sign, Deliver, Acknowledge): it may   *)
(* send any signed result, at any time, in any order, again.               *)
(***************************************************************************)
EXTENDS DecisionFiles

CONSTANTS
    Faults,      \* the kinds of failure this instance admits
    MaxFaults    \* bound on their number

\* "crash": a run stops between two file operations;
\* "recovery_crash": it stops inside the repair it makes of an earlier crash;
\* "prune_io", "accept_io": one operation of that phase raises OSError.
FaultKinds == {"crash", "recovery_crash", "prune_io", "accept_io"}

ASSUME FaultsAssumption ==
    /\ Faults \subseteq FaultKinds
    /\ MaxFaults \in Nat

VARIABLES
    faults,         \* failures so far
    results,        \* results/: accepted result -> mtime
    receipts,       \* receipts/: result -> published_at, NoTime when only accepted
    details,        \* advice/ beside publication.json: advice -> mtime
    retention,      \* retention/: names with a durable record of their removal
    currentResult,  \* current-result.json
    publication,    \* publication.json: what the API serves
    pc,             \* the next file operation of the run
    mode,           \* which command runs
    now,            \* its `now`
    files,          \* inbox names not yet handled
    previous,       \* the in-memory copy of the current result
    subject,        \* the file a multi-step operation is about
    todo,           \* acknowledged [results, inputs] not yet visited
    protected,      \* [results, inputs, advice] retention must not touch
    firstPublished  \* history: result -> the time it was first committed

dirVars == <<results, receipts, details, retention, currentResult, publication>>
runVars == <<mode, now, files, previous, subject, todo, protected>>
auxVars == <<faults, firstPublished>>
cloudVars == <<dirVars, pc, runVars, auxVars>>

NoPublication == [result |-> NoResult, at |-> NoTime]
Nothing == [results |-> {}, inputs |-> {}]
Unprotected == [results |-> {}, inputs |-> {}, advice |-> {}]

PrunePCs == {"prune", "pruneResults", "unlinkDetail", "unlinkReceipt",
             "unlinkResult", "pruneInputs", "unlinkInput"}
AcceptPCs == {"commit", "detail", "pointer", "receipt", "clear"}
PCs == PrunePCs \cup AcceptPCs \cup
       {"idle", "accept", "recover", "recoverPointer", "recoverDetail",
        "scan", "report", "collect", "point"}

\* One more failure of a kind this instance admits.
Fail(kind) ==
    /\ kind \in Faults
    /\ faults < MaxFaults
    /\ faults' = faults + 1

\* The advice of a result is rebuilt only when its input changes (run_worker
\* reuses previous.advice), so the input names the advice.  Facts that recur after
\* others are given new advice by the code; to share it is the harder case.
Advice(r) == made[r].input

CloudInit ==
    /\ faults = 0
    /\ results = NoFiles
    /\ receipts = NoFiles
    /\ details = NoFiles
    /\ retention = {}
    /\ currentResult = NoResult
    /\ publication = NoPublication
    /\ pc = "idle"
    /\ mode = "cycle"
    /\ now = NoTime
    /\ files = {}
    /\ previous = NoResult
    /\ subject = NoResult
    /\ todo = Nothing
    /\ protected = Unprotected
    /\ firstPublished = NoFiles

\* The run is over: what it held in memory is gone.
Stop ==
    /\ pc' = "idle"
    /\ mode' = "cycle"
    /\ now' = NoTime
    /\ files' = {}
    /\ previous' = NoResult
    /\ subject' = NoResult
    /\ todo' = Nothing
    /\ protected' = Unprotected

StartCycle ==
    /\ pc = "idle"
    /\ pc' = "prune"
    /\ now' = clock
    /\ UNCHANGED <<fileVars, dirVars, mode, files, previous, subject, todo, protected, auxVars>>

\* accept-only returns at once when the inbox holds no result.
StartAcceptOnly ==
    /\ pc = "idle"
    /\ inbox # {}
    /\ pc' = "accept"
    /\ mode' = "accept"
    /\ now' = clock
    /\ UNCHANGED <<fileVars, dirVars, files, previous, subject, todo, protected, auxVars>>

-----------------------------------------------------------------------------
(* prune_acknowledged *)

\* (a mutant: however old the acknowledgement is)
AckOfAnyAge == ack # NoAck /\ ack.at <= now + Tolerance

AckUsable ==
    /\ ack # NoAck
    /\ ack.at <= now + Tolerance
    /\ now - ack.at <= AckMaxAge

Aged(mtime) == mtime < now - Retention

\* No acknowledgement, a stale one or a future one: nothing is removed.
PruneBlocked ==
    /\ pc = "prune"
    /\ ~AckUsable
    /\ pc' = "accept"
    /\ UNCHANGED <<fileVars, dirVars, runVars, auxVars>>

Current == {currentResult} \ {NoResult}

\* (a mutant: the hot results and the inbox are not read)
InputsOfPointers == {currentInput.input} \cup {made[r].input : r \in Current}

\* Inputs referenced by any still-hot result must stay available.
InputsInUse ==
    {currentInput.input} \cup {made[r].input : r \in Current \cup DOMAIN results \cup inbox}

\* (a mutant: details are shared with nobody)
NoAdvice == {}

AdviceInUse == {Advice(r) : r \in Current}

Acknowledged == [results |-> ack.results, inputs |-> ack.inputs]

\* The protected names are read once, before anything is removed.
PruneBegin ==
    /\ pc = "prune"
    /\ AckUsable
    /\ protected' = [results |-> Current, inputs |-> InputsInUse, advice |-> AdviceInUse]
    /\ todo' = Acknowledged
    /\ pc' = "pruneResults"
    /\ UNCHANGED <<fileVars, dirVars, mode, now, files, previous, subject, auxVars>>

PrunableResults ==
    {r \in todo.results :
        r \notin protected.results /\ r \in DOMAIN results /\ Aged(results[r])}

PrunableInputs ==
    {e \in todo.inputs :
        /\ e.input \notin protected.inputs
        /\ e.input \in DOMAIN inputs
        /\ Aged(inputs[e.input])}

Recorded(kind, name) == retention \cup {<<kind, name>>}

\* The durable record of a removal precedes the removal.
PruneResult ==
    /\ pc = "pruneResults"
    /\ \E r \in PrunableResults :
         /\ \A q \in PrunableResults : r <= q
         /\ subject' = r
         /\ todo' = [todo EXCEPT !.results = @ \ {r}]
         /\ retention' = Recorded("result", r)
    /\ pc' = "unlinkDetail"
    /\ UNCHANGED <<fileVars, results, receipts, details, currentResult, publication,
                   mode, now, files, previous, protected, auxVars>>

UnlinkDetail ==
    /\ pc = "unlinkDetail"
    /\ LET a == Advice(subject) IN
         details' = IF a \notin protected.advice /\ a \in DOMAIN details /\ Aged(details[a])
                    THEN Unlink(details, a) ELSE details
    /\ pc' = "unlinkReceipt"
    /\ UNCHANGED <<fileVars, results, receipts, retention, currentResult, publication,
                   runVars, auxVars>>

UnlinkReceipt ==
    /\ pc = "unlinkReceipt"
    /\ receipts' = Unlink(receipts, subject)
    /\ pc' = "unlinkResult"
    /\ UNCHANGED <<fileVars, results, details, retention, currentResult, publication,
                   runVars, auxVars>>

UnlinkResult ==
    /\ pc = "unlinkResult"
    /\ results' = Unlink(results, subject)
    /\ subject' = NoResult
    /\ pc' = "pruneResults"
    /\ UNCHANGED <<fileVars, receipts, details, retention, currentResult, publication,
                   mode, now, files, previous, todo, protected, auxVars>>

PruneResultsDone ==
    /\ pc = "pruneResults"
    /\ PrunableResults = {}
    /\ pc' = "pruneInputs"
    /\ UNCHANGED <<fileVars, dirVars, runVars, auxVars>>

\* A digest that is not the cloud file's own stops the pruning with an error;
\* generated_at is the part of an input its identity does not cover.
PruneInput ==
    /\ pc = "pruneInputs"
    /\ \E e \in PrunableInputs :
         /\ \A f \in PrunableInputs : e.input <= f.input
         /\ IF inputs[e.input] = e.gen
            THEN /\ subject' = e.input
                 /\ todo' = [todo EXCEPT !.inputs = @ \ {e}]
                 /\ retention' = Recorded("input", e.input)
                 /\ pc' = "unlinkInput"
            ELSE /\ pc' = "accept"
                 /\ UNCHANGED <<subject, todo, retention>>
    /\ UNCHANGED <<fileVars, results, receipts, details, currentResult, publication,
                   mode, now, files, previous, protected, auxVars>>

UnlinkInput ==
    /\ pc = "unlinkInput"
    /\ inputs' = Unlink(inputs, subject)
    /\ subject' = NoResult
    /\ pc' = "pruneInputs"
    /\ UNCHANGED <<clock, made, signed, inbox, ack, currentInput, published, dirVars,
                   mode, now, files, previous, todo, protected, auxVars>>

PruneDone ==
    /\ pc = "pruneInputs"
    /\ PrunableInputs = {}
    /\ pc' = "accept"
    /\ UNCHANGED <<fileVars, dirVars, runVars, auxVars>>

\* An OSError ends the pruning, not the run (BLOCKED_RETENTION_ERROR).
PruneFails ==
    /\ Fail("prune_io")
    /\ pc \in PrunePCs \ {"prune"}
    /\ pc' = "accept"
    /\ subject' = NoResult
    /\ UNCHANGED <<fileVars, dirVars, mode, now, files, previous, todo, protected,
                   firstPublished>>

-----------------------------------------------------------------------------
(* accept_results *)

\* The inbox is listed before the repair of an earlier crash.
ListInbox ==
    /\ pc = "accept"
    /\ files' = inbox
    /\ todo' = Nothing
    /\ protected' = Unprotected
    /\ subject' = NoResult
    /\ IF publication = NoPublication
       THEN pc' = "scan" /\ previous' = currentResult
       ELSE pc' = "recover" /\ UNCHANGED previous
    /\ UNCHANGED <<fileVars, dirVars, mode, now, auxVars>>

\* (mutants: the repair stamps the receipt itself, or not at all)
TimeOfRepair == now
TimeForgotten == NoTime

\* The time of an interrupted publication is the one in its envelope.
CommittedTime == publication.at

\* publication.json is the commit point: a receipt that is missing for it is
\* one the crash prevented.
RecoverReceipt ==
    /\ pc = "recover"
    /\ IF publication.result \in DOMAIN receipts
       THEN pc' = "recoverDetail" /\ UNCHANGED receipts
       ELSE /\ receipts' = Write(receipts, publication.result, CommittedTime)
            /\ pc' = "recoverPointer"
    /\ UNCHANGED <<fileVars, results, details, retention, currentResult, publication,
                   runVars, auxVars>>

\* (a mutant: the pointer is left to the next publication)
SkipPointer ==
    /\ pc = "recoverPointer"
    /\ pc' = "recoverDetail"
    /\ UNCHANGED <<fileVars, dirVars, runVars, auxVars>>

RecoverPointer ==
    /\ pc = "recoverPointer"
    /\ currentResult' = publication.result
    /\ pc' = "recoverDetail"
    /\ UNCHANGED <<fileVars, results, receipts, details, retention, publication,
                   runVars, auxVars>>

\* (a mutant: only the list is published)
WithoutDetail(a) == details

WithDetail(a) == IF a \in DOMAIN details THEN details ELSE Write(details, a, clock)

RecoverDetail ==
    /\ pc = "recoverDetail"
    /\ details' = WithDetail(Advice(publication.result))
    /\ previous' = currentResult
    /\ pc' = "scan"
    /\ UNCHANGED <<fileVars, results, receipts, retention, currentResult, publication,
                   mode, now, files, subject, todo, protected, auxVars>>

\* The for loop takes the files in the order of their names.
Next1(f) == f \in files /\ \A g \in files : f <= g

\* (a mutant: a result as old as its input predates it)
AcceptableAfter(f) ==
    /\ made[f].sound
    /\ made[f].input \in DOMAIN inputs
    /\ made[f].gen <= now + Tolerance
    /\ made[f].gen > inputs[made[f].input]

Acceptable(f) ==
    /\ made[f].sound
    /\ made[f].input \in DOMAIN inputs
    /\ made[f].gen <= now + Tolerance
    /\ made[f].gen >= inputs[made[f].input]

\* previous_input cannot be loaded: the result is refused after its copy.
PreviousLost == previous # NoResult /\ made[previous].input \notin DOMAIN inputs

\* (a mutant: the input's age is not compared)
AdvancesInTime(f) == previous = NoResult \/ made[f].gen > made[previous].gen

Advances(f) ==
    \/ previous = NoResult
    \/ /\ made[f].gen > made[previous].gen
       /\ inputs[made[f].input] >= inputs[made[previous].input]

SkipDuplicate(f) ==
    /\ pc = "scan"
    /\ Next1(f)
    /\ f \in DOMAIN receipts
    /\ inbox' = inbox \ {f}
    /\ files' = files \ {f}
    /\ UNCHANGED <<clock, made, signed, ack, inputs, currentInput, published, dirVars,
                   pc, mode, now, previous, subject, todo, protected, auxVars>>

\* A refused file stays in the inbox and is tried again by the next run.
Reject(f) ==
    /\ pc = "scan"
    /\ Next1(f)
    /\ f \notin DOMAIN receipts
    /\ ~Acceptable(f)
    /\ files' = files \ {f}
    /\ UNCHANGED <<fileVars, dirVars, pc, mode, now, previous, subject, todo, protected,
                   auxVars>>

StoreResult(f) ==
    /\ pc = "scan"
    /\ Next1(f)
    /\ f \notin DOMAIN receipts
    /\ Acceptable(f)
    /\ results' = Write(results, f, clock)
    /\ IF PreviousLost
       THEN files' = files \ {f} /\ UNCHANGED <<pc, subject>>
       ELSE /\ subject' = f
            /\ pc' = IF Advances(f) THEN "commit" ELSE "receipt"
            /\ UNCHANGED files
    /\ UNCHANGED <<fileVars, receipts, details, retention, currentResult, publication,
                   mode, now, previous, todo, protected, auxVars>>

CommitPublication ==
    /\ pc = "commit"
    /\ publication' = [result |-> subject, at |-> now]
    /\ firstPublished' = IF subject \in DOMAIN firstPublished THEN firstPublished
                         ELSE Write(firstPublished, subject, now)
    /\ pc' = "detail"
    /\ UNCHANGED <<fileVars, results, receipts, details, retention, currentResult,
                   runVars, faults>>

WriteDetail ==
    /\ pc = "detail"
    /\ details' = WithDetail(Advice(subject))
    /\ pc' = "pointer"
    /\ UNCHANGED <<fileVars, results, receipts, retention, currentResult, publication,
                   runVars, auxVars>>

WritePointer ==
    /\ pc = "pointer"
    /\ currentResult' = subject
    /\ previous' = subject
    /\ pc' = "receipt"
    /\ UNCHANGED <<fileVars, results, receipts, details, retention, publication,
                   mode, now, files, subject, todo, protected, auxVars>>

\* previous = subject holds exactly when this run published the subject.
WriteReceipt ==
    /\ pc = "receipt"
    /\ receipts' = Write(receipts, subject, IF previous = subject THEN now ELSE NoTime)
    /\ pc' = "clear"
    /\ UNCHANGED <<fileVars, results, details, retention, currentResult, publication,
                   runVars, auxVars>>

ClearInbox ==
    /\ pc = "clear"
    /\ inbox' = inbox \ {subject}
    /\ files' = files \ {subject}
    /\ subject' = NoResult
    /\ pc' = "scan"
    /\ UNCHANGED <<clock, made, signed, ack, inputs, currentInput, published, dirVars,
                   mode, now, previous, todo, protected, auxVars>>

\* An OSError inside the try block refuses the file and goes on with the next;
\* `previous` keeps the value it had.
AcceptFails ==
    /\ Fail("accept_io")
    /\ \E f \in files :
         /\ Next1(f)
         /\ pc \in AcceptPCs \/ (pc = "scan" /\ f \notin DOMAIN receipts)
         /\ files' = files \ {f}
    /\ subject' = NoResult
    /\ pc' = "scan"
    /\ UNCHANGED <<fileVars, dirVars, mode, now, previous, todo, protected, firstPublished>>

\* The receipts that carry a publication time are signed for the worker.
Report ==
    /\ pc = "scan"
    /\ files = {}
    /\ published' = {[result |-> r, at |-> receipts[r]] :
                        r \in {q \in DOMAIN receipts : receipts[q] # NoTime}}
    /\ IF mode = "cycle"
       THEN /\ pc' = "collect"
            /\ previous' = NoResult
            /\ UNCHANGED <<mode, now, files, subject, todo, protected>>
       ELSE Stop
    /\ UNCHANGED <<clock, made, signed, inbox, ack, inputs, currentInput, dirVars, auxVars>>

-----------------------------------------------------------------------------
(* publish_current *)

\* Facts that were signed before keep the file and the generation time they
\* have; new facts are signed with the time they were collected.
PublishInput ==
    /\ pc = "collect"
    /\ \E c \in Contents :
         /\ subject' = c
         /\ inputs' = IF c \in DOMAIN inputs THEN inputs ELSE Write(inputs, c, clock)
         /\ signed' = IF c \in DOMAIN inputs THEN signed
                      ELSE signed \cup {[input |-> c, gen |-> clock]}
    /\ pc' = "point"
    /\ UNCHANGED <<clock, made, inbox, ack, currentInput, published, dirVars,
                   mode, now, files, previous, todo, protected, auxVars>>

PointInput ==
    /\ pc = "point"
    /\ currentInput' = [input |-> subject, gen |-> inputs[subject]]
    /\ Stop
    /\ UNCHANGED <<clock, made, signed, inbox, ack, inputs, published, dirVars, auxVars>>

\* The exchange cannot be read: the previous input stays current.
PublishFails ==
    /\ pc = "collect"
    /\ Stop
    /\ UNCHANGED <<fileVars, dirVars, auxVars>>

Crash ==
    /\ pc # "idle"
    /\ Fail(IF pc = "recoverPointer" THEN "recovery_crash" ELSE "crash")
    /\ Stop
    /\ UNCHANGED <<fileVars, dirVars, firstPublished>>

Prune ==
    \/ PruneBlocked \/ PruneBegin
    \/ PruneResult \/ UnlinkDetail \/ UnlinkReceipt \/ UnlinkResult \/ PruneResultsDone
    \/ PruneInput \/ UnlinkInput \/ PruneDone

Accept ==
    \/ ListInbox
    \/ RecoverReceipt \/ RecoverPointer \/ RecoverDetail
    \/ \E f \in files : SkipDuplicate(f) \/ Reject(f) \/ StoreResult(f)
    \/ CommitPublication \/ WriteDetail \/ WritePointer \/ WriteReceipt \/ ClearInbox
    \/ Report

Publish == PublishInput \/ PointInput

Start == StartCycle \/ StartAcceptOnly
Fault == PruneFails \/ AcceptFails \/ PublishFails \/ Crash

CloudStep == Start \/ Prune \/ Accept \/ Publish \/ Fault

-----------------------------------------------------------------------------
(* Any worker. *)

\* A result is signed by the worker's clock, which may run ahead or behind.
Sign ==
    /\ \E r \in ResultIds \ DOMAIN made, s \in signed, ok \in BOOLEAN,
           g \in (-Tolerance)..(clock + 2 * Tolerance) :
         made' = Write(made, r, [gen |-> g, input |-> s.input, sound |-> ok])
    /\ UNCHANGED <<clock, signed, inbox, ack, inputs, currentInput, published, cloudVars>>

\* It arrives once, late, again, or never.
Deliver ==
    /\ \E r \in DOMAIN made : inbox' = inbox \cup {r}
    /\ UNCHANGED <<clock, made, signed, ack, inputs, currentInput, published, cloudVars>>

Acknowledge ==
    /\ \E R \in SUBSET DOMAIN made, S \in SUBSET signed,
           t \in (-Tolerance)..(clock + 2 * Tolerance) :
         ack' = [at |-> t, results |-> R, inputs |-> S]
    /\ UNCHANGED <<clock, made, signed, inbox, inputs, currentInput, published, cloudVars>>

Environment == Sign \/ Deliver \/ Acknowledge \/ (Tick /\ UNCHANGED cloudVars)

vars == <<fileVars, cloudVars>>

Init == FilesInit /\ CloudInit
Next == CloudStep \/ Environment
Spec == Init /\ [][Next]_vars

-----------------------------------------------------------------------------
(* Correctness. *)

DirsTypeOK ==
    /\ IsDirectory(results, DOMAIN made, Nat)
    /\ IsDirectory(receipts, DOMAIN made, Nat)
    /\ IsDirectory(details, Contents, Nat)
    /\ retention \subseteq ({"result"} \X ResultIds) \cup ({"input"} \X Contents)
    /\ currentResult \in DOMAIN made \cup {NoResult}
    /\ publication \in [result : DOMAIN made, at : Nat] \cup {NoPublication}

RunTypeOK ==
    /\ pc \in PCs
    /\ mode \in {"cycle", "accept"}
    /\ now \in Nat
    /\ files \subseteq DOMAIN made
    /\ previous \in DOMAIN made \cup {NoResult}
    /\ subject \in Nat
    /\ todo \in [results : SUBSET ResultIds, inputs : SUBSET SignedInputs]
    /\ protected \in [results : SUBSET ResultIds, inputs : SUBSET (Contents \cup {0}),
                      advice : SUBSET Contents]

\* Every pointer, receipt and envelope names a result that was signed, also between
\* two file operations and after a crash.
TypeOK ==
    /\ FilesTypeOK
    /\ DirsTypeOK
    /\ RunTypeOK
    /\ faults \in 0..MaxFaults
    /\ IsDirectory(firstPublished, DOMAIN made, Nat)

\* The basis of a publication is read from inputs/, as the next run reads it.
Served ==
    LET r == publication.result IN
      IF publication = NoPublication THEN [result |-> 0, gen |-> 0, basis |-> 0]
      ELSE [result |-> r,
            gen |-> made[r].gen,
            basis |-> IF made[r].input \in DOMAIN inputs THEN inputs[made[r].input] ELSE NoTime]

Log == INSTANCE PublicationLog WITH Names <- ResultIds, served <- Served, log <- firstPublished

\* publication.json behaves as the log promises, through crashes, repairs,
\* duplicates, late arrivals and the pruning of old evidence: published once, at
\* one time, never replaced by an older result or by one of older facts.
ImplementsLog == Log!Spec

\* The repair accept_results makes of an interrupted publication leaves the
\* pointer the next comparison starts from at the published result.
RepairRestoresPointer ==
    [][pc = "recoverDetail" /\ pc' = "scan" => previous' = publication.result]_vars

\* A publication time, in a receipt or in the report the worker reads, is the
\* time of the first commit and no other.
FirstTimesKept ==
    /\ \A r \in DOMAIN receipts :
         receipts[r] # NoTime => r \in DOMAIN firstPublished /\ receipts[r] = firstPublished[r]
    /\ \A p \in published : p.result \in DOMAIN firstPublished /\ p.at = firstPublished[p.result]

\* What the next acceptance must load is there: the inputs of the current and
\* the published result, and of every result still hot.  Without them every
\* later result would be refused (PreviousLost).
EvidenceKept ==
    \A r \in ({currentResult, publication.result} \ {NoResult}) \cup DOMAIN results :
        made[r].input \in DOMAIN inputs

\* No file leaves results/ or inputs/ before retention/ says so: an interrupted
\* pruning can be told from a loss.
RemovalRecorded ==
    [][/\ \A r \in DOMAIN results \ DOMAIN results' : <<"result", r>> \in retention
       /\ \A c \in DOMAIN inputs \ DOMAIN inputs' : <<"input", c>> \in retention]_vars

\* Results share advice: removing an old one takes no detail the current result
\* still lists, however old that detail is.
CurrentDetailKept ==
    [][\A a \in DOMAIN details \ DOMAIN details' :
          currentResult # NoResult => a # Advice(currentResult)]_vars

\* When a run has repaired or published, the advice the API lists can be opened.
ServedDetailExists ==
    pc \in {"scan", "collect", "point"} /\ publication # NoPublication
        => Advice(publication.result) \in DOMAIN details

-----------------------------------------------------------------------------
(* Liveness, under the fairness DecisionExchange states for both machines.    *)

\* A sound result that waits in the inbox and whose time has come is taken.
AcceptedEventually ==
    \A r \in ResultIds :
        (r \in inbox /\ made[r].sound /\ made[r].gen <= clock
           /\ made[r].input \in DOMAIN inputs /\ made[r].gen >= inputs[made[r].input])
        ~> r \notin inbox

\* Every committed publication is one day in the report the worker reads.
CommitReported ==
    \A r \in ResultIds :
        publication.result = r ~> \E p \in published : p.result = r
=============================================================================
