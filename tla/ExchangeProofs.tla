---------------------------- MODULE ExchangeProofs ----------------------------
(***************************************************************************)
(* The cloud and the worker together, for any number of results, inputs,   *)
(* failures and clocks: the worker is one of the workers the cloud was     *)
(* proved with, no fact is lost between the two machines, and retention    *)
(* does not overtake observation.                                          *)
(***************************************************************************)
EXTENDS DecisionExchange, DecisionCloudProofs

-----------------------------------------------------------------------------
(* The worker keeps to the environment of the cloud.                         *)

\* The worker has read its clock.
Clocked == {"check", "register", "decide", "pointer", "push", "ack"}

IsSigned(dir) == \A c \in DOMAIN dir : [input |-> c, gen |-> dir[c]] \in signed

\* What the worker hands back was signed before, by a clock that is not further
\* ahead than the cloud forgives.
Faithful ==
    /\ IsSigned(inputs)
    /\ currentInput \in signed \cup {NoInput}
    /\ wpc \in {"pullPublished"} \cup Clocked => nasCurrent \in signed
    /\ wpc \in Clocked => wnow <= clock + 2 * Tolerance
    /\ wpc \in Clocked \ {"check"} => -Tolerance <= wnow
    /\ wpc # "register" => wtodo = {}

Joined == Typed /\ WorkerTypeOK /\ Faithful

\* The two machines start without files.
LEMMA JoinedInit == ExchangeInit => Init /\ Joined
  <1> SUFFICES ASSUME ExchangeInit PROVE Init /\ Joined
    OBVIOUS
  <1>1. Init /\ Typed
    BY TypesInit DEF ExchangeInit, Init
  <1>2. WorkerTypeOK
    BY WorkerAssumption
    DEF ExchangeInit, FilesInit, WorkerInit, WorkerTypeOK, NoFiles, NoTime, WPCs
  <1>3. Faithful
    BY DEF ExchangeInit, FilesInit, WorkerInit, Faithful, IsSigned, Clocked, NoFiles
  <1> QED
    BY <1>1, <1>2, <1>3 DEF Joined

\* Every step of the worker is one the cloud expects of a worker, or none.
LEMMA WorkerStepMaps ==
    ASSUME Joined, WorkerStep, UNCHANGED cloudVars
    PROVE  [Next]_vars
  <1> USE DEF Joined
  <1>1. CASE \/ WStart \/ PullInputs \/ PullCurrent \/ PullPublished \/ CheckInput \/ Register
             \/ Registered \/ KeepPrevious \/ PointPrevious \/ WorkerStops
    BY <1>1
    DEF WStart, PullInputs, PullCurrent, PullPublished, CheckInput, Register, Registered,
        KeepPrevious, PointPrevious, WorkerStops, fileVars, vars
  <1>2. CASE NewResult
    <2>1. PICK r \in ResultIds \ DOMAIN made :
             made' = Write(made, r, [gen |-> wnow, input |-> nasCurrent.input, sound |-> TRUE])
      BY <1>2 DEF NewResult
    <2>2. nasCurrent \in signed /\ wnow \in (-Tolerance)..(clock + 2 * Tolerance)
      BY <1>2, TimesAssumption
      DEF NewResult, Faithful, Clocked, WorkerTypeOK, Typed, TypeOK, FilesTypeOK
    <2>3. Sign
      BY <1>2, <2>1, <2>2 DEF NewResult, Sign
    <2> QED
      BY <2>3 DEF Next, Environment
  <1>3. CASE PushResult \/ PushResultFails \/ LandLate
    <2>1. nasResults = DOMAIN made /\ wire \subseteq nasResults
             /\ (wpc = "push" => wsubject \in nasResults)
      BY DEF WorkerTypeOK
    <2>2. CASE PushResult
      <3>1. Deliver
        BY <1>3, <2>1, <2>2 DEF PushResult, Deliver
      <3> QED
        BY <3>1 DEF Next, Environment
    <2>3. CASE LandLate
      <3>1. Deliver
        BY <1>3, <2>1, <2>3 DEF LandLate, Deliver
      <3> QED
        BY <3>1 DEF Next, Environment
    <2>4. CASE PushResultFails
      <3>1. UNCHANGED <<clock, made, signed, ack, inputs, currentInput, published>>
        BY <2>4 DEF PushResultFails
      <3>2. UNCHANGED inbox \/ inbox' = inbox \cup {wsubject}
        BY <2>4 DEF PushResultFails
      <3>3. wpc = "push"
        BY <2>4 DEF PushResultFails
      <3>4. UNCHANGED fileVars \/ Deliver
        BY <2>1, <3>1, <3>2, <3>3 DEF Deliver, fileVars
      <3> QED
        BY <3>4 DEF Next, Environment, vars
    <2> QED
      BY <1>3, <2>2, <2>3, <2>4
  <1>4. CASE PushAck
    <2> DEFINE R == {r \in nasResults : Listed(made[r].gen)}
               S == {[input |-> c, gen |-> nasInputs[c]] :
                        c \in {d \in DOMAIN nasInputs : Listed(nasInputs[d])}}
    <2>1. ack' = [at |-> wnow, results |-> R, inputs |-> S]
      BY <1>4 DEF PushAck, ArchiveAck
    <2>2. R \in SUBSET DOMAIN made
      BY DEF WorkerTypeOK
    <2>3. S \in SUBSET signed
      BY DEF WorkerTypeOK
    <2>4. wnow \in (-Tolerance)..(clock + 2 * Tolerance)
      BY <1>4, TimesAssumption
      DEF PushAck, Faithful, Clocked, WorkerTypeOK, Typed, TypeOK, FilesTypeOK
    <2> HIDE DEF R, S
    <2>5. Acknowledge
      BY <1>4, <2>1, <2>2, <2>3, <2>4 DEF PushAck, Acknowledge
    <2> QED
      BY <2>5 DEF Next, Environment
  <1>5. CASE PushAckFails
    BY <1>5 DEF PushAckFails, vars
  <1>6. CASE LandAckLate
    <2>1. PICK a \in wireAcks : ack' = a
      BY <1>6 DEF LandAckLate
    <2>2. /\ a = [at |-> a.at, results |-> a.results, inputs |-> a.inputs]
          /\ a.at \in (-Tolerance)..(clock + 2 * Tolerance)
          /\ a.results \in SUBSET DOMAIN made /\ a.inputs \in SUBSET signed
      BY DEF WorkerTypeOK
    <2>3. Acknowledge
      BY <1>6, <2>1, <2>2 DEF LandAckLate, Acknowledge
    <2> QED
      BY <2>3 DEF Next, Environment
  <1> QED
    BY <1>1, <1>2, <1>3, <1>4, <1>5, <1>6 DEF WorkerStep, WorkerRun

LEMMA ExchangeStepMaps ==
    ASSUME Joined, [ExchangeNext]_exchangeVars
    PROVE  [Next]_vars
  <1>1. CASE CloudStep /\ UNCHANGED workerVars
    BY <1>1 DEF Next
  <1>2. CASE WorkerStep /\ UNCHANGED cloudVars
    BY <1>2, WorkerStepMaps
  <1>3. CASE Tick /\ UNCHANGED <<cloudVars, workerVars>>
    BY <1>3 DEF Next, Environment
  <1>4. CASE UNCHANGED exchangeVars
    BY <1>4 DEF exchangeVars, vars
  <1> QED
    BY <1>1, <1>2, <1>3, <1>4 DEF ExchangeNext

\* The archive stays one of signed inputs and of every result, through any transfer.
LEMMA WorkerTypesStep ==
    ASSUME Joined, Typed', [ExchangeNext]_exchangeVars
    PROVE  WorkerTypeOK'
  <1> USE DEF Joined, workerVars, nasVars, wrunVars, fileVars
  <1>1. CASE CloudStep /\ UNCHANGED workerVars
    <2>1. signed \subseteq signed' /\ UNCHANGED <<made, clock, workerVars>>
      BY <1>1
      DEF CloudStep, Start, StartCycle, StartAcceptOnly, Prune, PruneBlocked, PruneBegin,
          PruneResult, UnlinkDetail, UnlinkReceipt, UnlinkResult, PruneResultsDone, PruneInput,
          UnlinkInput, PruneDone, Accept, ListInbox, RecoverReceipt, RecoverPointer,
          RecoverDetail, SkipDuplicate, Reject, StoreResult, CommitPublication, WriteDetail,
          WritePointer, WriteReceipt, ClearInbox, Report, Publish, PublishInput, PointInput,
          Fault, PruneFails, AcceptFails, PublishFails, Crash
    <2> QED
      BY <2>1 DEF WorkerTypeOK
  <1>2. CASE Tick /\ UNCHANGED <<cloudVars, workerVars>>
    <2>1. clock' = clock + 1 /\ clock \in Int /\ Tolerance \in Int
      BY <1>2, TimesAssumption DEF Tick, Typed, TypeOK, FilesTypeOK
    <2>2. (-Tolerance)..(clock + 2 * Tolerance) \subseteq (-Tolerance)..(clock' + 2 * Tolerance)
      BY <2>1
    <2> QED
      BY <1>2, <2>2 DEF Tick, WorkerTypeOK
  <1>3. CASE UNCHANGED exchangeVars
    BY <1>3 DEF exchangeVars, WorkerTypeOK
  <1>4. CASE \/ WStart \/ Registered \/ KeepPrevious \/ WorkerStops
    BY <1>4, WorkerAssumption
    DEF WStart, Registered, KeepPrevious, SameInput, WorkerStops, WorkerFails, WStop, NoTime,
        WPCs, WorkerTypeOK
  <1>5. CASE PullInputs
    <2>1. /\ UNCHANGED <<fileVars, wfaults, nasCurrent, nasPublished, nasResults, nasPrevious,
                         nasForward, ledger, wire, wireAcks, wrunVars>>
          /\ wpc' = "pullCurrent"
          /\ nasInputs' = [c \in DOMAIN nasInputs \cup DOMAIN inputs |->
                              IF c \in DOMAIN inputs THEN inputs[c] ELSE nasInputs[c]]
      BY <1>5 DEF PullInputs
    <2>2. DOMAIN nasInputs' \subseteq Contents
      BY <2>1 DEF WorkerTypeOK, Typed, TypeOK, FilesTypeOK, IsDirectory
    <2>3. \A c \in DOMAIN nasInputs' : [input |-> c, gen |-> nasInputs'[c]] \in signed'
      BY <2>1 DEF WorkerTypeOK, Faithful, IsSigned
    <2> QED
      BY <2>1, <2>2, <2>3 DEF WorkerTypeOK, WPCs
  <1>6. CASE PullCurrent
    <2>1. currentInput \in signed \cup {NoInput}
      BY DEF Faithful
    <2> QED
      BY <1>6, <2>1 DEF PullCurrent, WStop, NoTime, WorkerTypeOK, WPCs
  <1>7. CASE PullPublished
    <2>1. published \subseteq Publications /\ wnow' \in Int
      BY <1>7, WorkerAssumption DEF PullPublished, Typed, TypeOK, FilesTypeOK
    <2>2. wtodo' = {} /\ wsubject' = wsubject
      BY <1>7 DEF PullPublished, Faithful
    <2>3. /\ UNCHANGED <<fileVars, wfaults, nasInputs, nasCurrent, nasResults, nasPrevious,
                         nasForward, ledger, wire, wireAcks>>
          /\ wpc' = "check" /\ nasPublished' = published
      BY <1>7 DEF PullPublished
    <2> QED
      BY <2>1, <2>2, <2>3 DEF WorkerTypeOK, WPCs
  <1>8. CASE CheckInput
    <2>1. nasCurrent \in signed /\ nasCurrent \in SignedInputs
      BY <1>8 DEF CheckInput, Faithful, Clocked, Typed, TypeOK, FilesTypeOK
    <2>2. nasCurrent = [input |-> nasCurrent.input, gen |-> nasCurrent.gen]
             /\ nasCurrent.input \in Contents
      BY <2>1 DEF SignedInputs
    <2>3. UNCHANGED <<fileVars, wfaults, nasCurrent, nasPublished, nasResults, nasPrevious,
                      nasForward, ledger, wire, wireAcks>>
      BY <1>8 DEF CheckInput
    <2>4. /\ nasInputs' \in {nasInputs, Write(nasInputs, nasCurrent.input, nasCurrent.gen)}
          /\ wtodo' \in {{}, nasPublished}
          /\ wpc' \in {"register", "idle"}
          /\ wnow' \in {wnow, NoTime}
          /\ wsubject' \in {wsubject, NoResult}
      BY <1>8 DEF CheckInput, WStop
    <2>5. /\ DOMAIN nasInputs' \subseteq Contents
          /\ \A c \in DOMAIN nasInputs' : [input |-> c, gen |-> nasInputs'[c]] \in signed'
      BY <2>1, <2>2, <2>3, <2>4 DEF Write, WorkerTypeOK
    <2> QED
      BY <2>3, <2>4, <2>5 DEF WorkerTypeOK, WPCs, NoTime
  <1>9. CASE Register
    <2>1. PICK p \in wtodo :
             IF p.result \in nasResults /\ made[p.result].gen <= p.at /\ p.at <= wnow
             THEN /\ ledger' = Observe(Opportunity[made[p.result].input], p)
                  /\ wtodo' = wtodo \ {p}
                  /\ UNCHANGED <<wpc, wnow, wsubject>>
             ELSE WStop /\ UNCHANGED ledger
      BY <1>9 DEF Register
    <2>2. UNCHANGED <<fileVars, wfaults, nasInputs, nasCurrent, nasPublished, nasResults,
                      nasPrevious, nasForward, wire, wireAcks>>
      BY <1>9 DEF Register
    <2>3. /\ \A o \in DOMAIN ledger' : ledger'[o] \in Publications
          /\ DOMAIN ledger \subseteq DOMAIN ledger'
      BY <2>1 DEF Observe, Write, WorkerTypeOK
    <2> QED
      BY <1>9, <2>1, <2>2, <2>3 DEF Register, WStop, NoTime, WorkerTypeOK, WPCs
  <1>10. CASE NewResult
    <2>1. PICK r \in ResultIds \ DOMAIN made :
             /\ DOMAIN made' = DOMAIN made \cup {r}
             /\ nasResults' = nasResults \cup {r}
             /\ wsubject' = r
      BY <1>10 DEF NewResult, Write
    <2>2. r # NoResult
      BY NamesAssumption DEF NoResult
    <2> QED
      BY <1>10, <2>1, <2>2 DEF NewResult, WorkerTypeOK, WPCs
  <1>11. CASE PointPrevious
    BY <1>11 DEF PointPrevious, WorkerTypeOK, WPCs
  <1>12. CASE PushResult \/ PushAck
    BY <1>12 DEF PushResult, PushAck, WStop, NoTime, WorkerTypeOK, WPCs
  <1>13. CASE PushResultFails
    BY <1>13, WorkerAssumption DEF PushResultFails, WorkerFails, WStop, NoTime, WorkerTypeOK, WPCs
  <1>14. CASE LandLate
    BY <1>14 DEF LandLate, WorkerTypeOK
  <1>15. CASE PushAckFails
    <2> DEFINE R == {r \in nasResults : Listed(made[r].gen)}
               S == {[input |-> c, gen |-> nasInputs[c]] :
                        c \in {d \in DOMAIN nasInputs : Listed(nasInputs[d])}}
               a == [at |-> wnow, results |-> R, inputs |-> S]
    <2>1. wireAcks' = wireAcks \cup {a}
      BY <1>15 DEF PushAckFails, ArchiveAck
    <2>2. R \subseteq DOMAIN made /\ S \subseteq signed
      BY DEF WorkerTypeOK
    <2>3. wnow \in (-Tolerance)..(clock + 2 * Tolerance)
      BY <1>15, TimesAssumption
      DEF PushAckFails, Faithful, Clocked, WorkerTypeOK, Typed, TypeOK, FilesTypeOK
    <2> HIDE DEF R, S
    <2>4. a.at = wnow /\ a.results = R /\ a.inputs = S
      OBVIOUS
    <2> HIDE DEF a
    <2> QED
      BY <1>15, <2>1, <2>2, <2>3, <2>4, WorkerAssumption
      DEF PushAckFails, WorkerFails, WStop, NoTime, WorkerTypeOK, WPCs, a
  <1>16. CASE LandAckLate
    BY <1>16 DEF LandAckLate, WorkerTypeOK
  <1> QED
    BY <1>1, <1>2, <1>3, <1>4, <1>5, <1>6, <1>7, <1>8, <1>9, <1>10, <1>11, <1>12, <1>13, <1>14,
       <1>15, <1>16
    DEF ExchangeNext, WorkerStep, WorkerRun

\* Pointers and archives go on naming what was signed, and the worker's clock is not
\* further ahead than its start was.
LEMMA FaithfulStep ==
    ASSUME Joined, Typed', WorkerTypeOK', [ExchangeNext]_exchangeVars
    PROVE  Faithful'
  <1> USE DEF Joined, Faithful, workerVars, nasVars, wrunVars, fileVars, dirVars, runVars,
              auxVars, cloudVars
  <1>1. CASE CloudStep /\ UNCHANGED workerVars
    <2>1. /\ signed \subseteq signed'
          /\ IsSigned(inputs)'
          /\ currentInput' \in signed' \cup {NoInput}
          /\ UNCHANGED clock
      <3>1. CASE \/ Start \/ PruneBlocked \/ PruneBegin \/ PruneResult \/ UnlinkDetail
                 \/ UnlinkReceipt \/ UnlinkResult \/ PruneResultsDone \/ PruneInput
                 \/ PruneDone \/ Accept \/ Fault
        BY <3>1
        DEF Start, StartCycle, StartAcceptOnly, PruneBlocked, PruneBegin,
            PruneResult, UnlinkDetail, UnlinkReceipt, UnlinkResult, PruneResultsDone, PruneInput,
            PruneDone, Accept, ListInbox, RecoverReceipt, RecoverPointer,
            RecoverDetail, SkipDuplicate, Reject, StoreResult, CommitPublication, WriteDetail,
            WritePointer, WriteReceipt, ClearInbox, Report,
            Fault, PruneFails, AcceptFails, PublishFails, Crash, IsSigned
      <3>2. CASE UnlinkInput
        BY <3>2 DEF UnlinkInput, Unlink, IsSigned
      <3>3. CASE PublishInput
        BY <3>3 DEF PublishInput, Write, IsSigned
      <3>4. CASE PointInput
        <4>1. subject \in DOMAIN inputs
          BY <3>4 DEF PointInput, Typed, Pending
        <4> QED
          BY <3>4, <4>1 DEF PointInput, IsSigned
      <3> QED
        BY <1>1, <3>1, <3>2, <3>3, <3>4 DEF CloudStep, Prune, Publish
    <2> QED
      BY <1>1, <2>1
  <1>2. CASE Tick /\ UNCHANGED <<cloudVars, workerVars>>
    BY <1>2, TimesAssumption DEF Tick, IsSigned, WorkerTypeOK, Typed, TypeOK, FilesTypeOK
  <1>3. CASE UNCHANGED exchangeVars
    BY <1>3 DEF exchangeVars, IsSigned
  <1>4. CASE \/ WStart \/ PullInputs \/ Registered \/ WorkerStops \/ PushResult
             \/ PushResultFails \/ LandLate \/ PushAck \/ PushAckFails \/ LandAckLate
             \/ PointPrevious
    BY <1>4
    DEF WStart, PullInputs, Registered, WorkerStops, WStop, PushResult, PushResultFails, LandLate,
        PushAck, PushAckFails, LandAckLate, PointPrevious, Clocked, IsSigned
  <1>5. CASE PullCurrent
    BY <1>5 DEF PullCurrent, WStop, Clocked, IsSigned
  <1>6. CASE PullPublished
    BY <1>6, WorkerAssumption, TimesAssumption
    DEF PullPublished, Clocked, IsSigned, Typed, TypeOK, FilesTypeOK
  <1>7. CASE CheckInput
    <2>1. nasCurrent \in SignedInputs
      BY <1>7 DEF CheckInput, Clocked, Typed, TypeOK, FilesTypeOK
    <2> QED
      BY <1>7, <2>1, TimesAssumption DEF CheckInput, WStop, Clocked, IsSigned, SignedInputs,
         WorkerTypeOK
  <1>8. CASE Register \/ KeepPrevious
    BY <1>8 DEF Register, KeepPrevious, WStop, Clocked, IsSigned
  <1>9. CASE NewResult
    BY <1>9 DEF NewResult, Clocked, IsSigned
  <1> QED
    BY <1>1, <1>2, <1>3, <1>4, <1>5, <1>6, <1>7, <1>8, <1>9
    DEF ExchangeNext, WorkerStep, WorkerRun

LEMMA JoinedStep == Joined /\ [ExchangeNext]_exchangeVars => [Next]_vars /\ Joined'
  <1> SUFFICES ASSUME Joined, [ExchangeNext]_exchangeVars
               PROVE  [Next]_vars /\ Joined'
    OBVIOUS
  <1>1. [Next]_vars
    BY ExchangeStepMaps
  <1>2. Typed'
    BY <1>1, TypesStep DEF Joined
  <1>3. WorkerTypeOK'
    BY <1>2, WorkerTypesStep
  <1> QED
    BY <1>1, <1>2, <1>3, FaithfulStep DEF Joined

\* The worker (worker.py) is one of the workers the cloud was proved with: what holds of
\* the cloud with any worker holds of the two together.
THEOREM WorkerKeepsToCloud == ExchangeSpec => CloudSpec
  <1> QED
    BY JoinedInit, JoinedStep, PTL DEF ExchangeSpec, CloudSpec, Spec

\* The archive is well typed through transfers that are not one snapshot, cut runs and
\* late arrivals (transport.py, worker.py).
THEOREM WorkerTypeCorrect == ExchangeSpec => []WorkerTypeOK
  <1>1. Joined => WorkerTypeOK
    BY DEF Joined
  <1> QED
    BY <1>1, JoinedInit, JoinedStep, PTL DEF ExchangeSpec

-----------------------------------------------------------------------------
(* No facts are lost between the two machines.                               *)

\* What retention may remove from inputs/ is in the archive.
Archived ==
    /\ FactsKept
    /\ \A e \in ack.inputs \cup todo.inputs : e.input \in DOMAIN nasInputs
    /\ \A a \in wireAcks : \A e \in a.inputs : e.input \in DOMAIN nasInputs
    /\ pc = "unlinkInput" => subject \in DOMAIN nasInputs

\* Nothing leaves the archive, and an acknowledgement names what is in it.
LEMMA ArchivedStep ==
    ASSUME Joined, Archived, [ExchangeNext]_exchangeVars
    PROVE  Archived'
  <1> USE DEF Archived, FactsKept, workerVars, nasVars, wrunVars, fileVars, dirVars, runVars,
              auxVars, cloudVars
  <1>1. CASE CloudStep /\ UNCHANGED workerVars
    <2>1. CASE \/ Start \/ PruneBlocked \/ UnlinkDetail
               \/ UnlinkReceipt \/ UnlinkResult \/ PruneResultsDone \/ PruneDone
      BY <1>1, <2>1
      DEF Start, StartCycle, StartAcceptOnly, PruneBlocked, UnlinkDetail, UnlinkReceipt,
          UnlinkResult, PruneResultsDone, PruneDone
    <2>2. CASE PruneBegin
      BY <1>1, <2>2 DEF PruneBegin, Acknowledged
    <2>3. CASE PruneResult
      BY <1>1, <2>3
      DEF PruneResult, Typed, TypeOK, RunTypeOK, Joined
    <2>4. CASE PruneInput
      <3>1. PICK e \in PrunableInputs :
               IF inputs[e.input] = e.gen
               THEN /\ subject' = e.input
                    /\ todo' = [todo EXCEPT !.inputs = @ \ {e}]
                    /\ pc' = "unlinkInput"
               ELSE /\ pc' = "accept"
                    /\ UNCHANGED <<subject, todo>>
        BY <2>4 DEF PruneInput
      <3>2. e.input \in DOMAIN nasInputs
        BY <3>1 DEF PrunableInputs
      <3>3. todo'.inputs \subseteq todo.inputs
        BY <3>1 DEF Typed, TypeOK, RunTypeOK, Joined
      <3>4. UNCHANGED <<fileVars, nasInputs, wireAcks>>
        BY <1>1, <2>4 DEF PruneInput
      <3> QED
        BY <3>1, <3>2, <3>3, <3>4
    <2>5. CASE UnlinkInput
      BY <1>1, <2>5 DEF UnlinkInput, Unlink
    <2>6. CASE Accept
      BY <1>1, <2>6
      DEF Accept, ListInbox, RecoverReceipt, RecoverPointer, RecoverDetail, SkipDuplicate,
          Reject, StoreResult, CommitPublication, WriteDetail, WritePointer, WriteReceipt,
          ClearInbox, Report, Stop, Nothing
    <2>7. CASE PublishInput
      BY <1>1, <2>7 DEF PublishInput, Write
    <2>8. CASE PointInput \/ Fault
      BY <1>1, <2>8
      DEF PointInput, Fault, PruneFails, AcceptFails, PublishFails, Crash, Stop, Nothing
    <2> QED
      BY <1>1, <2>1, <2>2, <2>3, <2>4, <2>5, <2>6, <2>7, <2>8 DEF CloudStep, Prune, Publish
  <1>2. CASE Tick /\ UNCHANGED <<cloudVars, workerVars>>
    BY <1>2 DEF Tick
  <1>3. CASE UNCHANGED exchangeVars
    BY <1>3 DEF exchangeVars
  <1>4. CASE /\ UNCHANGED cloudVars
             /\ \/ WStart \/ PullCurrent \/ PullPublished \/ Register \/ Registered
                \/ KeepPrevious \/ NewResult \/ PointPrevious \/ PushResult
                \/ PushResultFails \/ LandLate \/ WorkerStops
    BY <1>4
    DEF WStart, PullCurrent, PullPublished, Register, Registered, KeepPrevious, NewResult,
        PointPrevious, PushResult, PushResultFails, LandLate, WorkerStops
  <1>5. CASE UNCHANGED cloudVars /\ PullInputs
    <2>1. DOMAIN nasInputs' = DOMAIN nasInputs \cup DOMAIN inputs
      BY <1>5 DEF PullInputs
    <2> QED
      BY <1>5, <2>1 DEF PullInputs
  <1>6. CASE UNCHANGED cloudVars /\ CheckInput
    <2>1. DOMAIN nasInputs \subseteq DOMAIN nasInputs'
      BY <1>6 DEF CheckInput, Write
    <2> QED
      BY <1>6, <2>1 DEF CheckInput
  <1>7. CASE UNCHANGED cloudVars /\ PushAck
    <2>1. \A e \in ack'.inputs : e.input \in DOMAIN nasInputs
      BY <1>7 DEF PushAck, ArchiveAck
    <2> QED
      BY <1>7, <2>1 DEF PushAck
  <1>8. CASE UNCHANGED cloudVars /\ PushAckFails
    <2>1. \A e \in ArchiveAck.inputs : e.input \in DOMAIN nasInputs
      BY DEF ArchiveAck
    <2> QED
      BY <1>8, <2>1 DEF PushAckFails
  <1>9. CASE UNCHANGED cloudVars /\ LandAckLate
    BY <1>9 DEF LandAckLate
  <1> QED
    BY <1>1, <1>2, <1>3, <1>4, <1>5, <1>6, <1>7, <1>8, <1>9
    DEF ExchangeNext, WorkerStep, WorkerRun

\* The facts behind every result are on one of the two machines: what the cloud prunes
\* the archive holds for good (retention.py, transport.py).
THEOREM FactsStay == ExchangeSpec => []FactsKept
  <1>1. ExchangeInit => Archived
    BY DEF ExchangeInit, FilesInit, CloudInit, WorkerInit, Archived, FactsKept, NoAck, Nothing
  <1>2. Joined /\ Archived /\ [ExchangeNext]_exchangeVars => Archived'
    BY ArchivedStep
  <1>3. Archived => FactsKept
    BY DEF Archived
  <1> QED
    BY <1>1, <1>2, <1>3, JoinedInit, JoinedStep, PTL DEF ExchangeSpec

-----------------------------------------------------------------------------
(* What is published is observed before it is pruned, and first come first.  *)

\* What the worker's clock may lag behind what it acknowledges: the days between the age
\* at which a result is pruned and the age of an acknowledgement that is still used.
Grace == Retention - AckMaxAge - 2 * Tolerance

Waits(r) == r \in DOMAIN receipts /\ receipts[r] # NoTime

\* The condition under which retention cannot overtake observation: whatever cuts its
\* runs, the cloud ends one, with a report, within the grace of each publication.
ReportedSoon ==
    \A r \in DOMAIN firstPublished :
        (Waits(r) \/ r = P) /\ firstPublished[r] + Grace < clock =>
            \E p \in published : p.result = r

\* What is still to be observed.
Due ==
    {r \in DOMAIN firstPublished :
        /\ firstPublished[r] < Deadline[made[r].input]
        /\ Opportunity[made[r].input] \notin DOMAIN ledger}

\* The acknowledgement that is there and those that may still land.
Acks == ({ack} \ {NoAck}) \cup wireAcks

\* Time passes, in runs and in what they leave behind.
Clocks ==
    /\ clock >= 1
    /\ pc # "idle" => 1 <= now /\ now <= clock
    /\ \A r \in DOMAIN firstPublished :
         /\ 1 <= firstPublished[r] /\ firstPublished[r] <= clock
         /\ pc # "idle" => firstPublished[r] <= now
    /\ wpc \in Clocked => wnow - WorkerSkew <= clock
    /\ \A a \in Acks : a.at - WorkerSkew <= clock

\* A receipt is written once, with the time of the publication.
Stamped ==
    /\ P \in DOMAIN receipts => receipts[P] = publication.at
    /\ pc = "receipt" => subject \notin DOMAIN receipts

\* A result is stored after its run has begun, and pruned when it is old.
Stored ==
    /\ \A r \in DOMAIN results \cap DOMAIN firstPublished : firstPublished[r] <= results[r]
    /\ pc = "commit" => subject \in DOMAIN results /\ now <= results[subject]
    /\ pc \in {"unlinkDetail", "unlinkReceipt"} =>
          subject \in DOMAIN results /\ results[subject] < now - Retention

Named(S, r) == \E p \in S : p.result = r

\* Of what is due, S lacks nothing that is older than something in it, ...
Closed(S, due, first) == \A p \in S, r \in due : first[r] < p.at => Named(S, r)

\* ... and nothing that was published more than the grace before t.
Covers(S, t, due, first) == \A r \in due : first[r] + Grace < t => Named(S, r)

FirstTimes(S) ==
    \A p \in S : p.result \in DOMAIN firstPublished /\ p.at = firstPublished[p.result]

\* What is due has a receipt to be reported, or the repair will write one.
Reportable == \A r \in Due : Waits(r) \/ r = P

\* From the report to the acknowledgement of it, and from that to the pruning.
Passed ==
    /\ Closed(published, Due, firstPublished)
    /\ FirstTimes(nasPublished)
    /\ wpc = "check" => /\ Closed(nasPublished, Due, firstPublished)
                        /\ Covers(nasPublished, wnow - WorkerSkew, Due, firstPublished)
    /\ wpc = "register" => /\ Closed(wtodo, Due, firstPublished)
                           /\ Covers(wtodo, wnow - WorkerSkew, Due, firstPublished)
    /\ wpc \in {"decide", "pointer", "push", "ack"} =>
          Covers({}, wnow - WorkerSkew, Due, firstPublished)
    /\ \A a \in Acks : Covers({}, a.at - WorkerSkew, Due, firstPublished)
    /\ pc \in PrunePCs \ {"prune"} => Covers({}, now - Retention + Grace, Due, firstPublished)

Observing == Clocks /\ Stamped /\ Stored /\ Reportable /\ Passed

\* A registered observation is there for good.
LEMMA LedgerKept ==
    ASSUME Joined, [ExchangeNext]_exchangeVars
    PROVE  /\ \A o \in DOMAIN ledger : o \in DOMAIN ledger' /\ ledger'[o] = ledger[o]
           /\ ~Register => ledger' = ledger
  <1> USE DEF workerVars, nasVars
  <1>1. CASE UNCHANGED <<workerVars>>
    BY <1>1
  <1>2. CASE Register
    BY <1>2 DEF Register, Observe, Write
  <1>3. CASE WorkerStep /\ ~Register
    BY <1>3
    DEF WorkerStep, WorkerRun, WStart, PullInputs, PullCurrent, PullPublished, CheckInput,
        Registered, KeepPrevious, NewResult, PointPrevious, PushResult, PushAck, PushResultFails,
        LandLate, PushAckFails, LandAckLate, WorkerStops
  <1> QED
    BY <1>1, <1>2, <1>3 DEF ExchangeNext, exchangeVars

\* What becomes due is what a run commits, at the time of the run, within the grace.
LEMMA DueStep ==
    ASSUME Joined, Safe, Clocks, ReportedSoon', [ExchangeNext]_exchangeVars
    PROVE  \A r \in Due' :
              \/ r \in Due /\ firstPublished'[r] = firstPublished[r]
              \/ /\ pc = "commit" /\ P' = r /\ firstPublished'[r] = now /\ clock <= now + Grace
  <1> USE DEF Joined
  <1>1. [Next]_vars
    BY ExchangeStepMaps
  <1>2. \A o \in DOMAIN ledger : o \in DOMAIN ledger'
    BY LedgerKept
  <1>3. DOMAIN firstPublished \subseteq DOMAIN made
    BY DEF Typed, TypeOK, IsDirectory
  <1>4. CASE ~CommitPublication
    <2>1. UNCHANGED firstPublished /\ \A q \in DOMAIN made : made'[q] = made[q]
      BY <1>1, <1>4, OnlyCommits
    <2> QED
      BY <1>2, <1>3, <2>1 DEF Due
  <1>5. CASE CommitPublication
    <2>1. subject \notin DOMAIN firstPublished
      BY <1>5, CommitsAreNew DEF CommitPublication, Safe
    <2>2. /\ firstPublished' = Write(firstPublished, subject, now)
          /\ P' = subject
          /\ UNCHANGED <<published, made, clock>>
          /\ pc = "commit"
      BY <1>5, <2>1 DEF CommitPublication, P, fileVars
    <2>3. ~ \E p \in published' : p.result = P'
      BY <2>1, <2>2 DEF Safe, FirstTimesKept
    <2>4. P' \in DOMAIN firstPublished' /\ firstPublished'[P'] = now
      BY <2>2 DEF Write
    <2>5. ~(now + Grace < clock)
      BY <2>2, <2>3, <2>4 DEF ReportedSoon
    <2>6. clock <= now + Grace
      BY <2>5, TimesAssumption DEF Grace, Typed, TypeOK, FilesTypeOK, RunTypeOK
    <2>7. \A r \in Due' : r # subject => r \in Due /\ firstPublished'[r] = firstPublished[r]
      BY <1>2, <2>2 DEF Due, Write
    <2> QED
      BY <2>2, <2>4, <2>6, <2>7
  <1> QED
    BY <1>4, <1>5

\* What covers, covers when something newer becomes due.
LEMMA ClosedStays ==
    ASSUME NEW S, NEW D, NEW f, NEW D2, NEW f2, Closed(S, D, f),
           \A r \in D2 : \/ r \in D /\ f2[r] = f[r]
                         \/ \A p \in S : ~(f2[r] < p.at)
    PROVE  Closed(S, D2, f2)
  BY DEF Closed

LEMMA CoversStays ==
    ASSUME NEW S, NEW t, NEW D, NEW f, NEW D2, NEW f2, Covers(S, t, D, f),
           \A r \in D2 : \/ r \in D /\ f2[r] = f[r]
                         \/ ~(f2[r] + Grace < t)
    PROVE  Covers(S, t, D2, f2)
  BY DEF Covers

\* What every conjunct needs of the types.
LEMMA Numbers ==
    ASSUME Typed, WorkerTypeOK
    PROVE  /\ clock \in Int /\ now \in Int /\ wnow \in Int /\ ack.at \in Int
           /\ WorkerSkew \in Int /\ Grace \in Int /\ Tolerance \in Int /\ Retention \in Int
           /\ AckMaxAge \in Int /\ WorkerSkew <= 2 * Tolerance
           /\ \A a \in Acks : a.at \in Int
           /\ \A r \in DOMAIN firstPublished : firstPublished[r] \in Int
           /\ \A r \in DOMAIN results : results[r] \in Int
           /\ DOMAIN firstPublished \subseteq DOMAIN made
           /\ \A c \in Contents : Deadline[c] \in Int
           /\ \A r \in DOMAIN made : made[r].input \in Contents
  BY TimesAssumption, WorkerAssumption
  DEF Grace, Typed, TypeOK, FilesTypeOK, RunTypeOK, DirsTypeOK, WorkerTypeOK, IsDirectory, Results, Acks

\* A run carries the time it began with, and what it commits has that time.
LEMMA ClocksStep ==
    ASSUME Joined, Clocks, [ExchangeNext]_exchangeVars
    PROVE  Clocks'
  <1> USE DEF Joined, Clocks, Acks, fileVars, dirVars, runVars, auxVars, cloudVars,
              workerVars, nasVars, wrunVars
  <1>1. CASE CloudStep /\ UNCHANGED workerVars
    <2>1. CASE Start
      BY <1>1, <2>1, Numbers DEF Start, StartCycle, StartAcceptOnly
    <2>2. CASE Prune
      BY <1>1, <2>2, Numbers
      DEF Prune, PruneBlocked, PruneBegin, PruneResult, UnlinkDetail, UnlinkReceipt, UnlinkResult,
          PruneResultsDone, PruneInput, UnlinkInput, PruneDone
    <2>3. CASE CommitPublication
      <3>1. DOMAIN firstPublished' \subseteq DOMAIN firstPublished \cup {subject}
        BY <2>3 DEF CommitPublication, Write
      <3>2. \A r \in DOMAIN firstPublished' :
               \/ firstPublished'[r] = now
               \/ r \in DOMAIN firstPublished /\ firstPublished'[r] = firstPublished[r]
        BY <2>3 DEF CommitPublication, Write
      <3>3. UNCHANGED <<clock, now, ack, wireAcks>> /\ pc # "idle" /\ UNCHANGED <<wpc, wnow>>
        BY <1>1, <2>3 DEF CommitPublication
      <3>4. \A r \in DOMAIN firstPublished' :
               1 <= firstPublished'[r] /\ firstPublished'[r] <= clock /\ firstPublished'[r] <= now
        BY <3>1, <3>2, <3>3, Numbers
      <3> QED
        BY <3>3, <3>4
    <2>4. CASE Accept /\ ~CommitPublication
      BY <1>1, <2>4, Numbers
      DEF Accept, ListInbox, RecoverReceipt, RecoverPointer, RecoverDetail, SkipDuplicate, Reject,
          StoreResult, WriteDetail, WritePointer, WriteReceipt, ClearInbox, Report, Stop
    <2>5. CASE Publish \/ Fault
      BY <1>1, <2>5, Numbers
      DEF Publish, PublishInput, PointInput, Fault, PruneFails, AcceptFails, PublishFails, Crash,
          Stop, PrunePCs, AcceptPCs
    <2> QED
      BY <1>1, <2>1, <2>2, <2>3, <2>4, <2>5 DEF CloudStep
  <1>2. CASE Tick /\ UNCHANGED <<cloudVars, workerVars>>
    BY <1>2, Numbers DEF Tick
  <1>3. CASE UNCHANGED exchangeVars
    BY <1>3 DEF exchangeVars
  <1>4. CASE UNCHANGED cloudVars /\ (PullPublished \/ PushAck \/ PushAckFails \/ LandAckLate)
    <2>1. ArchiveAck.at = wnow
      BY DEF ArchiveAck
    <2> QED
      BY <1>4, <2>1, Numbers DEF PullPublished, PushAck, PushAckFails, LandAckLate, WStop, Clocked
  <1>5. CASE /\ UNCHANGED cloudVars
             /\ \/ WStart \/ PullInputs \/ PullCurrent \/ CheckInput \/ Register \/ Registered
                \/ KeepPrevious \/ NewResult \/ PointPrevious \/ PushResult \/ PushResultFails
                \/ LandLate \/ WorkerStops
    BY <1>5
    DEF WStart, PullInputs, PullCurrent, CheckInput, Register, Registered, KeepPrevious, NewResult,
        PointPrevious, PushResult, PushResultFails, LandLate, WorkerStops, WStop, Clocked
  <1> QED
    BY <1>1, <1>2, <1>3, <1>4, <1>5 DEF ExchangeNext, WorkerStep, WorkerRun

\* The worker and the clock touch none of the files the cloud keeps to itself.
LEMMA OthersStep ==
    ASSUME [ExchangeNext]_exchangeVars, ~CloudStep
    PROVE  UNCHANGED cloudVars
  BY DEF ExchangeNext, exchangeVars

\* The repair gives a receipt the time of the envelope, as the run would have.
LEMMA StampedStep ==
    ASSUME RepairsFinish, Joined, Safe, Stamped, [ExchangeNext]_exchangeVars
    PROVE  Stamped'
  <1> USE DEF Stamped, P, Joined, fileVars, dirVars, runVars, auxVars, cloudVars
  <1>1. CASE ~CloudStep
    BY <1>1, OthersStep
  <1>2. CASE \/ Start \/ PruneBlocked \/ PruneBegin \/ PruneResult \/ UnlinkDetail \/ UnlinkResult
             \/ PruneResultsDone \/ PruneInput \/ UnlinkInput \/ PruneDone
    BY <1>2
    DEF Start, StartCycle, StartAcceptOnly, PruneBlocked, PruneBegin, PruneResult, UnlinkDetail,
        UnlinkResult, PruneResultsDone, PruneInput, UnlinkInput, PruneDone
  <1>3. CASE UnlinkReceipt
    BY <1>3 DEF UnlinkReceipt, Unlink
  <1>4. CASE ListInbox \/ RecoverPointer \/ RecoverDetail \/ WriteDetail \/ ClearInbox \/ Report
    BY <1>4 DEF ListInbox, RecoverPointer, RecoverDetail, WriteDetail, ClearInbox, Report, Stop
  <1>5. CASE RecoverReceipt
    BY <1>5 DEF RecoverReceipt, CommittedTime, Write
  <1>6. CASE \E f \in files : SkipDuplicate(f) \/ Reject(f) \/ StoreResult(f)
    BY <1>6 DEF SkipDuplicate, Reject, StoreResult
  <1>7. CASE CommitPublication
    BY <1>7 DEF CommitPublication, Safe, Linked
  <1>8. CASE WritePointer
    BY <1>8 DEF WritePointer, Safe, Linked
  <1>9. CASE WriteReceipt
    <2>1. previous = P /\ (subject = P => publication.at = now)
      BY <1>9 DEF WriteReceipt, Safe, Linked
    <2> QED
      BY <1>9, <2>1 DEF WriteReceipt, Write
  <1>10. CASE Publish \/ Fault
    BY <1>10
    DEF Publish, PublishInput, PointInput, Fault, PruneFails, AcceptFails, PublishFails, Crash,
        Stop
  <1> QED
    BY <1>1, <1>2, <1>3, <1>4, <1>5, <1>6, <1>7, <1>8, <1>9, <1>10
    DEF CloudStep, Prune, Accept

\* The mtime of a stored result is not before its publication.
LEMMA StoredStep ==
    ASSUME Joined, Clocks, Stored, [ExchangeNext]_exchangeVars
    PROVE  Stored'
  <1> USE DEF Stored, Joined, fileVars, dirVars, runVars, auxVars, cloudVars
  <1>1. CASE ~CloudStep
    BY <1>1, OthersStep
  <1>2. CASE \/ Start \/ PruneBlocked \/ PruneBegin \/ UnlinkDetail \/ UnlinkReceipt
             \/ PruneResultsDone \/ PruneInput \/ UnlinkInput \/ PruneDone
    BY <1>2
    DEF Start, StartCycle, StartAcceptOnly, PruneBlocked, PruneBegin, UnlinkDetail, UnlinkReceipt,
        PruneResultsDone, PruneInput, UnlinkInput, PruneDone
  <1>3. CASE PruneResult
    BY <1>3 DEF PruneResult, PrunableResults, Aged
  <1>4. CASE UnlinkResult
    BY <1>4 DEF UnlinkResult, Unlink
  <1>5. CASE \/ ListInbox \/ RecoverReceipt \/ RecoverPointer \/ RecoverDetail \/ WriteDetail
             \/ WritePointer \/ WriteReceipt \/ ClearInbox \/ Report
             \/ \E f \in files : SkipDuplicate(f) \/ Reject(f)
    BY <1>5
    DEF ListInbox, RecoverReceipt, RecoverPointer, RecoverDetail, WriteDetail, WritePointer,
        WriteReceipt, ClearInbox, Report, Stop, SkipDuplicate, Reject
  <1>6. CASE \E f \in files : StoreResult(f)
    <2>1. PICK f \in files : StoreResult(f)
      BY <1>6
    <2>2. /\ results' = Write(results, f, clock)
          /\ pc' = "commit" => subject' = f
          /\ pc' \notin {"unlinkDetail", "unlinkReceipt"}
          /\ UNCHANGED <<firstPublished, now>>
          /\ pc # "idle"
      BY <2>1 DEF StoreResult
    <2>3. /\ DOMAIN results' = DOMAIN results \cup {f} /\ results'[f] = clock
          /\ \A r \in DOMAIN results : r # f => results'[r] = results[r]
      BY <2>2 DEF Write
    <2> QED
      BY <2>2, <2>3 DEF Clocks
  <1>7. CASE CommitPublication
    <2>1. \A r \in DOMAIN firstPublished' :
               \/ r = subject /\ firstPublished'[r] = now
               \/ r \in DOMAIN firstPublished /\ firstPublished'[r] = firstPublished[r]
      BY <1>7 DEF CommitPublication, Write
    <2> QED
      BY <1>7, <2>1 DEF CommitPublication
  <1>8. CASE Publish \/ Fault
    BY <1>8
    DEF Publish, PublishInput, PointInput, Fault, PruneFails, AcceptFails, PublishFails, Crash,
        Stop
  <1> QED
    BY <1>1, <1>2, <1>3, <1>4, <1>5, <1>6, <1>7, <1>8
    DEF CloudStep, Prune, Accept

\* Only what is observed loses its receipt.
LEMMA ReportableStep ==
    ASSUME RepairsFinish, Joined, Safe, Observing, ReportedSoon', [ExchangeNext]_exchangeVars
    PROVE  Reportable'
  <1> USE DEF Joined, Observing, Reportable, Waits, fileVars, dirVars, runVars, auxVars, cloudVars
  <1>1. \A r \in Due' : r \in Due \/ r = P'
    BY DueStep
  <1>2. SUFFICES ASSUME NEW r \in Due, r \in Due', r # P'
                 PROVE  r \in DOMAIN receipts' /\ receipts'[r] # NoTime
    BY <1>1
  <1>3. r \in DOMAIN firstPublished /\ r \in DOMAIN made
    BY Numbers DEF Due
  <1>4. CASE receipts' = receipts /\ P' = P
    BY <1>2, <1>4
  <1>5. CASE UnlinkReceipt
    <2>1. P' = P /\ DOMAIN receipts' = DOMAIN receipts \ {subject}
             /\ \A q \in DOMAIN receipts' : receipts'[q] = receipts[q]
      BY <1>5 DEF UnlinkReceipt, Unlink, P
    <2>2. r # subject
      <3>1. SUFFICES ASSUME r = subject PROVE FALSE
        OBVIOUS
      <3>2. pc = "unlinkReceipt" /\ subject \in DOMAIN results
        BY <1>5 DEF UnlinkReceipt, Stored
      <3>3. firstPublished[r] <= results[r] /\ results[r] < now - Retention
        BY <1>3, <3>1, <3>2 DEF Stored
      <3>4. Covers({}, now - Retention + Grace, Due, firstPublished)
        BY <3>2 DEF Passed, PrunePCs
      <3>5. ~(firstPublished[r] + Grace < now - Retention + Grace)
        BY <1>2, <3>4 DEF Covers, Named
      <3> QED
        BY <1>3, <3>1, <3>2, <3>3, <3>5, Numbers
    <2> QED
      BY <1>2, <2>1, <2>2
  <1>6. CASE RecoverReceipt
    <2>1. P' = P /\ (receipts' = receipts \/ receipts' = Write(receipts, P, CommittedTime))
      BY <1>6 DEF RecoverReceipt, P
    <2> QED
      BY <1>2, <2>1 DEF Write
  <1>7. CASE WriteReceipt
    <2>1. subject \notin DOMAIN receipts /\ P' = P
             /\ \E t : receipts' = Write(receipts, subject, t)
      BY <1>7 DEF WriteReceipt, Stamped, P
    <2> QED
      BY <1>2, <2>1 DEF Write
  <1>8. CASE CommitPublication
    <2>1. receipts' = receipts /\ (publication = NoPublication \/ P \in DOMAIN receipts)
      BY <1>8 DEF CommitPublication, Safe, Linked
    <2>2. CASE r # P
      BY <1>2, <2>1, <2>2
    <2>3. CASE r = P
      <3>1. publication # NoPublication
        BY <1>3, <2>3, NamesAreNotZero
      <3>2. receipts[P] = publication.at /\ publication.at = firstPublished[P]
        BY <2>1, <3>1 DEF Stamped, Safe, Latest
      <3>3. publication.at # NoTime
        BY <1>3, <2>3, <3>2, Numbers DEF Clocks, NoTime
      <3> QED
        BY <2>1, <2>3, <3>1, <3>2, <3>3
    <2> QED
      BY <2>2, <2>3
  <1>9. CASE ~(UnlinkReceipt \/ RecoverReceipt \/ WriteReceipt \/ CommitPublication)
    <2>1. receipts' = receipts /\ publication' = publication
      <3>1. CASE ~CloudStep
        BY <3>1, OthersStep
      <3>2. CASE CloudStep
        BY <1>9, <3>2
        DEF CloudStep, Start, StartCycle, StartAcceptOnly, Prune, PruneBlocked, PruneBegin,
            PruneResult, UnlinkDetail, UnlinkResult, PruneResultsDone, PruneInput,
            UnlinkInput, PruneDone, Accept, ListInbox, RecoverPointer,
            RecoverDetail, SkipDuplicate, Reject, StoreResult, WriteDetail,
            WritePointer, ClearInbox, Report, Publish, PublishInput, PointInput,
            Fault, PruneFails, AcceptFails, PublishFails, Crash, Stop
      <3> QED
        BY <3>1, <3>2
    <2> QED
      BY <1>4, <2>1 DEF P
  <1> QED
    BY <1>5, <1>6, <1>7, <1>8, <1>9

\* Everything due is in a report.
LEMMA ReportLists ==
    ASSUME Joined, Safe, Clocks, Stamped, Reportable, Report, NEW r \in Due
    PROVE  Named(published', r)
  <1>1. r \in DOMAIN firstPublished /\ r \in DOMAIN made
    BY Numbers DEF Due, Joined
  <1>2. r \in DOMAIN receipts /\ receipts[r] # NoTime
    <2>1. CASE r = P
      <3>1. publication # NoPublication
        BY <1>1, <2>1, NamesAreNotZero DEF Joined
      <3>2. P \in DOMAIN receipts
        BY <3>1 DEF Report, Safe, Linked
      <3>3. receipts[P] = firstPublished[P]
        BY <3>1, <3>2 DEF Stamped, Safe, Latest
      <3> QED
        BY <1>1, <2>1, <3>2, <3>3, Numbers DEF Clocks, NoTime, Joined
    <2> QED
      BY <2>1 DEF Reportable, Waits
  <1>3. [result |-> r, at |-> receipts[r]] \in published'
    BY <1>2 DEF Report
  <1> QED
    BY <1>3 DEF Named

\* The times a worker reads are those of the history.
LEMMA PublishedTimes ==
    ASSUME Safe, Passed, WorkerTypeOK
    PROVE  FirstTimes(published) /\ FirstTimes(nasPublished) /\ FirstTimes(wtodo)
  BY DEF Safe, FirstTimesKept, FirstTimes, Passed, WorkerTypeOK

\* What a set of publications covers it goes on covering, and what it names is first.
LEMMA KeptCovered ==
    ASSUME Joined, Safe, Clocks, ReportedSoon', [ExchangeNext]_exchangeVars
    PROVE  /\ \A S : FirstTimes(S) /\ Closed(S, Due, firstPublished)
                      => Closed(S, Due', firstPublished')
           /\ \A S, t : /\ t \in Int
                        /\ t <= clock \/ pc # "commit"
                        /\ Covers(S, t, Due, firstPublished)
                       => Covers(S, t, Due', firstPublished')
  <1>1. \A r \in Due' :
           \/ r \in Due /\ firstPublished'[r] = firstPublished[r]
           \/ pc = "commit" /\ firstPublished'[r] = now /\ clock <= now + Grace
    BY DueStep
  <1>2. ASSUME NEW S, FirstTimes(S), Closed(S, Due, firstPublished)
        PROVE  Closed(S, Due', firstPublished')
    <2>1. \A p \in S : pc = "commit" => ~(now < p.at)
      BY <1>2, Numbers DEF FirstTimes, Clocks, Joined
    <2>2. \A r \in Due' : \/ r \in Due /\ firstPublished'[r] = firstPublished[r]
                          \/ \A p \in S : ~(firstPublished'[r] < p.at)
      BY <1>1, <2>1
    <2> QED
      BY <1>2, <2>2, ClosedStays
  <1>3. ASSUME NEW S, NEW t \in Int, t <= clock, Covers(S, t, Due, firstPublished)
        PROVE  Covers(S, t, Due', firstPublished')
    <2>1. clock <= now + Grace => ~(now + Grace < t)
      BY <1>3, Numbers DEF Joined
    <2>2. \A r \in Due' : \/ r \in Due /\ firstPublished'[r] = firstPublished[r]
                          \/ ~(firstPublished'[r] + Grace < t)
      BY <1>1, <2>1
    <2> QED
      BY <1>3, <2>2, CoversStays
  <1>4. ASSUME NEW S, NEW t \in Int, pc # "commit", Covers(S, t, Due, firstPublished)
        PROVE  Covers(S, t, Due', firstPublished')
    BY <1>1, <1>4, CoversStays
  <1> QED
    BY <1>2, <1>3, <1>4

\* What has been pulled goes on covering what becomes due, whatever the cloud does.
LEMMA PassedCloud ==
    ASSUME Joined, Safe, Observing, ReportedSoon', [ExchangeNext]_exchangeVars,
           UNCHANGED workerVars
    PROVE  Passed'
  <1> USE DEF Joined, Observing, fileVars, dirVars, runVars, auxVars, cloudVars, workerVars,
              nasVars, wrunVars
  <1>1. /\ FirstTimes(published) /\ FirstTimes(nasPublished) /\ FirstTimes(wtodo)
        /\ wnow - WorkerSkew \in Int /\ (\A a \in Acks : a.at - WorkerSkew \in Int)
        /\ now - Retention + Grace \in Int
    BY PublishedTimes, Numbers
  <1>2. Closed(published', Due', firstPublished')
    <2>1. CASE published' = published
      BY <1>1, <2>1, KeptCovered DEF Passed
    <2>2. CASE Report
      <3>1. \A r \in Due' : r \in Due
        BY <2>2, DueStep DEF Report
      <3> QED
        BY <2>2, <3>1, ReportLists DEF Closed
    <2> QED
      <3>1. CASE ~CloudStep
        BY <3>1, <2>1 DEF ExchangeNext, exchangeVars, WorkerStep, WorkerRun, WStart, PullInputs,
           PullCurrent, PullPublished, CheckInput, Register, Registered, KeepPrevious, NewResult,
           PointPrevious, PushResult, PushAck, PushResultFails, LandLate,
           PushAckFails, LandAckLate, WorkerStops, Tick
      <3>2. CASE CloudStep
        BY <2>1, <2>2, <3>2
        DEF CloudStep, Start, StartCycle, StartAcceptOnly, Prune, PruneBlocked, PruneBegin,
            PruneResult, UnlinkDetail, UnlinkReceipt, UnlinkResult, PruneResultsDone, PruneInput,
            UnlinkInput, PruneDone, Accept, ListInbox, RecoverReceipt, RecoverPointer,
            RecoverDetail, SkipDuplicate, Reject, StoreResult, CommitPublication, WriteDetail,
            WritePointer, WriteReceipt, ClearInbox, Publish, PublishInput, PointInput,
            Fault, PruneFails, AcceptFails, PublishFails, Crash, Stop
      <3> QED
        BY <3>1, <3>2
  <1>3. FirstTimes(nasPublished)'
    <2>1. \A r \in DOMAIN firstPublished :
             r \in DOMAIN firstPublished' /\ firstPublished'[r] = firstPublished[r]
      <3>1. CASE ~CommitPublication
        BY <3>1, OnlyCommits, ExchangeStepMaps
      <3>2. CASE CommitPublication
        <4>1. subject \notin DOMAIN firstPublished
          BY <3>2, CommitsAreNew DEF CommitPublication, Safe
        <4> QED
          BY <3>2, <4>1 DEF CommitPublication, Write
      <3> QED
        BY <3>1, <3>2
    <2> QED
      BY <1>1, <2>1 DEF FirstTimes
  <1>4. /\ wpc' = "check" => /\ Closed(nasPublished, Due', firstPublished')
                             /\ Covers(nasPublished, wnow - WorkerSkew, Due', firstPublished')
        /\ wpc' = "register" => /\ Closed(wtodo, Due', firstPublished')
                                /\ Covers(wtodo, wnow - WorkerSkew, Due', firstPublished')
        /\ wpc' \in {"decide", "pointer", "push", "ack"} =>
              Covers({}, wnow - WorkerSkew, Due', firstPublished')
    BY <1>1, KeptCovered DEF Passed, Clocks, Clocked
  <1>5. \A a \in Acks' : Covers({}, a.at - WorkerSkew, Due', firstPublished')
    <2>1. Acks' = Acks
      <3>1. CASE ~CloudStep
        BY <3>1 DEF Acks, ExchangeNext, exchangeVars, WorkerStep, WorkerRun, WStart, PullInputs,
           PullCurrent, PullPublished, CheckInput, Register, Registered, KeepPrevious, NewResult,
           PointPrevious, PushResult, PushAck, PushResultFails, LandLate,
           PushAckFails, LandAckLate, WorkerStops, Tick, WStop
      <3>2. CASE CloudStep
        BY <3>2
        DEF Acks, CloudStep, Start, StartCycle, StartAcceptOnly, Prune, PruneBlocked, PruneBegin,
            PruneResult, UnlinkDetail, UnlinkReceipt, UnlinkResult, PruneResultsDone, PruneInput,
            UnlinkInput, PruneDone, Accept, ListInbox, RecoverReceipt, RecoverPointer,
            RecoverDetail, SkipDuplicate, Reject, StoreResult, CommitPublication, WriteDetail,
            WritePointer, WriteReceipt, ClearInbox, Report, Publish, PublishInput, PointInput,
            Fault, PruneFails, AcceptFails, PublishFails, Crash, Stop
      <3> QED
        BY <3>1, <3>2
    <2> QED
      BY <1>1, <2>1, KeptCovered DEF Passed, Clocks
  <1>6. pc' \in PrunePCs \ {"prune"} =>
           Covers({}, now' - Retention + Grace, Due', firstPublished')
    <2>1. SUFFICES ASSUME pc' \in PrunePCs \ {"prune"}
                   PROVE  Covers({}, now' - Retention + Grace, Due', firstPublished')
      OBVIOUS
    <2>2. CASE PruneBegin
      <3>1. /\ ack # NoAck /\ now - ack.at <= AckMaxAge /\ pc = "prune" /\ now' = now
        BY <2>2 DEF PruneBegin, AckUsable
      <3>2. Covers({}, ack.at - WorkerSkew, Due, firstPublished)
        BY <3>1 DEF Passed, Acks
      <3>3. now - Retention + Grace <= ack.at - WorkerSkew
        BY <3>1, Numbers DEF Grace
      <3>4. \A r \in Due : firstPublished[r] \in Int
        BY Numbers DEF Due
      <3>5. Covers({}, now - Retention + Grace, Due, firstPublished)
        BY <1>1, <3>2, <3>3, <3>4, Numbers DEF Covers
      <3> QED
        BY <1>1, <3>1, <3>5, KeptCovered
    <2>3. CASE ~PruneBegin
      <3>1. now' = now /\ pc \in PrunePCs \ {"prune"}
        <4>1. CASE ~CloudStep
          BY <2>1, <4>1, OthersStep
        <4>2. CASE CloudStep
          BY <2>1, <2>3, <4>2
          DEF CloudStep, Start, StartCycle, StartAcceptOnly, Prune, PruneBlocked,
              PruneResult, UnlinkDetail, UnlinkReceipt, UnlinkResult, PruneResultsDone, PruneInput,
              UnlinkInput, PruneDone, Accept, ListInbox, RecoverReceipt, RecoverPointer,
              RecoverDetail, SkipDuplicate, Reject, StoreResult, CommitPublication, WriteDetail,
              WritePointer, WriteReceipt, ClearInbox, Report, Publish, PublishInput, PointInput,
              Fault, PruneFails, AcceptFails, PublishFails, Crash, Stop, PrunePCs
        <4> QED
          BY <4>1, <4>2
      <3>2. pc # "commit"
        BY <3>1 DEF PrunePCs
      <3> QED
        BY <1>1, <3>1, <3>2, KeptCovered DEF Passed
    <2> QED
      BY <2>2, <2>3
  <1>7. UNCHANGED <<nasPublished, wpc, wnow, wtodo>>
    OBVIOUS
  <1> QED
    BY <1>2, <1>3, <1>4, <1>5, <1>6, <1>7 DEF Passed

\* What a run of the worker pulls it has observed when it acknowledges.
LEMMA PassedWorker ==
    ASSUME Joined, Safe, Observing, ReportedSoon, ReportedSoon', [ExchangeNext]_exchangeVars,
           UNCHANGED cloudVars, WorkerStep
    PROVE  Passed'
  <1> USE DEF Joined, Observing, fileVars, dirVars, runVars, auxVars, cloudVars, workerVars,
              nasVars, wrunVars
  <1>1. /\ FirstTimes(published) /\ FirstTimes(nasPublished) /\ FirstTimes(wtodo)
        /\ wnow - WorkerSkew \in Int /\ (\A a \in Acks : a.at - WorkerSkew \in Int)
        /\ now - Retention + Grace \in Int
    BY PublishedTimes, Numbers
  <1>2. UNCHANGED <<firstPublished, pc, now, published, clock>>
    BY DEF WorkerStep, WorkerRun, WStart, PullInputs,
           PullCurrent, PullPublished, CheckInput, Register, Registered, KeepPrevious, NewResult,
           PointPrevious, PushResult, PushAck, PushResultFails, LandLate,
           PushAckFails, LandAckLate, WorkerStops
  <1>3. \A r \in Due' : r \in Due
    <2>1. pc # "commit" => \A r \in Due' : r \in Due
      BY DueStep
    <2>2. \A o \in DOMAIN ledger : o \in DOMAIN ledger'
      BY LedgerKept
    <2>3. \A q \in DOMAIN firstPublished : made'[q] = made[q]
      <3>1. DOMAIN firstPublished \subseteq DOMAIN made
        BY Numbers
      <3> QED
        BY <3>1, ExchangeStepMaps, OnlyCommits, <1>2 DEF CommitPublication
    <2> QED
      BY <1>2, <2>2, <2>3 DEF Due
  <1>4. /\ Closed(published, Due', firstPublished')
        /\ FirstTimes(published)' /\ FirstTimes(nasPublished)'
        /\ pc' \in PrunePCs \ {"prune"} =>
              Covers({}, now' - Retention + Grace, Due', firstPublished')
    <2>1. nasPublished' \in {nasPublished, published}
      BY DEF WorkerStep, WorkerRun, WStart, PullInputs,
             PullCurrent, PullPublished, CheckInput, Register, Registered, KeepPrevious, NewResult,
             PointPrevious, PushResult, PushAck, PushResultFails, LandLate,
           PushAckFails, LandAckLate, WorkerStops
    <2> QED
      BY <1>1, <1>2, <1>3, <2>1 DEF Passed, Closed, Covers, FirstTimes
  <1>5. ASSUME NEW S, NEW t, Covers(S, t, Due, firstPublished)
        PROVE  Covers(S, t, Due', firstPublished')
    BY <1>2, <1>3, <1>5 DEF Covers
  <1>6. ASSUME NEW S, Closed(S, Due, firstPublished)
        PROVE  Closed(S, Due', firstPublished')
    BY <1>2, <1>3, <1>6 DEF Closed
  <1>7. CASE WStart \/ PullInputs \/ PullCurrent \/ PushResultFails \/ WorkerStops
    <2>1. wpc' \in {"idle", "pullInputs", "pullCurrent", "pullPublished"} /\ Acks' = Acks
      BY <1>7 DEF Acks, WStart, PullInputs, PullCurrent, PushResultFails, WorkerStops, WStop
    <2> QED
      BY <1>2, <1>4, <1>5, <2>1 DEF Passed
  <1>8. CASE \/ Registered \/ KeepPrevious \/ NewResult \/ PointPrevious \/ PushResult
             \/ LandLate
    <2>1. UNCHANGED <<Acks, wnow, wtodo, nasPublished>>
      BY <1>8 DEF Acks, Registered, KeepPrevious, NewResult, PointPrevious, PushResult, LandLate
    <2>2. CASE wpc' = wpc
      BY <1>2, <1>4, <1>5, <1>6, <2>1, <2>2 DEF Passed
    <2>3. CASE wpc' # wpc
      <3>1. /\ wpc' \in {"decide", "pointer", "push", "ack"}
            /\ \/ wpc \in {"decide", "pointer", "push", "ack"}
               \/ wpc = "register" /\ wtodo = {}
        BY <1>8, <2>3
        DEF Registered, KeepPrevious, NewResult, PointPrevious, PushResult, LandLate
      <3> QED
        BY <1>2, <1>4, <1>5, <2>1, <3>1 DEF Passed
    <2> QED
      BY <2>2, <2>3
  <1>9. CASE PullPublished
    <2>1. wpc' = "check" /\ nasPublished' = published /\ wnow' - WorkerSkew = clock /\ Acks' = Acks
      BY <1>9, Numbers DEF Acks, PullPublished
    <2>2. Covers(published, clock, Due, firstPublished)
      <3>1. SUFFICES ASSUME NEW r \in Due, firstPublished[r] + Grace < clock
                     PROVE  \E p \in published : p.result = r
        BY DEF Covers, Named
      <3> QED
        BY <3>1 DEF ReportedSoon, Reportable, Due
    <2> QED
      BY <1>2, <1>4, <1>5, <2>1, <2>2 DEF Passed
  <1>10. CASE CheckInput
    <2>1. Acks' = Acks /\ (\/ wpc' = "register" /\ wtodo' = nasPublished /\ wnow' = wnow
                         \/ wpc' = "idle")
      BY <1>10 DEF Acks, CheckInput, WStop
    <2>2. wpc = "check"
      BY <1>10 DEF CheckInput
    <2> QED
      BY <1>2, <1>4, <1>5, <1>6, <2>1, <2>2 DEF Passed
  <1>11. CASE PushAck \/ PushAckFails
    <2>1. wpc = "ack" /\ wpc' = "idle" /\ ArchiveAck.at = wnow
      BY <1>11 DEF PushAck, PushAckFails, WStop, ArchiveAck
    <2>2. Acks' \subseteq Acks \cup {ArchiveAck}
      BY <1>11 DEF PushAck, PushAckFails, Acks
    <2> QED
      BY <1>2, <1>4, <1>5, <2>1, <2>2 DEF Passed
  <1>13. CASE LandAckLate
    <2>1. Acks' \subseteq Acks /\ UNCHANGED <<wpc, wnow, wtodo, nasPublished>>
      BY <1>13 DEF LandAckLate, Acks
    <2> QED
      BY <1>2, <1>4, <1>5, <1>6, <2>1 DEF Passed
  <1>12. CASE Register
    <2>1. PICK p \in wtodo :
             IF p.result \in nasResults /\ made[p.result].gen <= p.at /\ p.at <= wnow
             THEN /\ ledger' = Observe(Opportunity[made[p.result].input], p)
                  /\ wtodo' = wtodo \ {p}
                  /\ UNCHANGED <<wpc, wnow, wsubject>>
             ELSE WStop /\ UNCHANGED ledger
      BY <1>12 DEF Register
    <2>2. wpc = "register" /\ Acks' = Acks /\ nasPublished' = nasPublished /\ made' = made
      BY <1>12 DEF Acks, Register
    <2>3. CASE wpc' # wpc
      <3>1. wpc' = "idle"
        BY <2>1, <2>3 DEF WStop
      <3> QED
        BY <1>2, <1>4, <1>5, <2>2, <3>1 DEF Passed
    <2>4. CASE wpc' = wpc
      <3>1. /\ ledger' = Observe(Opportunity[made[p.result].input], p)
            /\ wtodo' = wtodo \ {p} /\ wnow' = wnow
        BY <2>1, <2>2, <2>4 DEF WStop
      <3>2. p.result \notin Due'
        <4>1. p.result \in DOMAIN firstPublished /\ firstPublished[p.result] = p.at
          BY <1>1 DEF FirstTimes
        <4>2. CASE p.at < Deadline[made[p.result].input]
          <5>1. Opportunity[made[p.result].input] \in DOMAIN ledger'
            BY <3>1, <4>2 DEF Observe, Timely, Write
          <5> QED
            BY <2>2, <5>1 DEF Due
        <4>3. CASE ~(p.at < Deadline[made[p.result].input])
          BY <1>2, <2>2, <4>1, <4>3 DEF Due
        <4> QED
          BY <4>2, <4>3
      <3>3. \A r \in Due' : Named(wtodo, r) => Named(wtodo', r)
        <4>1. \A q \in wtodo : q.result \in Due' => q \in wtodo'
          BY <3>1, <3>2
        <4> QED
          BY <4>1 DEF Named
      <3>4. /\ Closed(wtodo, Due, firstPublished)
            /\ Covers(wtodo, wnow - WorkerSkew, Due, firstPublished)
        BY <2>2 DEF Passed
      <3>5. Closed(wtodo', Due', firstPublished')
        BY <1>2, <1>3, <3>1, <3>3, <3>4 DEF Closed
      <3>6. Covers(wtodo', wnow' - WorkerSkew, Due', firstPublished')
        BY <1>2, <1>3, <3>1, <3>3, <3>4 DEF Covers
      <3> QED
        BY <1>2, <1>4, <1>5, <2>2, <2>4, <3>5, <3>6 DEF Passed
    <2> QED
      BY <2>3, <2>4
  <1> QED
    BY <1>7, <1>8, <1>9, <1>10, <1>11, <1>12, <1>13 DEF WorkerStep, WorkerRun

\* A report is pulled, registered and acknowledged before it is pruned.
LEMMA ObservingStep ==
    ASSUME RepairsFinish, Joined, Safe, Observing, ReportedSoon, ReportedSoon',
           [ExchangeNext]_exchangeVars
    PROVE  Observing'
  <1>1. Clocks' /\ Stamped' /\ Stored' /\ Reportable'
    BY ClocksStep, StampedStep, StoredStep, ReportableStep DEF Observing
  <1>2. Passed'
    <2>1. CASE UNCHANGED workerVars
      BY <2>1, PassedCloud
    <2>2. CASE UNCHANGED cloudVars /\ WorkerStep
      BY <2>2, PassedWorker
    <2> QED
      BY <2>1, <2>2 DEF ExchangeNext, exchangeVars
  <1> QED
    BY <1>1, <1>2 DEF Observing

LEMMA ObservingInit == ExchangeInit => Observing
  BY DEF ExchangeInit, FilesInit, CloudInit, WorkerInit, Observing, Clocks, Stamped, Stored,
         Reportable, Passed, Acks, Due, Closed, Covers, FirstTimes, NoFiles, NoAck, NoTime, NoPublication,
         P, Clocked, PrunePCs, NoResult

\* The history only grows, by what a run commits.
LEMMA HistoryStep ==
    ASSUME Joined, Safe, [ExchangeNext]_exchangeVars
    PROVE  /\ \A r \in DOMAIN firstPublished :
                 /\ r \in DOMAIN firstPublished' /\ firstPublished'[r] = firstPublished[r]
                 /\ made'[r] = made[r]
           /\ \A r \in DOMAIN firstPublished' \ DOMAIN firstPublished :
                 pc = "commit" /\ firstPublished'[r] = now
  <1>1. DOMAIN firstPublished \subseteq DOMAIN made
    BY Numbers DEF Joined
  <1>2. CASE ~CommitPublication
    BY <1>1, <1>2, OnlyCommits, ExchangeStepMaps
  <1>3. CASE CommitPublication
    <2>1. subject \notin DOMAIN firstPublished
      BY <1>3, CommitsAreNew DEF CommitPublication, Safe, Joined
    <2>2. /\ firstPublished' = Write(firstPublished, subject, now)
          /\ made' = made /\ pc = "commit"
      BY <1>3, <2>1 DEF CommitPublication, fileVars
    <2> QED
      BY <2>1, <2>2 DEF Write
  <1> QED
    BY <1>2, <1>3

\* Among the publications of an opportunity the earliest that was in time is registered:
\* an earlier one would be due, and named by the publications still to be registered.
LEMMA FirstObservationStep ==
    ASSUME Joined, Safe, Observing, FirstObservationKept, [ExchangeNext]_exchangeVars
    PROVE  FirstObservationKept'
  <1> USE DEF Joined, Observing, FirstObservationKept, TimelyPublications
  <1>1. \A r \in DOMAIN firstPublished' :
           \/ /\ r \in DOMAIN firstPublished /\ firstPublished'[r] = firstPublished[r]
              /\ made'[r] = made[r]
           \/ pc = "commit" /\ firstPublished'[r] = now
    BY HistoryStep
  <1>2. \A r \in DOMAIN firstPublished :
           /\ r \in DOMAIN firstPublished' /\ firstPublished'[r] = firstPublished[r]
           /\ made'[r] = made[r]
    BY HistoryStep
  <1>3. ASSUME NEW o \in DOMAIN ledger
        PROVE  /\ ledger[o].result \in TimelyPublications(o)'
               /\ ledger[o].at = firstPublished'[ledger[o].result]
               /\ \A r \in TimelyPublications(o)' : ledger[o].at <= firstPublished'[r]
    <2>1. ledger[o].result \in DOMAIN firstPublished
             /\ ledger[o].at = firstPublished[ledger[o].result]
      OBVIOUS
    <2>2. ledger[o].result \in TimelyPublications(o)'
      BY <1>2, <2>1
    <2>3. pc = "commit" => ledger[o].at <= now
      BY <2>1 DEF Clocks
    <2> QED
      BY <1>1, <1>2, <2>1, <2>2, <2>3
  <1>4. CASE ~Register
    <2>1. ledger' = ledger
      BY <1>4, LedgerKept
    <2> QED
      BY <1>3, <2>1
  <1>5. CASE Register
    <2>1. PICK p \in wtodo :
             /\ \A q \in wtodo : p.at < q.at \/ (p.at = q.at /\ p.result <= q.result)
             /\ ledger' = ledger \/ ledger' = Observe(Opportunity[made[p.result].input], p)
      BY <1>5 DEF Register, InOrder
    <2>3. CASE ledger' = ledger
      BY <1>3, <2>3
    <2>4. CASE ledger' # ledger
      <3>0. PICK o : o = Opportunity[made[p.result].input]
        OBVIOUS
      <3>1. Timely(p) /\ o \notin DOMAIN ledger /\ ledger' = Write(ledger, o, p)
        BY <2>1, <2>4, <3>0 DEF Observe
      <3>2. /\ DOMAIN ledger' = DOMAIN ledger \cup {o} /\ ledger'[o] = p
            /\ \A q \in DOMAIN ledger : ledger'[q] = ledger[q]
        BY <3>1 DEF Write
      <3>3. p.result \in DOMAIN firstPublished /\ p.at = firstPublished[p.result]
        BY PublishedTimes DEF FirstTimes
      <3>4. p.result \in TimelyPublications(o)
        BY <3>0, <3>1, <3>3 DEF Timely
      <3>5. ASSUME NEW r \in TimelyPublications(o)
            PROVE  p.at <= firstPublished[r]
        <4>1. r \in Due
          BY <3>1 DEF Due
        <4>2. SUFFICES ASSUME firstPublished[r] < p.at PROVE FALSE
          BY <3>3, <4>1, Numbers DEF Due
        <4>3. Named(wtodo, r)
          BY <4>1, <4>2, <1>5 DEF Passed, Closed, Register
        <4>4. PICK q \in wtodo : q.result = r
          BY <4>3 DEF Named
        <4>5. q.at = firstPublished[r]
          BY <4>4, PublishedTimes DEF FirstTimes
        <4> QED
          BY <2>1, <3>3, <4>1, <4>2, <4>5, Numbers DEF Due
      <3>6. UNCHANGED <<firstPublished, made>>
        <4>1. ~UNCHANGED workerVars
          BY <2>4 DEF workerVars, nasVars
        <4>2. UNCHANGED cloudVars
          BY <4>1 DEF ExchangeNext, exchangeVars
        <4> QED
          BY <1>5, <4>2 DEF Register, fileVars, cloudVars, auxVars
      <3>7. \A q \in DOMAIN ledger' : q = o \/ q \in DOMAIN ledger
        BY <3>2
      <3>8. /\ ledger'[o].result \in TimelyPublications(o)'
            /\ ledger'[o].at = firstPublished'[ledger'[o].result]
            /\ \A r \in TimelyPublications(o)' : ledger'[o].at <= firstPublished'[r]
        BY <3>2, <3>3, <3>4, <3>5, <3>6
      <3> QED
        BY <1>3, <3>2, <3>7, <3>8
    <2> QED
      BY <2>3, <2>4
  <1> QED
    BY <1>4, <1>5

\* The invariants of the two machines hold of the exchange that reports soon.
LEMMA ObservingAlways ==
    ASSUME RepairsFinish
    PROVE  ExchangeSpec /\ []ReportedSoon =>
              [](Joined /\ Safe /\ Observing /\ FirstObservationKept)
  <1>1. ExchangeInit => Joined /\ Safe /\ Observing /\ FirstObservationKept
    <2>1. ExchangeInit => FirstObservationKept
      BY DEF ExchangeInit, WorkerInit, FirstObservationKept, NoFiles
    <2> QED
      BY <2>1, JoinedInit, SafeInit, ObservingInit
  <1>2. /\ Joined /\ Safe /\ Observing /\ FirstObservationKept
        /\ ReportedSoon /\ ReportedSoon' /\ [ExchangeNext]_exchangeVars
        => (Joined /\ Safe /\ Observing /\ FirstObservationKept)'
    <2> SUFFICES ASSUME Joined, Safe, Observing, FirstObservationKept,
                        ReportedSoon, ReportedSoon', [ExchangeNext]_exchangeVars
                 PROVE  (Joined /\ Safe /\ Observing /\ FirstObservationKept)'
      OBVIOUS
    <2>1. [Next]_vars /\ Joined' /\ Typed
      BY JoinedStep DEF Joined
    <2>2. Safe'
      BY <2>1, SafeStep
    <2> QED
      BY <2>1, <2>2, ObservingStep, FirstObservationStep
  <1> QED
    BY <1>1, <1>2, PTL DEF ExchangeSpec

\* Where the cloud reports within the grace of each publication, retention cannot
\* overtake observation: a receipt is pruned when its opportunity is registered, whatever
\* fails in between on either machine (retention.py, worker.py, ledger.py).
THEOREM ObservedBeforePruned ==
    ASSUME RepairsFinish
    PROVE  ExchangeSpec /\ []ReportedSoon => []PrunedIsObserved
  <1>1. Joined /\ Safe /\ Observing => PrunedIsObserved
    <2> SUFFICES ASSUME Joined, Observing, NEW r \in DOMAIN firstPublished,
                        r \notin DOMAIN receipts, r # P,
                        ~(firstPublished[r] >= Deadline[made[r].input])
                 PROVE  Opportunity[made[r].input] \in DOMAIN ledger
      BY DEF PrunedIsObserved, P
    <2>1. r \notin Due
      BY DEF Observing, Reportable, Waits
    <2>2. firstPublished[r] < Deadline[made[r].input]
      BY Numbers DEF Joined
    <2> QED
      BY <2>1, <2>2 DEF Due
  <1> QED
    BY <1>1, ObservingAlways, PTL

\* An observation is the first publication of its opportunity that was in time, and no
\* crash, transfer or pruning lets a later one take its place (ledger.py, register).
THEOREM FirstObservationStays ==
    ASSUME RepairsFinish
    PROVE  ExchangeSpec /\ []ReportedSoon => []FirstObservationKept
  BY ObservingAlways, PTL
=============================================================================
