-------------------------- MODULE DecisionCloudProofs --------------------------
(***************************************************************************)
(* The published result is served once and in order, for any number of     *)
(* results, inputs, crashes and failed prunings: the theorems TLC checks    *)
(* on small instances, for every value of the constants.                   *)
(*                                                                         *)
(* The two failures the code does not recover from (an OSError during the   *)
(* acceptance and a crash inside the repair of a crash; see README.md) are  *)
(* excluded where a theorem says RepairsFinish.                             *)
(***************************************************************************)
EXTENDS DecisionCloud, TLAPS

------------------------------------------------------------------------------
(* DecisionCloud is type-correct, whatever fails, however often.             *)

\* What a step finds in `subject` and `publication` when it starts: TypeOK alone
\* does not say that a result is being written when a write of one is due.
Pending ==
    /\ pc \in AcceptPCs => subject \in DOMAIN made
    /\ pc \in {"recover", "recoverPointer", "recoverDetail"} => publication # NoPublication
    /\ pc = "point" => subject \in DOMAIN inputs

Typed == TypeOK /\ Pending

\* Replacing or removing one file leaves a directory a directory (atomic_json, unlink).
LEMMA WriteDirectory ==
    ASSUME NEW dir, NEW names, NEW contents, IsDirectory(dir, names, contents),
           NEW name \in names, NEW value \in contents
    PROVE  IsDirectory(Write(dir, name, value), names, contents)
  BY DEF Write, IsDirectory

LEMMA UnlinkDirectory ==
    ASSUME NEW dir, NEW names, NEW contents, IsDirectory(dir, names, contents), NEW name
    PROVE  IsDirectory(Unlink(dir, name), names, contents)
  BY DEF Unlink, IsDirectory

\* An empty store before the first run is well typed.
LEMMA TypesInit == Init => Typed
  <1> SUFFICES ASSUME Init PROVE Typed
    OBVIOUS
  <1> USE DEF Init, FilesInit, CloudInit
  <1>1. FilesTypeOK
    BY DEF FilesTypeOK, NoFiles, NoAck, NoInput, NoTime, SignedInputs, Publications, Results,
           IsDirectory
  <1>2. DirsTypeOK
    BY DEF DirsTypeOK, NoFiles, NoPublication, NoResult, NoTime, IsDirectory
  <1>3. RunTypeOK
    BY DEF RunTypeOK, NoResult, NoTime, Nothing, Unprotected, PCs, AcceptPCs, PrunePCs,
       SignedInputs
  <1>4. faults \in 0..MaxFaults /\ IsDirectory(firstPublished, DOMAIN made, Nat)
    BY FaultsAssumption DEF NoFiles, IsDirectory
  <1> QED
    BY <1>1, <1>2, <1>3, <1>4 DEF Typed, TypeOK, Pending, AcceptPCs

\* The detail of a signed result has a name to be written under.
LEMMA AdviceNamed ==
    ASSUME FilesTypeOK, NEW r \in DOMAIN made
    PROVE  Advice(r) \in Contents
  BY DEF FilesTypeOK, Advice, IsDirectory, Results

\* No file operation, failure or message of a worker breaks the types.
LEMMA TypesStep == Typed /\ [Next]_vars => Typed'
  <1> SUFFICES ASSUME Typed, [Next]_vars PROVE Typed'
    OBVIOUS
  <1> USE DEF Typed, TypeOK, Pending, FilesTypeOK, DirsTypeOK, RunTypeOK,
              fileVars, runVars, dirVars, auxVars, cloudVars
  <1>1. CASE StartCycle
    BY <1>1 DEF StartCycle, PCs, PrunePCs, AcceptPCs
  <1>2. CASE StartAcceptOnly
    BY <1>2 DEF StartAcceptOnly, PCs, AcceptPCs
  <1>3. CASE PruneBlocked
    BY <1>3 DEF PruneBlocked, PCs, AcceptPCs
  <1>4. CASE PruneBegin
    BY <1>4 DEF PruneBegin, PCs, PrunePCs, AcceptPCs, Current, InputsInUse, AdviceInUse,
       Advice, Acknowledged, IsDirectory, Results, NoInput, NoAck, SignedInputs
  <1>5. CASE PruneResult
    BY <1>5, NamesAssumption DEF PruneResult, PCs, PrunePCs, AcceptPCs, PrunableResults,
       Recorded
  <1>6. CASE UnlinkDetail
    BY <1>6, UnlinkDirectory DEF UnlinkDetail, PCs, PrunePCs, AcceptPCs
  <1>7. CASE UnlinkReceipt
    BY <1>7, UnlinkDirectory DEF UnlinkReceipt, PCs, PrunePCs, AcceptPCs
  <1>8. CASE UnlinkResult
    BY <1>8, UnlinkDirectory DEF UnlinkResult, PCs, PrunePCs, AcceptPCs, NoResult
  <1>9. CASE PruneResultsDone
    BY <1>9 DEF PruneResultsDone, PCs, PrunePCs, AcceptPCs
  <1>10. CASE PruneInput
    BY <1>10, NamesAssumption DEF PruneInput, PCs, PrunePCs, AcceptPCs, PrunableInputs,
       Recorded, SignedInputs, IsDirectory
  <1>11. CASE UnlinkInput
    BY <1>11, UnlinkDirectory DEF UnlinkInput, PCs, PrunePCs, AcceptPCs, NoResult
  <1>12. CASE PruneDone
    BY <1>12 DEF PruneDone, PCs, PrunePCs, AcceptPCs
  <1>13. CASE ListInbox
    BY <1>13 DEF ListInbox, PCs, PrunePCs, AcceptPCs, Nothing, Unprotected, NoResult
  <1>14. CASE RecoverReceipt
    BY <1>14, WriteDirectory DEF RecoverReceipt, PCs, AcceptPCs, CommittedTime, NoPublication
  <1>15. CASE RecoverPointer
    BY <1>15 DEF RecoverPointer, PCs, AcceptPCs, NoPublication
  <1>16. CASE RecoverDetail
    BY <1>16, WriteDirectory, AdviceNamed DEF RecoverDetail, PCs, AcceptPCs, WithDetail,
       NoPublication
  <1>17. CASE \E f \in files : SkipDuplicate(f)
    BY <1>17 DEF SkipDuplicate
  <1>18. CASE \E f \in files : Reject(f)
    BY <1>18 DEF Reject
  <1>19. CASE \E f \in files : StoreResult(f)
    <2>1. PICK f \in files : StoreResult(f)
      BY <1>19
    <2>2. IsDirectory(results', DOMAIN made, Nat)
      BY <2>1, WriteDirectory DEF StoreResult
    <2>3. /\ pc' \in {"scan", "commit", "receipt"}
          /\ pc' \in {"commit", "receipt"} => subject' = f
          /\ subject' \in {subject, f}
          /\ files' \subseteq files
      BY <2>1 DEF StoreResult
    <2>4. f \in Nat
      BY NamesAssumption DEF IsDirectory
    <2> QED
      BY <2>1, <2>2, <2>3, <2>4 DEF StoreResult, PCs, AcceptPCs
  <1>20. CASE CommitPublication
    BY <1>20, WriteDirectory DEF CommitPublication, PCs, AcceptPCs
  <1>21. CASE WriteDetail
    BY <1>21, WriteDirectory, AdviceNamed DEF WriteDetail, PCs, AcceptPCs, WithDetail
  <1>22. CASE WritePointer
    BY <1>22 DEF WritePointer, PCs, AcceptPCs
  <1>23. CASE WriteReceipt
    BY <1>23, WriteDirectory DEF WriteReceipt, PCs, AcceptPCs, NoTime
  <1>24. CASE ClearInbox
    BY <1>24 DEF ClearInbox, PCs, AcceptPCs, NoResult
  <1>25. CASE Report
    BY <1>25 DEF Report, Stop, PCs, AcceptPCs, Publications, IsDirectory, NoTime, NoResult,
       Nothing, Unprotected
  <1>26. CASE PublishInput
    BY <1>26, WriteDirectory, NamesAssumption DEF PublishInput, PCs, AcceptPCs,
       SignedInputs, Write, IsDirectory
  <1>27. CASE PointInput
    BY <1>27 DEF PointInput, Stop, PCs, AcceptPCs, SignedInputs, IsDirectory, NoTime,
       NoResult, Nothing, Unprotected
  <1>28. CASE PublishFails
    BY <1>28 DEF PublishFails, Stop, PCs, AcceptPCs, NoTime, NoResult, Nothing, Unprotected
  <1>29. CASE PruneFails
    BY <1>29, FaultsAssumption DEF PruneFails, Fail, PCs, PrunePCs, AcceptPCs, NoResult
  <1>30. CASE AcceptFails
    BY <1>30, FaultsAssumption DEF AcceptFails, Fail, PCs, AcceptPCs, NoResult
  <1>31. CASE Crash
    BY <1>31, FaultsAssumption DEF Crash, Fail, Stop, PCs, AcceptPCs, NoTime, NoResult,
       Nothing, Unprotected
  <1>32. CASE Sign
    BY <1>32, WriteDirectory, TimesAssumption DEF Sign, SignedInputs, Results, Write,
       IsDirectory
  <1>33. CASE Deliver
    BY <1>33 DEF Deliver
  <1>34. CASE Acknowledge
    BY <1>34, TimesAssumption DEF Acknowledge, IsDirectory, Results
  <1>35. CASE Tick /\ UNCHANGED cloudVars
    BY <1>35, TimesAssumption DEF Tick
  <1>36. CASE UNCHANGED vars
    BY <1>36 DEF vars
  <1> QED
    BY <1>1, <1>2, <1>3, <1>4, <1>5, <1>6, <1>7, <1>8, <1>9, <1>10, <1>11, <1>12, <1>13,
       <1>14, <1>15, <1>16, <1>17, <1>18, <1>19, <1>20, <1>21, <1>22, <1>23, <1>24, <1>25,
       <1>26, <1>27, <1>28, <1>29, <1>30, <1>31, <1>32, <1>33, <1>34, <1>35, <1>36
    DEF Next, CloudStep, Start, Prune, Accept, Publish, Fault, Environment

\* Every file names results and inputs that were signed, whatever fails: no run
\* of cloud-cycle or accept-only leaves a pointer, receipt or envelope to nothing.
THEOREM TypeCorrect == Spec => []TypeOK
  <1>1. Typed => TypeOK
    BY DEF Typed
  <1> QED
    BY TypesInit, TypesStep, <1>1, PTL DEF Spec

------------------------------------------------------------------------------
(* What is published is published once and in order.                         *)

RepairsFinish == Faults \cap {"recovery_crash", "accept_io"} = {}

\* The publication, its pointer and its receipt: what a step may rely on between
\* the commit and the files that follow it, across a crash and its repair.
P == publication.result

Linked ==
    /\ publication = NoPublication => currentResult = NoResult /\ DOMAIN firstPublished = {}
    /\ P \in DOMAIN receipts /\ pc # "recoverPointer" => currentResult = P
    /\ pc \in {"recoverPointer", "recoverDetail", "clear"} => P \in DOMAIN receipts
    /\ pc \in {"scan", "commit"} => publication = NoPublication \/ P \in DOMAIN receipts
    /\ pc \in {"scan", "commit", "receipt", "clear"} => previous = P /\ currentResult = P
    /\ pc \in {"commit", "detail", "pointer"} => subject \notin DOMAIN receipts
    /\ pc \in {"detail", "pointer"} => subject = P /\ publication.at = now
    /\ pc = "receipt" =>
         \/ subject = P /\ publication.at = now
         \/ subject # P /\ P \in DOMAIN receipts

\* The result about to be committed is later than the published one.
Later ==
    pc = "commit" /\ publication # NoPublication =>
        /\ made[subject].gen > made[P].gen
        /\ inputs[made[subject].input] >= inputs[made[P].input]

\* The published result is the last of the history.
Latest ==
    /\ publication # NoPublication =>
         P \in DOMAIN firstPublished /\ firstPublished[P] = publication.at
    /\ \A r \in DOMAIN firstPublished : made[r].gen <= made[P].gen

\* No input the next acceptance needs can be pruned.
InNeed == ({currentResult, P} \ {NoResult}) \cup DOMAIN results

Safeguarded ==
    /\ EvidenceKept
    /\ P # currentResult => P \in inbox
    /\ files \subseteq inbox
    /\ pc \in AcceptPCs => subject \in inbox /\ subject \in DOMAIN results
    /\ pc \in PrunePCs \ {"prune"} => \A r \in InNeed : made[r].input \in protected.inputs
    /\ pc = "unlinkInput" => subject \notin protected.inputs

Safe == Linked /\ Later /\ Latest /\ FirstTimesKept /\ Safeguarded

\* The absence of a result is not the name of one.
LEMMA NamesAreNotZero ==
    ASSUME Typed
    PROVE  /\ NoResult \notin DOMAIN made
           /\ publication # NoPublication => P \in DOMAIN made /\ P # NoResult
           /\ publication = NoPublication => P = NoResult
  BY NamesAssumption
  DEF Typed, TypeOK, FilesTypeOK, DirsTypeOK, IsDirectory, NoResult, NoPublication, P

\* Where repairs finish, no failure is one of the two that prevent it.
LEMMA NoLostRepair ==
    ASSUME RepairsFinish, NEW kind, Fail(kind)
    PROVE  kind \notin {"recovery_crash", "accept_io"}
  BY DEF RepairsFinish, Fail

\* The envelope, its receipt and the pointer stay in step through publication,
\* crash and repair (pipeline.py, accept_results).
LEMMA LinkedStep ==
    ASSUME RepairsFinish, Typed, Linked, Later, Latest, [Next]_vars
    PROVE  Linked'
  <1> USE DEF Linked, P, NoPublication, NoResult, NoTime, fileVars, dirVars, runVars,
     auxVars, cloudVars
  <1>1. CASE \/ StartCycle \/ StartAcceptOnly \/ PruneBlocked \/ PruneBegin
               \/ PruneResultsDone \/ PruneDone \/ Sign \/ Deliver
               \/ Acknowledge \/ (Tick /\ UNCHANGED cloudVars) \/ UNCHANGED vars
    BY <1>1
    DEF StartCycle, StartAcceptOnly, PruneBlocked, PruneBegin, PruneResultsDone, PruneDone,
       Sign, Deliver, Acknowledge, Tick, vars
  <1>2. CASE \/ PruneResult \/ UnlinkDetail \/ UnlinkResult \/ PruneInput
               \/ UnlinkInput
    BY <1>2
    DEF PruneResult, UnlinkDetail, UnlinkResult, PruneInput, UnlinkInput, PCs, PrunePCs,
       AcceptPCs
  <1>3. CASE \/ Report \/ PublishInput \/ PointInput \/ PublishFails
    BY <1>3
    DEF Report, Stop, PublishInput, PointInput, PublishFails
  <1>4. CASE UnlinkReceipt
    <2>1. DOMAIN receipts' = DOMAIN receipts \ {subject}
      BY <1>4 DEF UnlinkReceipt, Unlink
    <2> QED
      BY <1>4, <2>1 DEF UnlinkReceipt
  <1>5. CASE PruneFails
    BY <1>5
    DEF PruneFails, Fail, PCs, PrunePCs, AcceptPCs
  <1>6. CASE AcceptFails
    <2>1. Fail("accept_io")
      BY <1>6 DEF AcceptFails
    <2> QED
      BY <2>1, NoLostRepair
  <1>7. CASE Crash
    <2>1. Fail(IF pc = "recoverPointer" THEN "recovery_crash" ELSE "crash")
      BY <1>7 DEF Crash
    <2>2. pc # "recoverPointer"
      BY <2>1, NoLostRepair
    <2> QED
      BY <1>7, <2>2 DEF Crash, Stop
  <1>8. CASE ListInbox
    <2>1. CASE publication = NoPublication
      <3>1. pc' = "scan" /\ previous' = currentResult
        BY <1>8, <2>1 DEF ListInbox
      <3>2. UNCHANGED <<publication, receipts, currentResult, firstPublished>>
        BY <1>8 DEF ListInbox
      <3> QED
        BY <2>1, <3>1, <3>2, NamesAreNotZero
    <2>2. CASE publication # NoPublication
      BY <1>8, <2>2 DEF ListInbox
    <2> QED
      BY <2>1, <2>2
  <1>9. CASE RecoverReceipt
    <2>1. CASE P \in DOMAIN receipts
      BY <1>9, <2>1 DEF RecoverReceipt
    <2>2. CASE P \notin DOMAIN receipts
      <3>1. DOMAIN receipts' = DOMAIN receipts \cup {P}
        <4>1. receipts' = Write(receipts, P, CommittedTime)
          BY <1>9, <2>2 DEF RecoverReceipt
        <4> QED
          BY <4>1 DEF Write
      <3>2. pc' = "recoverPointer" /\ UNCHANGED <<publication, currentResult, firstPublished>>
        BY <1>9, <2>2 DEF RecoverReceipt
      <3> QED
        BY <3>1, <3>2
    <2> QED
      BY <2>1, <2>2
  <1>10. CASE RecoverPointer
    BY <1>10
    DEF RecoverPointer
  <1>11. CASE RecoverDetail
    BY <1>11
    DEF RecoverDetail
  <1>12. CASE \E f \in files : SkipDuplicate(f)
    BY <1>12
    DEF SkipDuplicate
  <1>13. CASE \E f \in files : Reject(f)
    BY <1>13
    DEF Reject
  <1>14. CASE \E f \in files : StoreResult(f)
    <2>1. PICK f \in files : StoreResult(f)
      BY <1>14
    <2>2. /\ pc = "scan" /\ f \notin DOMAIN receipts
          /\ UNCHANGED <<publication, receipts, currentResult, previous, firstPublished, now>>
      BY <2>1 DEF StoreResult
    <2>3. publication = NoPublication => Advances(f)
      BY <2>2, NamesAreNotZero DEF Advances
    <2>4. \/ pc' = "scan"
          \/ pc' = "commit" /\ subject' = f
          \/ pc' = "receipt" /\ subject' = f /\ publication # NoPublication
      BY <2>1, <2>2, <2>3 DEF StoreResult
    <2> QED
      BY <2>2, <2>4
  <1>15. CASE CommitPublication
    <2>1. subject # NoResult
      BY <1>15, NamesAreNotZero DEF CommitPublication, Typed, Pending, AcceptPCs
    <2>2. publication' # NoPublication /\ P' = subject /\ publication'.at = now
      BY <1>15, <2>1 DEF CommitPublication, NoPublication
    <2> QED
      BY <1>15, <2>2 DEF CommitPublication
  <1>16. CASE WriteDetail
    BY <1>16
    DEF WriteDetail
  <1>17. CASE WritePointer
    <2>1. publication # NoPublication
      BY <1>17, NamesAreNotZero DEF WritePointer, Typed, Pending, AcceptPCs
    <2> QED
      BY <1>17, <2>1 DEF WritePointer
  <1>18. CASE WriteReceipt
    <2>1. DOMAIN receipts' = DOMAIN receipts \cup {subject}
      BY <1>18 DEF WriteReceipt, Write
    <2> QED
      BY <1>18, <2>1 DEF WriteReceipt
  <1>19. CASE ClearInbox
    BY <1>19
    DEF ClearInbox
  <1> QED
    BY <1>1, <1>2, <1>3, <1>4, <1>5, <1>6, <1>7, <1>8, <1>9, <1>10, <1>11, <1>12, <1>13,
       <1>14, <1>15, <1>16, <1>17, <1>18, <1>19
    DEF Next, CloudStep, Start, Prune, Accept, Publish, Fault, Environment

\* What was found to advance still does when it is committed: nothing another
\* action writes in between changes the two results or their inputs.
LEMMA LaterStep ==
    ASSUME Typed, Linked, Later, [Next]_vars
    PROVE  Later'
  <1> USE DEF Later, P, NoPublication, NoResult, NoTime, fileVars, dirVars, runVars,
     auxVars, cloudVars
  <1>1. CASE \/ StartCycle \/ StartAcceptOnly \/ PruneBlocked \/ PruneBegin
               \/ PruneResultsDone \/ PruneDone \/ Deliver \/ Acknowledge
               \/ (Tick /\ UNCHANGED cloudVars) \/ UNCHANGED vars
    BY <1>1
    DEF StartCycle, StartAcceptOnly, PruneBlocked, PruneBegin, PruneResultsDone, PruneDone,
       Deliver, Acknowledge, Tick, vars
  <1>2. CASE \/ PruneResult \/ UnlinkDetail \/ UnlinkReceipt \/ UnlinkResult
               \/ PruneInput \/ UnlinkInput
    BY <1>2
    DEF PruneResult, UnlinkDetail, UnlinkReceipt, UnlinkResult, PruneInput, UnlinkInput
  <1>3. CASE \/ Report \/ PublishInput \/ PointInput \/ PublishFails
               \/ PruneFails \/ AcceptFails \/ Crash
    BY <1>3
    DEF Report, Stop, PublishInput, PointInput, PublishFails, PruneFails, Fail, AcceptFails,
       Crash
  <1>4. CASE \/ ListInbox \/ RecoverReceipt \/ RecoverPointer \/ RecoverDetail
    BY <1>4
    DEF ListInbox, RecoverReceipt, RecoverPointer, RecoverDetail
  <1>5. CASE \/ WriteDetail \/ WritePointer \/ WriteReceipt \/ ClearInbox
    BY <1>5
    DEF WriteDetail, WritePointer, WriteReceipt, ClearInbox
  <1>6. CASE \/ (\E f \in files : SkipDuplicate(f)) \/ (\E f \in files : Reject(f))
    BY <1>6
    DEF SkipDuplicate, Reject
  <1>7. CASE \E f \in files : StoreResult(f)
    <2>1. PICK f \in files : StoreResult(f)
      BY <1>7
    <2>2. SUFFICES ASSUME pc' = "commit", publication' # NoPublication
                   PROVE  /\ made'[subject'].gen > made'[P'].gen
                          /\ inputs'[made'[subject'].input] >= inputs'[made'[P'].input]
      OBVIOUS
    <2>3. /\ pc = "scan" /\ subject' = f /\ Advances(f)
          /\ UNCHANGED <<made, inputs, publication>>
      BY <2>1, <2>2 DEF StoreResult
    <2>4. previous = P /\ P # NoResult
      BY <2>2, <2>3, NamesAreNotZero DEF Linked
    <2> QED
      BY <2>3, <2>4 DEF Advances
  <1>8. CASE CommitPublication
    BY <1>8
    DEF CommitPublication
  <1>9. CASE Sign
    <2>1. PICK r \in ResultIds \ DOMAIN made : \E rec : made' = Write(made, r, rec)
      BY <1>9 DEF Sign
    <2>2. \A q \in DOMAIN made : made'[q] = made[q]
      BY <2>1 DEF Write
    <2> QED
      BY <1>9, <2>2, NamesAreNotZero DEF Sign, Typed, Pending, AcceptPCs
  <1> QED
    BY <1>1, <1>2, <1>3, <1>4, <1>5, <1>6, <1>7, <1>8, <1>9
    DEF Next, CloudStep, Start, Prune, Accept, Publish, Fault, Environment

\* Nothing is committed twice: what was committed before is not later than what
\* is served now.
LEMMA CommitsAreNew ==
    ASSUME Typed, Linked, Later, Latest, pc = "commit"
    PROVE  subject \notin DOMAIN firstPublished
  <1>1. CASE publication = NoPublication
    BY <1>1 DEF Linked
  <1>2. CASE publication # NoPublication
    <2>1. subject \in DOMAIN made /\ P \in DOMAIN made
      BY <1>2, NamesAreNotZero DEF Typed, Pending, AcceptPCs
    <2>2. made[subject].gen \in Int /\ made[P].gen \in Int
      BY <2>1 DEF Typed, TypeOK, FilesTypeOK, IsDirectory, Results
    <2>3. ~(made[subject].gen <= made[P].gen)
      BY <1>2, <2>2 DEF Later
    <2> QED
      BY <2>3 DEF Latest
  <1> QED
    BY <1>1, <1>2

\* A commit makes its result the last of the history, and nothing else touches it.
LEMMA LatestStep ==
    ASSUME Typed, Linked, Later, Latest, [Next]_vars
    PROVE  Latest'
  <1> USE DEF Latest, P, NoPublication, NoResult, NoTime, fileVars, dirVars, runVars,
     auxVars, cloudVars
  <1>1. CASE \/ StartCycle \/ StartAcceptOnly \/ PruneBlocked \/ PruneBegin
               \/ PruneResultsDone \/ PruneDone \/ Deliver \/ Acknowledge
               \/ (Tick /\ UNCHANGED cloudVars) \/ UNCHANGED vars
    BY <1>1
    DEF StartCycle, StartAcceptOnly, PruneBlocked, PruneBegin, PruneResultsDone, PruneDone,
       Deliver, Acknowledge, Tick, vars
  <1>2. CASE \/ PruneResult \/ UnlinkDetail \/ UnlinkReceipt \/ UnlinkResult
               \/ PruneInput \/ UnlinkInput
    BY <1>2
    DEF PruneResult, UnlinkDetail, UnlinkReceipt, UnlinkResult, PruneInput, UnlinkInput
  <1>3. CASE \/ Report \/ PublishInput \/ PointInput \/ PublishFails
               \/ PruneFails \/ AcceptFails \/ Crash
    BY <1>3
    DEF Report, Stop, PublishInput, PointInput, PublishFails, PruneFails, Fail, AcceptFails,
       Crash
  <1>4. CASE \/ ListInbox \/ RecoverReceipt \/ RecoverPointer \/ RecoverDetail
    BY <1>4
    DEF ListInbox, RecoverReceipt, RecoverPointer, RecoverDetail
  <1>5. CASE \/ WriteDetail \/ WritePointer \/ WriteReceipt \/ ClearInbox
    BY <1>5
    DEF WriteDetail, WritePointer, WriteReceipt, ClearInbox
  <1>6. CASE \/ (\E f \in files : SkipDuplicate(f)) \/ (\E f \in files : Reject(f))
    BY <1>6
    DEF SkipDuplicate, Reject
  <1>7. CASE \E f \in files : StoreResult(f)
    BY <1>7
    DEF StoreResult
  <1>8. CASE CommitPublication
    <2>1. pc = "commit" /\ publication' = [result |-> subject, at |-> now] /\ made' = made
      BY <1>8 DEF CommitPublication
    <2>2. firstPublished' = Write(firstPublished, subject, now)
      BY <1>8, CommitsAreNew DEF CommitPublication
    <2>3. /\ DOMAIN firstPublished' = DOMAIN firstPublished \cup {subject}
          /\ firstPublished'[subject] = now
      BY <2>2 DEF Write
    <2>4. subject \in DOMAIN made /\ DOMAIN firstPublished \subseteq DOMAIN made
      BY <2>1 DEF Typed, TypeOK, Pending, AcceptPCs, IsDirectory
    <2>5. \A r \in DOMAIN made : made[r].gen \in Int
      BY DEF Typed, TypeOK, FilesTypeOK, IsDirectory, Results
    <2>6. \A r \in DOMAIN firstPublished : made[r].gen <= made[subject].gen
      <3> SUFFICES ASSUME NEW r \in DOMAIN firstPublished PROVE made[r].gen <= made[subject].gen
        OBVIOUS
      <3>1. publication # NoPublication
        BY DEF Linked
      <3>2. made[subject].gen > made[P].gen /\ P \in DOMAIN made
        BY <2>1, <3>1, NamesAreNotZero DEF Later
      <3> QED
        BY <2>4, <2>5, <3>2
    <2>7. made[subject].gen <= made[subject].gen
      BY <2>4, <2>5
    <2> QED
      BY <2>1, <2>3, <2>6, <2>7
  <1>9. CASE Sign
    <2>1. PICK r \in ResultIds \ DOMAIN made : \E rec : made' = Write(made, r, rec)
      BY <1>9 DEF Sign
    <2>2. \A q \in DOMAIN made : made'[q] = made[q]
      BY <2>1 DEF Write
    <2>3. DOMAIN firstPublished \subseteq DOMAIN made
      BY DEF Typed, TypeOK, IsDirectory
    <2>4. UNCHANGED <<publication, firstPublished>>
      BY <1>9 DEF Sign
    <2>5. \A q \in DOMAIN firstPublished : publication # NoPublication
      BY DEF Linked
    <2> QED
      BY <2>2, <2>3, <2>4, <2>5, NamesAreNotZero
  <1> QED
    BY <1>1, <1>2, <1>3, <1>4, <1>5, <1>6, <1>7, <1>8, <1>9
    DEF Next, CloudStep, Start, Prune, Accept, Publish, Fault, Environment

\* A receipt is written with the time of the commit it belongs to, by the run that
\* made it or by the one that repairs it; the report copies receipts.
LEMMA FirstTimesStep ==
    ASSUME Typed, Linked, Later, Latest, FirstTimesKept, [Next]_vars
    PROVE  FirstTimesKept'
  <1> USE DEF FirstTimesKept, P, NoPublication, NoResult, NoTime, fileVars, dirVars,
     runVars, auxVars, cloudVars
  <1>1. CASE \/ StartCycle \/ StartAcceptOnly \/ PruneBlocked \/ PruneBegin
               \/ PruneResultsDone \/ PruneDone \/ Deliver \/ Acknowledge
               \/ (Tick /\ UNCHANGED cloudVars) \/ UNCHANGED vars \/ Sign
    BY <1>1
    DEF StartCycle, StartAcceptOnly, PruneBlocked, PruneBegin, PruneResultsDone, PruneDone,
       Deliver, Acknowledge, Tick, vars, Sign
  <1>2. CASE \/ PruneResult \/ UnlinkDetail \/ UnlinkResult \/ PruneInput
               \/ UnlinkInput
    BY <1>2
    DEF PruneResult, UnlinkDetail, UnlinkResult, PruneInput, UnlinkInput
  <1>3. CASE \/ PublishInput \/ PointInput \/ PublishFails \/ PruneFails
               \/ AcceptFails \/ Crash
    BY <1>3
    DEF PublishInput, PointInput, Stop, PublishFails, PruneFails, Fail, AcceptFails, Crash
  <1>4. CASE \/ ListInbox \/ RecoverPointer \/ RecoverDetail \/ WriteDetail
               \/ WritePointer \/ ClearInbox
    BY <1>4
    DEF ListInbox, RecoverPointer, RecoverDetail, WriteDetail, WritePointer, ClearInbox
  <1>5. CASE \E f \in files : SkipDuplicate(f) \/ Reject(f) \/ StoreResult(f)
    BY <1>5
    DEF SkipDuplicate, Reject, StoreResult
  <1>6. CASE UnlinkReceipt
    <2>1. receipts' = Unlink(receipts, subject) /\ UNCHANGED <<published, firstPublished>>
      BY <1>6 DEF UnlinkReceipt
    <2>2. \A r \in DOMAIN receipts' : r \in DOMAIN receipts /\ receipts'[r] = receipts[r]
      BY <2>1 DEF Unlink
    <2> QED
      BY <2>1, <2>2
  <1>7. CASE RecoverReceipt
    <2>1. CASE P \in DOMAIN receipts
      BY <1>7, <2>1 DEF RecoverReceipt
    <2>2. CASE P \notin DOMAIN receipts
      <3>1. /\ receipts' = Write(receipts, P, publication.at)
            /\ UNCHANGED <<published, firstPublished>>
        BY <1>7, <2>2 DEF RecoverReceipt, CommittedTime
      <3>2. P \in DOMAIN firstPublished /\ firstPublished[P] = publication.at
        BY <1>7 DEF RecoverReceipt, Latest, Typed, Pending
      <3>3. /\ DOMAIN receipts' = DOMAIN receipts \cup {P}
            /\ receipts'[P] = publication.at
            /\ \A r \in DOMAIN receipts : r # P => receipts'[r] = receipts[r]
        BY <3>1 DEF Write
      <3> QED
        BY <3>1, <3>2, <3>3
    <2> QED
      BY <2>1, <2>2
  <1>8. CASE CommitPublication
    <2>1. UNCHANGED <<receipts, published>>
      BY <1>8 DEF CommitPublication
    <2>2. /\ firstPublished' = Write(firstPublished, subject, now)
          /\ subject \notin DOMAIN firstPublished
      BY <1>8, CommitsAreNew DEF CommitPublication
    <2>3. \A r \in DOMAIN firstPublished :
             r \in DOMAIN firstPublished' /\ firstPublished'[r] = firstPublished[r]
      BY <2>2 DEF Write
    <2> QED
      BY <2>1, <2>3
  <1>9. CASE WriteReceipt
    <2>1. /\ receipts' = Write(receipts, subject, IF previous = subject THEN now ELSE NoTime)
          /\ UNCHANGED <<published, firstPublished>>
      BY <1>9 DEF WriteReceipt
    <2>2. /\ DOMAIN receipts' = DOMAIN receipts \cup {subject}
          /\ receipts'[subject] = IF previous = subject THEN now ELSE NoTime
          /\ \A r \in DOMAIN receipts : r # subject => receipts'[r] = receipts[r]
      BY <2>1 DEF Write
    <2>3. previous = subject => subject \in DOMAIN firstPublished /\ firstPublished[subject] = now
      <3>1. subject # NoResult
        BY <1>9, NamesAreNotZero DEF WriteReceipt, Typed, Pending, AcceptPCs
      <3>2. pc = "receipt" /\ previous = P
        BY <1>9 DEF WriteReceipt, Linked
      <3>3. previous = subject => publication # NoPublication /\ publication.at = now
        BY <3>1, <3>2, NamesAreNotZero DEF Linked
      <3> QED
        BY <3>2, <3>3 DEF Latest
    <2> QED
      BY <2>1, <2>2, <2>3
  <1>10. CASE Report
    <2>1. published' = {[result |-> r, at |-> receipts[r]] :
                            r \in {q \in DOMAIN receipts : receipts[q] # NoTime}}
      BY <1>10 DEF Report
    <2>2. UNCHANGED <<receipts, firstPublished>>
      BY <1>10 DEF Report
    <2> QED
      BY <2>1, <2>2
  <1> QED
    BY <1>1, <1>2, <1>3, <1>4, <1>5, <1>6, <1>7, <1>8, <1>9, <1>10
    DEF Next, CloudStep, Start, Prune, Accept, Publish, Fault, Environment

\* The names retention protects cover what acceptance needs, also for results that
\* reach results/ after the names were read.
LEMMA SafeguardedStep ==
    ASSUME Typed, Linked, Safeguarded, [Next]_vars
    PROVE  Safeguarded'
  <1> USE DEF Safeguarded, EvidenceKept, InNeed, P, NoPublication, NoResult, NoTime,
     fileVars, dirVars, runVars, auxVars, cloudVars
  <1>1. CASE \/ StartCycle \/ StartAcceptOnly \/ PruneBlocked \/ PruneResultsDone
               \/ PruneDone \/ Deliver \/ Acknowledge \/ (Tick /\ UNCHANGED cloudVars)
               \/ UNCHANGED vars
    BY <1>1
    DEF StartCycle, StartAcceptOnly, PruneBlocked, PruneResultsDone, PruneDone, Deliver,
       Acknowledge, Tick, vars, PrunePCs, AcceptPCs
  <1>2. CASE \/ PruneResult \/ UnlinkDetail \/ UnlinkReceipt
    BY <1>2
    DEF PruneResult, UnlinkDetail, UnlinkReceipt, PrunePCs, AcceptPCs
  <1>3. CASE \/ PointInput \/ PublishFails \/ PruneFails \/ AcceptFails
               \/ Crash \/ Report
    BY <1>3
    DEF PointInput, Stop, PublishFails, PruneFails, Fail, AcceptFails, Crash, Report,
       PrunePCs, AcceptPCs
  <1>4. CASE \/ ListInbox \/ RecoverReceipt \/ RecoverPointer \/ RecoverDetail
    BY <1>4
    DEF ListInbox, RecoverReceipt, RecoverPointer, RecoverDetail, PrunePCs, AcceptPCs
  <1>5. CASE \/ WriteDetail \/ WritePointer \/ WriteReceipt \/ ClearInbox
    BY <1>5
    DEF WriteDetail, WritePointer, WriteReceipt, ClearInbox, PrunePCs, AcceptPCs, Linked
  <1>6. CASE \/ (\E f \in files : SkipDuplicate(f)) \/ (\E f \in files : Reject(f))
    BY <1>6
    DEF SkipDuplicate, Reject, PrunePCs, AcceptPCs, Linked
  <1>7. CASE PruneBegin
    <2>1. /\ protected'.inputs = InputsInUse
          /\ pc' = "pruneResults"
          /\ UNCHANGED <<made, results, currentResult, publication, inputs, inbox, files>>
      BY <1>7 DEF PruneBegin
    <2>2. \A r \in InNeed : made[r].input \in InputsInUse
      BY DEF InputsInUse, Current
    <2> QED
      BY <2>1, <2>2 DEF AcceptPCs
  <1>8. CASE UnlinkResult
    <2>1. DOMAIN results' \subseteq DOMAIN results
      BY <1>8 DEF UnlinkResult, Unlink
    <2>2. /\ pc = "unlinkResult" /\ pc' = "pruneResults"
          /\ UNCHANGED <<made, protected, currentResult, publication, inputs, inbox, files>>
      BY <1>8 DEF UnlinkResult
    <2> QED
      BY <2>1, <2>2 DEF PrunePCs, AcceptPCs
  <1>9. CASE PruneInput
    BY <1>9
    DEF PruneInput, PrunePCs, AcceptPCs, PrunableInputs
  <1>10. CASE UnlinkInput
    <2>1. DOMAIN inputs' = DOMAIN inputs \ {subject}
      BY <1>10 DEF UnlinkInput, Unlink
    <2>2. /\ pc = "unlinkInput" /\ pc' = "pruneInputs"
          /\ UNCHANGED <<made, protected, currentResult, publication, results, inbox, files>>
      BY <1>10 DEF UnlinkInput
    <2> QED
      BY <2>1, <2>2 DEF PrunePCs, AcceptPCs
  <1>11. CASE \E f \in files : StoreResult(f)
    <2>1. PICK f \in files : StoreResult(f)
      BY <1>11
    <2>2. /\ pc = "scan" /\ pc' \in {"scan", "commit", "receipt"}
          /\ pc' # "scan" => subject' = f
          /\ UNCHANGED <<made, currentResult, publication, inputs, inbox>>
          /\ files' \subseteq files
      BY <2>1 DEF StoreResult
    <2>3. DOMAIN results' = DOMAIN results \cup {f}
      BY <2>1 DEF StoreResult, Write
    <2>4. made[f].input \in DOMAIN inputs
      BY <2>1 DEF StoreResult, Acceptable
    <2> QED
      BY <2>2, <2>3, <2>4 DEF PrunePCs, AcceptPCs
  <1>12. CASE CommitPublication
    BY <1>12
    DEF CommitPublication, PrunePCs, AcceptPCs
  <1>13. CASE PublishInput
    <2>1. DOMAIN inputs \subseteq DOMAIN inputs'
      BY <1>13 DEF PublishInput, Write
    <2>2. /\ pc' = "point"
          /\ UNCHANGED <<made, currentResult, publication, results, inbox, files>>
      BY <1>13 DEF PublishInput
    <2> QED
      BY <2>1, <2>2 DEF PrunePCs, AcceptPCs
  <1>14. CASE Sign
    <2>1. \A q \in DOMAIN made : made'[q] = made[q]
      BY <1>14 DEF Sign, Write
    <2>2. UNCHANGED <<currentResult, publication, results, inputs, inbox, files, pc, subject,
                      protected>>
      BY <1>14 DEF Sign
    <2>3. InNeed \subseteq DOMAIN made
      BY NamesAreNotZero DEF Typed, TypeOK, DirsTypeOK, IsDirectory
    <2> QED
      BY <2>1, <2>2, <2>3
  <1> QED
    BY <1>1, <1>2, <1>3, <1>4, <1>5, <1>6, <1>7, <1>8, <1>9, <1>10, <1>11, <1>12, <1>13, <1>14
    DEF Next, CloudStep, Start, Prune, Accept, Publish, Fault, Environment

\* The invariant holds of an empty store.
LEMMA SafeInit == Init => Safe
  BY DEF Init, FilesInit, CloudInit, Safe, Linked, Later, Latest, FirstTimesKept, Safeguarded,
         EvidenceKept, InNeed, P, NoFiles, NoPublication, NoResult, NoTime, AcceptPCs, PrunePCs

\* The invariant is inductive, with the types.
LEMMA SafeStep == RepairsFinish /\ Typed /\ Safe /\ [Next]_vars => Safe'
  BY LinkedStep, LaterStep, LatestStep, FirstTimesStep, SafeguardedStep DEF Safe

\* The inductive invariant of acceptance and retention, where repairs finish: the
\* files a run leaves behind always admit a correct next run.
THEOREM SafeAlways ==
    ASSUME RepairsFinish
    PROVE  Spec => [](Typed /\ Safe)
  <1>1. Init => Typed /\ Safe
    BY TypesInit, SafeInit
  <1>2. Typed /\ Safe /\ [Next]_vars => (Typed /\ Safe)'
    BY TypesStep, SafeStep
  <1> QED
    BY <1>1, <1>2, PTL DEF Spec

-----------------------------------------------------------------------------
(* What the runs check on small instances. *)

\* A publication time, in a receipt or in the report the worker reads, is the
\* time of the first commit and no other (pipeline.py, accept_results).
THEOREM FirstTimesFinal ==
    ASSUME RepairsFinish
    PROVE  Spec => []FirstTimesKept
  <1>1. Typed /\ Safe => FirstTimesKept
    BY DEF Safe
  <1> QED
    BY <1>1, SafeAlways, PTL

\* Retention never removes an input the next acceptance has to load, whatever is
\* acknowledged, delivered or interrupted while it works (retention.py).
THEOREM EvidenceStays ==
    ASSUME RepairsFinish
    PROVE  Spec => []EvidenceKept
  <1>1. Typed /\ Safe => EvidenceKept
    BY DEF Safe, Safeguarded
  <1> QED
    BY <1>1, SafeAlways, PTL

-----------------------------------------------------------------------------
(* publication.json implements the log. *)

\* Every step but the commit leaves what is served alone.
LEMMA OnlyCommits ==
    ASSUME [Next]_vars, ~CommitPublication
    PROVE  /\ UNCHANGED <<publication, firstPublished>>
           /\ \A q \in DOMAIN made : q \in DOMAIN made' /\ made'[q] = made[q]
           /\ \A c \in DOMAIN inputs : c \in DOMAIN inputs' => inputs'[c] = inputs[c]
  <1> USE DEF fileVars, dirVars, runVars, auxVars, cloudVars
  <1>1. CASE \/ StartCycle \/ StartAcceptOnly \/ PruneBlocked \/ PruneBegin
               \/ PruneResult \/ UnlinkDetail \/ UnlinkReceipt \/ UnlinkResult
               \/ PruneResultsDone \/ PruneInput \/ PruneDone
    BY <1>1
    DEF StartCycle, StartAcceptOnly, PruneBlocked, PruneBegin, PruneResult, UnlinkDetail,
       UnlinkReceipt, UnlinkResult, PruneResultsDone, PruneInput, PruneDone
  <1>2. CASE \/ ListInbox \/ RecoverReceipt \/ RecoverPointer \/ RecoverDetail
               \/ (\E f \in files : SkipDuplicate(f) \/ Reject(f) \/ StoreResult(f))
               \/ WriteDetail \/ WritePointer \/ WriteReceipt \/ ClearInbox \/ Report
    BY <1>2
    DEF ListInbox, RecoverReceipt, RecoverPointer, RecoverDetail, SkipDuplicate, Reject,
       StoreResult, WriteDetail, WritePointer, WriteReceipt, ClearInbox, Report, Stop
  <1>3. CASE \/ PointInput \/ PublishFails \/ PruneFails \/ AcceptFails
               \/ Crash \/ Deliver \/ Acknowledge \/ (Tick /\ UNCHANGED cloudVars)
               \/ UNCHANGED vars
    BY <1>3
    DEF PointInput, Stop, PublishFails, PruneFails, Fail, AcceptFails, Crash, Deliver,
       Acknowledge, Tick, vars
  <1>4. CASE CommitPublication
    BY <1>4
  <1>5. CASE UnlinkInput
    BY <1>5 DEF UnlinkInput, Unlink
  <1>6. CASE PublishInput
    BY <1>6 DEF PublishInput, Write
  <1>7. CASE Sign
    BY <1>7 DEF Sign, Write
  <1> QED
    BY <1>1, <1>2, <1>3, <1>4, <1>5, <1>6, <1>7
    DEF Next, CloudStep, Start, Prune, Accept, Publish, Fault, Environment

\* After the repair of a crash, the comparison with the next result starts from
\* the published one (pipeline.py, accept_results).
THEOREM RepairRestores ==
    ASSUME RepairsFinish
    PROVE  Spec => RepairRestoresPointer
  <1>1. Safe /\ Safe' /\ [Next]_vars =>
           [pc = "recoverDetail" /\ pc' = "scan" => previous' = publication.result]_vars
    <2> SUFFICES ASSUME Safe', [Next]_vars, pc = "recoverDetail", pc' = "scan"
                 PROVE  previous' = publication.result
      OBVIOUS
    <2>1. ~CommitPublication
      BY DEF CommitPublication
    <2> QED
      BY <2>1, OnlyCommits DEF Safe, Linked, P
  <1> QED
    BY <1>1, SafeAlways, PTL DEF Spec, RepairRestoresPointer

\* The results `publication` names and their evidence, in the form the log is about.
LEMMA LogInit == Init => Log!Init
  BY DEF Init, FilesInit, CloudInit, Log!Init, Log!None, Served, NoPublication, NoFiles, NoTime

\* A step of the cloud publishes one new result or leaves the log alone.
LEMMA LogStep ==
    ASSUME Typed, Safe, Typed', Safe', [Next]_vars
    PROVE  [Log!Next]_<<Served, firstPublished>>
  <1> USE DEF Safe
  <1>1. CASE ~CommitPublication
    <2>1. /\ UNCHANGED <<publication, firstPublished>>
          /\ \A q \in DOMAIN made : q \in DOMAIN made' /\ made'[q] = made[q]
          /\ \A c \in DOMAIN inputs : c \in DOMAIN inputs' => inputs'[c] = inputs[c]
      BY <1>1, OnlyCommits
    <2>2. CASE publication = NoPublication
      BY <2>1, <2>2 DEF Served, NoPublication
    <2>3. CASE publication # NoPublication
      <3>1. P \in DOMAIN made /\ P # NoResult
        BY <2>3, NamesAreNotZero
      <3>2. made[P].input \in DOMAIN inputs /\ made'[P'].input \in DOMAIN inputs'
        BY <2>1, <3>1 DEF Safeguarded, EvidenceKept, P, NoResult
      <3> QED
        BY <2>1, <2>3, <3>1, <3>2 DEF Served, P, NoPublication, NoResult, NoTime
    <2> QED
      BY <2>2, <2>3
  <1>2. CASE CommitPublication
    <2>1. /\ pc = "commit" /\ publication' = [result |-> subject, at |-> now]
          /\ made' = made /\ inputs' = inputs /\ currentResult' = currentResult
      BY <1>2 DEF CommitPublication, fileVars
    <2>2. subject \in DOMAIN made /\ subject \in ResultIds /\ subject # 0
      BY <2>1, NamesAssumption DEF Typed, TypeOK, FilesTypeOK, Pending, AcceptPCs, IsDirectory
    <2>3. made[subject].input \in DOMAIN inputs
      BY <2>1 DEF Safeguarded, EvidenceKept, AcceptPCs
    <2>4. Served' = [result |-> subject, gen |-> made[subject].gen,
                     basis |-> inputs[made[subject].input]]
      BY <2>1, <2>2, <2>3 DEF Served, NoPublication, NoResult
    <2>5. Served # Log!None =>
             made[subject].gen > Served.gen /\ inputs[made[subject].input] >= Served.basis
      <3> SUFFICES ASSUME publication # NoPublication
                   PROVE  /\ made[subject].gen > Served.gen
                          /\ inputs[made[subject].input] >= Served.basis
        BY DEF Served, Log!None
      <3>1. /\ made[subject].gen > made[P].gen
            /\ inputs[made[subject].input] >= inputs[made[P].input]
        BY <2>1 DEF Later
      <3>2. made[P].input \in DOMAIN inputs
        BY NamesAreNotZero DEF Safeguarded, EvidenceKept, P, NoResult
      <3>3. Served.gen = made[P].gen /\ Served.basis = inputs[made[P].input]
        BY <3>2 DEF Served, P
      <3> QED
        BY <3>1, <3>3
    <2>6. subject \notin DOMAIN firstPublished
      BY <2>1, CommitsAreNew
    <2>7. firstPublished' = [q \in DOMAIN firstPublished \cup {subject} |->
                               IF q = subject THEN firstPublished'[subject] ELSE firstPublished[q]]
      BY <1>2, <2>6 DEF CommitPublication, Write
    <2>8. Log!Publish(subject, made[subject].gen, inputs[made[subject].input],
                      firstPublished'[subject])
      BY <2>4, <2>5, <2>6, <2>7 DEF Log!Publish
    <2> QED
      BY <2>2, <2>4, <2>8 DEF Log!Next
  <1> QED
    BY <1>1, <1>2

\* A result is published once, at one time, and replaced only by a later one of
\* facts no older, through crashes, repairs, duplicates and pruning.
THEOREM PublishedInOrder ==
    ASSUME RepairsFinish
    PROVE  Spec => ImplementsLog
  <1>1. Typed /\ Safe /\ (Typed /\ Safe)' /\ [Next]_vars => [Log!Next]_<<Served, firstPublished>>
    BY LogStep
  <1> QED
    BY <1>1, LogInit, SafeAlways, PTL DEF Spec, ImplementsLog, Log!Spec

-----------------------------------------------------------------------------
(* Retention, whatever fails. *)

\* What prune_acknowledged is about to remove is recorded, and the advice of the
\* current result is among the names it must not touch.
Recording ==
    /\ pc \in {"unlinkDetail", "unlinkReceipt", "unlinkResult"} =>
         <<"result", subject>> \in retention
    /\ pc = "unlinkInput" => <<"input", subject>> \in retention

Sharing ==
    pc \in PrunePCs \ {"prune"} /\ currentResult # NoResult =>
        Advice(currentResult) \in protected.advice

\* A removal under way has its record, and shared details stay protected.
LEMMA RetentionStep ==
    ASSUME Typed, Recording, Sharing, [Next]_vars
    PROVE  (Recording /\ Sharing)'
  <1> USE DEF Recording, Sharing, Advice, PrunePCs, AcceptPCs, NoResult, NoTime, fileVars,
     dirVars, runVars, auxVars, cloudVars
  <1>1. CASE \/ StartCycle \/ StartAcceptOnly \/ PruneBlocked \/ UnlinkDetail
               \/ UnlinkReceipt \/ UnlinkResult \/ PruneResultsDone \/ UnlinkInput
               \/ PruneDone
    BY <1>1
    DEF StartCycle, StartAcceptOnly, PruneBlocked, UnlinkDetail, UnlinkReceipt,
       UnlinkResult, PruneResultsDone, UnlinkInput, PruneDone
  <1>2. CASE \/ ListInbox \/ RecoverReceipt \/ RecoverPointer \/ RecoverDetail
               \/ (\E f \in files : SkipDuplicate(f) \/ Reject(f)) \/ WriteDetail \/ WritePointer
               \/ WriteReceipt \/ ClearInbox \/ Report
    BY <1>2
    DEF ListInbox, RecoverReceipt, RecoverPointer, RecoverDetail, SkipDuplicate, Reject,
       WriteDetail, WritePointer, WriteReceipt, ClearInbox, Report, Stop
  <1>3. CASE \/ CommitPublication \/ PublishInput \/ PointInput \/ PublishFails
               \/ PruneFails \/ AcceptFails \/ Crash \/ Deliver
               \/ Acknowledge \/ (Tick /\ UNCHANGED cloudVars) \/ UNCHANGED vars
    BY <1>3
    DEF CommitPublication, PublishInput, PointInput, Stop, PublishFails, PruneFails, Fail,
       AcceptFails, Crash, Deliver, Acknowledge, Tick, vars
  <1>4. CASE \E f \in files : StoreResult(f)
    <2>1. pc' \in {"scan", "commit", "receipt"}
      BY <1>4 DEF StoreResult
    <2> QED
      BY <2>1
  <1>5. CASE PruneBegin
    BY <1>5
    DEF PruneBegin, AdviceInUse, Current
  <1>6. CASE PruneResult
    <2>1. PICK r \in PrunableResults : subject' = r /\ retention' = Recorded("result", r)
      BY <1>6 DEF PruneResult
    <2>2. /\ UNCHANGED <<made, currentResult, protected>>
          /\ pc = "pruneResults" /\ pc' = "unlinkDetail"
      BY <1>6 DEF PruneResult
    <2> QED
      BY <2>1, <2>2 DEF Recorded
  <1>7. CASE PruneInput
    <2>1. PICK e \in PrunableInputs :
             \/ /\ subject' = e.input /\ pc' = "unlinkInput"
                /\ retention' = Recorded("input", e.input)
             \/ pc' = "accept"
      BY <1>7 DEF PruneInput
    <2>2. UNCHANGED <<made, currentResult, protected>> /\ pc = "pruneInputs"
      BY <1>7 DEF PruneInput
    <2> QED
      BY <2>1, <2>2 DEF Recorded
  <1>8. CASE Sign
    <2>1. currentResult # NoResult => made'[currentResult] = made[currentResult]
      BY <1>8 DEF Sign, Write, Typed, TypeOK, DirsTypeOK, NoResult
    <2>2. UNCHANGED <<currentResult, pc, subject, retention, protected>>
      BY <1>8 DEF Sign
    <2> QED
      BY <2>1, <2>2
  <1> QED
    BY <1>1, <1>2, <1>3, <1>4, <1>5, <1>6, <1>7, <1>8
    DEF Next, CloudStep, Start, Prune, Accept, Publish, Fault, Environment

\* The file operations that remove something, and what they remove.
LEMMA Removals ==
    ASSUME [Next]_vars
    PROVE  /\ DOMAIN results \ DOMAIN results' \subseteq
                 IF pc = "unlinkResult" THEN {subject} ELSE {}
           /\ DOMAIN inputs \ DOMAIN inputs' \subseteq
                 IF pc = "unlinkInput" THEN {subject} ELSE {}
           /\ \A a \in DOMAIN details \ DOMAIN details' :
                 pc = "unlinkDetail" /\ a \notin protected.advice
  <1> USE DEF fileVars, dirVars, runVars, auxVars, cloudVars
  <1>1. CASE \/ StartCycle \/ StartAcceptOnly \/ PruneBlocked \/ PruneBegin
               \/ PruneResult \/ UnlinkReceipt \/ PruneResultsDone \/ PruneInput
               \/ PruneDone
    BY <1>1
    DEF StartCycle, StartAcceptOnly, PruneBlocked, PruneBegin, PruneResult, UnlinkReceipt,
       PruneResultsDone, PruneInput, PruneDone
  <1>2. CASE \/ ListInbox \/ RecoverReceipt \/ RecoverPointer \/ (\E f \in files : SkipDuplicate(f))
               \/ (\E f \in files : Reject(f)) \/ WritePointer \/ WriteReceipt \/ ClearInbox
               \/ Report
    BY <1>2
    DEF ListInbox, RecoverReceipt, RecoverPointer, SkipDuplicate, Reject, WritePointer,
       WriteReceipt, ClearInbox, Report, Stop
  <1>3. CASE \/ CommitPublication \/ PointInput \/ PublishFails \/ PruneFails
               \/ AcceptFails \/ Crash \/ Sign \/ Deliver
               \/ Acknowledge \/ (Tick /\ UNCHANGED cloudVars) \/ UNCHANGED vars
    BY <1>3
    DEF CommitPublication, PointInput, Stop, PublishFails, PruneFails, Fail, AcceptFails,
       Crash, Sign, Deliver, Acknowledge, Tick, vars
  <1>4. CASE UnlinkDetail
    BY <1>4 DEF UnlinkDetail, Unlink
  <1>5. CASE UnlinkResult
    BY <1>5
    DEF UnlinkResult, Unlink
  <1>6. CASE UnlinkInput
    BY <1>6
    DEF UnlinkInput, Unlink
  <1>7. CASE \/ RecoverDetail \/ WriteDetail
    BY <1>7
    DEF RecoverDetail, WriteDetail, WithDetail, Write
  <1>8. CASE \E f \in files : StoreResult(f)
    BY <1>8
    DEF StoreResult, Write
  <1>9. CASE PublishInput
    BY <1>9
    DEF PublishInput, Write
  <1> QED
    BY <1>1, <1>2, <1>3, <1>4, <1>5, <1>6, <1>7, <1>8, <1>9
    DEF Next, CloudStep, Start, Prune, Accept, Publish, Fault, Environment

\* Both hold of every run.
LEMMA RetentionAlways == Spec => [](Typed /\ Recording /\ Sharing)
  <1>1. Init => Typed /\ Recording /\ Sharing
    BY TypesInit DEF Init, CloudInit, Recording, Sharing, PrunePCs
  <1>2. Typed /\ Recording /\ Sharing /\ [Next]_vars => (Typed /\ Recording /\ Sharing)'
    BY TypesStep, RetentionStep
  <1> QED
    BY <1>1, <1>2, PTL DEF Spec

\* No file leaves results/ or inputs/ before retention/ says so (retention.py).
THEOREM RemovalsRecorded == Spec => RemovalRecorded
  <1>1. Recording /\ [Next]_vars =>
          [/\ \A r \in DOMAIN results \ DOMAIN results' : <<"result", r>> \in retention
           /\ \A c \in DOMAIN inputs \ DOMAIN inputs' : <<"input", c>> \in retention]_vars
    BY Removals DEF Recording
  <1> QED
    BY <1>1, RetentionAlways, PTL DEF Spec, RemovalRecorded

\* Removing an old result takes no detail the current one lists (retention.py).
THEOREM CurrentDetailStays == Spec => CurrentDetailKept
  <1>1. Sharing /\ [Next]_vars =>
          [\A a \in DOMAIN details \ DOMAIN details' :
              currentResult # NoResult => a # Advice(currentResult)]_vars
    BY Removals DEF Sharing, PrunePCs
  <1> QED
    BY <1>1, RetentionAlways, PTL DEF Spec, CurrentDetailKept

-----------------------------------------------------------------------------
(* What is served can be opened. *)

\* From the repair, or the detail written with a publication, to the end of the run
\* the detail of the published result is there.
Opened ==
    /\ pc \in {"scan", "commit", "pointer", "receipt", "clear", "collect", "point"}
         /\ publication # NoPublication => Advice(P) \in DOMAIN details
    /\ pc = "detail" => subject = P

\* Nothing is removed between the repair and the end of the run, and a result that is
\* committed brings its detail before the next is looked at.
LEMMA OpenedStep ==
    ASSUME "accept_io" \notin Faults, Typed, Opened, [Next]_vars
    PROVE  Opened'
  <1> USE DEF Opened, Advice, P, fileVars, dirVars, runVars, auxVars, cloudVars
  <1>1. CASE \/ StartCycle \/ StartAcceptOnly \/ PruneBlocked \/ PruneBegin \/ PruneResult
               \/ UnlinkDetail \/ UnlinkReceipt \/ UnlinkResult \/ PruneResultsDone
               \/ PruneInput \/ UnlinkInput \/ PruneDone \/ PruneFails
    BY <1>1
    DEF StartCycle, StartAcceptOnly, PruneBlocked, PruneBegin, PruneResult, UnlinkDetail,
       UnlinkReceipt, UnlinkResult, PruneResultsDone, PruneInput, UnlinkInput, PruneDone, PruneFails
  <1>2. CASE \/ ListInbox \/ RecoverReceipt \/ RecoverPointer
    BY <1>2 DEF ListInbox, RecoverReceipt, RecoverPointer
  <1>3. CASE RecoverDetail \/ WriteDetail
    <2>1. CASE RecoverDetail
      BY <2>1 DEF RecoverDetail, WithDetail, Write
    <2>2. CASE WriteDetail
      BY <2>2 DEF WriteDetail, WithDetail, Write
    <2> QED
      BY <1>3, <2>1, <2>2
  <1>4. CASE \E f \in files : SkipDuplicate(f) \/ Reject(f) \/ StoreResult(f)
    BY <1>4 DEF SkipDuplicate, Reject, StoreResult
  <1>5. CASE \/ CommitPublication \/ WritePointer \/ WriteReceipt \/ ClearInbox \/ Report
    BY <1>5 DEF CommitPublication, WritePointer, WriteReceipt, ClearInbox, Report, Stop
  <1>6. CASE \/ PublishInput \/ PointInput \/ PublishFails \/ Crash \/ Deliver
             \/ Acknowledge \/ (Tick /\ UNCHANGED cloudVars) \/ UNCHANGED vars
    BY <1>6
    DEF PublishInput, PointInput, PublishFails, Crash, Stop, Deliver, Acknowledge, Tick, vars
  <1>7. CASE AcceptFails
    BY <1>7 DEF AcceptFails, Fail
  <1>8. CASE Sign
    <2>1. publication # NoPublication => made'[P] = made[P]
      BY <1>8 DEF Sign, Write, Typed, TypeOK, DirsTypeOK
    <2>2. UNCHANGED <<publication, pc, subject, details>>
      BY <1>8 DEF Sign
    <2> QED
      BY <2>1, <2>2
  <1> QED
    BY <1>1, <1>2, <1>3, <1>4, <1>5, <1>6, <1>7, <1>8
    DEF Next, CloudStep, Start, Prune, Accept, Publish, Fault, Environment

\* When a run has repaired or published, the advice the API lists can be opened,
\* unless an I/O error during the acceptance is passed over (pipeline.py, accept_results).
THEOREM DetailServed ==
    ASSUME "accept_io" \notin Faults
    PROVE  Spec => []ServedDetailExists
  <1>1. Init => Opened
    BY DEF Init, CloudInit, Opened
  <1>2. Typed /\ Opened /\ [Next]_vars => Opened'
    BY OpenedStep
  <1>3. Opened => ServedDetailExists
    BY DEF Opened, P, ServedDetailExists
  <1> QED
    BY TypesInit, TypesStep, <1>1, <1>2, <1>3, PTL DEF Spec
=============================================================================
