--------------------------- MODULE MCDecisionCloud ---------------------------
(***************************************************************************)
(* Instances of DecisionCloud for TLC.                                     *)
(***************************************************************************)
EXTENDS DecisionCloud

\* The acceptance alone: without acknowledgements nothing is ever removed.  The
\* worker's clock agrees with the cloud's, and time passes between runs.
AcceptNext ==
    /\ \/ CloudStep
       \/ Sign
       \/ Deliver
       \/ Tick /\ UNCHANGED cloudVars
    /\ \A r \in DOMAIN made' \ DOMAIN made : made'[r].gen = clock
    /\ clock' # clock => pc = "idle"

\* Every result is sound, and is signed while no run is under way.
QuietNext ==
    /\ AcceptNext
    /\ made' # made => pc = "idle"
    /\ \A r \in DOMAIN made' : made'[r].sound

QuietSpec == Init /\ [][QuietNext]_vars

\* Retention: the worker acknowledges all it holds, and acts between runs; the
\* clock is stopped while a run goes on, every run is a cloud-cycle and
\* every result is computed from the current input.  An acknowledgement is sent
\* once something can have aged, and a crash falls in the pruning or acceptance.
RetainNext ==
    /\ CloudStep \/ (pc = "idle" /\ Environment)
    /\ mode' = "cycle"
    /\ faults' # faults => pc \in PrunePCs \cup {"recover"} \cup AcceptPCs
    /\ ack' # ack => clock > Retention + 1
    /\ ack' # ack => ack' = [at |-> clock, results |-> DOMAIN made, inputs |-> signed]
    /\ \A r \in DOMAIN made' : made'[r].sound
    /\ \A r \in DOMAIN made' \ DOMAIN made : 
        made'[r].input = currentInput.input /\ made'[r].gen = clock

RetainSpec == Init /\ [][RetainNext]_vars

AcceptSpec == Init /\ [][AcceptNext]_vars
=============================================================================
