-------------------------- MODULE MCDecisionExchange --------------------------
(***************************************************************************)
(* Instances of DecisionExchange for TLC.                                  *)
(***************************************************************************)
EXTENDS DecisionExchange

SameHour == [c \in Contents |-> 1]
NextHours == [c \in Contents |-> c]
DueAt4 == [c \in Contents |-> 4]
DueAt2 == [c \in Contents |-> 2]

\* Time passes while neither machine runs, the cloud runs cloud-cycle, which does
\* all accept-only does, and one of the machines fails, once; the cloud fails a
\* second time in the repair of the first.
BoundedNext ==
    /\ ExchangeNext
    /\ clock' # clock => pc = "idle" /\ wpc = "idle"
    /\ mode' = "cycle"
    /\ \/ faults' + wfaults' <= 1
       \/ wfaults' = 0 /\ pc = "recoverPointer"
       \/ UNCHANGED <<faults, wfaults>>

BoundedSpec == ExchangeInit /\ [][BoundedNext]_exchangeVars

\* The facts of an hour are collected after those of the hour before.
HourlyNext ==
    /\ BoundedNext
    /\ pc' = "point" => currentInput.input <= subject' /\ subject' <= currentInput.input + 1

HourlySpec == ExchangeInit /\ [][HourlyNext]_exchangeVars

\* A new result is made when it must be, so that the names do not run out.
LiveNext ==
    /\ BoundedNext
    /\ made' # made => ~(SameInput /\ nasForward = DOMAIN ledger)

ExchangeLiveSpec == ExchangeInit /\ [][LiveNext]_exchangeVars /\ ExchangeFairness
=============================================================================
