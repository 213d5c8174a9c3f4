--------------------------- MODULE DecisionExchange ---------------------------
(***************************************************************************)
(* The decision workflow: the cloud (DecisionCloud) and the worker         *)
(* (DecisionWorker) over the files they exchange.  The environment the     *)
(* cloud was checked against is replaced by the real worker, and the       *)
(* composition is shown to stay within it (CloudSpec): what holds of the   *)
(* cloud with any worker holds here.                                       *)
(***************************************************************************)
EXTENDS DecisionCloud, DecisionWorker

exchangeVars == <<fileVars, cloudVars, workerVars>>

ExchangeInit == FilesInit /\ CloudInit /\ WorkerInit

ExchangeNext ==
    \/ CloudStep /\ UNCHANGED workerVars
    \/ WorkerStep /\ UNCHANGED cloudVars
    \/ Tick /\ UNCHANGED <<cloudVars, workerVars>>

ExchangeSpec == ExchangeInit /\ [][ExchangeNext]_exchangeVars

-----------------------------------------------------------------------------
(* Correctness. *)

\* The worker is one of the workers the cloud was checked against.
CloudSpec == Spec

\* Every publication the cloud reports can be registered: ledger.register
\* refuses one that predates its result, and a refused one ends every run of
\* the worker for as long as the receipt is reported.
Registrable == \A p \in published : made[p.result].gen <= p.at

TimelyPublications(o) ==
    {r \in DOMAIN firstPublished :
        /\ Opportunity[made[r].input] = o
        /\ firstPublished[r] < Deadline[made[r].input]}

\* The observation of an opportunity is a publication that was made, before the
\* window it forecasts, and the first such one: neither a crash, nor the order
\* receipts reach the NAS in, nor pruning lets a later one take its place.
FirstObservationKept ==
    \A o \in DOMAIN ledger :
        /\ ledger[o].result \in TimelyPublications(o)
        /\ ledger[o].at = firstPublished[ledger[o].result]
        /\ \A r \in TimelyPublications(o) : ledger[o].at <= firstPublished[r]

\* Retention cannot overtake observation: once the receipt of a publication is
\* gone, so that it will never be reported again, its opportunity is registered.
PrunedIsObserved ==
    \A r \in DOMAIN firstPublished :
        \/ r \in DOMAIN receipts
        \/ r = publication.result
        \/ firstPublished[r] >= Deadline[made[r].input]
        \/ Opportunity[made[r].input] \in DOMAIN ledger

\* The facts behind every result are on one of the two machines.
FactsKept == \A s \in signed : s.input \in DOMAIN inputs \cup DOMAIN nasInputs

-----------------------------------------------------------------------------
(* Fairness: both timers fire every five minutes, and failures are finitely  *)
(* many.                                                                     *)

ExchangeFairness ==
    /\ WF_exchangeVars((StartCycle \/ Prune \/ Accept \/ Publish) /\ UNCHANGED workerVars)
    /\ WF_exchangeVars(WorkerRun /\ UNCHANGED cloudVars)

\* The result the worker stands by reaches the cloud, whatever transfer or run
\* failed on the way, unless the worker replaces it first.
ResultReceived ==
    \A r \in ResultIds :
        nasPrevious = r ~> (r \in DOMAIN receipts \/ nasPrevious # r)

\* What the cloud publishes in time the worker observes.
PublicationObserved ==
    \A o \in {Opportunity[c] : c \in Contents} :
        TimelyPublications(o) # {} ~> o \in DOMAIN ledger
=============================================================================
