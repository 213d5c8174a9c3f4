---------------------------- MODULE MCDatasetStore ----------------------------
(***************************************************************************)
(* Instances for TLC of DatasetStore, where jobs and keys are              *)
(* interchangeable, and of MarketRollup, the hourly job over one of the    *)
(* datasets: a behaviour is about one of them.                             *)
(***************************************************************************)
EXTENDS DatasetStore, MarketRollup, TLC

VARIABLE use    \* what is done to this dataset, for good

Symmetry == Permutations(Jobs) \cup Permutations(Keys)

Plain == Operations \ (ReadFirst \cup {"repair"})

\* Every operation after every other, with a reader at work, or with a failure and a
\* death; appends with a reader and one of the two, rewrites with all three; a repair,
\* which only an append calls for; those that read first, which a rewrite overtakes; a
\* rewrite of what another rewrite and an append have left, with a reader; a longer
\* history of rewrites, or two failures of one.  A reader that is not at work reads what
\* is left.
Uses ==
    {[ops |-> Plain, writes |-> 2, faults |-> 0, deaths |-> 0, reads |-> TRUE],
     [ops |-> Appends, writes |-> 2, faults |-> 1, deaths |-> 0, reads |-> TRUE],
     [ops |-> Appends, writes |-> 2, faults |-> 0, deaths |-> 1, reads |-> TRUE],
     [ops |-> Plain \ Appends, writes |-> 2, faults |-> 1, deaths |-> 1, reads |-> TRUE],
     [ops |-> Plain, writes |-> 2, faults |-> 1, deaths |-> 1, reads |-> FALSE],
     [ops |-> {"append", "repair"}, writes |-> 2, faults |-> 1, deaths |-> 1, reads |-> TRUE],
     [ops |-> {"upsert", "compact"} \cup ReadFirst,
      writes |-> 2, faults |-> 0, deaths |-> 1, reads |-> TRUE],
     [ops |-> {"append", "replace"}, writes |-> 3, faults |-> 0, deaths |-> 0, reads |-> TRUE],
     [ops |-> Rewrites \ ReadFirst, writes |-> 3, faults |-> 1, deaths |-> 1, reads |-> FALSE],
     [ops |-> Rewrites \ ReadFirst, writes |-> 2, faults |-> 2, deaths |-> 1, reads |-> FALSE]}

\* No lapse of the lock is looked for here: run ingest has them, and the properties of
\* the rows except them.  No lock file is created while a job may yet unlink the one
\* before it, and that of a live job stays fresh.
Undisturbed ==
    lock = NoLock /\ lock' # NoLock =>
       \A j \in Jobs : stage[j] \notin {"aged", "old", "breaking"}

Brief == lock'.age \notin {"fresh", lock.age} => ~Holds(lock.by)

RolledUp == [ops |-> {"rollup"}, writes |-> 0, faults |-> 0, deaths |-> 1, reads |-> FALSE]

\* A run of the script takes no time: what a slow one does to its neighbours is
\* the failure of a step.
MarketStep == MarketNext /\ (instant' # instant => script = "idle")

UsedInit == StoreInit /\ MarketInit /\ use \in Uses \cup {RolledUp}

Over == writes = use.writes /\ \A j \in Jobs : work[j] = NoWork

StoreUsed ==
    /\ use # RolledUp
    /\ StoreNext /\ Undisturbed /\ Brief
    /\ \A j \in Jobs : work'[j].op \in use.ops \cup {"none"}
    /\ writes' <= use.writes
    /\ "repair" \in use.ops => \A j \in Jobs : work'[j].op = "append" => work'[j].n = 1
    /\ use.writes = 3 => \A j \in Jobs : work'[j].op = "append" => work'[j].n = 2
    /\ faults' <= use.faults
    /\ Cardinality({j \in Jobs : Dead(j)}') <= use.deaths
    /\ reader' # reader => use.reads \/ Over
    /\ UNCHANGED <<use, marketVars>>

MarketUsed ==
    /\ use = RolledUp
    /\ MarketStep
    /\ UNCHANGED <<use, storeVars>>

UsedSpec == UsedInit /\ [][StoreUsed \/ MarketUsed]_<<storeVars, marketVars, use>>
=============================================================================
