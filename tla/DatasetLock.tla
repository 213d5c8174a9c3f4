----------------------------- MODULE DatasetLock -----------------------------
(***************************************************************************)
(* The lock of one lake dataset (data/lake.py, _dataset_lock): a file      *)
(* created with O_EXCL beside the dataset that holds the creator's pid.    *)
(* A job here is a process.  The threads of one process queue on an        *)
(* ordinary mutex before they try for the file, so a process tries for it  *)
(* once at a time.                                                         *)
(*                                                                         *)
(* A job that finds the file takes its age, then reads the pid in it, and  *)
(* unlinks it if it finds it stale: three steps that name the file by its  *)
(* path, so that they need not be about the same file.                     *)
(***************************************************************************)
EXTENDS Naturals, FiniteSets

CONSTANTS
    Jobs,    \* processes that write the dataset; a pid names one for good
    NoJob,   \* no process
    Foreign  \* the processes of another user

ASSUME JobsAssumption == NoJob \notin Jobs /\ Foreign \subseteq Jobs

VARIABLES
    lock,      \* the lock file: who created it, the pid in it, its age
    stage,     \* where each job stands in _dataset_lock
    outdated,  \* auxiliary: the jobs that judge, or unlink, another file than is there
    lapses     \* auxiliary: how the file of a job at work came to be in danger

lockVars == <<lock, stage, outdated, lapses>>

\* Under 5 s, over 5 s, over 600 s.  Also the stage of a job that has taken the
\* age of the file and has not read it yet.
Ages == {"fresh", "aged", "old"}

Stages == {"out", "wait", "breaking", "opened", "in", "dead"} \cup Ages
LockFiles == [by : Jobs \cup {NoJob}, pid : Jobs \cup {NoJob}, age : Ages]
NoLock == [by |-> NoJob, pid |-> NoJob, age |-> "fresh"]

Dead(j) == stage[j] = "dead"
Holds(j) == stage[j] \in {"opened", "in"}

Waits(j) == stage[j] \in {"wait", "breaking"} \cup Ages

Goto(j, s) == stage' = [stage EXCEPT ![j] = s]

\* The job that created the file is between that and its removal.
AtWork == \E j \in Jobs : lock.by = j /\ Holds(j)

LockInit ==
    /\ lock = NoLock
    /\ stage = [j \in Jobs |-> "out"]
    /\ outdated = {} /\ lapses = {}

Ask(j) ==
    /\ stage[j] = "out"
    /\ Goto(j, "wait")
    /\ UNCHANGED <<lock, outdated, lapses>>

\* What others have taken an age over 5 s of is another file now.
CreateLock(j) ==
    /\ stage[j] = "wait"
    /\ lock = NoLock
    /\ lock' = [NoLock EXCEPT !.by = j]
    /\ Goto(j, "opened")
    /\ outdated' = {i \in Jobs : stage[i] \in {"aged", "old", "breaking"}}
    /\ UNCHANGED lapses

\* The pid goes to the file the job created, which a breaker may have unlinked.
WritePid(j) ==
    /\ stage[j] = "opened"
    /\ lock' = IF lock.by = j THEN [NoLock EXCEPT !.by = j, !.pid = j] ELSE lock
    /\ Goto(j, "in")
    /\ UNCHANGED <<outdated, lapses>>

\* The job fails and leaves an empty file behind.
WritePidFails(j) ==
    /\ stage[j] = "opened"
    /\ Goto(j, "out")
    /\ UNCHANGED <<lock, outdated, lapses>>

StatLock(j) ==
    /\ stage[j] = "wait"
    /\ lock # NoLock
    /\ Goto(j, lock.age)
    /\ outdated' = outdated \ {j}
    /\ UNCHANGED <<lock, lapses>>

\* The 5 s of grace for a file whose creator has not written its pid are dropped.
StaleAtOnce(j) ==
    IF lock.pid = NoJob THEN TRUE ELSE Dead(lock.pid) \/ stage[j] = "old"

\* A file without a pid is not stale at any age.
StaleByPid(j) ==
    lock.pid # NoJob /\ (Dead(lock.pid) \/ stage[j] = "old")

\* A file that is empty, or gone by now, is stale if its age was over 5 s, that of
\* a live process if it was over 600 s, that of a dead one at once, and that of
\* another user's live process never.  (A pid that was reused looks alive.)
Stale(j) ==
    IF lock.pid = NoJob THEN stage[j] # "fresh"
    ELSE Dead(lock.pid) \/ (stage[j] = "old" /\ lock.pid \notin Foreign)

JudgeStale(j) ==
    /\ stage[j] \in Ages
    /\ Stale(j)
    /\ Goto(j, "breaking")
    /\ UNCHANGED <<lock, outdated, lapses>>

JudgeLive(j) ==
    /\ stage[j] \in Ages
    /\ ~Stale(j)
    /\ Goto(j, "wait")
    /\ UNCHANGED <<lock, outdated, lapses>>

\* TimeoutError after 30 s (120 s for maintenance) of live files.
GiveUp(j) ==
    /\ stage[j] \in Ages
    /\ ~Stale(j)
    /\ Goto(j, "out")
    /\ UNCHANGED <<lock, outdated, lapses>>

\* Whatever file has the name by now is unlinked.
BreakLock(j) ==
    /\ stage[j] = "breaking"
    /\ lock' = NoLock
    /\ Goto(j, "wait")
    /\ lapses' = IF j \in outdated /\ AtWork THEN lapses \cup {"raced"} ELSE lapses
    /\ UNCHANGED outdated

\* The file is unlinked whoever created it.
Unlock(j) ==
    /\ stage[j] = "in"
    /\ lock' = NoLock
    /\ Goto(j, "out")
    /\ UNCHANGED <<outdated, lapses>>

Die(j) ==
    /\ ~Dead(j)
    /\ Goto(j, "dead")
    /\ UNCHANGED <<lock, outdated, lapses>>

\* A job at work is slow if it has not written its pid after 5 s, or is there after 600 s.
LockAges ==
    /\ lock # NoLock
    /\ lock.age # "old"
    /\ lock' = [lock EXCEPT !.age = IF @ = "fresh" THEN "aged" ELSE "old"]
    /\ lapses' = IF AtWork /\ (lock.pid = NoJob \/ lock.age = "aged")
                 THEN lapses \cup {"slow"} ELSE lapses
    /\ UNCHANGED <<stage, outdated>>

LockNext ==
    \/ LockAges
    \/ \E j \in Jobs :
          \/ Ask(j) \/ CreateLock(j) \/ WritePid(j) \/ WritePidFails(j)
          \/ StatLock(j) \/ JudgeStale(j) \/ JudgeLive(j) \/ GiveUp(j)
          \/ BreakLock(j) \/ Unlock(j) \/ Die(j)

LockSpec == LockInit /\ [][LockNext]_lockVars

LockTypeOK ==
    /\ lock \in LockFiles
    /\ stage \in [Jobs -> Stages]
    /\ outdated \subseteq Jobs /\ lapses \subseteq {"slow", "raced"}

\* A waiter takes its next step, and time passes.
LockFairness ==
    /\ WF_lockVars(LockAges)
    /\ \A j \in Jobs :
          /\ WF_lockVars(StatLock(j))
          /\ WF_lockVars(JudgeStale(j) \/ JudgeLive(j))
          /\ WF_lockVars(BreakLock(j))

FairLockSpec == LockSpec /\ LockFairness

\* One job at a time is between the creation of the lock file and its removal (lake.py,
\* the body of "with _dataset_lock"), though jobs die and others break what they leave,
\* in steps that name the file by its path: unless one was slow, or a job unlinked the
\* file of a job at work after it had judged the one before it (lake.py 1877-1911).
OneWriter == lapses = {} => \A i, j \in Jobs : Holds(i) /\ Holds(j) => i = j

\* The file a killed job leaves, with its pid or still empty, stops nobody for good:
\* again and again it is gone or nobody waits for the lock (a killed job does not come
\* back, so that one file kept for ever would violate this)
\* (tests/test_lake_resilience.py 476-489).
TakenOver ==
    []<>(lock.by \in Jobs /\ Dead(lock.by) => \A i \in Jobs : ~Waits(i))
=============================================================================
