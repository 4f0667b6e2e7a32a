----------------------------- MODULE ThreadPool -----------------------------
(***************************************************************************)
(* The pool of worker threads (Include/ThreadPool.h): a queue of tasks, a  *)
(* list of idle nodes, one mutex and one condition variable.               *)
(*                                                                         *)
(* A critical section of mMutex is one action; a wait on mCondition ends   *)
(* one and a new one begins when the thread is woken.  The queue is a ring *)
(* whose tail is mAllTask; here it is a sequence.  Nodes are alike, so the *)
(* idle ones are counted.  One thread, not a worker, calls start() and     *)
(* stop(); anybody posts, tasks too.                                       *)
(***************************************************************************)
EXTENDS Integers, Sequences, FiniteSets

CONSTANTS Workers,     \* the threads start() creates
          Tasks,       \* what is posted, each at most once
          Urgent,      \* those of them that are posted as urgent
          Limits,      \* what setMaxAllocated() may be called with
          NoTask,      \* a null pointer
          Starts       \* bound on the number of calls of start()

ASSUME PoolConstants ==
    /\ IsFiniteSet(Workers) /\ Workers # {}
    /\ Urgent \subseteq Tasks /\ NoTask \notin Tasks
    /\ Limits \subseteq Nat \ {0} /\ Limits # {}
    /\ Starts \in Nat

VARIABLES
    mRunning,
    mAllTask,       \* the tasks that wait, first one first
    mIdle,          \* length of the list mIdleTask
    mAllocated,
    mMaxAllocated,
    mTaskCount,
    pc,             \* of a worker: where run() is
    task,           \* its task, from popTask() until pushFreeTask()
    ctl,            \* where start() or stop() is
    started,        \* how often start() was called
    posted, taken,  \* history: the tasks in the order they were accepted, and
                    \* in the order popTask() gave them out
    ran,            \* history: the tasks that have returned
    maxSeen         \* history: the greatest mMaxAllocated so far

queueVars == <<mAllTask, posted, taken>>
nodeVars  == <<mIdle, mAllocated, mTaskCount>>
limitVars == <<mMaxAllocated, maxSeen>>
workVars  == <<pc, task, ran>>
ctlVars   == <<mRunning, ctl, started>>
vars == <<queueVars, nodeVars, limitVars, workVars, ctlVars>>

States == {"none", "lock", "wait", "woken", "exec", "exit"}
          \* no thread, about to lock mMutex, in mCondition.wait(), about to
          \* lock it again, in a task, run() has returned

Holding == {w \in Workers : task[w] # NoTask}
Waiting == {w \in Workers : pc[w] = "wait"}
Looking == {w \in Workers : pc[w] \in {"lock", "woken"}}
Accepted == {posted[i] : i \in 1 .. Len(posted)}

-----------------------------------------------------------------------------
(* The nodes.                                                              *)

\* popFreeTask(): an idle node or a new one.
HasIdle == mIdle > 0

PopFreeTask ==
    /\ mTaskCount' = mTaskCount + 1
    /\ IF HasIdle
       THEN mIdle' = mIdle - 1 /\ mAllocated' = mAllocated
       ELSE mIdle' = mIdle /\ mAllocated' = mAllocated + 1

\* pushFreeTask(): back into the list, or deleted if there are too many.
Deleted == mAllocated - 1
TooMany == mAllocated > mMaxAllocated

PushFreeTask ==
    /\ mTaskCount' = mTaskCount - 1
    /\ IF TooMany
       THEN mAllocated' = Deleted /\ mIdle' = mIdle
       ELSE mAllocated' = mAllocated /\ mIdle' = mIdle + 1

-----------------------------------------------------------------------------
(* postTask, setMaxAllocated.                                              *)

\* pushTask(it, urgent): at the head of the ring if urgent, else at its tail.
\* Mutant: mAllTask does not move on when there was one node.
PushedBehind(t) ==
    IF t \in Urgent \/ Len(mAllTask) = 1 THEN <<t>> \o mAllTask
                                         ELSE Append(mAllTask, t)
Pushed(t) == IF t \in Urgent THEN <<t>> \o mAllTask ELSE Append(mAllTask, t)

\* mCondition.notify_one() wakes one of the waiting threads, if any.
\* Mutant: only if the queue was empty.
NotifyIfEmpty ==
    IF mAllTask # <<>> THEN pc' = pc
    ELSE \/ Waiting = {} /\ pc' = pc
         \/ \E w \in Waiting : pc' = [pc EXCEPT ![w] = "woken"]
NotifyOne ==
    \/ Waiting = {} /\ pc' = pc
    \/ \E w \in Waiting : pc' = [pc EXCEPT ![w] = "woken"]

\* postTask(); one that finds the pool not running answers false.
PostTask(t) ==
    /\ mRunning
    /\ t \notin Accepted
    /\ PopFreeTask
    /\ mAllTask' = Pushed(t)
    /\ NotifyOne
    /\ posted' = Append(posted, t)
    /\ UNCHANGED <<taken, limitVars, task, ran, ctlVars>>

SetMaxAllocated(n) ==
    /\ mMaxAllocated' = n
    /\ maxSeen' = IF n > maxSeen THEN n ELSE maxSeen
    /\ UNCHANGED <<queueVars, nodeVars, workVars, ctlVars>>

-----------------------------------------------------------------------------
(* run(): a worker.                                                        *)

\* The mutex is taken.  After a task, its node is given back first.
GiveBack(w) ==
    IF task[w] # NoTask THEN PushFreeTask ELSE UNCHANGED nodeVars

\* while (mRunning && !mAllTask) mCondition.wait()
\* Mutant: the predicate is not looked at before.
MustWaitFirst(w) == mRunning /\ (mAllTask = <<>> \/ pc[w] = "lock")
MustWait(w) == mRunning /\ mAllTask = <<>>

Wait(w) ==
    /\ pc[w] \in {"lock", "woken"}
    /\ MustWait(w)
    /\ GiveBack(w)
    /\ pc' = [pc EXCEPT ![w] = "wait"]
    /\ task' = [task EXCEPT ![w] = NoTask]
    /\ UNCHANGED <<queueVars, limitVars, ran, ctlVars>>

\* Spurious wake-ups are allowed.
Woken(w) ==
    /\ pc[w] = "wait"
    /\ pc' = [pc EXCEPT ![w] = "woken"]
    /\ UNCHANGED <<queueVars, nodeVars, limitVars, task, ran, ctlVars>>

\* if (!mRunning && !mAllTask) break
\* Mutant: a stopped pool leaves what is queued.
MayExitEarly == ~mRunning
MayExit == ~mRunning /\ mAllTask = <<>>

Exit(w) ==
    /\ pc[w] \in {"lock", "woken"}
    /\ MayExit
    /\ GiveBack(w)
    /\ pc' = [pc EXCEPT ![w] = "exit"]
    /\ task' = [task EXCEPT ![w] = NoTask]
    /\ UNCHANGED <<queueVars, limitVars, ran, ctlVars>>

TakeTask(w) ==
    /\ pc[w] \in {"lock", "woken"}
    /\ ~MustWait(w) /\ mAllTask # <<>>
    /\ GiveBack(w)
    /\ mAllTask' = Tail(mAllTask)
    /\ taken' = Append(taken, Head(mAllTask))
    /\ task' = [task EXCEPT ![w] = Head(mAllTask)]
    /\ pc' = [pc EXCEPT ![w] = "exec"]
    /\ UNCHANGED <<posted, limitVars, ran, ctlVars>>

\* (*task)() returns
TaskReturns(w) ==
    /\ pc[w] = "exec"
    /\ ran' = ran \cup {task[w]}
    /\ pc' = [pc EXCEPT ![w] = "lock"]
    /\ UNCHANGED <<queueVars, nodeVars, limitVars, task, ctlVars>>

-----------------------------------------------------------------------------
(* start, stop.                                                            *)

Start ==
    /\ ctl = "stopped" /\ started < Starts
    /\ started' = started + 1
    /\ mRunning' = TRUE
    /\ ctl' = "starting"
    /\ UNCHANGED <<queueVars, nodeVars, limitVars, workVars>>

CreateThread(w) ==
    /\ ctl = "starting"
    /\ pc[w] = "none"
    /\ pc' = [pc EXCEPT ![w] = "lock"]
    /\ UNCHANGED <<queueVars, nodeVars, limitVars, task, ran, ctlVars>>

StartReturns ==
    /\ ctl = "starting" /\ \A w \in Workers : pc[w] # "none"
    /\ ctl' = "started"
    /\ UNCHANGED <<queueVars, nodeVars, limitVars, workVars, mRunning, started>>

Stop ==
    /\ ctl = "started"
    /\ mRunning' = FALSE
    /\ ctl' = "notify"
    /\ UNCHANGED <<queueVars, nodeVars, limitVars, workVars, started>>

\* mCondition.notify_all(), after the mutex is released.
\* Mutant: notify_one().
AllButOneWake ==
    \/ Waiting = {} /\ pc' = pc
    \/ \E w \in Waiting : pc' = [pc EXCEPT ![w] = "woken"]
AllWake == pc' = [w \in Workers |-> IF pc[w] = "wait" THEN "woken" ELSE pc[w]]

NotifyAll ==
    /\ ctl = "notify"
    /\ AllWake
    /\ ctl' = "join"
    /\ UNCHANGED <<queueVars, nodeVars, limitVars, task, ran, mRunning, started>>

\* Every worker has been joined; mWorkers.resize(0).
StopReturns ==
    /\ ctl = "join" /\ \A w \in Workers : pc[w] = "exit"
    /\ pc' = [w \in Workers |-> "none"]
    /\ ctl' = "stopped"
    /\ UNCHANGED <<queueVars, nodeVars, limitVars, task, ran, mRunning, started>>

-----------------------------------------------------------------------------
Init ==
    /\ mRunning = FALSE
    /\ mAllTask = <<>> /\ posted = <<>> /\ taken = <<>>
    /\ mIdle = 0 /\ mAllocated = 0 /\ mTaskCount = 0
    /\ mMaxAllocated \in Limits /\ maxSeen = mMaxAllocated
    /\ pc = [w \in Workers |-> "none"]
    /\ task = [w \in Workers |-> NoTask]
    /\ ran = {}
    /\ ctl = "stopped" /\ started = 0

WorkerStep(w) == Wait(w) \/ Exit(w) \/ TakeTask(w) \/ TaskReturns(w)
CtlStep == StartReturns \/ NotifyAll \/ StopReturns \/ \E w \in Workers : CreateThread(w)

Next ==
    \/ \E t \in Tasks : PostTask(t)
    \/ \E n \in Limits : SetMaxAllocated(n)
    \/ \E w \in Workers : WorkerStep(w) \/ Woken(w)
    \/ Start
    \/ Stop
    \/ CtlStep

Spec == Init /\ [][Next]_vars

\* Threads run on, and tasks return.  Nothing says that stop() is called, that
\* a thread is woken for no reason, or that anything is posted.  A worker that
\* wants the mutex gets it in the end.
FairSpec ==
    /\ Spec
    /\ WF_vars(CtlStep)
    /\ \A w \in Workers : WF_vars(WorkerStep(w))

-----------------------------------------------------------------------------
(* Properties.                                                             *)

\* Every variable has a value of its type.
TypeOK ==
    /\ mRunning \in BOOLEAN
    /\ mAllTask \in Seq(Tasks) /\ posted \in Seq(Tasks) /\ taken \in Seq(Tasks)
    /\ mIdle \in Nat /\ mAllocated \in Nat /\ mTaskCount \in Nat
    /\ mMaxAllocated \in Limits /\ maxSeen \in Limits
    /\ pc \in [Workers -> States]
    /\ task \in [Workers -> Tasks \cup {NoTask}]
    /\ ran \subseteq Tasks
    /\ ctl \in {"stopped", "starting", "started", "notify", "join"}
    /\ started \in Nat

\* mTaskCount counts the tasks that wait or run, mAllocated their nodes and
\* the idle ones: none leaks, none is given back twice.
NodesCounted ==
    /\ mTaskCount = Len(mAllTask) + Cardinality(Holding)
    /\ mAllocated = mIdle + mTaskCount

\* The pool keeps no more nodes than it was allowed to: more exist only while
\* more are in use.
IdleBounded == mIdle > 0 => mAllocated <= maxSeen

\* No worker sleeps while there are more tasks than workers coming for them.
NoneSleeps == Waiting # {} => Len(mAllTask) <= Cardinality(Looking)

\* stop() returns when all that was accepted has been run: nothing is left in
\* the queue, no thread is left, no node is in use.
StopDrains ==
    ctl = "stopped" =>
        /\ mAllTask = <<>>
        /\ Accepted = ran
        /\ mTaskCount = 0
        /\ ~mRunning

\* Tasks that are not urgent are begun in the order they were posted, an
\* urgent one before all that wait, and each exactly once.
Begun == taken \o mAllTask
BeginInOrder ==
    /\ Accepted = {Begun[k] : k \in 1 .. Len(Begun)}
    /\ \A k, l \in 1 .. Len(Begun) : Begun[k] = Begun[l] => k = l
    /\ \A i, j \in 1 .. Len(posted), k, l \in 1 .. Len(Begun) :
          i < j /\ posted[i] = Begun[k] /\ posted[j] = Begun[l] =>
              k < l \/ posted[i] \in Urgent \/ posted[j] \in Urgent
    /\ \A i, j \in 1 .. Len(mAllTask) :
          i < j /\ mAllTask[j] \in Urgent => mAllTask[i] \in Urgent

\* Every accepted task is run, whether or not the pool is stopped meanwhile.
AcceptedRun == \A t \in Tasks : (t \in Accepted) ~> (t \in ran)

\* stop() returns.
StopEnds == (ctl = "notify") ~> (ctl = "stopped")
=============================================================================
