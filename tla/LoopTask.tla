----------------------------- MODULE LoopTask -----------------------------
(***************************************************************************)
(* Tasks posted to a loop from other threads, and from the tasks           *)
(* themselves (Source/Linux/Loop.cpp: postTask, onRead, onTask, stop;      *)
(* Include/Loop.h: popTaskNode, pushTaskNode).                             *)
(*                                                                         *)
(* A task lies in a node.  The nodes of the queue hang together by mNext   *)
(* from mTaskHead on; mTaskTailPos is the address the next one is written  *)
(* to.  Nodes that are not in use wait in a second list, at most           *)
(* mTaskIdleMax of them, and change their owner again and again.  Whoever  *)
(* finds the queue empty wakes the loop with a message through the command *)
(* socket; commands of the engine (ECT_EXIT) come through it too.          *)
(*                                                                         *)
(* Each critical section of a spin lock is one action.  The content of a   *)
(* task is the job it stands for.  The socket is an AF_UNIX stream, whose  *)
(* writes are not torn; a receive may end inside a message.                *)
(***************************************************************************)
EXTENDS Naturals, FiniteSets, Sequences, SequencesExt

CONSTANTS Jobs,        \* what is to be run: each is posted at most once
          Nodes,       \* the memory nodes may live in
          Threads,     \* the threads that post
          LoopThread,  \* the one of them that runs the loop
          Commands,    \* bound on other messages in the command socket
          IdleMax,     \* Loop::mTaskIdleMax
          MayStop,     \* is the loop ever stopped?
          Null

ASSUME TaskConstants ==
    /\ LoopThread \in Threads
    /\ IdleMax \in Nat /\ Commands \in Nat
    /\ MayStop \in BOOLEAN
    /\ Null \notin Nodes

VARIABLES
    mTaskHead,      \* first node of the queue
    mTaskTailPos,   \* node whose mNext is the end, Null for &mTaskHead
    mNext, mData,   \* of every node
    mTaskHeadIdle,  \* first idle node
    mTaskIdleCount,
    heap,           \* the nodes that are allocated
    mStop,
    pc, hand,       \* of a thread in postTask(): where it is, and its node
    pipe,           \* messages in the command socket
    cut,            \* the first part of Head(pipe) is in mPackCMD already
    buf,            \* the messages of mPackCMD that onRead() has to look at
    lpc,            \* where the loop's thread is
    walk,           \* onTask(): the node it is at
    linked, ran     \* history: the jobs in the order they were put into the
                    \* queue, and in the order they were run

queueVars == <<mTaskHead, mTaskTailPos, linked>>
nodeVars  == <<mNext, mData>>
idleVars  == <<mTaskHeadIdle, mTaskIdleCount, heap>>
postVars  == <<pc, hand>>
sockVars  == <<pipe, cut>>
loopVars  == <<buf, lpc, walk, ran>>
vars == <<queueVars, nodeVars, idleVars, postVars, sockVars, loopVars, mStop>>

Messages == {"task", "exit", "active"}

-----------------------------------------------------------------------------
(* The list of idle nodes.                                                 *)

\* pushTaskNode(n): n is kept, or deleted when there are enough.
KeepNode == mTaskIdleCount < IdleMax

PushNode(n) ==
    IF KeepNode
    THEN /\ mNext' = [mNext EXCEPT ![n] = mTaskHeadIdle]
         /\ mTaskHeadIdle' = n
         /\ mTaskIdleCount' = mTaskIdleCount + 1
         /\ heap' = heap
    ELSE /\ heap' = heap \ {n}
         /\ UNCHANGED <<mNext, mTaskHeadIdle, mTaskIdleCount>>

\* popTaskNode() gives n: the first idle one, or a new one.
PopNode(n) ==
    IF mTaskHeadIdle # Null
    THEN /\ n = mTaskHeadIdle
         /\ mTaskHeadIdle' = mNext[n]
         /\ mTaskIdleCount' = mTaskIdleCount - 1
         /\ heap' = heap
    ELSE /\ n \notin heap
         /\ heap' = heap \cup {n}
         /\ UNCHANGED <<mTaskHeadIdle, mTaskIdleCount>>

-----------------------------------------------------------------------------
(* Loop::postTask.  The loop's own thread gets there from a callback.      *)

\* The loop's thread is in a task, or in some other callback, and not inside
\* postTask() itself.
InTask == lpc = "running" /\ pc[LoopThread] = "out"
InCallback == lpc = "poll" /\ pc[LoopThread] = "out"

MayPost(t) == pc[t] = "out" /\ (t = LoopThread => InTask \/ InCallback)

Posted(j) == j \in ToSet(linked) \/ \E t \in Threads : hand[t] # Null
                                       /\ pc[t] # "out" /\ mData[hand[t]] = j

\* postTask(func, dat): a node is taken, cleared and packed.
Pack(t, j) ==
    /\ MayPost(t)
    /\ ~Posted(j)
    /\ \E n \in Nodes :
          /\ PopNode(n)
          /\ mNext' = [mNext EXCEPT ![n] = Null]
          /\ mData' = [mData EXCEPT ![n] = j]
          /\ hand' = [hand EXCEPT ![t] = n]
    /\ pc' = [pc EXCEPT ![t] = "packed"]
    /\ UNCHANGED <<queueVars, sockVars, loopVars, mStop>>

\* isStop() is read without a lock ...
SeesStop(t) ==
    /\ pc[t] = "packed" /\ mStop
    /\ PushNode(hand[t])
    /\ pc' = [pc EXCEPT ![t] = "out"]
    /\ hand' = [hand EXCEPT ![t] = Null]
    /\ UNCHANGED <<queueVars, mData, sockVars, loopVars, mStop>>

SeesNoStop(t) ==
    /\ pc[t] = "packed" /\ ~mStop
    /\ pc' = [pc EXCEPT ![t] = "linking"]
    /\ UNCHANGED <<queueVars, nodeVars, idleVars, hand, sockVars, loopVars, mStop>>

\* ... and the node is linked under one.  Whether the loop must be woken is
\* decided in the same critical section.
\* Mutant: the queue is taken to be empty when it has one node.
WasShort == mTaskHead = mTaskTailPos
WasEmpty == mTaskHead = Null

Link(t) ==
    /\ pc[t] = "linking"
    /\ mNext' = [x \in Nodes |-> IF x = hand[t] THEN Null
                                 ELSE IF x = mTaskTailPos THEN hand[t]
                                 ELSE mNext[x]]
    /\ mTaskHead' = IF mTaskTailPos = Null THEN hand[t] ELSE mTaskHead
    /\ mTaskTailPos' = hand[t]
    /\ linked' = Append(linked, mData[hand[t]])
    /\ pc' = [pc EXCEPT ![t] = IF WasEmpty THEN "waking" ELSE "out"]
    /\ hand' = [hand EXCEPT ![t] = Null]
    /\ UNCHANGED <<mData, idleVars, sockVars, loopVars, mStop>>

\* The loop is woken: mSendCMD.send(ECT_TASK).  After stop() the socket is
\* closed, send() fails, and postTask() answers EE_OK all the same.
Wake(t) ==
    /\ pc[t] = "waking"
    /\ pc' = [pc EXCEPT ![t] = "out"]
    /\ pipe' = IF mStop THEN pipe ELSE Append(pipe, "task")
    /\ UNCHANGED <<queueVars, nodeVars, idleVars, hand, cut, loopVars, mStop>>

\* Engine::postCommand, from a signal handler, an application or the parent
\* process, which shares the socket.  At most Commands wait at a time.
PostCommand ==
    /\ ~mStop
    /\ Len(SelectSeq(pipe, LAMBDA m : m # "task")) < Commands
    /\ \E m \in (IF MayStop THEN {"exit", "active"} ELSE {"active"}) :
          pipe' = Append(pipe, m)
    /\ UNCHANGED <<queueVars, nodeVars, idleVars, postVars, cut, loopVars, mStop>>

-----------------------------------------------------------------------------
(* The loop's thread: onRead, onTask, stop.                                *)

\* The command handle is read: whole messages, and perhaps the first part of
\* one more, which stays in mPackCMD for the next time.
\* Mutant: it does not (Packet::clear() of everything).
PackCleared(n, part) == SubSeq(pipe, IF part THEN n + 2 ELSE n + 1, Len(pipe))
PackKept(n, part) == SubSeq(pipe, n + 1, Len(pipe))

Receive ==
    /\ InCallback /\ ~mStop
    /\ \E n \in 0 .. Len(pipe), part \in BOOLEAN :
          /\ part => n < Len(pipe)
          /\ n > 0 \/ (part /\ ~cut)
          /\ buf' = SubSeq(pipe, 1, n)
          /\ pipe' = PackKept(n, part)
          /\ cut' = part
    /\ lpc' = "parse"
    /\ UNCHANGED <<queueVars, nodeVars, idleVars, postVars, walk, ran, mStop>>

\* stop(): the sockets are closed and what is in them is gone.
Stop ==
    /\ mStop' = TRUE
    /\ pipe' = IF mStop THEN pipe ELSE <<>>
    /\ cut' = IF mStop THEN cut ELSE FALSE

ParseActive ==
    /\ lpc = "parse" /\ buf # <<>> /\ Head(buf) = "active"
    /\ buf' = Tail(buf)
    /\ UNCHANGED <<queueVars, nodeVars, idleVars, postVars, sockVars, lpc, walk, ran, mStop>>

ParseExit ==
    /\ lpc = "parse" /\ buf # <<>> /\ Head(buf) = "exit"
    /\ buf' = Tail(buf)
    /\ Stop
    /\ UNCHANGED <<queueVars, nodeVars, idleVars, postVars, lpc, walk, ran>>

\* The application stops the loop itself, in a task or another callback.
AppStop ==
    /\ MayStop
    /\ InCallback \/ InTask
    /\ ~mStop
    /\ Stop
    /\ UNCHANGED <<queueVars, nodeVars, idleVars, postVars, loopVars>>

\* onTask(): the whole queue is detached under the lock.
TailReset == Null

ParseTask ==
    /\ lpc = "parse" /\ buf # <<>> /\ Head(buf) = "task"
    /\ buf' = Tail(buf)
    /\ walk' = mTaskHead
    /\ mTaskHead' = Null
    /\ mTaskTailPos' = TailReset
    /\ lpc' = IF mTaskHead = Null THEN "parse" ELSE "walk"
    /\ UNCHANGED <<nodeVars, idleVars, postVars, sockVars, ran, mStop, linked>>

\* (*nd)()
RunTask ==
    /\ lpc = "walk"
    /\ ran' = Append(ran, mData[walk])
    /\ lpc' = "running"
    /\ UNCHANGED <<queueVars, nodeVars, idleVars, postVars, sockVars, buf, walk, mStop>>

\* The task is over: its successor is read before the node is given back.
\* Mutant: after it.
NextAfterPush(n) == mNext'[n]
NextOf(n) == mNext[n]

TaskDone ==
    /\ InTask
    /\ PushNode(walk)
    /\ walk' = NextOf(walk)
    /\ lpc' = IF walk' = Null THEN "parse" ELSE "walk"
    /\ UNCHANGED <<queueVars, mData, postVars, sockVars, buf, ran, mStop>>

\* Everything has been looked at: the next read is posted, unless stopped.
ParseEnd ==
    /\ lpc = "parse" /\ buf = <<>>
    /\ lpc' = "poll"
    /\ UNCHANGED <<queueVars, nodeVars, idleVars, postVars, sockVars, buf, walk, ran, mStop>>

-----------------------------------------------------------------------------
Init ==
    /\ mTaskHead = Null /\ mTaskTailPos = Null
    /\ mNext = [n \in Nodes |-> Null]
    /\ mData \in {[n \in Nodes |-> j] : j \in Jobs}
    /\ mTaskHeadIdle = Null /\ mTaskIdleCount = 0 /\ heap = {}
    /\ mStop = FALSE
    /\ pc = [t \in Threads |-> "out"] /\ hand = [t \in Threads |-> Null]
    /\ pipe = <<>> /\ cut = FALSE /\ buf = <<>>
    /\ lpc = "poll" /\ walk = Null
    /\ linked = <<>> /\ ran = <<>>

PostStep(t) == SeesStop(t) \/ SeesNoStop(t) \/ Link(t) \/ Wake(t)
LoopStep == \/ Receive \/ ParseActive \/ ParseExit \/ ParseTask \/ ParseEnd
            \/ RunTask \/ TaskDone

Next ==
    \/ \E t \in Threads : PostStep(t) \/ \E j \in Jobs : Pack(t, j)
    \/ PostCommand
    \/ AppStop
    \/ LoopStep

Spec == Init /\ [][Next]_vars

\* Every thread runs on: a spin lock is always released, tasks return.
FairSpec ==
    /\ Spec
    /\ WF_vars(LoopStep)
    /\ \A t \in Threads : WF_vars(PostStep(t))

-----------------------------------------------------------------------------
(* Properties.                                                             *)

\* Every variable has a value of its type.
TypeOK ==
    /\ {mTaskHead, mTaskTailPos, mTaskHeadIdle, walk} \subseteq Nodes \cup {Null}
    /\ mNext \in [Nodes -> Nodes \cup {Null}] /\ mData \in [Nodes -> Jobs]
    /\ mTaskIdleCount \in 0 .. IdleMax /\ heap \subseteq Nodes
    /\ pc \in [Threads -> {"out", "packed", "linking", "waking"}]
    /\ hand \in [Threads -> Nodes \cup {Null}]
    /\ pipe \in Seq(Messages) /\ buf \in Seq(Messages)
    /\ cut \in BOOLEAN /\ mStop \in BOOLEAN
    /\ lpc \in {"poll", "parse", "walk", "running"}
    /\ linked \in Seq(Jobs) /\ ran \in Seq(Jobs)

\* The nodes from n on, in the order of mNext.
NodesFrom(n) ==
    LET upTo[k \in Nat] ==
          IF k = 0 THEN <<n>>
          ELSE LET s == upTo[k - 1] IN
               IF Last(s) = Null THEN s ELSE Append(s, mNext[Last(s)])
    IN SelectSeq(upTo[Cardinality(Nodes)], LAMBDA x : x # Null)

JobsOf(s) == [i \in DOMAIN s |-> mData[s[i]]]
Queue   == NodesFrom(mTaskHead)
Batch   == NodesFrom(walk)
Waiting == IF lpc = "running" THEN Tail(Batch) ELSE Batch

\* Whatever was linked has been run or is still reachable, in the order of
\* linking, from the loop's batch and then from mTaskHead.
NothingLost == linked = ran \o JobsOf(Waiting) \o JobsOf(Queue)

Tasks == INSTANCE Fifo WITH Item <- Jobs, put <- linked, got <- ran

\* For all that the threads and the tasks can tell this is a queue, which
\* loses, doubles and reorders nothing, although its nodes go back and forth
\* between two lists and every thread's hands.
TasksInOrder == Tasks!Spec

\* A node has one owner: the queue, the batch, the idle list or a thread;
\* all of these are allocated, and nothing else is.
OneOwner ==
    LET hands == {t \in Threads : hand[t] # Null}
        all == NodesFrom(mTaskHead) \o NodesFrom(walk) \o NodesFrom(mTaskHeadIdle)
    IN
    /\ IsInjective(all)
    /\ \A t \in hands : hand[t] \notin ToSet(all)
    /\ \A t, u \in hands : hand[t] = hand[u] => t = u
    /\ heap = ToSet(all) \cup {hand[t] : t \in hands}
    /\ mTaskIdleCount = Len(NodesFrom(mTaskHeadIdle))

HasTask(s) == \E i \in 1 .. Len(s) : s[i] = "task"
OneTask(s) ==
    \A i, j \in 1 .. Len(s) : s[i] = "task" /\ s[j] = "task" => i = j

\* While the loop is not stopped, a queue that is not empty has a wake-up on
\* its way.
WakeUpComing ==
    mTaskHead # Null /\ ~mStop =>
        \/ \E t \in Threads : pc[t] = "waking"
        \/ HasTask(pipe)
        \/ HasTask(buf)

\* There is never more than one: however many tasks are posted, they cannot
\* fill the socket, so that send() does not block (the loop's own thread
\* would wait for itself).
OneWakeUp ==
    /\ OneTask(pipe) /\ OneTask(buf)
    /\ ~(HasTask(pipe) /\ HasTask(buf))
    /\ \A t \in Threads : pc[t] = "waking" =>
          /\ ~HasTask(pipe) /\ ~HasTask(buf)
          /\ \A u \in Threads : pc[u] = "waking" => t = u

\* Every task that was accepted is run, unless the loop is stopped.
TasksRun == \A j \in Jobs : (j \in ToSet(linked)) ~> (j \in ToSet(ran) \/ mStop)
=============================================================================
