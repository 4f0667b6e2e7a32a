--------------------------- MODULE LoopTaskProof ---------------------------
(***************************************************************************)
(* Proofs about LoopTask: a queue with tasks in it always has exactly one  *)
(* wake-up message on its way to the loop, and the tasks are run once and  *)
(* in the order they were linked, for any number of threads, tasks and     *)
(* nodes.                                                                  *)
(***************************************************************************)
EXTENDS LoopTask, TLAPS

\* What the argument needs of the types.
Types ==
    /\ mTaskHead \in Nodes \cup {Null} /\ mTaskTailPos \in Nodes \cup {Null}
    /\ pc \in [Threads -> {"out", "packed", "linking", "waking"}]
    /\ hand \in [Threads -> Nodes \cup {Null}]
    /\ \A t \in Threads : pc[t] \in {"packed", "linking"} => hand[t] \in Nodes
    /\ pipe \in Seq(Messages) /\ buf \in Seq(Messages)

\* mTaskTailPos is &mTaskHead exactly when the queue is empty.
Shape == mTaskHead = Null <=> mTaskTailPos = Null

\* An empty queue has no wake-up on its way.
NoneWhenEmpty ==
    mTaskHead = Null =>
        /\ ~HasTask(pipe) /\ ~HasTask(buf)
        /\ \A t \in Threads : pc[t] # "waking"

PollDone == lpc = "poll" => buf = <<>>

IInv == Types /\ Shape /\ NoneWhenEmpty /\ PollDone /\ OneWakeUp /\ WakeUpComing

-----------------------------------------------------------------------------
(* Wake-up messages in sequences.                                          *)

\* A message is put behind the others.
LEMMA Put ==
    ASSUME NEW s \in Seq(Messages), NEW m \in Messages
    PROVE  /\ Append(s, m) \in Seq(Messages)
           /\ HasTask(Append(s, m)) <=> HasTask(s) \/ m = "task"
           /\ OneTask(s) /\ (m = "task" => ~HasTask(s)) => OneTask(Append(s, m))
<1> DEFINE a == Append(s, m)
<1>1. a \in Seq(Messages) /\ Len(a) = Len(s) + 1 /\ a[Len(s) + 1] = m
      /\ \A i \in 1 .. Len(s) : a[i] = s[i]
  OBVIOUS
<1>2. 1 .. Len(a) = (1 .. Len(s)) \cup {Len(s) + 1}
  BY <1>1
<1> HIDE DEF a
<1>3. HasTask(a) <=> HasTask(s) \/ m = "task"
  BY <1>1, <1>2 DEF HasTask
<1>4. OneTask(s) /\ (m = "task" => ~HasTask(s)) => OneTask(a)
  BY <1>1, <1>2 DEF HasTask, OneTask
<1> QED BY <1>1, <1>3, <1>4 DEF a

\* The first message is taken.
LEMMA Take ==
    ASSUME NEW s \in Seq(Messages), s # <<>>
    PROVE  /\ Tail(s) \in Seq(Messages)
           /\ OneTask(s) => OneTask(Tail(s))
           /\ HasTask(s) <=> Head(s) = "task" \/ HasTask(Tail(s))
           /\ OneTask(s) /\ Head(s) = "task" => ~HasTask(Tail(s))
<1> DEFINE a == Tail(s)
<1>1. a \in Seq(Messages) /\ Len(s) \in Nat /\ Len(s) > 0 /\ Len(a) = Len(s) - 1
      /\ Head(s) = s[1] /\ \A i \in 1 .. Len(a) : a[i] = s[i + 1]
  OBVIOUS
<1> HIDE DEF a
<1>2. \A i \in 1 .. Len(a) : i + 1 \in 1 .. Len(s) /\ i + 1 # 1
  BY <1>1
<1>3. \A i \in 1 .. Len(s) : i = 1 \/ (i - 1 \in 1 .. Len(a) /\ a[i - 1] = s[i])
  BY <1>1
<1>4. 1 \in 1 .. Len(s)
  BY <1>1
<1>5. OneTask(s) => OneTask(a)
  <2> SUFFICES ASSUME OneTask(s), NEW i \in 1 .. Len(a), NEW j \in 1 .. Len(a),
                      a[i] = "task", a[j] = "task"
               PROVE  i = j
    BY DEF OneTask
  <2>1. i + 1 = j + 1
    BY <1>1, <1>2 DEF OneTask
  <2> QED BY <2>1
<1>6. HasTask(s) <=> Head(s) = "task" \/ HasTask(a)
  BY <1>1, <1>2, <1>3, <1>4 DEF HasTask
<1>7. OneTask(s) /\ Head(s) = "task" => ~HasTask(a)
  BY <1>1, <1>2, <1>4 DEF HasTask, OneTask
<1> QED BY <1>1, <1>5, <1>6, <1>7 DEF a

\* A receive divides the messages.
LEMMA Divide ==
    ASSUME NEW s \in Seq(Messages), NEW n \in 0 .. Len(s)
    PROVE  LET a == SubSeq(s, 1, n)
               b == SubSeq(s, n + 1, Len(s))
           IN  /\ a \in Seq(Messages) /\ b \in Seq(Messages)
               /\ HasTask(s) <=> HasTask(a) \/ HasTask(b)
               /\ OneTask(s) => OneTask(a) /\ OneTask(b)
               /\ OneTask(s) => ~(HasTask(a) /\ HasTask(b))
<1> DEFINE a == SubSeq(s, 1, n)
           b == SubSeq(s, n + 1, Len(s))
<1>1. a \in Seq(Messages) /\ Len(a) = n /\ \A i \in 1 .. n : a[i] = s[i]
  OBVIOUS
<1>2. b \in Seq(Messages) /\ Len(b) = Len(s) - n
      /\ \A i \in 1 .. Len(s) - n : b[i] = s[n + i]
  OBVIOUS
<1> HIDE DEF a, b
<1>3. Len(s) \in Nat
  OBVIOUS
<1>4. HasTask(s) => HasTask(a) \/ HasTask(b)
  <2> SUFFICES ASSUME NEW i \in 1 .. Len(s), s[i] = "task"
               PROVE  HasTask(a) \/ HasTask(b)
    BY DEF HasTask
  <2>1. CASE i \in 1 .. n
    BY <2>1, <1>1 DEF HasTask
  <2>2. CASE i \notin 1 .. n
    <3>1. i - n \in 1 .. Len(b) /\ b[i - n] = s[n + (i - n)] /\ n + (i - n) = i
      BY <2>2, <1>2, <1>3
    <3> QED BY <3>1 DEF HasTask
  <2> QED BY <2>1, <2>2
<1>5. \A i \in 1 .. Len(a) : i \in 1 .. Len(s) /\ a[i] = s[i] /\ i <= n
  BY <1>1, <1>3
<1>6. \A i \in 1 .. Len(b) : n + i \in 1 .. Len(s) /\ b[i] = s[n + i] /\ n + i > n
  BY <1>2, <1>3
<1>7. HasTask(a) \/ HasTask(b) => HasTask(s)
  BY <1>5, <1>6 DEF HasTask
<1>8. OneTask(s) => OneTask(a)
  BY <1>5 DEF OneTask
<1>9. OneTask(s) => OneTask(b)
  <2> SUFFICES ASSUME OneTask(s), NEW i \in 1 .. Len(b), NEW j \in 1 .. Len(b),
                      b[i] = "task", b[j] = "task"
               PROVE  i = j
    BY DEF OneTask
  <2>1. n + i = n + j
    BY <1>6 DEF OneTask
  <2> QED BY <2>1
<1>10. OneTask(s) => ~(HasTask(a) /\ HasTask(b))
  <2> SUFFICES ASSUME OneTask(s), NEW i \in 1 .. Len(a), NEW j \in 1 .. Len(b),
                      a[i] = "task", b[j] = "task"
               PROVE  FALSE
    BY DEF HasTask
  <2>1. i = n + j
    BY <1>5, <1>6 DEF OneTask
  <2> QED BY <2>1, <1>5, <1>6
<1> QED BY <1>1, <1>2, <1>4, <1>7, <1>8, <1>9, <1>10 DEF a, b

LEMMA Nothing == /\ <<>> \in Seq(Messages)
                 /\ ~HasTask(<<>>) /\ OneTask(<<>>)
BY DEF HasTask, OneTask

-----------------------------------------------------------------------------
(* The invariant is kept.                                                  *)

LEMMA Starts == Init => IInv
<1> SUFFICES ASSUME Init PROVE IInv
  OBVIOUS
<1>1. Types
  BY Nothing DEF Init, Types
<1> QED BY <1>1, Nothing DEF Init, IInv, Shape, NoneWhenEmpty, PollDone, OneWakeUp,
          WakeUpComing

\* Steps that leave the queue, the messages and the waking threads alone.
LEMMA Quiet ==
    ASSUME IInv, Types',
           mTaskHead' = mTaskHead, mTaskTailPos' = mTaskTailPos,
           pipe' = pipe, buf' = buf, mStop' = mStop,
           lpc' = "poll" => lpc = "poll" \/ buf = <<>>,
           \A t \in Threads : pc'[t] = "waking" <=> pc[t] = "waking"
    PROVE  IInv'
BY DEF IInv, Shape, NoneWhenEmpty, PollDone, OneWakeUp, WakeUpComing, HasTask, OneTask

LEMMA PostKeeps ==
    ASSUME IInv, NEW t \in Threads, PostStep(t)
    PROVE  IInv'
<1> USE DEF IInv
<1>1. CASE SeesStop(t)
  BY <1>1, Quiet DEF SeesStop, Types, queueVars, sockVars, loopVars
<1>2. CASE SeesNoStop(t)
  BY <1>2, Quiet DEF SeesNoStop, Types, queueVars, sockVars, loopVars
<1>3. CASE Link(t)
  <2>1. Types' /\ Shape'
    BY <1>3, TaskConstants DEF Link, Types, Shape, sockVars, loopVars
  <2>2. PollDone' /\ mTaskHead' # Null
    BY <1>3, TaskConstants DEF Link, Types, Shape, PollDone, loopVars
  <2>3. CASE mTaskHead = Null
    <3>1. \A u \in Threads : pc'[u] = "waking" <=> u = t
      BY <1>3, <2>3 DEF Link, WasEmpty, NoneWhenEmpty, Types
    <3>2. ~HasTask(pipe') /\ ~HasTask(buf') /\ OneTask(pipe') /\ OneTask(buf')
      BY <1>3, <2>3 DEF Link, NoneWhenEmpty, OneWakeUp, sockVars, loopVars
    <3> QED BY <2>1, <2>2, <3>1, <3>2 DEF NoneWhenEmpty, OneWakeUp, WakeUpComing
  <2>4. CASE mTaskHead # Null
    <3>1. \A u \in Threads : pc'[u] = "waking" <=> pc[u] = "waking"
      BY <1>3, <2>4 DEF Link, WasEmpty, Types
    <3>2. pipe' = pipe /\ buf' = buf /\ mStop' = mStop
      BY <1>3 DEF Link, sockVars, loopVars
    <3> QED BY <2>1, <2>2, <2>4, <3>1, <3>2 DEF NoneWhenEmpty, OneWakeUp, WakeUpComing
  <2> QED BY <2>3, <2>4
<1>4. CASE Wake(t)
  <2>1. /\ mTaskHead # Null /\ ~HasTask(pipe) /\ ~HasTask(buf)
        /\ \A u \in Threads : pc'[u] # "waking"
    BY <1>4 DEF Wake, Types, NoneWhenEmpty, OneWakeUp
  <2>2. UNCHANGED <<mTaskHead, mTaskTailPos, buf, lpc, mStop, hand>>
    BY <1>4 DEF Wake, queueVars, loopVars
  <2>3. Append(pipe, "task") \in Seq(Messages) /\ HasTask(Append(pipe, "task"))
        /\ OneTask(Append(pipe, "task"))
    BY <2>1, Put DEF Types, OneWakeUp, Messages
  <2>4. CASE mStop
    <3>1. pipe' = pipe
      BY <1>4, <2>4 DEF Wake
    <3>2. Types'
      BY <1>4, <2>2, <3>1 DEF Wake, Types
    <3> QED BY <2>1, <2>2, <2>4, <3>1, <3>2
            DEF Shape, NoneWhenEmpty, PollDone, OneWakeUp, WakeUpComing
  <2>5. CASE ~mStop
    <3>1. pipe' = Append(pipe, "task")
      BY <1>4, <2>5 DEF Wake
    <3>2. Types'
      BY <1>4, <2>2, <2>3, <3>1 DEF Wake, Types
    <3>3. HasTask(pipe') /\ OneTask(pipe') /\ ~HasTask(buf') /\ OneTask(buf')
      BY <2>1, <2>2, <2>3, <3>1 DEF OneWakeUp
    <3> QED BY <2>1, <2>2, <3>2, <3>3
            DEF Shape, NoneWhenEmpty, PollDone, OneWakeUp, WakeUpComing
  <2> QED BY <2>4, <2>5
<1> QED BY <1>1, <1>2, <1>3, <1>4 DEF PostStep

LEMMA PackKeeps ==
    ASSUME IInv, NEW t \in Threads, NEW j \in Jobs, Pack(t, j)
    PROVE  IInv'
<1>1. pc[t] = "out"
  BY DEF Pack, MayPost
<1>2. Types'
  BY <1>1 DEF IInv, Pack, Types, queueVars, sockVars, loopVars
<1> QED BY <1>1, <1>2, Quiet DEF IInv, Types, Pack, queueVars, sockVars, loopVars

LEMMA CommandKeeps == ASSUME IInv, PostCommand PROVE IInv'
<1>1. PICK m \in Messages : m # "task" /\ pipe' = Append(pipe, m)
  BY DEF PostCommand, Messages
<1>2. /\ pipe' \in Seq(Messages)
      /\ HasTask(pipe') <=> HasTask(pipe)
      /\ OneTask(pipe) => OneTask(pipe')
  BY <1>1, Put DEF IInv, Types
<1>3. UNCHANGED <<mTaskHead, mTaskTailPos, buf, lpc, mStop, hand, pc>>
  BY DEF PostCommand, queueVars, loopVars, postVars
<1> QED BY <1>2, <1>3 DEF IInv, Types, Shape, NoneWhenEmpty, PollDone, OneWakeUp,
          WakeUpComing, HasTask, OneTask

\* A stop empties the socket.
LEMMA StopKeeps ==
    ASSUME IInv, Stop, UNCHANGED <<mTaskHead, mTaskTailPos, hand, pc>>,
           buf' \in Seq(Messages), OneTask(buf'), HasTask(buf') => HasTask(buf),
           lpc' = "poll" => buf' = <<>>
    PROVE  IInv'
<1>1. /\ pipe' \in Seq(Messages) /\ OneTask(pipe')
      /\ HasTask(pipe') => HasTask(pipe)
  BY Nothing DEF Stop, IInv, Types, OneWakeUp
<1> QED BY <1>1 DEF Stop, IInv, Types, Shape, NoneWhenEmpty, PollDone, OneWakeUp,
          WakeUpComing

LEMMA LoopKeeps == ASSUME IInv, LoopStep PROVE IInv'
<1> USE DEF IInv
<1>1. CASE Receive
  <2>1. PICK n \in 0 .. Len(pipe) : /\ buf' = SubSeq(pipe, 1, n)
                                    /\ pipe' = SubSeq(pipe, n + 1, Len(pipe))
    BY <1>1 DEF Receive, PackKept
  <2>2. /\ buf' \in Seq(Messages) /\ pipe' \in Seq(Messages)
        /\ HasTask(pipe) <=> HasTask(buf') \/ HasTask(pipe')
        /\ OneTask(pipe) => OneTask(buf') /\ OneTask(pipe')
        /\ OneTask(pipe) => ~(HasTask(buf') /\ HasTask(pipe'))
    BY <2>1, Divide DEF Types
  <2>3. buf = <<>> /\ lpc' # "poll"
    BY <1>1 DEF Receive, InCallback, PollDone
  <2>4. UNCHANGED <<mTaskHead, mTaskTailPos, mStop, hand, pc>>
    BY <1>1 DEF Receive, queueVars, postVars
  <2> QED BY <2>2, <2>3, <2>4, Nothing
          DEF Types, Shape, NoneWhenEmpty, PollDone, OneWakeUp, WakeUpComing
<1>2. CASE ParseActive
  <2>1. /\ buf' \in Seq(Messages) /\ (HasTask(buf') <=> HasTask(buf))
        /\ OneTask(buf) => OneTask(buf')
    BY <1>2, Take DEF ParseActive, Types
  <2>2. UNCHANGED <<mTaskHead, mTaskTailPos, mStop, hand, pc, pipe, lpc>> /\ lpc # "poll"
    BY <1>2 DEF ParseActive, queueVars, postVars, sockVars
  <2> QED BY <2>1, <2>2
          DEF Types, Shape, NoneWhenEmpty, PollDone, OneWakeUp, WakeUpComing
<1>3. CASE ParseExit
  <2>1. /\ buf' \in Seq(Messages) /\ (HasTask(buf') <=> HasTask(buf))
        /\ OneTask(buf) => OneTask(buf')
    BY <1>3, Take DEF ParseExit, Types
  <2>2. UNCHANGED <<mTaskHead, mTaskTailPos, hand, pc, lpc>> /\ lpc # "poll" /\ Stop
    BY <1>3 DEF ParseExit, queueVars, postVars
  <2> QED BY <2>1, <2>2, StopKeeps DEF OneWakeUp
<1>4. CASE ParseTask
  <2>1. /\ buf' \in Seq(Messages) /\ ~HasTask(buf') /\ OneTask(buf') /\ HasTask(buf)
    BY <1>4, Take DEF ParseTask, Types, OneWakeUp
  <2>2. UNCHANGED <<mStop, hand, pc, pipe>> /\ lpc' # "poll"
        /\ mTaskHead' = Null /\ mTaskTailPos' = Null
    BY <1>4 DEF ParseTask, TailReset, postVars, sockVars
  <2> QED BY <2>1, <2>2
          DEF Types, Shape, NoneWhenEmpty, PollDone, OneWakeUp, WakeUpComing
<1>5. CASE ParseEnd
  BY <1>5, Quiet DEF ParseEnd, Types, queueVars, sockVars, postVars
<1>6. CASE RunTask
  BY <1>6, Quiet DEF RunTask, Types, queueVars, sockVars, postVars
<1>7. CASE TaskDone
  BY <1>7, Quiet DEF TaskDone, Types, queueVars, sockVars, postVars
<1> QED BY <1>1, <1>2, <1>3, <1>4, <1>5, <1>6, <1>7 DEF LoopStep

LEMMA AppStopKeeps == ASSUME IInv, AppStop PROVE IInv'
<1>1. UNCHANGED <<mTaskHead, mTaskTailPos, hand, pc, buf, lpc>> /\ Stop
  BY DEF AppStop, queueVars, postVars, loopVars
<1>2. buf' \in Seq(Messages) /\ OneTask(buf') /\ (HasTask(buf') => HasTask(buf))
      /\ (lpc' = "poll" => buf' = <<>>)
  BY <1>1 DEF IInv, Types, OneWakeUp, PollDone
<1> QED BY <1>1, <1>2, StopKeeps

LEMMA Inductive == IInv /\ [Next]_vars => IInv'
<1> SUFFICES ASSUME IInv, [Next]_vars PROVE IInv'
  OBVIOUS
<1>1. CASE Next
  BY <1>1, PostKeeps, PackKeeps, CommandKeeps, AppStopKeeps, LoopKeeps DEF Next
<1>2. CASE UNCHANGED vars
  BY <1>2 DEF IInv, vars, queueVars, sockVars, loopVars, postVars, Types, Shape,
     NoneWhenEmpty, PollDone, OneWakeUp, WakeUpComing, HasTask, OneTask
<1> QED BY <1>1, <1>2

-----------------------------------------------------------------------------
(* Tasks are run in the order they were linked.  The lists hang together by  *)
(* mNext, so what is said of them is said of the nodes they consist of: the  *)
(* node of every task that is not over yet, q, and those that are idle, e.   *)

OrderTypes ==
    /\ mTaskHead \in Nodes \cup {Null} /\ mTaskTailPos \in Nodes \cup {Null}
    /\ mNext \in [Nodes -> Nodes \cup {Null}] /\ mData \in [Nodes -> Jobs]
    /\ mTaskIdleCount \in Nat /\ heap \subseteq Nodes
    /\ pc \in [Threads -> {"out", "packed", "linking", "waking"}]
    /\ hand \in [Threads -> Nodes \cup {Null}]
    /\ lpc \in {"poll", "parse", "walk", "running"}
    /\ linked \in Seq(Jobs) /\ ran \in Seq(Jobs)

\* The first task that still has its node: the one that runs, or the next.
First == IF lpc = "running" THEN Len(ran) ELSE Len(ran) + 1
Left  == First .. Len(linked)

\* q[k] is the node of the k-th task; those up to b are in the loop's batch
\* and the others in the queue.
TaskNodes(b, q) ==
    /\ q \in [1 .. Len(linked) -> Nodes]
    /\ b \in Len(ran) .. Len(linked)
    /\ \A k \in Left :
          /\ mData[q[k]] = linked[k]
          /\ mNext[q[k]] = IF k = b \/ k = Len(linked) THEN Null ELSE q[k + 1]
    /\ IF b = Len(linked) THEN mTaskHead = Null /\ mTaskTailPos = Null
       ELSE mTaskHead = q[b + 1] /\ mTaskTailPos = q[Len(linked)]
    /\ IF lpc \in {"walk", "running"} THEN First \in 1 .. b /\ walk = q[First]
                                     ELSE b = Len(ran)

\* e[i] is the node with i - 1 idle ones behind it.
IdleNodes(e) ==
    /\ e \in [1 .. mTaskIdleCount -> Nodes]
    /\ mTaskHeadIdle = IF mTaskIdleCount = 0 THEN Null ELSE e[mTaskIdleCount]
    /\ \A i \in 1 .. mTaskIdleCount :
          mNext[e[i]] = IF i = 1 THEN Null ELSE e[i - 1]

\* A thread between popTaskNode() and the end of its critical section.
Holding(t) == pc[t] \in {"packed", "linking"}

\* No node is in two of these places, and all are allocated.
Apart(q, e) ==
    /\ \A k \in Left : q[k] \in heap /\ \A l \in Left : q[k] = q[l] => k = l
    /\ \A i \in 1 .. mTaskIdleCount :
          /\ e[i] \in heap
          /\ \A j \in 1 .. mTaskIdleCount : e[i] = e[j] => i = j
          /\ \A k \in Left : q[k] # e[i]
    /\ \A t \in Threads : Holding(t) =>
          /\ hand[t] \in heap
          /\ \A k \in Left : hand[t] # q[k]
          /\ \A i \in 1 .. mTaskIdleCount : hand[t] # e[i]
          /\ \A u \in Threads : Holding(u) /\ hand[t] = hand[u] => t = u

OrderInv ==
    /\ OrderTypes
    /\ \E b \in 0 .. Len(linked) : \E q \in [1 .. Len(linked) -> Nodes] :
          \E e \in [1 .. mTaskIdleCount -> Nodes] :
             TaskNodes(b, q) /\ IdleNodes(e) /\ Apart(q, e)

\* To prove OrderInv of a state it is enough to name the nodes.
LEMMA OrderWitness ==
    ASSUME OrderTypes', NEW b \in 0 .. Len(linked'),
           NEW q \in [1 .. Len(linked') -> Nodes],
           NEW e \in [1 .. mTaskIdleCount' -> Nodes],
           TaskNodes(b, q)', IdleNodes(e)', Apart(q, e)'
    PROVE  OrderInv'
  BY DEF OrderInv

\* Steps that change neither the lists nor who holds a node.
LEMMA OrderQuiet ==
    ASSUME OrderInv, OrderTypes',
           UNCHANGED <<mTaskHead, mTaskTailPos, linked, mNext, mData>>,
           UNCHANGED <<mTaskHeadIdle, mTaskIdleCount, heap, hand, ran, walk>>,
           lpc' = lpc \/ (lpc \in {"poll", "parse"} /\ lpc' \in {"poll", "parse"}),
           \A t \in Threads : Holding(t)' <=> Holding(t)
    PROVE  OrderInv'
<1>1. PICK b \in 0 .. Len(linked), q \in [1 .. Len(linked) -> Nodes],
           e \in [1 .. mTaskIdleCount -> Nodes] :
             TaskNodes(b, q) /\ IdleNodes(e) /\ Apart(q, e)
  BY DEF OrderInv
<1>2. First' = First /\ Left' = Left
  BY DEF First, Left
<1>3. TaskNodes(b, q)' /\ IdleNodes(e)'
  BY <1>1, <1>2 DEF TaskNodes, IdleNodes
<1>4. Apart(q, e)'
  BY <1>1, <1>2 DEF Apart
<1> QED BY <1>3, <1>4, OrderWitness

\* What First can be.
LEMMA LeftRange ==
    ASSUME OrderTypes, NEW b, NEW q, TaskNodes(b, q)
    PROVE  /\ Len(linked) \in Nat /\ Len(ran) \in Nat /\ First \in Nat \ {0}
           /\ b \in Nat /\ Len(ran) <= b /\ b <= Len(linked) /\ b + 1 >= First
           /\ \A k \in Left : k \in 1 .. Len(linked) /\ q[k] \in Nodes
<1>1. Len(linked) \in Nat /\ Len(ran) \in Nat
  BY DEF OrderTypes
<1>2. b \in Nat /\ Len(ran) <= b /\ b <= Len(linked)
  BY <1>1 DEF TaskNodes
<1>3. First \in Nat \ {0} /\ b + 1 >= First
  BY <1>1, <1>2 DEF First, TaskNodes
<1> QED BY <1>1, <1>2, <1>3 DEF Left, TaskNodes

\* popTaskNode(), and the node is cleared and packed: no other one changes.
LEMMA OrderPack ==
    ASSUME OrderInv, NEW t \in Threads, NEW j \in Jobs, Pack(t, j)
    PROVE  OrderInv'
<1>1. PICK b \in 0 .. Len(linked), q \in [1 .. Len(linked) -> Nodes],
           e \in [1 .. mTaskIdleCount -> Nodes] :
             TaskNodes(b, q) /\ IdleNodes(e) /\ Apart(q, e)
  BY DEF OrderInv
<1>2. PICK n \in Nodes :
        /\ PopNode(n)
        /\ mNext' = [mNext EXCEPT ![n] = Null]
        /\ mData' = [mData EXCEPT ![n] = j]
        /\ hand' = [hand EXCEPT ![t] = n]
  BY DEF Pack
<1>3. /\ pc[t] = "out" /\ pc' = [pc EXCEPT ![t] = "packed"]
      /\ UNCHANGED <<mTaskHead, mTaskTailPos, linked, lpc, walk, ran>>
  BY DEF Pack, MayPost, queueVars, loopVars
<1>4. First' = First /\ Left' = Left
  BY <1>3 DEF First, Left
<1>5. OrderTypes
  BY DEF OrderInv
<1>6. \A k \in Left : q[k] \in Nodes /\ k \in 1 .. Len(linked)
  BY <1>1, <1>5, LeftRange
<1>7. \A u \in Threads : Holding(u)' <=> Holding(u) \/ u = t
  BY <1>3, <1>5 DEF Holding, OrderTypes
<1>8. ASSUME \A k \in Left : q[k] # n
      PROVE  TaskNodes(b, q)'
  <2>1. \A k \in Left : mData'[q[k]] = mData[q[k]] /\ mNext'[q[k]] = mNext[q[k]]
    BY <1>2, <1>5, <1>6, <1>8 DEF OrderTypes
  <2> QED BY <1>1, <1>3, <1>4, <2>1 DEF TaskNodes
<1>9. CASE mTaskHeadIdle # Null
  <2>1. /\ n = mTaskHeadIdle /\ heap' = heap
        /\ mTaskHeadIdle' = mNext[n] /\ mTaskIdleCount' = mTaskIdleCount - 1
    BY <1>2, <1>9 DEF PopNode
  <2>2. mTaskIdleCount \in Nat \ {0} /\ n = e[mTaskIdleCount]
    BY <1>1, <1>5, <1>9, <2>1 DEF IdleNodes, OrderTypes
  <2>3. PICK f : f = [i \in 1 .. mTaskIdleCount' |-> e[i]]
    OBVIOUS
  <2>4. /\ mTaskIdleCount' \in Nat
        /\ \A i \in 1 .. mTaskIdleCount' :
              i \in 1 .. mTaskIdleCount /\ i # mTaskIdleCount /\ f[i] = e[i]
        /\ f \in [1 .. mTaskIdleCount' -> Nodes]
    BY <2>1, <2>2, <2>3
  <2>5. \A i \in 1 .. mTaskIdleCount' : f[i] # n /\ mNext'[f[i]] = mNext[e[i]]
    BY <1>1, <1>2, <1>5, <2>2, <2>4 DEF Apart, OrderTypes
  <2>6. IdleNodes(f)'
    <3>1. mTaskHeadIdle' = IF mTaskIdleCount' = 0 THEN Null ELSE f[mTaskIdleCount']
      BY <1>1, <2>1, <2>2, <2>4 DEF IdleNodes
    <3>2. \A i \in 1 .. mTaskIdleCount' :
            mNext'[f[i]] = IF i = 1 THEN Null ELSE f[i - 1]
      BY <1>1, <2>1, <2>2, <2>4, <2>5 DEF IdleNodes
    <3> QED BY <2>4, <3>1, <3>2 DEF IdleNodes
  <2>7. \A k \in Left : q[k] # n
    BY <1>1, <2>2 DEF Apart
  <2>8. \A u \in Threads : Holding(u) => hand[u] # n
    BY <1>1, <2>2 DEF Apart
  <2>9. n \in heap
    BY <1>1, <2>2 DEF Apart
  <2>10. Apart(q, f)'
    <3>1. /\ hand'[t] = n
          /\ \A u \in Threads \ {t} : hand'[u] = hand[u]
      BY <1>2, <1>5 DEF OrderTypes
    <3>2. \A u \in Threads : Holding(u)' =>
            /\ hand'[u] \in heap'
            /\ \A k \in Left : hand'[u] # q[k]
            /\ \A i \in 1 .. mTaskIdleCount' : hand'[u] # f[i]
      BY <1>1, <1>7, <2>1, <2>4, <2>5, <2>7, <2>9, <3>1 DEF Apart
    <3>3. \A u, v \in Threads : Holding(u)' /\ Holding(v)' /\ hand'[u] = hand'[v] => u = v
      BY <1>1, <1>7, <2>8, <3>1 DEF Apart
    <3> QED BY <1>1, <1>4, <2>1, <2>4, <3>2, <3>3 DEF Apart
  <2>11. OrderTypes'
    BY <1>2, <1>3, <1>5, <2>1, <2>4 DEF OrderTypes
  <2> QED BY <1>3, <1>8, <2>4, <2>6, <2>7, <2>10, <2>11, OrderWitness
<1>10. CASE mTaskHeadIdle = Null
  <2>1. /\ n \notin heap /\ heap' = heap \cup {n}
        /\ UNCHANGED <<mTaskHeadIdle, mTaskIdleCount>>
    BY <1>2, <1>10 DEF PopNode
  <2>2. \A k \in Left : q[k] # n
    BY <1>1, <2>1 DEF Apart
  <2>3. \A i \in 1 .. mTaskIdleCount : e[i] # n
    BY <1>1, <2>1 DEF Apart
  <2>4. IdleNodes(e)'
    <3>1. \A i \in 1 .. mTaskIdleCount : mNext'[e[i]] = mNext[e[i]]
      BY <1>2, <1>5, <2>3 DEF OrderTypes
    <3> QED BY <1>1, <2>1, <3>1 DEF IdleNodes
  <2>5. Apart(q, e)'
    <3>1. /\ hand'[t] = n
          /\ \A u \in Threads \ {t} : hand'[u] = hand[u]
      BY <1>2, <1>5 DEF OrderTypes
    <3>2. \A u \in Threads : Holding(u)' =>
            /\ hand'[u] \in heap'
            /\ \A k \in Left : hand'[u] # q[k]
            /\ \A i \in 1 .. mTaskIdleCount : hand'[u] # e[i]
      BY <1>1, <1>7, <2>1, <2>2, <2>3, <3>1 DEF Apart
    <3>3. \A u, v \in Threads : Holding(u)' /\ Holding(v)' /\ hand'[u] = hand'[v] => u = v
      BY <1>1, <1>7, <2>1, <3>1 DEF Apart
    <3> QED BY <1>1, <1>4, <2>1, <3>2, <3>3 DEF Apart
  <2>6. OrderTypes'
    BY <1>2, <1>3, <1>5, <2>1 DEF OrderTypes
  <2> QED BY <1>3, <1>8, <2>1, <2>2, <2>4, <2>5, <2>6, OrderWitness
<1> QED BY <1>9, <1>10

\* A step that gives node n back to the idle list, or deletes it, and takes no
\* other node from its place.
GivenBack(q, e, f, n) ==
    /\ Apart(q, e)
    /\ Left' \subseteq Left /\ \A k \in Left' : q[k] # n
    /\ \A i \in 1 .. mTaskIdleCount : e[i] # n
    /\ \A i \in 1 .. mTaskIdleCount' :
          \/ i \in 1 .. mTaskIdleCount /\ f[i] = e[i]
          \/ i = mTaskIdleCount + 1 /\ f[i] = n /\ n \in heap'
    /\ heap \ {n} \subseteq heap'
    /\ \A u \in Threads : Holding(u)' => Holding(u) /\ hand'[u] = hand[u]
                                                   /\ hand[u] # n

\* The nodes are apart afterwards as well.
LEMMA OrderApart ==
    ASSUME NEW q, NEW e, NEW f, NEW n, GivenBack(q, e, f, n)
    PROVE  Apart(q, f)'
<1> USE DEF GivenBack
<1>1. \A k \in Left' : q[k] \in heap' /\ \A l \in Left' : q[k] = q[l] => k = l
  BY DEF Apart
<1>2. \A i \in 1 .. mTaskIdleCount' :
        /\ f[i] \in heap'
        /\ \A j \in 1 .. mTaskIdleCount' : f[i] = f[j] => i = j
        /\ \A k \in Left' : q[k] # f[i]
  BY DEF Apart
<1>3. \A u \in Threads : Holding(u)' =>
        /\ hand'[u] \in heap'
        /\ \A k \in Left' : hand'[u] # q[k]
        /\ \A i \in 1 .. mTaskIdleCount' : hand'[u] # f[i]
        /\ \A v \in Threads : Holding(v)' /\ hand'[u] = hand'[v] => u = v
  BY DEF Apart
<1> QED BY <1>1, <1>2, <1>3 DEF Apart

\* pushTaskNode(n): n is idle then, or it is not allocated any more.
LEMMA OrderPush ==
    ASSUME OrderTypes, NEW e \in [1 .. mTaskIdleCount -> Nodes], IdleNodes(e),
           NEW n \in Nodes, \A i \in 1 .. mTaskIdleCount : e[i] # n,
           n \in heap, PushNode(n)
    PROVE  /\ mTaskIdleCount' \in Nat /\ mNext' \in [Nodes -> Nodes \cup {Null}]
           /\ \A x \in Nodes \ {n} : mNext'[x] = mNext[x]
           /\ heap \ {n} \subseteq heap' /\ heap' \subseteq heap
           /\ \E f \in [1 .. mTaskIdleCount' -> Nodes] :
                 /\ IdleNodes(f)'
                 /\ \A i \in 1 .. mTaskIdleCount' :
                       \/ i \in 1 .. mTaskIdleCount /\ f[i] = e[i]
                       \/ i = mTaskIdleCount + 1 /\ f[i] = n /\ n \in heap'
<1> USE DEF OrderTypes
<1>1. CASE KeepNode
  <2>1. /\ mNext' = [mNext EXCEPT ![n] = mTaskHeadIdle]
        /\ mTaskHeadIdle' = n /\ heap' = heap
        /\ mTaskIdleCount' = mTaskIdleCount + 1
    BY <1>1 DEF PushNode
  <2>2. mTaskHeadIdle \in Nodes \cup {Null}
    BY DEF IdleNodes
  <2>3. PICK f : f = [i \in 1 .. mTaskIdleCount + 1 |->
                        IF i = mTaskIdleCount + 1 THEN n ELSE e[i]]
    OBVIOUS
  <2>4. /\ f \in [1 .. mTaskIdleCount' -> Nodes]
        /\ f[mTaskIdleCount + 1] = n
        /\ \A i \in 1 .. mTaskIdleCount : f[i] = e[i]
    BY <2>1, <2>3
  <2>5. \A i \in 1 .. mTaskIdleCount :
          mNext'[e[i]] = IF i = 1 THEN Null ELSE e[i - 1]
    BY <2>1 DEF IdleNodes
  <2>6. mNext'[n] = IF mTaskIdleCount = 0 THEN Null ELSE e[mTaskIdleCount]
    BY <2>1 DEF IdleNodes
  <2>7. \A i \in 1 .. mTaskIdleCount' :
          mNext'[f[i]] = IF i = 1 THEN Null ELSE f[i - 1]
    BY <2>1, <2>4, <2>5, <2>6
  <2>8. IdleNodes(f)'
    BY <2>1, <2>4, <2>7 DEF IdleNodes
  <2>9. \A i \in 1 .. mTaskIdleCount' :
          \/ i \in 1 .. mTaskIdleCount /\ f[i] = e[i]
          \/ i = mTaskIdleCount + 1 /\ f[i] = n /\ n \in heap'
    BY <2>1, <2>4
  <2> QED BY <2>1, <2>2, <2>4, <2>8, <2>9
<1>2. CASE ~KeepNode
  <2>1. heap' = heap \ {n} /\ UNCHANGED <<mNext, mTaskHeadIdle, mTaskIdleCount>>
    BY <1>2 DEF PushNode
  <2>2. IdleNodes(e)'
    BY <2>1 DEF IdleNodes
  <2> QED BY <2>1, <2>2
<1> QED BY <1>1, <1>2

\* postTask() on a loop that is stopped gives its node back.
LEMMA OrderSeesStop ==
    ASSUME OrderInv, Types, NEW t \in Threads, SeesStop(t)
    PROVE  OrderInv'
<1>1. PICK b \in 0 .. Len(linked), q \in [1 .. Len(linked) -> Nodes],
           e \in [1 .. mTaskIdleCount -> Nodes] :
             TaskNodes(b, q) /\ IdleNodes(e) /\ Apart(q, e)
  BY DEF OrderInv
<1>2. OrderTypes
  BY DEF OrderInv
<1>3. /\ pc[t] = "packed" /\ PushNode(hand[t]) /\ Holding(t)
      /\ pc' = [pc EXCEPT ![t] = "out"] /\ hand' = [hand EXCEPT ![t] = Null]
      /\ UNCHANGED <<mTaskHead, mTaskTailPos, linked, mData, lpc, walk, ran>>
  BY DEF SeesStop, Holding, queueVars, loopVars
<1>4. PICK n \in Nodes : n = hand[t]
  BY <1>3 DEF Types
<1>5. /\ n \in heap
      /\ \A k \in Left : q[k] # n
      /\ \A i \in 1 .. mTaskIdleCount : e[i] # n
      /\ \A u \in Threads \ {t} : Holding(u) => hand[u] # n
  BY <1>1, <1>3, <1>4 DEF Apart
<1>6. PICK f \in [1 .. mTaskIdleCount' -> Nodes] :
        /\ IdleNodes(f)'
        /\ \A i \in 1 .. mTaskIdleCount' :
              \/ i \in 1 .. mTaskIdleCount /\ f[i] = e[i]
              \/ i = mTaskIdleCount + 1 /\ f[i] = n /\ n \in heap'
  BY <1>1, <1>2, <1>3, <1>4, <1>5, OrderPush
<1>7. /\ mTaskIdleCount' \in Nat /\ mNext' \in [Nodes -> Nodes \cup {Null}]
      /\ \A x \in Nodes \ {n} : mNext'[x] = mNext[x]
      /\ heap \ {n} \subseteq heap' /\ heap' \subseteq heap
  BY <1>1, <1>2, <1>3, <1>4, <1>5, OrderPush
<1>8. First' = First /\ Left' = Left /\ \A k \in Left : q[k] \in Nodes
  BY <1>1, <1>2, <1>3, LeftRange DEF First, Left
<1>9. TaskNodes(b, q)'
  BY <1>1, <1>3, <1>5, <1>7, <1>8 DEF TaskNodes
<1>10. \A u \in Threads : Holding(u)' => Holding(u) /\ u # t /\ hand'[u] = hand[u]
  BY <1>2, <1>3 DEF Holding, OrderTypes
<1>11. Apart(q, f)'
  <2>1. \A u \in Threads : Holding(u)' => Holding(u) /\ hand'[u] = hand[u] /\ hand[u] # n
    BY <1>5, <1>10
  <2>2. Left' \subseteq Left /\ \A k \in Left' : q[k] # n
    BY <1>5, <1>8
  <2>3. \A i \in 1 .. mTaskIdleCount' :
          \/ i \in 1 .. mTaskIdleCount /\ f[i] = e[i]
          \/ i = mTaskIdleCount + 1 /\ f[i] = n /\ n \in heap'
    BY <1>6
  <2>4. Apart(q, e) /\ \A i \in 1 .. mTaskIdleCount : e[i] # n
    BY <1>1, <1>5
  <2>5. heap \ {n} \subseteq heap'
    BY <1>7
  <2>6. GivenBack(q, e, f, n)
    BY <2>1, <2>2, <2>3, <2>4, <2>5 DEF GivenBack
  <2> QED BY <2>6, OrderApart
<1>12. OrderTypes'
  BY <1>2, <1>3, <1>7 DEF OrderTypes
<1> QED BY <1>3, <1>6, <1>9, <1>11, <1>12, OrderWitness

\* The node is linked behind the last one, or at mTaskHead.
LEMMA OrderLink ==
    ASSUME OrderInv, Types, NEW t \in Threads, Link(t)
    PROVE  OrderInv'
<1>1. PICK b \in 0 .. Len(linked), q \in [1 .. Len(linked) -> Nodes],
           e \in [1 .. mTaskIdleCount -> Nodes] :
             TaskNodes(b, q) /\ IdleNodes(e) /\ Apart(q, e)
  BY DEF OrderInv
<1>2. OrderTypes
  BY DEF OrderInv
<1>3. /\ pc[t] = "linking" /\ Holding(t)
      /\ pc' = [pc EXCEPT ![t] = IF WasEmpty THEN "waking" ELSE "out"]
      /\ hand' = [hand EXCEPT ![t] = Null]
      /\ UNCHANGED <<mData, mTaskHeadIdle, mTaskIdleCount, heap, lpc, walk, ran>>
  BY DEF Link, Holding, idleVars, loopVars
<1>4. PICK n \in Nodes : n = hand[t]
  BY <1>3 DEF Types
<1>5. /\ mNext' = [x \in Nodes |-> IF x = n THEN Null
                                   ELSE IF x = mTaskTailPos THEN n ELSE mNext[x]]
      /\ mTaskHead' = IF mTaskTailPos = Null THEN n ELSE mTaskHead
      /\ mTaskTailPos' = n
      /\ linked' = Append(linked, mData[n])
  BY <1>4 DEF Link
<1>6. /\ n \in heap
      /\ \A k \in Left : q[k] # n
      /\ \A i \in 1 .. mTaskIdleCount : e[i] # n
      /\ \A u \in Threads \ {t} : Holding(u) => hand[u] # n
  BY <1>1, <1>3, <1>4 DEF Apart
<1> DEFINE L == Len(linked)
<1>7. /\ L \in Nat /\ Len(ran) \in Nat /\ First \in Nat \ {0}
      /\ b \in Nat /\ Len(ran) <= b /\ b <= L /\ b + 1 >= First
      /\ \A k \in Left : k \in 1 .. L /\ q[k] \in Nodes
  BY <1>1, <1>2, LeftRange
<1>8. /\ linked' \in Seq(Jobs) /\ Len(linked') = L + 1
      /\ linked'[L + 1] = mData[n]
      /\ \A k \in 1 .. L : linked'[k] = linked[k]
  BY <1>2, <1>5 DEF OrderTypes
<1>9. First' = First /\ Left' = Left \cup {L + 1} /\ L + 1 \notin Left
  BY <1>3, <1>7, <1>8 DEF First, Left
<1>10. PICK p : p = [k \in 1 .. L + 1 |-> IF k = L + 1 THEN n ELSE q[k]]
  OBVIOUS
<1>11. /\ p \in [1 .. L + 1 -> Nodes] /\ p[L + 1] = n
       /\ \A k \in 1 .. L : p[k] = q[k]
  BY <1>7, <1>10
<1>12. /\ b < L => /\ mTaskTailPos = q[L] /\ L \in Left /\ mTaskTailPos # Null
                   /\ mTaskHead = q[b + 1]
       /\ b = L => mTaskTailPos = Null
  BY <1>1, <1>7, TaskConstants DEF TaskNodes, Left
<1>13. \A k \in Left : k # L => q[k] # mTaskTailPos
  BY <1>1, <1>7, <1>12, TaskConstants DEF Apart
<1>14. \A k \in Left' : mNext'[p[k]] = IF k = b \/ k = Len(linked') THEN Null ELSE p[k + 1]
  <2>1. ASSUME NEW k \in Left, k # L \/ b = L
        PROVE  mNext'[p[k]] = IF k = b \/ k = L + 1 THEN Null ELSE p[k + 1]
    <3>1. q[k] # n /\ q[k] # mTaskTailPos /\ q[k] \in Nodes /\ p[k] = q[k]
      BY <1>6, <1>7, <1>11, <1>12, <1>13, <2>1, TaskConstants
    <3>2. mNext'[q[k]] = mNext[q[k]]
      BY <1>5, <3>1
    <3>3. mNext[q[k]] = IF k = b \/ k = L THEN Null ELSE q[k + 1]
      BY <1>1, <2>1 DEF TaskNodes
    <3>4. k # L => p[k + 1] = q[k + 1]
      BY <1>7, <1>11, <2>1
    <3>5. k # L + 1
      BY <1>7, <2>1
    <3> QED BY <2>1, <3>1, <3>2, <3>3, <3>4, <3>5
  <2>2. ASSUME b < L
        PROVE  mNext'[p[L]] = p[L + 1] /\ L # b /\ L # L + 1
    BY <1>5, <1>6, <1>7, <1>11, <1>12, <2>2
  <2>3. mNext'[p[L + 1]] = Null
    BY <1>5, <1>11
  <2> QED BY <1>7, <1>8, <1>9, <2>1, <2>2, <2>3
<1>15. TaskNodes(b, p)'
  <2>1. \A k \in Left' : mData'[p[k]] = linked'[k]
    BY <1>1, <1>3, <1>7, <1>8, <1>9, <1>11 DEF TaskNodes
  <2>2. b \in Len(ran') .. Len(linked') /\ b # Len(linked')
    BY <1>3, <1>7, <1>8
  <2>3. mTaskHead' = p[b + 1] /\ mTaskTailPos' = p[Len(linked')]
    BY <1>5, <1>7, <1>8, <1>11, <1>12
  <2>4. IF lpc' \in {"walk", "running"} THEN First' \in 1 .. b /\ walk' = p[First']
                                        ELSE b = Len(ran')
    BY <1>1, <1>3, <1>7, <1>9, <1>11 DEF TaskNodes
  <2> QED BY <1>8, <1>11, <1>14, <2>1, <2>2, <2>3, <2>4 DEF TaskNodes
<1>16. IdleNodes(e)'
  <2>1. \A i \in 1 .. mTaskIdleCount : e[i] # n /\ e[i] # mTaskTailPos
    BY <1>1, <1>6, <1>7, <1>12, TaskConstants DEF Apart
  <2>2. \A i \in 1 .. mTaskIdleCount : mNext'[e[i]] = mNext[e[i]]
    BY <1>5, <2>1
  <2> QED BY <1>1, <1>3, <2>2 DEF IdleNodes
<1>17. \A u \in Threads : Holding(u)' => Holding(u) /\ u # t /\ hand'[u] = hand[u]
  BY <1>2, <1>3 DEF Holding, OrderTypes
<1>18. Apart(p, e)'
  <2>1. \A k \in Left' : (k \in Left /\ p[k] = q[k]) \/ (k = L + 1 /\ p[k] = n)
    BY <1>7, <1>9, <1>11
  <2>2. \A k \in Left' : p[k] \in heap /\ \A l \in Left' : p[k] = p[l] => k = l
    BY <1>1, <1>6, <2>1 DEF Apart
  <2>3. \A i \in 1 .. mTaskIdleCount :
          /\ e[i] \in heap
          /\ \A j \in 1 .. mTaskIdleCount : e[i] = e[j] => i = j
          /\ \A k \in Left' : p[k] # e[i]
    BY <1>1, <1>6, <2>1 DEF Apart
  <2>4. \A u \in Threads : Holding(u)' =>
          /\ hand'[u] \in heap
          /\ \A k \in Left' : hand'[u] # p[k]
          /\ \A i \in 1 .. mTaskIdleCount : hand'[u] # e[i]
          /\ \A v \in Threads : Holding(v)' /\ hand'[u] = hand'[v] => u = v
    BY <1>1, <1>6, <1>17, <2>1 DEF Apart
  <2> QED BY <1>3, <2>2, <2>3, <2>4 DEF Apart
<1>19. OrderTypes'
  <2>1. mNext' \in [Nodes -> Nodes \cup {Null}]
    BY <1>2, <1>5 DEF OrderTypes
  <2>2. /\ mTaskHead' \in Nodes \cup {Null} /\ mTaskTailPos' \in Nodes \cup {Null}
        /\ hand' \in [Threads -> Nodes \cup {Null}]
        /\ pc' \in [Threads -> {"out", "packed", "linking", "waking"}]
    BY <1>2, <1>3, <1>5 DEF OrderTypes
  <2> QED BY <1>2, <1>3, <1>8, <2>1, <2>2 DEF OrderTypes
<1> QED
  BY <1>3, <1>7, <1>8, <1>11, <1>15, <1>16, <1>18, <1>19, OrderWitness

\* onTask() takes the queue, runs each task and gives its node back after it
\* has read its successor.
LEMMA OrderLoop ==
    ASSUME OrderInv, TaskDone \/ ParseTask \/ RunTask
    PROVE  OrderInv'
<1>1. PICK b \in 0 .. Len(linked), q \in [1 .. Len(linked) -> Nodes],
           e \in [1 .. mTaskIdleCount -> Nodes] :
             TaskNodes(b, q) /\ IdleNodes(e) /\ Apart(q, e)
  BY DEF OrderInv
<1>2. OrderTypes
  BY DEF OrderInv
<1> DEFINE L == Len(linked)
<1>3. /\ L \in Nat /\ Len(ran) \in Nat /\ First \in Nat \ {0}
      /\ b \in Nat /\ Len(ran) <= b /\ b <= L /\ b + 1 >= First
      /\ \A k \in Left : k \in 1 .. L /\ q[k] \in Nodes
  BY <1>1, <1>2, LeftRange
<1>4. CASE ParseTask
  <2>1. /\ lpc = "parse" /\ walk' = mTaskHead
        /\ mTaskHead' = Null /\ mTaskTailPos' = Null
        /\ lpc' = IF mTaskHead = Null THEN "parse" ELSE "walk"
        /\ UNCHANGED <<mNext, mData, mTaskHeadIdle, mTaskIdleCount, heap, pc, hand,
                       ran, linked>>
    BY <1>4 DEF ParseTask, TailReset, nodeVars, idleVars, postVars
  <2>2. First = Len(ran) + 1 /\ First' = First /\ Left' = Left /\ b = Len(ran)
    BY <1>1, <2>1 DEF First, Left, TaskNodes
  <2>3. \A k \in Left : k # b
    BY <1>3, <2>2 DEF Left
  <2>4. (b = L => mTaskHead = Null) /\ (b # L => mTaskHead = q[First] /\ mTaskHead # Null)
    BY <1>1, <1>3, <2>2, TaskConstants DEF TaskNodes, Left
  <2>5. TaskNodes(L, q)'
    BY <1>1, <1>3, <2>1, <2>2, <2>3, <2>4 DEF TaskNodes
  <2>6. IdleNodes(e)' /\ Apart(q, e)'
    BY <1>1, <2>1, <2>2 DEF IdleNodes, Apart, Holding
  <2>7. OrderTypes'
    BY <1>2, <2>1 DEF OrderTypes
  <2> QED BY <1>3, <2>1, <2>5, <2>6, <2>7, OrderWitness
<1>5. CASE RunTask
  <2>1. /\ lpc = "walk" /\ lpc' = "running" /\ ran' = Append(ran, mData[walk])
        /\ UNCHANGED <<mTaskHead, mTaskTailPos, linked, mNext, mData, mTaskHeadIdle,
                       mTaskIdleCount, heap, pc, hand, walk>>
    BY <1>5 DEF RunTask, queueVars, nodeVars, idleVars, postVars
  <2>2. First \in 1 .. b /\ walk = q[First] /\ First = Len(ran) + 1 /\ First \in Left
    BY <1>1, <1>3, <2>1 DEF TaskNodes, First, Left
  <2>3. ran' \in Seq(Jobs) /\ Len(ran') = Len(ran) + 1
    BY <1>2, <1>3, <2>1, <2>2 DEF OrderTypes
  <2>4. First' = First /\ Left' = Left
    BY <2>1, <2>2, <2>3 DEF First, Left
  <2>5. TaskNodes(b, q)'
    BY <1>1, <1>3, <2>1, <2>2, <2>3, <2>4 DEF TaskNodes
  <2>6. IdleNodes(e)' /\ Apart(q, e)'
    BY <1>1, <2>1, <2>4 DEF IdleNodes, Apart, Holding
  <2>7. OrderTypes'
    BY <1>2, <2>1, <2>3 DEF OrderTypes
  <2> QED BY <2>1, <2>5, <2>6, <2>7, OrderWitness
<1>6. CASE TaskDone
  <2>1. /\ lpc = "running" /\ PushNode(walk) /\ walk' = mNext[walk]
        /\ lpc' = IF walk' = Null THEN "parse" ELSE "walk"
        /\ UNCHANGED <<mTaskHead, mTaskTailPos, linked, mData, pc, hand, ran>>
    BY <1>6 DEF TaskDone, InTask, NextOf, queueVars, postVars
  <2>2. /\ First = Len(ran) /\ First \in 1 .. b /\ walk = q[First] /\ First \in Left
        /\ First' = First + 1 /\ Left' = Left \ {First}
    BY <1>1, <1>3, <2>1 DEF TaskNodes, First, Left
  <2>3. PICK n \in Nodes : n = walk
    BY <1>3, <2>2
  <2>4. /\ n \in heap
        /\ \A k \in Left' : k \in Left /\ q[k] # n
        /\ \A i \in 1 .. mTaskIdleCount : e[i] # n
        /\ \A u \in Threads : Holding(u) => hand[u] # n
    BY <1>1, <2>2, <2>3 DEF Apart
  <2>5. PICK f \in [1 .. mTaskIdleCount' -> Nodes] :
          /\ IdleNodes(f)'
          /\ \A i \in 1 .. mTaskIdleCount' :
                \/ i \in 1 .. mTaskIdleCount /\ f[i] = e[i]
                \/ i = mTaskIdleCount + 1 /\ f[i] = n /\ n \in heap'
    BY <1>1, <1>2, <2>1, <2>3, <2>4, OrderPush
  <2>6. /\ mTaskIdleCount' \in Nat /\ mNext' \in [Nodes -> Nodes \cup {Null}]
        /\ \A x \in Nodes \ {n} : mNext'[x] = mNext[x]
        /\ heap \ {n} \subseteq heap' /\ heap' \subseteq heap
    BY <1>1, <1>2, <2>1, <2>3, <2>4, OrderPush
  <2>7. walk' = IF First = b THEN Null ELSE q[First + 1]
    <3>1. First = L => First = b
      BY <1>3, <2>2
    <3> QED BY <1>1, <2>1, <2>2, <3>1 DEF TaskNodes
  <2>8. First # b => First + 1 \in 1 .. b /\ q[First + 1] # Null
    BY <1>3, <2>2, TaskConstants DEF Left
  <2>9. TaskNodes(b, q)'
    <3>1. \A k \in Left' :
            /\ mData'[q[k]] = linked[k]
            /\ mNext'[q[k]] = IF k = b \/ k = L THEN Null ELSE q[k + 1]
      BY <1>1, <1>3, <2>1, <2>4, <2>6 DEF TaskNodes
    <3>2. IF lpc' \in {"walk", "running"} THEN First' \in 1 .. b /\ walk' = q[First']
                                          ELSE b = Len(ran)
      BY <2>1, <2>2, <2>7, <2>8
    <3> QED BY <1>1, <2>1, <3>1, <3>2 DEF TaskNodes
  <2>10. Apart(q, f)'
    <3>1. \A u \in Threads : Holding(u)' <=> Holding(u)
      BY <2>1 DEF Holding
    <3>2. GivenBack(q, e, f, n)
      BY <1>1, <2>1, <2>4, <2>5, <2>6, <3>1 DEF GivenBack
    <3> QED BY <3>2, OrderApart
  <2>11. OrderTypes'
    BY <1>2, <2>1, <2>6 DEF OrderTypes
  <2> QED BY <1>3, <2>1, <2>5, <2>9, <2>10, <2>11, OrderWitness
<1> QED BY <1>4, <1>5, <1>6

\* At the start both lists are empty.
LEMMA OrderStarts == Init => OrderInv
<1> SUFFICES ASSUME Init PROVE OrderInv
  OBVIOUS
<1>1. OrderTypes
  BY DEF Init, OrderTypes
<1>2. Len(linked) = 0 /\ Len(ran) = 0 /\ mTaskIdleCount = 0 /\ Left = {}
  BY DEF Init, Left, First
<1>3. PICK q : q = [k \in 1 .. 0 |-> Null]
  OBVIOUS
<1>4. q \in [1 .. Len(linked) -> Nodes] /\ q \in [1 .. mTaskIdleCount -> Nodes]
  BY <1>2, <1>3
<1>5. TaskNodes(0, q) /\ IdleNodes(q) /\ Apart(q, q)
  BY <1>2, <1>4 DEF Init, TaskNodes, IdleNodes, Apart, Holding
<1>6. 0 \in 0 .. Len(linked)
  BY <1>2
<1>7. \E e \in [1 .. mTaskIdleCount -> Nodes] :
        TaskNodes(0, q) /\ IdleNodes(e) /\ Apart(q, e)
  BY <1>4, <1>5
<1>8. \E p \in [1 .. Len(linked) -> Nodes] : \E e \in [1 .. mTaskIdleCount -> Nodes] :
        TaskNodes(0, p) /\ IdleNodes(e) /\ Apart(p, e)
  BY <1>4, <1>7
<1> QED BY <1>1, <1>6, <1>8 DEF OrderInv

\* Every step of every thread keeps it.
LEMMA OrderInductive ==
    ASSUME OrderInv, Types, [Next]_vars
    PROVE  OrderInv'
<1> USE DEF queueVars, nodeVars, idleVars, postVars, sockVars, loopVars
<1>1. ASSUME NEW t \in Threads, SeesNoStop(t) \/ Wake(t)
      PROVE  OrderInv'
  <2>1. \A u \in Threads : Holding(u)' <=> Holding(u)
    BY <1>1 DEF SeesNoStop, Wake, Holding, OrderInv, OrderTypes
  <2>2. OrderTypes'
    BY <1>1 DEF SeesNoStop, Wake, OrderInv, OrderTypes
  <2> QED BY <1>1, <2>1, <2>2, OrderQuiet DEF SeesNoStop, Wake
<1>2. CASE PostCommand \/ AppStop \/ Receive \/ ParseActive \/ ParseExit \/ ParseEnd
           \/ UNCHANGED vars
  <2>1. /\ UNCHANGED <<mTaskHead, mTaskTailPos, linked, mNext, mData>>
        /\ UNCHANGED <<mTaskHeadIdle, mTaskIdleCount, heap, hand, pc, ran, walk>>
        /\ lpc' = lpc \/ (lpc \in {"poll", "parse"} /\ lpc' \in {"poll", "parse"})
    BY <1>2 DEF PostCommand, AppStop, Receive, InCallback, ParseActive, ParseExit,
                ParseEnd, vars
  <2>2. \A u \in Threads : Holding(u)' <=> Holding(u)
    BY <2>1 DEF Holding
  <2>3. OrderTypes'
    BY <2>1 DEF OrderInv, OrderTypes
  <2> QED BY <2>1, <2>2, <2>3, OrderQuiet
<1>3. ASSUME NEW t \in Threads, PostStep(t) PROVE OrderInv'
  BY <1>1, <1>3, OrderSeesStop, OrderLink DEF PostStep
<1>4. CASE LoopStep
  BY <1>2, <1>4, OrderLoop DEF LoopStep
<1> QED BY <1>2, <1>3, <1>4, OrderPack DEF Next

\* The invariant of the wake-up protocol holds in every behaviour of postTask,
\* onTask and stop.
THEOREM Invariance == Spec => []IInv
BY Starts, Inductive, PTL DEF Spec

\* Loop::postTask decides under the lock who wakes the loop: no queue is left
\* without a wake-up, for any number of threads, jobs and nodes.
THEOREM WakeUpCorrect == Spec => []WakeUpComing
<1>1. IInv => WakeUpComing
  BY DEF IInv
<1> QED BY <1>1, Invariance, PTL

\* At most one wake-up of the task queue is in the command socket at a time,
\* so posting tasks never fills it.
THEOREM OneWakeUpCorrect == Spec => []OneWakeUp
<1>1. IInv => OneWakeUp
  BY DEF IInv
<1> QED BY <1>1, Invariance, PTL

\* OrderInv holds of every behaviour.
LEMMA OrderInvariant == Spec => []OrderInv
<1>1. IInv => Types
  BY DEF IInv
<1>2. OrderInv /\ IInv /\ [Next]_vars => OrderInv'
  BY <1>1, OrderInductive
<1> QED BY <1>2, OrderStarts, Invariance, PTL DEF Spec

\* The tasks of a loop are a queue: what is linked is run once and in the order
\* it was linked, although its nodes go from hand to hand.
THEOREM OrderCorrect == Spec => TasksInOrder
<1>1. Init => Tasks!Init
  BY DEF Init, Tasks!Init
<1>2. ASSUME OrderInv, Types, [Next]_vars
      PROVE  [Tasks!Next]_<<linked, ran>>
  <2> USE DEF queueVars, nodeVars, idleVars, postVars, sockVars, loopVars
  <2>1. ASSUME NEW t \in Threads, Link(t)
        PROVE  \E x \in Jobs : Tasks!Put(x)
    <3>1. hand[t] \in Nodes
      BY <2>1, <1>2 DEF Link, Types
    <3>2. mData[hand[t]] \in Jobs
      BY <1>2, <3>1 DEF OrderInv, OrderTypes
    <3> QED BY <2>1, <3>2 DEF Link, Tasks!Put
  <2>2. CASE RunTask
    <3>1. PICK b \in 0 .. Len(linked), q \in [1 .. Len(linked) -> Nodes] :
            TaskNodes(b, q)
      BY <1>2 DEF OrderInv
    <3>2. OrderTypes
      BY <1>2 DEF OrderInv
    <3>3. /\ Len(linked) \in Nat /\ Len(ran) \in Nat
          /\ b \in Nat /\ Len(ran) <= b /\ b <= Len(linked)
      BY <3>1, <3>2, LeftRange
    <3>4. First = Len(ran) + 1 /\ First \in 1 .. b /\ walk = q[First]
      BY <2>2, <3>1 DEF RunTask, First, TaskNodes
    <3>5. First \in Left /\ Len(ran) < Len(linked)
      BY <3>3, <3>4 DEF Left
    <3>6. mData[walk] = linked[Len(ran) + 1]
      BY <3>1, <3>4, <3>5 DEF TaskNodes
    <3> QED BY <2>2, <3>5, <3>6 DEF RunTask, Tasks!Get, Tasks!Next
  <2>3. (\E t \in Threads : Link(t)) \/ RunTask \/ UNCHANGED <<linked, ran>>
    BY <1>2 DEF Next, PostStep, SeesStop, SeesNoStop, Wake, Pack, PostCommand, AppStop,
       LoopStep, Receive, ParseActive, ParseExit, ParseTask, ParseEnd, TaskDone, vars
  <2> QED BY <2>1, <2>2, <2>3 DEF Tasks!Next
<1>3. IInv => Types
  BY DEF IInv
<1>4. OrderInv /\ IInv /\ [Next]_vars => [Tasks!Next]_<<linked, ran>>
  BY <1>2, <1>3
<1> QED BY <1>1, <1>4, OrderInvariant, Invariance, PTL DEF Spec, TasksInOrder, Tasks!Spec
=============================================================================
