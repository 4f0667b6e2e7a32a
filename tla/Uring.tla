------------------------------- MODULE Uring -------------------------------
(***************************************************************************)
(* File requests over io_uring, the default build (Include/Config.h:87):   *)
(* Source/Linux/HandleFile.cpp (read, write), Source/Linux/IOURing.cpp and *)
(* what Source/Linux/Loop.cpp does for file handles.  The loop's thread    *)
(* writes the submission ring and reads the completion ring; the kernel's  *)
(* thread (SQPOLL) reads the one and writes the other, and falls asleep    *)
(* when it finds nothing.                                                  *)
(*                                                                         *)
(* The ring's tail is stored with memory_order_release and the flags are   *)
(* then loaded with memory_order_acquire: nothing keeps the load behind    *)
(* the store, so the tail the kernel sees (tailMem) may lag behind the     *)
(* tail the loop has stored (tail) until the processor writes it out.      *)
(*                                                                         *)
(* An action is the code between two accesses to shared memory, or two     *)
(* points at which a callback begins or ends.  The bytes a request moves   *)
(* and whether it succeeds are left out: updatePending() treats both alike.*)
(* A request must outlive its callback and be posted from there, if at     *)
(* all, to the same file: updatePending() looks at req->mHandle afterwards.*)
(***************************************************************************)
EXTENDS Integers, Sequences, FiniteSets

CONSTANTS Handles,    \* the files: class HandleFile
          Requests,   \* class RequestFD
          NoReq,      \* a null pointer
          Entries,    \* slots of the submission ring, mMaskSQ + 1
          EntriesCQ,  \* slots of the completion ring
          MaxWait     \* G_MAX_WAIT_REQ

ASSUME UringConstants ==
    /\ IsFiniteSet(Handles) /\ IsFiniteSet(Requests) /\ NoReq \notin Requests
    /\ Entries \in Nat /\ Entries > 1
    /\ EntriesCQ \in Nat \ {0}
    /\ MaxWait \in Nat \ {0}

VARIABLES
    file,        \* where a file is in its life
    mFly,        \* Handle::mFlyRequest
    mHandle,     \* RequestFD::mHandle
    where,       \* where a request is
    waitQ,       \* IOURing::mWaitPostQueue, mWaitPostSize is its length
    mFlyRequest, \* IOURing::mFlyRequest
    sqe,         \* the slots of the submission ring
    head,        \* *mHeadSQ, moved by the kernel
    tail,        \* *mTailSQ as the loop's thread has stored it
    tailMem,     \* as the kernel's thread sees it
    sqThread,    \* the kernel's submission thread
    cq,          \* the completion ring, from *mHeadCQ to *mTailCQ
    backlog,     \* completions that found it full, IORING_SQ_CQ_OVERFLOW
    mStop,       \* Loop::mStop
    pc,          \* where the loop's thread is
    ret,         \* where postQueue() returns to
    seen,        \* the completions updatePending() found: tail - head
    nd,          \* how many of them it has handled
    cur          \* the request whose callback is running, or NoReq

handleVars == <<file, mFly, mHandle, mStop>>
sqVars     == <<sqe, head, tail, tailMem, sqThread>>
cqVars     == <<cq, backlog>>
pcVars     == <<pc, ret, seen, nd, cur>>
vars       == <<handleVars, where, waitQ, mFlyRequest, sqVars, cqVars, pcVars>>

\* head and tail are counters of 32 bits, of which the ring uses the lower
\* ones; as many more as tell a full ring from an empty one are kept.
Wrap(n) == n % (2 * Entries)
Slot(n) == n % Entries

AtPlace(p) == {r \in Requests : where[r] = p}

-----------------------------------------------------------------------------
(* The loop's thread: the handle's side.                                   *)

\* Callbacks run in updatePending() or anywhere else in a tick of the loop.
InCallback == pc \in {"idle", "call"}

\* Mutant: unbindHandle() and unbindFly() look at their own count only.
ClosedByAny(h, grab, fly) == grab = 0
ClosedBy(h, grab, fly) == grab = 0 /\ fly = 0

Grab(h) == IF file[h] = "open" THEN 1 ELSE 0

\* HandleFile::open.
Open(h) ==
    /\ InCallback
    /\ ~mStop
    /\ file[h] = "none"
    /\ file' = [file EXCEPT ![h] = "open"]
    /\ UNCHANGED <<mFly, mHandle, mStop, where, waitQ, mFlyRequest, sqVars,
                   cqVars, pcVars>>

\* What closeHandle() makes of the files in hs: the descriptor is closed at
\* once, the requests in flight stay where they are.
Closed(hs) ==
    [h \in Handles |-> IF h \in hs /\ file[h] = "open"
                       THEN IF ClosedBy(h, 0, mFly[h]) THEN "close" ELSE "closing"
                       ELSE file[h]]

\* Handle::launchClose.
Close(h) ==
    /\ InCallback
    /\ file[h] = "open"
    /\ file' = Closed({h})
    /\ UNCHANGED <<mFly, mHandle, mStop, where, waitQ, mFlyRequest, sqVars,
                   cqVars, pcVars>>

\* Loop::stop closes every handle.
Stop ==
    /\ InCallback
    /\ ~mStop
    /\ mStop' = TRUE
    /\ file' = Closed(Handles)
    /\ UNCHANGED <<mFly, mHandle, where, waitQ, mFlyRequest, sqVars, cqVars,
                   pcVars>>

\* HandleFile::read and write, Loop::postRequest, IOURing::postReq: refused
\* when the file is not open, the loop stops, or too many requests wait.
Post(h, r) ==
    /\ InCallback
    /\ where[r] = "free"
    /\ r = cur => mHandle[r] = h
    /\ file[h] = "open"
    /\ ~mStop
    /\ Len(waitQ) < MaxWait
    /\ mHandle' = [mHandle EXCEPT ![r] = h]
    /\ mFly' = [mFly EXCEPT ![h] = @ + 1]
    /\ waitQ' = Append(waitQ, r)
    /\ where' = [where EXCEPT ![r] = "wait"]
    /\ pc' = "post"
    /\ ret' = pc
    /\ UNCHANGED <<file, mStop, mFlyRequest, sqVars, cqVars, seen, nd, cur>>

\* Loop::updateClosed calls onClose.
CloseCall(h) ==
    /\ pc = "idle"
    /\ file[h] = "close"
    /\ file' = [file EXCEPT ![h] = "none"]
    /\ UNCHANGED <<mFly, mHandle, mStop, where, waitQ, mFlyRequest, sqVars,
                   cqVars, pcVars>>

-----------------------------------------------------------------------------
(* IOURing::postQueue, with getSQE and wakeupThreadSQ.                     *)

\* One slot stays empty.  Mutant: a full ring is written over.
RoomAlways == TRUE
Room == Slot(head) # Slot(tail + 1)

Counted == mFlyRequest + 1

PostOne ==
    /\ pc = "post"
    /\ waitQ # <<>>
    /\ Room
    /\ sqe' = [sqe EXCEPT ![Slot(tail)] = Head(waitQ)]
    /\ tail' = Wrap(tail + 1)
    /\ where' = [where EXCEPT ![Head(waitQ)] = "sq"]
    /\ waitQ' = Tail(waitQ)
    /\ mFlyRequest' = Counted
    /\ UNCHANGED <<handleVars, head, tailMem, sqThread, cqVars, pcVars>>

NeedWakeup == sqThread \in {"flagged", "asleep"}

\* The queue is empty or the ring is full.  io_uring_enter wakes the thread
\* if it asks for it; a system call is a fence.
PostEnd ==
    /\ pc = "post"
    /\ waitQ = <<>> \/ ~Room
    /\ pc' = ret
    /\ IF NeedWakeup
       THEN sqThread' = "run" /\ tailMem' = tail
       ELSE UNCHANGED <<sqThread, tailMem>>
    /\ UNCHANGED <<handleVars, where, waitQ, mFlyRequest, sqe, head, tail,
                   cqVars, ret, seen, nd, cur>>

-----------------------------------------------------------------------------
(* IOURing::updatePending, called by Loop::run() when epoll reports the    *)
(* ring's descriptor.                                                      *)

Begin ==
    /\ pc = "idle"
    /\ cq # <<>> \/ backlog # <<>>
    /\ pc' = "harvest"
    /\ seen' = Len(cq)
    /\ nd' = 0
    /\ UNCHANGED <<handleVars, where, waitQ, mFlyRequest, sqVars, cqVars, ret,
                   cur>>

\* The next completion: req->mCall(req) begins.
Complete ==
    /\ pc = "harvest"
    /\ nd < seen
    /\ cur' = cq[nd + 1]
    /\ where' = [where EXCEPT ![cur'] = "free"]
    /\ nd' = nd + 1
    /\ mFlyRequest' = mFlyRequest - 1
    /\ pc' = "call"
    /\ UNCHANGED <<handleVars, waitQ, sqVars, cqVars, ret, seen>>

\* It returns, and unbindFly(req->mHandle) follows.
Return ==
    /\ pc = "call"
    /\ LET h == mHandle[cur]
       IN  /\ mFly' = [mFly EXCEPT ![h] = @ - 1]
           /\ file' = IF ClosedBy(h, Grab(h), mFly[h] - 1)
                      THEN [file EXCEPT ![h] = "close"] ELSE file
    /\ cur' = NoReq
    /\ pc' = "harvest"
    /\ UNCHANGED <<mHandle, mStop, where, waitQ, mFlyRequest, sqVars, cqVars,
                   ret, seen, nd>>

\* The part of backlog that fits into the ring when c is left in it.
\* Mutant: io_uring_enter(GETEVENTS) is left out.
FlushNone(c) == 0
Flush(c) == IF Len(backlog) < EntriesCQ - Len(c)
            THEN Len(backlog) ELSE EntriesCQ - Len(c)

\* The ring's head is moved over what was seen, completions that overflowed
\* are fetched, and postQueue() is called, which has nothing to do (and
\* wakes nobody) when no request waits.
EndHarvest ==
    /\ pc = "harvest"
    /\ nd = seen
    /\ LET c == SubSeq(cq, seen + 1, Len(cq))
       IN  /\ cq' = c \o SubSeq(backlog, 1, Flush(c))
           /\ backlog' = SubSeq(backlog, Flush(c) + 1, Len(backlog))
    /\ seen' = 0
    /\ nd' = 0
    /\ pc' = IF waitQ = <<>> THEN "idle" ELSE "post"
    /\ ret' = "idle"
    /\ UNCHANGED <<handleVars, where, waitQ, mFlyRequest, sqVars, cur>>

\* Loop::run() returns false.
Quit ==
    /\ pc = "idle"
    /\ mStop
    /\ \A h \in Handles : file[h] = "none"
    /\ mFlyRequest + Len(waitQ) = 0
    /\ pc' = "gone"
    /\ UNCHANGED <<handleVars, where, waitQ, mFlyRequest, sqVars, cqVars, ret,
                   seen, nd, cur>>

Gone ==
    /\ pc = "gone"
    /\ UNCHANGED vars

-----------------------------------------------------------------------------
(* The processor, and the kernel.                                          *)

\* A store leaves the processor's buffer.
StoreTail ==
    /\ tailMem # tail
    /\ tailMem' = Wrap(tailMem + 1)
    /\ UNCHANGED <<handleVars, where, waitQ, mFlyRequest, sqe, head, tail,
                   sqThread, cqVars, pcVars>>

Consume ==
    /\ sqThread = "run"
    /\ head # tailMem
    /\ where' = [where EXCEPT ![sqe[Slot(head)]] = "kernel"]
    /\ sqe' = [sqe EXCEPT ![Slot(head)] = NoReq]
    /\ head' = Wrap(head + 1)
    /\ UNCHANGED <<handleVars, waitQ, mFlyRequest, tail, tailMem, sqThread,
                   cqVars, pcVars>>

\* Idle for sq_thread_idle, it sets IORING_SQ_NEED_WAKEUP ...
AskWakeup ==
    /\ sqThread = "run"
    /\ head = tailMem
    /\ sqThread' = "flagged"
    /\ UNCHANGED <<handleVars, where, waitQ, mFlyRequest, sqe, head, tail,
                   tailMem, cqVars, pcVars>>

\* ... and looks at the ring once more before it sleeps.
LookAgain ==
    /\ sqThread = "flagged"
    /\ sqThread' = IF head = tailMem THEN "asleep" ELSE "run"
    /\ UNCHANGED <<handleVars, where, waitQ, mFlyRequest, sqe, head, tail,
                   tailMem, cqVars, pcVars>>

\* The file operation of a request ends.
Finish(r) ==
    /\ where[r] = "kernel"
    /\ where' = [where EXCEPT ![r] = "cq"]
    /\ IF backlog = <<>> /\ Len(cq) < EntriesCQ
       THEN cq' = Append(cq, r) /\ UNCHANGED backlog
       ELSE backlog' = Append(backlog, r) /\ UNCHANGED cq
    /\ UNCHANGED <<handleVars, waitQ, mFlyRequest, sqVars, pcVars>>

-----------------------------------------------------------------------------

Init ==
    /\ file = [h \in Handles |-> "none"]
    /\ mFly = [h \in Handles |-> 0]
    /\ mHandle \in [Requests -> Handles]
    /\ where = [r \in Requests |-> "free"]
    /\ waitQ = <<>>
    /\ mFlyRequest = 0
    /\ sqe = [i \in 0 .. Entries - 1 |-> NoReq]
    /\ head = 0 /\ tail = 0 /\ tailMem = 0
    /\ sqThread = "run"
    /\ cq = <<>> /\ backlog = <<>>
    /\ mStop = FALSE
    /\ pc = "idle" /\ ret = "idle"
    /\ seen = 0 /\ nd = 0
    /\ cur = NoReq

UserStep ==
    \/ Stop
    \/ \E h \in Handles :
          Open(h) \/ Close(h) \/ \E r \in Requests : Post(h, r)

LoopStep ==
    \/ \E h \in Handles : CloseCall(h)
    \/ PostOne \/ PostEnd
    \/ Begin \/ Complete \/ Return \/ EndHarvest
    \/ Quit \/ Gone

KernelStep ==
    StoreTail \/ Consume \/ AskWakeup \/ LookAgain \/ \E r \in Requests : Finish(r)

Next == UserStep \/ LoopStep \/ KernelStep

Spec == Init /\ [][Next]_vars

\* Callbacks return, epoll reports a ring that is not empty, stores become
\* visible, the kernel takes what it sees, and file operations end.
FairSpec ==
    /\ Spec
    /\ WF_vars(PostOne \/ PostEnd \/ Complete \/ Return \/ EndHarvest)
    /\ WF_vars(Begin) /\ \A h \in Handles : WF_vars(CloseCall(h))
    /\ WF_vars(StoreTail) /\ WF_vars(Consume) /\ WF_vars(LookAgain)
    /\ \A r \in Requests : WF_vars(Finish(r))

-----------------------------------------------------------------------------
(* Properties.                                                             *)

Places == {"free", "wait", "sq", "kernel", "cq"}

\* Every variable has a value of its type; the counts are not negative.
TypeOK ==
    /\ file \in [Handles -> {"none", "open", "closing", "close"}]
    /\ mFly \in [Handles -> Nat]
    /\ mHandle \in [Requests -> Handles]
    /\ where \in [Requests -> Places]
    /\ waitQ \in Seq(Requests) /\ Len(waitQ) <= MaxWait
    /\ mFlyRequest \in Nat
    /\ sqe \in [0 .. Entries - 1 -> Requests \cup {NoReq}]
    /\ {head, tail, tailMem} \subseteq 0 .. 2 * Entries - 1
    /\ sqThread \in {"run", "flagged", "asleep"}
    /\ cq \in Seq(Requests) /\ Len(cq) <= EntriesCQ
    /\ backlog \in Seq(Requests)
    /\ mStop \in BOOLEAN
    /\ pc \in {"idle", "post", "harvest", "call", "gone"}
    /\ ret \in {"idle", "call"}
    /\ seen \in Nat /\ nd \in 0 .. seen
    /\ cur \in Requests \cup {NoReq}

\* Every file handle outlives its requests: one whose close callback may
\* run, after which the application may delete it, has none in flight, and
\* none whose callback has not returned.
AnsweredBeforeClose ==
    \A h \in Handles : file[h] \in {"close", "none"} =>
        \A r \in Requests : mHandle[r] = h => where[r] = "free" /\ r # cur

\* The submission ring holds exactly the requests that were put there and
\* not taken: none is written over, however far the kernel lags behind and
\* however often the counters wrap around.
SlotsKept ==
    /\ \A r \in AtPlace("sq") : \E i \in DOMAIN sqe : sqe[i] = r
    /\ Cardinality(AtPlace("sq")) = Wrap(tail + 2 * Entries - head)

\* The kernel's thread sleeps although it has been given work, and the loop
\* waits for it: the load of the flags overtook the store of the tail.
WakeupLost == pc = "idle" /\ sqThread = "asleep" /\ head # tail

\* Every request that was accepted gets its callback: the ring is drained,
\* an overflow is fetched, the queue in front of the ring is looked at
\* again.  It may only be stuck behind a wake-up that was lost.
PostedAnswered ==
    \A r \in Requests : (where[r] # "free") ~> (where[r] = "free" \/ WakeupLost)
=============================================================================
