----------------------------- MODULE TcpStream -----------------------------
(***************************************************************************)
(* One TCP connection: the requests an application pipelines on it, the    *)
(* ring queues they wait in, and an edge-triggered kernel.  What Loop      *)
(* leaves open is kept here: the order of the requests in every queue, how *)
(* many bytes a call moves, and when epoll reports the descriptor.         *)
(*                                                                         *)
(* Source/Linux/HandleTCP.cpp (read, write), Source/Linux/Loop.cpp (run,   *)
(* updatePending, closeHandle).  Bytes are counted in units; a byte of the *)
(* outgoing stream is the number of the write request it belongs to.  The  *)
(* kernel is external: a receive queue, a send buffer, and the ready list  *)
(* of epoll.                                                               *)
(***************************************************************************)
EXTENDS Naturals, Sequences, SequencesExt

CONSTANTS Writes,      \* how many write requests the application issues
          WriteSize,   \* units in each of them
          Pipelined,   \* how many it may have in flight
          Reads,       \* the read requests it issues, again and again
          ReadSize,    \* units a read request has room for
          Incoming,    \* units the peer sends
          PeerCloses,  \* does the peer then close its side?
          SendBuffer,  \* capacity of the kernel's send buffer
          NoReq,       \* no request: a null pointer
          Opened       \* stands for the accept or connect request

ASSUME StreamConstants ==
    /\ {Writes, WriteSize, Pipelined, ReadSize, Incoming, SendBuffer} \subseteq Nat
    /\ WriteSize > 0 /\ ReadSize > 0 /\ SendBuffer > 0
    /\ Reads \cap (1 .. Writes) = {}
    /\ {NoReq, Opened} \cap (Reads \cup (1 .. Writes)) = {} /\ NoReq # Opened
    /\ PeerCloses \in BOOLEAN

VARIABLES
    mFlag,        \* READABLE, WRITEABLE, SYNC_READ, SYNC_WRITE, CLOSING
    mReadQueue, mWriteQueue,
    mRequest,     \* Loop::mRequest
    batch,        \* what updatePending() took of it and has not looked at
    cur,          \* its variable nd, or NoReq
    cb,           \* the request whose callback is running, or NoReq
    more,         \* whether the while loop goes on after the callback
    issued,       \* write requests issued so far
    mStepSize,    \* units of each write already sent
    done,         \* the writes whose callback has begun
    stream,       \* what the kernel has accepted, in order
    taken,        \* how much of it has left the send buffer
    noSpace,      \* SOCK_NOSPACE: a send met a full buffer
    arrived, got, \* units that have arrived, and that reads have returned
    fin,          \* the end of the incoming stream has arrived
    ready         \* the descriptor is on epoll's ready list

appVars == <<issued, mStepSize, done, got>>
netVars == <<stream, taken, noSpace, arrived, fin, ready>>
loopVars == <<mFlag, mReadQueue, mWriteQueue, mRequest, batch, cur, cb, more>>
vars == <<loopVars, appVars, netVars>>

IsRead(r) == r \in Reads
Closing == "CLOSING" \in mFlag

Unread == arrived - got
Space  == SendBuffer - (Len(stream) - taken)
Units(w, n) == [i \in 1 .. n |-> w]

Waits(r) == r \in ToSet(mReadQueue \o mWriteQueue \o mRequest \o batch) \cup {cur}

-----------------------------------------------------------------------------
(* The application, inside a callback of this connection.                  *)

\* HandleTCP::read and write: with the SYNC flag set the oldest request of
\* the queue, the new one included, goes straight to mRequest.
Read(r) ==
    LET q == Append(mReadQueue, r) IN
    /\ cb # NoReq
    /\ ~Waits(r)
    /\ "READABLE" \in mFlag
    /\ IF "SYNC_READ" \in mFlag
       THEN mRequest' = Append(mRequest, Head(q)) /\ mReadQueue' = Tail(q)
       ELSE mReadQueue' = q /\ UNCHANGED mRequest
    /\ mFlag' = mFlag \ {"SYNC_READ"}
    /\ UNCHANGED <<mWriteQueue, batch, cur, cb, more, appVars, netVars>>

Write ==
    LET w == issued + 1
        q == Append(mWriteQueue, w)
    IN
    /\ cb # NoReq
    /\ issued < Writes
    /\ issued - Len(done) < Pipelined
    /\ "WRITEABLE" \in mFlag
    /\ issued' = w
    /\ IF "SYNC_WRITE" \in mFlag
       THEN mRequest' = Append(mRequest, Head(q)) /\ mWriteQueue' = Tail(q)
       ELSE mWriteQueue' = q /\ UNCHANGED mRequest
    /\ mFlag' = mFlag \ {"SYNC_WRITE"}
    /\ UNCHANGED <<mReadQueue, batch, cur, cb, more, mStepSize, done, got,
                   netVars>>

-----------------------------------------------------------------------------
(* The kernel and the peer (external).                                     *)

Arrive ==
    /\ arrived < Incoming
    /\ arrived' = arrived + 1
    /\ ready' = TRUE
    /\ UNCHANGED <<loopVars, appVars, stream, taken, noSpace, fin>>

PeerFin ==
    /\ PeerCloses /\ ~fin /\ arrived = Incoming
    /\ fin' = TRUE
    /\ ready' = TRUE
    /\ UNCHANGED <<loopVars, appVars, stream, taken, noSpace, arrived>>

\* The peer acknowledges a unit: whoever met a full buffer is woken.
PeerTakes ==
    /\ taken < Len(stream)
    /\ taken' = taken + 1
    /\ noSpace' = FALSE
    /\ ready' = (ready \/ noSpace)
    /\ UNCHANGED <<loopVars, appVars, stream, arrived, fin>>

-----------------------------------------------------------------------------
(* Loop::run().                                                            *)

\* epoll_wait reports everything the descriptor is ready for; in each
\* direction the oldest request becomes pending, or the SYNC flag is set.
\* updatePending() then takes the ring.
Oldest(q) == IF q = <<>> THEN <<>> ELSE <<Head(q)>>
\* Mutant: the request is looked at, not popped.
OthersAndIt(q) == q
Others(q) == IF q = <<>> THEN <<>> ELSE Tail(q)

Tick ==
    LET readable  == ~Closing /\ ready /\ (Unread > 0 \/ fin)
        writeable == ~Closing /\ ready /\ Space > 0
        rq == IF readable THEN Oldest(mReadQueue) ELSE <<>>
        wq == IF writeable THEN Oldest(mWriteQueue) ELSE <<>>
    IN
    /\ batch = <<>> /\ cur = NoReq /\ cb = NoReq
    /\ ready \/ mRequest # <<>>
    /\ ready' = FALSE
    /\ batch' = mRequest \o rq \o wq
    /\ mRequest' = <<>>
    /\ mReadQueue' = IF readable THEN Others(mReadQueue) ELSE mReadQueue
    /\ mWriteQueue' = IF writeable THEN Others(mWriteQueue) ELSE mWriteQueue
    /\ mFlag' = mFlag
         \cup {f \in {"SYNC_READ"} : readable /\ mReadQueue = <<>>}
         \cup {f \in {"SYNC_WRITE"} : writeable /\ mWriteQueue = <<>>}
    /\ UNCHANGED <<cur, cb, more, appVars, stream, taken, noSpace, arrived, fin>>

TakeRequest ==
    /\ cur = NoReq /\ cb = NoReq
    /\ batch # <<>>
    /\ cur' = Head(batch)
    /\ batch' = Tail(batch)
    /\ UNCHANGED <<mFlag, mReadQueue, mWriteQueue, mRequest, cb, more, appVars,
                   netVars>>

Call(goOn) ==
    /\ cb' = cur
    /\ cur' = NoReq
    /\ more' = goOn

\* closeHandle(): no more epoll events; what waits becomes pending.
\* Mutant: only the reads do.
WaitingReads == mReadQueue
Waiting == mReadQueue \o mWriteQueue

CloseHandle(f) ==
    /\ mFlag' = (f \cup {"CLOSING"}) \ {"READABLE", "WRITEABLE"}
    /\ mRequest' = mRequest \o Waiting
    /\ mReadQueue' = <<>>
    /\ mWriteQueue' = <<>>

\* recv() fills the buffer, or returns what there is: then the loop takes the
\* socket to be empty.  Mutant: also after a full buffer.
ShortOrFull(n) == n <= ReadSize
Short(n) == n < ReadSize

ReadSome ==
    LET n == IF Unread < ReadSize THEN Unread ELSE ReadSize IN
    /\ IsRead(cur) /\ "READABLE" \in mFlag
    /\ Unread > 0
    /\ got' = got + n
    /\ mFlag' = IF Short(n) THEN mFlag \ {"SYNC_READ"} ELSE mFlag
    /\ Call(~Short(n))
    /\ UNCHANGED <<mReadQueue, mWriteQueue, mRequest, batch, issued, mStepSize,
                   done, netVars>>

ReadEnd ==
    /\ IsRead(cur) /\ "READABLE" \in mFlag
    /\ Unread = 0 /\ fin
    /\ CloseHandle(mFlag \ {"SYNC_READ"})
    /\ Call(TRUE)
    /\ UNCHANGED <<batch, appVars, netVars>>

ReadAgain ==
    /\ IsRead(cur) /\ "READABLE" \in mFlag
    /\ Unread = 0 /\ ~fin
    /\ mFlag' = mFlag \ {"SYNC_READ"}
    /\ mReadQueue' = <<cur>> \o mReadQueue
    /\ cur' = NoReq
    /\ UNCHANGED <<mWriteQueue, mRequest, batch, cb, more, appVars, netVars>>

\* send() takes all that is left of the request ...
\* Mutant: it starts again from the beginning of the request.
LeftOfAll(w) == WriteSize
Left(w) == WriteSize - mStepSize[w]

SendAll ==
    /\ cur \in 1 .. Writes /\ "WRITEABLE" \in mFlag
    /\ Space >= Left(cur)
    /\ stream' = stream \o Units(cur, Left(cur))
    /\ mStepSize' = [mStepSize EXCEPT ![cur] = WriteSize]
    /\ done' = Append(done, cur)
    /\ Call(TRUE)
    /\ UNCHANGED <<mFlag, mReadQueue, mWriteQueue, mRequest, batch, issued, got,
                   taken, noSpace, arrived, fin, ready>>

\* ... or a part, or none: the request goes back to the head of its queue.
SendPart ==
    /\ cur \in 1 .. Writes /\ "WRITEABLE" \in mFlag
    /\ Space < Left(cur)
    /\ stream' = stream \o Units(cur, Space)
    /\ mStepSize' = [mStepSize EXCEPT ![cur] = @ + Space]
    /\ noSpace' = TRUE
    /\ mFlag' = mFlag \ {"SYNC_WRITE"}
    /\ mWriteQueue' = <<cur>> \o mWriteQueue
    /\ cur' = NoReq
    /\ UNCHANGED <<mReadQueue, mRequest, batch, cb, more, issued, done, got,
                   taken, arrived, fin, ready>>

\* The handle has been closed: the request is handed back with an error.
Refuse ==
    /\ cur # NoReq
    /\ Closing
    /\ done' = IF IsRead(cur) THEN done ELSE Append(done, cur)
    /\ Call(TRUE)
    /\ UNCHANGED <<mFlag, mReadQueue, mWriteQueue, mRequest, batch, issued,
                   mStepSize, got, netVars>>

\* The callback returns: the loop goes on with the oldest request that waits
\* in the same queue, or leaves the SYNC flag set.  An application that reads
\* at all issues its read request again (LinkerTCP::onRead).
Return ==
    LET q == IF IsRead(cb) THEN mReadQueue ELSE mWriteQueue
        sync == IF IsRead(cb) THEN "SYNC_READ" ELSE "SYNC_WRITE"
    IN
    /\ cb # NoReq
    /\ IsRead(cb) => Closing \/ Waits(cb)
    /\ cb' = NoReq
    /\ IF more /\ q # <<>>
       THEN /\ cur' = Head(q)
            /\ IF IsRead(cb) THEN mReadQueue' = Tail(q) /\ UNCHANGED mWriteQueue
                             ELSE mWriteQueue' = Tail(q) /\ UNCHANGED mReadQueue
            /\ UNCHANGED mFlag
       ELSE /\ mFlag' = IF more /\ ~Closing THEN mFlag \cup {sync} ELSE mFlag
            /\ UNCHANGED <<cur, mReadQueue, mWriteQueue>>
    /\ UNCHANGED <<mRequest, batch, more, appVars, netVars>>

-----------------------------------------------------------------------------
\* A connection just accepted: HandleTCP::open(RequestAccept, read) has posted
\* its first read; the accept callback is still running.
Init ==
    /\ mFlag = {"READABLE", "WRITEABLE", "SYNC_WRITE"}
    /\ \E r \in Reads : mReadQueue = <<r>>
    /\ mWriteQueue = <<>> /\ mRequest = <<>> /\ batch = <<>>
    /\ cur = NoReq /\ cb = Opened /\ more = FALSE
    /\ issued = 0 /\ done = <<>>
    /\ mStepSize = [w \in 1 .. Writes |-> 0]
    /\ stream = <<>> /\ taken = 0 /\ noSpace = FALSE
    /\ arrived = 0 /\ got = 0 /\ fin = FALSE /\ ready = TRUE

LoopStep ==
    \/ Tick
    \/ TakeRequest
    \/ ReadSome
    \/ ReadEnd
    \/ ReadAgain
    \/ SendAll
    \/ SendPart
    \/ Refuse
    \/ Return
    \/ \E r \in Reads : r = cb /\ Read(r)

\* Everything has been sent and received, or the loop waits in epoll_wait.
Idle ==
    /\ batch = <<>> /\ cur = NoReq /\ cb = NoReq /\ mRequest = <<>> /\ ~ready
    /\ arrived = Incoming /\ (PeerCloses => fin) /\ taken = Len(stream)
    /\ UNCHANGED vars

Next ==
    \/ LoopStep
    \/ Write
    \/ \E r \in Reads : Read(r)
    \/ Arrive
    \/ PeerFin
    \/ PeerTakes
    \/ Idle

Spec == Init /\ [][Next]_vars

\* The loop's thread runs, and the peer goes on reading.
FairSpec == Spec /\ WF_vars(LoopStep) /\ WF_vars(PeerTakes)

-----------------------------------------------------------------------------
(* Properties.                                                             *)

Request == Reads \cup (1 .. Writes)

\* Every variable has a value of its type.
TypeOK ==
    /\ mFlag \subseteq {"READABLE", "WRITEABLE", "SYNC_READ", "SYNC_WRITE", "CLOSING"}
    /\ mReadQueue \in Seq(Reads) /\ mWriteQueue \in Seq(1 .. Writes)
    /\ mRequest \in Seq(Request) /\ batch \in Seq(Request)
    /\ cur \in Request \cup {NoReq} /\ cb \in Request \cup {NoReq, Opened}
    /\ more \in BOOLEAN /\ issued \in 0 .. Writes
    /\ mStepSize \in [1 .. Writes -> 0 .. WriteSize]
    /\ done \in Seq(1 .. Writes) /\ stream \in Seq(1 .. Writes)
    /\ taken \in 0 .. Len(stream) /\ Space \in 0 .. SendBuffer
    /\ arrived \in 0 .. Incoming /\ got \in 0 .. arrived
    /\ noSpace \in BOOLEAN /\ fin \in BOOLEAN /\ ready \in BOOLEAN

\* The peer receives what was written in the order of the write() calls.
StreamOrder ==
    IsPrefix(stream, FlattenSeq([w \in 1 .. issued |-> Units(w, WriteSize)]))

\* No unit of a write is lost or sent twice: what the kernel has of it is what
\* mStepSize says, and all of it once its callback reports success.
UnitsOf(w) == {i \in 1 .. Len(stream) : stream[i] = w}
WholeWrites ==
    \A w \in 1 .. Writes :
        /\ Cardinality(UnitsOf(w)) = mStepSize[w]
        /\ w \in ToSet(done) /\ ~Closing => mStepSize[w] = WriteSize

\* A request waits in one place at a time.
LinkedOnce ==
    LET all == mReadQueue \o mWriteQueue \o mRequest \o batch IN
    /\ IsInjective(all)
    /\ cur \notin ToSet(all)

\* Each request stays one, through partial transfers and callbacks that post
\* it again while the loop still walks the rings.
RequestsWhole == WholeWrites /\ LinkedOnce

\* No request waits for an edge that has passed: every write gets its
\* callback, and what has arrived is read by an application that always has
\* a read waiting, however the peer's reading and the edges of epoll fall.
WritesFinish == \A w \in 1 .. Writes : (issued >= w) ~> (w \in ToSet(done))
ReadsCatchUp == (Unread > 0) ~> (Unread = 0 \/ Closing)
NoEdgeMissed == WritesFinish /\ ReadsCatchUp

\* The end of the incoming stream is noticed (and the handle closed).
EndSeen == fin ~> Closing
=============================================================================
