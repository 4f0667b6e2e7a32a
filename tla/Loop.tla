-------------------------------- MODULE Loop --------------------------------
(***************************************************************************)
(* The event loop of one process (Source/Linux/Loop.cpp) together with the *)
(* operations of the TCP handles it drives (Source/Linux/HandleTCP.cpp):   *)
(* the reference-count protocol that decides when a handle is closed, when *)
(* its close callback runs, and when Loop::run() tells the engine that     *)
(* nothing is left to do.                                                  *)
(*                                                                         *)
(* One thread runs the loop.  An action is the code between two points at  *)
(* which control leaves the loop: an application callback begins, or       *)
(* returns, or calls back into the loop (open, read, write, close).        *)
(*                                                                         *)
(* Abstractions.  A handle is a list node (class Handle : Node2), so the   *)
(* intrusive lists it may be in are one function, node; a request is       *)
(* linked in at most one ring queue, so the queues are one function,       *)
(* where.  The order inside a queue is left open here (any member may be   *)
(* the head): TcpStream keeps it.  System calls answer nondeterministically*)
(* and the times at which timers expire are left open.                     *)
(*                                                                         *)
(* Two variables stand for no variable of the code.  due is what epoll has *)
(* reported of an open socket and no call has found drained since: being   *)
(* edge-triggered it will not say that again.  torn says that a handle was *)
(* linked in mHandleActive while it was linked in it already, which makes  *)
(* it no ring any more; node would lie about such lists, so the module     *)
(* ends there.  HandleLists goes on from there, with the links themselves. *)
(***************************************************************************)
EXTENDS Naturals, FiniteSets

CONSTANTS Handles,      \* the handles: class Handle
          Requests,     \* the requests: class RequestFD
          CMD,          \* Loop::mCMD, the read end of the command socket pair
          ReadCMD,      \* Loop::mReadCMD, the request that reads it
          TypeOf,       \* EHandleType of every handle
          Timed,        \* the handles whose mCallTime is not null
          ConnectFails  \* may connect(2) fail at once (not EINPROGRESS)?

HandleTypes == {"accept", "connect", "link", "time"}

ASSUME ConstantsOK ==
    /\ IsFiniteSet(Handles) /\ IsFiniteSet(Requests)
    /\ CMD \in Handles /\ ReadCMD \in Requests
    /\ TypeOf \in [Handles -> HandleTypes]
    /\ TypeOf[CMD] = "link" /\ CMD \in Timed
    /\ Timed \subseteq Handles
    /\ \A h \in Handles : TypeOf[h] = "time" => h \in Timed
    /\ ConnectFails \in BOOLEAN

VARIABLES
    mFlag,      \* Handle::mFlag, the set of EHF_ bits that are set
    mGrab,      \* Handle::mGrabCount
    mFly,       \* Handle::mFlyRequest
    node,       \* the list the handle is linked in
    timeHub,    \* the handles in Loop::mTimeHub
    where,      \* the queue a request is linked in
    mHandle,    \* RequestFD::mHandle
    mType,      \* RequestFD::mType
    loopGrab,   \* Loop::mGrabCount
    loopFly,    \* Loop::mFlyRequest
    mStop,      \* Loop::mStop
    torn,       \* has a handle been linked while it was linked already?
    due,        \* <<h, q>>: h may be ready in direction q, and epoll has said so
    polled,     \* the timers and the epoll events this tick has handled
    pc,         \* where run() is
    cb          \* the application callback that is running

handleVars == <<mFlag, mGrab, mFly, node, timeHub>>
reqVars    == <<where, mHandle, mType>>
vars       == <<handleVars, reqVars, loopGrab, loopFly, mStop, torn, due,
                polled, pc, cb>>

Flags  == {"OPEN", "CLOSING", "CLOSE", "READABLE", "WRITEABLE",
           "SYNC_READ", "SYNC_WRITE"}
Nodes  == {"none", "active", "close", "list"}
          \* mHandleActive, mHandleClose, the local list of updateClosed()
Places == {"free", "read", "write", "pend", "batch", "cur", "lost"}
          \* the application, mReadQueue, mWriteQueue, mRequest, the ring
          \* updatePending() detached, its variable nd, no queue at all
ReqTypes == {"connect", "read", "write", "accept"}
Directions == {"read", "write"}
Phases   == {"time", "poll", "pending", "closed", "done"}
CbKinds  == {"none", "init", "time", "req", "ret", "stop", "close"}

NoCall == [kind |-> "none", h |-> CMD, type |-> "read", more |-> FALSE,
           err |-> FALSE]

-----------------------------------------------------------------------------
(* The ring queues, and the flags each request type works with.            *)

Ready(t) == IF t = "write" THEN "WRITEABLE" ELSE "READABLE"
Sync(t)  == IF t = "write" THEN "SYNC_WRITE" ELSE "SYNC_READ"
QueueOf(t) == IF t \in {"write", "connect"} THEN "write" ELSE "read"

Queue(h, q) == {r \in Requests : where[r] = q /\ mHandle[r] = h}
InPlace(p)  == {r \in Requests : where[r] = p}

\* isOpen() && !isClosing(): the handle is registered with epoll.
Alive(h) == "OPEN" \in mFlag[h] /\ "CLOSING" \notin mFlag[h]

-----------------------------------------------------------------------------
(* Loop::addClose, unbindHandle, unbindFly, closeHandle.                   *)

\* Mutant: unbindHandle() does not look at the requests in flight.
AddCloseIgnoringFly(h, grab, fly) ==
    node' = IF grab = 0 THEN [node EXCEPT ![h] = "close"] ELSE node

\* A handle is moved to mHandleClose by whoever drops its last reference.
AddClose(h, grab, fly) ==
    node' = IF grab = 0 /\ fly = 0 THEN [node EXCEPT ![h] = "close"] ELSE node

\* What closeHandle() makes of a handle's flags, and of its queues: all that
\* waits becomes pending.  It does nothing to a handle already closing.
Ended(h, f) == "CLOSING" \in f[h] \/ "OPEN" \notin f[h]

ClosingFlags(s) == (s \cup {"CLOSING"}) \ {"READABLE", "WRITEABLE"}

\* Mutant: writes are left behind.
PendAllReads(h, w) ==
    [r \in Requests |-> IF mHandle[r] = h /\ w[r] = "read" THEN "pend" ELSE w[r]]
PendAll(h, w) ==
    [r \in Requests |-> IF mHandle[r] = h /\ w[r] \in {"read", "write"}
                        THEN "pend" ELSE w[r]]

\* closeHandle(h), called when the flags are f, the queues w and the
\* number of requests in flight for h is fly.
CloseHandle(h, f, w, fly) ==
    IF Ended(h, f)
    THEN /\ mFlag' = f
         /\ where' = w
         /\ UNCHANGED <<mGrab, node, timeHub, due>>
    ELSE /\ mFlag' = [f EXCEPT ![h] = ClosingFlags(@)]
         /\ timeHub' = IF h \in Timed THEN timeHub \ {h} ELSE timeHub
         /\ due' = due \ ({h} \X Directions)
         /\ where' = PendAll(h, w)
         /\ mGrab' = [mGrab EXCEPT ![h] = @ - 1]
         /\ AddClose(h, mGrab[h] - 1, fly)

\* relinkTime(h): the handle is taken out of the heap and put back with a
\* later time, whether it has a time callback or not.
RelinkTime(h) ==
    timeHub' = IF "CLOSING" \in mFlag[h] THEN timeHub ELSE timeHub \cup {h}

-----------------------------------------------------------------------------
(* What an application callback may ask for.                               *)

\* The loop's own handle calls the application only to run the tasks posted
\* to it (ECT_TASK), which a failed read does not.
InCallback ==
    \/ cb.kind = "init"
    \/ cb.kind \in {"time", "close"} /\ cb.h # CMD
    \/ cb.kind = "req" /\ ~(cb.h = CMD /\ cb.err)

Issue(r, h, t) ==
    /\ mHandle' = [mHandle EXCEPT ![r] = h]
    /\ mType'   = [mType EXCEPT ![r] = t]

BindFly(h) ==
    /\ mFly' = [mFly EXCEPT ![h] = @ + 1]
    /\ loopFly' = loopFly + 1

\* read(), write() and accept(): a request for a handle that is not ready
\* in that direction is refused; one that finds the SYNC flag set goes (or,
\* behind older ones, the oldest goes) straight to mRequest.
Post(h, r, t, w) ==
    /\ Issue(r, h, t)
    /\ BindFly(h)
    /\ IF Sync(t) \in mFlag[h]
       THEN /\ \E q \in (IF t = "accept" \/ Queue(h, QueueOf(t)) = {}
                         THEN {r} ELSE Queue(h, QueueOf(t))) :
                   where' = [w EXCEPT ![r] = QueueOf(t), ![q] = "pend"]
            /\ mFlag' = [mFlag EXCEPT ![h] = @ \ {Sync(t)}]
       ELSE /\ where' = [w EXCEPT ![r] = QueueOf(t)]
            /\ UNCHANGED mFlag

\* Applications wait for the connect callback before they read or write.
Connecting(h) ==
    \E r \in Requests : mHandle[r] = h /\ mType[r] = "connect" /\ where[r] # "free"

Request(h, r, t) ==
    /\ InCallback
    /\ ~Connecting(h)
    /\ h # CMD /\ r # ReadCMD
    /\ where[r] = "free"
    /\ Ready(t) \in mFlag[h]
    /\ Post(h, r, t, where)
    /\ UNCHANGED <<mGrab, node, timeHub, loopGrab, mStop, torn, due, polled,
                   pc, cb>>

Read(h, r)   == TypeOf[h] \in {"connect", "link"} /\ Request(h, r, "read")
Write(h, r)  == TypeOf[h] \in {"connect", "link"} /\ Request(h, r, "write")
Accept(h, r) == TypeOf[h] = "accept" /\ Request(h, r, "accept")

\* Handle::launchClose.
Close(h) ==
    /\ InCallback
    /\ h # CMD
    /\ Alive(h)
    /\ CloseHandle(h, mFlag, where, mFly[h])
    /\ UNCHANGED <<mFly, mHandle, mType, loopGrab, loopFly, mStop, torn,
                   polled, pc, cb>>

\* The flags openHandle() leaves a handle with: the old ones are forgotten.
OpenFlags(t) ==
    {"OPEN"} \cup (CASE t = "accept" -> {"READABLE"}
                     [] t = "time"   -> {}
                     [] OTHER        -> {"READABLE", "WRITEABLE", "SYNC_WRITE"})
NewFlags(h) == OpenFlags(TypeOf[h])

\* openHandle() asks nothing of the handle.  The application opens one that it
\* owns, never opened or with its close callback begun, and one of whose
\* failed connect it hears in the callback that is running: RedisClient
\* does so, and that handle is closing and linked in mHandleActive still.
ConnectFailed(h) ==
    cb.kind = "req" /\ cb.h = h /\ cb.type = "connect" /\ cb.err /\ ~Alive(h)
MayOpen(h) ==
    InCallback /\ h # CMD /\ (node[h] = "none" \/ ConnectFailed(h))

\* A loop that is stopping opens none.  Mutant: it does.
CanOpenAlways(h) == MayOpen(h)
CanOpen(h) == MayOpen(h) /\ ~mStop

OpenRefused(h) ==
    /\ MayOpen(h)
    /\ mStop
    /\ mFlag' = [mFlag EXCEPT ![h] = @ \cup {"CLOSING"}]
    /\ UNCHANGED <<mGrab, mFly, node, timeHub, reqVars, loopGrab, loopFly,
                   mStop, torn, due, polled, pc, cb>>

OpenFails(h) ==
    /\ CanOpen(h)
    /\ TypeOf[h] # "time"
    /\ mFlag' = [mFlag EXCEPT ![h] = {"CLOSING", "CLOSE"}]
    /\ UNCHANGED <<mGrab, mFly, node, timeHub, reqVars, loopGrab, loopFly,
                   mStop, torn, due, polled, pc, cb>>

\* mHandleActive.pushBack(*it), wherever the handle is linked already.
Link(h) ==
    /\ node' = [node EXCEPT ![h] = "active"]
    /\ torn' = (torn \/ node[h] # "none")

BindHandle(h) ==
    /\ mGrab' = [mGrab EXCEPT ![h] = @ + 1]
    /\ loopGrab' = loopGrab + 1

\* A time handle, a listening handle, or (HandleTCP::open(RequestAccept))
\* a connection that was just accepted.
Open(h) ==
    /\ CanOpen(h)
    /\ TypeOf[h] # "connect"
    /\ BindHandle(h)
    /\ mFlag' = [mFlag EXCEPT ![h] = NewFlags(h)]
    /\ Link(h)
    /\ timeHub' = IF h \in Timed /\ TypeOf[h] # "accept"
                  THEN timeHub \cup {h} ELSE timeHub
    /\ UNCHANGED <<mFly, reqVars, loopFly, mStop, due, polled, pc, cb>>

\* HandleTCP::open(NetAddress) = openHandle + connect: the connection is
\* made at once (the request goes to mRequest) or is in progress (it waits
\* for EPOLLOUT in the write queue).
OpenConnect(h, r) ==
    /\ CanOpen(h)
    /\ TypeOf[h] = "connect"
    /\ r # ReadCMD /\ where[r] = "free"
    /\ BindHandle(h)
    /\ BindFly(h)
    /\ Issue(r, h, "connect")
    /\ mFlag' = [mFlag EXCEPT ![h] = NewFlags(h)]
    /\ Link(h)
    /\ timeHub' = IF h \in Timed THEN timeHub \cup {h} ELSE timeHub
    /\ \E p \in {"pend", "write"} : where' = [where EXCEPT ![r] = p]
    /\ UNCHANGED <<mStop, due, polled, pc, cb>>

\* connect(2) fails at once: the handle is closed and open() answers EE_OK,
\* but the request is linked in no queue.
OpenConnectFails(h, r) ==
    /\ ConnectFails
    /\ CanOpen(h)
    /\ TypeOf[h] = "connect"
    /\ r # ReadCMD /\ where[r] = "free"
    /\ loopGrab' = loopGrab + 1
    /\ BindFly(h)
    /\ Issue(r, h, "connect")
    /\ where' = [where EXCEPT ![r] = "lost"]
    \* bindHandle and closeHandle's unbindHandle: the count is 0 again
    /\ mFlag' = [mFlag EXCEPT ![h] = ClosingFlags(NewFlags(h))]
    /\ Link(h)
    /\ UNCHANGED <<mGrab, timeHub, mStop, due, polled, pc, cb>>

UserStep ==
    \E h \in Handles :
        \/ Close(h)
        \/ OpenRefused(h)
        \/ OpenFails(h)
        \/ Open(h)
        \/ \E r \in Requests :
              Read(h, r) \/ Write(h, r) \/ Accept(h, r)
                         \/ OpenConnect(h, r) \/ OpenConnectFails(h, r)

-----------------------------------------------------------------------------
(* Loop::run(): getWaitTime and updateTimeHub, getEvents, updatePending,   *)
(* updateClosed.                                                           *)

Call(k, h, t, m, e) ==
    cb' = [kind |-> k, h |-> h, type |-> t, more |-> m, err |-> e]

\* The start-up callback (Engine::initTask and what the program opens before
\* the loop runs) ends.
InitReturn ==
    /\ cb.kind = "init"
    /\ cb' = NoCall
    /\ UNCHANGED <<handleVars, reqVars, loopGrab, loopFly, mStop, torn, due,
                   polled, pc>>

\* A time callback begins; none does while requests or closed handles wait.
\* mTime stands still in updateTimeHub() and time gaps are positive, so each
\* handle is called at most once in a tick.
TimerFire(h) ==
    /\ pc = "time" /\ cb = NoCall
    /\ InPlace("pend") = {} /\ \A x \in Handles : node[x] # "close"
    /\ h \in timeHub
    /\ <<h, "time">> \notin polled
    /\ polled' = polled \cup {<<h, "time">>}
    /\ Call("time", h, "read", FALSE, FALSE)
    /\ UNCHANGED <<handleVars, reqVars, loopGrab, loopFly, mStop, torn, due,
                   pc>>

\* It returns EE_OK and repeats: the handle stays in the heap.  A callback
\* that closed its own handle must not do that (note at FunTimeCallback).
TimerAgain ==
    /\ cb.kind = "time"
    /\ Alive(cb.h)
    /\ cb' = NoCall
    /\ UNCHANGED <<handleVars, reqVars, loopGrab, loopFly, mStop, torn, due,
                   polled, pc>>

\* It returns something else, or was the last repetition.
TimerClose ==
    /\ cb.kind = "time"
    /\ cb.h # CMD
    /\ CloseHandle(cb.h, mFlag, where, mFly[cb.h])
    /\ cb' = NoCall
    /\ UNCHANGED <<mFly, mHandle, mType, loopGrab, loopFly, mStop, torn,
                   polled, pc>>

EndTimers ==
    /\ pc = "time" /\ cb = NoCall
    /\ pc' = "poll"
    /\ UNCHANGED <<handleVars, reqVars, loopGrab, loopFly, mStop, torn, due,
                   polled, cb>>

\* epoll_wait reports h ready in direction q: the oldest request waiting there
\* becomes pending, or the SYNC flag remembers the (edge-triggered) event.
\* Mutants: it is remembered in both cases, or in neither.
RememberAlways(h, q) == mFlag' = [mFlag EXCEPT ![h] = @ \cup {Sync(q)}]
RememberNever(h, q) == mFlag' = mFlag
Remember(h, q) ==
    mFlag' = IF Queue(h, q) = {} THEN [mFlag EXCEPT ![h] = @ \cup {Sync(q)}]
                                 ELSE mFlag

Event(h, q) ==
    /\ pc = "poll"
    /\ Alive(h) /\ TypeOf[h] # "time"
    /\ <<h, q>> \notin polled
    /\ polled' = polled \cup {<<h, q>>}
    /\ due' = due \cup {<<h, q>>}
    /\ Remember(h, q)
    /\ IF Queue(h, q) = {} THEN UNCHANGED where
       ELSE \E r \in Queue(h, q) : where' = [where EXCEPT ![r] = "pend"]
    /\ UNCHANGED <<mGrab, mFly, node, timeHub, mHandle, mType, loopGrab,
                   loopFly, mStop, torn, pc, cb>>

\* updatePending() takes the whole ring; what its callbacks post waits for
\* the next tick.
BeginPending ==
    /\ pc = "poll"
    /\ pc' = "pending"
    /\ polled' = {}
    /\ where' = [r \in Requests |-> IF where[r] = "pend" THEN "batch"
                                                        ELSE where[r]]
    /\ UNCHANGED <<handleVars, mHandle, mType, loopGrab, loopFly, mStop,
                   torn, due, cb>>

NextRequest(r) ==
    /\ pc = "pending" /\ cb = NoCall
    /\ InPlace("cur") = {}
    /\ where[r] = "batch"
    /\ where' = [where EXCEPT ![r] = "cur"]
    /\ UNCHANGED <<handleVars, mHandle, mType, loopGrab, loopFly, mStop,
                   torn, due, polled, pc, cb>>

Current(r) == pc = "pending" /\ cb = NoCall /\ where[r] = "cur"
\* The request's callback gets it back.
Given(r) == [where EXCEPT ![r] = "free"]

\* ERT_CONNECT, SO_ERROR is 0: the handle becomes ready both ways.  On a
\* handle closed meanwhile the descriptor is gone and SO_ERROR is an error.
Connected(r) ==
    LET h == mHandle[r] IN
    /\ Current(r) /\ mType[r] = "connect"
    /\ "CLOSING" \notin mFlag[h]
    /\ mFlag' = [mFlag EXCEPT ![h] = @ \cup
                    {"READABLE", "WRITEABLE", "SYNC_WRITE"}]
    /\ RelinkTime(h)
    /\ due' = due \cup {<<h, "write">>}
    /\ where' = Given(r)
    /\ Call("req", h, "connect", FALSE, FALSE)
    /\ UNCHANGED <<mGrab, mFly, node, mHandle, mType, loopGrab, loopFly,
                   mStop, torn, polled, pc>>

ConnectError(r) ==
    LET h == mHandle[r] IN
    /\ Current(r) /\ mType[r] = "connect"
    /\ CloseHandle(h, mFlag, Given(r), mFly[h])
    /\ Call("req", h, "connect", FALSE, TRUE)
    /\ UNCHANGED <<mFly, mHandle, mType, loopGrab, loopFly, mStop, torn,
                   polled, pc>>

\* The call did all it was asked to: a full buffer, a whole write, a new
\* connection.  The socket may have more, or room for more.
Complete(r) ==
    LET h == mHandle[r]  t == mType[r] IN
    /\ Current(r) /\ t # "connect"
    /\ Ready(t) \in mFlag[h]
    /\ where' = Given(r)
    /\ due' = due \cup {<<h, QueueOf(t)>>}
    /\ Call("req", h, t, TRUE, FALSE)
    /\ UNCHANGED <<handleVars, mHandle, mType, loopGrab, loopFly, mStop,
                   torn, polled, pc>>

\* read: fewer bytes than the buffer holds; the socket is taken to be empty
\* and the loop does not go on to the next request.
ShortRead(r) ==
    LET h == mHandle[r] IN
    /\ Current(r) /\ mType[r] = "read"
    /\ "READABLE" \in mFlag[h]
    /\ mFlag' = [mFlag EXCEPT ![h] = @ \ {"SYNC_READ"}]
    /\ due' = due \ {<<h, "read">>}
    /\ where' = Given(r)
    /\ Call("req", h, "read", FALSE, FALSE)
    /\ UNCHANGED <<mGrab, mFly, node, timeHub, mHandle, mType, loopGrab,
                   loopFly, mStop, torn, polled, pc>>

\* EAGAIN, or a write that sent only a part: back to the head of the queue.
Again(r) ==
    LET h == mHandle[r]  t == mType[r] IN
    /\ Current(r) /\ t # "connect"
    /\ Ready(t) \in mFlag[h]
    /\ mFlag' = [mFlag EXCEPT ![h] = @ \ {Sync(t)}]
    /\ where' = [where EXCEPT ![r] = QueueOf(t)]
    /\ due' = due \ {<<h, QueueOf(t)>>}
    /\ IF t = "accept" THEN UNCHANGED timeHub ELSE RelinkTime(h)
    /\ UNCHANGED <<mGrab, mFly, node, mHandle, mType, loopGrab, loopFly,
                   mStop, torn, polled, pc, cb>>

\* End of stream or an error: the handle is closed.
Fail(r) ==
    LET h == mHandle[r]  t == mType[r] IN
    /\ Current(r) /\ t # "connect"
    /\ Ready(t) \in mFlag[h]
    /\ CloseHandle(h, [mFlag EXCEPT ![h] = @ \ {Ready(t), Sync(t)}],
                   Given(r), mFly[h])
    /\ Call("req", h, t, TRUE, TRUE)
    /\ UNCHANGED <<mFly, mHandle, mType, loopGrab, loopFly, mStop, torn,
                   polled, pc>>

\* The handle is no longer ready: the request is handed back with an error.
Refuse(r) ==
    LET h == mHandle[r]  t == mType[r] IN
    /\ Current(r) /\ t # "connect"
    /\ Ready(t) \notin mFlag[h]
    /\ where' = Given(r)
    /\ Call("req", h, t, TRUE, TRUE)
    /\ UNCHANGED <<handleVars, mHandle, mType, loopGrab, loopFly, mStop,
                   torn, due, polled, pc>>

-----------------------------------------------------------------------------
(* After a request's callback.                                             *)

\* The loop goes on with the next request that waits in the same queue, or
\* leaves the handle with its SYNC flag set and its timer put back; then
\* unbindFly().
RequestReturn ==
    LET h == cb.h
        t == cb.type
        waiting == IF cb.more THEN Queue(h, QueueOf(t)) ELSE {}
    IN
    /\ \/ cb.kind = "req" /\ h # CMD
       \/ cb.kind = "ret"
    /\ cb' = NoCall
    /\ mFly' = [mFly EXCEPT ![h] = @ - 1]
    /\ loopFly' = loopFly - 1
    /\ AddClose(h, mGrab[h], mFly[h] - 1)
    /\ IF waiting # {}
       THEN /\ \E r \in waiting : where' = [where EXCEPT ![r] = "cur"]
            /\ UNCHANGED <<mFlag, timeHub>>
       ELSE /\ mFlag' = IF cb.more /\ Ready(t) \in mFlag[h]
                        THEN [mFlag EXCEPT ![h] = @ \cup {Sync(t)}]
                        ELSE mFlag
            /\ IF t \in {"accept", "connect"} THEN UNCHANGED timeHub
                                             ELSE RelinkTime(h)
            /\ UNCHANGED where
    /\ UNCHANGED <<mGrab, mHandle, mType, loopGrab, mStop, torn, due, polled,
                   pc>>

\* Loop::onRead finds ECT_EXIT, or the read failed: stop().
CmdStop ==
    /\ cb.kind = "req" /\ cb.h = CMD
    /\ ~mStop
    /\ mStop' = TRUE
    /\ cb' = [cb EXCEPT !.kind = "stop"]
    /\ UNCHANGED <<handleVars, reqVars, loopGrab, loopFly, polled, pc, torn,
                   due>>

\* stop() closes every handle of mHandleActive, its own included.
StopClose(h) ==
    /\ cb.kind = "stop"
    /\ node[h] = "active" /\ Alive(h)
    /\ CloseHandle(h, mFlag, where, mFly[h])
    /\ UNCHANGED <<mFly, mHandle, mType, loopGrab, loopFly, mStop, torn,
                   polled, pc, cb>>

StopEnd ==
    /\ cb.kind = "stop"
    /\ \A h \in Handles : node[h] = "active" => ~Alive(h)
    /\ cb' = [cb EXCEPT !.kind = IF cb.err THEN "ret" ELSE "req"]
    /\ UNCHANGED <<handleVars, reqVars, loopGrab, loopFly, mStop, torn, due,
                   polled, pc>>

\* Loop::onRead has run the commands: it reads on, unless it was stopped.
CmdDone ==
    /\ cb.kind = "req" /\ cb.h = CMD
    /\ cb' = [cb EXCEPT !.kind = "ret"]
    /\ IF mStop
       THEN UNCHANGED <<mFlag, mFly, reqVars, loopFly>>
       ELSE /\ ~cb.err
            /\ "READABLE" \in mFlag[CMD]
            /\ Post(CMD, ReadCMD, "read", where)
    /\ UNCHANGED <<mGrab, node, timeHub, loopGrab, mStop, torn, due, polled,
                   pc>>

-----------------------------------------------------------------------------
(* updateClosed() and the end of run().                                    *)

BeginClosed ==
    /\ pc = "pending" /\ cb = NoCall
    /\ InPlace("batch") = {} /\ InPlace("cur") = {}
    /\ pc' = "closed"
    /\ node' = [h \in Handles |-> IF node[h] = "close" THEN "list" ELSE node[h]]
    /\ UNCHANGED <<mFlag, mGrab, mFly, timeHub, reqVars, loopGrab, loopFly,
                   mStop, torn, due, polled, cb>>

CloseCall(h) ==
    /\ pc = "closed" /\ cb = NoCall
    /\ node[h] = "list"
    /\ node' = [node EXCEPT ![h] = "none"]
    /\ mFlag' = [mFlag EXCEPT ![h] = @ \cup {"CLOSE"}]
    /\ Call("close", h, "read", FALSE, FALSE)
    /\ UNCHANGED <<mGrab, mFly, timeHub, reqVars, loopGrab, loopFly, mStop,
                   torn, due, polled, pc>>

CloseReturn ==
    /\ cb.kind = "close"
    /\ loopGrab' = loopGrab - 1
    /\ cb' = NoCall
    /\ UNCHANGED <<handleVars, reqVars, loopFly, mStop, torn, due, polled, pc>>

\* run() returns whether it wants to be called again.
\* Mutant: as if its own command handle did not count.
GoOnUnlessAlone == loopGrab > 1
GoOn == loopGrab > 0
EndTick ==
    /\ pc = "closed" /\ cb = NoCall
    /\ \A h \in Handles : node[h] # "list"
    /\ pc' = IF GoOn THEN "time" ELSE "done"
    /\ UNCHANGED <<handleVars, reqVars, loopGrab, loopFly, mStop, torn, due,
                   polled, cb>>

-----------------------------------------------------------------------------
\* Loop::start() has opened mCMD and posted its first read.
Init ==
    /\ mFlag = [h \in Handles |-> IF h = CMD THEN OpenFlags("link") ELSE {}]
    /\ mGrab = [h \in Handles |-> IF h = CMD THEN 1 ELSE 0]
    /\ mFly  = [h \in Handles |-> IF h = CMD THEN 1 ELSE 0]
    /\ node  = [h \in Handles |-> IF h = CMD THEN "active" ELSE "none"]
    /\ timeHub = {CMD}
    /\ where = [r \in Requests |-> IF r = ReadCMD THEN "read" ELSE "free"]
    /\ mHandle = [r \in Requests |-> CMD]
    /\ mType = [r \in Requests |-> "read"]
    /\ loopGrab = 1
    /\ loopFly = 1
    /\ mStop = FALSE
    /\ torn = FALSE
    /\ due = {}
    /\ polled = {}
    /\ pc = "time"
    /\ cb = [NoCall EXCEPT !.kind = "init"]

RequestStep(r) ==
    \/ NextRequest(r)
    \/ Connected(r)
    \/ ConnectError(r)
    \/ Complete(r)
    \/ ShortRead(r)
    \/ Again(r)
    \/ Fail(r)
    \/ Refuse(r)

\* What the loop does once epoll_wait has answered and until it is called
\* again, callbacks returning.
LoopStep ==
    \/ InitReturn
    \/ TimerAgain
    \/ TimerClose
    \/ EndTimers
    \/ BeginPending
    \/ \E r \in Requests : RequestStep(r)
    \/ RequestReturn
    \/ \E h \in Handles : StopClose(h)
    \/ StopEnd
    \/ CmdDone
    \/ BeginClosed
    \/ \E h \in Handles : CloseCall(h)
    \/ CloseReturn
    \/ EndTick

\* run() has returned false and the engine does not call it again; or the
\* lists are beyond what node can say.
Finished == (pc = "done" \/ torn) /\ UNCHANGED vars

Next ==
    \/ /\ ~torn
       /\ \/ UserStep
          \/ LoopStep
          \/ CmdStop
          \/ \E h \in Handles : TimerFire(h)
          \/ \E h \in Handles, q \in Directions : Event(h, q)
    \/ Finished

Spec == Init /\ [][Next]_vars

\* The thread keeps running and callbacks return.
FairSpec == Spec /\ WF_vars(~torn /\ LoopStep)

-----------------------------------------------------------------------------
(* Properties.                                                             *)

CallRecord == [kind : CbKinds, h : Handles, type : ReqTypes,
               more : BOOLEAN, err : BOOLEAN]

\* Every variable has a value of its C++ type; the counts never go negative
\* (the DASSERTs in Handle::drop, dropFlyReq and Loop::drop, dropFlyReq).
TypeOK ==
    /\ mFlag \in [Handles -> SUBSET Flags]
    /\ mGrab \in [Handles -> Nat]
    /\ mFly \in [Handles -> Nat]
    /\ node \in [Handles -> Nodes]
    /\ timeHub \subseteq Handles
    /\ where \in [Requests -> Places]
    /\ mHandle \in [Requests -> Handles]
    /\ mType \in [Requests -> ReqTypes]
    /\ loopGrab \in Nat
    /\ loopFly \in Nat
    /\ mStop \in BOOLEAN
    /\ torn \in BOOLEAN
    /\ due \subseteq (Handles \X Directions)
    /\ polled \subseteq (Handles \X {"time", "read", "write"})
    /\ pc \in Phases
    /\ cb \in CallRecord

InFlight(h) == {r \in Requests : mHandle[r] = h /\ where[r] # "free"}
Held == {r \in Requests : where[r] # "free"}
\* unbindFly() follows the callback: until then it still counts.
Calling == cb.kind \in {"req", "ret", "stop"}

\* mFlyRequest counts exactly the requests the loop holds for the handle,
\* plus the one whose callback is running; the loop's own count is their sum.
FlyCounted ==
    /\ \A h \in Handles :
          mFly[h] = Cardinality(InFlight(h))
                      + (IF Calling /\ cb.h = h THEN 1 ELSE 0)
    /\ loopFly = Cardinality(Held) + (IF Calling THEN 1 ELSE 0)

\* The close callback is the last the application hears of a handle: from
\* the moment it is queued for closing, no request is in flight for it.
CloseIsLast ==
    \A h \in Handles : node[h] # "active" =>
        /\ InFlight(h) = {}
        /\ ~(Calling /\ cb.h = h)
        /\ mGrab[h] = 0

\* A request of direction q of h, or the callback of one, after which the loop
\* looks at h's queue or at the socket itself.
Carried(h, q) ==
    \/ \E r \in Requests : /\ mHandle[r] = h /\ QueueOf(mType[r]) = q
                           /\ where[r] \in {"pend", "batch", "cur"}
    \/ Calling /\ cb.h = h /\ cb.more /\ QueueOf(cb.type) = q

\* No request is stranded.  One that waits belongs to a handle that is still
\* registered for events; and if epoll has reported the readiness it waits for,
\* which it will not repeat, another request of its handle and direction is on
\* its way to the loop, which goes on with the queue after it.
NoStrandedRequest ==
    \A r \in Requests : where[r] \in Directions =>
        /\ Alive(mHandle[r])
        /\ <<mHandle[r], where[r]>> \in due => Carried(mHandle[r], where[r])

\* No missed wake-up.  What epoll has reported of a socket, and no call has
\* found drained, is remembered in the SYNC flag of the handle or in the hands
\* of a request on its way (epoll is edge-triggered and says it once); and it
\* is never remembered beside a request that waits for it.
NoMissedEdge ==
    \A h \in Handles, q \in Directions :
        /\ <<h, q>> \in due => Sync(q) \in mFlag[h] \/ Carried(h, q)
        /\ Alive(h) /\ ~Connecting(h) /\ Sync(q) \in mFlag[h] => Queue(h, q) = {}

\* The timer heap holds exactly the timed handles that are alive, so the
\* time callback of a closing handle is never called.  (All connections have
\* a time callback, as those of this program do: relinkTime() would put one
\* without into the heap, and nothing would take it out.)
HeapIsAlive ==
    timeHub = {h \in Handles : Alive(h) /\ h \in Timed /\ TypeOf[h] # "accept"}

\* run() returns false only when every handle has had its close callback and
\* every request its own (DASSERT in ~Loop).
QuitClean ==
    pc = "done" => /\ \A h \in Handles : node[h] = "none"
                   /\ \A r \in Requests : where[r] = "free"
                   /\ loopGrab = 0 /\ loopFly = 0

\* Loop::mGrabCount is the number of handles that have not been closed, the
\* one in its close callback included; opening a handle that is linked makes
\* it one more than that, and nothing will take it back.
Linked == {h \in Handles : node[h] # "none"}
LoopCountsHandles ==
    loopGrab = Cardinality(Linked) + (IF cb.kind = "close" THEN 1 ELSE 0)
                                   + (IF torn THEN 1 ELSE 0)

\* Every request the loop counts as in flight is linked somewhere, so that a
\* callback will come for it.
NoRequestForgotten == \A r \in Requests : where[r] # "lost"

\* Once a handle is closing no request is accepted for it, up to its close
\* callback: what is in flight for it can only go down, unless it is opened
\* again in the callback of its failed connect.
ClosingDrains ==
    [][\A h \in Handles :
          ("CLOSING" \in mFlag[h] /\ node[h] # "none") =>
              mFly'[h] <= mFly[h] \/ torn']_vars

\* After stop() the loop winds down, whatever callbacks go on doing: run()
\* returns false in the end, except in the two cases it does not.  A connect(2)
\* that failed at once leaves its request in no queue (NoRequestForgotten), and
\* a handle opened again in the callback of its failed connect is counted twice
\* (HandleLists.EndsUncounted).
StopTerminates == mStop ~> (pc = "done" \/ ~NoRequestForgotten \/ torn)
=============================================================================
