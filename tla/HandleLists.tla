---------------------------- MODULE HandleLists ----------------------------
(***************************************************************************)
(* The two intrusive lists of the event loop, mHandleActive and            *)
(* mHandleClose (Source/Linux/Loop.cpp), with the links of their nodes     *)
(* (class Node2 of Include/Node.h): the part of Loop that its function     *)
(* node abstracts, for a loop whose handles connect and whose application  *)
(* may open a handle again in the callback of its failed connect, as       *)
(* RedisClient::onConnect() does through RedisClientPool::onClose().       *)
(*                                                                         *)
(* openHandle() does not ask whether the handle is linked, closeHandle()   *)
(* in updatePending() leaves it linked as long as its request is in        *)
(* flight, and the callback runs before unbindFly().  A node that is put   *)
(* into a ring it is in already is not in a ring any more.                 *)
(*                                                                         *)
(* A handle has at most one connect request for each time it was opened;   *)
(* other requests, timers and epoll are left to Loop.                      *)
(***************************************************************************)
EXTENDS Naturals

CONSTANTS Handles,      \* the handles: class Handle : Node2
          CMD,          \* Loop::mCMD
          Active,       \* the head Loop::mHandleActive
          Closed,       \* the head Loop::mHandleClose
          List,         \* the head of updateClosed()'s local list
          MaxGrab       \* bound on Loop::mGrabCount

(* CMD is one of Handles; the three heads are different and no handles.    *)
Heads == {Active, Closed, List}

VARIABLES links,        \* Node2::mNext and mPrevious of every node
          mFlag,        \* "open", "closing" or "close" (not opened, or ended)
          mGrab, mFly,  \* Handle::mGrabCount and mFlyRequest
          loopGrab, loopFly,    \* those of the loop
          mStop,        \* Loop::mStop
          pc,           \* where run() is
          next,         \* stop()'s variable
          cb            \* the callback that is running, and its handle

vars == <<links, mFlag, mGrab, mFly, loopGrab, loopFly, mStop, pc, next, cb>>

NoCall == [kind |-> "none", h |-> CMD]
Call(k, h) == cb' = [kind |-> k, h |-> h]

-----------------------------------------------------------------------------
(* class Node2, assignment by assignment.                                  *)

Delink(l, x) ==
    LET n == l.mNext[x]  p == l.mPrevious[x] IN
    [mNext     |-> [l.mNext EXCEPT ![p] = n, ![x] = x],
     mPrevious |-> [l.mPrevious EXCEPT ![n] = p, ![x] = x]]

\* Between the head and the first node.
PushBack(l, head, x) ==
    LET first == l.mNext[head] IN
    [mNext     |-> [l.mNext EXCEPT ![x] = first, ![head] = x],
     mPrevious |-> [l.mPrevious EXCEPT ![x] = head, ![first] = x]]

\* Between the last node and the head.
PushFront(l, head, x) ==
    LET last == l.mPrevious[head] IN
    [mNext     |-> [l.mNext EXCEPT ![x] = head, ![last] = x],
     mPrevious |-> [l.mPrevious EXCEPT ![x] = last, ![head] = x]]

\* The nodes of one head pass to a new one.
SplitAndJoin(l, head, new) ==
    LET first == l.mNext[head]  last == l.mPrevious[head]  at == l.mNext[new] IN
    [mNext     |-> [l.mNext EXCEPT ![new] = first, ![last] = at, ![head] = head],
     mPrevious |-> [l.mPrevious EXCEPT ![first] = new, ![at] = last,
                                       ![head] = head]]

-----------------------------------------------------------------------------
(* Loop::addClose, closeHandle, openHandle, unbindFly.                     *)

AddClose(l, h) == PushFront(Delink(l, h), Closed, h)

\* A handle whose last reference goes is queued for closing.
Drop(h, grab, fly) ==
    links' = IF grab = 0 /\ fly = 0 THEN AddClose(links, h) ELSE links

CloseHandle(h) ==
    IF mFlag[h] # "open"
    THEN UNCHANGED <<links, mFlag, mGrab>>
    ELSE /\ mFlag' = [mFlag EXCEPT ![h] = "closing"]
         /\ mGrab' = [mGrab EXCEPT ![h] = @ - 1]
         /\ Drop(h, mGrab[h] - 1, mFly[h])

UnbindFly(h) ==
    /\ mFly' = [mFly EXCEPT ![h] = @ - 1]
    /\ loopFly' = loopFly - 1
    /\ Drop(h, mGrab[h], mFly[h] - 1)

\* The application opens a handle that has had its close callback, or none
\* yet, and the one whose connect has failed.
InCallback == cb.kind \in {"init", "connected", "error", "close"}
MayOpen(h) ==
    /\ InCallback /\ h # CMD
    /\ mFlag[h] = "close" \/ (cb = [kind |-> "error", h |-> h] /\ mFlag[h] # "open")

\* openHandle() and connect(2), which is in progress; a loop that stops opens
\* nothing (and marks the handle as closing).
Open(h) ==
    /\ MayOpen(h) /\ ~mStop /\ loopGrab < MaxGrab
    /\ mFlag' = [mFlag EXCEPT ![h] = "open"]
    /\ mGrab' = [mGrab EXCEPT ![h] = @ + 1]
    /\ mFly' = [mFly EXCEPT ![h] = @ + 1]
    /\ loopGrab' = loopGrab + 1
    /\ loopFly' = loopFly + 1
    /\ links' = PushBack(links, Active, h)
    /\ UNCHANGED <<mStop, pc, next, cb>>

OpenRefused(h) ==
    /\ MayOpen(h) /\ mStop
    /\ mFlag' = [mFlag EXCEPT ![h] = "closing"]
    /\ UNCHANGED <<links, mGrab, mFly, loopGrab, loopFly, mStop, pc, next, cb>>

\* Handle::launchClose
Close(h) ==
    /\ InCallback /\ h # CMD
    /\ mFlag[h] = "open"
    /\ CloseHandle(h)
    /\ UNCHANGED <<mFly, loopGrab, loopFly, mStop, pc, next, cb>>

-----------------------------------------------------------------------------
(* run(): updatePending() and updateClosed().                              *)

Idle(p) == pc = p /\ cb = NoCall

\* The connect request of h is answered: SO_ERROR is 0 or it is not; of a
\* handle closed meanwhile the socket is gone and it is not.
Connected(h) ==
    /\ Idle("pending") /\ h # CMD /\ mFly[h] > 0 /\ mFlag[h] = "open"
    /\ Call("connected", h)
    /\ UNCHANGED <<links, mFlag, mGrab, mFly, loopGrab, loopFly, mStop, pc, next>>

ConnectError(h) ==
    /\ Idle("pending") /\ h # CMD /\ mFly[h] > 0
    /\ CloseHandle(h)
    /\ Call("error", h)
    /\ UNCHANGED <<mFly, loopGrab, loopFly, mStop, pc, next>>

Return ==
    /\ pc = "pending" /\ cb.kind \in {"connected", "error", "command"}
    /\ cb' = NoCall
    /\ UnbindFly(cb.h)
    /\ UNCHANGED <<mFlag, mGrab, loopGrab, mStop, pc, next>>

InitReturn ==
    /\ cb.kind = "init"
    /\ cb' = NoCall
    /\ UNCHANGED <<links, mFlag, mGrab, mFly, loopGrab, loopFly, mStop, pc, next>>

\* Loop::onRead finds ECT_EXIT: stop() begins its walk.
Stop ==
    /\ Idle("pending") /\ ~mStop
    /\ mStop' = TRUE
    /\ pc' = "stop"
    /\ next' = links.mNext[Active]
    /\ Call("command", CMD)
    /\ UNCHANGED <<links, mFlag, mGrab, mFly, loopGrab, loopFly>>

\* curr = next; next = next->mNext; closeHandle(curr).  The head of another
\* list is no handle: what a walk that meets one does is undefined.
StopWalk ==
    /\ pc = "stop"
    /\ \/ /\ next = Active
          /\ pc' = "pending"
          /\ UNCHANGED <<links, mFlag, mGrab, next>>
       \/ /\ next \in Handles
          /\ next' = links.mNext[next]
          /\ CloseHandle(next)
          /\ UNCHANGED pc
       \/ /\ next \in Heads \ {Active}
          /\ pc' = "undefined"
          /\ UNCHANGED <<links, mFlag, mGrab, next>>
    /\ UNCHANGED <<mFly, loopGrab, loopFly, mStop, cb>>

BeginClosed ==
    /\ Idle("pending")
    /\ pc' = "closed"
    /\ links' = IF links.mNext[Closed] = Closed THEN links
                ELSE SplitAndJoin(links, Closed, List)
    /\ UNCHANGED <<mFlag, mGrab, mFly, loopGrab, loopFly, mStop, next, cb>>

CloseCall ==
    LET curr == links.mNext[List] IN
    /\ Idle("closed") /\ curr # List
    /\ IF curr \in Handles
       THEN /\ links' = Delink(links, curr)
            /\ mFlag' = [mFlag EXCEPT ![curr] = "close"]
            /\ Call("close", curr)
            /\ UNCHANGED pc
       ELSE /\ pc' = "undefined"
            /\ UNCHANGED <<links, mFlag, cb>>
    /\ UNCHANGED <<mGrab, mFly, loopGrab, loopFly, mStop, next>>

CloseReturn ==
    /\ cb.kind = "close"
    /\ cb' = NoCall
    /\ loopGrab' = loopGrab - 1
    /\ UNCHANGED <<links, mFlag, mGrab, mFly, loopFly, mStop, pc, next>>

EndTick ==
    /\ Idle("closed") /\ links.mNext[List] = List
    /\ pc' = IF loopGrab > 0 THEN "pending" ELSE "done"
    /\ UNCHANGED <<links, mFlag, mGrab, mFly, loopGrab, loopFly, mStop, next, cb>>

-----------------------------------------------------------------------------
\* Loop::start() has opened mCMD and posted its read.
Init ==
    /\ links = PushBack([mNext     |-> [x \in Handles \cup Heads |-> x],
                         mPrevious |-> [x \in Handles \cup Heads |-> x]],
                        Active, CMD)
    /\ mFlag = [h \in Handles |-> IF h = CMD THEN "open" ELSE "close"]
    /\ mGrab = [h \in Handles |-> IF h = CMD THEN 1 ELSE 0]
    /\ mFly = [h \in Handles |-> IF h = CMD THEN 1 ELSE 0]
    /\ loopGrab = 1 /\ loopFly = 1
    /\ mStop = FALSE
    /\ pc = "pending"
    /\ next = Active
    /\ cb = [kind |-> "init", h |-> CMD]

\* What the loop does once it runs, callbacks returning and connects being
\* answered.
LoopStep ==
    \/ InitReturn \/ Return \/ StopWalk
    \/ \E h \in Handles : Connected(h) \/ ConnectError(h)
    \/ BeginClosed \/ CloseCall \/ CloseReturn \/ EndTick

UserStep == \E h \in Handles : Open(h) \/ OpenRefused(h) \/ Close(h)

Finished == pc \in {"done", "undefined"} /\ UNCHANGED vars

Next == UserStep \/ LoopStep \/ Stop \/ Finished

\* The thread keeps running, callbacks return, and every connect is answered.
FairSpec ==
    /\ Init /\ [][Next]_vars
    /\ WF_vars(LoopStep)
    /\ \A h \in Handles : SF_vars(Connected(h) \/ ConnectError(h))

-----------------------------------------------------------------------------
\* What ~Loop() asserts (Loop.cpp:53), of a loop that was told to stop: in the
\* end nothing is counted any more.  (Walks that leave the handles are not held
\* against it: they may do anything.)
EndsUncounted ==
    mStop ~> ((loopGrab = 0 /\ loopFly = 0) \/ pc = "undefined")
=============================================================================
