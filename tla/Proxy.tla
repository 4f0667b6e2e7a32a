------------------------------- MODULE Proxy -------------------------------
(***************************************************************************)
(* The TCP proxy: an acceptor, and for each connection it accepts a pair   *)
(* of handles that pass on what they read and close each other:            *)
(* Source/Net/TcpProxy.cpp, Source/Net/Acceptor.cpp.  Both live on one     *)
(* loop, whose promises are those of Loop and TcpStream: a handle that is  *)
(* being closed hands back its requests, then calls its close callback.    *)
(* With TLS on a side (mType) that side is a handle of Tls instead.        *)
(***************************************************************************)
EXTENDS Naturals, Sequences, FiniteSets

CONSTANTS Link,       \* the connections that are accepted
          Request,    \* requests of the acceptor: GMaxFly
          Parts       \* how much each side sends

ASSUME ProxyConstants == IsFiniteSet(Link) /\ Request # {} /\ Parts \in Nat

VARIABLES acceptor,   \* its handle, and the state of each of its requests
          pair,       \* for each connection, its object and two handles
          hub         \* references to the TcpProxyHub

proxyVars == <<acceptor, pair, hub>>

Half == {"front", "back"}
Other(h) == IF h = "front" THEN "back" ELSE "front"

Live(p, h) == p[h].tcp \in {"connecting", "open"}

\* closeHandle(): nothing to do for one that is closing, closed or never open.
CloseHalf(p, h) == IF Live(p, h) THEN [p EXCEPT ![h].tcp = "closing"] ELSE p
CloseBoth(p) == CloseHalf(CloseHalf(p, "front"), "back")

Idle(p, h) == ~p[h].read /\ p[h].writes = 0 /\ (h = "back" => ~p.conn)

Put(l, p) == pair' = [pair EXCEPT ![l] = p]

-----------------------------------------------------------------------------
(* Acceptor::onLink and TcpProxy::onLink.  The request is posted again in  *)
(* any case, except after an error.                                        *)

CanLink(r, l) ==
    acceptor.tcp = "open" /\ acceptor.req[r] = "fly" /\ pair[l].life = "none"

FrontFails(r, l) ==
    /\ CanLink(r, l)
    /\ Put(l, [pair[l] EXCEPT !.life = "gone"])
    /\ UNCHANGED <<acceptor, hub>>

Linked(r, l) ==
    /\ CanLink(r, l)
    /\ Put(l, [pair[l] EXCEPT !.life = "bound", !.conn = TRUE,
                              !.front.tcp = "open", !.back.tcp = "connecting"])
    /\ hub' = hub + 1
    /\ UNCHANGED acceptor

\* The backend's handle cannot be opened.  The request that is deleted is
\* the acceptor's, which posts it nevertheless: from there on it is not
\* modelled.
BackFails(r, l) ==
    /\ CanLink(r, l)
    /\ Put(l, [pair[l] EXCEPT !.life = "bound", !.front.tcp = "closing"])
    /\ hub' = hub + 1
    /\ acceptor' = [acceptor EXCEPT !.req[r] = "deleted"]

LinkError(r) ==
    /\ acceptor.tcp \in {"open", "closing"} /\ acceptor.req[r] = "fly"
    /\ acceptor' = [acceptor EXCEPT !.req[r] = "kept"]
    /\ UNCHANGED <<pair, hub>>

CloseAcceptor ==
    /\ acceptor.tcp = "open"
    /\ acceptor' = [acceptor EXCEPT !.tcp = "closing"]
    /\ UNCHANGED <<pair, hub>>

\* onClose(): the hub is dropped, and the acceptor with its requests.
AcceptorClosed ==
    /\ acceptor.tcp = "closing" /\ \A r \in Request : acceptor.req[r] # "fly"
    /\ acceptor' = [tcp |-> "closed", req |-> [r \in Request |-> "deleted"]]
    /\ hub' = hub - 1
    /\ UNCHANGED pair

-----------------------------------------------------------------------------
(* The pair.                                                               *)

Pair(l, p) == Put(l, p) /\ UNCHANGED <<acceptor, hub>>

\* onConnect(): both sides are read, unless the front has gone meanwhile.
Connects(l) ==
    LET p == [pair[l] EXCEPT !.conn = FALSE, !.back.tcp = "open", !.back.read = TRUE] IN
    /\ pair[l].back.tcp = "connecting"
    /\ Pair(l, IF Live(p, "front") THEN [p EXCEPT !.front.read = TRUE] ELSE CloseBoth(p))

\* onConnect() with an error: the backend is closing already.
ConnectEnds(l) ==
    /\ pair[l].conn
    /\ Pair(l, CloseHalf([CloseHalf(pair[l], "back") EXCEPT !.conn = FALSE], "front"))

\* onRead(): the next read is posted, then what came is written on; it is
\* thrown away if the other half is closing.
Relay(l, h) ==
    LET p == [pair[l] EXCEPT ![h].sent = @ + 1]
        o == Other(h)
    IN  /\ p[h].tcp = "open" /\ p[h].read /\ p[h].sent <= Parts
        /\ Pair(l, IF p[o].tcp = "open" THEN [p EXCEPT ![o].writes = @ + 1] ELSE p)

\* onWrite(), and the callbacks of a handle that is closing.
Written(l, h) ==
    /\ pair[l][h].tcp \in {"open", "closing"} /\ pair[l][h].writes > 0
    /\ Pair(l, [pair[l] EXCEPT ![h].writes = @ - 1])
ReadEnds(l, h) ==
    /\ pair[l][h].tcp = "closing" /\ pair[l][h].read
    /\ Pair(l, [pair[l] EXCEPT ![h].read = FALSE])

\* End of the stream, or an error of the socket: the loop closes the handle.
Lost(l, h) ==
    /\ pair[l][h].tcp = "open" /\ (pair[l][h].read \/ pair[l][h].writes > 0)
    /\ Pair(l, CloseHalf(pair[l], h))

\* onTimeout() closes the other half; its answer closes this one.
Timeout(l, h) ==
    /\ Live(pair[l], h)
    /\ Pair(l, CloseBoth(pair[l]))

\* Broken: it is enough that the other half is being closed.
OtherClosing(p, h) == ~Live(p, Other(h))

\* isClose() of the other half, which holds too if it was never open.
OtherClosed(p, h) == p[Other(h)].tcp \in {"closed", "none"}

\* Broken: the other half is left to its own end.
CloseOtherNot(p, h) == p
CloseOther(p, h) == CloseHalf(p, Other(h))

\* onClose(), onClose2(): the last of the two gives up the object.
HalfClosed(l, h) ==
    LET p == [pair[l] EXCEPT ![h].tcp = "closed"] IN
    /\ pair[l][h].tcp = "closing" /\ Idle(pair[l], h) /\ p.life = "bound"
    /\ IF OtherClosed(p, h)
       THEN Put(l, [p EXCEPT !.life = "gone"]) /\ hub' = hub - 1
       ELSE Put(l, CloseOther(p, h)) /\ UNCHANGED hub
    /\ UNCHANGED acceptor

-----------------------------------------------------------------------------
NewHalf == [tcp |-> "none", read |-> FALSE, writes |-> 0, sent |-> 0]

ProxyInit ==
    /\ acceptor = [tcp |-> "open", req |-> [r \in Request |-> "fly"]]
    /\ pair = [l \in Link |-> [life |-> "none", conn |-> FALSE, front |-> NewHalf, back |-> NewHalf]]
    /\ hub = 1

\* What the loop does by itself with a pair.
PairWorks ==
    \E l \in Link : \E h \in Half : HalfClosed(l, h) \/ Written(l, h) \/ ReadEnds(l, h)
                                    \/ (ConnectEnds(l) /\ pair[l].back.tcp = "closing")

ProxyNext ==
    \/ \E r \in Request, l \in Link : FrontFails(r, l) \/ Linked(r, l) \/ BackFails(r, l)
    \/ \E r \in Request : LinkError(r)
    \/ CloseAcceptor \/ AcceptorClosed
    \/ \E l \in Link : Connects(l) \/ ConnectEnds(l)
    \/ \E l \in Link, h \in Half :
           \/ Relay(l, h) \/ Written(l, h) \/ ReadEnds(l, h)
           \/ Lost(l, h) \/ Timeout(l, h) \/ HalfClosed(l, h)

ProxySpec == ProxyInit /\ [][ProxyNext]_proxyVars

-----------------------------------------------------------------------------
(* Properties.                                                             *)

\* A TcpProxy is deleted, inside the close callback of one of its handles,
\* only when both are closed and no request of either is in flight, as the
\* assertion in ~Handle() asks; each one, and the acceptor, drops the hub
\* once.  Either half may be closed first, or both at once, before or after
\* the backend is connected.
FreedLast ==
    /\ \A l \in Link : pair[l].life = "gone" =>
           \A h \in Half : pair[l][h].tcp \in {"closed", "none"} /\ Idle(pair[l], h)
    /\ hub = Cardinality({l \in Link : pair[l].life = "bound"})
             + IF acceptor.tcp = "closed" THEN 0 ELSE 1

\* Once one half is closing the other follows, and the object is deleted.
PairEnds ==
    \A l \in Link :
        (\E h \in Half : pair[l][h].tcp \in {"closing", "closed"}) ~> pair[l].life = "gone"
=============================================================================
