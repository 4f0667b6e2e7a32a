-------------------------------- MODULE Tls --------------------------------
(***************************************************************************)
(* Two HandleTLS, one that connects and one that was accepted:             *)
(* Source/Net/HandleTLS.cpp.  A handle keeps one read and one write of its *)
(* own on the HandleTCP below it (mRead, mWrite) and hands the requests of *)
(* the application through four queues.  What it asks of HandleTCP is what *)
(* Loop and TcpStream show: each request is called back once, in order,    *)
(* before the close callback.                                              *)
(*                                                                         *)
(* The session is OpenSSL's: four flights of a handshake, then one record  *)
(* for each item that is written.  Calls of the application may come from  *)
(* within any callback, so each callback is a step of its own.             *)
(***************************************************************************)
EXTENDS Naturals, Sequences

CONSTANTS Items,      \* how many writes each side makes
          MaxReads,   \* reads that a side has under way at once
          NodeSize,   \* records that are written at once: a node of the buffer
          BadFlights, \* flights that a session may refuse
          Byes        \* the sides that may announce their end: close_notify

ASSUME TlsConstants ==
    /\ Items["client"] \in Nat /\ Items["server"] \in Nat
    /\ {MaxReads, NodeSize} \subseteq Nat \ {0}
    /\ BadFlights \subseteq 1 .. 4
    /\ Byes \subseteq {"client", "server"}

VARIABLES hnd,        \* the two handles
          wire,       \* records under way from each side
          put,        \* items the session of each side has taken
          got         \* items the application of each side has been given

tlsVars == <<hnd, wire, put, got>>

Side == {"client", "server"}
Peer(e) == IF e = "client" THEN "server" ELSE "client"
Flights == 4
Flight(i) == <<"flight", i>>
Data(i) == <<"item", i>>
Bye == <<"bye", 0>>
None == <<"none", 0>>       \* a read that ended without data
Connect == <<"connect", 0>> \* the application's connect request

Odd(i) == i % 2 = 1
Finished(x) == x.hs = Flights       \* SSL_is_init_finished()
Free(x) == x.pc \in {"idle", "call"}  \* the application may call

-----------------------------------------------------------------------------
(* The handle's own read and write.  mUser says that one is under way; one *)
(* that could not be posted keeps it for ever: "dead".                     *)

Open(x) == x.tcp \in {"open", "broken"}      \* by the flags of mTCP

PostRead(x) ==
    IF x.read # "no" THEN x ELSE [x EXCEPT !.read = IF Open(x) THEN "posted" ELSE "dead"]

\* Broken: the next write goes out although one is under way.
PostWriteAlways(x) ==
    IF x.out = <<>> THEN x
    ELSE [x EXCEPT !.write = IF Open(x) THEN "posted" ELSE "dead",
                   !.commit = IF NodeSize < Len(x.out) THEN NodeSize ELSE Len(x.out)]

PostWrite(x) == IF x.write # "no" THEN x ELSE PostWriteAlways(x)

Commit(x) == [x EXCEPT !.write = "no", !.commit = 0, !.out = SubSeq(@, x.commit + 1, Len(@))]

\* SSL_do_handshake(): takes the next flight of the peer, answers with its own.
TakeFlight(x) ==
    IF ~Finished(x) /\ x.in # <<>> /\ Head(x.in) = Flight(x.hs + 1)
    THEN [x EXCEPT !.in = Tail(@), !.hs = @ + 1] ELSE x
GiveFlight(x) ==
    IF ~Finished(x) /\ (Odd(x.hs + 1) <=> x.connects)
    THEN [x EXCEPT !.hs = @ + 1, !.out = Append(@, Flight(x.hs + 1))] ELSE x

Handshake(x) == PostWrite(GiveFlight(TakeFlight(x)))

HasItem(x) == Finished(x) /\ x.in # <<>> /\ Head(x.in)[1] = "item"

\* Broken: the newest item is handed out first.
TakeItemFirst(x) == [x EXCEPT !.landReads = <<Head(x.in)>> \o @, !.in = Tail(@)]

\* SSL_read() into a request, which is then ready for its callback.
TakeItem(x) == [x EXCEPT !.landReads = Append(@, Head(x.in)), !.in = Tail(@)]

\* close() of the handle closes the socket: the loop is not told.
CloseSocket(x) == IF x.tcp = "open" THEN [x EXCEPT !.tcp = "broken"] ELSE x

\* mFlag of the handle is a copy of mTCP's, made here and there.
CopyFlag(x) == [x EXCEPT !.mFlag = Open(x)]

-----------------------------------------------------------------------------
(* The application.  It reads and writes once the handle is connected:     *)
(* mRead and mWrite have their callbacks only from onConnect() on.         *)

Set(e, x) == hnd' = [hnd EXCEPT ![e] = x]

Read(e) ==
    LET x == hnd[e] IN
    /\ Free(x) /\ x.mFlag /\ x.tcp # "connecting"
    /\ x.flyReads + Len(x.landReads) < MaxReads
    /\ Set(e, PostRead(
           IF x.flyReads = 0 /\ HasItem(x)
           THEN TakeItem(x) ELSE [x EXCEPT !.flyReads = @ + 1]))
    /\ UNCHANGED <<wire, put, got>>

\* A write behind one that waits, or before the handshake is done, waits.
Write(e) ==
    LET x == hnd[e]
        w == Data(x.wrote + 1)
        y == [x EXCEPT !.wrote = @ + 1]
    IN  /\ Free(x) /\ x.mFlag /\ x.tcp # "connecting" /\ x.wrote < Items[e]
        /\ IF x.flyWrites # <<>> \/ ~Finished(x)
           THEN Set(e, PostWrite([y EXCEPT !.flyWrites = Append(@, w)])) /\ UNCHANGED put
           ELSE /\ Set(e, PostWrite([y EXCEPT !.out = Append(@, w), !.landWrites = @ + 1]))
                /\ put' = [put EXCEPT ![e] = Append(@, w)]
        /\ UNCHANGED <<wire, got>>

\* launchClose() of the HandleTCP, by the application or a timer.
Close(e) ==
    LET x == hnd[e] IN
    /\ Free(x) /\ x.tcp \in {"connecting", "open", "broken"}
    /\ Set(e, [x EXCEPT !.tcp = "closing"])
    /\ UNCHANGED <<wire, put, got>>

Return(e) ==
    /\ hnd[e].pc = "call"
    /\ Set(e, [hnd[e] EXCEPT !.pc = hnd[e].then, !.then = "idle"])
    /\ UNCHANGED <<wire, put, got>>

\* What a peer of another make does before it closes; this code never does.
SayBye(e) ==
    LET x == hnd[e] IN
    /\ e \in Byes /\ Free(x) /\ Open(x) /\ Finished(x) /\ x.wrote < Items[e]
    /\ Set(e, PostWrite([x EXCEPT !.out = Append(@, Bye), !.wrote = Items[e]]))
    /\ UNCHANGED <<wire, put, got>>

-----------------------------------------------------------------------------
(* Callbacks of the HandleTCP: onConnect, onReadHello, onRead, onWriteHello *)
(* and onWrite.                                                            *)

Connected(e) ==
    LET x == hnd[e] IN
    /\ x.pc = "idle" /\ x.tcp = "connecting"
    /\ Set(e, Handshake(PostRead(CopyFlag([x EXCEPT !.tcp = "open", !.write = "no"]))))
    /\ UNCHANGED <<wire, put, got>>

ConnectFails(e) ==
    LET x == hnd[e] IN
    /\ x.pc = "idle" /\ x.tcp = "connecting"
    /\ Set(e, CopyFlag([x EXCEPT !.tcp = "closing", !.write = "no"]))
    /\ UNCHANGED <<wire, put, got>>

\* The records that have come, after which both sides may talk: the connect
\* request is called back, or the reads are looked at.
HelloRead(x) ==
    LET y == Handshake([x EXCEPT !.read = "no"]) IN
    IF ~Finished(y) THEN PostRead(y)
    ELSE IF y.connects
    THEN [y EXCEPT !.up = TRUE, !.flyWrites = Tail(@), !.pc = "call", !.then = "hello"]
    ELSE [y EXCEPT !.up = TRUE, !.pc = "pop", !.more = TRUE, !.cont = "hello"]

HelloRefused(x) == PostRead(CloseSocket([x EXCEPT !.read = "no", !.bad = TRUE]))

HelloDone(e) ==
    LET y == PostRead([hnd[e] EXCEPT !.pc = "idle"]) IN
    /\ hnd[e].pc = "hello"
    /\ Set(e, IF y.read = "dead" THEN CopyFlag(y) ELSE y)
    /\ UNCHANGED <<wire, put, got>>

TcpRead(e) ==
    \E n \in 1 .. Len(wire[Peer(e)]) :
        LET x == [hnd[e] EXCEPT !.in = @ \o SubSeq(wire[Peer(e)], 1, n)] IN
        /\ x.pc = "idle" /\ x.tcp = "open" /\ x.read = "posted"
        /\ wire' = [wire EXCEPT ![Peer(e)] = SubSeq(@, n + 1, Len(@))]
        /\ \/ x.up /\ Set(e, [x EXCEPT !.pc = "pop", !.more = TRUE, !.cont = "read"])
           \/ ~x.up /\ ~x.bad /\ Set(e, HelloRead(x))
           \/ /\ ~x.up /\ Head(x.in) = Flight(x.hs + 1) /\ x.hs + 1 \in BadFlights
              /\ Set(e, HelloRefused(x))
        /\ UNCHANGED <<put, got>>

TcpWrite(e) ==
    LET x == hnd[e] IN
    /\ x.pc = "idle" /\ x.tcp = "open" /\ x.write = "posted"
    /\ wire' = IF hnd[Peer(e)].tcp \in {"broken", "closing", "closed"} THEN wire
               ELSE [wire EXCEPT ![e] = @ \o SubSeq(x.out, 1, x.commit)]
    /\ Set(e, IF x.up THEN [x EXCEPT !.pc = "written", !.cont = "written"]
              ELSE IF x.bad THEN Commit(x)
              ELSE Handshake(Commit(x)))
    /\ UNCHANGED <<put, got>>

\* The other end is gone, or the own socket: the loop closes the handle.
TcpLost(e) ==
    LET x == hnd[e] IN
    /\ x.pc = "idle" /\ x.tcp = "open"
    /\ hnd[Peer(e)].tcp \in {"broken", "closing", "closed"}
    /\ x.write = "posted" \/ (x.read = "posted" /\ wire[Peer(e)] = <<>>)
    /\ Set(e, [x EXCEPT !.tcp = "closing"])
    /\ UNCHANGED <<wire, put, got>>

\* Of a closed socket no event comes: only a request that is tried at once,
\* on a flag of an event before, finds out.
SocketFails(e) ==
    LET x == hnd[e] IN
    /\ x.pc = "idle" /\ x.tcp = "broken"
    /\ "posted" \in {x.read, x.write}
    /\ Set(e, [x EXCEPT !.tcp = "closing"])
    /\ UNCHANGED <<wire, put, got>>

TcpReadFails(e) ==
    LET x == [CopyFlag(hnd[e]) EXCEPT !.read = "dead", !.eof = TRUE] IN
    /\ x.pc = "idle" /\ x.tcp = "closing" /\ hnd[e].read = "posted"
    /\ Set(e, IF x.up THEN [x EXCEPT !.pc = "pop", !.more = TRUE, !.cont = "end"] ELSE x)
    /\ UNCHANGED <<wire, put, got>>

TcpWriteFails(e) ==
    LET x == [hnd[e] EXCEPT !.write = "dead"] IN
    /\ x.pc = "idle" /\ x.tcp = "closing" /\ hnd[e].write = "posted"
    /\ Set(e, IF x.up THEN [x EXCEPT !.pc = "written", !.cont = "end"] ELSE CopyFlag(x))
    /\ UNCHANGED <<wire, put, got>>

-----------------------------------------------------------------------------
(* doRead(): as many reads as there are items, then their callbacks, which *)
(* may read again, until nothing is left of one or the other.              *)

Pop(e) ==
    LET x == hnd[e]
        over == x.eof \/ (x.in # <<>> /\ Head(x.in) = Bye)
    IN  /\ x.pc = "pop"
        /\ Set(e, IF x.flyReads = 0 THEN [x EXCEPT !.pc = "land"]
                  ELSE IF HasItem(x)
                  THEN [TakeItem(x) EXCEPT !.flyReads = @ - 1]
                  ELSE IF over
                  THEN [CloseSocket(x) EXCEPT !.flyReads = @ - 1, !.pc = "land", !.more = FALSE,
                                              !.landReads = Append(@, None)]
                  ELSE [x EXCEPT !.pc = "land", !.more = FALSE])
        /\ UNCHANGED <<wire, put, got>>

Landed(e, r) == got' = IF r = None THEN got ELSE [got EXCEPT ![e] = Append(@, r)]

\* After doRead(): the handle's own read is posted again.
DoneReading(x) ==
    LET y == [x EXCEPT !.pc = "idle", !.more = FALSE, !.cont = "none"] IN
    CASE x.cont = "read" -> PostRead([y EXCEPT !.read = "no"])
      [] x.cont = "hello" -> [y EXCEPT !.pc = "hello"]
      [] x.cont = "end" -> y

LandReads(e) ==
    LET x == hnd[e] IN
    /\ x.pc = "land"
    /\ IF x.landReads # <<>>
       THEN /\ Set(e, [x EXCEPT !.landReads = Tail(@), !.pc = "call", !.then = "land"])
            /\ Landed(e, Head(x.landReads))
       ELSE /\ Set(e, IF x.more /\ x.flyReads > 0 THEN [x EXCEPT !.pc = "pop"] ELSE DoneReading(x))
            /\ UNCHANGED got
    /\ UNCHANGED <<wire, put>>

\* onWrite(): the callbacks first, then what was written is dropped.
LandWrites(e) ==
    LET x == hnd[e] IN
    /\ x.pc = "written"
    /\ Set(e, IF x.landWrites > 0
              THEN [x EXCEPT !.landWrites = @ - 1, !.pc = "call", !.then = "written"]
              ELSE IF x.cont = "written"
              THEN PostWrite(Commit([x EXCEPT !.pc = "idle", !.cont = "none"]))
              ELSE CopyFlag([x EXCEPT !.pc = "idle", !.cont = "none"]))
    /\ UNCHANGED <<wire, put, got>>

-----------------------------------------------------------------------------
(* onClose(): each queue in turn; then the buffers are emptied.            *)

\* Broken: the flag is copied when all is done.
ClosingFlagLate(x) == x

ClosingFlag(x) == CopyFlag(x)

TcpClosed(e) ==
    LET x == hnd[e] IN
    /\ x.pc = "idle" /\ x.tcp = "closing" /\ "posted" \notin {x.read, x.write}
    /\ Set(e, ClosingFlag([x EXCEPT !.tcp = "closed", !.pc = "end1"]))
    /\ wire' = [wire EXCEPT ![Peer(e)] = <<>>]
    /\ UNCHANGED <<put, got>>

EndReads(e) ==
    LET x == hnd[e] IN
    /\ x.pc = "end1"
    /\ IF x.landReads # <<>>
       THEN /\ Set(e, [x EXCEPT !.landReads = Tail(@), !.pc = "call", !.then = "end1"])
            /\ Landed(e, Head(x.landReads))
       ELSE Set(e, [x EXCEPT !.pc = "end2"]) /\ UNCHANGED got
    /\ UNCHANGED <<wire, put>>

EndQueues(e) ==
    LET x == hnd[e] IN
    /\ \/ /\ x.pc = "end2"
          /\ Set(e, IF x.landWrites > 0
                    THEN [x EXCEPT !.landWrites = @ - 1, !.pc = "call", !.then = "end2"]
                    ELSE [x EXCEPT !.pc = "end3"])
       \/ /\ x.pc = "end3"
          /\ Set(e, IF x.flyWrites # <<>>
                    THEN [x EXCEPT !.flyWrites = Tail(@), !.pc = "call", !.then = "end3"]
                    ELSE [x EXCEPT !.pc = "end4"])
       \/ /\ x.pc = "end4"
          /\ Set(e, IF x.flyReads > 0
                    THEN [x EXCEPT !.flyReads = @ - 1, !.pc = "call", !.then = "end4"]
                    ELSE CopyFlag([x EXCEPT !.pc = "closed", !.in = <<>>, !.out = <<>>]))
    /\ UNCHANGED <<wire, put, got>>

-----------------------------------------------------------------------------
NewHandle(connects) ==
    [connects |-> connects, tcp |-> IF connects THEN "connecting" ELSE "open",
     mFlag |-> TRUE, read |-> "no", write |-> IF connects THEN "posted" ELSE "no",
     commit |-> 0, in |-> <<>>, out |-> <<>>, hs |-> 0, up |-> FALSE, bad |-> FALSE,
     eof |-> FALSE, flyReads |-> 0, flyWrites |-> IF connects THEN <<Connect>> ELSE <<>>,
     landReads |-> <<>>, landWrites |-> 0, wrote |-> 0,
     pc |-> "idle", then |-> "idle", cont |-> "none", more |-> FALSE]

TlsInit ==
    /\ hnd = [e \in Side |-> NewHandle(e = "client")]
    /\ wire = [e \in Side |-> <<>>] /\ put = wire /\ got = wire

Calls(e) == Read(e) \/ Write(e) \/ Close(e) \/ SayBye(e)

\* What the loop, the network and the handle do by themselves.
Works(e) ==
    \/ Connected(e) \/ HelloDone(e) \/ TcpRead(e) \/ TcpWrite(e) \/ TcpLost(e)
    \/ TcpReadFails(e) \/ TcpWriteFails(e) \/ TcpClosed(e)
    \/ Pop(e) \/ LandReads(e) \/ LandWrites(e) \/ EndReads(e) \/ EndQueues(e) \/ Return(e)

TlsNext == \E e \in Side : Calls(e) \/ Works(e) \/ ConnectFails(e) \/ SocketFails(e)

TlsSpec == TlsInit /\ [][TlsNext]_tlsVars

TlsFairSpec ==
    /\ TlsSpec
    /\ WF_tlsVars(Works("client"))
    /\ WF_tlsVars(Works("server"))

-----------------------------------------------------------------------------
(* Properties.                                                             *)

Stream1 == INSTANCE Fifo WITH
    Item <- {Data(i) : i \in 1 .. Items["client"]}, put <- put["client"], got <- got["server"]
Stream2 == INSTANCE Fifo WITH
    Item <- {Data(i) : i \in 1 .. Items["server"]}, put <- put["server"], got <- got["client"]

\* What write() takes on one side comes out of the reads of the other, once
\* and in order, through two buffers that are filled, posted and emptied by
\* callbacks, and however the connection ends.
TlsInOrder == Stream1!Spec /\ Stream2!Spec

\* onClose() calls back whatever waits in any of the four queues, although
\* those callbacks may read and write again: nothing is left behind.
AllHandedBack ==
    \A e \in Side : LET x == hnd[e] IN
        x.pc = "closed" =>
            /\ x.flyReads = 0 /\ x.landReads = <<>>
            /\ x.landWrites = 0 /\ x.flyWrites = <<>>

\* What came with the last flight is not handed to the reads of the side that
\* connected before something more comes: see the README.
LeftOver(x) ==
    x.pc = "idle" /\ (x.landReads # <<>> \/ (x.connects /\ HasItem(x) /\ x.flyReads > 0))

\* While both sockets are open and both sides read, the handshake ends, what
\* write() takes is sent, called back, and read by the peer: postWrite() and
\* postRead() leave no buffer without a request under way.
TlsTalksOn ==
    []<>((\A e \in Side : /\ hnd[e].tcp = "open" /\ hnd[e].flyReads > 0
                          /\ ~LeftOver(hnd[e]))
         => \A e \in Side : /\ hnd[e].up /\ hnd[e].landWrites = 0
                            /\ got[Peer(e)] = put[e])
=============================================================================
