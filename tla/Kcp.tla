-------------------------------- MODULE Kcp --------------------------------
(***************************************************************************)
(* Two ends of a KCP conversation over a network that loses, doubles and   *)
(* reorders datagrams: Source/Net/KCProtocal.cpp.                          *)
(*                                                                         *)
(* kcp[e] is the object of end e, its lists as sequences; an operator that *)
(* takes a state k and returns one is the method of that name.  Sequence   *)
(* numbers wrap, sizes are in units of which a header takes one, a payload *)
(* is <<message, fragment>>.  Time is left out: which timers have run out  *)
(* when update() comes is a choice, and so is the growth of mIncr.         *)
(***************************************************************************)
EXTENDS Integers, Sequences, SequencesExt, FiniteSets

CONSTANTS Messages,   \* the lengths of what each end sends, in order
          MTU,        \* units in a datagram
          SendWindow, RecvWindow,      \* mSendWindowSize, mReceiveWindowSize
          WND_RCV,    \* no message has that many fragments
          CongestionWindow,            \* mNoCongestionWindow == 0
          FastResend, \* mFastResend
          SNMod, FirstSN,              \* width and start of the numbers
          NetCap,     \* datagrams the network holds on their way to each end
          MaxAcks     \* acknowledgements an end holds when it imports

End == {"a", "b"}
Peer(e) == CHOOSE f \in End : f # e
MSS == MTU - 1

ASSUME KcpConstants ==
    /\ {MTU, SendWindow, RecvWindow, WND_RCV, SNMod, MaxAcks} \subseteq Nat \ {0}
    /\ FastResend \in Nat /\ FirstSN \in 0 .. SNMod - 1
    /\ MTU > 1 /\ WND_RCV <= RecvWindow /\ 2 * (RecvWindow + SendWindow) <= SNMod
    /\ CongestionWindow \in BOOLEAN
    /\ \A e \in End : Messages[e] \in Seq(Nat) /\ NetCap[e] \in Nat \ {0}

VARIABLES kcp,        \* the protocol object of each end
          net,        \* the datagrams under way to each end
          sent, got   \* messages each end has sent, and those it has received

vars == <<kcp, net, sent, got>>

Least(x, y) == IF x < y THEN x ELSE y
Most(x, y) == IF x > y THEN x ELSE y

\* AppTimeDiff(): the difference as a signed number of the same width.
Diff(later, earlier) ==
    LET d == (later - earlier) % SNMod IN IF 2 * d >= SNMod THEN d - SNMod ELSE d
Plus(sn, n) == (sn + n) % SNMod

-----------------------------------------------------------------------------
(* Messages and segments.                                                  *)

Fragments(len) == IF len <= MSS THEN 1 ELSE (len + MSS - 1) \div MSS
Accepts(len) == Fragments(len) < WND_RCV

\* sendKCP(): the last fragment has number 0 and what is left of the data.
Split(e, n) ==
    LET len == Messages[e][n]
        count == Fragments(len)
    IN  [i \in 1 .. count |->
            [frg |-> count - i, data |-> <<n, i>>, size |-> Least(MSS, len - (i - 1) * MSS)]]

Message(e, n) == [i \in 1 .. Fragments(Messages[e][n]) |-> <<n, i>>]

WindowUnused(k) == Most(RecvWindow - Len(k.recvQueue), 0)

Header(k, cmd) == [cmd |-> cmd, wnd |-> WindowUnused(k), una |-> k.recvNext]
AckOf(k, sn) == [cmd |-> "ACK", wnd |-> WindowUnused(k), una |-> k.recvNext, sn |-> sn]
PushOf(k, s) == [cmd |-> "PUSH", wnd |-> WindowUnused(k), una |-> k.recvNext,
                 sn |-> s.sn, frg |-> s.frg, data |-> s.data, size |-> s.size]

UnitsOf(seg) == IF seg.cmd = "PUSH" THEN 1 + seg.size ELSE 1
SizeOf(datagram) == FoldLeft(LAMBDA n, seg : n + UnitsOf(seg), 0, datagram)

\* flush(): a segment that does not fit sends the buffer and starts anew.
PutIn(out, seg) ==
    IF out # <<>> /\ SizeOf(out[Len(out)]) + UnitsOf(seg) <= MTU
    THEN [out EXCEPT ![Len(out)] = Append(@, seg)]
    ELSE Append(out, << seg >>)
Pack(segs) ==
    LET out[i \in 0 .. Len(segs)] == IF i = 0 THEN <<>> ELSE PutIn(out[i - 1], segs[i])
    IN  out[Len(segs)]

\* The elements of s at the indices in S, in order.
Chosen(s, S) ==
    LET part[i \in 0 .. Len(s)] ==
            IF i = 0 THEN <<>>
            ELSE IF i \in S THEN Append(part[i - 1], s[i]) ELSE part[i - 1]
    IN  part[Len(s)]

\* How many indices of s, from the first on, are in S.
Run(s, S) == CHOOSE n \in 0 .. Len(s) : 1 .. n \subseteq S /\ n + 1 \notin S \cap DOMAIN s

-----------------------------------------------------------------------------
(* importRaw().                                                            *)

Una(k) == IF k.sendBuffer = <<>> THEN k.sendNext ELSE Head(k.sendBuffer).sn
ShrinkBuf(k) == [k EXCEPT !.sendUNA = Una(k)]

DropFirst(k, n) == [k EXCEPT !.sendBuffer = SubSeq(@, n + 1, Len(@))]

\* Broken: frees the segment the peer waits for next.
ParseUNAInclusive(k, una) ==
    DropFirst(k, Run(k.sendBuffer, {i \in DOMAIN k.sendBuffer : Diff(una, k.sendBuffer[i].sn) >= 0}))

ParseUNA(k, una) ==
    DropFirst(k, Run(k.sendBuffer, {i \in DOMAIN k.sendBuffer : Diff(una, k.sendBuffer[i].sn) > 0}))

InFlight(k, sn) == Diff(sn, k.sendUNA) >= 0 /\ Diff(sn, k.sendNext) < 0

ParseACK(k, sn) ==
    LET b == k.sendBuffer
        acked == {i \in DOMAIN b : b[i].sn = sn}
        n == CHOOSE i \in acked : TRUE
    IN  IF InFlight(k, sn) /\ acked # {}
        THEN [k EXCEPT !.sendBuffer = RemoveAt(b, n)] ELSE k

\* mFastACK is counted as far as it is compared.
ParseFaskACK(k, sn) ==
    LET b == k.sendBuffer
        skipped(s) == [s EXCEPT !.fast = Least(@ + 1, FastResend)]
    IN  IF InFlight(k, sn)
        THEN [k EXCEPT !.sendBuffer =
                 [i \in DOMAIN b |-> IF Diff(sn, b[i].sn) > 0 THEN skipped(b[i]) ELSE b[i]]]
        ELSE k

\* Broken: the numbers are not looked at.
ReadyInAnyOrder(k) == Least(Len(k.recvBuffer), RecvWindow - Len(k.recvQueue))

\* What is next in order goes to the queue the application reads, as far as
\* there is room; mReceiveBuffer is sorted and has no two of a number.
Ready(k) ==
    LET b == k.recvBuffer
    IN  Run(b, {i \in DOMAIN b : /\ b[i].sn = Plus(k.recvNext, i - 1)
                                 /\ i <= RecvWindow - Len(k.recvQueue)})

MoveReady(k) ==
    LET n == Ready(k) IN
    [k EXCEPT !.recvQueue = @ \o [i \in 1 .. n |-> [frg |-> k.recvBuffer[i].frg,
                                                    data |-> k.recvBuffer[i].data]],
              !.recvBuffer = SubSeq(@, n + 1, Len(@)),
              !.recvNext = Plus(@, n)]

\* The new segment goes behind those before it.
Insert(k, seg) ==
    LET b == k.recvBuffer
        older == Run(b, {i \in DOMAIN b : Diff(seg.sn, b[i].sn) > 0})
    IN  [k EXCEPT !.recvBuffer =
            InsertAt(@, older + 1, [sn |-> seg.sn, frg |-> seg.frg, data |-> seg.data])]

\* Broken: a doubled segment is kept twice.
ParseSegTwice(k, seg) == MoveReady(Insert(k, seg))

ParseSeg(k, seg) ==
    LET repeat == \E i \in DOMAIN k.recvBuffer : k.recvBuffer[i].sn = seg.sn
    IN  MoveReady(IF repeat THEN k ELSE Insert(k, seg))

\* A segment beyond the window is not even acknowledged; one that was taken
\* before is acknowledged again.
BelowWindow(k, sn) == Diff(sn, Plus(k.recvNext, RecvWindow)) < 0
IsOld(k, sn) == Diff(sn, k.recvNext) < 0

\* Broken: what was taken before is not acknowledged again.
ParsePushOnce(k, seg) ==
    IF ~BelowWindow(k, seg.sn) \/ IsOld(k, seg.sn) THEN k
    ELSE ParseSeg([k EXCEPT !.ackList = Append(@, seg.sn)], seg)

ParsePush(k, seg) ==
    LET acked == [k EXCEPT !.ackList = Append(@, seg.sn)] IN
    IF ~BelowWindow(k, seg.sn) THEN k
    ELSE IF IsOld(k, seg.sn) THEN acked ELSE ParseSeg(acked, seg)

ImportSegment(k, seg) ==
    LET k1 == ShrinkBuf(ParseUNA([k EXCEPT !.remoteWindow = seg.wnd], seg.una)) IN
    CASE seg.cmd = "ACK"  -> ShrinkBuf(ParseACK(k1, seg.sn))
      [] seg.cmd = "PUSH" -> ParsePush(k1, seg)
      [] seg.cmd = "WASK" -> [k1 EXCEPT !.probe = @ \cup {"TELL"}]
      [] seg.cmd = "WINS" -> k1

MaxAck(datagram) ==
    LET acks == SelectSeq(datagram, LAMBDA s : s.cmd = "ACK")
    IN  FoldLeft(LAMBDA m, s : IF Diff(s.sn, m) > 0 THEN s.sn ELSE m, Head(acks).sn, acks)

CountSkipped(k, datagram) ==
    IF \E i \in DOMAIN datagram : datagram[i].cmd = "ACK"
    THEN ParseFaskACK(k, MaxAck(datagram)) ELSE k

\* Past mSsthresh the window grows once mIncr has: sometimes.
Grow(k, una, slow) ==
    IF Diff(k.sendUNA, una) > 0 /\ k.cwnd < k.remoteWindow /\ (k.cwnd < k.ssthresh \/ slow)
    THEN [k EXCEPT !.cwnd = @ + 1] ELSE k

ImportRaw(k, datagram, slow) ==
    LET done[i \in 0 .. Len(datagram)] ==
            IF i = 0 THEN k ELSE ImportSegment(done[i - 1], datagram[i])
    IN  Grow(CountSkipped(done[Len(datagram)], datagram), k.sendUNA, slow)

-----------------------------------------------------------------------------
(* flush().                                                                *)

\* Broken: every flush starts the wait anew.
ProbeStartsAnew(k, due) == [k EXCEPT !.probeWait = k.remoteWindow = 0]

ProbeOnFlush(k, due) ==
    IF k.remoteWindow # 0 THEN [k EXCEPT !.probeWait = FALSE]
    ELSE IF ~k.probeWait THEN [k EXCEPT !.probeWait = TRUE]
    ELSE IF due THEN [k EXCEPT !.probe = @ \cup {"ASK"}] ELSE k

Window(k) ==
    LET w == Least(SendWindow, k.remoteWindow) IN
    IF CongestionWindow THEN Least(k.cwnd, w) ELSE w

\* The queue moves to the buffer as far as the window reaches.
Number(k) ==
    LET n == Least(Len(k.sendQueue), Most(Window(k) - Diff(k.sendNext, k.sendUNA), 0))
        new(i) == [sn |-> Plus(k.sendNext, i - 1), frg |-> k.sendQueue[i].frg,
                   data |-> k.sendQueue[i].data, size |-> k.sendQueue[i].size,
                   xmit |-> FALSE, fast |-> 0]
    IN  [k EXCEPT !.sendBuffer = @ \o [i \in 1 .. n |-> new(i)],
                  !.sendQueue = SubSeq(@, n + 1, Len(@)),
                  !.sendNext = Plus(@, n)]

\* Skipped often enough; mFastAckLimit may forbid it.
MayFast(s) == FastResend > 0 /\ s.xmit /\ s.fast >= FastResend

MarkSent(k, late, fast) ==
    LET b == k.sendBuffer
        marked(s) == IF s.sn \in late THEN s
                     ELSE IF s.sn \in fast THEN [s EXCEPT !.fast = 0]
                     ELSE [s EXCEPT !.xmit = TRUE]
    IN  [k EXCEPT !.sendBuffer = [i \in DOMAIN b |-> marked(b[i])]]

\* After a fast resend, then after a loss; never less than 1.
Congest(k, window, fast, lost) ==
    LET half == Most(2, Diff(k.sendNext, k.sendUNA) \div 2)
        k1 == IF fast THEN [k EXCEPT !.ssthresh = half, !.cwnd = half + FastResend] ELSE k
        k2 == IF lost THEN [k1 EXCEPT !.ssthresh = Most(2, window \div 2), !.cwnd = 1] ELSE k1
    IN  [k2 EXCEPT !.cwnd = Most(@, 1)]

\* What flush() hands to the raw call, and the state it leaves: late and
\* fast are the numbers whose timer has run out, or that were skipped.
Controls(k, k1) ==
    [i \in DOMAIN k.ackList |-> AckOf(k, k.ackList[i])]
    \o (IF "ASK" \in k1.probe THEN << Header(k, "WASK") >> ELSE <<>>)
    \o (IF "TELL" \in k1.probe THEN << Header(k, "WINS") >> ELSE <<>>)

ToSend(k, late, fast) ==
    LET b == k.sendBuffer
    IN  Chosen(b, {i \in DOMAIN b : ~b[i].xmit \/ b[i].sn \in late \cup fast})

Flush(k, due, late, fast) ==
    LET k1 == ProbeOnFlush(k, due)
        k2 == Number([k1 EXCEPT !.ackList = <<>>, !.probe = {}])
        data == ToSend(k2, late, fast)
    IN  [out |-> Pack(Controls(k, k1) \o [i \in DOMAIN data |-> PushOf(k, data[i])]),
         k   |-> Congest(MarkSent(k2, late, fast), Window(k1), fast # {}, late # {})]

-----------------------------------------------------------------------------
(* The steps of an end.                                                    *)

SendKCP(e) ==
    /\ sent[e] < Len(Messages[e])
    /\ Accepts(Messages[e][sent[e] + 1])
    /\ sent' = [sent EXCEPT ![e] = @ + 1]
    /\ kcp' = [kcp EXCEPT ![e].sendQueue = @ \o Split(e, sent[e] + 1)]
    /\ UNCHANGED <<net, got>>

\* peekSize(): the whole of the first message is there.
HasMessage(k) ==
    k.recvQueue # <<>> /\ Len(k.recvQueue) >= k.recvQueue[1].frg + 1
EndOfMessage(k) ==
    CHOOSE i \in DOMAIN k.recvQueue :
        k.recvQueue[i].frg = 0 /\ \A j \in 1 .. i - 1 : k.recvQueue[j].frg # 0

ReceiveKCP(e) ==
    LET k == kcp[e]
        n == EndOfMessage(k)
        k1 == MoveReady([k EXCEPT !.recvQueue = SubSeq(@, n + 1, Len(@))])
        recover == Len(k.recvQueue) >= RecvWindow /\ Len(k1.recvQueue) < RecvWindow
    IN  /\ HasMessage(k)
        /\ got' = [got EXCEPT ![e] = Append(@, [i \in 1 .. n |-> k.recvQueue[i].data])]
        /\ kcp' = [kcp EXCEPT ![e] = IF recover THEN [k1 EXCEPT !.probe = @ \cup {"TELL"}] ELSE k1]
        /\ UNCHANGED <<net, sent>>

\* Any datagram under way arrives; a doubled one stays under way.
Import(e, i, doubled) ==
    /\ i \in DOMAIN net[e]
    /\ Len(kcp[e].ackList) < MaxAcks
    /\ \E slow \in BOOLEAN :
           kcp' = [kcp EXCEPT ![e] = ImportRaw(@, net[e][i], slow)]
    /\ net' = IF doubled THEN net ELSE [net EXCEPT ![e] = RemoveAt(@, i)]
    /\ UNCHANGED <<sent, got>>

\* update() at a time that makes it flush.
Sent(k) == {k.sendBuffer[i].sn : i \in {j \in DOMAIN k.sendBuffer : k.sendBuffer[j].xmit}}
Skipped(k) == {k.sendBuffer[i].sn : i \in {j \in DOMAIN k.sendBuffer : MayFast(k.sendBuffer[j])}}

Update(e) ==
    \E late \in SUBSET Sent(kcp[e]) : \E fast \in SUBSET (Skipped(kcp[e]) \ late), due \in BOOLEAN :
        LET f == Flush(kcp[e], due, late, fast) IN
        \E S \in SUBSET (DOMAIN f.out) :
            /\ Len(net[Peer(e)]) + Cardinality(S) <= NetCap[Peer(e)]
            /\ kcp' = [kcp EXCEPT ![e] = f.k]
            /\ net' = [net EXCEPT ![Peer(e)] = @ \o Chosen(f.out, S)]
            /\ UNCHANGED <<sent, got>>

-----------------------------------------------------------------------------
NewKcp ==
    [sendUNA |-> FirstSN, sendNext |-> FirstSN, recvNext |-> FirstSN,
     sendQueue |-> <<>>, sendBuffer |-> <<>>, recvBuffer |-> <<>>, recvQueue |-> <<>>,
     ackList |-> <<>>, remoteWindow |-> WND_RCV, cwnd |-> 0, ssthresh |-> 2,
     probe |-> {}, probeWait |-> FALSE]

KcpInit ==
    /\ kcp = [e \in End |-> NewKcp]
    /\ net = [e \in End |-> <<>>]
    /\ sent = [e \in End |-> 0]
    /\ got = [e \in End |-> <<>>]

KcpNext ==
    \E e \in End : \/ SendKCP(e)
                   \/ ReceiveKCP(e)
                   \/ Update(e)
                   \/ \E i \in 1 .. NetCap[e], doubled \in BOOLEAN : Import(e, i, doubled)

KcpSpec == KcpInit /\ [][KcpNext]_vars

\* What the fairness speaks of, as predicates of a state: the segments that
\* update() would send if all timers were due (the first one of a probe only
\* starts its timer), and those under way.
Owed(e) ==
    LET k == kcp[e]
        k1 == ProbeOnFlush(ProbeOnFlush(k, TRUE), TRUE)
    IN  ToSet(Controls(k, k1)) \cup {PushOf(k, s) : s \in ToSet(Number(k1).sendBuffer)}
UnderWay(e) == UNION {ToSet(net[Peer(e)][i]) : i \in DOMAIN net[Peer(e)]}

HasToSay(e) == kcp[e].cwnd = 0 \/ Owed(e) # {}
AllSaid(e) ==
    /\ kcp[e].cwnd > 0 /\ kcp[e].ackList = <<>> /\ kcp[e].probe = {}
    /\ Owed(e) \subseteq UnderWay(e)
    /\ \E seg \in UnderWay(e) : seg.wnd = WindowUnused(kcp[e]) /\ seg.una = kcp[e].recvNext

HeadTaken(e) == net[e] # <<>> /\ net'[e] = Tail(net[e]) /\ UNCHANGED kcp[Peer(e)]

\* The application sends what it has and reads what is there; a datagram
\* that was not lost arrives; update() is called, and an end that always
\* has something to say has all of it under way again and again.
Delivery(e) == []<>(net[e] # <<>> /\ Len(kcp[e].ackList) < MaxAcks) => []<><<HeadTaken(e)>>_net
Heard(e) == []<>HasToSay(e) => []<>AllSaid(e)

KcpFairSpec ==
    /\ KcpSpec
    /\ \A e \in End : WF_vars(SendKCP(e)) /\ WF_vars(ReceiveKCP(e)) /\ Delivery(e) /\ Heard(e)

-----------------------------------------------------------------------------
(* Properties.                                                             *)

Buffered(b, sn) == \E i \in DOMAIN b : b[i].sn = sn

\* parseUNA and parseACK free a segment for good: each number that was given
\* out and that the peer has not got past is kept by the sender or waits
\* with the peer, whatever stale or doubled acknowledgement came, across the
\* wrap of the numbers too.
ReleasedOnlyWhenHeld ==
    \A e \in End :
        LET k == kcp[e]
            r == kcp[Peer(e)]
            ahead == Diff(k.sendNext, r.recvNext)
        IN  /\ ahead >= 0
            /\ \A i \in 0 .. ahead - 1 :
                   LET sn == Plus(r.recvNext, i) IN
                   Buffered(k.sendBuffer, sn) \/ Buffered(r.recvBuffer, sn)

\* parseSeg, receiveKCP and flush keep to the windows: the receiver's
\* segments lie in its window, sorted, each once, and none waits that could
\* be read; no more than mSendWindowSize are ever in flight.
WindowsKept ==
    \A e \in End :
        LET k == kcp[e]
            b == k.recvBuffer
        IN  /\ \A i \in DOMAIN b : /\ BelowWindow(k, b[i].sn) /\ ~IsOld(k, b[i].sn)
                                   /\ i > 1 => Diff(b[i].sn, b[i - 1].sn) > 0
            /\ Len(k.recvQueue) <= RecvWindow
            /\ b # <<>> /\ b[1].sn = k.recvNext => Len(k.recvQueue) = RecvWindow
            /\ Diff(k.sendNext, k.sendUNA) \in 0 .. SendWindow

\* What one end sends the other receives: whole messages, in order, each
\* once, from whatever the network makes of the datagrams.
Whole(e) == {Message(e, n) : n \in DOMAIN Messages[e]}
Put(e) == [n \in 1 .. sent[e] |-> Message(e, n)]

AtoB == INSTANCE Fifo WITH Item <- Whole("a"), put <- Put("a"), got <- got["b"]
BtoA == INSTANCE Fifo WITH Item <- Whole("b"), put <- Put("b"), got <- got["a"]

DeliversInOrder == AtoB!Spec /\ BtoA!Spec

\* Every message sendKCP took is received in the end: segments are sent
\* again until acknowledged, and a sender that a window of 0 has silenced
\* asks for the window until it learns that it is open.
\* getWaitSend() comes back to 0 too: the sender learns that all has arrived,
\* even if every acknowledgement of a segment was lost the first time.
WaitSend(k) == Len(k.sendBuffer) + Len(k.sendQueue)
AllArrives ==
    \A e \in End : \A n \in DOMAIN Messages[e] :
        /\ sent[e] >= n ~> Len(got[Peer(e)]) >= n
        /\ []<>(WaitSend(kcp[e]) = 0)
=============================================================================
