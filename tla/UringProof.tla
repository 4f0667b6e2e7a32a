----------------------------- MODULE UringProof -----------------------------
(***************************************************************************)
(* Proofs about Uring, for any files, requests and sizes of the rings: a   *)
(* file handle outlives its requests, and the submission ring holds what   *)
(* was put there until the kernel takes it.                                *)
(***************************************************************************)
EXTENDS Uring, FiniteSetTheorems, TLAPS

\* The requests of a file that are under way, and the one in its callback,
\* which may be under way again.
Busy(h) == {r \in Requests : mHandle[r] = h /\ where[r] # "free"}
InCall(h) == IF cur # NoReq /\ mHandle[cur] = h THEN 1 ELSE 0

\* The requests that left the queue and have not come back.
Handed == {r \in Requests : where[r] \in {"sq", "kernel", "cq"}}

\* Both counts are exact, and no file is closed with a request to come.
FlyInv ==
    /\ \A h \in Handles : mFly[h] = Cardinality(Busy(h)) + InCall(h)
    /\ \A h \in Handles : file[h] \in {"close", "none"} => mFly[h] = 0
    /\ mFlyRequest = Cardinality(Handed)

\* A callback runs inside updatePending() only, and the completions handled
\* are cut off the ring before the next ones are looked at.
PcInv ==
    /\ cur # NoReq <=> (pc = "call" \/ (pc = "post" /\ ret = "call"))
    /\ pc \in {"idle", "gone"} \/ (pc = "post" /\ ret = "idle") => nd = 0 /\ seen = 0
    /\ seen <= Len(cq)

\* Requests wait at most once in the queue in front of the ring, and in the
\* completions that are not handled yet.
WaitInv ==
    /\ \A i \in 1 .. Len(waitQ) : where[waitQ[i]] = "wait"
    /\ \A i, j \in 1 .. Len(waitQ) : waitQ[i] = waitQ[j] => i = j

DoneInv ==
    /\ \A i \in nd + 1 .. Len(cq) : where[cq[i]] = "cq"
    /\ \A i, j \in nd + 1 .. Len(cq) : cq[i] = cq[j] => i = j
    /\ \A i \in 1 .. Len(backlog) : where[backlog[i]] = "cq"
    /\ \A i, j \in 1 .. Len(backlog) : backlog[i] = backlog[j] => i = j
    /\ \A i \in nd + 1 .. Len(cq), j \in 1 .. Len(backlog) : cq[i] # backlog[j]

\* How far a counter is ahead of head, and a slot behind the one at head.
Ahead(p) == Wrap(p + 2 * Entries - head)
Dist(i) == IF i >= Slot(head) THEN i - Slot(head) ELSE i - Slot(head) + Entries

\* The slots from head to tail, and no others, hold the requests of the
\* ring, each in one; tailMem lies between head and tail.
RingInv ==
    /\ Ahead(tail) < Entries /\ Ahead(tailMem) <= Ahead(tail)
    /\ \A i \in 0 .. Entries - 1 :
          IF Dist(i) < Ahead(tail) THEN sqe[i] \in AtPlace("sq") ELSE sqe[i] = NoReq
    /\ \A i, j \in 0 .. Entries - 1 : sqe[i] = sqe[j] /\ sqe[i] # NoReq => i = j
    /\ \A r \in AtPlace("sq") : \E i \in 0 .. Entries - 1 : sqe[i] = r
    /\ Cardinality(AtPlace("sq")) = Ahead(tail)

IInv == TypeOK /\ FlyInv /\ PcInv /\ WaitInv /\ DoneInv /\ RingInv

-----------------------------------------------------------------------------
(* Counters that wrap around.                                              *)

LEMMA ModSmall == ASSUME NEW m \in Nat \ {0}, NEW x \in 0 .. m - 1 PROVE x % m = x
OBVIOUS

LEMMA ModNext == ASSUME NEW m \in Nat \ {0}, NEW x \in m .. 2 * m - 1 PROVE x % m = x - m
OBVIOUS

LEMMA ModTwice == ASSUME NEW m \in Nat \ {0} PROVE (2 * m) % m = 0
OBVIOUS

\* A counter ranges over two rounds of the ring.
LEMMA SlotOf ==
    ASSUME NEW p \in 0 .. 2 * Entries - 1
    PROVE  Slot(p) = IF p < Entries THEN p ELSE p - Entries
<1>1. CASE p < Entries
  BY <1>1, ModSmall, UringConstants DEF Slot
<1>2. CASE p >= Entries
  <2>1. p \in Entries .. 2 * Entries - 1 /\ Entries \in Nat \ {0}
    BY <1>2, UringConstants
  <2>2. p % Entries = p - Entries
    BY <2>1, ModNext
  <2> QED BY <1>2, <2>1, <2>2 DEF Slot
<1> QED BY <1>1, <1>2, UringConstants

LEMMA SlotNext ==
    ASSUME NEW p \in 0 .. 2 * Entries - 1
    PROVE  /\ Slot(p + 1) = IF Slot(p) = Entries - 1 THEN 0 ELSE Slot(p) + 1
           /\ Slot(p) \in 0 .. Entries - 1
<1>1. Slot(p) = IF p < Entries THEN p ELSE p - Entries
  BY SlotOf
<1>2. CASE p + 1 = 2 * Entries
  <2>1. Slot(p + 1) = 0
    BY <1>2, ModTwice, UringConstants DEF Slot
  <2> QED BY <1>1, <1>2, <2>1, UringConstants
<1>3. CASE p + 1 < 2 * Entries
  <2>1. p + 1 \in 0 .. 2 * Entries - 1
    BY <1>3, UringConstants
  <2>0. \A q \in 0 .. 2 * Entries - 1 : Slot(q) = IF q < Entries THEN q ELSE q - Entries
    BY SlotOf
  <2>2. Slot(p + 1) = IF p + 1 < Entries THEN p + 1 ELSE (p + 1) - Entries
    BY <2>0, <2>1
  <2> QED BY <1>1, <2>1, <2>2, UringConstants
<1> QED BY <1>2, <1>3, UringConstants

LEMMA WrapNext ==
    ASSUME NEW p \in 0 .. 2 * Entries - 1
    PROVE  /\ Wrap(p + 1) = IF p = 2 * Entries - 1 THEN 0 ELSE p + 1
           /\ Wrap(p + 1) \in 0 .. 2 * Entries - 1
<1> DEFINE m == 2 * Entries
<1>0. m \in Nat \ {0} /\ p \in 0 .. m - 1
  BY UringConstants
<1> HIDE DEF m
<1>1. (p + 1) % m = IF p = m - 1 THEN 0 ELSE p + 1
  <2>1. CASE p = m - 1
    <3>1. p + 1 \in m .. 2 * m - 1
      BY <1>0, <2>1
    <3>2. (p + 1) % m = (p + 1) - m
      BY <1>0, <3>1, ModNext
    <3> QED BY <1>0, <2>1, <3>2
  <2>2. CASE p # m - 1
    <3>1. p + 1 \in 0 .. m - 1
      BY <1>0, <2>2
    <3> QED BY <1>0, <2>2, <3>1, ModSmall
  <2> QED BY <2>1, <2>2
<1>2. (p + 1) % m \in 0 .. m - 1
  BY <1>0, <1>1
<1> QED BY <1>1, <1>2 DEF Wrap, m

LEMMA WrapAhead ==
    ASSUME NEW p \in 0 .. 2 * Entries - 1, NEW h \in 0 .. 2 * Entries - 1
    PROVE  Wrap(p + 2 * Entries - h) = IF p >= h THEN p - h ELSE p - h + 2 * Entries
<1> DEFINE m == 2 * Entries
           x == p + m - h
<1>0. m \in Nat \ {0} /\ p \in 0 .. m - 1 /\ h \in 0 .. m - 1
  BY UringConstants
<1>1. CASE p >= h
  <2>1. x \in m .. 2 * m - 1
    BY <1>0, <1>1
  <2>2. x % m = x - m
    BY <1>0, <2>1, ModNext
  <2>3. x - m = p - h
    BY <1>0
  <2> QED BY <1>1, <2>2, <2>3 DEF Wrap
<1>2. CASE p < h
  <2>1. x \in 0 .. m - 1
    BY <1>0, <1>2
  <2>2. x % m = x
    BY <1>0, <2>1, ModSmall
  <2>3. x = p - h + 2 * Entries /\ ~(p >= h)
    BY <1>0, <1>2
  <2> QED BY <2>2, <2>3 DEF Wrap
<1> QED BY <1>0, <1>1, <1>2

\* What is seen of the counters in a state with the types.
LEMMA Counters ==
    ASSUME TypeOK
    PROVE  /\ head \in 0 .. 2 * Entries - 1 /\ tail \in 0 .. 2 * Entries - 1
           /\ tailMem \in 0 .. 2 * Entries - 1
           /\ Ahead(tail) = IF tail >= head THEN tail - head ELSE tail - head + 2 * Entries
           /\ Ahead(tailMem) = IF tailMem >= head THEN tailMem - head
                                                  ELSE tailMem - head + 2 * Entries
           /\ Slot(head) = IF head < Entries THEN head ELSE head - Entries
           /\ Slot(tail) = IF tail < Entries THEN tail ELSE tail - Entries
<1>1. /\ head \in 0 .. 2 * Entries - 1 /\ tail \in 0 .. 2 * Entries - 1
      /\ tailMem \in 0 .. 2 * Entries - 1
  BY DEF TypeOK
<1> QED BY <1>1, WrapAhead, SlotOf DEF Ahead

-----------------------------------------------------------------------------
(* Counting.                                                               *)

\* A finite set with one more, and without one, member.
LEMMA OneMore ==
    ASSUME NEW S, S \subseteq Requests, NEW x, x \notin S
    PROVE  Cardinality(S \cup {x}) = Cardinality(S) + 1
<1>1. IsFiniteSet(S)
  BY FS_Subset, UringConstants
<1> QED BY <1>1, FS_AddElement

LEMMA OneFewer ==
    ASSUME NEW S, S \subseteq Requests, NEW x, x \in S
    PROVE  Cardinality(S \ {x}) = Cardinality(S) - 1 /\ Cardinality(S) > 0
<1>0. IsFiniteSet(S)
  BY FS_Subset, UringConstants
<1>1. Cardinality(S \ {x}) = Cardinality(S) - 1
  BY <1>0, FS_RemoveElement
<1>2. Cardinality(S) # 0
  BY <1>0, FS_EmptySet
<1>3. Cardinality(S) \in Nat
  BY <1>0, FS_CardinalityType
<1> QED BY <1>1, <1>2, <1>3

LEMMA Countable ==
    /\ \A h \in Handles : Cardinality(Busy(h)) \in Nat /\ IsFiniteSet(Busy(h))
    /\ Cardinality(Handed) \in Nat /\ Cardinality(AtPlace("sq")) \in Nat
<1>1. \A h \in Handles : Busy(h) \subseteq Requests
  BY DEF Busy
<1>2. Handed \subseteq Requests /\ AtPlace("sq") \subseteq Requests
  BY DEF Handed, AtPlace
<1> QED BY <1>1, <1>2, FS_Subset, FS_CardinalityType, UringConstants

-----------------------------------------------------------------------------
LEMMA Starts == Init => IInv
<1> SUFFICES ASSUME Init PROVE IInv
  OBVIOUS
<1>1. TypeOK
  <2>1. where \in [Requests -> Places]
    BY DEF Init, Places
  <2>2. <<>> \in Seq(Requests) /\ Len(<<>>) = 0
    OBVIOUS
  <2>3. {head, tail, tailMem} \subseteq 0 .. 2 * Entries - 1
    BY UringConstants DEF Init
  <2>4. sqe \in [0 .. Entries - 1 -> Requests \cup {NoReq}]
    BY DEF Init
  <2>5. /\ file \in [Handles -> {"none", "open", "closing", "close"}]
        /\ mFly \in [Handles -> Nat] /\ mHandle \in [Requests -> Handles]
    BY DEF Init
  <2>6. /\ waitQ \in Seq(Requests) /\ Len(waitQ) <= MaxWait
        /\ cq \in Seq(Requests) /\ Len(cq) <= EntriesCQ /\ backlog \in Seq(Requests)
    BY <2>2, UringConstants DEF Init
  <2>7. /\ mFlyRequest \in Nat /\ sqThread \in {"run", "flagged", "asleep"}
        /\ mStop \in BOOLEAN /\ pc \in {"idle", "post", "harvest", "call", "gone"}
        /\ ret \in {"idle", "call"} /\ seen \in Nat /\ nd \in 0 .. seen
        /\ cur \in Requests \cup {NoReq}
    <3>1. 0 \in 0 .. 0
      OBVIOUS
    <3> QED BY <3>1 DEF Init
  <2> QED BY <2>1, <2>3, <2>4, <2>5, <2>6, <2>7 DEF TypeOK
<1>2. /\ \A h \in Handles : Busy(h) = {} /\ InCall(h) = 0
      /\ Handed = {} /\ AtPlace("sq") = {}
  BY DEF Init, Busy, InCall, Handed, AtPlace
<1>3. FlyInv
  <2>1. \A h \in Handles : Cardinality(Busy(h)) = 0 /\ mFly[h] = 0
    BY <1>2, FS_EmptySet DEF Init
  <2>2. Cardinality(Handed) = 0 /\ mFlyRequest = 0
    BY <1>2, FS_EmptySet DEF Init
  <2> QED BY <1>2, <2>1, <2>2 DEF FlyInv
<1>4. Ahead(tail) = 0 /\ Ahead(tailMem) = 0
  BY <1>1, Counters, UringConstants DEF Init
<1>5. RingInv
  <2>1. \A i \in 0 .. Entries - 1 : Dist(i) >= 0
    <3>1. Slot(head) = 0
      BY <1>1, Counters, UringConstants DEF Init
    <3> QED BY <3>1, UringConstants DEF Dist
  <2>2. \A i \in 0 .. Entries - 1 : sqe[i] = NoReq /\ ~(Dist(i) < Ahead(tail))
    <3>1. \A i \in 0 .. Entries - 1 : Dist(i) \in Int
      BY <1>1, Counters, UringConstants DEF Init, Dist
    <3> QED BY <1>4, <2>1, <3>1 DEF Init
  <2> QED BY <1>2, <1>4, <2>2, FS_EmptySet, UringConstants DEF RingInv
<1> QED BY <1>1, <1>3, <1>5 DEF Init, IInv, PcInv, WaitInv, DoneInv

-----------------------------------------------------------------------------
(* What a step leaves alone.                                               *)

LEMMA FlyFrame ==
    ASSUME FlyInv, UNCHANGED <<mFly, mHandle, cur, file, mFlyRequest>>, Handed' = Handed,
           \A r \in Requests : where'[r] = "free" <=> where[r] = "free"
    PROVE  FlyInv'
<1>1. \A h \in Handles : Busy(h)' = Busy(h) /\ InCall(h)' = InCall(h)
  BY DEF Busy, InCall
<1> QED BY <1>1 DEF FlyInv

LEMMA PcFrame ==
    ASSUME PcInv, UNCHANGED <<cur, pc, ret, nd, seen, cq>>
    PROVE  PcInv'
BY DEF PcInv

LEMMA WaitFrame ==
    ASSUME WaitInv, waitQ \in Seq(Requests), UNCHANGED waitQ,
           \A r \in Requests : where[r] = "wait" => where'[r] = "wait"
    PROVE  WaitInv'
BY DEF WaitInv

LEMMA DoneFrame ==
    ASSUME DoneInv, TypeOK, UNCHANGED <<cq, nd, backlog>>,
           \A r \in Requests : where[r] = "cq" => where'[r] = "cq"
    PROVE  DoneInv'
<1>1. \A i \in nd + 1 .. Len(cq) : cq[i] \in Requests
  BY DEF TypeOK
<1>2. \A i \in 1 .. Len(backlog) : backlog[i] \in Requests
  BY DEF TypeOK
<1> QED BY <1>1, <1>2 DEF DoneInv

LEMMA RingFrame ==
    ASSUME RingInv, UNCHANGED <<sqe, head, tail, tailMem>>, AtPlace("sq")' = AtPlace("sq")
    PROVE  RingInv'
<1>1. Ahead(tail)' = Ahead(tail) /\ Ahead(tailMem)' = Ahead(tailMem)
  BY DEF Ahead
<1>2. \A i \in 0 .. Entries - 1 : Dist(i)' = Dist(i)
  BY DEF Dist
<1> QED BY <1>1, <1>2 DEF RingInv

-----------------------------------------------------------------------------
(* The loop's thread: files.                                               *)

\* A file is opened or closed, or the loop stopped, or onClose called: one
\* that has requests in flight is not closed yet.
LEMMA FileKeeps ==
    ASSUME IInv,
           \/ Stop
           \/ \E h \in Handles : Open(h) \/ Close(h) \/ CloseCall(h)
    PROVE  IInv'
<1> USE DEF IInv
<1>0. UNCHANGED <<mFly, mHandle, where, waitQ, mFlyRequest, sqe, head, tail, tailMem,
                  sqThread, cq, backlog, pc, ret, seen, nd, cur>>
  BY DEF Stop, Open, Close, CloseCall, sqVars, cqVars, pcVars
<1>1. /\ file' \in [Handles -> {"none", "open", "closing", "close"}]
      /\ mStop' \in BOOLEAN
      /\ \A h \in Handles : file'[h] \in {"close", "none"} => mFly[h] = 0
  <2>1. CASE \E hs \in SUBSET Handles : file' = Closed(hs) /\ mStop' \in BOOLEAN
    <3>1. PICK hs \in SUBSET Handles : file' = Closed(hs) /\ mStop' \in BOOLEAN
      BY <2>1
    <3>2. \A h \in Handles :
             file'[h] = IF h \in hs /\ file[h] = "open"
                        THEN IF mFly[h] = 0 THEN "close" ELSE "closing" ELSE file[h]
      BY <3>1 DEF Closed, ClosedBy
    <3>3. file' \in [Handles -> {"none", "open", "closing", "close"}]
      BY <3>1 DEF Closed, TypeOK
    <3> QED BY <3>1, <3>2, <3>3 DEF FlyInv
  <2>2. ASSUME NEW h \in Handles, Open(h)
        PROVE  /\ file' \in [Handles -> {"none", "open", "closing", "close"}]
               /\ mStop' \in BOOLEAN
               /\ \A g \in Handles : file'[g] \in {"close", "none"} => mFly[g] = 0
    BY <2>2 DEF Open, TypeOK, FlyInv
  <2>3. ASSUME NEW h \in Handles, CloseCall(h)
        PROVE  /\ file' \in [Handles -> {"none", "open", "closing", "close"}]
               /\ mStop' \in BOOLEAN
               /\ \A g \in Handles : file'[g] \in {"close", "none"} => mFly[g] = 0
    BY <2>3 DEF CloseCall, TypeOK, FlyInv
  <2>4. ASSUME NEW h \in Handles, Close(h)
        PROVE  \E hs \in SUBSET Handles : file' = Closed(hs) /\ mStop' \in BOOLEAN
    BY <2>4 DEF Close, TypeOK
  <2>5. ASSUME Stop
        PROVE  \E hs \in SUBSET Handles : file' = Closed(hs) /\ mStop' \in BOOLEAN
    BY <2>5 DEF Stop
  <2> QED BY <2>1, <2>2, <2>3, <2>4, <2>5
<1>2. TypeOK'
  BY <1>0, <1>1 DEF TypeOK
<1>3. FlyInv'
  <2>1. \A h \in Handles : Busy(h)' = Busy(h) /\ InCall(h)' = InCall(h)
    BY <1>0 DEF Busy, InCall
  <2>2. Handed' = Handed
    BY <1>0 DEF Handed
  <2> QED BY <1>0, <1>1, <2>1, <2>2 DEF FlyInv
<1>4. AtPlace("sq")' = AtPlace("sq")
  BY <1>0 DEF AtPlace
<1>5. PcInv' /\ WaitInv' /\ DoneInv' /\ RingInv'
  BY <1>0, <1>4, PcFrame, WaitFrame, DoneFrame, RingFrame DEF TypeOK
<1> QED BY <1>2, <1>3, <1>5

\* A request is accepted, in the callback of another one or of its own.
LEMMA PostKeeps ==
    ASSUME IInv, NEW h \in Handles, NEW r \in Requests, Post(h, r)
    PROVE  IInv'
<1> USE DEF IInv
<1>0. /\ UNCHANGED <<file, mStop, mFlyRequest, sqe, head, tail, tailMem, sqThread, cq,
                     backlog, seen, nd, cur>>
      /\ where' = [where EXCEPT ![r] = "wait"] /\ where[r] = "free"
      /\ mHandle' = [mHandle EXCEPT ![r] = h] /\ mFly' = [mFly EXCEPT ![h] = @ + 1]
      /\ waitQ' = Append(waitQ, r) /\ Len(waitQ) < MaxWait
      /\ pc' = "post" /\ ret' = pc /\ pc \in {"idle", "call"}
      /\ file[h] = "open" /\ (r = cur => mHandle[r] = h)
  BY DEF Post, InCallback, sqVars, cqVars
<1>1. where \in [Requests -> Places] /\ where' \in [Requests -> Places]
  BY <1>0 DEF TypeOK, Places
<1>2. /\ waitQ' \in Seq(Requests) /\ Len(waitQ') = Len(waitQ) + 1 /\ Len(waitQ) \in Nat
      /\ waitQ'[Len(waitQ) + 1] = r
      /\ \A i \in 1 .. Len(waitQ) : waitQ'[i] = waitQ[i] /\ waitQ[i] \in Requests
  BY <1>0 DEF TypeOK
<1>3. TypeOK'
  <2>1. mFly' \in [Handles -> Nat] /\ mHandle' \in [Requests -> Handles]
    BY <1>0 DEF TypeOK
  <2>2. Len(waitQ') <= MaxWait
    BY <1>0, <1>2, UringConstants
  <2> QED BY <1>0, <1>1, <1>2, <2>1, <2>2 DEF TypeOK
<1>4. FlyInv'
  <2>1. Busy(h)' = Busy(h) \cup {r} /\ r \notin Busy(h)
    BY <1>0, <1>1 DEF Busy, TypeOK
  <2>2. \A g \in Handles : g # h => Busy(g)' = Busy(g)
    BY <1>0, <1>1 DEF Busy, TypeOK
  <2>3. \A g \in Handles : InCall(g)' = InCall(g)
    BY <1>0, UringConstants DEF InCall, TypeOK
  <2>4. Handed' = Handed
    BY <1>0, <1>1 DEF Handed
  <2>5. Busy(h) \subseteq Requests
    BY DEF Busy
  <2>6. Cardinality(Busy(h)') = Cardinality(Busy(h)) + 1
    BY <2>1, <2>5, OneMore
  <2>7. mFly'[h] = mFly[h] + 1 /\ \A g \in Handles : g # h => mFly'[g] = mFly[g]
    BY <1>0 DEF TypeOK
  <2>8. \A g \in Handles : mFly'[g] = Cardinality(Busy(g)') + InCall(g)'
    <3>1. mFly[h] = Cardinality(Busy(h)) + InCall(h) /\ InCall(h) \in {0, 1}
      BY DEF FlyInv, InCall
    <3>2. Cardinality(Busy(h)) \in Nat
      BY Countable
    <3>3. mFly'[h] = Cardinality(Busy(h)') + InCall(h)'
      BY <2>3, <2>6, <2>7, <3>1, <3>2
    <3>4. ASSUME NEW g \in Handles, g # h PROVE mFly'[g] = Cardinality(Busy(g)') + InCall(g)'
      BY <2>2, <2>3, <2>7, <3>4 DEF FlyInv
    <3> QED BY <3>3, <3>4
  <2>9. \A g \in Handles : file'[g] \in {"close", "none"} => mFly'[g] = 0
    BY <1>0, <2>7 DEF FlyInv
  <2>10. mFlyRequest' = Cardinality(Handed')
    BY <1>0, <2>4 DEF FlyInv
  <2> QED BY <2>8, <2>9, <2>10 DEF FlyInv
<1>5. PcInv'
  BY <1>0 DEF PcInv
<1>6. WaitInv'
  BY <1>0, <1>1, <1>2 DEF WaitInv
<1>7. DoneInv'
  BY <1>0, <1>1, DoneFrame
<1>8. RingInv'
  <2>1. AtPlace("sq")' = AtPlace("sq")
    BY <1>0, <1>1 DEF AtPlace
  <2> QED BY <1>0, <2>1, RingFrame
<1> QED BY <1>3, <1>4, <1>5, <1>6, <1>7, <1>8

-----------------------------------------------------------------------------
(* The loop's thread: the rings.                                           *)

\* A request is put into the slot at the tail, which is empty: one slot of
\* the ring always is.
LEMMA PostOneKeeps == ASSUME IInv, PostOne PROVE IInv'
<1> USE DEF IInv
<1> DEFINE r == waitQ[1]
<1>0. /\ UNCHANGED <<file, mFly, mHandle, mStop, head, tailMem, sqThread, cq, backlog,
                     pc, ret, seen, nd, cur>>
      /\ waitQ # <<>> /\ Slot(head) # Slot(tail + 1)
      /\ tail' = Wrap(tail + 1) /\ mFlyRequest' = mFlyRequest + 1
  BY DEF PostOne, handleVars, cqVars, pcVars, Room, Counted
<1>1. /\ waitQ \in Seq(Requests) /\ Len(waitQ) \in Nat \ {0} /\ Head(waitQ) = r /\ r \in Requests
      /\ Tail(waitQ) \in Seq(Requests) /\ Len(Tail(waitQ)) = Len(waitQ) - 1
      /\ \A i \in 1 .. Len(Tail(waitQ)) : Tail(waitQ)[i] = waitQ[i + 1]
  BY <1>0 DEF TypeOK
<1>2. /\ sqe' = [sqe EXCEPT ![Slot(tail)] = r] /\ where' = [where EXCEPT ![r] = "sq"]
      /\ waitQ' = Tail(waitQ)
  BY <1>1 DEF PostOne
<1>3. where[r] = "wait" /\ \A i \in 2 .. Len(waitQ) : waitQ[i] # r
  BY <1>1 DEF WaitInv
<1>4. where \in [Requests -> Places] /\ where' \in [Requests -> Places]
  BY <1>1, <1>2 DEF TypeOK, Places
<1>5. /\ Slot(tail) \in 0 .. Entries - 1
      /\ Slot(tail + 1) = IF Slot(tail) = Entries - 1 THEN 0 ELSE Slot(tail) + 1
      /\ tail' = IF tail = 2 * Entries - 1 THEN 0 ELSE tail + 1
      /\ tail' \in 0 .. 2 * Entries - 1
  BY <1>0, SlotNext, WrapNext, Counters
<1> HIDE DEF r
<1>6. TypeOK'
  <2>1. sqe' \in [0 .. Entries - 1 -> Requests \cup {NoReq}]
    BY <1>1, <1>2, <1>5 DEF TypeOK
  <2>2. waitQ' \in Seq(Requests) /\ Len(waitQ') <= MaxWait
    BY <1>1, <1>2, UringConstants DEF TypeOK
  <2>3. mFlyRequest' \in Nat
    BY <1>0 DEF TypeOK
  <2>4. {head, tail', tailMem} \subseteq 0 .. 2 * Entries - 1
    BY <1>5 DEF TypeOK
  <2> QED BY <1>0, <1>4, <2>1, <2>2, <2>3, <2>4 DEF TypeOK
<1>7. FlyInv'
  <2>1. \A h \in Handles : Busy(h)' = Busy(h) /\ InCall(h)' = InCall(h)
    BY <1>0, <1>1, <1>2, <1>3, <1>4 DEF Busy, InCall
  <2>2. Handed' = Handed \cup {r} /\ r \notin Handed /\ Handed \subseteq Requests
    BY <1>1, <1>2, <1>3, <1>4 DEF Handed
  <2>3. Cardinality(Handed') = Cardinality(Handed) + 1
    BY <2>2, OneMore
  <2> QED BY <1>0, <2>1, <2>3 DEF FlyInv
<1>8. PcInv'
  BY <1>0, PcFrame
<1>9. WaitInv'
  <2>1. ASSUME NEW i \in 1 .. Len(waitQ') PROVE where'[waitQ'[i]] = "wait"
    <3>1. i + 1 \in 2 .. Len(waitQ) /\ waitQ'[i] = waitQ[i + 1] /\ waitQ[i + 1] \in Requests
      BY <1>1, <1>2
    <3>2. where[waitQ[i + 1]] = "wait" /\ waitQ[i + 1] # r
      BY <1>1, <1>3, <3>1 DEF WaitInv
    <3> QED BY <1>2, <1>4, <3>1, <3>2
  <2>2. ASSUME NEW i \in 1 .. Len(waitQ'), NEW j \in 1 .. Len(waitQ'), waitQ'[i] = waitQ'[j]
        PROVE  i = j
    <3>1. /\ i + 1 \in 1 .. Len(waitQ) /\ waitQ'[i] = waitQ[i + 1]
          /\ j + 1 \in 1 .. Len(waitQ) /\ waitQ'[j] = waitQ[j + 1]
      BY <1>1, <1>2
    <3>2. i + 1 = j + 1
      BY <2>2, <3>1 DEF WaitInv
    <3> QED BY <3>2
  <2> QED BY <2>1, <2>2 DEF WaitInv
<1>10. DoneInv'
  BY <1>0, <1>2, <1>3, <1>4, DoneFrame
<1>11. RingInv'
  <2> DEFINE a == Ahead(tail)
             e == Entries
             s == Slot(tail)
             q == AtPlace("sq")
  <2>1. AtPlace("sq")' = q \cup {r} /\ r \notin q /\ q \subseteq Requests
    BY <1>1, <1>2, <1>3, <1>4 DEF AtPlace
  <2>2. Cardinality(AtPlace("sq")') = Cardinality(q) + 1
    BY <2>1, OneMore
  <2>3. Ahead(tail)' = IF tail' >= head THEN tail' - head ELSE tail' - head + 2 * Entries
    <3>1. head \in 0 .. 2 * Entries - 1
      BY Counters
    <3> QED BY <1>0, <1>5, <3>1, WrapAhead DEF Ahead
  <2>4. a + 1 < Entries /\ Ahead(tail)' = a + 1 /\ a \in Nat
    <3>1. a < Entries
      BY DEF RingInv
    <3>2. /\ head \in 0 .. 2 * Entries - 1 /\ tail \in 0 .. 2 * Entries - 1
          /\ a = IF tail >= head THEN tail - head ELSE tail - head + 2 * Entries
          /\ Slot(head) = IF head < Entries THEN head ELSE head - Entries
          /\ Slot(tail) = IF tail < Entries THEN tail ELSE tail - Entries
      BY Counters
    <3>3. Entries \in Nat /\ Entries > 1
      BY UringConstants
    <3> HIDE DEF a
    <3>4. a \in Nat
      BY <3>2, <3>3
    <3>5. a # Entries - 1
      BY <1>0, <1>5, <3>2, <3>3
    <3>6. a + 1 < Entries
      BY <3>1, <3>3, <3>4, <3>5
    <3>7. Ahead(tail)' = a + 1
      BY <1>5, <2>3, <3>2, <3>3, <3>6
    <3> QED BY <3>4, <3>6, <3>7
  <2>5. Ahead(tailMem)' = Ahead(tailMem)
    BY <1>0 DEF Ahead
  <2>6. \A i \in 0 .. Entries - 1 : Dist(i)' = Dist(i) /\ Dist(i) \in Nat
                                    /\ (Dist(i) = a <=> i = s)
    <3>1. \A i \in 0 .. Entries - 1 : Dist(i)' = Dist(i)
      BY <1>0 DEF Dist
    <3>2. Slot(head) \in 0 .. Entries - 1
      BY Counters, SlotNext
    <3>3. \A i \in 0 .. Entries - 1 : Dist(i) \in Nat
      BY <3>2, UringConstants DEF Dist
    <3>4. Dist(s) = a
      BY <2>4, <1>5, Counters, UringConstants DEF Dist
    <3>5. \A i \in 0 .. Entries - 1 : Dist(i) = Dist(s) => i = s
      BY <1>5, <3>2, UringConstants DEF Dist
    <3> QED BY <3>1, <3>3, <3>4, <3>5, <1>5
  <2>7. \A i \in 0 .. Entries - 1 : sqe'[i] = IF i = s THEN r ELSE sqe[i]
    BY <1>2, <1>5 DEF TypeOK
  <2>8. \A i \in 0 .. Entries - 1 : IF Dist(i) < a THEN sqe[i] \in q ELSE sqe[i] = NoReq
    BY DEF RingInv
  <2>9. r # NoReq
    BY <1>1, UringConstants
  <2>10. s \in 0 .. Entries - 1
    BY <1>5
  <2>11. Ahead(tailMem) <= a /\ Ahead(tailMem) \in Nat /\ Cardinality(q) = a
    <3>1. Ahead(tailMem) \in Nat
      BY Counters, UringConstants
    <3> QED BY <3>1 DEF RingInv
  <2> HIDE DEF a, s, q
  <2>12. \A i \in 0 .. Entries - 1 :
            IF Dist(i)' < a + 1 THEN sqe'[i] \in q \cup {r} ELSE sqe'[i] = NoReq
    BY <2>4, <2>6, <2>7, <2>8
  <2>13. \A i, j \in 0 .. Entries - 1 : sqe'[i] = sqe'[j] /\ sqe'[i] # NoReq => i = j
    <3>1. \A i, j \in 0 .. Entries - 1 : sqe[i] = sqe[j] /\ sqe[i] # NoReq => i = j
      BY DEF RingInv
    <3>2. \A i \in 0 .. Entries - 1 : sqe[i] # r
      BY <2>1, <2>8, <2>9
    <3> QED BY <2>7, <3>1, <3>2
  <2>14. \A x \in q \cup {r} : \E i \in 0 .. Entries - 1 : sqe'[i] = x
    <3>1. ASSUME NEW x \in q PROVE \E i \in 0 .. Entries - 1 : sqe'[i] = x
      <4>1. PICK i \in 0 .. Entries - 1 : sqe[i] = x
        BY DEF RingInv, q
      <4>2. i # s
        <5>1. ~(Dist(s) < a)
          BY <2>4, <2>6, <2>10
        <5>2. sqe[s] = NoReq /\ x # NoReq
          BY <2>1, <2>8, <2>10, <5>1, UringConstants
        <5> QED BY <4>1, <5>2
      <4> QED BY <2>7, <4>1, <4>2
    <3>2. sqe'[s] = r
      BY <2>7, <2>10
    <3> QED BY <2>10, <3>1, <3>2
  <2>15. Ahead(tail)' < Entries /\ Ahead(tailMem)' <= Ahead(tail)'
    BY <2>4, <2>5, <2>11
  <2> QED BY <2>1, <2>2, <2>4, <2>11, <2>12, <2>13, <2>14, <2>15 DEF RingInv
<1> QED BY <1>6, <1>7, <1>8, <1>9, <1>10, <1>11

LEMMA PostEndKeeps == ASSUME IInv, PostEnd PROVE IInv'
<1> USE DEF IInv
<1>0. /\ UNCHANGED <<file, mFly, mHandle, mStop, where, waitQ, mFlyRequest, sqe, head, tail,
                     cq, backlog, ret, seen, nd, cur>>
      /\ pc = "post" /\ pc' = ret
      /\ \/ sqThread' = "run" /\ tailMem' = tail
         \/ sqThread' = sqThread /\ tailMem' = tailMem
  BY DEF PostEnd, handleVars, cqVars
<1>1. TypeOK'
  <2>1. sqThread' \in {"run", "flagged", "asleep"}
    BY <1>0 DEF TypeOK
  <2>2. {head', tail', tailMem'} \subseteq 0 .. 2 * Entries - 1
    BY <1>0 DEF TypeOK
  <2>3. pc' \in {"idle", "post", "harvest", "call", "gone"}
    BY <1>0 DEF TypeOK
  <2> QED BY <1>0, <2>1, <2>2, <2>3 DEF TypeOK
<1>2. Handed' = Handed /\ AtPlace("sq")' = AtPlace("sq")
  BY <1>0 DEF Handed, AtPlace
<1>3. FlyInv' /\ WaitInv' /\ DoneInv'
  BY <1>0, <1>2, FlyFrame, WaitFrame, DoneFrame DEF TypeOK
<1>4. PcInv'
  BY <1>0 DEF PcInv, TypeOK
<1>5. RingInv'
  <2>1. Ahead(tail)' = Ahead(tail) /\ Ahead(tailMem)' \in {Ahead(tail), Ahead(tailMem)}
    BY <1>0 DEF Ahead
  <2>2. \A i \in 0 .. Entries - 1 : Dist(i)' = Dist(i)
    BY <1>0 DEF Dist
  <2>3. Ahead(tail) \in Nat
    BY Counters, UringConstants
  <2> QED BY <1>0, <1>2, <2>1, <2>2, <2>3 DEF RingInv
<1> QED BY <1>1, <1>3, <1>4, <1>5

\* updatePending() begins: nothing has been handled yet.
LEMMA BeginKeeps == ASSUME IInv, Begin PROVE IInv'
<1> USE DEF IInv
<1>0. /\ UNCHANGED <<file, mFly, mHandle, mStop, where, waitQ, mFlyRequest, sqe, head, tail,
                     tailMem, sqThread, cq, backlog, ret, cur>>
      /\ pc = "idle" /\ pc' = "harvest" /\ seen' = Len(cq) /\ nd' = 0 /\ nd = 0
  BY DEF Begin, handleVars, sqVars, cqVars, PcInv
<1>1. TypeOK'
  <2>1. seen' \in Nat /\ nd' \in 0 .. seen'
    BY <1>0 DEF TypeOK
  <2> QED BY <1>0, <2>1 DEF TypeOK
<1>2. Handed' = Handed /\ AtPlace("sq")' = AtPlace("sq")
  BY <1>0 DEF Handed, AtPlace
<1>3. FlyInv' /\ WaitInv' /\ DoneInv' /\ RingInv'
  BY <1>0, <1>2, FlyFrame, WaitFrame, DoneFrame, RingFrame DEF TypeOK
<1>4. PcInv'
  BY <1>0 DEF PcInv, TypeOK
<1> QED BY <1>1, <1>3, <1>4

\* A callback begins: its request is free, and counted in flight until the
\* callback has returned.
LEMMA CompleteKeeps == ASSUME IInv, Complete PROVE IInv'
<1> USE DEF IInv
<1>a. /\ nd \in Nat /\ nd < seen /\ seen <= Len(cq) /\ Len(cq) \in Nat /\ seen \in Nat
      /\ pc = "harvest"
  BY DEF Complete, TypeOK, PcInv
<1>b. PICK r \in Requests : r = cq[nd + 1]
  BY <1>a DEF TypeOK
<1>c. PICK h \in Handles : h = mHandle[r]
  BY DEF TypeOK
<1>0. /\ UNCHANGED <<file, mFly, mHandle, mStop, waitQ, sqe, head, tail, tailMem, sqThread,
                     cq, backlog, ret, seen>>
      /\ pc = "harvest" /\ pc' = "call" /\ nd < seen /\ nd' = nd + 1
      /\ cur' = r /\ where' = [where EXCEPT ![r] = "free"]
      /\ mFlyRequest' = mFlyRequest - 1
  BY <1>b DEF Complete, handleVars, sqVars, cqVars
<1>1. /\ nd \in Nat /\ seen \in Nat /\ Len(cq) \in Nat /\ nd + 1 <= Len(cq)
      /\ r \in Requests /\ where[r] = "cq" /\ cur = NoReq /\ r # NoReq
  BY <1>a, <1>b, UringConstants DEF TypeOK, PcInv, DoneInv
<1>2. where \in [Requests -> Places] /\ where' \in [Requests -> Places]
  BY <1>0, <1>1 DEF TypeOK, Places
<1>3. /\ \A i \in nd + 2 .. Len(cq) : cq[i] # r /\ cq[i] \in Requests
      /\ \A i \in 1 .. Len(backlog) : backlog[i] # r /\ backlog[i] \in Requests
  <2>1. ASSUME NEW i \in nd + 2 .. Len(cq) PROVE cq[i] # r /\ cq[i] \in Requests
    <3>1. i \in nd + 1 .. Len(cq) /\ nd + 1 \in nd + 1 .. Len(cq) /\ i # nd + 1
      BY <1>1
    <3>2. i \in 1 .. Len(cq)
      BY <1>1
    <3> QED BY <1>b, <3>1, <3>2 DEF DoneInv, TypeOK
  <2>2. ASSUME NEW i \in 1 .. Len(backlog) PROVE backlog[i] # r /\ backlog[i] \in Requests
    <3>1. nd + 1 \in nd + 1 .. Len(cq)
      BY <1>1
    <3> QED BY <1>b, <3>1 DEF DoneInv, TypeOK
  <2> QED BY <2>1, <2>2
<1>4. FlyInv' /\ mFlyRequest' \in Nat
  <2>1. Handed' = Handed \ {r} /\ r \in Handed /\ Handed \subseteq Requests
    BY <1>0, <1>1, <1>2 DEF Handed
  <2>2. Cardinality(Handed') = Cardinality(Handed) - 1 /\ Cardinality(Handed) > 0
    BY <2>1, OneFewer
  <2>3. mFlyRequest' = Cardinality(Handed') /\ mFlyRequest' \in Nat
    BY <1>0, <2>2, Countable DEF FlyInv
  <2>5. Busy(h)' = Busy(h) \ {r} /\ r \in Busy(h) /\ Busy(h) \subseteq Requests
    BY <1>0, <1>1, <1>2, <1>c DEF Busy
  <2>6. \A g \in Handles : g # h => Busy(g)' = Busy(g)
    BY <1>0, <1>1, <1>2, <1>c DEF Busy
  <2>7. InCall(h) = 0 /\ InCall(h)' = 1 /\ \A g \in Handles : g # h => InCall(g)' = InCall(g)
    BY <1>0, <1>1, <1>c DEF InCall
  <2>8. Cardinality(Busy(h)') = Cardinality(Busy(h)) - 1 /\ Cardinality(Busy(h)) \in Nat
    BY <2>5, OneFewer, Countable
  <2>9. mFly[h] = Cardinality(Busy(h)') + InCall(h)'
    BY <2>7, <2>8 DEF FlyInv
  <2>10. ASSUME NEW g \in Handles PROVE mFly'[g] = Cardinality(Busy(g)') + InCall(g)'
    <3>1. CASE g = h
      BY <1>0, <2>9, <3>1
    <3>2. CASE g # h
      BY <1>0, <2>6, <2>7, <3>2 DEF FlyInv
    <3> QED BY <3>1, <3>2
  <2>11. \A g \in Handles : file'[g] \in {"close", "none"} => mFly'[g] = 0
    BY <1>0 DEF FlyInv
  <2> QED BY <2>3, <2>10, <2>11 DEF FlyInv
<1>5. TypeOK'
  <2>1. nd' \in 0 .. seen' /\ seen' \in Nat
    BY <1>0, <1>1
  <2> QED BY <1>0, <1>1, <1>2, <1>4, <2>1 DEF TypeOK
<1>6. PcInv'
  BY <1>0, <1>1 DEF PcInv
<1>7. WaitInv'
  BY <1>0, <1>1, <1>2, WaitFrame DEF TypeOK
<1>8. DoneInv'
  <2>1. \A i \in nd' + 1 .. Len(cq) : i \in nd + 2 .. Len(cq) /\ i \in nd + 1 .. Len(cq)
    BY <1>0, <1>1
  <2>2. \A i \in nd' + 1 .. Len(cq) : where'[cq[i]] = "cq"
    BY <1>0, <1>2, <1>3, <2>1 DEF DoneInv
  <2>3. \A i \in 1 .. Len(backlog) : where'[backlog[i]] = "cq"
    BY <1>0, <1>2, <1>3 DEF DoneInv
  <2>4. \A i, j \in nd' + 1 .. Len(cq) : cq[i] = cq[j] => i = j
    BY <2>1 DEF DoneInv
  <2>5. \A i \in nd' + 1 .. Len(cq), j \in 1 .. Len(backlog) : cq[i] # backlog[j]
    BY <2>1 DEF DoneInv
  <2>6. \A i, j \in 1 .. Len(backlog) : backlog[i] = backlog[j] => i = j
    BY DEF DoneInv
  <2> QED BY <1>0, <2>2, <2>3, <2>4, <2>5, <2>6 DEF DoneInv
<1>9. RingInv'
  <2>1. AtPlace("sq")' = AtPlace("sq")
    BY <1>0, <1>1, <1>2 DEF AtPlace
  <2> QED BY <1>0, <2>1, RingFrame
<1> QED BY <1>4, <1>5, <1>6, <1>7, <1>8, <1>9

\* A callback returns: a file that is closing, and has no other request in
\* flight, may be closed now.
LEMMA ReturnKeeps == ASSUME IInv, Return PROVE IInv'
<1> USE DEF IInv
<1>a. cur \in Requests /\ cur # NoReq /\ pc = "call"
  BY DEF Return, TypeOK, PcInv
<1>b. PICK h \in Handles : h = mHandle[cur]
  BY <1>a DEF TypeOK
<1>0. /\ UNCHANGED <<mHandle, mStop, where, waitQ, mFlyRequest, sqe, head, tail, tailMem,
                     sqThread, cq, backlog, ret, seen, nd>>
      /\ pc = "call" /\ pc' = "harvest" /\ cur' = NoReq
      /\ mFly' = [mFly EXCEPT ![h] = @ - 1]
      /\ file' = IF Grab(h) = 0 /\ mFly[h] - 1 = 0 THEN [file EXCEPT ![h] = "close"] ELSE file
  BY <1>b DEF Return, ClosedBy, sqVars, cqVars
<1>2. InCall(h) = 1 /\ \A g \in Handles : InCall(g)' = 0 /\ (g # h => InCall(g) = 0)
  BY <1>0, <1>a, <1>b DEF InCall
<1>3. \A g \in Handles : Busy(g)' = Busy(g)
  BY <1>0 DEF Busy
<1>4. mFly[h] = Cardinality(Busy(h)) + 1 /\ Cardinality(Busy(h)) \in Nat /\ mFly[h] # 0
  <2>1. mFly[h] = Cardinality(Busy(h)) + 1 /\ Cardinality(Busy(h)) \in Nat
    BY <1>2, Countable DEF FlyInv
  <2> QED BY <2>1
<1>5. mFly'[h] = mFly[h] - 1 /\ \A g \in Handles : g # h => mFly'[g] = mFly[g]
  BY <1>0 DEF TypeOK
<1>6. TypeOK'
  <2>1. mFly' \in [Handles -> Nat]
    BY <1>0, <1>4 DEF TypeOK
  <2>2. file' \in [Handles -> {"none", "open", "closing", "close"}]
    BY <1>0 DEF TypeOK
  <2> QED BY <1>0, <2>1, <2>2 DEF TypeOK
<1>7. FlyInv'
  <2>1. ASSUME NEW g \in Handles PROVE mFly'[g] = Cardinality(Busy(g)') + InCall(g)'
    <3>1. CASE g = h
      BY <1>2, <1>3, <1>4, <1>5, <3>1
    <3>2. CASE g # h
      BY <1>2, <1>3, <1>5, <3>2 DEF FlyInv
    <3> QED BY <3>1, <3>2
  <2>2. ASSUME NEW g \in Handles, file'[g] \in {"close", "none"} PROVE mFly'[g] = 0
    <3>1. CASE g = h
      <4>1. file[h] \notin {"close", "none"}
        BY <1>4 DEF FlyInv
      <4>2. mFly[h] - 1 = 0
        BY <1>0, <2>2, <3>1, <4>1
      <4> QED BY <1>5, <3>1, <4>2
    <3>2. CASE g # h
      BY <1>0, <1>5, <2>2, <3>2 DEF FlyInv, TypeOK
    <3> QED BY <3>1, <3>2
  <2>3. mFlyRequest' = Cardinality(Handed')
    <3>1. Handed' = Handed
      BY <1>0 DEF Handed
    <3> QED BY <1>0, <3>1 DEF FlyInv
  <2> QED BY <2>1, <2>2, <2>3 DEF FlyInv
<1>8. AtPlace("sq")' = AtPlace("sq")
  BY <1>0 DEF AtPlace
<1>9. WaitInv' /\ DoneInv' /\ RingInv'
  BY <1>0, <1>8, WaitFrame, DoneFrame, RingFrame DEF TypeOK
<1>10. PcInv'
  BY <1>0 DEF PcInv
<1> QED BY <1>6, <1>7, <1>9, <1>10

LEMMA Cut ==
    ASSUME NEW S, NEW s \in Seq(S), NEW n \in 0 .. Len(s)
    PROVE  /\ SubSeq(s, n + 1, Len(s)) \in Seq(S) /\ SubSeq(s, 1, n) \in Seq(S)
           /\ Len(SubSeq(s, n + 1, Len(s))) = Len(s) - n /\ Len(SubSeq(s, 1, n)) = n
           /\ \A k \in 1 .. Len(s) - n : SubSeq(s, n + 1, Len(s))[k] = s[n + k]
           /\ \A k \in 1 .. n : SubSeq(s, 1, n)[k] = s[k]
OBVIOUS

\* The completions that were handled are cut off, and what had overflowed
\* moves up behind those that came meanwhile.
LEMMA EndHarvestKeeps == ASSUME IInv, EndHarvest PROVE IInv'
<1> USE DEF IInv
<1>1. /\ nd \in 0 .. Len(cq) /\ cq \in Seq(Requests) /\ backlog \in Seq(Requests)
      /\ Len(cq) \in Nat /\ Len(backlog) \in Nat /\ Len(cq) <= EntriesCQ
      /\ EntriesCQ \in Nat
  <2>1. nd \in Nat /\ nd = seen /\ seen <= Len(cq)
    BY DEF EndHarvest, TypeOK, PcInv
  <2>2. /\ cq \in Seq(Requests) /\ backlog \in Seq(Requests) /\ Len(cq) <= EntriesCQ
        /\ Len(cq) \in Nat /\ Len(backlog) \in Nat
    BY DEF TypeOK
  <2> QED BY <2>1, <2>2, UringConstants
<1>a. PICK c : c = SubSeq(cq, nd + 1, Len(cq))
  OBVIOUS
<1>2. /\ c \in Seq(Requests)
      /\ Len(c) = Len(cq) - nd /\ \A k \in 1 .. Len(cq) - nd : c[k] = cq[nd + k]
  BY <1>a, <1>1, Cut
<1>3. PICK f \in Nat : f = Flush(c) /\ f <= Len(backlog) /\ Len(c) + f <= EntriesCQ
  <2>1. Len(c) \in Nat /\ Len(c) <= EntriesCQ
    BY <1>1, <1>2
  <2> QED BY <1>1, <2>1 DEF Flush
<1>b. PICK b1, b2 : b1 = SubSeq(backlog, 1, f) /\ b2 = SubSeq(backlog, f + 1, Len(backlog))
  OBVIOUS
<1>c. f \in 0 .. Len(backlog)
  BY <1>1, <1>3
<1>4. b1 \in Seq(Requests) /\ Len(b1) = f /\ \A k \in 1 .. f : b1[k] = backlog[k]
  BY <1>1, <1>b, <1>c, Cut
<1>5. /\ b2 \in Seq(Requests) /\ Len(b2) = Len(backlog) - f
      /\ \A k \in 1 .. Len(backlog) - f : b2[k] = backlog[f + k]
  BY <1>1, <1>b, <1>c, Cut
<1>6. PICK n \in Nat : n = Len(cq) - nd /\ n = Len(c)
  <2>1. Len(c) \in Nat /\ Len(cq) - nd = Len(c)
    BY <1>1, <1>2
  <2> QED BY <2>1
<1>0. /\ UNCHANGED <<file, mFly, mHandle, mStop, where, waitQ, mFlyRequest, sqe, head, tail,
                     tailMem, sqThread, cur>>
      /\ pc = "harvest" /\ nd = seen /\ seen' = 0 /\ nd' = 0
      /\ pc' \in {"idle", "post"} /\ ret' = "idle"
      /\ cq' = c \o b1 /\ backlog' = b2
  <2>1. /\ cq' = c \o SubSeq(backlog, 1, Flush(c))
        /\ backlog' = SubSeq(backlog, Flush(c) + 1, Len(backlog))
        /\ nd = seen
    BY <1>a DEF EndHarvest
  <2> QED BY <2>1, <1>3, <1>b DEF EndHarvest, handleVars, sqVars
<1>8. /\ cq' \in Seq(Requests) /\ Len(cq') = n + f /\ n + f <= EntriesCQ
      /\ \A k \in 1 .. n : cq'[k] = cq[nd + k]
      /\ \A k \in n + 1 .. n + f : cq'[k] = backlog[k - n]
  <2>1. cq' \in Seq(Requests) /\ Len(cq') = n + f
    <3>1. cq' = c \o b1
      BY <1>0
    <3>2. c \o b1 \in Seq(Requests) /\ Len(c \o b1) = Len(c) + Len(b1)
      BY <1>2, <1>4
    <3> QED BY <1>4, <1>6, <3>1, <3>2
  <2>2. ASSUME NEW k \in 1 .. n PROVE cq'[k] = cq[nd + k]
    <3>1. cq'[k] = c[k]
      BY <1>0, <1>2, <1>4, <1>6
    <3> QED BY <1>2, <1>6, <3>1
  <2>3. ASSUME NEW k \in n + 1 .. n + f PROVE cq'[k] = backlog[k - n]
    <3>1. k - n \in 1 .. f
      OBVIOUS
    <3>2. cq'[k] = b1[k - n]
      BY <1>0, <1>2, <1>4, <1>6
    <3> QED BY <1>4, <3>1, <3>2
  <2> QED BY <1>3, <1>6, <2>1, <2>2, <2>3
<1>9. TypeOK'
  <2>1. nd' \in 0 .. seen' /\ seen' \in Nat
    BY <1>0
  <2> QED BY <1>0, <1>5, <1>8, <2>1 DEF TypeOK
<1>10. Handed' = Handed /\ AtPlace("sq")' = AtPlace("sq")
  BY <1>0 DEF Handed, AtPlace
<1>11. FlyInv' /\ WaitInv' /\ RingInv'
  BY <1>0, <1>10, FlyFrame, WaitFrame, RingFrame DEF TypeOK
<1>12. PcInv'
  <2>1. Len(cq') >= 0
    BY <1>8
  <2> QED BY <1>0, <2>1 DEF PcInv
<1>13. DoneInv'
  <2>1. \A k \in 1 .. n + f :
           \/ k <= n /\ nd + k \in nd + 1 .. Len(cq) /\ cq'[k] = cq[nd + k]
           \/ k > n /\ k - n \in 1 .. Len(backlog) /\ cq'[k] = backlog[k - n]
    <3>1. ASSUME NEW k \in 1 .. n PROVE nd + k \in nd + 1 .. Len(cq)
      BY <1>1, <1>6
    <3>2. ASSUME NEW k \in n + 1 .. n + f PROVE k > n /\ k - n \in 1 .. Len(backlog)
      BY <1>1, <1>3
    <3>3. \A k \in 1 .. n + f : (k \in 1 .. n /\ k <= n) \/ k \in n + 1 .. n + f
      OBVIOUS
    <3> QED BY <1>8, <3>1, <3>2, <3>3
  <2>2. \A k \in 1 .. Len(backlog') :
           f + k \in 1 .. Len(backlog) /\ backlog'[k] = backlog[f + k]
    <3>1. backlog' = b2
      BY <1>0
    <3>2. \A k \in 1 .. Len(b2) : k \in 1 .. Len(backlog) - f
      BY <1>5
    <3>3. \A k \in 1 .. Len(backlog) - f : f + k \in 1 .. Len(backlog)
      BY <1>1, <1>c
    <3> QED BY <1>5, <3>1, <3>2, <3>3
  <2>3. ASSUME NEW i \in 1 .. Len(cq') PROVE where'[cq'[i]] = "cq"
    <3>1. i \in 1 .. n + f /\ where' = where
      BY <1>0, <1>8
    <3> QED BY <2>1, <3>1 DEF DoneInv
  <2>4. ASSUME NEW i \in 1 .. Len(backlog') PROVE where'[backlog'[i]] = "cq"
    <3>1. where' = where
      BY <1>0
    <3> QED BY <2>2, <3>1 DEF DoneInv
  <2>5. ASSUME NEW i \in 1 .. Len(cq'), NEW j \in 1 .. Len(cq'), cq'[i] = cq'[j]
        PROVE  i = j
    <3>0. i \in 1 .. n + f /\ j \in 1 .. n + f
      BY <1>8
    <3>1. CASE i <= n /\ j <= n
      <4>1. nd + i = nd + j
        BY <2>1, <2>5, <3>0, <3>1 DEF DoneInv
      <4> QED BY <1>1, <4>1
    <3>2. CASE i > n /\ j > n
      <4>1. i - n = j - n
        BY <2>1, <2>5, <3>0, <3>2 DEF DoneInv
      <4> QED BY <4>1
    <3>3. ~(i <= n /\ j > n) /\ ~(i > n /\ j <= n)
      BY <2>1, <2>5, <3>0 DEF DoneInv
    <3> QED BY <3>1, <3>2, <3>3
  <2>6. ASSUME NEW i \in 1 .. Len(backlog'), NEW j \in 1 .. Len(backlog'), backlog'[i] = backlog'[j]
        PROVE  i = j
    <3>1. f + i = f + j
      BY <2>2, <2>6 DEF DoneInv
    <3> QED BY <3>1
  <2>7. ASSUME NEW i \in 1 .. Len(cq'), NEW j \in 1 .. Len(backlog')
        PROVE  cq'[i] # backlog'[j]
    <3>0. i \in 1 .. n + f
      BY <1>8
    <3>1. f + j \in 1 .. Len(backlog) /\ backlog'[j] = backlog[f + j]
      BY <2>2
    <3>2. CASE i <= n
      BY <2>1, <3>0, <3>1, <3>2 DEF DoneInv
    <3>3. CASE i > n
      <4>1. i - n \in 1 .. Len(backlog) /\ cq'[i] = backlog[i - n] /\ i - n # f + j
        BY <2>1, <3>0, <3>1, <3>3
      <4> QED BY <3>1, <4>1 DEF DoneInv
    <3> QED BY <3>2, <3>3
  <2>8. nd' + 1 = 1
    BY <1>0
  <2> QED BY <2>3, <2>4, <2>5, <2>6, <2>7, <2>8 DEF DoneInv
<1> QED BY <1>9, <1>11, <1>12, <1>13

-----------------------------------------------------------------------------
(* The processor and the kernel.                                           *)

\* Steps that move no request.
LEMMA QuietKeeps == ASSUME IInv, Quit \/ Gone \/ StoreTail \/ AskWakeup \/ LookAgain PROVE IInv'
<1> USE DEF IInv
<1>0. /\ UNCHANGED <<file, mFly, mHandle, mStop, where, waitQ, mFlyRequest, sqe, head, tail,
                     cq, backlog, ret, seen, nd, cur>>
      /\ pc' = pc \/ (pc = "idle" /\ pc' = "gone")
      /\ sqThread' = sqThread \/ sqThread' \in {"run", "flagged", "asleep"}
      /\ tailMem' = tailMem \/ (tailMem # tail /\ tailMem' = Wrap(tailMem + 1))
  <2>1. CASE Quit
    BY <2>1 DEF Quit, handleVars, sqVars, cqVars
  <2>2. CASE Gone
    BY <2>2 DEF Gone, vars, handleVars, sqVars, cqVars, pcVars
  <2>3. CASE StoreTail
    BY <2>3 DEF StoreTail, handleVars, cqVars, pcVars
  <2>4. CASE AskWakeup
    BY <2>4 DEF AskWakeup, handleVars, cqVars, pcVars
  <2>5. CASE LookAgain
    BY <2>5 DEF LookAgain, handleVars, cqVars, pcVars
  <2> QED BY <2>1, <2>2, <2>3, <2>4, <2>5
<1>1. /\ tailMem' \in 0 .. 2 * Entries - 1
      /\ tailMem' # tailMem =>
            tailMem # tail /\ tailMem' = IF tailMem = 2 * Entries - 1 THEN 0 ELSE tailMem + 1
  BY <1>0, WrapNext, Counters
<1>2. TypeOK'
  <2>1. {head', tail', tailMem'} \subseteq 0 .. 2 * Entries - 1
    BY <1>0, <1>1, Counters
  <2>2. pc' \in {"idle", "post", "harvest", "call", "gone"}
    BY <1>0 DEF TypeOK
  <2>3. sqThread' \in {"run", "flagged", "asleep"}
    BY <1>0 DEF TypeOK
  <2> QED BY <1>0, <2>1, <2>2, <2>3 DEF TypeOK
<1>3. Handed' = Handed /\ AtPlace("sq")' = AtPlace("sq")
  BY <1>0 DEF Handed, AtPlace
<1>4. FlyInv' /\ WaitInv' /\ DoneInv'
  BY <1>0, <1>3, FlyFrame, WaitFrame, DoneFrame DEF TypeOK
<1>5. PcInv'
  BY <1>0 DEF PcInv
<1>6. RingInv'
  <2>1. Ahead(tail)' = Ahead(tail) /\ \A i \in 0 .. Entries - 1 : Dist(i)' = Dist(i)
    BY <1>0 DEF Ahead, Dist
  <2>2. Ahead(tailMem)' <= Ahead(tail)
    <3>1. CASE tailMem' = tailMem
      <4>1. Ahead(tailMem)' = Ahead(tailMem)
        BY <1>0, <3>1 DEF Ahead
      <4> QED BY <4>1 DEF RingInv
    <3>2. CASE tailMem' # tailMem
      <4>1. Ahead(tailMem)' = IF tailMem' >= head THEN tailMem' - head
                                                  ELSE tailMem' - head + 2 * Entries
        <5>1. head \in 0 .. 2 * Entries - 1
          BY Counters
        <5> QED BY <1>0, <1>1, <5>1, WrapAhead DEF Ahead
      <4>2. Ahead(tailMem) <= Ahead(tail)
        BY DEF RingInv
      <4> DEFINE t == Ahead(tail)
                 m == Ahead(tailMem)
      <4>3. /\ head \in 0 .. 2 * Entries - 1 /\ tail \in 0 .. 2 * Entries - 1
            /\ tailMem \in 0 .. 2 * Entries - 1
            /\ t = IF tail >= head THEN tail - head ELSE tail - head + 2 * Entries
            /\ m = IF tailMem >= head THEN tailMem - head ELSE tailMem - head + 2 * Entries
            /\ m <= t /\ tailMem # tail
        BY <4>2, <1>1, <3>2, Counters
      <4>4. Ahead(tailMem)' = (IF tailMem' >= head THEN tailMem' - head
                                                  ELSE tailMem' - head + 2 * Entries)
            /\ tailMem' = IF tailMem = 2 * Entries - 1 THEN 0 ELSE tailMem + 1
        BY <4>1, <1>1, <3>2
      <4> HIDE DEF t, m
      <4>5. Ahead(tailMem)' <= t
        BY <4>3, <4>4, UringConstants
      <4> QED BY <4>5 DEF t
    <3> QED BY <3>1, <3>2
  <2> QED BY <1>0, <1>3, <2>1, <2>2 DEF RingInv
<1> QED BY <1>2, <1>4, <1>5, <1>6

\* The kernel takes the request at head, which is there: tailMem is ahead.
LEMMA ConsumeKeeps == ASSUME IInv, Consume PROVE IInv'
<1> USE DEF IInv
<1>a. /\ head \in 0 .. 2 * Entries - 1 /\ tail \in 0 .. 2 * Entries - 1
      /\ tailMem \in 0 .. 2 * Entries - 1
      /\ Ahead(tail) = IF tail >= head THEN tail - head ELSE tail - head + 2 * Entries
      /\ Ahead(tailMem) = IF tailMem >= head THEN tailMem - head
                                             ELSE tailMem - head + 2 * Entries
      /\ Ahead(tail) < Entries /\ Ahead(tailMem) <= Ahead(tail)
      /\ head # tailMem /\ Entries \in Nat /\ Entries > 1
  BY Counters, UringConstants DEF Consume, RingInv
<1>b. Ahead(tail) \in Nat \ {0} /\ Ahead(tailMem) \in Nat \ {0}
  BY <1>a
<1>c. PICK s \in 0 .. Entries - 1 : s = Slot(head)
  BY <1>a, SlotNext
<1>d. Dist(s) = 0
  BY <1>c DEF Dist
<1>e. PICK r \in Requests : r = sqe[s] /\ r \in AtPlace("sq") /\ r # NoReq
  <2>1. sqe[s] \in AtPlace("sq")
    BY <1>b, <1>d DEF RingInv
  <2>2. AtPlace("sq") \subseteq Requests
    BY DEF AtPlace
  <2> QED BY <2>1, <2>2, UringConstants
<1>0. /\ UNCHANGED <<file, mFly, mHandle, mStop, waitQ, mFlyRequest, tail, tailMem, sqThread,
                     cq, backlog, pc, ret, seen, nd, cur>>
      /\ where' = [where EXCEPT ![r] = "kernel"] /\ sqe' = [sqe EXCEPT ![s] = NoReq]
      /\ head' = Wrap(head + 1)
  BY <1>c, <1>e DEF Consume, handleVars, cqVars, pcVars
<1>1. where \in [Requests -> Places] /\ where' \in [Requests -> Places] /\ where[r] = "sq"
  BY <1>0, <1>e DEF TypeOK, Places, AtPlace
<1>2. /\ head' = IF head = 2 * Entries - 1 THEN 0 ELSE head + 1
      /\ head' \in 0 .. 2 * Entries - 1
  BY <1>0, <1>a, WrapNext
<1>3. TypeOK'
  <2>1. sqe' \in [0 .. Entries - 1 -> Requests \cup {NoReq}]
    BY <1>0 DEF TypeOK
  <2>2. {head', tail', tailMem'} \subseteq 0 .. 2 * Entries - 1
    BY <1>0, <1>2, <1>a
  <2> QED BY <1>0, <1>1, <2>1, <2>2 DEF TypeOK
<1>4. FlyInv' /\ PcInv' /\ WaitInv' /\ DoneInv'
  <2>1. Handed' = Handed
    BY <1>0, <1>1 DEF Handed
  <2>2. \A x \in Requests : where'[x] = "free" <=> where[x] = "free"
    BY <1>0, <1>1
  <2>3. \A x \in Requests : where[x] \in {"wait", "cq"} => where'[x] = where[x]
    BY <1>0, <1>1
  <2> QED BY <1>0, <2>1, <2>2, <2>3, FlyFrame, PcFrame, WaitFrame, DoneFrame DEF TypeOK
<1>5. RingInv'
  <2>1. /\ Ahead(tail)' = IF tail >= head' THEN tail - head' ELSE tail - head' + 2 * Entries
        /\ Ahead(tailMem)' = IF tailMem >= head' THEN tailMem - head'
                                                 ELSE tailMem - head' + 2 * Entries
    BY <1>0, <1>2, <1>a, WrapAhead DEF Ahead
  <2>2. Ahead(tail)' = Ahead(tail) - 1
    BY <1>a, <1>b, <1>2, <2>1
  <2>3. Ahead(tailMem)' = Ahead(tailMem) - 1
    BY <1>a, <1>b, <1>2, <2>1
  <2>4. Slot(head)' = IF s = Entries - 1 THEN 0 ELSE s + 1
    <3>1. Slot(head + 1) = IF s = Entries - 1 THEN 0 ELSE s + 1
      BY <1>a, <1>c, SlotNext
    <3>2. Slot(head') = IF head' < Entries THEN head' ELSE head' - Entries
      BY <1>2, SlotOf
    <3>3. Slot(head) = IF head < Entries THEN head ELSE head - Entries
      BY <1>a, SlotOf
    <3>4. Slot(head') = IF s = Entries - 1 THEN 0 ELSE s + 1
      BY <1>2, <1>a, <1>c, <3>2, <3>3
    <3> QED BY <3>4 DEF Slot
  <2>5. \A i \in 0 .. Entries - 1 :
           /\ Dist(i) = IF i >= s THEN i - s ELSE i - s + Entries
           /\ i # s => Dist(i)' = Dist(i) - 1
           /\ i = s => Dist(i)' = Entries - 1
    <3>1. \A i \in 0 .. Entries - 1 : Dist(i) = IF i >= s THEN i - s ELSE i - s + Entries
      BY <1>c DEF Dist
    <3> DEFINE z == IF s = Entries - 1 THEN 0 ELSE s + 1
    <3>2. \A i \in 0 .. Entries - 1 : Dist(i)' = IF i >= z THEN i - z ELSE i - z + Entries
      BY <2>4 DEF Dist
    <3> QED BY <1>a, <3>1, <3>2
  <2>6. AtPlace("sq")' = AtPlace("sq") \ {r} /\ AtPlace("sq") \subseteq Requests
    BY <1>0, <1>1 DEF AtPlace
  <2>7. Cardinality(AtPlace("sq")') = Cardinality(AtPlace("sq")) - 1
    BY <1>e, <2>6, OneFewer
  <2>8. \A i \in 0 .. Entries - 1 : sqe'[i] = IF i = s THEN NoReq ELSE sqe[i]
    BY <1>0 DEF TypeOK
  <2> DEFINE a == Ahead(tail)
             q == AtPlace("sq")
  <2>9. /\ \A i \in 0 .. Entries - 1 : IF Dist(i) < a THEN sqe[i] \in q ELSE sqe[i] = NoReq
        /\ \A i, j \in 0 .. Entries - 1 : sqe[i] = sqe[j] /\ sqe[i] # NoReq => i = j
        /\ \A x \in q : \E i \in 0 .. Entries - 1 : sqe[i] = x
        /\ Cardinality(q) = a /\ a < Entries /\ a \in Nat \ {0}
    BY <1>b DEF RingInv
  <2> HIDE DEF a, q
  <2>10. ASSUME NEW i \in 0 .. Entries - 1
         PROVE  IF Dist(i)' < a - 1 THEN sqe'[i] \in q \ {r} ELSE sqe'[i] = NoReq
    <3>1. CASE i = s
      BY <1>a, <2>5, <2>8, <2>9, <3>1
    <3>2. CASE i # s
      <4>1. sqe[i] # r
        BY <1>e, <2>9, <3>2
      <4>2. Dist(i)' < a - 1 <=> Dist(i) < a
        <5>1. Dist(i) \in Int /\ Dist(i)' = Dist(i) - 1
          BY <1>a, <2>5, <3>2
        <5> HIDE DEF Dist
        <5> QED BY <2>9, <5>1
      <4> QED BY <2>8, <2>9, <3>2, <4>1, <4>2
    <3> QED BY <3>1, <3>2
  <2>11. \A i, j \in 0 .. Entries - 1 : sqe'[i] = sqe'[j] /\ sqe'[i] # NoReq => i = j
    BY <2>8, <2>9
  <2>12. \A x \in q \ {r} : \E i \in 0 .. Entries - 1 : sqe'[i] = x
    BY <1>e, <2>8, <2>9
  <2>13. a - 1 < Entries /\ Ahead(tailMem)' <= a - 1
    BY <1>a, <1>b, <2>3, <2>9 DEF a
  <2>14. Ahead(tail)' = a - 1 /\ AtPlace("sq")' = q \ {r} /\ Cardinality(AtPlace("sq")') = a - 1
    BY <2>2, <2>6, <2>7, <2>9 DEF a, q
  <2> QED BY <2>10, <2>11, <2>12, <2>13, <2>14 DEF RingInv
<1> QED BY <1>3, <1>4, <1>5

\* A file operation ends: the completion goes behind all that wait.
LEMMA FinishKeeps == ASSUME IInv, NEW r \in Requests, Finish(r) PROVE IInv'
<1> USE DEF IInv
<1>0. /\ UNCHANGED <<file, mFly, mHandle, mStop, waitQ, mFlyRequest, sqe, head, tail, tailMem,
                     sqThread, pc, ret, seen, nd, cur>>
      /\ where[r] = "kernel" /\ where' = [where EXCEPT ![r] = "cq"]
      /\ \/ cq' = Append(cq, r) /\ backlog' = backlog /\ backlog = <<>> /\ Len(cq) < EntriesCQ
         \/ backlog' = Append(backlog, r) /\ cq' = cq
  BY DEF Finish, handleVars, sqVars, pcVars
<1>1. where \in [Requests -> Places] /\ where' \in [Requests -> Places]
  BY <1>0 DEF TypeOK, Places
<1>2. /\ cq \in Seq(Requests) /\ Len(cq) \in Nat /\ Len(cq) <= EntriesCQ
      /\ backlog \in Seq(Requests) /\ Len(backlog) \in Nat
      /\ nd \in Nat /\ seen \in Nat /\ nd <= seen /\ seen <= Len(cq)
  BY DEF TypeOK, PcInv
<1>3. /\ \A i \in nd + 1 .. Len(cq) : cq[i] # r /\ cq[i] \in Requests
      /\ \A i \in 1 .. Len(backlog) : backlog[i] # r /\ backlog[i] \in Requests
  <2>1. \A i \in nd + 1 .. Len(cq) : i \in 1 .. Len(cq)
    BY <1>2
  <2> QED BY <1>0, <1>2, <2>1 DEF DoneInv
<1>4. /\ cq' \in Seq(Requests) /\ Len(cq') <= EntriesCQ /\ Len(cq') \in Nat
      /\ Len(cq') >= Len(cq) /\ backlog' \in Seq(Requests)
  <2>1. CASE cq' = Append(cq, r) /\ backlog' = backlog /\ Len(cq) < EntriesCQ
    <3>1. cq' \in Seq(Requests) /\ Len(cq') = Len(cq) + 1
      BY <1>2, <2>1
    <3> QED BY <1>2, <2>1, <3>1, UringConstants
  <2>2. CASE backlog' = Append(backlog, r) /\ cq' = cq
    BY <1>2, <2>2
  <2> QED BY <1>0, <2>1, <2>2
<1>5. TypeOK'
  BY <1>0, <1>1, <1>4 DEF TypeOK
<1>6. FlyInv' /\ WaitInv' /\ RingInv'
  <2>1. Handed' = Handed /\ AtPlace("sq")' = AtPlace("sq")
    BY <1>0, <1>1 DEF Handed, AtPlace
  <2>2. \A x \in Requests : where'[x] = "free" <=> where[x] = "free"
    BY <1>0, <1>1
  <2>3. \A x \in Requests : where[x] = "wait" => where'[x] = "wait"
    BY <1>0, <1>1
  <2> QED BY <1>0, <2>1, <2>2, <2>3, FlyFrame, WaitFrame, RingFrame DEF TypeOK
<1>7. PcInv'
  BY <1>0, <1>2, <1>4 DEF PcInv
<1>8. DoneInv'
  <2>1. /\ \A i \in nd + 1 .. Len(cq) : where'[cq[i]] = "cq"
        /\ \A i \in 1 .. Len(backlog) : where'[backlog[i]] = "cq"
    BY <1>0, <1>1, <1>3 DEF DoneInv
  <2>2. where'[r] = "cq"
    BY <1>0, <1>1
  <2>3. CASE cq' = Append(cq, r) /\ backlog' = backlog /\ backlog = <<>>
    <3>1. /\ Len(cq') = Len(cq) + 1 /\ cq'[Len(cq) + 1] = r
          /\ \A i \in 1 .. Len(cq) : cq'[i] = cq[i]
      BY <1>2, <2>3
    <3>2. \A i \in nd + 1 .. Len(cq') :
             i = Len(cq) + 1 \/ (i \in nd + 1 .. Len(cq) /\ cq'[i] = cq[i])
      BY <1>2, <3>1
    <3>3. \A i \in nd + 1 .. Len(cq') : where'[cq'[i]] = "cq"
      BY <2>1, <2>2, <3>1, <3>2
    <3>4. \A i, j \in nd + 1 .. Len(cq') : cq'[i] = cq'[j] => i = j
      BY <1>3, <3>1, <3>2 DEF DoneInv
    <3>5. 1 .. Len(backlog) = {}
      BY <2>3
    <3> QED BY <1>0, <2>3, <3>3, <3>4, <3>5 DEF DoneInv
  <2>4. CASE backlog' = Append(backlog, r) /\ cq' = cq
    <3>1. /\ Len(backlog') = Len(backlog) + 1 /\ backlog'[Len(backlog) + 1] = r
          /\ \A i \in 1 .. Len(backlog) : backlog'[i] = backlog[i]
      BY <1>2, <2>4
    <3>2. \A i \in 1 .. Len(backlog') :
             i = Len(backlog) + 1 \/ (i \in 1 .. Len(backlog) /\ backlog'[i] = backlog[i])
      BY <1>2, <3>1
    <3>3. \A i \in 1 .. Len(backlog') : where'[backlog'[i]] = "cq"
      BY <2>1, <2>2, <3>1, <3>2
    <3>4. \A i, j \in 1 .. Len(backlog') : backlog'[i] = backlog'[j] => i = j
      BY <1>3, <3>1, <3>2 DEF DoneInv
    <3>5. \A i \in nd + 1 .. Len(cq), j \in 1 .. Len(backlog') : cq[i] # backlog'[j]
      BY <1>3, <3>1, <3>2 DEF DoneInv
    <3>6. nd' = nd /\ cq' = cq
      BY <1>0, <2>4
    <3> QED BY <2>1, <3>3, <3>4, <3>5, <3>6 DEF DoneInv
  <2> QED BY <1>0, <2>3, <2>4
<1> QED BY <1>5, <1>6, <1>7, <1>8

-----------------------------------------------------------------------------
LEMMA Inductive == IInv /\ [Next]_vars => IInv'
<1> SUFFICES ASSUME IInv, [Next]_vars PROVE IInv'
  OBVIOUS
<1>1. CASE UserStep
  <2>1. ASSUME NEW h \in Handles, NEW r \in Requests, Post(h, r) PROVE IInv'
    BY <2>1, PostKeeps
  <2> QED BY <1>1, <2>1, FileKeeps DEF UserStep
<1>2. CASE LoopStep
  BY <1>2, FileKeeps, PostOneKeeps, PostEndKeeps, BeginKeeps, CompleteKeeps, ReturnKeeps,
     EndHarvestKeeps, QuietKeeps DEF LoopStep
<1>3. CASE KernelStep
  <2>1. ASSUME NEW r \in Requests, Finish(r) PROVE IInv'
    BY <2>1, FinishKeeps
  <2> QED BY <1>3, <2>1, QuietKeeps, ConsumeKeeps DEF KernelStep
<1>4. CASE UNCHANGED vars
  <2>2. UNCHANGED <<file, mFly, mHandle, mStop, where, waitQ, mFlyRequest, sqe, head, tail,
                    tailMem, sqThread, cq, backlog, pc, ret, seen, nd, cur>>
    BY <1>4 DEF vars, handleVars, sqVars, cqVars, pcVars
  <2>3. Handed' = Handed /\ AtPlace("sq")' = AtPlace("sq")
    BY <2>2 DEF Handed, AtPlace
  <2>4. TypeOK'
    BY <2>2 DEF IInv, TypeOK
  <2> QED BY <2>2, <2>3, <2>4, FlyFrame, PcFrame, WaitFrame, DoneFrame, RingFrame DEF IInv, TypeOK
<1> QED BY <1>1, <1>2, <1>3, <1>4 DEF Next

\* The counts of requests in flight, the queues and the ring agree in every
\* reachable state of Source/Linux/IOURing.cpp, for any sizes.
THEOREM Invariance == Spec => []IInv
BY Starts, Inductive, PTL DEF Spec

\* Every variable of Uring has its type; no count of requests in flight goes
\* below zero, and neither ring is overrun.
THEOREM TypeCorrect == Spec => []TypeOK
<1>1. IInv => TypeOK
  BY DEF IInv
<1> QED BY <1>1, Invariance, PTL

\* Handle::unbindFly closes a file no sooner than its last request has been
\* answered and the callback has returned.
THEOREM AnsweredCorrect == Spec => []AnsweredBeforeClose
<1>1. IInv => AnsweredBeforeClose
  <2> SUFFICES ASSUME IInv, NEW h \in Handles, file[h] \in {"close", "none"},
                      NEW r \in Requests, mHandle[r] = h
               PROVE  where[r] = "free" /\ r # cur
    BY DEF AnsweredBeforeClose
  <2>1. Cardinality(Busy(h)) = 0 /\ InCall(h) = 0
    <3>1. mFly[h] = 0 /\ mFly[h] = Cardinality(Busy(h)) + InCall(h)
      BY DEF IInv, FlyInv
    <3>2. InCall(h) \in {0, 1} /\ Cardinality(Busy(h)) \in Nat
      BY Countable DEF InCall
    <3> QED BY <3>1, <3>2
  <2>2. Busy(h) = {}
    BY <2>1, Countable, FS_EmptySet
  <2>3. where[r] = "free"
    BY <2>2 DEF Busy
  <2>4. r # cur
    BY <2>1, UringConstants DEF InCall
  <2> QED BY <2>3, <2>4
<1> QED BY <1>1, Invariance, PTL

\* IOURing::getSQE never gives a slot the kernel has not taken, however the
\* counters wrap and however far what it sees of the tail lags behind.
THEOREM SlotsCorrect == Spec => []SlotsKept
<1>1. IInv => SlotsKept
  <2> SUFFICES ASSUME IInv PROVE SlotsKept
    OBVIOUS
  <2>1. DOMAIN sqe = 0 .. Entries - 1
    BY DEF IInv, TypeOK
  <2> QED BY <2>1 DEF IInv, RingInv, Ahead, SlotsKept
<1> QED BY <1>1, Invariance, PTL
=============================================================================
