---------------------------- MODULE TlsPoolProof ----------------------------
(***************************************************************************)
(* Proofs about two of the parts, which share no name and no variable: the *)
(* TLS handle and the thread pool.                                         *)
(***************************************************************************)
EXTENDS Tls, ThreadPool, SequenceTheorems, FiniteSetTheorems, TLAPS

-----------------------------------------------------------------------------
(* Tls, for any number of writes, any sizes and any flights that a session *)
(* may refuse: TlsInv says what a handle always is, from which             *)
(* AllHandedBack follows; FlowInv says what is on the way between the two  *)
(* applications, from which TlsInOrder follows.                            *)

\* Whatever a session reads or writes, and what stands for a request.
Record == {"flight", "item", "bye", "none", "connect"} \X Nat

\* Where a callback chain stands, also while the application is called from it.
Stage(x) == IF x.pc = "call" THEN x.then ELSE x.pc
Stages == {"idle", "hello", "pop", "land", "written", "end1", "end2", "end3", "end4", "closed"}
Transfer == {"no", "posted", "dead"}

HandleRecord ==
    [connects : BOOLEAN, tcp : {"connecting", "open", "broken", "closing", "closed"},
     mFlag : BOOLEAN, read : Transfer, write : Transfer, commit : Nat,
     in : Seq(Record), out : Seq(Record), hs : 0 .. Flights,
     up : BOOLEAN, bad : BOOLEAN, eof : BOOLEAN,
     flyReads : Nat, flyWrites : Seq(Record), landReads : Seq(Record), landWrites : Nat,
     wrote : Nat, pc : Stages \cup {"call"}, then : Stages, cont : {"none", "read", "hello", "end", "written"},
     more : BOOLEAN]

\* The type of the state: no counter of requests falls below nothing.
TlsTypeOK ==
    /\ hnd \in [Side -> HandleRecord]
    /\ wire \in [Side -> Seq(Record)]
    /\ put \in [Side -> Seq(Record)]
    /\ got \in [Side -> Seq(Record)]

\* What a handle always is, whoever has called what.  The queues are handed
\* back one after the other, and the flag is off before the first callback,
\* so that one that was emptied stays empty.
Ends == {"end1", "end2", "end3", "end4", "closed"}
HandleOK(x) ==
    /\ x.pc # "closed" => x.commit <= Len(x.out)
    /\ x.tcp = "closed" <=> Stage(x) \in Ends
    /\ x.tcp = "closed" => ~x.mFlag
    /\ Stage(x) \in {"pop", "land"} => x.cont \in {"read", "hello", "end"}
    /\ x.connects /\ ~x.up /\ x.tcp # "closed" => x.flyWrites # <<>>
    /\ Stage(x) \in Ends \ {"end1"} => x.landReads = <<>>
    /\ Stage(x) \in Ends \ {"end1", "end2"} => x.landWrites = 0
    /\ Stage(x) \in {"end4", "closed"} => x.flyWrites = <<>>
    /\ Stage(x) = "closed" => x.flyReads = 0
    /\ Stage(x) = "written" /\ x.cont = "written" => x.write # "no"
    /\ x.eof => x.tcp \in {"closing", "closed"}

TlsInv == TlsTypeOK /\ \A e \in Side : HandleOK(hnd[e])

-----------------------------------------------------------------------------
(* What the parts of a callback keep.                                      *)

\* The parts of a handle that a transfer of its own does not change.
Alike(y, x) ==
    /\ y.connects = x.connects /\ y.tcp = x.tcp /\ y.up = x.up
    /\ y.pc = x.pc /\ y.then = x.then /\ y.cont = x.cont
    /\ y.flyReads = x.flyReads /\ y.flyWrites = x.flyWrites
    /\ y.landReads = x.landReads /\ y.landWrites = x.landWrites

\* What is written is a record.
LEMMA FlightIsRecord == ASSUME NEW n \in Nat PROVE Flight(n) \in Record /\ Data(n) \in Record
  BY DEF Flight, Data, Record

\* So are the rest.
LEMMA OthersAreRecords == Bye \in Record /\ None \in Record /\ Connect \in Record
  BY DEF Bye, None, Connect, Record

\* What is alike is as good, if its transfers are.
LEMMA AlikeIsOK ==
    ASSUME NEW x, NEW y, HandleOK(x), Alike(y, x),
           y.pc # "closed" => y.commit <= Len(y.out),
           y.tcp = "closed" => ~y.mFlag,
           Stage(y) = "written" /\ y.cont = "written" => y.write # "no",
           y.eof => y.tcp \in {"closing", "closed"}
    PROVE  HandleOK(y)
<1>1. Stage(y) = Stage(x)
  BY DEF Stage, Alike
<1> QED BY <1>1 DEF HandleOK, Alike

\* postRead().
LEMMA PostReadKeeps ==
    ASSUME NEW x \in HandleRecord, HandleOK(x)
    PROVE  PostRead(x) \in HandleRecord /\ HandleOK(PostRead(x)) /\ Alike(PostRead(x), x)
<1> DEFINE y == PostRead(x)
<1>0. y = x \/ \E t \in Transfer : y = [x EXCEPT !.read = t]
  BY DEF PostRead, Transfer
<1>1. y \in HandleRecord
  <2> HIDE DEF y
  <2> QED BY <1>0 DEF HandleRecord
<1>2. Alike(y, x)
  BY DEF PostRead, HandleRecord, Alike
<1>3. y.commit = x.commit /\ y.out = x.out /\ y.mFlag = x.mFlag /\ y.write = x.write /\ y.eof = x.eof
  BY DEF PostRead, HandleRecord
<1> HIDE DEF y
<1>4. HandleOK(y)
  BY <1>2, <1>3, AlikeIsOK DEF HandleOK, Alike, Stage
<1> QED BY <1>1, <1>2, <1>4 DEF y

\* The flag of mTCP is copied.
LEMMA CopyFlagKeeps ==
    ASSUME NEW x \in HandleRecord, HandleOK(x)
    PROVE  CopyFlag(x) \in HandleRecord /\ HandleOK(CopyFlag(x)) /\ Alike(CopyFlag(x), x)
<1> DEFINE y == CopyFlag(x)
<1>0. \E b \in BOOLEAN : y = [x EXCEPT !.mFlag = b]
  <2>1. Open(x) \in BOOLEAN
    BY DEF Open
  <2> QED BY <2>1 DEF CopyFlag
<1>1. y \in HandleRecord
  <2> HIDE DEF y
  <2> QED BY <1>0 DEF HandleRecord
<1>2. Alike(y, x)
  BY DEF CopyFlag, HandleRecord, Alike
<1>3. y.commit = x.commit /\ y.out = x.out /\ y.mFlag = (x.tcp \in {"open", "broken"})
        /\ y.write = x.write /\ y.eof = x.eof
  BY DEF CopyFlag, HandleRecord, Open
<1> HIDE DEF y
<1>4. HandleOK(y)
  BY <1>2, <1>3, AlikeIsOK DEF HandleOK, Alike, Stage
<1> QED BY <1>1, <1>2, <1>4 DEF y

\* postWrite(): no more is committed than there is.
LEMMA PostWriteKeeps ==
    ASSUME NEW x \in HandleRecord, HandleOK(x), NodeSize \in Nat
    PROVE  PostWrite(x) \in HandleRecord /\ HandleOK(PostWrite(x)) /\ Alike(PostWrite(x), x)
<1> DEFINE y == PostWrite(x)
           n == IF NodeSize < Len(x.out) THEN NodeSize ELSE Len(x.out)
<1>1. Len(x.out) \in Nat /\ n \in Nat /\ n <= Len(x.out)
  BY DEF HandleRecord
<1> HIDE DEF n
<1>2. \/ y = x
      \/ \E t \in {"posted", "dead"} : y = [x EXCEPT !.write = t, !.commit = n]
  BY DEF PostWrite, PostWriteAlways, n, Transfer
<1> HIDE DEF y
<1>3. y \in HandleRecord
  BY <1>1, <1>2 DEF HandleRecord, Transfer
<1>4. Alike(y, x)
  BY <1>2 DEF HandleRecord, Alike
<1>5. (y.commit = x.commit \/ y.commit = n) /\ y.out = x.out /\ y.mFlag = x.mFlag
        /\ (y.write = x.write \/ y.write # "no") /\ y.eof = x.eof
  BY <1>2 DEF HandleRecord
<1>6. HandleOK(y)
  BY <1>1, <1>4, <1>5, AlikeIsOK DEF HandleOK, Alike, Stage
<1> QED BY <1>3, <1>4, <1>6 DEF y

\* What was committed leaves the buffer.
LEMMA CommitKeeps ==
    ASSUME NEW x \in HandleRecord, HandleOK(x), ~(Stage(x) = "written" /\ x.cont = "written")
    PROVE  Commit(x) \in HandleRecord /\ HandleOK(Commit(x)) /\ Alike(Commit(x), x)
<1> DEFINE y == Commit(x)
<1>1. SubSeq(x.out, x.commit + 1, Len(x.out)) \in Seq(Record)
  BY DEF HandleRecord
<1>2. y \in HandleRecord
  BY <1>1 DEF Commit, HandleRecord, Transfer
<1>3. Alike(y, x)
  BY DEF Commit, HandleRecord, Alike
<1>4. y.commit = 0 /\ y.mFlag = x.mFlag /\ Len(y.out) \in Nat /\ y.eof = x.eof
  BY <1>1 DEF Commit, HandleRecord
<1> HIDE DEF y
<1>5. HandleOK(y)
  BY <1>3, <1>4, AlikeIsOK DEF HandleOK, Alike, Stage
<1> QED BY <1>2, <1>3, <1>5 DEF y

\* A flight of the peer is taken.
LEMMA TakeFlightKeeps ==
    ASSUME NEW x \in HandleRecord, HandleOK(x)
    PROVE  TakeFlight(x) \in HandleRecord /\ HandleOK(TakeFlight(x)) /\ Alike(TakeFlight(x), x)
<1> DEFINE y == [x EXCEPT !.in = Tail(@), !.hs = @ + 1]
<1>1. CASE ~Finished(x) /\ x.in # <<>>
  <2>1. Tail(x.in) \in Seq(Record) /\ x.hs + 1 \in 0 .. Flights
    BY <1>1 DEF HandleRecord, Finished, Flights
  <2>2. y \in HandleRecord
    BY <2>1 DEF HandleRecord
  <2>3. Alike(y, x)
    BY DEF HandleRecord, Alike
  <2>4. y.commit = x.commit /\ y.out = x.out /\ y.mFlag = x.mFlag /\ y.write = x.write /\ y.eof = x.eof
    BY DEF HandleRecord
  <2> HIDE DEF y
  <2>5. HandleOK(y)
    BY <2>3, <2>4, AlikeIsOK DEF HandleOK, Alike, Stage
  <2>6. TakeFlight(x) = x \/ TakeFlight(x) = y
    BY DEF TakeFlight, y
  <2> QED BY <2>2, <2>3, <2>5, <2>6 DEF Alike
<1>2. CASE ~(~Finished(x) /\ x.in # <<>>)
  BY <1>2 DEF TakeFlight, Alike
<1> QED BY <1>1, <1>2

\* A flight of the own is written.
LEMMA GiveFlightKeeps ==
    ASSUME NEW x \in HandleRecord, HandleOK(x)
    PROVE  GiveFlight(x) \in HandleRecord /\ HandleOK(GiveFlight(x)) /\ Alike(GiveFlight(x), x)
<1> DEFINE y == [x EXCEPT !.hs = @ + 1, !.out = Append(@, Flight(x.hs + 1))]
<1>1. CASE ~Finished(x)
  <2>1. /\ Append(x.out, Flight(x.hs + 1)) \in Seq(Record) /\ x.hs + 1 \in 0 .. Flights
        /\ Len(Append(x.out, Flight(x.hs + 1))) = Len(x.out) + 1 /\ Len(x.out) \in Nat
        /\ x.commit \in Nat
    BY <1>1, FlightIsRecord DEF HandleRecord, Finished, Flights
  <2>2. y \in HandleRecord
    BY <2>1 DEF HandleRecord
  <2>3. Alike(y, x)
    BY DEF HandleRecord, Alike
  <2>4. y.commit = x.commit /\ Len(y.out) = Len(x.out) + 1 /\ y.mFlag = x.mFlag
        /\ y.write = x.write /\ y.eof = x.eof
    BY <2>1 DEF HandleRecord
  <2> HIDE DEF y
  <2>5. HandleOK(y)
    BY <2>1, <2>3, <2>4, AlikeIsOK DEF HandleOK, Alike, Stage
  <2>6. GiveFlight(x) = x \/ GiveFlight(x) = y
    BY DEF GiveFlight, y
  <2> QED BY <2>2, <2>3, <2>5, <2>6 DEF Alike
<1>2. CASE Finished(x)
  BY <1>2 DEF GiveFlight, Alike
<1> QED BY <1>1, <1>2

\* handshake(): both, and what is written is posted.
LEMMA HandshakeKeeps ==
    ASSUME NEW x \in HandleRecord, HandleOK(x), NodeSize \in Nat
    PROVE  Handshake(x) \in HandleRecord /\ HandleOK(Handshake(x)) /\ Alike(Handshake(x), x)
<1> DEFINE y == TakeFlight(x)
           z == GiveFlight(y)
<1>1. y \in HandleRecord /\ HandleOK(y) /\ Alike(y, x)
  BY TakeFlightKeeps
<1> HIDE DEF y
<1>2. z \in HandleRecord /\ HandleOK(z) /\ Alike(z, y)
  BY <1>1, GiveFlightKeeps
<1> HIDE DEF z
<1>3. PostWrite(z) \in HandleRecord /\ HandleOK(PostWrite(z)) /\ Alike(PostWrite(z), z)
  BY <1>2, PostWriteKeeps
<1> QED BY <1>1, <1>2, <1>3 DEF Handshake, y, z, Alike

\* A read that finds a record takes it: only the queues of reads change.
LEMMA TakeItemKeeps ==
    ASSUME NEW x \in HandleRecord, HandleOK(x), x.tcp # "closed", HasItem(x)
    PROVE  /\ TakeItem(x) \in HandleRecord /\ HandleOK(TakeItem(x))
           /\ TakeItem(x).pc = x.pc /\ TakeItem(x).then = x.then /\ TakeItem(x).tcp = x.tcp
           /\ TakeItem(x).flyReads = x.flyReads
<1> DEFINE y == TakeItem(x)
<1>1. x.in # <<>> /\ Head(x.in) \in Record /\ Tail(x.in) \in Seq(Record)
        /\ Append(x.landReads, Head(x.in)) \in Seq(Record)
  BY DEF HasItem, HandleRecord
<1>2. y \in HandleRecord
  BY <1>1 DEF TakeItem, HandleRecord
<1>3. /\ y.pc = x.pc /\ y.then = x.then /\ y.tcp = x.tcp /\ y.cont = x.cont
      /\ y.connects = x.connects /\ y.up = x.up /\ y.flyWrites = x.flyWrites
      /\ y.flyReads = x.flyReads /\ y.landWrites = x.landWrites
      /\ y.mFlag = x.mFlag /\ y.commit = x.commit /\ y.out = x.out
      /\ y.write = x.write /\ y.eof = x.eof
  BY DEF TakeItem, HandleRecord
<1> HIDE DEF y
<1>4. HandleOK(y)
  BY <1>3 DEF HandleOK, Stage
<1> QED BY <1>2, <1>3, <1>4 DEF y

\* A socket that is open or broken stays so.
LEMMA CloseSocketKeeps ==
    ASSUME NEW x \in HandleRecord, HandleOK(x)
    PROVE  /\ CloseSocket(x) \in HandleRecord /\ HandleOK(CloseSocket(x))
           /\ CloseSocket(x).pc = x.pc /\ CloseSocket(x).then = x.then
           /\ CloseSocket(x).tcp = "closed" <=> x.tcp = "closed"
           /\ CloseSocket(x).flyReads = x.flyReads
           /\ CloseSocket(x).landReads = x.landReads
<1> DEFINE y == CloseSocket(x)
           z == [x EXCEPT !.tcp = "broken"]
<1>1. CASE x.tcp = "open"
  <2>1. y = z
    BY <1>1 DEF CloseSocket
  <2>2. z \in HandleRecord
    BY DEF HandleRecord
  <2>3. /\ z.pc = x.pc /\ z.then = x.then /\ z.tcp = "broken" /\ z.cont = x.cont
        /\ z.connects = x.connects /\ z.up = x.up /\ z.flyWrites = x.flyWrites
        /\ z.flyReads = x.flyReads /\ z.landWrites = x.landWrites /\ z.landReads = x.landReads
        /\ z.mFlag = x.mFlag /\ z.commit = x.commit /\ z.out = x.out
        /\ z.write = x.write /\ z.eof = x.eof
    BY DEF HandleRecord
  <2> HIDE DEF z
  <2>4. HandleOK(z)
    BY <1>1, <2>3 DEF HandleOK, Stage
  <2> QED BY <1>1, <2>1, <2>2, <2>3, <2>4
<1>2. CASE x.tcp # "open"
  BY <1>2 DEF CloseSocket
<1> QED BY <1>1, <1>2

-----------------------------------------------------------------------------
(* The steps.                                                              *)

\* A step changes one handle; the other is what it was.
LEMMA SetKeeps ==
    ASSUME TlsInv, NEW e \in Side, NEW y \in HandleRecord, HandleOK(y), Set(e, y),
           wire' \in [Side -> Seq(Record)], put' \in [Side -> Seq(Record)],
           got' \in [Side -> Seq(Record)]
    PROVE  TlsInv'
<1>1. hnd' \in [Side -> HandleRecord]
  BY DEF TlsInv, TlsTypeOK, Set
<1>2. \A f \in Side : HandleOK(hnd'[f])
  BY DEF TlsInv, TlsTypeOK, Set
<1> QED BY <1>1, <1>2 DEF TlsInv, TlsTypeOK

\* Two handles as they are made.
LEMMA TlsStarts == TlsInit => TlsInv
<1> SUFFICES ASSUME TlsInit PROVE TlsInv
  OBVIOUS
<1>1. \A b \in BOOLEAN : NewHandle(b) \in HandleRecord
  <2> SUFFICES ASSUME NEW b \in BOOLEAN PROVE NewHandle(b) \in HandleRecord
    OBVIOUS
  <2>1. <<>> \in Seq(Record) /\ <<Connect>> \in Seq(Record)
    BY OthersAreRecords
  <2> QED BY <2>1 DEF NewHandle, HandleRecord, Transfer, Stages, Flights
<1>2. \A b \in BOOLEAN : HandleOK(NewHandle(b))
  BY DEF NewHandle, HandleOK, Stage, Ends
<1>3. \A e \in Side : NewHandle(e = "client") \in HandleRecord /\ HandleOK(NewHandle(e = "client"))
  <2> SUFFICES ASSUME NEW e \in Side
               PROVE  NewHandle(e = "client") \in HandleRecord /\ HandleOK(NewHandle(e = "client"))
    OBVIOUS
  <2> DEFINE b == e = "client"
  <2>1. b \in BOOLEAN
    OBVIOUS
  <2> HIDE DEF b
  <2>2. NewHandle(b) \in HandleRecord /\ HandleOK(NewHandle(b))
    BY <1>1, <1>2, <2>1
  <2> QED BY <2>2 DEF b
<1>4. hnd \in [Side -> HandleRecord] /\ \A e \in Side : HandleOK(hnd[e])
  BY <1>3 DEF TlsInit
<1>5. wire \in [Side -> Seq(Record)] /\ put = wire /\ got = wire
  BY DEF TlsInit
<1> QED BY <1>4, <1>5 DEF TlsInv, TlsTypeOK

\* Calls of the application.
LEMMA CallsKeep ==
    ASSUME TlsInv, NEW e \in Side, Calls(e)
    PROVE  TlsInv'
<1> DEFINE x == hnd[e]
<1>x. x \in HandleRecord /\ HandleOK(x)
  BY DEF TlsInv, TlsTypeOK
<1>n. NodeSize \in Nat
  BY TlsConstants DEF TlsConstants
<1> HIDE DEF x
<1>1. CASE Read(e)
  <2>0. Free(x) /\ x.mFlag /\ UNCHANGED <<wire, put, got>>
    BY <1>1 DEF Read, x
  <2>1. x.tcp # "closed"
    BY <1>x, <2>0 DEF HandleOK
  <2> DEFINE z == [x EXCEPT !.flyReads = @ + 1]
             y == IF x.flyReads = 0 /\ HasItem(x) THEN TakeItem(x) ELSE z
  <2>2. z \in HandleRecord
    <3>1. x.flyReads + 1 \in Nat
      BY <1>x DEF HandleRecord
    <3> QED BY <1>x, <3>1 DEF HandleRecord
  <2>3. HandleOK(z)
    <3>1. /\ z.pc = x.pc /\ z.then = x.then /\ z.tcp = x.tcp /\ z.cont = x.cont
          /\ z.connects = x.connects /\ z.up = x.up /\ z.flyWrites = x.flyWrites
          /\ z.landReads = x.landReads /\ z.landWrites = x.landWrites
          /\ z.mFlag = x.mFlag /\ z.commit = x.commit /\ z.out = x.out
          /\ z.write = x.write /\ z.eof = x.eof
      BY <1>x DEF HandleRecord
    <3> HIDE DEF z
    <3> QED BY <1>x, <2>1, <3>1 DEF HandleOK, Stage, Ends
  <2> HIDE DEF z
  <2>4. y \in HandleRecord /\ HandleOK(y)
    BY <1>x, <2>1, <2>2, <2>3, TakeItemKeeps
  <2>5. Set(e, PostRead(y))
    BY <1>1 DEF Read, x, z
  <2> HIDE DEF y
  <2>6. PostRead(y) \in HandleRecord /\ HandleOK(PostRead(y))
    BY <2>4, PostReadKeeps
  <2>7. wire' \in [Side -> Seq(Record)] /\ put' \in [Side -> Seq(Record)] /\ got' \in [Side -> Seq(Record)]
    BY <2>0 DEF TlsInv, TlsTypeOK
  <2> QED BY <2>5, <2>6, <2>7, SetKeeps
<1>2. CASE Write(e)
  <2> DEFINE w == Data(x.wrote + 1)
             y == [x EXCEPT !.wrote = @ + 1]
             waits == [y EXCEPT !.flyWrites = Append(@, w)]
             goes == [y EXCEPT !.out = Append(@, w), !.landWrites = @ + 1]
  <2>0. Free(x) /\ x.mFlag /\ UNCHANGED <<wire, got>>
    BY <1>2 DEF Write, x
  <2>1. x.tcp # "closed"
    BY <1>x, <2>0 DEF HandleOK
  <2>2. w \in Record
    BY <1>x, FlightIsRecord DEF HandleRecord
  <2>3. \/ Set(e, PostWrite(waits)) /\ UNCHANGED put
        \/ Set(e, PostWrite(goes)) /\ put' = [put EXCEPT ![e] = Append(@, w)]
    BY <1>2 DEF Write, x
  <2> HIDE DEF w
  <2>t. /\ x.flyWrites \in Seq(Record) /\ x.out \in Seq(Record) /\ x.commit \in Nat
        /\ x.wrote + 1 \in Nat /\ x.landWrites + 1 \in Nat
    BY <1>x DEF HandleRecord
  <2>4. /\ Append(x.flyWrites, w) \in Seq(Record) /\ Append(x.flyWrites, w) # <<>>
        /\ Append(x.out, w) \in Seq(Record) /\ Len(Append(x.out, w)) = Len(x.out) + 1
        /\ Len(x.out) \in Nat /\ x.commit \in Nat
    BY <2>2, <2>t
  <2>5. waits = [x EXCEPT !.wrote = @ + 1, !.flyWrites = Append(@, w)]
    BY <1>x DEF HandleRecord
  <2>6. goes = [x EXCEPT !.wrote = @ + 1, !.out = Append(@, w), !.landWrites = @ + 1]
    BY <1>x DEF HandleRecord
  <2> HIDE DEF waits, goes, y
  <2>7. waits \in HandleRecord
    BY <1>x, <2>t, <2>4, <2>5 DEF HandleRecord
  <2>8. goes \in HandleRecord
    BY <1>x, <2>t, <2>4, <2>6 DEF HandleRecord
  <2>9. HandleOK(waits)
    <3>1. /\ waits.pc = x.pc /\ waits.then = x.then /\ waits.tcp = x.tcp /\ waits.cont = x.cont
          /\ waits.flyWrites # <<>> /\ waits.mFlag = x.mFlag /\ waits.write = x.write
          /\ waits.eof = x.eof /\ waits.commit = x.commit
          /\ waits.out = x.out
      BY <1>x, <2>4, <2>5 DEF HandleRecord
    <3> QED BY <1>x, <2>1, <3>1 DEF HandleOK, Stage, Ends
  <2>10. HandleOK(goes)
    <3>1. /\ goes.pc = x.pc /\ goes.then = x.then /\ goes.tcp = x.tcp /\ goes.cont = x.cont
          /\ goes.connects = x.connects /\ goes.up = x.up /\ goes.flyWrites = x.flyWrites
          /\ goes.mFlag = x.mFlag /\ goes.write = x.write
          /\ goes.eof = x.eof /\ goes.commit = x.commit
          /\ Len(goes.out) = Len(x.out) + 1
      BY <1>x, <2>4, <2>6 DEF HandleRecord
    <3> QED BY <1>x, <2>1, <2>4, <3>1 DEF HandleOK, Stage, Ends
  <2>11. PostWrite(waits) \in HandleRecord /\ HandleOK(PostWrite(waits))
    BY <1>n, <2>7, <2>9, PostWriteKeeps
  <2>12. PostWrite(goes) \in HandleRecord /\ HandleOK(PostWrite(goes))
    BY <1>n, <2>8, <2>10, PostWriteKeeps
  <2>13. wire' \in [Side -> Seq(Record)] /\ put' \in [Side -> Seq(Record)] /\ got' \in [Side -> Seq(Record)]
    <3>1. put \in [Side -> Seq(Record)] /\ Append(put[e], w) \in Seq(Record)
      BY <2>2 DEF TlsInv, TlsTypeOK
    <3> QED BY <2>0, <2>3, <3>1 DEF TlsInv, TlsTypeOK
  <2>14. CASE Set(e, PostWrite(waits))
    BY <2>11, <2>13, <2>14, SetKeeps
  <2>15. CASE Set(e, PostWrite(goes))
    BY <2>12, <2>13, <2>15, SetKeeps
  <2> QED BY <2>3, <2>14, <2>15
<1>3. CASE Close(e)
  <2> DEFINE y == [x EXCEPT !.tcp = "closing"]
  <2>0. x.tcp # "closed" /\ UNCHANGED <<wire, put, got>> /\ Set(e, y)
    BY <1>3 DEF Close, x
  <2>1. y \in HandleRecord
    BY <1>x DEF HandleRecord
  <2>2. /\ y.pc = x.pc /\ y.then = x.then /\ y.tcp = "closing" /\ y.cont = x.cont
        /\ y.connects = x.connects /\ y.up = x.up /\ y.flyWrites = x.flyWrites
        /\ y.commit = x.commit /\ y.out = x.out /\ y.write = x.write /\ y.eof = x.eof
        /\ y.landReads = x.landReads /\ y.landWrites = x.landWrites
    BY <1>x DEF HandleRecord
  <2> HIDE DEF y
  <2>3. HandleOK(y)
    BY <1>x, <2>0, <2>2 DEF HandleOK, Stage, Ends
  <2>4. wire' \in [Side -> Seq(Record)] /\ put' \in [Side -> Seq(Record)] /\ got' \in [Side -> Seq(Record)]
    BY <2>0 DEF TlsInv, TlsTypeOK
  <2> QED BY <2>0, <2>1, <2>3, <2>4, SetKeeps
<1>4. CASE SayBye(e)
  <2> DEFINE y == [x EXCEPT !.out = Append(@, Bye), !.wrote = Items[e]]
  <2>0. x.tcp # "closed" /\ UNCHANGED <<wire, put, got>> /\ Set(e, PostWrite(y))
    BY <1>4 DEF SayBye, x, Open
  <2>1. /\ Append(x.out, Bye) \in Seq(Record) /\ Len(Append(x.out, Bye)) = Len(x.out) + 1
        /\ Len(x.out) \in Nat /\ x.commit \in Nat /\ Items[e] \in Nat
    BY <1>x, OthersAreRecords, TlsConstants DEF HandleRecord, TlsConstants, Side
  <2>2. y \in HandleRecord
    BY <1>x, <2>1 DEF HandleRecord
  <2>3. Alike(y, x) /\ Len(y.out) = Len(x.out) + 1 /\ y.commit = x.commit
          /\ y.write = x.write /\ y.eof = x.eof /\ y.mFlag = x.mFlag
    BY <1>x, <2>1 DEF HandleRecord, Alike
  <2> HIDE DEF y
  <2>4. HandleOK(y)
    BY <1>x, <2>0, <2>1, <2>3, AlikeIsOK DEF HandleOK, Alike, Stage
  <2>5. PostWrite(y) \in HandleRecord /\ HandleOK(PostWrite(y))
    BY <1>n, <2>2, <2>4, PostWriteKeeps
  <2>6. wire' \in [Side -> Seq(Record)] /\ put' \in [Side -> Seq(Record)] /\ got' \in [Side -> Seq(Record)]
    BY <2>0 DEF TlsInv, TlsTypeOK
  <2> QED BY <2>0, <2>5, <2>6, SetKeeps
<1> QED BY <1>1, <1>2, <1>3, <1>4 DEF Calls

\* The connection is made, or not; the handle's transfers begin.
LEMMA ConnectingKeeps ==
    ASSUME TlsInv, NEW e \in Side,
           Connected(e) \/ ConnectFails(e) \/ HelloDone(e)
    PROVE  TlsInv'
<1> DEFINE x == hnd[e]
<1>x. x \in HandleRecord /\ HandleOK(x)
  BY DEF TlsInv, TlsTypeOK
<1>n. NodeSize \in Nat
  BY TlsConstants DEF TlsConstants
<1>t. /\ hnd \in [Side -> HandleRecord] /\ wire \in [Side -> Seq(Record)]
      /\ put \in [Side -> Seq(Record)] /\ got \in [Side -> Seq(Record)]
  BY DEF TlsInv, TlsTypeOK
<1> HIDE DEF x
<1>1. CASE Connected(e)
  <2> DEFINE y == [x EXCEPT !.tcp = "open", !.write = "no"]
             z == CopyFlag(y)
             r == PostRead(z)
  <2>0. x.pc = "idle" /\ x.tcp = "connecting" /\ Set(e, Handshake(r)) /\ UNCHANGED <<wire, put, got>>
    BY <1>1 DEF Connected, x
  <2>1. y \in HandleRecord
    BY <1>x DEF HandleRecord, Transfer
  <2>2. HandleOK(y)
    BY <1>x, <2>0 DEF HandleRecord, HandleOK, Stage, Ends
  <2> HIDE DEF y
  <2>3. z \in HandleRecord /\ HandleOK(z)
    BY <2>1, <2>2, CopyFlagKeeps
  <2> HIDE DEF z
  <2>4. r \in HandleRecord /\ HandleOK(r)
    BY <2>3, PostReadKeeps
  <2> HIDE DEF r
  <2>5. Handshake(r) \in HandleRecord /\ HandleOK(Handshake(r))
    BY <1>n, <2>4, HandshakeKeeps
  <2> QED BY <1>t, <2>0, <2>5, SetKeeps
<1>2. CASE ConnectFails(e)
  <2> DEFINE y == [x EXCEPT !.tcp = "closing", !.write = "no"]
  <2>0. x.pc = "idle" /\ x.tcp = "connecting" /\ Set(e, CopyFlag(y)) /\ UNCHANGED <<wire, put, got>>
    BY <1>2 DEF ConnectFails, x
  <2>1. y \in HandleRecord
    BY <1>x DEF HandleRecord, Transfer
  <2>2. HandleOK(y)
    BY <1>x, <2>0 DEF HandleRecord, HandleOK, Stage, Ends
  <2> HIDE DEF y
  <2>3. CopyFlag(y) \in HandleRecord /\ HandleOK(CopyFlag(y))
    BY <2>1, <2>2, CopyFlagKeeps
  <2> QED BY <1>t, <2>0, <2>3, SetKeeps
<1>3. CASE HelloDone(e)
  <2> DEFINE z == [x EXCEPT !.pc = "idle"]
             y == PostRead(z)
  <2>0. x.pc = "hello" /\ UNCHANGED <<wire, put, got>> /\ (Set(e, CopyFlag(y)) \/ Set(e, y))
    BY <1>3 DEF HelloDone, x
  <2>1. z \in HandleRecord
    BY <1>x DEF HandleRecord, Stages
  <2>2. HandleOK(z)
    BY <1>x, <2>0 DEF HandleRecord, HandleOK, Stage, Ends
  <2> HIDE DEF z
  <2>3. y \in HandleRecord /\ HandleOK(y)
    BY <2>1, <2>2, PostReadKeeps
  <2> HIDE DEF y
  <2>4. CopyFlag(y) \in HandleRecord /\ HandleOK(CopyFlag(y))
    BY <2>3, CopyFlagKeeps
  <2> QED BY <1>t, <2>0, <2>3, <2>4, SetKeeps
<1> QED BY <1>1, <1>2, <1>3

\* The records that have come, before both sides may talk.
LEMMA HelloReadKeeps ==
    ASSUME NEW x \in HandleRecord, HandleOK(x), x.pc = "idle", x.tcp = "open", ~x.up
    PROVE  HelloRead(x) \in HandleRecord /\ HandleOK(HelloRead(x))
<1> DEFINE r == [x EXCEPT !.read = "no"]
           y == Handshake(r)
           c == [y EXCEPT !.up = TRUE, !.flyWrites = Tail(@), !.pc = "call", !.then = "hello"]
           a == [y EXCEPT !.up = TRUE, !.pc = "pop", !.more = TRUE, !.cont = "hello"]
<1>n. NodeSize \in Nat
  BY TlsConstants DEF TlsConstants
<1>1. r \in HandleRecord /\ Alike(r, x) /\ r.commit = x.commit /\ r.out = x.out /\ r.mFlag = x.mFlag /\ r.write = x.write /\ r.eof = x.eof
  BY DEF HandleRecord, Transfer, Alike
<1> HIDE DEF r
<1>2. HandleOK(r)
  BY <1>1, AlikeIsOK DEF HandleOK, Alike, Stage
<1>3. y \in HandleRecord /\ HandleOK(y) /\ Alike(y, r)
  BY <1>n, <1>1, <1>2, HandshakeKeeps
<1> HIDE DEF y
<1>4. y.pc = "idle" /\ y.tcp = "open" /\ ~y.up
  BY <1>1, <1>3 DEF Alike
<1>5. PostRead(y) \in HandleRecord /\ HandleOK(PostRead(y))
  BY <1>3, PostReadKeeps
<1>6. ASSUME y.connects PROVE c \in HandleRecord /\ HandleOK(c)
  <2>1. y.flyWrites # <<>> /\ y.flyWrites \in Seq(Record)
    BY <1>3, <1>4, <1>6 DEF HandleOK, HandleRecord
  <2>2. Tail(y.flyWrites) \in Seq(Record)
    BY <2>1
  <2>3. c \in HandleRecord
    BY <1>3, <2>2 DEF HandleRecord, Stages
  <2>4. HandleOK(c)
    BY <1>3, <1>4 DEF HandleRecord, HandleOK, Stage, Ends
  <2> QED BY <2>3, <2>4
<1>7. a \in HandleRecord
  BY <1>3 DEF HandleRecord, Stages
<1>8. HandleOK(a)
  BY <1>3, <1>4 DEF HandleRecord, HandleOK, Stage, Ends
<1>9. \/ HelloRead(x) = PostRead(y)
      \/ y.connects /\ HelloRead(x) = c
      \/ HelloRead(x) = a
  BY DEF HelloRead, y, r
<1> HIDE DEF a, c
<1> QED BY <1>5, <1>6, <1>7, <1>8, <1>9

\* A session that is refused.
LEMMA HelloRefusedKeeps ==
    ASSUME NEW x \in HandleRecord, HandleOK(x)
    PROVE  HelloRefused(x) \in HandleRecord /\ HandleOK(HelloRefused(x))
<1> DEFINE r == [x EXCEPT !.read = "no", !.bad = TRUE]
           y == CloseSocket(r)
<1>1. r \in HandleRecord /\ Alike(r, x) /\ r.commit = x.commit /\ r.out = x.out /\ r.mFlag = x.mFlag /\ r.write = x.write /\ r.eof = x.eof
  BY DEF HandleRecord, Transfer, Alike
<1> HIDE DEF r
<1>2. HandleOK(r)
  BY <1>1, AlikeIsOK DEF HandleOK, Alike, Stage
<1>3. y \in HandleRecord /\ HandleOK(y)
  BY <1>1, <1>2, CloseSocketKeeps
<1> HIDE DEF y
<1> QED BY <1>3, PostReadKeeps DEF HelloRefused, y, r

\* Records arrive.
LEMMA TcpReadKeeps ==
    ASSUME TlsInv, NEW e \in Side, TcpRead(e)
    PROVE  TlsInv'
<1>t. /\ hnd \in [Side -> HandleRecord] /\ wire \in [Side -> Seq(Record)]
      /\ put \in [Side -> Seq(Record)] /\ got \in [Side -> Seq(Record)]
  BY DEF TlsInv, TlsTypeOK
<1>p. Peer(e) \in Side
  BY DEF Peer, Side
<1> DEFINE w == wire[Peer(e)]
<1>w. w \in Seq(Record)
  BY <1>t, <1>p
<1>1. PICK n \in 1 .. Len(w) :
        LET x == [hnd[e] EXCEPT !.in = @ \o SubSeq(w, 1, n)] IN
        /\ x.pc = "idle" /\ x.tcp = "open" /\ x.read = "posted"
        /\ wire' = [wire EXCEPT ![Peer(e)] = SubSeq(@, n + 1, Len(@))]
        /\ \/ x.up /\ Set(e, [x EXCEPT !.pc = "pop", !.more = TRUE, !.cont = "read"])
           \/ ~x.up /\ ~x.bad /\ Set(e, HelloRead(x))
           \/ /\ ~x.up /\ Head(x.in) = Flight(x.hs + 1) /\ x.hs + 1 \in BadFlights
              /\ Set(e, HelloRefused(x))
        /\ UNCHANGED <<put, got>>
  BY DEF TcpRead
<1>2. SubSeq(w, 1, n) \in Seq(Record) /\ SubSeq(w, n + 1, Len(w)) \in Seq(Record)
  BY <1>w
<1> DEFINE h == hnd[e]
           x == [h EXCEPT !.in = @ \o SubSeq(w, 1, n)]
           a == [x EXCEPT !.pc = "pop", !.more = TRUE, !.cont = "read"]
<1>h. h \in HandleRecord /\ HandleOK(h)
  BY DEF TlsInv, TlsTypeOK
<1>3. wire' \in [Side -> Seq(Record)]
  BY <1>1, <1>2, <1>t
<1>4. /\ x.pc = "idle" /\ x.tcp = "open" /\ UNCHANGED <<put, got>>
      /\ \/ Set(e, a)
         \/ ~x.up /\ Set(e, HelloRead(x))
         \/ Set(e, HelloRefused(x))
  BY <1>1
<1> HIDE DEF w
<1>5. h.in \o SubSeq(w, 1, n) \in Seq(Record)
  BY <1>2, <1>h DEF HandleRecord
<1> HIDE DEF h
<1>6. x \in HandleRecord /\ Alike(x, h) /\ x.commit = h.commit /\ x.out = h.out /\ x.mFlag = h.mFlag /\ x.write = h.write /\ x.eof = h.eof
  <2>1. x \in HandleRecord
    BY <1>h, <1>5 DEF HandleRecord
  <2>2. Alike(x, h)
    BY <1>h DEF HandleRecord, Alike
  <2> QED BY <1>h, <2>1, <2>2 DEF HandleRecord
<1> HIDE DEF x
<1>7. HandleOK(x)
  BY <1>h, <1>6, AlikeIsOK DEF HandleOK, Alike, Stage
<1>8. a \in HandleRecord
  BY <1>6 DEF HandleRecord, Stages
<1>9. HandleOK(a)
  BY <1>4, <1>6, <1>7 DEF HandleRecord, HandleOK, Stage, Ends
<1> HIDE DEF a
<1>10. CASE Set(e, a)
  BY <1>3, <1>4, <1>8, <1>9, <1>10, <1>t, SetKeeps
<1>11. CASE ~x.up /\ Set(e, HelloRead(x))
  <2>1. HelloRead(x) \in HandleRecord /\ HandleOK(HelloRead(x))
    BY <1>4, <1>6, <1>7, <1>11, HelloReadKeeps
  <2> QED BY <1>3, <1>4, <1>11, <1>t, <2>1, SetKeeps
<1>12. CASE Set(e, HelloRefused(x))
  <2>1. HelloRefused(x) \in HandleRecord /\ HandleOK(HelloRefused(x))
    BY <1>6, <1>7, HelloRefusedKeeps
  <2> QED BY <1>3, <1>4, <1>12, <1>t, <2>1, SetKeeps
<1> QED BY <1>4, <1>10, <1>11, <1>12

\* Records are sent.
LEMMA TcpWriteKeeps ==
    ASSUME TlsInv, NEW e \in Side, TcpWrite(e)
    PROVE  TlsInv'
<1> DEFINE x == hnd[e]
<1>x. x \in HandleRecord /\ HandleOK(x)
  BY DEF TlsInv, TlsTypeOK
<1>n. NodeSize \in Nat
  BY TlsConstants DEF TlsConstants
<1>t. /\ hnd \in [Side -> HandleRecord] /\ wire \in [Side -> Seq(Record)]
      /\ put \in [Side -> Seq(Record)] /\ got \in [Side -> Seq(Record)]
  BY DEF TlsInv, TlsTypeOK
<1> HIDE DEF x
<1> DEFINE u == [x EXCEPT !.pc = "written", !.cont = "written"]
<1>1. /\ x.pc = "idle" /\ x.tcp = "open" /\ x.write = "posted" /\ UNCHANGED <<put, got>>
      /\ \/ wire' = wire
         \/ wire' = [wire EXCEPT ![e] = @ \o SubSeq(x.out, 1, x.commit)]
      /\ Set(e, u) \/ Set(e, Commit(x)) \/ Set(e, Handshake(Commit(x)))
  BY DEF TcpWrite, x
<1>2. wire' \in [Side -> Seq(Record)]
  <2>1. x.out \in Seq(Record) /\ x.commit \in Nat /\ x.commit <= Len(x.out)
    BY <1>x, <1>1 DEF HandleRecord, HandleOK
  <2>2. SubSeq(x.out, 1, x.commit) \in Seq(Record)
    BY <2>1
  <2>3. wire[e] \o SubSeq(x.out, 1, x.commit) \in Seq(Record)
    BY <1>t, <2>2
  <2> QED BY <1>1, <1>t, <2>3
<1>3. u \in HandleRecord
  BY <1>x DEF HandleRecord, Stages
<1>4. HandleOK(u)
  BY <1>x, <1>1 DEF HandleRecord, HandleOK, Stage, Ends
<1> HIDE DEF u
<1>5. Commit(x) \in HandleRecord /\ HandleOK(Commit(x))
  BY <1>x, <1>1, CommitKeeps DEF Stage
<1>6. Handshake(Commit(x)) \in HandleRecord /\ HandleOK(Handshake(Commit(x)))
  BY <1>5, <1>n, HandshakeKeeps
<1> QED BY <1>1, <1>2, <1>3, <1>4, <1>5, <1>6, <1>t, SetKeeps

\* The connection ends.
LEMMA LostKeeps ==
    ASSUME TlsInv, NEW e \in Side,
           TcpLost(e) \/ SocketFails(e) \/ TcpReadFails(e) \/ TcpWriteFails(e)
    PROVE  TlsInv'
<1> DEFINE x == hnd[e]
<1>x. x \in HandleRecord /\ HandleOK(x)
  BY DEF TlsInv, TlsTypeOK
<1>n. NodeSize \in Nat
  BY TlsConstants DEF TlsConstants
<1>t. /\ hnd \in [Side -> HandleRecord] /\ wire \in [Side -> Seq(Record)]
      /\ put \in [Side -> Seq(Record)] /\ got \in [Side -> Seq(Record)]
  BY DEF TlsInv, TlsTypeOK
<1> HIDE DEF x
<1>1. CASE TcpLost(e) \/ SocketFails(e)
  <2> DEFINE y == [x EXCEPT !.tcp = "closing"]
  <2>0. x.pc = "idle" /\ UNCHANGED <<wire, put, got>> /\ Set(e, y)
    BY <1>1 DEF TcpLost, SocketFails, x
  <2>1. y \in HandleRecord
    BY <1>x DEF HandleRecord
  <2>2. HandleOK(y)
    BY <1>x, <2>0 DEF HandleRecord, HandleOK, Stage, Ends
  <2> QED BY <1>t, <2>0, <2>1, <2>2, SetKeeps
<1>2. CASE TcpReadFails(e)
  <2> DEFINE y == CopyFlag(x)
             z == [y EXCEPT !.read = "dead", !.eof = TRUE]
             a == [z EXCEPT !.pc = "pop", !.more = TRUE, !.cont = "end"]
  <2>0. z.pc = "idle" /\ z.tcp = "closing" /\ UNCHANGED <<wire, put, got>> /\ (Set(e, a) \/ Set(e, z))
    BY <1>2 DEF TcpReadFails, x
  <2>1. y \in HandleRecord /\ HandleOK(y)
    BY <1>x, CopyFlagKeeps
  <2> HIDE DEF y
  <2>2. z \in HandleRecord /\ Alike(z, y) /\ z.commit = y.commit /\ z.out = y.out /\ z.mFlag = y.mFlag
        /\ z.write = y.write
    BY <2>1 DEF HandleRecord, Transfer, Alike
  <2> HIDE DEF z
  <2>3. HandleOK(z)
    BY <2>0, <2>1, <2>2, AlikeIsOK DEF HandleOK, Alike, Stage
  <2>4. a \in HandleRecord
    BY <2>2 DEF HandleRecord, Stages
  <2>5. HandleOK(a)
    BY <2>0, <2>2, <2>3 DEF HandleRecord, HandleOK, Stage, Ends
  <2> HIDE DEF a
  <2> QED BY <1>t, <2>0, <2>2, <2>3, <2>4, <2>5, SetKeeps
<1>3. CASE TcpWriteFails(e)
  <2> DEFINE z == [x EXCEPT !.write = "dead"]
             a == [z EXCEPT !.pc = "written", !.cont = "end"]
  <2>0. z.pc = "idle" /\ z.tcp = "closing" /\ UNCHANGED <<wire, put, got>>
          /\ (Set(e, a) \/ Set(e, CopyFlag(z)))
    BY <1>3 DEF TcpWriteFails, x
  <2>1. z \in HandleRecord /\ Alike(z, x) /\ z.commit = x.commit /\ z.out = x.out /\ z.mFlag = x.mFlag
        /\ z.write # "no" /\ z.eof = x.eof
    BY <1>x DEF HandleRecord, Transfer, Alike
  <2> HIDE DEF z
  <2>2. HandleOK(z)
    BY <1>x, <2>1, AlikeIsOK DEF HandleOK, Alike, Stage
  <2>3. a \in HandleRecord
    BY <2>1 DEF HandleRecord, Stages
  <2>4. HandleOK(a)
    BY <2>0, <2>1, <2>2 DEF HandleRecord, HandleOK, Stage, Ends
  <2> HIDE DEF a
  <2>5. CopyFlag(z) \in HandleRecord /\ HandleOK(CopyFlag(z))
    BY <2>1, <2>2, CopyFlagKeeps
  <2> QED BY <1>t, <2>0, <2>3, <2>4, <2>5, SetKeeps
<1> QED BY <1>1, <1>2, <1>3

\* Reads are given what there is.
LEMMA PopKeeps ==
    ASSUME TlsInv, NEW e \in Side, Pop(e)
    PROVE  TlsInv'
<1> DEFINE x == hnd[e]
<1>x. x \in HandleRecord /\ HandleOK(x)
  BY DEF TlsInv, TlsTypeOK
<1>n. NodeSize \in Nat
  BY TlsConstants DEF TlsConstants
<1>t. /\ hnd \in [Side -> HandleRecord] /\ wire \in [Side -> Seq(Record)]
      /\ put \in [Side -> Seq(Record)] /\ got \in [Side -> Seq(Record)]
  BY DEF TlsInv, TlsTypeOK
<1> HIDE DEF x
<1>0. x.pc = "pop" /\ UNCHANGED <<wire, put, got>>
  BY DEF Pop, x
<1>1. x.tcp # "closed" /\ x.cont \in {"read", "hello", "end"}
  BY <1>x, <1>0 DEF HandleOK, Stage, Ends
<1> DEFINE l == [x EXCEPT !.pc = "land"]
           m == [x EXCEPT !.pc = "land", !.more = FALSE]
           y == TakeItem(x)
           t == [y EXCEPT !.flyReads = @ - 1]
           z == CloseSocket(x)
           c == [z EXCEPT !.flyReads = @ - 1, !.pc = "land", !.more = FALSE,
                          !.landReads = Append(@, None)]
<1>2. \/ Set(e, l) \/ Set(e, m)
      \/ x.flyReads # 0 /\ HasItem(x) /\ Set(e, t)
      \/ x.flyReads # 0 /\ Set(e, c)
  BY DEF Pop, x
<1>3. l \in HandleRecord /\ m \in HandleRecord
  BY <1>x DEF HandleRecord, Stages
<1>4. HandleOK(l)
  BY <1>x, <1>0, <1>1 DEF HandleRecord, HandleOK, Stage, Ends
<1>5. HandleOK(m)
  BY <1>x, <1>0, <1>1 DEF HandleRecord, HandleOK, Stage, Ends
<1>6. ASSUME x.flyReads # 0, HasItem(x) PROVE t \in HandleRecord /\ HandleOK(t)
  <2>1. y \in HandleRecord /\ HandleOK(y) /\ y.pc = "pop" /\ y.flyReads = x.flyReads
    BY <1>x, <1>0, <1>1, <1>6, TakeItemKeeps
  <2> HIDE DEF y
  <2>2. y.flyReads - 1 \in Nat
    BY <1>x, <1>6, <2>1 DEF HandleRecord
  <2>3. t \in HandleRecord
    BY <2>1, <2>2 DEF HandleRecord
  <2>4. HandleOK(t)
    BY <2>1 DEF HandleRecord, HandleOK, Stage, Ends
  <2> QED BY <2>3, <2>4
<1>7. ASSUME x.flyReads # 0 PROVE c \in HandleRecord /\ HandleOK(c)
  <2>1. z \in HandleRecord /\ HandleOK(z) /\ z.pc = "pop" /\ z.flyReads = x.flyReads
    BY <1>x, <1>0, CloseSocketKeeps
  <2> HIDE DEF z
  <2>2. z.flyReads - 1 \in Nat /\ Append(z.landReads, None) \in Seq(Record)
    <3>1. z.landReads \in Seq(Record) /\ z.flyReads \in Nat
      BY <2>1 DEF HandleRecord
    <3> QED BY <1>7, <2>1, <3>1, OthersAreRecords
  <2>3. c \in HandleRecord
    BY <2>1, <2>2 DEF HandleRecord, Stages
  <2>4. HandleOK(c)
    BY <2>1 DEF HandleRecord, HandleOK, Stage, Ends
  <2> QED BY <2>3, <2>4
<1> HIDE DEF l, m, t, c
<1> QED BY <1>t, <1>0, <1>2, <1>3, <1>4, <1>5, <1>6, <1>7, SetKeeps

\* What the application is given.
LEMMA LandedType ==
    ASSUME TlsInv, NEW e \in Side, NEW r \in Record, Landed(e, r)
    PROVE  got' \in [Side -> Seq(Record)]
<1>1. got \in [Side -> Seq(Record)] /\ Append(got[e], r) \in Seq(Record)
  BY DEF TlsInv, TlsTypeOK
<1> QED BY <1>1 DEF Landed

\* The end of doRead().
LEMMA DoneReadingKeeps ==
    ASSUME NEW x \in HandleRecord, HandleOK(x), x.pc = "land"
    PROVE  DoneReading(x) \in HandleRecord /\ HandleOK(DoneReading(x))
<1> DEFINE y == [x EXCEPT !.pc = "idle", !.more = FALSE, !.cont = "none"]
           r == [y EXCEPT !.read = "no"]
           h == [y EXCEPT !.pc = "hello"]
<1>1. x.cont \in {"read", "hello", "end"} /\ x.tcp # "closed"
  BY DEF HandleOK, Stage, Ends
<1>2. y \in HandleRecord
  BY DEF HandleRecord, Stages
<1>3. HandleOK(y)
  BY <1>1 DEF HandleRecord, HandleOK, Stage, Ends
<1>4. y.pc = "idle" /\ y.tcp = x.tcp
  BY DEF HandleRecord
<1>5. DoneReading(x) = PostRead(r) \/ DoneReading(x) = h \/ DoneReading(x) = y
  BY <1>1 DEF DoneReading
<1> HIDE DEF y
<1>6. r \in HandleRecord /\ Alike(r, y) /\ r.commit = y.commit /\ r.out = y.out /\ r.mFlag = y.mFlag /\ r.write = y.write /\ r.eof = y.eof
  BY <1>2 DEF HandleRecord, Transfer, Alike
<1> HIDE DEF r
<1>7. HandleOK(r)
  BY <1>3, <1>6, AlikeIsOK DEF HandleOK, Alike, Stage
<1>8. PostRead(r) \in HandleRecord /\ HandleOK(PostRead(r))
  BY <1>6, <1>7, PostReadKeeps
<1>9. h \in HandleRecord
  BY <1>2 DEF HandleRecord, Stages
<1>10. HandleOK(h)
  BY <1>1, <1>2, <1>3, <1>4 DEF HandleRecord, HandleOK, Stage, Ends
<1> HIDE DEF h
<1> QED BY <1>2, <1>3, <1>5, <1>8, <1>9, <1>10

\* The callbacks of the reads that are ready.
LEMMA LandReadsKeeps ==
    ASSUME TlsInv, NEW e \in Side, LandReads(e)
    PROVE  TlsInv'
<1> DEFINE x == hnd[e]
<1>x. x \in HandleRecord /\ HandleOK(x)
  BY DEF TlsInv, TlsTypeOK
<1>n. NodeSize \in Nat
  BY TlsConstants DEF TlsConstants
<1>t. /\ hnd \in [Side -> HandleRecord] /\ wire \in [Side -> Seq(Record)]
      /\ put \in [Side -> Seq(Record)] /\ got \in [Side -> Seq(Record)]
  BY DEF TlsInv, TlsTypeOK
<1> HIDE DEF x
<1> DEFINE c == [x EXCEPT !.landReads = Tail(@), !.pc = "call", !.then = "land"]
           p == [x EXCEPT !.pc = "pop"]
<1>0. x.pc = "land" /\ UNCHANGED <<wire, put>>
  BY DEF LandReads, x
<1>1. x.tcp # "closed" /\ x.cont \in {"read", "hello", "end"}
  BY <1>x, <1>0 DEF HandleOK, Stage, Ends
<1>2. \/ x.landReads # <<>> /\ Set(e, c) /\ Landed(e, Head(x.landReads))
      \/ (Set(e, p) \/ Set(e, DoneReading(x))) /\ UNCHANGED got
  BY DEF LandReads, x
<1>3. CASE x.landReads # <<>> /\ Set(e, c) /\ Landed(e, Head(x.landReads))
  <2>1. Head(x.landReads) \in Record /\ Tail(x.landReads) \in Seq(Record)
    BY <1>x, <1>3 DEF HandleRecord
  <2>2. c \in HandleRecord
    BY <1>x, <2>1 DEF HandleRecord, Stages
  <2>3. HandleOK(c)
    BY <1>x, <1>0, <1>1 DEF HandleRecord, HandleOK, Stage, Ends
  <2>4. got' \in [Side -> Seq(Record)]
    BY <1>3, <2>1, LandedType
  <2> HIDE DEF c
  <2> QED BY <1>t, <1>0, <1>3, <2>2, <2>3, <2>4, SetKeeps
<1>4. CASE (Set(e, p) \/ Set(e, DoneReading(x))) /\ UNCHANGED got
  <2>1. p \in HandleRecord
    BY <1>x DEF HandleRecord, Stages
  <2>2. HandleOK(p)
    BY <1>x, <1>0, <1>1 DEF HandleRecord, HandleOK, Stage, Ends
  <2>3. DoneReading(x) \in HandleRecord /\ HandleOK(DoneReading(x))
    BY <1>x, <1>0, DoneReadingKeeps
  <2> HIDE DEF p
  <2> QED BY <1>t, <1>0, <1>4, <2>1, <2>2, <2>3, SetKeeps
<1> QED BY <1>2, <1>3, <1>4

\* onWrite(): the callbacks of what has been written.
LEMMA LandWritesKeeps ==
    ASSUME TlsInv, NEW e \in Side, LandWrites(e)
    PROVE  TlsInv'
<1> DEFINE x == hnd[e]
<1>x. x \in HandleRecord /\ HandleOK(x)
  BY DEF TlsInv, TlsTypeOK
<1>n. NodeSize \in Nat
  BY TlsConstants DEF TlsConstants
<1>t. /\ hnd \in [Side -> HandleRecord] /\ wire \in [Side -> Seq(Record)]
      /\ put \in [Side -> Seq(Record)] /\ got \in [Side -> Seq(Record)]
  BY DEF TlsInv, TlsTypeOK
<1> HIDE DEF x
<1> DEFINE c == [x EXCEPT !.landWrites = @ - 1, !.pc = "call", !.then = "written"]
           i == [x EXCEPT !.pc = "idle", !.cont = "none"]
<1>0. x.pc = "written" /\ UNCHANGED <<wire, put, got>>
  BY DEF LandWrites, x
<1>1. x.tcp # "closed"
  BY <1>x, <1>0 DEF HandleOK, Stage, Ends
<1>2. \/ x.landWrites > 0 /\ Set(e, c)
      \/ Set(e, PostWrite(Commit(i)))
      \/ Set(e, CopyFlag(i))
  BY DEF LandWrites, x
<1>3. i \in HandleRecord
  BY <1>x DEF HandleRecord, Stages
<1>4. HandleOK(i)
  BY <1>x, <1>0, <1>1 DEF HandleRecord, HandleOK, Stage, Ends
<1> HIDE DEF i
<1>c. i.pc = "idle"
  BY <1>x DEF HandleRecord, i
<1>5. Commit(i) \in HandleRecord /\ HandleOK(Commit(i))
  BY <1>3, <1>4, <1>c, CommitKeeps DEF Stage
<1>6. PostWrite(Commit(i)) \in HandleRecord /\ HandleOK(PostWrite(Commit(i)))
  BY <1>5, <1>n, PostWriteKeeps
<1>7. CopyFlag(i) \in HandleRecord /\ HandleOK(CopyFlag(i))
  BY <1>3, <1>4, CopyFlagKeeps
<1>8. ASSUME x.landWrites > 0 PROVE c \in HandleRecord /\ HandleOK(c)
  <2>1. x.landWrites - 1 \in Nat
    BY <1>x, <1>8 DEF HandleRecord
  <2>2. c \in HandleRecord
    BY <1>x, <2>1 DEF HandleRecord, Stages
  <2>3. HandleOK(c)
    BY <1>x, <1>0, <1>1 DEF HandleRecord, HandleOK, Stage, Ends
  <2> QED BY <2>2, <2>3
<1> HIDE DEF c
<1> QED BY <1>t, <1>0, <1>2, <1>6, <1>7, <1>8, SetKeeps

\* onClose(): the flag first, then each queue in turn.
LEMMA TcpClosedKeeps ==
    ASSUME TlsInv, NEW e \in Side, TcpClosed(e)
    PROVE  TlsInv'
<1> DEFINE x == hnd[e]
<1>x. x \in HandleRecord /\ HandleOK(x)
  BY DEF TlsInv, TlsTypeOK
<1>n. NodeSize \in Nat
  BY TlsConstants DEF TlsConstants
<1>t. /\ hnd \in [Side -> HandleRecord] /\ wire \in [Side -> Seq(Record)]
      /\ put \in [Side -> Seq(Record)] /\ got \in [Side -> Seq(Record)]
  BY DEF TlsInv, TlsTypeOK
<1> HIDE DEF x
<1> DEFINE z == [x EXCEPT !.tcp = "closed", !.pc = "end1"]
           y == CopyFlag(z)
<1>1. /\ x.pc = "idle" /\ UNCHANGED <<put, got>> /\ Set(e, y)
      /\ wire' = [wire EXCEPT ![Peer(e)] = <<>>]
  BY DEF TcpClosed, ClosingFlag, x
<1>2. z \in HandleRecord /\ z.tcp = "closed" /\ z.pc = "end1"
  BY <1>x DEF HandleRecord, Stages
<1>3. y = [z EXCEPT !.mFlag = FALSE]
  <2>1. Open(z) = FALSE
    BY <1>2 DEF Open
  <2> HIDE DEF z
  <2> QED BY <2>1 DEF CopyFlag
<1> HIDE DEF y
<1>4. y = [x EXCEPT !.tcp = "closed", !.pc = "end1", !.mFlag = FALSE]
  BY <1>x, <1>3 DEF HandleRecord
<1>5. y \in HandleRecord
  BY <1>2, <1>3 DEF HandleRecord
<1>6. HandleOK(y)
  BY <1>x, <1>1, <1>4 DEF HandleRecord, HandleOK, Stage, Ends
<1>7. wire' \in [Side -> Seq(Record)]
  <2>1. <<>> \in Seq(Record)
    OBVIOUS
  <2> QED BY <1>t, <1>1, <2>1
<1> QED BY <1>t, <1>1, <1>5, <1>6, <1>7, SetKeeps

\* onClose(): the reads that were ready.
LEMMA EndReadsKeeps ==
    ASSUME TlsInv, NEW e \in Side, EndReads(e)
    PROVE  TlsInv'
<1> DEFINE x == hnd[e]
<1>x. x \in HandleRecord /\ HandleOK(x)
  BY DEF TlsInv, TlsTypeOK
<1>n. NodeSize \in Nat
  BY TlsConstants DEF TlsConstants
<1>t. /\ hnd \in [Side -> HandleRecord] /\ wire \in [Side -> Seq(Record)]
      /\ put \in [Side -> Seq(Record)] /\ got \in [Side -> Seq(Record)]
  BY DEF TlsInv, TlsTypeOK
<1> HIDE DEF x
<1> DEFINE c == [x EXCEPT !.landReads = Tail(@), !.pc = "call", !.then = "end1"]
           n == [x EXCEPT !.pc = "end2"]
<1>0. x.pc = "end1" /\ UNCHANGED <<wire, put>>
  BY DEF EndReads, x
<1>1. x.tcp = "closed" /\ ~x.mFlag
  BY <1>x, <1>0 DEF HandleOK, Stage, Ends
<1>2. \/ x.landReads # <<>> /\ Set(e, c) /\ Landed(e, Head(x.landReads))
      \/ x.landReads = <<>> /\ Set(e, n) /\ UNCHANGED got
  BY DEF EndReads, x
<1>3. CASE x.landReads # <<>> /\ Set(e, c) /\ Landed(e, Head(x.landReads))
  <2>1. Head(x.landReads) \in Record /\ Tail(x.landReads) \in Seq(Record)
    BY <1>x, <1>3 DEF HandleRecord
  <2>2. c \in HandleRecord
    BY <1>x, <2>1 DEF HandleRecord, Stages
  <2>3. HandleOK(c)
    BY <1>x, <1>0, <1>1 DEF HandleRecord, HandleOK, Stage, Ends
  <2>4. got' \in [Side -> Seq(Record)]
    BY <1>3, <2>1, LandedType
  <2> HIDE DEF c
  <2> QED BY <1>t, <1>0, <1>3, <2>2, <2>3, <2>4, SetKeeps
<1>4. CASE x.landReads = <<>> /\ Set(e, n) /\ UNCHANGED got
  <2>1. n \in HandleRecord
    BY <1>x DEF HandleRecord, Stages
  <2>2. HandleOK(n)
    BY <1>x, <1>0, <1>1, <1>4 DEF HandleRecord, HandleOK, Stage, Ends
  <2> HIDE DEF n
  <2> QED BY <1>t, <1>0, <1>4, <2>1, <2>2, SetKeeps
<1> QED BY <1>2, <1>3, <1>4

\* onClose(): the other queues, and at last the buffers.
LEMMA EndQueuesKeeps ==
    ASSUME TlsInv, NEW e \in Side, EndQueues(e)
    PROVE  TlsInv'
<1> DEFINE x == hnd[e]
<1>x. x \in HandleRecord /\ HandleOK(x)
  BY DEF TlsInv, TlsTypeOK
<1>n. NodeSize \in Nat
  BY TlsConstants DEF TlsConstants
<1>t. /\ hnd \in [Side -> HandleRecord] /\ wire \in [Side -> Seq(Record)]
      /\ put \in [Side -> Seq(Record)] /\ got \in [Side -> Seq(Record)]
  BY DEF TlsInv, TlsTypeOK
<1> HIDE DEF x
<1>0. UNCHANGED <<wire, put, got>> /\ x.pc \in {"end2", "end3", "end4"}
  BY DEF EndQueues, x
<1>1. x.tcp = "closed" /\ ~x.mFlag /\ x.landReads = <<>>
  BY <1>x, <1>0 DEF HandleOK, Stage, Ends
<1>2. x.landWrites \in Nat /\ x.flyReads \in Nat /\ x.flyWrites \in Seq(Record)
  BY <1>x DEF HandleRecord
<1>3. CASE x.pc = "end2"
  <2> DEFINE c == [x EXCEPT !.landWrites = @ - 1, !.pc = "call", !.then = "end2"]
             n == [x EXCEPT !.pc = "end3"]
  <2>1. (x.landWrites > 0 /\ Set(e, c)) \/ (x.landWrites = 0 /\ Set(e, n))
    <3> DEFINE y == IF x.landWrites > 0 THEN c ELSE n
    <3>1. Set(e, y)
      BY <1>3 DEF EndQueues, x
    <3> HIDE DEF c, n
    <3>2. (x.landWrites > 0 /\ y = c) \/ (x.landWrites = 0 /\ y = n)
      BY <1>2
    <3> QED BY <3>1, <3>2
  <2>2. ASSUME x.landWrites > 0 PROVE c \in HandleRecord /\ HandleOK(c)
    <3>1. x.landWrites - 1 \in Nat
      BY <1>2, <2>2
    <3>2. c \in HandleRecord
      BY <1>x, <3>1 DEF HandleRecord, Stages
    <3>3. HandleOK(c)
      BY <1>x, <1>1, <1>3 DEF HandleRecord, HandleOK, Stage, Ends
    <3> QED BY <3>2, <3>3
  <2>3. ASSUME x.landWrites = 0 PROVE n \in HandleRecord /\ HandleOK(n)
    <3>1. n \in HandleRecord
      BY <1>x DEF HandleRecord, Stages
    <3>2. HandleOK(n)
      BY <1>x, <1>1, <1>3, <2>3 DEF HandleRecord, HandleOK, Stage, Ends
    <3> QED BY <3>1, <3>2
  <2> HIDE DEF c, n
  <2> QED BY <1>t, <1>0, <2>1, <2>2, <2>3, SetKeeps
<1>4. CASE x.pc = "end3"
  <2> DEFINE c == [x EXCEPT !.flyWrites = Tail(@), !.pc = "call", !.then = "end3"]
             n == [x EXCEPT !.pc = "end4"]
  <2>1. (x.flyWrites # <<>> /\ Set(e, c)) \/ (x.flyWrites = <<>> /\ Set(e, n))
    <3> DEFINE y == IF x.flyWrites # <<>> THEN c ELSE n
    <3>1. Set(e, y)
      BY <1>4 DEF EndQueues, x
    <3> HIDE DEF c, n
    <3>2. (x.flyWrites # <<>> /\ y = c) \/ (x.flyWrites = <<>> /\ y = n)
      OBVIOUS
    <3> QED BY <3>1, <3>2
  <2>2. ASSUME x.flyWrites # <<>> PROVE c \in HandleRecord /\ HandleOK(c)
    <3>1. Tail(x.flyWrites) \in Seq(Record)
      BY <1>2, <2>2
    <3>2. c \in HandleRecord
      BY <1>x, <3>1 DEF HandleRecord, Stages
    <3>3. HandleOK(c)
      BY <1>x, <1>1, <1>4 DEF HandleRecord, HandleOK, Stage, Ends
    <3> QED BY <3>2, <3>3
  <2>3. ASSUME x.flyWrites = <<>> PROVE n \in HandleRecord /\ HandleOK(n)
    <3>1. n \in HandleRecord
      BY <1>x DEF HandleRecord, Stages
    <3>2. HandleOK(n)
      BY <1>x, <1>1, <1>4, <2>3 DEF HandleRecord, HandleOK, Stage, Ends
    <3> QED BY <3>1, <3>2
  <2> HIDE DEF c, n
  <2> QED BY <1>t, <1>0, <2>1, <2>2, <2>3, SetKeeps
<1>5. CASE x.pc = "end4"
  <2> DEFINE c == [x EXCEPT !.flyReads = @ - 1, !.pc = "call", !.then = "end4"]
             n == [x EXCEPT !.pc = "closed", !.in = <<>>, !.out = <<>>]
  <2>1. (x.flyReads > 0 /\ Set(e, c)) \/ (x.flyReads = 0 /\ Set(e, CopyFlag(n)))
    <3> DEFINE y == IF x.flyReads > 0 THEN c ELSE CopyFlag(n)
    <3>1. Set(e, y)
      BY <1>5 DEF EndQueues, x
    <3> HIDE DEF c, n
    <3>2. (x.flyReads > 0 /\ y = c) \/ (x.flyReads = 0 /\ y = CopyFlag(n))
      BY <1>2
    <3> QED BY <3>1, <3>2
  <2>2. ASSUME x.flyReads > 0 PROVE c \in HandleRecord /\ HandleOK(c)
    <3>1. x.flyReads - 1 \in Nat
      BY <1>2, <2>2
    <3>2. c \in HandleRecord
      BY <1>x, <3>1 DEF HandleRecord, Stages
    <3>3. HandleOK(c)
      BY <1>x, <1>1, <1>5 DEF HandleRecord, HandleOK, Stage, Ends
    <3> QED BY <3>2, <3>3
  <2>3. ASSUME x.flyReads = 0 PROVE CopyFlag(n) \in HandleRecord /\ HandleOK(CopyFlag(n))
    <3>1. n \in HandleRecord
      <4>1. <<>> \in Seq(Record)
        OBVIOUS
      <4> QED BY <1>x, <4>1 DEF HandleRecord, Stages
    <3>2. HandleOK(n)
      BY <1>x, <1>1, <1>5, <2>3 DEF HandleRecord, HandleOK, Stage, Ends
    <3> QED BY <3>1, <3>2, CopyFlagKeeps
  <2> HIDE DEF c, n
  <2> QED BY <1>t, <1>0, <2>1, <2>2, <2>3, SetKeeps
<1> QED BY <1>0, <1>3, <1>4, <1>5

\* A callback of the application returns.
LEMMA ReturnKeeps ==
    ASSUME TlsInv, NEW e \in Side, Return(e)
    PROVE  TlsInv'
<1> DEFINE x == hnd[e]
<1>x. x \in HandleRecord /\ HandleOK(x)
  BY DEF TlsInv, TlsTypeOK
<1>n. NodeSize \in Nat
  BY TlsConstants DEF TlsConstants
<1>t. /\ hnd \in [Side -> HandleRecord] /\ wire \in [Side -> Seq(Record)]
      /\ put \in [Side -> Seq(Record)] /\ got \in [Side -> Seq(Record)]
  BY DEF TlsInv, TlsTypeOK
<1> HIDE DEF x
<1> DEFINE y == [x EXCEPT !.pc = x.then, !.then = "idle"]
<1>0. x.pc = "call" /\ UNCHANGED <<wire, put, got>> /\ Set(e, y)
  BY DEF Return, x
<1>1. x.then \in Stages
  BY <1>x DEF HandleRecord
<1>2. y \in HandleRecord
  BY <1>x, <1>1 DEF HandleRecord, Stages
<1>3. HandleOK(y)
  BY <1>x, <1>0, <1>1 DEF HandleRecord, HandleOK, Stage, Stages, Ends
<1> HIDE DEF y
<1> QED BY <1>t, <1>0, <1>2, <1>3, SetKeeps

\* The inductive invariant of two TLS handles, whatever the network does and
\* whatever the application calls from its callbacks.
THEOREM TlsInvariance == TlsSpec => []TlsInv
<1>1. TlsInit => TlsInv
  BY TlsStarts
<1>2. TlsInv /\ [TlsNext]_tlsVars => TlsInv'
  <2> SUFFICES ASSUME TlsInv, [TlsNext]_tlsVars PROVE TlsInv'
    OBVIOUS
  <2>1. CASE UNCHANGED tlsVars
    BY <2>1 DEF tlsVars, TlsInv, TlsTypeOK
  <2>2. ASSUME NEW e \in Side, Calls(e) PROVE TlsInv'
    BY <2>2, CallsKeep
  <2>3. ASSUME NEW e \in Side, Works(e) PROVE TlsInv'
    BY <2>3, ConnectingKeeps, TcpReadKeeps, TcpWriteKeeps, LostKeeps, TcpClosedKeeps, PopKeeps,
       LandReadsKeeps, LandWritesKeeps, EndReadsKeeps, EndQueuesKeeps, ReturnKeeps DEF Works
  <2>4. ASSUME NEW e \in Side, ConnectFails(e) \/ SocketFails(e) PROVE TlsInv'
    BY <2>4, ConnectingKeeps, LostKeeps
  <2> QED BY <2>1, <2>2, <2>3, <2>4 DEF TlsNext
<1> QED BY <1>1, <1>2, PTL DEF TlsSpec

\* Type correctness of Tls.
THEOREM TlsTypeCorrect == TlsSpec => []TlsTypeOK
<1>1. TlsInv => TlsTypeOK
  BY DEF TlsInv
<1> QED BY <1>1, TlsInvariance, PTL

\* HandleTLS::onClose leaves no request behind: the flag is cleared before
\* the first callback, so a queue that was emptied stays empty.
THEOREM HandedBackCorrect == TlsSpec => []AllHandedBack
<1>1. TlsInv => AllHandedBack
  BY DEF TlsInv, AllHandedBack, HandleOK, Stage, Ends
<1> QED BY <1>1, TlsInvariance, PTL

-----------------------------------------------------------------------------
(* The two streams between the applications.  Of a stream, h is the handle *)
(* that writes, r the one that reads, w what is on the wire between them,  *)
(* s the items that the session of h has taken, g those that the           *)
(* application of r has been given, n how many the application of h may    *)
(* write.  Records have a place in the stream: the two flights of h, its   *)
(* items, and perhaps a goodbye.  Each record on the way, in the buffer of *)
(* h, on the wire or in the buffer of r, is the one of its place.          *)

\* The flights that a session has sent, and those it has taken.
Given(x) == IF x.connects THEN (x.hs + 1) \div 2 ELSE x.hs \div 2
Taken(x) == IF x.connects THEN x.hs \div 2 ELSE (x.hs + 1) \div 2

\* What has been sent is still in the buffer until its callbacks have returned.
Sent(x) == IF Stage(x) = "written" /\ x.cont = "written" THEN x.commit ELSE 0
Unsent(x) == SubSeq(x.out, Sent(x) + 1, Len(x.out))

\* The writes of the application that wait, behind the connect request.
Waits(x) == IF x.connects /\ ~x.up THEN Tail(x.flyWrites) ELSE x.flyWrites

\* r is the j-th record of a side that has put the items s: two flights, the
\* items, and at the end, perhaps, the goodbye.
Says(h, s, n, r, j) ==
    \/ j \in 1 .. 2 /\ r = Flight(IF h.connects THEN 2 * j - 1 ELSE 2 * j)
    \/ j - 2 \in 1 .. Len(s) /\ r = Data(j - 2)
    \/ j = Len(s) + 3 /\ r = Bye /\ h.wrote = n

\* The items are numbered as the application wrote them.  The session takes
\* none before the handshake is done.  While no write waits, it has taken all
\* that were written, unless the side has said goodbye and writes no more.
WriterOK(h, s, n) ==
    /\ \A i \in 1 .. Len(s) : s[i] = Data(i)
    /\ ~Finished(h) => s = <<>>
    /\ h.tcp # "closed" /\ Waits(h) = <<>> => h.wrote \in {Len(s), n}

\* No request of the reader will be given an item any more.
Stuck(r) == ~HasItem(r) /\ (r.eof \/ (r.in # <<>> /\ Head(r.in) = Bye))

\* How many records the reader's session and application have taken.
At(r, g, m) == Taken(r) + Len(g) + m

\* The first m of the requests that wait for their callbacks have been given
\* an item, those behind them nothing.
ReaderOK(h, r, s, g, n, m) ==
    /\ m <= Len(r.landReads)
    /\ \A k \in 1 .. Len(r.landReads) :
           r.landReads[k] = IF k <= m THEN Data(Len(g) + k) ELSE None
    /\ m < Len(r.landReads) => Stuck(r)
    /\ Len(g) + m <= Len(s)
    /\ ~Finished(r) => Len(g) + m = 0
    /\ \A k \in 1 .. Len(r.in) : Says(h, s, n, r.in[k], At(r, g, m) + k)

\* While the reader's socket is open nothing is missing between the two.
WireOK(h, r, w, s, g, n, m) ==
    LET here == At(r, g, m) + Len(r.in)
        there == here + Len(w)
    IN  /\ \A k \in 1 .. Len(w) : Says(h, s, n, w[k], here + k)
        /\ h.tcp # "closed" =>
               /\ \A k \in 1 .. Len(Unsent(h)) : Says(h, s, n, Unsent(h)[k], there + k)
               /\ \/ there + Len(Unsent(h)) = Given(h) + Len(s)
                  \/ there + Len(Unsent(h)) = 3 + Len(s) /\ Finished(h) /\ h.wrote = n

\* The socket of a reader that may still get something.
Early(x) == x.tcp \in {"connecting", "open"}

\* The stream from h to r.
Flow(h, r, w, s, g, n) ==
    /\ h.connects # r.connects
    /\ WriterOK(h, s, n)
    /\ \E m \in 0 .. Len(r.landReads) :
           /\ ReaderOK(h, r, s, g, n, m)
           /\ Early(r) => WireOK(h, r, w, s, g, n, m)

\* The same of both directions.
FlowInv == \A e \in Side : Flow(hnd[e], hnd[Peer(e)], wire[e], put[e], got[Peer(e)], Items[e])

-----------------------------------------------------------------------------
(* A step of one side, seen by the stream it writes and by the one it      *)
(* reads.                                                                  *)

\* A writer that has sent and queued as much as before.
LEMMA SameWriter ==
    ASSUME NEW x \in HandleRecord, NEW y \in HandleRecord, NEW z \in HandleRecord,
           NEW w, NEW s, NEW g, NEW n, Flow(x, z, w, s, g, n),
           y.connects = x.connects, y.wrote = x.wrote,
           Given(y) = Given(x), Finished(x) => Finished(y),
           y.tcp # "closed" => /\ x.tcp # "closed"
                               /\ Unsent(y) = Unsent(x) /\ Waits(y) = Waits(x)
    PROVE  Flow(y, z, w, s, g, n)
<1>2. WriterOK(y, s, n)
  BY DEF Flow, WriterOK
<1>3. \A r, j : Says(x, s, n, r, j) => Says(y, s, n, r, j)
  BY DEF Says
<1>4. ASSUME NEW m, ReaderOK(x, z, s, g, n, m) PROVE ReaderOK(y, z, s, g, n, m)
  BY <1>3, <1>4 DEF ReaderOK
<1>5. ASSUME NEW m, WireOK(x, z, w, s, g, n, m) PROVE WireOK(y, z, w, s, g, n, m)
  BY <1>3, <1>5 DEF WireOK
<1> QED BY <1>2, <1>4, <1>5 DEF Flow

\* A reader that has taken as much as before.
LEMMA SameReader ==
    ASSUME NEW x \in HandleRecord, NEW y \in HandleRecord, NEW z \in HandleRecord,
           NEW w, NEW s, NEW g, NEW n, Flow(z, x, w, s, g, n),
           y.connects = x.connects, y.landReads = x.landReads, y.in = x.in,
           Taken(y) = Taken(x), Finished(x) => Finished(y), Stuck(x) => Stuck(y),
           Early(y) => Early(x)
    PROVE  Flow(z, y, w, s, g, n)
<1>4. ASSUME NEW m, ReaderOK(z, x, s, g, n, m) PROVE ReaderOK(z, y, s, g, n, m)
  BY <1>4 DEF ReaderOK, At
<1>5. ASSUME NEW m, WireOK(z, x, w, s, g, n, m) PROVE WireOK(z, y, w, s, g, n, m)
  BY <1>5 DEF WireOK, At
<1> QED BY <1>4, <1>5 DEF Flow

\* A step of a handle that neither of its two streams can tell.
Same(y, x) ==
    /\ y.connects = x.connects /\ y.hs = x.hs /\ y.wrote = x.wrote
    /\ y.landReads = x.landReads /\ y.in = x.in /\ (x.eof => y.eof)
    /\ Early(y) => Early(x)
    /\ y.tcp # "closed" => /\ x.tcp # "closed"
                           /\ Unsent(y) = Unsent(x) /\ Waits(y) = Waits(x)

\* Neither stream sees such a step.
LEMMA SameFlows ==
    ASSUME NEW x \in HandleRecord, NEW y \in HandleRecord, NEW z \in HandleRecord,
           NEW w, NEW s, NEW g, NEW n, Same(y, x)
    PROVE  /\ Flow(x, z, w, s, g, n) => Flow(y, z, w, s, g, n)
           /\ Flow(z, x, w, s, g, n) => Flow(z, y, w, s, g, n)
<1>1. /\ Given(y) = Given(x) /\ Taken(y) = Taken(x) /\ (Finished(x) => Finished(y))
      /\ Stuck(x) => Stuck(y)
  BY DEF Same, Given, Taken, Finished, Stuck, HasItem
<1>2. /\ y.connects = x.connects /\ y.wrote = x.wrote /\ y.landReads = x.landReads
      /\ y.in = x.in /\ (Early(y) => Early(x))
      /\ y.tcp # "closed" => /\ x.tcp # "closed"
                             /\ Unsent(y) = Unsent(x) /\ Waits(y) = Waits(x)
  BY DEF Same
<1>3. ASSUME Flow(x, z, w, s, g, n) PROVE Flow(y, z, w, s, g, n)
  BY <1>1, <1>2, <1>3, SameWriter
<1>4. ASSUME Flow(z, x, w, s, g, n) PROVE Flow(z, y, w, s, g, n)
  BY <1>1, <1>2, <1>4, SameReader
<1> QED BY <1>3, <1>4

\* Two such steps are one.
LEMMA SameSteps ==
    ASSUME NEW x, NEW y, NEW q, Same(y, x), Same(q, y)
    PROVE  Same(q, x)
  BY DEF Same

\* A reader that is closed has an empty buffer; nothing comes any more.
LEMMA EmptiedReader ==
    ASSUME NEW x \in HandleRecord, NEW y \in HandleRecord, NEW z \in HandleRecord,
           NEW w, NEW s, NEW g, NEW n, Flow(z, x, w, s, g, n),
           y.connects = x.connects, y.hs = x.hs, y.landReads = <<>>, x.landReads = <<>>,
           y.in = <<>>, ~Early(y)
    PROVE  Flow(z, y, w, s, g, n)
<1>1. Taken(y) = Taken(x) /\ (Finished(y) <=> Finished(x))
  BY DEF Taken, Finished
<1>2. ASSUME NEW m \in 0 .. Len(x.landReads), ReaderOK(z, x, s, g, n, m)
      PROVE  ReaderOK(z, y, s, g, n, m)
  BY <1>1, <1>2 DEF ReaderOK
<1> QED BY <1>2 DEF Flow

\* What the wire is does not matter to a reader whose socket is closed.
LEMMA LostWire ==
    ASSUME NEW x, NEW z, NEW w, NEW v, NEW s, NEW g, NEW n,
           Flow(z, x, w, s, g, n), ~Early(x)
    PROVE  Flow(z, x, v, s, g, n)
  BY DEF Flow

\* The sizes that positions in the stream are made of.
LEMMA FlightCounts ==
    ASSUME NEW x \in HandleRecord
    PROVE  /\ Given(x) \in 0 .. 2 /\ Taken(x) \in 0 .. 2
           /\ Finished(x) => Given(x) = 2 /\ Taken(x) = 2
<1>1. x.hs \in 0 .. 4
  BY DEF HandleRecord, Flights
<1> QED BY <1>1 DEF Given, Taken, Finished, Flights

\* They are numbers.
LEMMA FlightNumbers ==
    ASSUME NEW x \in HandleRecord
    PROVE  Given(x) \in Nat /\ Taken(x) \in Nat
  BY FlightCounts

\* Queues are sequences of records, and have a length.
LEMMA QueueLengths ==
    ASSUME NEW x \in HandleRecord
    PROVE  /\ x.in \in Seq(Record) /\ Len(x.in) \in Nat
           /\ x.landReads \in Seq(Record) /\ Len(x.landReads) \in Nat
  BY DEF HandleRecord

\* A queue is its head and its tail.
LEMMA HeadAndTail ==
    ASSUME NEW q \in Seq(Record), q # <<>>
    PROVE  /\ Len(q) \in Nat /\ Len(q) >= 1 /\ q[1] = Head(q) /\ Head(q) \in Record
           /\ Tail(q) \in Seq(Record) /\ Len(Tail(q)) = Len(q) - 1
           /\ \A k \in 1 .. Len(q) - 1 : Tail(q)[k] = q[k + 1]
  OBVIOUS

\* What two queues are, one after the other.
LEMMA ConcatParts ==
    ASSUME NEW p \in Seq(Record), NEW q \in Seq(Record)
    PROVE  /\ Len(p \o q) = Len(p) + Len(q) /\ p \o q \in Seq(Record)
           /\ \A i \in 1 .. Len(p) : (p \o q)[i] = p[i]
           /\ \A i \in 1 .. Len(q) : (p \o q)[Len(p) + i] = q[i]
  OBVIOUS

\* Places are sums, however they are put together.
LEMMA SumOfSums ==
    ASSUME NEW a \in Nat, NEW b \in Nat, NEW c \in Nat, NEW i \in Nat
    PROVE  a + (b + c) + i = a + b + (c + i) /\ a + b + i = a + (b + i)
  OBVIOUS

\* All of a queue is the queue.
LEMMA WholeSubSeq ==
    ASSUME NEW q \in Seq(Record)
    PROVE  SubSeq(q, 0 + 1, Len(q)) = q
<1>1. Len(q) \in Nat /\ SubSeq(q, 1, Len(q)) \in Seq(Record) /\ Len(SubSeq(q, 1, Len(q))) = Len(q)
  OBVIOUS
<1>2. \A i \in 1 .. Len(q) : SubSeq(q, 1, Len(q))[i] = q[i]
  BY <1>1
<1> DEFINE p == SubSeq(q, 1, Len(q))
<1> HIDE DEF p
<1>3. p = q
  BY <1>1, <1>2, SeqEqual DEF p
<1> QED BY <1>3 DEF p

\* What waits to be sent is a part of the buffer.
LEMMA UnsentIsSeq ==
    ASSUME NEW x \in HandleRecord, HandleOK(x), x.tcp # "closed"
    PROVE  /\ Unsent(x) \in Seq(Record) /\ Sent(x) \in Nat /\ Sent(x) <= Len(x.out)
           /\ Len(Unsent(x)) = Len(x.out) - Sent(x)
           /\ x.out \in Seq(Record) /\ Len(x.out) \in Nat
<1>1. x.pc # "closed"
  BY DEF HandleOK, Stage, Ends
<1>2. x.out \in Seq(Record) /\ x.commit \in Nat /\ x.commit <= Len(x.out) /\ Len(x.out) \in Nat
  BY <1>1 DEF HandleOK, HandleRecord
<1>3. Sent(x) \in Nat /\ Sent(x) <= Len(x.out)
  BY <1>2 DEF Sent
<1> QED BY <1>2, <1>3 DEF Unsent

\* A record is added to what waits to be sent.
LEMMA UnsentGrows ==
    ASSUME NEW x \in HandleRecord, HandleOK(x), x.tcp # "closed", NEW y \in HandleRecord,
           NEW r \in Record, y.out = Append(x.out, r), Sent(y) = Sent(x)
    PROVE  Unsent(y) = Append(Unsent(x), r)
<1> DEFINE k == Sent(x)
           o == x.out
<1>1. o \in Seq(Record) /\ k \in Nat /\ k <= Len(o) /\ Len(o) \in Nat
  BY UnsentIsSeq
<1> HIDE DEF k, o
<1>2. SubSeq(Append(o, r), k + 1, Len(Append(o, r))) = Append(SubSeq(o, k + 1, Len(o)), r)
  <2> DEFINE a == SubSeq(Append(o, r), k + 1, Len(o) + 1)
             b == Append(SubSeq(o, k + 1, Len(o)), r)
  <2>1. Append(o, r) \in Seq(Record) /\ Len(Append(o, r)) = Len(o) + 1
    BY <1>1
  <2>2. a \in Seq(Record) /\ Len(a) = Len(o) + 1 - k
    BY <1>1, <2>1
  <2>3. SubSeq(o, k + 1, Len(o)) \in Seq(Record) /\ Len(SubSeq(o, k + 1, Len(o))) = Len(o) - k
    BY <1>1
  <2>4. b \in Seq(Record) /\ Len(b) = Len(o) + 1 - k
    BY <1>1, <2>3
  <2>5. ASSUME NEW i \in 1 .. Len(a) PROVE a[i] = b[i]
    <3>1. a[i] = Append(o, r)[k + i]
      BY <1>1, <2>1, <2>2
    <3>2. CASE i = Len(o) + 1 - k
      <4>1. a[i] = r
        BY <1>1, <3>1, <3>2
      <4>2. b[i] = r
        BY <1>1, <2>3, <3>2
      <4> QED BY <4>1, <4>2
    <3>3. CASE i # Len(o) + 1 - k
      <4>1. i \in 1 .. Len(o) - k
        BY <1>1, <2>2, <3>3
      <4>2. b[i] = SubSeq(o, k + 1, Len(o))[i]
        BY <2>3, <4>1
      <4>3. SubSeq(o, k + 1, Len(o))[i] = o[k + i]
        BY <1>1, <4>1
      <4>4. Append(o, r)[k + i] = o[k + i]
        BY <1>1, <4>1
      <4> QED BY <3>1, <4>2, <4>3, <4>4
    <3> QED BY <3>2, <3>3
  <2> HIDE DEF a, b
  <2>6. a = b
    BY <2>2, <2>4, <2>5, SeqEqual
  <2> QED BY <2>1, <2>6 DEF a, b
<1> QED BY <1>2 DEF Unsent, k, o

\* What was said is said still.
SaysStill(y, t, x, s, n) == \A q, j : Says(x, s, n, q, j) => Says(y, t, n, q, j)

\* r comes next, and the stream is as long as it should be then.
SaysNext(y, t, x, s, n, r) ==
    /\ Says(y, t, n, r, Given(x) + Len(s) + 1)
    /\ \/ Given(y) + Len(t) = Given(x) + Len(s) + 1
       \/ 3 + Len(t) = Given(x) + Len(s) + 1 /\ Finished(y) /\ y.wrote = n

\* A record is appended to what waits to be sent: the next of the stream.
LEMMA WriterAppends ==
    ASSUME NEW x \in HandleRecord, NEW y \in HandleRecord, NEW z \in HandleRecord,
           NEW w \in Seq(Record), NEW s \in Seq(Record), NEW t \in Seq(Record),
           NEW g \in Seq(Record), NEW n \in Nat, NEW r \in Record,
           Flow(x, z, w, s, g, n), ~(Finished(x) /\ x.wrote = n),
           y.connects = x.connects, x.tcp # "closed",
           Unsent(x) \in Seq(Record), Unsent(y) = Append(Unsent(x), r),
           WriterOK(y, t, n), Len(s) <= Len(t),
           SaysStill(y, t, x, s, n), SaysNext(y, t, x, s, n, r)
    PROVE  Flow(y, z, w, t, g, n)
<1>1. PICK m \in 0 .. Len(z.landReads) :
          ReaderOK(x, z, s, g, n, m) /\ (Early(z) => WireOK(x, z, w, s, g, n, m))
  BY DEF Flow
<1>2. /\ Len(s) \in Nat /\ Len(t) \in Nat /\ Len(g) \in Nat /\ Len(w) \in Nat
      /\ Len(z.in) \in Nat /\ m \in Nat
  BY QueueLengths
<1>3. Given(x) \in Nat /\ Given(y) \in Nat /\ At(z, g, m) \in Nat
  BY <1>2, FlightNumbers DEF At
<1>4. ReaderOK(y, z, t, g, n, m)
  BY <1>1, <1>2 DEF ReaderOK, SaysStill
<1>5. ASSUME Early(z) PROVE WireOK(y, z, w, t, g, n, m)
  <2> DEFINE here == At(z, g, m) + Len(z.in)
             there == here + Len(w)
             u == Unsent(x)
  <2>1. there \in Nat
    BY <1>2, <1>3
  <2>2. /\ \A k \in 1 .. Len(w) : Says(x, s, n, w[k], here + k)
        /\ \A k \in 1 .. Len(u) : Says(x, s, n, u[k], there + k)
        /\ there + Len(u) = Given(x) + Len(s)
    BY <1>1, <1>5 DEF WireOK
  <2> HIDE DEF here, there, u
  <2>3. u \in Seq(Record) /\ Len(u) \in Nat /\ Len(Append(u, r)) = Len(u) + 1
    BY DEF u
  <2>4. \A k \in 1 .. Len(u) + 1 : Says(y, t, n, Append(u, r)[k], there + k)
    <3> SUFFICES ASSUME NEW k \in 1 .. Len(u) + 1 PROVE Says(y, t, n, Append(u, r)[k], there + k)
      OBVIOUS
    <3>1. CASE k \in 1 .. Len(u)
      <4>1. Append(u, r)[k] = u[k]
        BY <2>3, <3>1
      <4> QED BY <2>2, <3>1, <4>1 DEF SaysStill
    <3>2. CASE k = Len(u) + 1
      <4>1. Append(u, r)[k] = r
        BY <2>3, <3>2
      <4>2. there + k = Given(x) + Len(s) + 1
        BY <1>2, <1>3, <2>1, <2>2, <2>3, <3>2
      <4> QED BY <4>1, <4>2 DEF SaysNext
    <3> QED BY <2>3, <3>1, <3>2
  <2>5. \A k \in 1 .. Len(w) : Says(y, t, n, w[k], here + k)
    BY <2>2 DEF SaysStill
  <2>6. Unsent(y) = Append(u, r)
    BY DEF u
  <2>7. there + Len(Unsent(y)) = Given(x) + Len(s) + 1
    BY <1>2, <1>3, <2>1, <2>2, <2>3, <2>6
  <2> QED BY <2>3, <2>4, <2>5, <2>6, <2>7 DEF WireOK, here, there, SaysNext
<1> QED BY <1>1, <1>4, <1>5 DEF Flow

\* The next flight of the handshake is written.
LEMMA FlightWritten ==
    ASSUME NEW x \in HandleRecord, HandleOK(x), x.tcp # "closed", NEW z \in HandleRecord,
           NEW w \in Seq(Record), NEW s \in Seq(Record), NEW g \in Seq(Record), NEW n \in Nat,
           Flow(x, z, w, s, g, n)
    PROVE  Flow(GiveFlight(x), z, w, s, g, n)
<1> DEFINE y == GiveFlight(x)
           r == Flight(x.hs + 1)
<1>1. CASE ~Finished(x) /\ (Odd(x.hs + 1) <=> x.connects)
  <2>1. y = [x EXCEPT !.hs = @ + 1, !.out = Append(@, r)]
    BY <1>1 DEF GiveFlight
  <2>2. y \in HandleRecord
    BY GiveFlightKeeps
  <2>9. x.hs \in 0 .. 3
    BY <1>1 DEF HandleRecord, Finished, Flights
  <2>3. r \in Record
    BY <2>9, FlightIsRecord
  <2> HIDE DEF y, r
  <2>4. /\ y.connects = x.connects /\ y.tcp = x.tcp /\ y.hs = x.hs + 1 /\ y.wrote = x.wrote
        /\ y.out = Append(x.out, r) /\ Sent(y) = Sent(x) /\ Waits(y) = Waits(x)
    BY <2>1 DEF HandleRecord, Sent, Stage, Waits
  <2>5. Unsent(x) \in Seq(Record) /\ Unsent(y) = Append(Unsent(x), r)
    BY <2>2, <2>3, <2>4, UnsentIsSeq, UnsentGrows
  <2>6. s = <<>> /\ Len(s) = 0
    BY <1>1 DEF Flow, WriterOK
  <2>7. WriterOK(y, s, n)
    BY <2>4, <2>6 DEF Flow, WriterOK
  <2>8. SaysStill(y, s, x, s, n)
    BY <2>4 DEF Says, SaysStill
  <2>10. /\ Given(y) = Given(x) + 1 /\ Given(x) + 1 \in 1 .. 2
         /\ x.hs + 1 = IF x.connects THEN 2 * (Given(x) + 1) - 1 ELSE 2 * (Given(x) + 1)
    BY <1>1, <2>4, <2>9 DEF Given, Odd
  <2>g. Given(x) \in Nat
    BY FlightCounts
  <2>11. Says(y, s, n, r, Given(x) + Len(s) + 1)
    BY <2>4, <2>6, <2>9, <2>10, <2>g DEF Says, r
  <2>12. Given(y) + Len(s) = Given(x) + Len(s) + 1
    BY <2>6, <2>10, <2>g
  <2>13. SaysNext(y, s, x, s, n, r)
    BY <2>11, <2>12 DEF SaysNext
  <2>14. Len(s) <= Len(s) /\ ~(Finished(x) /\ x.wrote = n)
    BY <1>1, <2>6
  <2>15. Flow(y, z, w, s, g, n)
    BY <2>2, <2>3, <2>4, <2>5, <2>7, <2>8, <2>13, <2>14, WriterAppends
  <2> QED BY <2>15 DEF y
<1>2. CASE ~(~Finished(x) /\ (Odd(x.hs + 1) <=> x.connects))
  BY <1>2 DEF GiveFlight
<1> QED BY <1>1, <1>2

-----------------------------------------------------------------------------
(* The parts of a callback, seen by the streams.                           *)

\* A handle whose buffers, queues and flights are as they were.
LEMMA SameParts ==
    ASSUME NEW x, NEW y,
           y.connects = x.connects, y.hs = x.hs, y.wrote = x.wrote,
           y.landReads = x.landReads, y.in = x.in, x.eof => y.eof,
           Early(y) => Early(x),
           y.tcp # "closed" => /\ x.tcp # "closed" /\ y.out = x.out /\ Sent(y) = Sent(x)
                               /\ y.flyWrites = x.flyWrites /\ y.up = x.up
    PROVE  Same(y, x)
  BY DEF Same, Unsent, Waits

\* A read that is posted is not seen by the streams.
LEMMA PostReadSame ==
    ASSUME NEW x \in HandleRecord
    PROVE  PostRead(x) \in HandleRecord /\ Same(PostRead(x), x)
<1> DEFINE y == PostRead(x)
<1>1. /\ y.connects = x.connects /\ y.hs = x.hs /\ y.wrote = x.wrote
      /\ y.landReads = x.landReads /\ y.in = x.in /\ y.eof = x.eof /\ y.tcp = x.tcp
      /\ y.out = x.out /\ y.commit = x.commit /\ y.flyWrites = x.flyWrites /\ y.up = x.up
      /\ y.pc = x.pc /\ y.then = x.then /\ y.cont = x.cont
  BY DEF PostRead, HandleRecord
<1>3. y \in HandleRecord
  <2>1. y = x \/ \E p \in Transfer : y = [x EXCEPT !.read = p]
    BY DEF PostRead, Transfer
  <2> HIDE DEF y
  <2> QED BY <2>1 DEF HandleRecord
<1> HIDE DEF y
<1>2. Sent(y) = Sent(x)
  BY <1>1 DEF Sent, Stage
<1> QED BY <1>1, <1>2, <1>3, SameParts DEF Early, y

\* Nor is a flag that is copied.
LEMMA CopyFlagSame ==
    ASSUME NEW x \in HandleRecord
    PROVE  CopyFlag(x) \in HandleRecord /\ Same(CopyFlag(x), x)
<1> DEFINE y == CopyFlag(x)
<1>1. /\ y.connects = x.connects /\ y.hs = x.hs /\ y.wrote = x.wrote
      /\ y.landReads = x.landReads /\ y.in = x.in /\ y.eof = x.eof /\ y.tcp = x.tcp
      /\ y.out = x.out /\ y.commit = x.commit /\ y.flyWrites = x.flyWrites /\ y.up = x.up
      /\ y.pc = x.pc /\ y.then = x.then /\ y.cont = x.cont
  BY DEF CopyFlag, HandleRecord
<1>3. y \in HandleRecord
  <2>1. \E b \in BOOLEAN : y = [x EXCEPT !.mFlag = b]
    <3>1. Open(x) \in BOOLEAN
      BY DEF Open
    <3> QED BY <3>1 DEF CopyFlag
  <2> HIDE DEF y
  <2> QED BY <2>1 DEF HandleRecord
<1> HIDE DEF y
<1>2. Sent(y) = Sent(x)
  BY <1>1 DEF Sent, Stage
<1> QED BY <1>1, <1>2, <1>3, SameParts DEF Early, y

\* Nor is a socket that is closed: it only stops being one that gets more.
LEMMA CloseSocketSame ==
    ASSUME NEW x \in HandleRecord
    PROVE  CloseSocket(x) \in HandleRecord /\ Same(CloseSocket(x), x)
<1> DEFINE y == CloseSocket(x)
<1>1. /\ y.connects = x.connects /\ y.hs = x.hs /\ y.wrote = x.wrote
      /\ y.landReads = x.landReads /\ y.in = x.in /\ y.eof = x.eof
      /\ y.tcp = IF x.tcp = "open" THEN "broken" ELSE x.tcp
      /\ y.out = x.out /\ y.commit = x.commit /\ y.flyWrites = x.flyWrites /\ y.up = x.up
      /\ y.pc = x.pc /\ y.then = x.then /\ y.cont = x.cont
  BY DEF CloseSocket, HandleRecord
<1>3. y \in HandleRecord
  BY DEF CloseSocket, HandleRecord
<1> HIDE DEF y
<1>2. Sent(y) = Sent(x)
  BY <1>1 DEF Sent, Stage
<1> QED BY <1>1, <1>2, <1>3, SameParts DEF Early, y

\* What is being called back is committed already: no more is posted then.
LEMMA PostWriteSame ==
    ASSUME NEW x \in HandleRecord, HandleOK(x)
    PROVE  Same(PostWrite(x), x)
<1> DEFINE y == PostWrite(x)
<1>1. /\ y.connects = x.connects /\ y.hs = x.hs /\ y.wrote = x.wrote
      /\ y.landReads = x.landReads /\ y.in = x.in /\ y.eof = x.eof /\ y.tcp = x.tcp
      /\ y.out = x.out /\ y.flyWrites = x.flyWrites /\ y.up = x.up
      /\ y.pc = x.pc /\ y.then = x.then /\ y.cont = x.cont
      /\ x.write # "no" => y.commit = x.commit
  BY DEF PostWrite, PostWriteAlways, HandleRecord
<1> HIDE DEF y
<1>2. Sent(y) = Sent(x)
  BY <1>1 DEF Sent, Stage, HandleOK
<1> QED BY <1>1, <1>2, SameParts DEF Early, y

\* The callbacks of what has been sent are done: it leaves the buffer.
LEMMA CommitSame ==
    ASSUME NEW x \in HandleRecord, HandleOK(x), Stage(x) = "written", x.cont = "written",
           x.tcp # "closed"
    PROVE  Same(Commit([x EXCEPT !.pc = "idle", !.cont = "none"]), x)
<1> DEFINE y == Commit([x EXCEPT !.pc = "idle", !.cont = "none"])
           c == x.commit
           o == x.out
<1>1. /\ y.connects = x.connects /\ y.hs = x.hs /\ y.wrote = x.wrote
      /\ y.landReads = x.landReads /\ y.in = x.in /\ y.eof = x.eof /\ y.tcp = x.tcp
      /\ y.out = SubSeq(o, c + 1, Len(o)) /\ y.flyWrites = x.flyWrites /\ y.up = x.up
      /\ y.pc = "idle" /\ y.cont = "none"
  BY DEF Commit, HandleRecord
<1> HIDE DEF y
<1>2. Sent(y) = 0 /\ Sent(x) = c /\ Waits(y) = Waits(x)
  BY <1>1 DEF Sent, Stage, Waits
<1>3. o \in Seq(Record) /\ c \in Nat /\ c <= Len(o) /\ Len(o) \in Nat
  BY UnsentIsSeq, <1>2 DEF HandleOK, HandleRecord, Stage, Ends
<1> HIDE DEF o, c
<1>4. SubSeq(o, c + 1, Len(o)) \in Seq(Record)
  BY <1>3
<1>5. Unsent(y) = SubSeq(o, c + 1, Len(o))
  BY <1>1, <1>2, <1>4, WholeSubSeq DEF Unsent
<1>6. Unsent(x) = SubSeq(o, c + 1, Len(o))
  BY <1>2 DEF Unsent, o
<1> QED BY <1>1, <1>2, <1>5, <1>6 DEF Same, Early, y

\* The reader takes the first record of what has come: the rest is as it was.
LEMMA HeadTaken ==
    ASSUME NEW x \in HandleRecord, NEW y \in HandleRecord, NEW z \in HandleRecord,
           NEW w, NEW s, NEW g, NEW n, NEW m, NEW c, NEW l,
           x.in # <<>>, y.in = Tail(x.in), At(x, g, m) \in Nat, At(y, c, l) = At(x, g, m) + 1,
           ReaderOK(z, x, s, g, n, m)
    PROVE  /\ Says(z, s, n, Head(x.in), At(x, g, m) + 1)
           /\ \A k \in 1 .. Len(y.in) : Says(z, s, n, y.in[k], At(y, c, l) + k)
           /\ WireOK(z, x, w, s, g, n, m) => WireOK(z, y, w, s, c, n, l)
<1> DEFINE a == At(x, g, m)
           q == x.in
<1>1. q \in Seq(Record) /\ q # <<>>
  BY QueueLengths
<1>2. \A k \in 1 .. Len(q) : Says(z, s, n, q[k], a + k)
  BY DEF ReaderOK
<1>3. y.in = Tail(q) /\ a \in Nat /\ At(y, c, l) = a + 1
  OBVIOUS
<1> HIDE DEF a, q
<1>4. /\ Len(q) \in Nat /\ Len(q) >= 1 /\ q[1] = Head(q) /\ Len(Tail(q)) = Len(q) - 1
      /\ \A k \in 1 .. Len(q) - 1 : Tail(q)[k] = q[k + 1]
  BY <1>1, HeadAndTail
<1>5. Says(z, s, n, Head(q), a + 1)
  BY <1>2, <1>4
<1>6. ASSUME NEW k \in 1 .. Len(Tail(q)) PROVE Says(z, s, n, Tail(q)[k], (a + 1) + k)
  <2>1. k + 1 \in 1 .. Len(q) /\ (a + 1) + k = a + (k + 1) /\ Tail(q)[k] = q[k + 1]
    BY <1>3, <1>4
  <2> QED BY <1>2, <2>1
<1>7. At(y, c, l) + Len(y.in) = a + Len(q)
  <2>1. Len(y.in) = Len(q) - 1
    BY <1>3, <1>4
  <2>2. (a + 1) + (Len(q) - 1) = a + Len(q)
    BY <1>3, <1>4
  <2> QED BY <1>3, <2>1, <2>2
<1>8. WireOK(z, x, w, s, g, n, m) => WireOK(z, y, w, s, c, n, l)
  BY <1>7 DEF WireOK, a, q
<1> QED BY <1>3, <1>5, <1>6, <1>8 DEF a, q

\* The flights of the two sides take turns.
Turn(x) == ~Finished(x) /\ x.in # <<>> /\ Head(x.in) = Flight(x.hs + 1)

\* Whose turn it is shows in how many flights there were.
LEMMA FlightParity ==
    ASSUME NEW x \in HandleRecord, NEW z \in HandleRecord,
           NEW w \in Seq(Record), NEW s \in Seq(Record), NEW g \in Seq(Record), NEW n \in Nat,
           Flow(z, x, w, s, g, n), Turn(x)
    PROVE  x.hs \in 0 .. 3 /\ (x.connects <=> Odd(x.hs)) /\ x.connects \in BOOLEAN
<1>1. PICK m \in 0 .. Len(x.landReads) : ReaderOK(z, x, s, g, n, m)
  BY DEF Flow
<1>2. Len(g) \in Nat /\ m \in Nat /\ Len(g) + m = 0 /\ x.in \in Seq(Record) /\ Len(x.in) \in Nat
  BY <1>1, QueueLengths DEF ReaderOK, Turn
<1>3. Len(x.in) > 0 /\ x.in[1] = Flight(x.hs + 1)
  <2>1. x.in # <<>> /\ Head(x.in) = Flight(x.hs + 1)
    BY DEF Turn
  <2> QED BY <1>2, <2>1, HeadAndTail
<1>4. x.hs \in 0 .. 3 /\ x.connects \in BOOLEAN /\ Taken(x) \in 0 .. 2
  <2>1. x.hs \in 0 .. 3 /\ x.connects \in BOOLEAN
    BY DEF Turn, HandleRecord, Finished, Flights
  <2> QED BY <2>1, FlightCounts
<1>5. Says(z, s, n, x.in[1], At(x, g, m) + 1)
  BY <1>1, <1>2, <1>3 DEF ReaderOK
<1> DEFINE j == Taken(x) + 1
<1>6. At(x, g, m) + 1 = j
  BY <1>2, <1>4 DEF At
<1>7. Says(z, s, n, Flight(x.hs + 1), j)
  BY <1>3, <1>5, <1>6
<1>8. x.hs + 1 = IF z.connects THEN 2 * j - 1 ELSE 2 * j
  BY <1>7 DEF Says, Flight, Data, Bye
<1>9. z.connects # x.connects /\ z.connects \in BOOLEAN
  BY DEF Flow, HandleRecord
<1> QED BY <1>4, <1>8, <1>9 DEF Taken, Odd

\* The next flight of the peer is taken from what has come.
LEMMA FlightTaken ==
    ASSUME NEW x \in HandleRecord, HandleOK(x), Early(x), NEW z \in HandleRecord,
           NEW w \in Seq(Record), NEW s \in Seq(Record), NEW g \in Seq(Record), NEW n \in Nat,
           Flow(z, x, w, s, g, n)
    PROVE  Flow(z, TakeFlight(x), w, s, g, n)
<1> DEFINE y == TakeFlight(x)
<1>1. CASE Turn(x)
  <2>1. x.hs \in 0 .. 3 /\ (x.connects <=> Odd(x.hs)) /\ x.connects \in BOOLEAN
    BY <1>1, FlightParity
  <2>2. y = [x EXCEPT !.in = Tail(@), !.hs = @ + 1]
    BY <1>1 DEF TakeFlight, Turn
  <2>3. y \in HandleRecord
    BY TakeFlightKeeps
  <2> HIDE DEF y
  <2>4. /\ y.connects = x.connects /\ y.tcp = x.tcp /\ y.hs = x.hs + 1 /\ y.landReads = x.landReads
        /\ y.in = Tail(x.in)
    BY <2>2 DEF HandleRecord
  <2>5. Taken(y) = Taken(x) + 1 /\ Taken(x) \in Nat
    BY <2>1, <2>4, FlightNumbers DEF Taken, Odd
  <2>6. Len(x.landReads) \in Nat
    BY QueueLengths
  <2>7. PICK m \in 0 .. Len(x.landReads) :
          ReaderOK(z, x, s, g, n, m) /\ (Early(x) => WireOK(z, x, w, s, g, n, m))
    BY DEF Flow
  <2>8. m \in Nat /\ Len(g) \in Nat
    BY <2>6
  <2>9. m = Len(x.landReads)
    <3>1. ~x.eof
      BY DEF HandleOK, Early
    <3>2. ~Stuck(x)
      BY <1>1, <3>1 DEF Stuck, Turn, Flight, Bye
    <3> QED BY <2>6, <2>7, <2>8, <3>2 DEF ReaderOK
  <2>10. At(x, g, m) \in Nat /\ At(y, g, m) = At(x, g, m) + 1
    <3>1. PICK c \in Nat, d \in Nat, i \in Nat : c = Len(g) /\ d = Taken(x) /\ i = m
      BY <2>5, <2>8
    <3>2. d + c + i \in Nat /\ (d + 1) + c + i = (d + c + i) + 1
      OBVIOUS
    <3>3. Taken(y) = d + 1
      BY <2>5, <3>1
    <3> QED BY <3>1, <3>2, <3>3 DEF At
  <2>11. /\ \A k \in 1 .. Len(y.in) : Says(z, s, n, y.in[k], At(y, g, m) + k)
         /\ WireOK(z, y, w, s, g, n, m)
    <3>1. x.in # <<>>
      BY <1>1 DEF Turn
    <3> QED BY <2>3, <2>4, <2>7, <2>10, <3>1, HeadTaken
  <2>13. ReaderOK(z, y, s, g, n, m)
    <3>2. Len(g) + m = 0
      BY <1>1, <2>7 DEF Turn, ReaderOK
    <3> QED BY <2>4, <2>7, <2>9, <2>11, <3>2 DEF ReaderOK
  <2>12. Flow(z, y, w, s, g, n)
    BY <2>4, <2>7, <2>11, <2>13 DEF Flow
  <2> QED BY <2>12 DEF y
<1>2. CASE ~Turn(x)
  BY <1>2 DEF TakeFlight, Turn
<1> QED BY <1>1, <1>2

\* The other stream does not see it: it is the peer's turn no more.
LEMMA FlightTakenHere ==
    ASSUME NEW x \in HandleRecord, HandleOK(x), x.tcp # "closed", NEW z \in HandleRecord,
           x.hs \in 0 .. 3 => (Turn(x) => (x.connects <=> Odd(x.hs))),
           NEW w, NEW s, NEW g, NEW n, Flow(x, z, w, s, g, n)
    PROVE  Flow(TakeFlight(x), z, w, s, g, n)
<1> DEFINE y == TakeFlight(x)
<1>1. CASE Turn(x)
  <2>1. x.hs \in 0 .. 3 /\ x.connects \in BOOLEAN
    BY <1>1 DEF Turn, HandleRecord, Finished, Flights
  <2>2. y = [x EXCEPT !.in = Tail(@), !.hs = @ + 1]
    BY <1>1 DEF TakeFlight, Turn
  <2>3. y \in HandleRecord
    BY TakeFlightKeeps
  <2> HIDE DEF y
  <2>4. /\ y.connects = x.connects /\ y.tcp = x.tcp /\ y.hs = x.hs + 1 /\ y.wrote = x.wrote
        /\ y.out = x.out /\ y.commit = x.commit /\ y.flyWrites = x.flyWrites /\ y.up = x.up
        /\ y.pc = x.pc /\ y.then = x.then /\ y.cont = x.cont
    BY <2>2 DEF HandleRecord
  <2>5. Given(y) = Given(x) /\ ~Finished(x)
    BY <1>1, <2>1, <2>4 DEF Given, Odd, Turn
  <2>6. Unsent(y) = Unsent(x) /\ Waits(y) = Waits(x)
    BY <2>4 DEF Unsent, Sent, Stage, Waits
  <2>7. Flow(y, z, w, s, g, n)
    BY <2>3, <2>4, <2>5, <2>6, SameWriter
  <2> QED BY <2>7 DEF y
<1>2. CASE ~Turn(x)
  BY <1>2 DEF TakeFlight, Turn
<1> QED BY <1>1, <1>2

\* Nor does the stream that comes see the flight that is written.
LEMMA FlightWrittenHere ==
    ASSUME NEW x \in HandleRecord, HandleOK(x), Early(x), NEW z \in HandleRecord,
           NEW w, NEW s, NEW g, NEW n, Flow(z, x, w, s, g, n)
    PROVE  Flow(z, GiveFlight(x), w, s, g, n)
<1> DEFINE y == GiveFlight(x)
<1>1. CASE ~Finished(x) /\ (Odd(x.hs + 1) <=> x.connects)
  <2>1. x.hs \in 0 .. 3 /\ x.connects \in BOOLEAN
    BY <1>1 DEF HandleRecord, Finished, Flights
  <2>2. y = [x EXCEPT !.hs = @ + 1, !.out = Append(@, Flight(x.hs + 1))]
    BY <1>1 DEF GiveFlight
  <2>3. y \in HandleRecord
    BY GiveFlightKeeps
  <2> HIDE DEF y
  <2>4. /\ y.connects = x.connects /\ y.tcp = x.tcp /\ y.hs = x.hs + 1
        /\ y.landReads = x.landReads /\ y.in = x.in /\ y.eof = x.eof
    BY <2>2 DEF HandleRecord
  <2>5. Taken(y) = Taken(x) /\ ~Finished(x)
    BY <1>1, <2>1, <2>4 DEF Taken, Odd
  <2>6. Stuck(x) => Stuck(y)
    <3>1. ~x.eof
      BY DEF HandleOK, Early
    <3> QED BY <2>4, <3>1 DEF Stuck, HasItem, Bye
  <2>7. Flow(z, y, w, s, g, n)
    BY <2>3, <2>4, <2>5, <2>6, SameReader DEF Early
  <2> QED BY <2>7 DEF y
<1>2. CASE ~(~Finished(x) /\ (Odd(x.hs + 1) <=> x.connects))
  BY <1>2 DEF GiveFlight
<1> QED BY <1>1, <1>2

\* Both streams of a handle, with all that they depend on.
Both(x, z, w, s, g, n, w2, s2, g2, n2) == Flow(x, z, w, s, g, n) /\ Flow(z, x, w2, s2, g2, n2)

\* A turn of the handshake keeps both streams.
LEMMA HandshakeFlows ==
    ASSUME NEW x \in HandleRecord, HandleOK(x), Early(x), NEW z \in HandleRecord, NodeSize \in Nat,
           NEW w \in Seq(Record), NEW s \in Seq(Record), NEW g \in Seq(Record), NEW n \in Nat,
           NEW w2 \in Seq(Record), NEW s2 \in Seq(Record), NEW g2 \in Seq(Record), NEW n2 \in Nat,
           Both(x, z, w, s, g, n, w2, s2, g2, n2)
    PROVE  Both(Handshake(x), z, w, s, g, n, w2, s2, g2, n2)
<1> DEFINE t == TakeFlight(x)
           h == GiveFlight(t)
<1>1. t \in HandleRecord /\ HandleOK(t) /\ Alike(t, x)
  BY TakeFlightKeeps
<1>2. Flow(t, z, w, s, g, n)
  BY FlightTakenHere, FlightParity DEF Both, Early
<1>3. Flow(z, t, w2, s2, g2, n2)
  BY FlightTaken DEF Both
<1>4. Early(t)
  BY <1>1 DEF Early, Alike
<1> HIDE DEF t
<1>5. h \in HandleRecord /\ HandleOK(h)
  BY <1>1, GiveFlightKeeps
<1>6. Flow(h, z, w, s, g, n)
  BY <1>1, <1>2, <1>4, FlightWritten DEF Early
<1>7. Flow(z, h, w2, s2, g2, n2)
  BY <1>1, <1>3, <1>4, FlightWrittenHere
<1> HIDE DEF h
<1>8. PostWrite(h) \in HandleRecord /\ Same(PostWrite(h), h)
  BY <1>5, PostWriteKeeps, PostWriteSame
<1>9. Both(PostWrite(h), z, w, s, g, n, w2, s2, g2, n2)
  BY <1>5, <1>6, <1>7, <1>8, SameFlows DEF Both
<1> QED BY <1>9 DEF Handshake, h, t

-----------------------------------------------------------------------------
(* The stream that a handle reads.                                         *)

\* Sums, as the lemmas below need them.
LEMMA PlaceOfItem ==
    ASSUME NEW x \in HandleRecord, Finished(x), NEW g \in Seq(Record), NEW m \in Nat
    PROVE  /\ At(x, g, m) = 2 + (Len(g) + m) /\ At(x, g, m) \in Nat
           /\ At(x, g, m) + 1 > 2 /\ At(x, g, m) + 1 - 2 = Len(g) + m + 1
<1>1. PICK c \in Nat, d \in Nat : c = Len(g) /\ d = m
  OBVIOUS
<1>2. Taken(x) = 2
  BY FlightCounts
<1>3. 2 + c + d = 2 + (c + d) /\ (2 + c + d) + 1 > 2 /\ (2 + c + d) + 1 - 2 = c + d + 1 /\ 2 + c + d \in Nat
  OBVIOUS
<1> QED BY <1>1, <1>2, <1>3 DEF At

\* The place does not change when an item goes from a request to the
\* application, and is the next one when a request is given an item.
LEMMA NextPlace ==
    ASSUME NEW x, NEW y, NEW g, NEW c, NEW m \in Nat, NEW l \in Nat,
           Taken(x) \in Nat, Taken(y) = Taken(x), Len(g) \in Nat, Len(c) \in Nat
    PROVE  /\ Len(c) = Len(g) /\ l = m + 1 => At(y, c, l) = At(x, g, m) + 1
           /\ Len(c) = Len(g) + 1 /\ m = l + 1 => At(y, c, l) = At(x, g, m)
<1>1. PICK i \in Nat, j \in Nat, k \in Nat : i = Len(g) /\ j = Taken(x) /\ k = Len(c)
  OBVIOUS
<1>2. At(x, g, m) = j + i + m /\ At(y, c, l) = j + k + l
  BY <1>1 DEF At
<1>3. k = i /\ l = m + 1 => j + k + l = (j + i + m) + 1
  OBVIOUS
<1>4. k = i + 1 /\ m = l + 1 => j + k + l = j + i + m
  OBVIOUS
<1> QED BY <1>1, <1>2, <1>3, <1>4

\* A request takes the item that is next: it is the one that was put next.
LEMMA ItemTaken ==
    ASSUME NEW x \in HandleRecord, NEW y \in HandleRecord, NEW z \in HandleRecord,
           NEW w \in Seq(Record), NEW s \in Seq(Record), NEW g \in Seq(Record), NEW n \in Nat,
           Flow(z, x, w, s, g, n), HasItem(x),
           y.connects = x.connects, y.hs = x.hs, y.in = Tail(x.in),
           y.landReads = Append(x.landReads, Head(x.in)), Early(y) => Early(x)
    PROVE  Flow(z, y, w, s, g, n)
<1> DEFINE q == x.landReads
           r == Head(x.in)
<1>1. PICK m \in 0 .. Len(q) : ReaderOK(z, x, s, g, n, m) /\ (Early(x) => WireOK(z, x, w, s, g, n, m))
  BY DEF Flow
<1>2. q \in Seq(Record) /\ Len(q) \in Nat /\ m \in Nat /\ Len(g) \in Nat /\ Len(s) \in Nat
  BY QueueLengths
<1>3. Finished(x) /\ Finished(y) /\ x.in # <<>> /\ r[1] = "item" /\ Taken(y) = Taken(x)
  BY DEF HasItem, Finished, Taken
<1>4. m = Len(q)
  BY <1>1, <1>2 DEF ReaderOK, Stuck
<1>5. r \in Record
  BY <1>3, QueueLengths, HeadAndTail
<1>6. /\ At(x, g, m) \in Nat /\ At(x, g, m) + 1 > 2 /\ At(x, g, m) + 1 - 2 = Len(g) + m + 1
  BY <1>2, <1>3, PlaceOfItem
<1>7. At(y, g, m + 1) = At(x, g, m) + 1
  BY <1>2, <1>3, NextPlace, FlightNumbers
<1>8. /\ Says(z, s, n, r, At(x, g, m) + 1)
      /\ \A k \in 1 .. Len(y.in) : Says(z, s, n, y.in[k], At(y, g, m + 1) + k)
      /\ WireOK(z, x, w, s, g, n, m) => WireOK(z, y, w, s, g, n, m + 1)
  BY <1>1, <1>3, <1>6, <1>7, HeadTaken
<1> DEFINE a == At(x, g, m) + 1
<1>9. r = Data(a - 2) /\ a - 2 <= Len(s)
  <2>1. ~(a \in 1 .. 2) /\ r # Bye
    BY <1>3, <1>6 DEF Bye
  <2> HIDE DEF a
  <2>2. Says(z, s, n, r, a)
    BY <1>8 DEF a
  <2> QED BY <2>1, <2>2 DEF Says
<1>10. r = Data(Len(g) + (m + 1)) /\ Len(g) + (m + 1) <= Len(s)
  <2>1. a - 2 = Len(g) + (m + 1)
    BY <1>2, <1>6
  <2> QED BY <1>9, <2>1
<1> HIDE DEF q, r, a
<1>11. /\ Len(y.landReads) = m + 1 /\ m + 1 \in 0 .. Len(y.landReads)
       /\ \A k \in 1 .. m : y.landReads[k] = q[k]
       /\ y.landReads[m + 1] = r
  <2>1. y.landReads = Append(q, r)
    BY DEF q, r
  <2>2. /\ Len(Append(q, r)) = Len(q) + 1 /\ Append(q, r)[Len(q) + 1] = r
        /\ \A k \in 1 .. Len(q) : Append(q, r)[k] = q[k]
    BY <1>2, <1>5
  <2>3. m + 1 \in 0 .. m + 1
    BY <1>2
  <2> QED BY <1>4, <2>1, <2>2, <2>3
<1>12. \A k \in 1 .. m : q[k] = Data(Len(g) + k)
  BY <1>1, <1>2, <1>4 DEF ReaderOK, q
<1>13. \A k \in 1 .. m + 1 : y.landReads[k] = Data(Len(g) + k)
  BY <1>2, <1>10, <1>11, <1>12
<1>14. ReaderOK(z, y, s, g, n, m + 1)
  BY <1>2, <1>3, <1>8, <1>10, <1>11, <1>13 DEF ReaderOK
<1>15. Early(y) => WireOK(z, y, w, s, g, n, m + 1)
  BY <1>1, <1>8
<1>16. z.connects # y.connects /\ WriterOK(z, s, n)
  BY DEF Flow
<1> QED BY <1>11, <1>14, <1>15, <1>16 DEF Flow

\* A request is given nothing: the peer has said goodbye, or the connection
\* is lost, and no item is left.
LEMMA NoneTaken ==
    ASSUME NEW x \in HandleRecord, NEW y \in HandleRecord, NEW z \in HandleRecord,
           NEW w \in Seq(Record), NEW s \in Seq(Record), NEW g \in Seq(Record), NEW n \in Nat,
           Flow(z, x, w, s, g, n), Stuck(x), x.eof => y.eof,
           y.connects = x.connects, y.hs = x.hs, y.in = x.in,
           y.landReads = Append(x.landReads, None), Early(y) => Early(x)
    PROVE  Flow(z, y, w, s, g, n)
<1> DEFINE q == x.landReads
<1>1. PICK m \in 0 .. Len(q) : ReaderOK(z, x, s, g, n, m) /\ (Early(x) => WireOK(z, x, w, s, g, n, m))
  BY DEF Flow
<1>2. q \in Seq(Record) /\ Len(q) \in Nat /\ m \in Nat /\ m <= Len(q) /\ None \in Record
  BY <1>1, QueueLengths, OthersAreRecords
<1>3. Taken(y) = Taken(x) /\ (Finished(y) <=> Finished(x)) /\ Stuck(y)
  BY DEF Finished, Taken, Stuck, HasItem
<1>4. At(y, g, m) = At(x, g, m)
  BY <1>3 DEF At
<1>5. \A k \in 1 .. Len(q) : q[k] = IF k <= m THEN Data(Len(g) + k) ELSE None
  BY <1>1 DEF ReaderOK
<1>6. y.landReads = Append(q, None)
  OBVIOUS
<1> HIDE DEF q
<1>7. /\ Len(y.landReads) = Len(q) + 1
      /\ \A k \in 1 .. Len(q) + 1 : y.landReads[k] = IF k <= m THEN Data(Len(g) + k) ELSE None
  BY <1>2, <1>5, <1>6
<1>8. m \in 0 .. Len(y.landReads) /\ m <= Len(y.landReads)
  BY <1>2, <1>7
<1>9. /\ Len(g) + m <= Len(s) /\ (~Finished(y) => Len(g) + m = 0)
      /\ \A k \in 1 .. Len(y.in) : Says(z, s, n, y.in[k], At(y, g, m) + k)
  BY <1>1, <1>3, <1>4 DEF ReaderOK
<1>10. ReaderOK(z, y, s, g, n, m)
  BY <1>3, <1>7, <1>8, <1>9 DEF ReaderOK
<1>11. Early(y) => WireOK(z, y, w, s, g, n, m)
  BY <1>1, <1>4 DEF WireOK
<1> QED BY <1>8, <1>10, <1>11 DEF Flow

\* A callback gives the application the first of the reads that are ready: an
\* item, which is the oldest that it has not been given, or nothing.
LEMMA FirstLanded ==
    ASSUME NEW x \in HandleRecord, NEW y \in HandleRecord, NEW z \in HandleRecord,
           NEW w \in Seq(Record), NEW s \in Seq(Record), NEW g \in Seq(Record), NEW n \in Nat,
           Flow(z, x, w, s, g, n), x.landReads # <<>>, x.eof => y.eof,
           y.connects = x.connects, y.hs = x.hs, y.in = x.in,
           y.landReads = Tail(x.landReads), Early(y) => Early(x)
    PROVE  LET r == Head(x.landReads) IN
           /\ r = None => Flow(z, y, w, s, g, n)
           /\ r # None => /\ Flow(z, y, w, s, Append(g, r), n)
                          /\ Len(g) < Len(s) /\ r = s[Len(g) + 1]
<1> DEFINE q == x.landReads
           r == Head(q)
<1>1. PICK m \in 0 .. Len(q) : ReaderOK(z, x, s, g, n, m) /\ (Early(x) => WireOK(z, x, w, s, g, n, m))
  BY DEF Flow
<1>2. q \in Seq(Record) /\ q # <<>> /\ y.landReads = Tail(q)
  BY QueueLengths
<1>3. /\ Taken(y) = Taken(x) /\ Taken(x) \in Nat /\ (Finished(y) <=> Finished(x))
      /\ Stuck(x) => Stuck(y)
  BY FlightNumbers DEF Finished, Taken, Stuck, HasItem
<1>4. \A k \in 1 .. Len(q) : q[k] = IF k <= m THEN Data(Len(g) + k) ELSE None
  BY <1>1 DEF ReaderOK
<1>5. /\ m < Len(q) => Stuck(x)
      /\ Len(g) + m <= Len(s) /\ (~Finished(x) => Len(g) + m = 0)
      /\ \A k \in 1 .. Len(x.in) : Says(z, s, n, x.in[k], At(x, g, m) + k)
  BY <1>1 DEF ReaderOK
<1>6. WriterOK(z, s, n) /\ z.connects # y.connects
  BY DEF Flow
<1>7. \A i \in 1 .. Len(s) : s[i] = Data(i)
  BY <1>6 DEF WriterOK
<1> HIDE DEF q
<1>8. /\ Len(q) \in Nat /\ Len(q) >= 1 /\ q[1] = r /\ r \in Record
      /\ Len(Tail(q)) = Len(q) - 1
      /\ \A k \in 1 .. Len(q) - 1 : Tail(q)[k] = q[k + 1]
  BY <1>2, HeadAndTail
<1> HIDE DEF r
<1>9. m \in Nat /\ m <= Len(q) /\ Len(g) \in Nat /\ Len(s) \in Nat
  BY <1>8
<1>10. r = IF 1 <= m THEN Data(Len(g) + 1) ELSE None
  BY <1>4, <1>8
<1>11. CASE m = 0
  <2>1. r = None
    BY <1>10, <1>11
  <2>2. At(y, g, 0) = At(x, g, m)
    BY <1>3, <1>11 DEF At
  <2>3. Stuck(y)
    BY <1>3, <1>5, <1>8, <1>11
  <2>4. \A k \in 1 .. Len(q) - 1 : Tail(q)[k] = IF k <= 0 THEN Data(Len(g) + k) ELSE None
    BY <1>4, <1>8, <1>11
  <2>5. 0 \in 0 .. Len(y.landReads) /\ 0 <= Len(y.landReads)
    BY <1>2, <1>8
  <2>6. ReaderOK(z, y, s, g, n, 0)
    BY <1>2, <1>3, <1>5, <1>8, <1>11, <2>2, <2>3, <2>4, <2>5 DEF ReaderOK
  <2>7. Early(y) => WireOK(z, y, w, s, g, n, 0)
    BY <1>1, <2>2 DEF WireOK
  <2>8. Flow(z, y, w, s, g, n)
    BY <1>6, <2>5, <2>6, <2>7 DEF Flow
  <2> QED BY <2>1, <2>8 DEF r, q
<1>12. CASE m >= 1
  <2> DEFINE c == Append(g, r)
             l == m - 1
  <2>1. r = Data(Len(g) + 1) /\ r # None
    BY <1>10, <1>12 DEF Data, None
  <2>2. l \in Nat /\ m = l + 1 /\ Len(c) = Len(g) + 1 /\ Len(c) \in Nat /\ c \in Seq(Record)
    BY <1>8, <1>9, <1>12
  <2>3. Len(g) < Len(s) /\ r = s[Len(g) + 1]
    BY <1>5, <1>7, <1>9, <1>12, <2>1
  <2> HIDE DEF c, l
  <2>4. At(y, c, l) = At(x, g, m)
    BY <1>3, <1>9, <2>2, NextPlace
  <2>5. l < Len(Tail(q)) => Stuck(y)
    BY <1>3, <1>5, <1>8, <1>9, <2>2
  <2>6. \A k \in 1 .. Len(q) - 1 : Tail(q)[k] = IF k <= l THEN Data(Len(c) + k) ELSE None
    <3> SUFFICES ASSUME NEW k \in 1 .. Len(q) - 1
                 PROVE  Tail(q)[k] = IF k <= l THEN Data(Len(c) + k) ELSE None
      OBVIOUS
    <3>1. k + 1 \in 1 .. Len(q) /\ Tail(q)[k] = q[k + 1] /\ (k + 1 <= m <=> k <= l)
      BY <1>8, <1>9, <2>2
    <3>2. Len(g) + (k + 1) = Len(c) + k
      BY <1>8, <1>9, <2>2
    <3> QED BY <1>4, <3>1, <3>2
  <2>7. l \in 0 .. Len(y.landReads) /\ l <= Len(y.landReads) /\ Len(c) + l = Len(g) + m
    <3>1. Len(y.landReads) = Len(q) - 1
      BY <1>2, <1>8
    <3>2. l \in 0 .. Len(q) - 1 /\ l <= Len(q) - 1
      BY <1>8, <1>9, <2>2
    <3>3. Len(c) + l = Len(g) + m
      BY <1>9, <2>2
    <3> QED BY <3>1, <3>2, <3>3
  <2>8. ReaderOK(z, y, s, c, n, l)
    BY <1>2, <1>3, <1>5, <1>8, <2>4, <2>5, <2>6, <2>7 DEF ReaderOK
  <2>9. Early(y) => WireOK(z, y, w, s, c, n, l)
    BY <1>1, <2>4 DEF WireOK
  <2>10. Flow(z, y, w, s, c, n)
    BY <1>6, <2>7, <2>8, <2>9 DEF Flow
  <2> QED BY <2>1, <2>3, <2>10 DEF r, q, c
<1> QED BY <1>9, <1>11, <1>12

\* The first k records that are under way arrive.
LEMMA SomeArrive ==
    ASSUME NEW x \in HandleRecord, HandleOK(x), x.tcp = "open",
           NEW y \in HandleRecord, NEW z \in HandleRecord,
           NEW w \in Seq(Record), NEW s \in Seq(Record), NEW g \in Seq(Record), NEW n \in Nat,
           Flow(z, x, w, s, g, n), NEW k \in 1 .. Len(w),
           y.connects = x.connects, y.hs = x.hs, y.in = x.in \o SubSeq(w, 1, k),
           y.landReads = x.landReads
    PROVE  Flow(z, y, SubSeq(w, k + 1, Len(w)), s, g, n)
<1> DEFINE q == x.in
           a == SubSeq(w, 1, k)
           v == SubSeq(w, k + 1, Len(w))
<1>1. PICK m \in 0 .. Len(x.landReads) : ReaderOK(z, x, s, g, n, m) /\ WireOK(z, x, w, s, g, n, m)
  BY DEF Flow, Early
<1>2. /\ q \in Seq(Record) /\ Len(q) \in Nat /\ Len(w) \in Nat /\ k \in Nat /\ k <= Len(w)
      /\ Len(x.landReads) \in Nat /\ m \in Nat /\ Len(g) \in Nat
  BY QueueLengths
<1>3. /\ Taken(y) = Taken(x) /\ Taken(x) \in Nat /\ (Finished(y) <=> Finished(x))
  BY FlightNumbers DEF Finished, Taken
<1>4. At(y, g, m) = At(x, g, m) /\ At(x, g, m) \in Nat
  BY <1>2, <1>3 DEF At
<1> DEFINE h == At(x, g, m)
<1>5. \A i \in 1 .. Len(q) : Says(z, s, n, q[i], h + i)
  BY <1>1 DEF ReaderOK
<1>6. \A i \in 1 .. Len(w) : Says(z, s, n, w[i], h + Len(q) + i)
  BY <1>1 DEF WireOK
<1> HIDE DEF q, h
<1>7. /\ y.in = q \o a /\ a \in Seq(Record) /\ Len(a) = k
      /\ \A i \in 1 .. k : a[i] = w[i]
  BY <1>2 DEF q
<1>8. /\ v \in Seq(Record) /\ Len(v) = Len(w) - k
      /\ \A i \in 1 .. Len(w) - k : v[i] = w[k + i]
  BY <1>2
<1> HIDE DEF a, v
<1>9. /\ Len(y.in) = Len(q) + k
      /\ \A i \in 1 .. Len(q) : y.in[i] = q[i]
      /\ \A i \in 1 .. k : y.in[Len(q) + i] = a[i]
  <2>1. /\ Len(q \o a) = Len(q) + Len(a)
        /\ \A i \in 1 .. Len(q) : (q \o a)[i] = q[i]
        /\ \A i \in 1 .. Len(a) : (q \o a)[Len(q) + i] = a[i]
    BY <1>2, <1>7, ConcatParts
  <2>2. Len(a) = k /\ y.in = q \o a
    BY <1>7
  <2> QED BY <2>1, <2>2
<1>10. Stuck(x) => Stuck(y)
  <2>1. ASSUME q # <<>> PROVE y.in # <<>> /\ Head(y.in) = Head(q)
    <3>1. Len(q) # 0 /\ Head(q) = q[1]
      BY <1>2, <2>1
    <3>2. 1 \in 1 .. Len(q) /\ Len(q) + k # 0
      BY <1>2, <3>1
    <3>3. y.in[1] = q[1] /\ Len(y.in) # 0
      BY <1>9, <3>2
    <3>4. y.in # <<>> /\ Head(y.in) = y.in[1]
      BY <3>3
    <3> QED BY <3>1, <3>3, <3>4
  <2>2. ~x.eof
    BY DEF HandleOK
  <2> QED BY <1>3, <2>1, <2>2 DEF Stuck, HasItem, q, Bye
<1>11. h \in Nat
  BY <1>4 DEF h
<1>12. \A i \in 1 .. Len(y.in) : Says(z, s, n, y.in[i], h + i)
  <2> SUFFICES ASSUME NEW i \in 1 .. Len(q) + k PROVE Says(z, s, n, y.in[i], h + i)
    BY <1>9
  <2>1. CASE i \in 1 .. Len(q)
    BY <1>5, <1>9, <2>1
  <2>2. CASE ~(i \in 1 .. Len(q))
    <3>1. PICK j \in 1 .. k : i = Len(q) + j
      <4>1. i - Len(q) \in 1 .. k /\ i = Len(q) + (i - Len(q))
        BY <1>2, <2>2
      <4> QED BY <4>1
    <3>2. y.in[i] = w[j] /\ j \in 1 .. Len(w) /\ h + Len(q) + j = h + i
      <4>1. y.in[i] = w[j]
        BY <1>7, <1>9, <3>1
      <4>2. j \in 1 .. Len(w)
        BY <1>2, <3>1
      <4>3. h + Len(q) + j = h + (Len(q) + j)
        BY <1>2, <1>11, SumOfSums
      <4> QED BY <3>1, <4>1, <4>2, <4>3
    <3> QED BY <1>6, <3>2
  <2> QED BY <2>1, <2>2
<1>13. \A i \in 1 .. Len(v) : Says(z, s, n, v[i], h + Len(y.in) + i)
  <2> SUFFICES ASSUME NEW i \in 1 .. Len(w) - k PROVE Says(z, s, n, v[i], h + Len(y.in) + i)
    BY <1>8
  <2>1. k + i \in 1 .. Len(w) /\ h + Len(y.in) + i = h + Len(q) + (k + i)
    <3>1. h + (Len(q) + k) + i = h + Len(q) + (k + i)
      BY <1>2, <1>11, SumOfSums
    <3>2. k + i \in 1 .. Len(w)
      BY <1>2
    <3> QED BY <1>9, <3>1, <3>2
  <2> QED BY <1>6, <1>8, <2>1
<1>14. h + Len(y.in) + Len(v) = h + Len(q) + Len(w)
  <2>1. Len(y.in) = Len(q) + k /\ Len(v) = Len(w) - k
    BY <1>8, <1>9
  <2>2. PICK i \in Nat, j \in Nat : i = Len(q) /\ j = Len(w)
    BY <1>2
  <2>3. h + (i + k) + (j - k) = h + i + j
    BY <1>2, <1>11
  <2> QED BY <2>1, <2>2, <2>3
<1>15. ReaderOK(z, y, s, g, n, m)
  BY <1>1, <1>3, <1>4, <1>10, <1>12 DEF ReaderOK, h
<1>16. WireOK(z, y, v, s, g, n, m)
  BY <1>1, <1>4, <1>13, <1>14 DEF WireOK, h, q
<1> QED BY <1>15, <1>16 DEF Flow, v

-----------------------------------------------------------------------------
(* The stream that a handle writes.                                        *)

\* The first c records that wait to be sent are sent; of a reader whose
\* socket is closed it does not matter where they go.
LEMMA SomeSent ==
    ASSUME NEW x \in HandleRecord, NEW y \in HandleRecord, NEW z \in HandleRecord,
           NEW w \in Seq(Record), NEW s \in Seq(Record), NEW g \in Seq(Record), NEW n \in Nat,
           Flow(x, z, w, s, g, n), x.tcp # "closed", Unsent(x) \in Seq(Record),
           NEW c \in 0 .. Len(Unsent(x)), NEW v,
           y.connects = x.connects, y.hs = x.hs, y.wrote = x.wrote, y.tcp = x.tcp,
           Waits(y) = Waits(x), Unsent(y) = SubSeq(Unsent(x), c + 1, Len(Unsent(x))),
           Early(z) => v = w \o SubSeq(Unsent(x), 1, c)
    PROVE  Flow(y, z, v, s, g, n)
<1> DEFINE u == Unsent(x)
           a == SubSeq(u, 1, c)
           b == SubSeq(u, c + 1, Len(u))
<1>1. PICK m \in 0 .. Len(z.landReads) :
          ReaderOK(x, z, s, g, n, m) /\ (Early(z) => WireOK(x, z, w, s, g, n, m))
  BY DEF Flow
<1>2. /\ Given(y) = Given(x) /\ (Finished(y) <=> Finished(x))
      /\ \A r, j : Says(x, s, n, r, j) => Says(y, s, n, r, j)
  BY DEF Given, Finished, Says
<1>3. WriterOK(y, s, n)
  BY <1>2 DEF WriterOK, Flow
<1>4. ReaderOK(y, z, s, g, n, m)
  BY <1>1, <1>2 DEF ReaderOK
<1>5. ASSUME Early(z) PROVE WireOK(y, z, v, s, g, n, m)
  <2> DEFINE h == At(z, g, m) + Len(z.in)
  <2>1. Len(z.landReads) \in Nat /\ Len(z.in) \in Nat /\ Len(g) \in Nat /\ Taken(z) \in Nat
    BY QueueLengths, FlightNumbers
  <2>2. h \in Nat
    BY <2>1 DEF At
  <2>3. WireOK(x, z, w, s, g, n, m)
    BY <1>1, <1>5
  <2>4. /\ \A i \in 1 .. Len(w) : Says(x, s, n, w[i], h + i)
        /\ \A i \in 1 .. Len(u) : Says(x, s, n, u[i], h + Len(w) + i)
        /\ \/ h + Len(w) + Len(u) = Given(x) + Len(s)
           \/ h + Len(w) + Len(u) = 3 + Len(s) /\ Finished(x) /\ x.wrote = n
    BY <2>3 DEF WireOK
  <2>5. u \in Seq(Record) /\ c \in Nat /\ c <= Len(u) /\ Len(u) \in Nat /\ Len(w) \in Nat
    OBVIOUS
  <2>6. Unsent(y) = b /\ v = w \o a
    BY <1>5
  <2> HIDE DEF h, u
  <2>7. /\ a \in Seq(Record) /\ Len(a) = c /\ \A i \in 1 .. c : a[i] = u[i]
        /\ b \in Seq(Record) /\ Len(b) = Len(u) - c /\ \A i \in 1 .. Len(u) - c : b[i] = u[c + i]
    BY <2>5
  <2> HIDE DEF a, b
  <2>8. /\ Len(v) = Len(w) + Len(a)
        /\ \A i \in 1 .. Len(w) : v[i] = w[i]
        /\ \A i \in 1 .. Len(a) : v[Len(w) + i] = a[i]
    <3>1. /\ Len(w \o a) = Len(w) + Len(a)
          /\ \A i \in 1 .. Len(w) : (w \o a)[i] = w[i]
          /\ \A i \in 1 .. Len(a) : (w \o a)[Len(w) + i] = a[i]
      BY <2>7, ConcatParts
    <3>2. v = w \o a
      BY <2>6
    <3> QED BY <3>1, <3>2
  <2>9. \A i \in 1 .. Len(v) : Says(y, s, n, v[i], h + i)
    <3> SUFFICES ASSUME NEW i \in 1 .. Len(v) PROVE Says(x, s, n, v[i], h + i)
      BY <1>2
    <3>1. CASE i \in 1 .. Len(w)
      BY <2>4, <2>8, <3>1
    <3>2. CASE ~(i \in 1 .. Len(w))
      <4>1. PICK j \in 1 .. c : i = Len(w) + j
        <5>1. Len(v) = Len(w) + c
          BY <2>7, <2>8
        <5>2. i - Len(w) \in 1 .. c /\ i = Len(w) + (i - Len(w))
          BY <2>5, <3>2, <5>1
        <5> QED BY <5>2
      <4>2. v[i] = u[j]
        BY <2>7, <2>8, <4>1
      <4>3. j \in 1 .. Len(u)
        BY <2>5, <4>1
      <4>4. h + Len(w) + j = h + (Len(w) + j)
        BY <2>2, <2>5, SumOfSums
      <4> QED BY <2>4, <4>1, <4>2, <4>3, <4>4
    <3> QED BY <3>1, <3>2
  <2>10. \A i \in 1 .. Len(b) : Says(y, s, n, b[i], h + Len(v) + i)
    <3> SUFFICES ASSUME NEW i \in 1 .. Len(u) - c PROVE Says(x, s, n, b[i], h + Len(v) + i)
      BY <1>2, <2>7
    <3>1. h + (Len(w) + c) + i = h + Len(w) + (c + i)
      BY <2>2, <2>5, SumOfSums
    <3>2. c + i \in 1 .. Len(u)
      BY <2>5
    <3>3. Len(v) = Len(w) + c /\ b[i] = u[c + i]
      BY <2>7, <2>8
    <3> QED BY <2>4, <3>1, <3>2, <3>3
  <2>11. h + Len(v) + Len(b) = h + Len(w) + Len(u)
    <3>1. Len(v) = Len(w) + c /\ Len(b) = Len(u) - c
      BY <2>7, <2>8
    <3>2. h + (Len(w) + c) + (Len(u) - c) = h + Len(w) + Len(u)
      BY <2>2, <2>5
    <3> QED BY <3>1, <3>2
  <2> QED BY <1>2, <2>4, <2>6, <2>9, <2>10, <2>11 DEF WireOK, h
<1>6. z.connects # y.connects
  BY DEF Flow
<1> QED BY <1>1, <1>3, <1>4, <1>5, <1>6 DEF Flow

\* The session takes the next item: nothing waits, so it is the next in turn.
LEMMA ItemWritten ==
    ASSUME NEW x \in HandleRecord, HandleOK(x), x.tcp # "closed",
           NEW y \in HandleRecord, NEW z \in HandleRecord,
           NEW w \in Seq(Record), NEW s \in Seq(Record), NEW g \in Seq(Record), NEW n \in Nat,
           Flow(x, z, w, s, g, n), Finished(x), x.flyWrites = <<>>, x.wrote < n,
           y.connects = x.connects, y.tcp = x.tcp, y.hs = x.hs, y.wrote = x.wrote + 1,
           y.out = Append(x.out, Data(x.wrote + 1)), Sent(y) = Sent(x)
    PROVE  /\ Flow(y, z, w, Append(s, Data(x.wrote + 1)), g, n)
           /\ Data(x.wrote + 1) \in {Data(i) : i \in 1 .. n}
<1> DEFINE r == Data(x.wrote + 1)
           t == Append(s, r)
<1>1. x.wrote \in Nat /\ r \in Record
  BY FlightIsRecord DEF HandleRecord
<1>2. Waits(x) = <<>>
  <2>1. ~(x.connects /\ ~x.up)
    BY DEF HandleOK
  <2> QED BY <2>1 DEF Waits
<1>3. WriterOK(x, s, n)
  BY DEF Flow
<1>4. x.wrote = Len(s) /\ Len(s) \in Nat
  BY <1>1, <1>2, <1>3 DEF WriterOK
<1>5. Given(x) = 2 /\ Given(y) = 2 /\ Finished(y)
  BY FlightCounts DEF Finished, Given
<1>6. Unsent(x) \in Seq(Record) /\ Unsent(y) = Append(Unsent(x), r)
  BY <1>1, UnsentIsSeq, UnsentGrows
<1>7. r = Data(Len(s) + 1)
  BY <1>4
<1> HIDE DEF r
<1>8. /\ t \in Seq(Record) /\ Len(t) = Len(s) + 1 /\ t[Len(s) + 1] = r
      /\ \A i \in 1 .. Len(s) : t[i] = s[i]
  BY <1>1
<1> HIDE DEF t
<1>9. \A i \in 1 .. Len(t) : t[i] = Data(i)
  <2>1. \A i \in 1 .. Len(s) : s[i] = Data(i)
    BY <1>3 DEF WriterOK
  <2> QED BY <1>4, <1>7, <1>8, <2>1
<1>10. WriterOK(y, t, n)
  <2>1. y.wrote = Len(t)
    BY <1>4, <1>8
  <2> QED BY <1>5, <1>9, <2>1 DEF WriterOK
<1>11. SaysStill(y, t, x, s, n)
  <2> SUFFICES ASSUME NEW q, NEW j, Says(x, s, n, q, j) PROVE Says(y, t, n, q, j)
    BY DEF SaysStill
  <2>1. x.wrote # n
    BY <1>1
  <2>2. CASE j \in 1 .. 2 /\ q = Flight(IF x.connects THEN 2 * j - 1 ELSE 2 * j)
    BY <2>2 DEF Says
  <2>3. CASE j - 2 \in 1 .. Len(s) /\ q = Data(j - 2)
    <3>1. 1 .. Len(s) \subseteq 1 .. Len(t)
      BY <1>4, <1>8
    <3> QED BY <2>3, <3>1 DEF Says
  <2> QED BY <2>1, <2>2, <2>3 DEF Says
<1>12. SaysNext(y, t, x, s, n, r)
  <2> DEFINE j == Given(x) + Len(s) + 1
  <2>1. j - 2 = Len(s) + 1 /\ Given(y) + Len(t) = j
    BY <1>4, <1>5, <1>8
  <2>2. Len(s) + 1 \in 1 .. Len(t)
    BY <1>4, <1>8
  <2> HIDE DEF j
  <2>3. Says(y, t, n, r, j)
    BY <1>7, <2>1, <2>2 DEF Says
  <2> QED BY <2>1, <2>3 DEF SaysNext, j
<1>13. Len(s) <= Len(t) /\ ~(Finished(x) /\ x.wrote = n)
  BY <1>1, <1>4, <1>8
<1>14. Flow(y, z, w, t, g, n)
  BY <1>1, <1>6, <1>8, <1>10, <1>11, <1>12, <1>13, WriterAppends DEF r
<1>15. r \in {Data(i) : i \in 1 .. n}
  <2>1. x.wrote + 1 \in 1 .. n
    BY <1>1
  <2> QED BY <2>1 DEF r
<1> QED BY <1>14, <1>15 DEF r, t

\* Something waits, or the handshake is not done: the item waits as well.
LEMMA ItemWaits ==
    ASSUME NEW x \in HandleRecord, HandleOK(x), x.tcp # "closed",
           NEW y \in HandleRecord, NEW z \in HandleRecord, NEW r \in Record,
           NEW w, NEW s, NEW g, NEW n \in Nat,
           Flow(x, z, w, s, g, n), x.wrote < n,
           y.connects = x.connects, y.tcp = x.tcp, y.hs = x.hs, y.wrote = x.wrote + 1,
           y.up = x.up, y.flyWrites = Append(x.flyWrites, r),
           y.out = x.out, Sent(y) = Sent(x)
    PROVE  Flow(y, z, w, s, g, n)
<1>1. x.wrote \in Nat /\ x.wrote # n /\ x.flyWrites \in Seq(Record)
  BY DEF HandleRecord
<1>2. Unsent(y) = Unsent(x) /\ Given(y) = Given(x) /\ (Finished(y) <=> Finished(x))
  BY DEF Unsent, Given, Finished
<1>3. Waits(y) # <<>>
  <2> DEFINE q == x.flyWrites
  <2>1. x.connects /\ ~x.up => q # <<>>
    BY DEF HandleOK
  <2>2. y.flyWrites = Append(q, r) /\ q \in Seq(Record)
    BY <1>1
  <2> HIDE DEF q
  <2>3. Append(q, r) # <<>> /\ (q # <<>> => Tail(Append(q, r)) # <<>>)
    BY <2>2
  <2> QED BY <2>1, <2>2, <2>3 DEF Waits
<1>4. WriterOK(y, s, n)
  BY <1>2, <1>3 DEF Flow, WriterOK
<1>5. \A q, j : Says(x, s, n, q, j) => Says(y, s, n, q, j)
  BY <1>1 DEF Says
<1>6. ASSUME NEW m, ReaderOK(x, z, s, g, n, m) PROVE ReaderOK(y, z, s, g, n, m)
  BY <1>5, <1>6 DEF ReaderOK
<1>7. ASSUME NEW m, WireOK(x, z, w, s, g, n, m) PROVE WireOK(y, z, w, s, g, n, m)
  BY <1>1, <1>2, <1>5, <1>7 DEF WireOK
<1> QED BY <1>4, <1>6, <1>7 DEF Flow

\* The session says goodbye, after which the application writes no more.
LEMMA ByeWritten ==
    ASSUME NEW x \in HandleRecord, HandleOK(x), x.tcp # "closed",
           NEW y \in HandleRecord, NEW z \in HandleRecord,
           NEW w \in Seq(Record), NEW s \in Seq(Record), NEW g \in Seq(Record), NEW n \in Nat,
           Flow(x, z, w, s, g, n), Finished(x), x.wrote < n,
           y.connects = x.connects, y.tcp = x.tcp, y.hs = x.hs, y.wrote = n,
           y.out = Append(x.out, Bye), Sent(y) = Sent(x)
    PROVE  Flow(y, z, w, s, g, n)
<1>1. x.wrote \in Nat /\ x.wrote # n /\ Len(s) \in Nat
  <2>1. x.wrote \in Nat
    BY DEF HandleRecord
  <2> QED BY <2>1
<1>2. Given(x) = 2 /\ Given(y) = 2 /\ Finished(y)
  BY FlightCounts DEF Finished, Given
<1>3. Unsent(x) \in Seq(Record) /\ Unsent(y) = Append(Unsent(x), Bye)
  BY UnsentIsSeq, UnsentGrows, OthersAreRecords
<1>4. WriterOK(y, s, n)
  BY <1>2 DEF Flow, WriterOK
<1>5. SaysStill(y, s, x, s, n)
  BY <1>1 DEF SaysStill, Says
<1>6. SaysNext(y, s, x, s, n, Bye)
  <2> DEFINE j == Given(x) + Len(s) + 1
  <2>1. j = Len(s) + 3 /\ 3 + Len(s) = j
    BY <1>1, <1>2
  <2> HIDE DEF j
  <2>2. Says(y, s, n, Bye, j)
    BY <2>1 DEF Says
  <2> QED BY <1>2, <2>1, <2>2 DEF SaysNext, j
<1>7. Len(s) <= Len(s)
  BY <1>1
<1> QED BY <1>1, <1>3, <1>4, <1>5, <1>6, <1>7, WriterAppends, OthersAreRecords

-----------------------------------------------------------------------------
(* The steps, seen by the two streams of the handle that makes them.       *)

\* The streams of side e, if its handle were x.
View(x, e, w, s, g) ==
    Both(x, hnd[Peer(e)], w[e], s[e], g[Peer(e)], Items[e],
         w[Peer(e)], s[Peer(e)], g[e], Items[Peer(e)])

\* Each side has one peer.
LEMMA Peers ==
    ASSUME NEW e \in Side
    PROVE  /\ Peer(e) \in Side /\ Peer(e) # e /\ Peer(Peer(e)) = e
           /\ \A f \in Side : f = e \/ f = Peer(e)
           /\ Items[e] \in Nat /\ Items[Peer(e)] \in Nat
  BY TlsConstants DEF TlsConstants, Side, Peer

\* The types of what a step of one side looks at.
LEMMA HandleHere ==
    ASSUME TlsInv, NEW e \in Side
    PROVE  /\ hnd[e] \in HandleRecord /\ HandleOK(hnd[e]) /\ hnd[Peer(e)] \in HandleRecord
           /\ wire[e] \in Seq(Record) /\ put[e] \in Seq(Record) /\ got[e] \in Seq(Record)
           /\ wire[Peer(e)] \in Seq(Record) /\ put[Peer(e)] \in Seq(Record)
           /\ got[Peer(e)] \in Seq(Record)
           /\ NodeSize \in Nat
  BY Peers, TlsConstants DEF TlsInv, TlsTypeOK, TlsConstants

\* The invariant, for one side.
LEMMA ViewHere ==
    ASSUME FlowInv, NEW e \in Side
    PROVE  View(hnd[e], e, wire, put, got)
  BY Peers DEF FlowInv, View, Both

\* A step of one side keeps the invariant if it keeps the two streams.
LEMMA ViewSet ==
    ASSUME TlsInv, NEW e \in Side, NEW y, Set(e, y), View(y, e, wire', put', got')
    PROVE  FlowInv'
<1>1. hnd' = [hnd EXCEPT ![e] = y] /\ hnd \in [Side -> HandleRecord]
  BY DEF Set, TlsInv, TlsTypeOK
<1>2. hnd'[e] = y /\ hnd'[Peer(e)] = hnd[Peer(e)]
  BY <1>1, Peers
<1>3. Flow(hnd'[e], hnd'[Peer(e)], wire'[e], put'[e], got'[Peer(e)], Items[e])
  BY <1>2 DEF View, Both
<1>4. Flow(hnd'[Peer(e)], hnd'[Peer(Peer(e))], wire'[Peer(e)], put'[Peer(e)], got'[Peer(Peer(e))], Items[Peer(e)])
  BY <1>2, Peers DEF View, Both
<1>5. \A f \in Side : f = e \/ f = Peer(e)
  BY Peers
<1> QED BY <1>3, <1>4, <1>5 DEF FlowInv

\* A part of a callback that neither stream sees.
LEMMA ViewSame ==
    ASSUME TlsInv, NEW e \in Side, NEW x \in HandleRecord, NEW y \in HandleRecord,
           NEW w, NEW s, NEW g, View(x, e, w, s, g), Same(y, x)
    PROVE  View(y, e, w, s, g)
  BY HandleHere, SameFlows DEF View, Both

\* A step that neither stream sees.
LEMMA SameStep ==
    ASSUME TlsInv, FlowInv, NEW e \in Side, NEW y \in HandleRecord, Set(e, y), Same(y, hnd[e]),
           UNCHANGED <<wire, put, got>>
    PROVE  FlowInv'
<1>1. View(y, e, wire, put, got)
  BY ViewHere, ViewSame, HandleHere
<1>2. View(y, e, wire', put', got')
  BY <1>1 DEF View
<1> QED BY <1>2, ViewSet

\* Closing, failing and returning.
LEMMA CloseFlows ==
    ASSUME TlsInv, FlowInv, NEW e \in Side,
           Close(e) \/ Return(e) \/ ConnectFails(e) \/ HelloDone(e) \/ TcpLost(e) \/ SocketFails(e)
    PROVE  FlowInv'
<1> DEFINE x == hnd[e]
<1>x. x \in HandleRecord /\ HandleOK(x)
  BY HandleHere
<1> HIDE DEF x
<1>0. UNCHANGED <<wire, put, got>>
  BY DEF Close, Return, ConnectFails, HelloDone, TcpLost, SocketFails
<1>1. ASSUME NEW y \in HandleRecord, Set(e, y), Same(y, x) PROVE FlowInv'
  BY <1>0, <1>1, SameStep DEF x
<1>2. CASE Close(e) \/ TcpLost(e) \/ SocketFails(e)
  <2> DEFINE y == [x EXCEPT !.tcp = "closing"]
  <2>1. Set(e, y) /\ x.tcp # "closed"
    BY <1>2 DEF Close, TcpLost, SocketFails, x
  <2>2. y \in HandleRecord
    BY <1>x DEF HandleRecord
  <2>3. /\ y.connects = x.connects /\ y.hs = x.hs /\ y.wrote = x.wrote
        /\ y.landReads = x.landReads /\ y.in = x.in /\ y.eof = x.eof /\ y.tcp = "closing"
        /\ y.out = x.out /\ y.commit = x.commit /\ y.flyWrites = x.flyWrites /\ y.up = x.up
        /\ y.pc = x.pc /\ y.then = x.then /\ y.cont = x.cont
    BY <1>x DEF HandleRecord
  <2> HIDE DEF y
  <2>4. Sent(y) = Sent(x)
    BY <2>3 DEF Sent, Stage
  <2>5. Same(y, x)
    BY <2>1, <2>3, <2>4, SameParts DEF Early
  <2> QED BY <1>1, <2>1, <2>2, <2>5
<1>3. CASE Return(e)
  <2> DEFINE y == [x EXCEPT !.pc = x.then, !.then = "idle"]
  <2>1. Set(e, y) /\ x.pc = "call" /\ x.then \in Stages
    BY <1>x, <1>3 DEF Return, x, HandleRecord
  <2>2. y \in HandleRecord
    BY <1>x, <2>1 DEF HandleRecord, Stages
  <2>3. /\ y.connects = x.connects /\ y.hs = x.hs /\ y.wrote = x.wrote
        /\ y.landReads = x.landReads /\ y.in = x.in /\ y.eof = x.eof /\ y.tcp = x.tcp
        /\ y.out = x.out /\ y.commit = x.commit /\ y.flyWrites = x.flyWrites /\ y.up = x.up
        /\ y.pc = x.then /\ y.cont = x.cont
    BY <1>x DEF HandleRecord
  <2> HIDE DEF y
  <2>4. Sent(y) = Sent(x)
    BY <2>1, <2>3 DEF Sent, Stage, Stages
  <2>5. Same(y, x)
    BY <2>3, <2>4, SameParts DEF Early
  <2> QED BY <1>1, <2>1, <2>2, <2>5
<1>4. CASE ConnectFails(e)
  <2> DEFINE y == [x EXCEPT !.tcp = "closing", !.write = "no"]
  <2>1. Set(e, CopyFlag(y)) /\ x.tcp = "connecting"
    BY <1>4 DEF ConnectFails, x
  <2>2. y \in HandleRecord
    BY <1>x DEF HandleRecord, Transfer
  <2>3. /\ y.connects = x.connects /\ y.hs = x.hs /\ y.wrote = x.wrote
        /\ y.landReads = x.landReads /\ y.in = x.in /\ y.eof = x.eof /\ y.tcp = "closing"
        /\ y.out = x.out /\ y.commit = x.commit /\ y.flyWrites = x.flyWrites /\ y.up = x.up
        /\ y.pc = x.pc /\ y.then = x.then /\ y.cont = x.cont
    BY <1>x DEF HandleRecord
  <2> HIDE DEF y
  <2>4. Sent(y) = Sent(x)
    BY <2>3 DEF Sent, Stage
  <2>5. Same(y, x)
    BY <2>1, <2>3, <2>4, SameParts DEF Early
  <2>6. CopyFlag(y) \in HandleRecord /\ Same(CopyFlag(y), x)
    BY <2>2, <2>5, CopyFlagSame, SameSteps
  <2> QED BY <1>1, <2>1, <2>6
<1>5. CASE HelloDone(e)
  <2> DEFINE z == [x EXCEPT !.pc = "idle"]
             y == PostRead(z)
  <2>1. x.pc = "hello" /\ (Set(e, CopyFlag(y)) \/ Set(e, y))
    BY <1>5 DEF HelloDone, x
  <2>2. z \in HandleRecord
    BY <1>x DEF HandleRecord, Stages
  <2>3. /\ z.connects = x.connects /\ z.hs = x.hs /\ z.wrote = x.wrote
        /\ z.landReads = x.landReads /\ z.in = x.in /\ z.eof = x.eof /\ z.tcp = x.tcp
        /\ z.out = x.out /\ z.commit = x.commit /\ z.flyWrites = x.flyWrites /\ z.up = x.up
        /\ z.pc = "idle" /\ z.then = x.then /\ z.cont = x.cont
    BY <1>x DEF HandleRecord
  <2> HIDE DEF z
  <2>4. Sent(z) = Sent(x)
    BY <2>1, <2>3 DEF Sent, Stage
  <2>5. Same(z, x)
    BY <2>3, <2>4, SameParts DEF Early
  <2>6. y \in HandleRecord /\ Same(y, x)
    BY <2>2, <2>5, PostReadSame, SameSteps
  <2> HIDE DEF y
  <2>7. CopyFlag(y) \in HandleRecord /\ Same(CopyFlag(y), x)
    BY <2>6, CopyFlagSame, SameSteps
  <2> QED BY <1>1, <2>1, <2>6, <2>7
<1> QED BY <1>2, <1>3, <1>4, <1>5

\* What a handle sends and has been sent is still the same.
Still(y, x) ==
    /\ y.connects = x.connects /\ y.hs = x.hs /\ y.wrote = x.wrote
    /\ y.landReads = x.landReads /\ y.in = x.in /\ (x.eof => y.eof)
    /\ y.out = x.out /\ y.flyWrites = x.flyWrites /\ y.up = x.up

\* Such a handle is the same for the streams, unless what is sent changes.
LEMMA StillSame ==
    ASSUME NEW x, NEW y, Still(y, x), Early(y) => Early(x),
           y.tcp # "closed" => x.tcp # "closed" /\ Sent(y) = Sent(x)
    PROVE  Same(y, x)
  BY SameParts DEF Still

\* What was under way on a lost connection fails.
LEMMA FailFlows ==
    ASSUME TlsInv, FlowInv, NEW e \in Side, TcpReadFails(e) \/ TcpWriteFails(e)
    PROVE  FlowInv'
<1> DEFINE x == hnd[e]
<1>x. x \in HandleRecord /\ HandleOK(x)
  BY HandleHere
<1> HIDE DEF x
<1>1. ASSUME NEW y \in HandleRecord, Set(e, y), Same(y, x) PROVE FlowInv'
  BY <1>1, SameStep DEF x, TcpReadFails, TcpWriteFails
<1>2. CASE TcpReadFails(e)
  <2> DEFINE y == CopyFlag(x)
             z == [y EXCEPT !.read = "dead", !.eof = TRUE]
             a == [z EXCEPT !.pc = "pop", !.more = TRUE, !.cont = "end"]
  <2>0. z.pc = "idle" /\ z.tcp = "closing" /\ (Set(e, a) \/ Set(e, z))
    BY <1>2 DEF TcpReadFails, x
  <2>1. y \in HandleRecord /\ Same(y, x)
    BY <1>x, CopyFlagSame
  <2> HIDE DEF y
  <2>2. z \in HandleRecord /\ Still(z, y) /\ z.tcp = y.tcp /\ z.pc = y.pc
    BY <2>1 DEF HandleRecord, Transfer, Still
  <2> HIDE DEF z
  <2>3. a \in HandleRecord /\ Still(a, z) /\ a.tcp = z.tcp /\ a.pc = "pop"
    BY <2>2 DEF HandleRecord, Stages, Still
  <2> HIDE DEF a
  <2>4. Sent(z) = 0 /\ Sent(y) = 0 /\ Sent(a) = 0
    BY <2>0, <2>2, <2>3 DEF Sent, Stage
  <2>5. Same(z, y) /\ Same(a, z)
    BY <2>0, <2>2, <2>3, <2>4, StillSame DEF Early
  <2>6. Same(z, x) /\ Same(a, x)
    BY <2>1, <2>5, SameSteps
  <2> QED BY <1>1, <2>0, <2>2, <2>3, <2>6
<1>3. CASE TcpWriteFails(e)
  <2> DEFINE z == [x EXCEPT !.write = "dead"]
             a == [z EXCEPT !.pc = "written", !.cont = "end"]
  <2>0. z.pc = "idle" /\ z.tcp = "closing" /\ (Set(e, a) \/ Set(e, CopyFlag(z)))
    BY <1>3 DEF TcpWriteFails, x
  <2>1. z \in HandleRecord /\ Still(z, x) /\ z.tcp = x.tcp /\ z.pc = x.pc
    BY <1>x DEF HandleRecord, Transfer, Still
  <2> HIDE DEF z
  <2>2. a \in HandleRecord /\ Still(a, z) /\ a.tcp = z.tcp /\ a.pc = "written" /\ a.cont = "end"
    BY <2>1 DEF HandleRecord, Stages, Still
  <2> HIDE DEF a
  <2>3. Sent(z) = 0 /\ Sent(x) = 0 /\ Sent(a) = 0
    BY <2>0, <2>1, <2>2 DEF Sent, Stage
  <2>4. Same(z, x) /\ Same(a, z)
    BY <2>0, <2>1, <2>2, <2>3, StillSame DEF Early
  <2>5. Same(a, x)
    BY <2>4, SameSteps
  <2>6. CopyFlag(z) \in HandleRecord /\ Same(CopyFlag(z), x)
    BY <2>1, <2>4, CopyFlagSame, SameSteps
  <2> QED BY <1>1, <2>0, <2>2, <2>5, <2>6
<1> QED BY <1>2, <1>3

\* The close callback: what is under way to the handle is lost.
LEMMA ClosedFlows ==
    ASSUME TlsInv, FlowInv, NEW e \in Side, TcpClosed(e)
    PROVE  FlowInv'
<1> DEFINE x == hnd[e]
           z == [x EXCEPT !.tcp = "closed", !.pc = "end1"]
           y == CopyFlag(z)
<1>x. x \in HandleRecord /\ HandleOK(x)
  BY HandleHere
<1>1. Set(e, y) /\ UNCHANGED <<put, got>> /\ wire' = [wire EXCEPT ![Peer(e)] = <<>>]
  BY DEF TcpClosed, ClosingFlag
<1>v. View(x, e, wire, put, got)
  BY ViewHere
<1> HIDE DEF x
<1>2. z \in HandleRecord /\ Still(z, x) /\ z.tcp = "closed"
  BY <1>x DEF HandleRecord, Stages, Still
<1> HIDE DEF z
<1>3. Same(z, x)
  BY <1>2, StillSame DEF Early
<1>4. y \in HandleRecord /\ Same(y, x) /\ y.tcp = "closed"
  <2>1. y.tcp = z.tcp
    BY <1>2 DEF CopyFlag, HandleRecord
  <2> QED BY <1>2, <1>3, <2>1, CopyFlagSame, SameSteps
<1> HIDE DEF y
<1>5. View(y, e, wire, put, got)
  BY <1>x, <1>v, <1>4, ViewSame
<1>6. wire'[e] = wire[e]
  BY <1>1, Peers DEF TlsInv, TlsTypeOK
<1>7. View(y, e, wire', put', got')
  BY <1>1, <1>4, <1>5, <1>6, LostWire DEF View, Both, Early
<1> QED BY <1>1, <1>7, ViewSet

\* onWrite(): what has been sent leaves the buffer, and the next is posted.
LEMMA LandWritesFlows ==
    ASSUME TlsInv, FlowInv, NEW e \in Side, LandWrites(e)
    PROVE  FlowInv'
<1> DEFINE x == hnd[e]
           c == [x EXCEPT !.landWrites = @ - 1, !.pc = "call", !.then = "written"]
           i == [x EXCEPT !.pc = "idle", !.cont = "none"]
<1>x. x \in HandleRecord /\ HandleOK(x)
  BY HandleHere
<1> HIDE DEF x
<1>0. x.pc = "written" /\ UNCHANGED <<wire, put, got>>
  BY DEF LandWrites, x
<1>1. x.tcp # "closed" /\ NodeSize \in Nat
  BY <1>x, <1>0, HandleHere DEF HandleOK, Stage, Ends
<1>2. \/ x.landWrites > 0 /\ Set(e, c)
      \/ x.cont = "written" /\ Set(e, PostWrite(Commit(i)))
      \/ x.cont # "written" /\ Set(e, CopyFlag(i))
  BY DEF LandWrites, x
<1>3. ASSUME NEW y \in HandleRecord, Set(e, y), Same(y, x) PROVE FlowInv'
  BY <1>0, <1>3, SameStep DEF x
<1>4. i \in HandleRecord /\ Still(i, x) /\ i.tcp = x.tcp /\ i.pc = "idle"
  BY <1>x DEF HandleRecord, Stages, Still
<1>5. CASE x.landWrites > 0 /\ Set(e, c)
  <2>1. x.landWrites - 1 \in Nat
    BY <1>x, <1>5 DEF HandleRecord
  <2>2. c \in HandleRecord /\ Still(c, x) /\ c.tcp = x.tcp /\ Stage(c) = "written"
        /\ c.cont = x.cont /\ c.commit = x.commit
    BY <1>x, <2>1 DEF HandleRecord, Stages, Still, Stage
  <2> HIDE DEF c
  <2>3. Sent(c) = Sent(x)
    BY <1>0, <2>2 DEF Sent, Stage
  <2>4. Same(c, x)
    BY <2>2, <2>3, StillSame DEF Early
  <2> QED BY <1>3, <1>5, <2>2, <2>4
<1>6. CASE x.cont = "written" /\ Set(e, PostWrite(Commit(i)))
  <2>1. Same(Commit(i), x)
    BY <1>x, <1>0, <1>1, <1>6, CommitSame DEF Stage
  <2> HIDE DEF i
  <2>2. HandleOK(i)
    BY <1>x, <1>0, <1>1 DEF HandleRecord, HandleOK, Stage, Ends, i
  <2>3. Commit(i) \in HandleRecord /\ HandleOK(Commit(i))
    BY <1>4, <2>2, CommitKeeps DEF Stage
  <2>4. PostWrite(Commit(i)) \in HandleRecord /\ Same(PostWrite(Commit(i)), Commit(i))
    BY <1>1, <2>3, PostWriteKeeps, PostWriteSame
  <2> QED BY <1>3, <1>6, <2>1, <2>4, SameSteps
<1>7. CASE x.cont # "written" /\ Set(e, CopyFlag(i))
  <2> HIDE DEF i
  <2>1. Sent(i) = 0 /\ Sent(x) = 0
    BY <1>0, <1>4, <1>7 DEF Sent, Stage
  <2>2. Same(i, x)
    BY <1>4, <2>1, StillSame DEF Early
  <2>3. CopyFlag(i) \in HandleRecord /\ Same(CopyFlag(i), x)
    BY <1>4, <2>2, CopyFlagSame, SameSteps
  <2> QED BY <1>3, <1>7, <2>3
<1> QED BY <1>2, <1>5, <1>6, <1>7

\* onClose(): the queues are handed back, and at last the buffers emptied.
LEMMA EndQueuesFlows ==
    ASSUME TlsInv, FlowInv, NEW e \in Side, EndQueues(e)
    PROVE  FlowInv'
<1> DEFINE x == hnd[e]
<1>x. x \in HandleRecord /\ HandleOK(x)
  BY HandleHere
<1>v. View(x, e, wire, put, got)
  BY ViewHere
<1> HIDE DEF x
<1>0. UNCHANGED <<wire, put, got>> /\ x.pc \in {"end2", "end3", "end4"}
  BY DEF EndQueues, x
<1>1. x.tcp = "closed" /\ x.landReads = <<>>
  BY <1>x, <1>0 DEF HandleOK, Stage, Ends
<1>2. ASSUME NEW y \in HandleRecord, Set(e, y), y.connects = x.connects, y.hs = x.hs,
             y.wrote = x.wrote, y.tcp = "closed", y.landReads = <<>>,
             y.in = x.in \/ y.in = <<>>, x.eof => y.eof
      PROVE  FlowInv'
  <2>1. Flow(y, hnd[Peer(e)], wire[e], put[e], got[Peer(e)], Items[e])
    <3>1. Given(y) = Given(x) /\ (Finished(x) => Finished(y))
      BY <1>2 DEF Given, Finished
    <3> QED BY <1>x, <1>v, <1>2, <3>1, HandleHere, SameWriter DEF View, Both
  <2>2. Flow(hnd[Peer(e)], y, wire[Peer(e)], put[Peer(e)], got[e], Items[Peer(e)])
    <3>1. CASE y.in = <<>>
      BY <1>x, <1>v, <1>1, <1>2, <3>1, HandleHere, EmptiedReader DEF View, Both, Early
    <3>2. CASE y.in = x.in
      <4>1. Taken(y) = Taken(x) /\ (Finished(x) => Finished(y)) /\ (Stuck(x) => Stuck(y))
        BY <1>2, <3>2 DEF Taken, Finished, Stuck, HasItem
      <4> QED BY <1>x, <1>v, <1>1, <1>2, <3>2, <4>1, HandleHere, SameReader DEF View, Both, Early
    <3> QED BY <1>2, <3>1, <3>2
  <2>3. View(y, e, wire', put', got')
    BY <1>0, <2>1, <2>2 DEF View, Both
  <2> QED BY <1>2, <2>3, ViewSet
<1> DEFINE c2 == [x EXCEPT !.landWrites = @ - 1, !.pc = "call", !.then = "end2"]
           n2 == [x EXCEPT !.pc = "end3"]
           c3 == [x EXCEPT !.flyWrites = Tail(@), !.pc = "call", !.then = "end3"]
           n3 == [x EXCEPT !.pc = "end4"]
           c4 == [x EXCEPT !.flyReads = @ - 1, !.pc = "call", !.then = "end4"]
           n4 == [x EXCEPT !.pc = "closed", !.in = <<>>, !.out = <<>>]
           To == {c2, n2, c3, n3, c4, CopyFlag(n4)}
           Like(y) == /\ y.connects = x.connects /\ y.hs = x.hs /\ y.wrote = x.wrote
                      /\ y.tcp = x.tcp /\ y.landReads = x.landReads /\ y.eof = x.eof
                      /\ y.in = x.in \/ y.in = <<>>
<1>3. \A y \in To : Like(y)
  <2>1. /\ n4.connects = x.connects /\ n4.hs = x.hs /\ n4.wrote = x.wrote /\ n4.tcp = x.tcp
        /\ n4.landReads = x.landReads /\ n4.in = <<>> /\ n4.eof = x.eof
    BY <1>x DEF HandleRecord
  <2>2. n4 \in HandleRecord
    <3>1. <<>> \in Seq(Record)
      OBVIOUS
    <3> QED BY <1>x, <3>1 DEF HandleRecord, Stages
  <2> HIDE DEF n4
  <2>3. Like(CopyFlag(n4))
    BY <2>1, <2>2 DEF CopyFlag, HandleRecord
  <2>4. Like(c2) /\ Like(n2)
    BY <1>x DEF HandleRecord
  <2>5. Like(c3) /\ Like(n3)
    BY <1>x DEF HandleRecord
  <2>6. Like(c4)
    BY <1>x DEF HandleRecord
  <2> HIDE DEF c2, n2, c3, n3, c4, Like
  <2> QED BY <2>3, <2>4, <2>5, <2>6
<1>4. \E y \in To : Set(e, y)
  <2> DEFINE y2 == IF x.landWrites > 0 THEN c2 ELSE n2
             y3 == IF x.flyWrites # <<>> THEN c3 ELSE n3
             y4 == IF x.flyReads > 0 THEN c4 ELSE CopyFlag(n4)
  <2>1. Set(e, y2) \/ Set(e, y3) \/ Set(e, y4)
    BY DEF EndQueues, x
  <2> HIDE DEF c2, n2, c3, n3, c4, n4
  <2>2. y2 \in To /\ y3 \in To /\ y4 \in To
    OBVIOUS
  <2> QED BY <2>1, <2>2
<1> HIDE DEF To
<1>5. PICK y \in To : Set(e, y)
  BY <1>4
<1>6. hnd'[e] = y /\ hnd' \in [Side -> HandleRecord]
  BY <1>5, EndQueuesKeeps DEF Set, TlsInv, TlsTypeOK
<1>7. Like(y) /\ y \in HandleRecord
  BY <1>3, <1>6
<1> QED BY <1>1, <1>2, <1>5, <1>7

\* A callback of the application is given the oldest item it has not had yet.
LEMMA LandReadsFlows ==
    ASSUME TlsInv, FlowInv, NEW e \in Side, LandReads(e) \/ EndReads(e)
    PROVE  FlowInv'
<1> DEFINE x == hnd[e]
<1>x. x \in HandleRecord /\ HandleOK(x)
  BY HandleHere
<1>v. View(x, e, wire, put, got)
  BY ViewHere
<1> HIDE DEF x
<1>0. UNCHANGED <<wire, put>>
  BY DEF LandReads, EndReads
<1>1. ASSUME NEW y \in HandleRecord, Set(e, y), x.landReads # <<>>, y.landReads = Tail(x.landReads),
             Landed(e, Head(x.landReads)), Stage(y) = Stage(x),
             y.connects = x.connects, y.hs = x.hs, y.wrote = x.wrote, y.in = x.in, y.eof = x.eof,
             y.tcp = x.tcp, y.out = x.out, y.flyWrites = x.flyWrites, y.up = x.up,
             y.cont = x.cont, y.commit = x.commit
      PROVE  FlowInv'
  <2>1. Flow(y, hnd[Peer(e)], wire[e], put[e], got[Peer(e)], Items[e])
    <3>1. Given(y) = Given(x) /\ (Finished(x) => Finished(y))
      BY <1>1 DEF Given, Finished
    <3>2. Unsent(y) = Unsent(x) /\ Waits(y) = Waits(x)
      BY <1>1 DEF Unsent, Sent, Waits
    <3> QED BY <1>x, <1>v, <1>1, <3>1, <3>2, HandleHere, SameWriter DEF View, Both
  <2> DEFINE r == Head(x.landReads)
             h == hnd[Peer(e)]
             w == wire[Peer(e)]
             s == put[Peer(e)]
             g == got[e]
             n == Items[Peer(e)]
  <2>2. Flow(h, x, w, s, g, n)
    BY <1>v DEF View, Both
  <2>3. h \in HandleRecord /\ w \in Seq(Record) /\ s \in Seq(Record) /\ g \in Seq(Record) /\ n \in Nat
    BY HandleHere, Peers
  <2> HIDE DEF h, w, s, g, n
  <2>4. (r = None => Flow(h, y, w, s, g, n)) /\ (r # None => Flow(h, y, w, s, Append(g, r), n))
    BY <1>x, <1>1, <2>2, <2>3, FirstLanded DEF Early
  <2>5. got' = IF r = None THEN got ELSE [got EXCEPT ![e] = Append(@, r)]
    BY <1>1 DEF Landed
  <2> HIDE DEF r
  <2>6. got'[Peer(e)] = got[Peer(e)] /\ got'[e] = IF r = None THEN g ELSE Append(g, r)
    BY <2>5, Peers DEF TlsInv, TlsTypeOK, g
  <2>7. Flow(h, y, w, s, got'[e], n)
    BY <2>4, <2>6
  <2>8. View(y, e, wire', put', got')
    BY <1>0, <2>1, <2>6, <2>7 DEF View, Both, h, w, s, n
  <2> QED BY <1>1, <2>8, ViewSet
<1>2. ASSUME NEW y \in HandleRecord, Set(e, y), Same(y, x), UNCHANGED got PROVE FlowInv'
  BY <1>0, <1>2, SameStep DEF x
<1>3. CASE LandReads(e)
  <2> DEFINE c == [x EXCEPT !.landReads = Tail(@), !.pc = "call", !.then = "land"]
             p == [x EXCEPT !.pc = "pop"]
  <2>0. x.pc = "land"
    BY <1>3 DEF LandReads, x
  <2>1. x.tcp # "closed" /\ x.cont \in {"read", "hello", "end"}
    BY <1>x, <2>0 DEF HandleOK, Stage, Ends
  <2>2. \/ x.landReads # <<>> /\ Set(e, c) /\ Landed(e, Head(x.landReads))
        \/ Set(e, p) /\ UNCHANGED got
        \/ Set(e, DoneReading(x)) /\ UNCHANGED got
    BY <1>3 DEF LandReads, x
  <2>3. CASE x.landReads # <<>> /\ Set(e, c) /\ Landed(e, Head(x.landReads))
    <3>1. Tail(x.landReads) \in Seq(Record)
      BY <1>x, <2>3, QueueLengths, HeadAndTail
    <3>2. c \in HandleRecord
      BY <1>x, <3>1 DEF HandleRecord, Stages
    <3>3. /\ c.landReads = Tail(x.landReads) /\ Stage(c) = Stage(x)
          /\ c.connects = x.connects /\ c.hs = x.hs /\ c.wrote = x.wrote /\ c.in = x.in
          /\ c.eof = x.eof /\ c.tcp = x.tcp /\ c.out = x.out /\ c.flyWrites = x.flyWrites
          /\ c.up = x.up /\ c.cont = x.cont /\ c.commit = x.commit
      BY <1>x, <2>0 DEF HandleRecord, Stage
    <3> HIDE DEF c
    <3> QED BY <1>1, <2>3, <3>2, <3>3
  <2>4. CASE Set(e, p) /\ UNCHANGED got
    <3>1. p \in HandleRecord /\ Still(p, x) /\ p.tcp = x.tcp /\ p.pc = "pop"
      BY <1>x DEF HandleRecord, Stages, Still
    <3> HIDE DEF p
    <3>2. Sent(p) = 0 /\ Sent(x) = 0
      BY <2>0, <3>1 DEF Sent, Stage
    <3>3. Same(p, x)
      BY <3>1, <3>2, StillSame DEF Early
    <3> QED BY <1>2, <2>4, <3>1, <3>3
  <2>5. CASE Set(e, DoneReading(x)) /\ UNCHANGED got
    <3> DEFINE y == [x EXCEPT !.pc = "idle", !.more = FALSE, !.cont = "none"]
               r == [y EXCEPT !.read = "no"]
               h == [y EXCEPT !.pc = "hello"]
    <3>1. DoneReading(x) = PostRead(r) \/ DoneReading(x) = h \/ DoneReading(x) = y
      BY <2>1 DEF DoneReading
    <3>2. y \in HandleRecord /\ Still(y, x) /\ y.tcp = x.tcp /\ y.pc = "idle"
      BY <1>x DEF HandleRecord, Stages, Still
    <3> HIDE DEF y
    <3>3. r \in HandleRecord /\ Still(r, x) /\ r.tcp = x.tcp /\ r.pc = "idle"
      BY <3>2 DEF HandleRecord, Transfer, Still
    <3>4. h \in HandleRecord /\ Still(h, x) /\ h.tcp = x.tcp /\ h.pc = "hello"
      BY <3>2 DEF HandleRecord, Stages, Still
    <3> HIDE DEF r, h
    <3>5. Sent(x) = 0 /\ Sent(y) = 0 /\ Sent(r) = 0 /\ Sent(h) = 0
      BY <2>0, <3>2, <3>3, <3>4 DEF Sent, Stage
    <3>6. Same(y, x) /\ Same(r, x) /\ Same(h, x)
      BY <3>2, <3>3, <3>4, <3>5, StillSame DEF Early
    <3>7. PostRead(r) \in HandleRecord /\ Same(PostRead(r), x)
      BY <3>3, <3>6, PostReadSame, SameSteps
    <3> QED BY <1>2, <2>5, <3>1, <3>2, <3>4, <3>6, <3>7
  <2> QED BY <2>2, <2>3, <2>4, <2>5
<1>4. CASE EndReads(e)
  <2> DEFINE c == [x EXCEPT !.landReads = Tail(@), !.pc = "call", !.then = "end1"]
             p == [x EXCEPT !.pc = "end2"]
  <2>0. x.pc = "end1"
    BY <1>4 DEF EndReads, x
  <2>1. \/ x.landReads # <<>> /\ Set(e, c) /\ Landed(e, Head(x.landReads))
        \/ Set(e, p) /\ UNCHANGED got
    BY <1>4 DEF EndReads, x
  <2>2. CASE x.landReads # <<>> /\ Set(e, c) /\ Landed(e, Head(x.landReads))
    <3>1. Tail(x.landReads) \in Seq(Record)
      BY <1>x, <2>2, QueueLengths, HeadAndTail
    <3>2. c \in HandleRecord
      BY <1>x, <3>1 DEF HandleRecord, Stages
    <3>3. /\ c.landReads = Tail(x.landReads) /\ Stage(c) = Stage(x)
          /\ c.connects = x.connects /\ c.hs = x.hs /\ c.wrote = x.wrote /\ c.in = x.in
          /\ c.eof = x.eof /\ c.tcp = x.tcp /\ c.out = x.out /\ c.flyWrites = x.flyWrites
          /\ c.up = x.up /\ c.cont = x.cont /\ c.commit = x.commit
      BY <1>x, <2>0 DEF HandleRecord, Stage
    <3> HIDE DEF c
    <3> QED BY <1>1, <2>2, <3>2, <3>3
  <2>3. CASE Set(e, p) /\ UNCHANGED got
    <3>1. p \in HandleRecord /\ Still(p, x) /\ p.tcp = x.tcp /\ p.pc = "end2"
      BY <1>x DEF HandleRecord, Stages, Still
    <3> HIDE DEF p
    <3>2. Sent(p) = 0 /\ Sent(x) = 0
      BY <2>0, <3>1 DEF Sent, Stage
    <3>3. Same(p, x)
      BY <3>1, <3>2, StillSame DEF Early
    <3> QED BY <1>2, <2>3, <3>1, <3>3
  <2> QED BY <2>1, <2>2, <2>3
<1> QED BY <1>3, <1>4

\* The parts of a callback, seen by both streams.
SeqPair == [Side -> Seq(Record)]

\* A turn of the handshake, whatever the step has done to the wire.
LEMMA HandshakeView ==
    ASSUME TlsInv, NEW e \in Side, NEW x \in HandleRecord, HandleOK(x), Early(x),
           NEW w \in SeqPair, NEW s \in SeqPair, NEW g \in SeqPair, View(x, e, w, s, g)
    PROVE  View(Handshake(x), e, w, s, g)
<1>1. /\ w[e] \in Seq(Record) /\ s[e] \in Seq(Record) /\ g[e] \in Seq(Record)
      /\ w[Peer(e)] \in Seq(Record) /\ s[Peer(e)] \in Seq(Record) /\ g[Peer(e)] \in Seq(Record)
  BY Peers DEF SeqPair
<1>2. hnd[Peer(e)] \in HandleRecord /\ NodeSize \in Nat /\ Items[e] \in Nat /\ Items[Peer(e)] \in Nat
  BY HandleHere, Peers
<1> QED BY <1>1, <1>2, HandshakeFlows DEF View

\* An item is given to a request.
LEMMA TakeItemView ==
    ASSUME TlsInv, NEW e \in Side, NEW x \in HandleRecord, HandleOK(x), x.tcp # "closed",
           HasItem(x), View(x, e, wire, put, got)
    PROVE  TakeItem(x) \in HandleRecord /\ View(TakeItem(x), e, wire, put, got)
<1> DEFINE y == TakeItem(x)
<1>1. y \in HandleRecord
  BY TakeItemKeeps
<1>2. /\ y.connects = x.connects /\ y.hs = x.hs /\ y.wrote = x.wrote /\ y.in = Tail(x.in)
      /\ y.landReads = Append(x.landReads, Head(x.in)) /\ y.eof = x.eof /\ y.tcp = x.tcp
      /\ y.out = x.out /\ y.commit = x.commit /\ y.flyWrites = x.flyWrites /\ y.up = x.up
      /\ y.pc = x.pc /\ y.then = x.then /\ y.cont = x.cont
  BY DEF TakeItem, HandleRecord
<1> HIDE DEF y
<1>3. /\ Given(y) = Given(x) /\ (Finished(x) => Finished(y))
      /\ Unsent(y) = Unsent(x) /\ Waits(y) = Waits(x)
  BY <1>2 DEF Given, Finished, Unsent, Sent, Stage, Waits
<1>4. Flow(y, hnd[Peer(e)], wire[e], put[e], got[Peer(e)], Items[e])
  BY <1>1, <1>2, <1>3, HandleHere, SameWriter DEF View, Both
<1>5. Flow(hnd[Peer(e)], y, wire[Peer(e)], put[Peer(e)], got[e], Items[Peer(e)])
  BY <1>1, <1>2, HandleHere, Peers, ItemTaken DEF View, Both, Early
<1> QED BY <1>1, <1>4, <1>5 DEF View, Both, y

\* A read of the application.
LEMMA ReadFlows ==
    ASSUME TlsInv, FlowInv, NEW e \in Side, Read(e)
    PROVE  FlowInv'
<1> DEFINE x == hnd[e]
           z == [x EXCEPT !.flyReads = @ + 1]
           y == IF x.flyReads = 0 /\ HasItem(x) THEN TakeItem(x) ELSE z
<1>x. x \in HandleRecord /\ HandleOK(x)
  BY HandleHere
<1>v. View(x, e, wire, put, got)
  BY ViewHere
<1> HIDE DEF x
<1>0. UNCHANGED <<wire, put, got>> /\ x.mFlag /\ Set(e, PostRead(y))
  BY DEF Read, x
<1>1. x.tcp # "closed"
  BY <1>x, <1>0 DEF HandleOK
<1>2. z \in HandleRecord /\ Same(z, x)
  <2>1. x.flyReads + 1 \in Nat
    BY <1>x DEF HandleRecord
  <2>2. z \in HandleRecord /\ Still(z, x) /\ z.tcp = x.tcp
        /\ z.pc = x.pc /\ z.then = x.then /\ z.cont = x.cont /\ z.commit = x.commit
    BY <1>x, <2>1 DEF HandleRecord, Still
  <2> HIDE DEF z
  <2>3. Sent(z) = Sent(x)
    BY <2>2 DEF Sent, Stage
  <2> QED BY <2>2, <2>3, StillSame DEF Early
<1> HIDE DEF z
<1>3. y \in HandleRecord /\ View(y, e, wire, put, got)
  BY <1>x, <1>v, <1>1, <1>2, ViewSame, TakeItemView
<1> HIDE DEF y
<1>4. View(PostRead(y), e, wire, put, got)
  BY <1>3, PostReadSame, ViewSame
<1>5. View(PostRead(y), e, wire', put', got')
  BY <1>0, <1>4 DEF View
<1> QED BY <1>0, <1>5, ViewSet

\* doRead(): a read is given an item, or nothing.
LEMMA PopFlows ==
    ASSUME TlsInv, FlowInv, NEW e \in Side, Pop(e)
    PROVE  FlowInv'
<1> DEFINE x == hnd[e]
           l == [x EXCEPT !.pc = "land"]
           m == [x EXCEPT !.pc = "land", !.more = FALSE]
           y == TakeItem(x)
           t == [y EXCEPT !.flyReads = @ - 1]
           z == CloseSocket(x)
           c == [z EXCEPT !.flyReads = @ - 1, !.pc = "land", !.more = FALSE,
                          !.landReads = Append(@, None)]
<1>x. x \in HandleRecord /\ HandleOK(x)
  BY HandleHere
<1>v. View(x, e, wire, put, got)
  BY ViewHere
<1> HIDE DEF x
<1>0. x.pc = "pop" /\ UNCHANGED <<wire, put, got>>
  BY DEF Pop, x
<1>1. x.tcp # "closed"
  BY <1>x, <1>0 DEF HandleOK, Stage, Ends
<1>2. \/ Set(e, l) \/ Set(e, m)
      \/ x.flyReads # 0 /\ HasItem(x) /\ Set(e, t)
      \/ x.flyReads # 0 /\ Stuck(x) /\ Set(e, c)
  BY DEF Pop, Stuck, x
<1>3. ASSUME NEW q, Set(e, q), View(q, e, wire, put, got) PROVE FlowInv'
  <2>1. View(q, e, wire', put', got')
    BY <1>0, <1>3 DEF View
  <2> QED BY <1>3, <2>1, ViewSet
<1>4. ASSUME NEW q \in {l, m} PROVE View(q, e, wire, put, got)
  <2>1. q \in HandleRecord /\ Still(q, x) /\ q.tcp = x.tcp /\ q.pc = "land"
    BY <1>x, <1>4 DEF HandleRecord, Stages, Still
  <2>2. Sent(q) = 0 /\ Sent(x) = 0
    BY <1>0, <2>1 DEF Sent, Stage
  <2>3. Same(q, x)
    BY <2>1, <2>2, StillSame DEF Early
  <2> QED BY <1>x, <1>v, <2>1, <2>3, ViewSame
<1>5. ASSUME x.flyReads # 0, HasItem(x) PROVE View(t, e, wire, put, got)
  <2>1. y \in HandleRecord /\ View(y, e, wire, put, got) /\ y.flyReads = x.flyReads
    BY <1>x, <1>v, <1>1, <1>5, TakeItemView, TakeItemKeeps
  <2> HIDE DEF y
  <2>2. y.flyReads - 1 \in Nat
    BY <1>x, <1>5, <2>1 DEF HandleRecord
  <2>3. t \in HandleRecord /\ Still(t, y) /\ t.tcp = y.tcp
        /\ t.pc = y.pc /\ t.then = y.then /\ t.cont = y.cont /\ t.commit = y.commit
    BY <2>1, <2>2 DEF HandleRecord, Still
  <2> HIDE DEF t
  <2>4. Sent(t) = Sent(y)
    BY <2>3 DEF Sent, Stage
  <2>5. Same(t, y)
    BY <2>3, <2>4, StillSame DEF Early
  <2> QED BY <2>1, <2>3, <2>5, ViewSame
<1>6. ASSUME x.flyReads # 0, Stuck(x) PROVE View(c, e, wire, put, got)
  <2>1. z \in HandleRecord /\ Same(z, x)
    BY <1>x, CloseSocketSame
  <2>2. z.flyReads = x.flyReads /\ z.pc = x.pc
    BY <1>x, CloseSocketKeeps
  <2> HIDE DEF z
  <2>3. View(z, e, wire, put, got)
    BY <1>x, <1>v, <2>1, ViewSame
  <2>4. Stuck(z)
    BY <1>6, <2>1 DEF Same, Stuck, HasItem, Finished
  <2>5. z.flyReads - 1 \in Nat /\ Append(z.landReads, None) \in Seq(Record)
    <3>1. z.landReads \in Seq(Record) /\ z.flyReads \in Nat
      BY <2>1 DEF HandleRecord
    <3> QED BY <1>6, <2>2, <3>1, OthersAreRecords
  <2>6. c \in HandleRecord
    BY <2>1, <2>5 DEF HandleRecord, Stages
  <2>7. /\ c.connects = z.connects /\ c.hs = z.hs /\ c.wrote = z.wrote /\ c.in = z.in
        /\ c.landReads = Append(z.landReads, None) /\ c.eof = z.eof /\ c.tcp = z.tcp
        /\ c.out = z.out /\ c.commit = z.commit /\ c.flyWrites = z.flyWrites /\ c.up = z.up
        /\ c.pc = "land" /\ c.cont = z.cont
    BY <2>1 DEF HandleRecord
  <2> HIDE DEF c
  <2>8. Sent(c) = 0 /\ Sent(z) = 0
    BY <1>0, <2>2, <2>7 DEF Sent, Stage
  <2>9. /\ Given(c) = Given(z) /\ (Finished(z) => Finished(c))
        /\ Unsent(c) = Unsent(z) /\ Waits(c) = Waits(z)
    BY <2>7, <2>8 DEF Given, Finished, Unsent, Waits
  <2>10. Flow(c, hnd[Peer(e)], wire[e], put[e], got[Peer(e)], Items[e])
    BY <2>1, <2>3, <2>6, <2>7, <2>9, HandleHere, SameWriter DEF View, Both
  <2>11. Flow(hnd[Peer(e)], c, wire[Peer(e)], put[Peer(e)], got[e], Items[Peer(e)])
    <3>1. Flow(hnd[Peer(e)], z, wire[Peer(e)], put[Peer(e)], got[e], Items[Peer(e)])
      BY <2>3 DEF View, Both
    <3>2. /\ hnd[Peer(e)] \in HandleRecord /\ wire[Peer(e)] \in Seq(Record)
          /\ put[Peer(e)] \in Seq(Record) /\ got[e] \in Seq(Record) /\ Items[Peer(e)] \in Nat
      BY HandleHere, Peers
    <3>3. Early(c) <=> Early(z)
      BY <2>7 DEF Early
    <3> QED BY <2>1, <2>4, <2>6, <2>7, <3>1, <3>2, <3>3, NoneTaken
  <2> QED BY <2>10, <2>11 DEF View, Both
<1> HIDE DEF l, m, t, c
<1> QED BY <1>2, <1>3, <1>4, <1>5, <1>6

\* A write of the application: the session takes it, or it waits.
LEMMA WriteFlows ==
    ASSUME TlsInv, FlowInv, NEW e \in Side, Write(e)
    PROVE  /\ FlowInv'
           /\ \/ UNCHANGED put
              \/ \E r \in {Data(i) : i \in 1 .. Items[e]} : put' = [put EXCEPT ![e] = Append(@, r)]
<1> DEFINE x == hnd[e]
           r == Data(x.wrote + 1)
           y == [x EXCEPT !.wrote = @ + 1]
           waits == [y EXCEPT !.flyWrites = Append(@, r)]
           goes == [y EXCEPT !.out = Append(@, r), !.landWrites = @ + 1]
<1>x. x \in HandleRecord /\ HandleOK(x)
  BY HandleHere
<1>v. View(x, e, wire, put, got)
  BY ViewHere
<1>0. UNCHANGED <<wire, got>> /\ x.mFlag /\ x.wrote < Items[e]
  BY DEF Write
<1>1. \/ Set(e, PostWrite(waits)) /\ UNCHANGED put
      \/ /\ Finished(x) /\ x.flyWrites = <<>>
         /\ Set(e, PostWrite(goes)) /\ put' = [put EXCEPT ![e] = Append(@, r)]
  BY DEF Write
<1> HIDE DEF x
<1>2. x.tcp # "closed"
  BY <1>x, <1>0 DEF HandleOK
<1>3. r \in Record /\ x.wrote \in Nat
  BY <1>x, FlightIsRecord DEF HandleRecord
<1> HIDE DEF r
<1>4. /\ Append(x.flyWrites, r) \in Seq(Record) /\ Append(x.flyWrites, r) # <<>>
      /\ Append(x.out, r) \in Seq(Record) /\ Len(Append(x.out, r)) = Len(x.out) + 1
      /\ Len(x.out) \in Nat /\ x.commit \in Nat
      /\ x.wrote + 1 \in Nat /\ x.landWrites + 1 \in Nat
  <2>1. /\ x.flyWrites \in Seq(Record) /\ x.out \in Seq(Record) /\ x.commit \in Nat
        /\ x.landWrites \in Nat
    BY <1>x DEF HandleRecord
  <2> QED BY <1>3, <2>1
<1>5. waits = [x EXCEPT !.wrote = @ + 1, !.flyWrites = Append(@, r)]
  BY <1>x DEF HandleRecord
<1>6. goes = [x EXCEPT !.wrote = @ + 1, !.out = Append(@, r), !.landWrites = @ + 1]
  BY <1>x DEF HandleRecord
<1> HIDE DEF waits, goes, y
<1>7. ASSUME NEW q \in HandleRecord, HandleOK(q), Set(e, PostWrite(q)), View(q, e, wire, put', got)
      PROVE  FlowInv'
  <2>1. PostWrite(q) \in HandleRecord /\ Same(PostWrite(q), q)
    BY <1>7, HandleHere, PostWriteKeeps, PostWriteSame
  <2>2. View(PostWrite(q), e, wire, put', got)
    BY <1>7, <2>1, ViewSame
  <2>3. View(PostWrite(q), e, wire', put', got')
    BY <1>0, <2>2 DEF View
  <2> QED BY <1>7, <2>3, ViewSet
<1>8. CASE Set(e, PostWrite(waits)) /\ UNCHANGED put
  <2>1. waits \in HandleRecord
    BY <1>x, <1>4, <1>5 DEF HandleRecord
  <2>2. /\ waits.pc = x.pc /\ waits.then = x.then /\ waits.tcp = x.tcp /\ waits.cont = x.cont
        /\ waits.flyWrites = Append(x.flyWrites, r) /\ waits.mFlag = x.mFlag /\ waits.write = x.write
        /\ waits.eof = x.eof /\ waits.commit = x.commit /\ waits.out = x.out
        /\ waits.connects = x.connects /\ waits.hs = x.hs /\ waits.up = x.up
        /\ waits.in = x.in /\ waits.landReads = x.landReads /\ waits.wrote = x.wrote + 1
    BY <1>x, <1>5 DEF HandleRecord
  <2>3. HandleOK(waits)
    BY <1>x, <1>2, <1>4, <2>2 DEF HandleOK, Stage, Ends
  <2>4. Sent(waits) = Sent(x)
    BY <2>2 DEF Sent, Stage
  <2>5. Flow(waits, hnd[Peer(e)], wire[e], put[e], got[Peer(e)], Items[e])
    BY <1>x, <1>v, <1>0, <1>2, <1>3, <2>1, <2>2, <2>4, HandleHere, Peers, ItemWaits DEF View, Both
  <2>6. Flow(hnd[Peer(e)], waits, wire[Peer(e)], put[Peer(e)], got[e], Items[Peer(e)])
    <3>1. Taken(waits) = Taken(x) /\ (Finished(x) => Finished(waits)) /\ (Stuck(x) => Stuck(waits))
      BY <2>2 DEF Taken, Finished, Stuck, HasItem
    <3> QED BY <1>x, <1>v, <2>1, <2>2, <3>1, HandleHere, SameReader DEF View, Both, Early
  <2>7. View(waits, e, wire, put', got)
    BY <1>8, <2>5, <2>6 DEF View, Both
  <2> QED BY <1>7, <1>8, <2>1, <2>3, <2>7
<1>9. CASE /\ Finished(x) /\ x.flyWrites = <<>>
           /\ Set(e, PostWrite(goes)) /\ put' = [put EXCEPT ![e] = Append(@, r)]
  <2>1. goes \in HandleRecord
    BY <1>x, <1>4, <1>6 DEF HandleRecord
  <2>2. /\ goes.pc = x.pc /\ goes.then = x.then /\ goes.tcp = x.tcp /\ goes.cont = x.cont
        /\ goes.flyWrites = x.flyWrites /\ goes.mFlag = x.mFlag /\ goes.write = x.write
        /\ goes.eof = x.eof /\ goes.commit = x.commit /\ goes.out = Append(x.out, r)
        /\ goes.connects = x.connects /\ goes.hs = x.hs /\ goes.up = x.up
        /\ goes.in = x.in /\ goes.landReads = x.landReads /\ goes.wrote = x.wrote + 1
    BY <1>x, <1>6 DEF HandleRecord
  <2>3. HandleOK(goes)
    BY <1>x, <1>2, <1>4, <2>2 DEF HandleOK, Stage, Ends
  <2>4. Sent(goes) = Sent(x)
    BY <2>2 DEF Sent, Stage
  <2>5. /\ Flow(goes, hnd[Peer(e)], wire[e], Append(put[e], r), got[Peer(e)], Items[e])
        /\ r \in {Data(i) : i \in 1 .. Items[e]}
    BY <1>x, <1>v, <1>0, <1>2, <1>9, <2>1, <2>2, <2>4, HandleHere, Peers, ItemWritten DEF View, Both, r
  <2>6. Flow(hnd[Peer(e)], goes, wire[Peer(e)], put[Peer(e)], got[e], Items[Peer(e)])
    <3>1. Taken(goes) = Taken(x) /\ (Finished(x) => Finished(goes)) /\ (Stuck(x) => Stuck(goes))
      BY <2>2 DEF Taken, Finished, Stuck, HasItem
    <3> QED BY <1>x, <1>v, <2>1, <2>2, <3>1, HandleHere, SameReader DEF View, Both, Early
  <2>7. put'[e] = Append(put[e], r) /\ put'[Peer(e)] = put[Peer(e)]
    BY <1>9, Peers DEF TlsInv, TlsTypeOK
  <2>8. View(goes, e, wire, put', got)
    BY <2>5, <2>6, <2>7 DEF View, Both
  <2> QED BY <1>7, <1>9, <2>1, <2>3, <2>5, <2>8
<1> QED BY <1>1, <1>8, <1>9

\* The goodbye of a peer of another make.
LEMMA SayByeFlows ==
    ASSUME TlsInv, FlowInv, NEW e \in Side, SayBye(e)
    PROVE  FlowInv'
<1> DEFINE x == hnd[e]
           y == [x EXCEPT !.out = Append(@, Bye), !.wrote = Items[e]]
<1>x. x \in HandleRecord /\ HandleOK(x)
  BY HandleHere
<1>v. View(x, e, wire, put, got)
  BY ViewHere
<1>0. /\ UNCHANGED <<wire, put, got>> /\ x.tcp # "closed" /\ Finished(x) /\ x.wrote < Items[e]
      /\ Set(e, PostWrite(y))
  BY DEF SayBye, Open
<1> HIDE DEF x
<1>1. /\ Append(x.out, Bye) \in Seq(Record) /\ Len(Append(x.out, Bye)) = Len(x.out) + 1
      /\ Len(x.out) \in Nat /\ x.commit \in Nat /\ Items[e] \in Nat
  <2>1. x.out \in Seq(Record) /\ x.commit \in Nat
    BY <1>x DEF HandleRecord
  <2>2. Items[e] \in Nat
    BY Peers
  <2> QED BY <2>1, <2>2, OthersAreRecords
<1>2. y \in HandleRecord
  BY <1>x, <1>1 DEF HandleRecord
<1>3. /\ y.pc = x.pc /\ y.then = x.then /\ y.tcp = x.tcp /\ y.cont = x.cont
      /\ y.flyWrites = x.flyWrites /\ y.mFlag = x.mFlag /\ y.write = x.write
      /\ y.eof = x.eof /\ y.commit = x.commit /\ y.out = Append(x.out, Bye)
      /\ y.connects = x.connects /\ y.hs = x.hs /\ y.up = x.up
      /\ y.in = x.in /\ y.landReads = x.landReads /\ y.wrote = Items[e]
  BY <1>x DEF HandleRecord
<1> HIDE DEF y
<1>4. HandleOK(y)
  BY <1>x, <1>0, <1>1, <1>3 DEF HandleOK, Stage, Ends
<1>5. Sent(y) = Sent(x)
  BY <1>3 DEF Sent, Stage
<1>6. Flow(y, hnd[Peer(e)], wire[e], put[e], got[Peer(e)], Items[e])
  BY <1>x, <1>v, <1>0, <1>2, <1>3, <1>5, HandleHere, Peers, ByeWritten DEF View, Both
<1>7. Flow(hnd[Peer(e)], y, wire[Peer(e)], put[Peer(e)], got[e], Items[Peer(e)])
  <2>1. Taken(y) = Taken(x) /\ (Finished(x) => Finished(y)) /\ (Stuck(x) => Stuck(y))
    BY <1>3 DEF Taken, Finished, Stuck, HasItem
  <2> QED BY <1>x, <1>v, <1>2, <1>3, <2>1, HandleHere, SameReader DEF View, Both, Early
<1>8. PostWrite(y) \in HandleRecord /\ Same(PostWrite(y), y)
  BY <1>2, <1>4, HandleHere, PostWriteKeeps, PostWriteSame
<1>9. View(PostWrite(y), e, wire, put, got)
  BY <1>2, <1>6, <1>7, <1>8, ViewSame DEF View, Both
<1>10. View(PostWrite(y), e, wire', put', got')
  BY <1>0, <1>9 DEF View
<1> QED BY <1>0, <1>10, ViewSet

\* The connection is made: the first flight.
LEMMA ConnectedFlows ==
    ASSUME TlsInv, FlowInv, NEW e \in Side, Connected(e)
    PROVE  FlowInv'
<1> DEFINE x == hnd[e]
           y == [x EXCEPT !.tcp = "open", !.write = "no"]
           z == CopyFlag(y)
           r == PostRead(z)
<1>x. x \in HandleRecord /\ HandleOK(x)
  BY HandleHere
<1>v. View(x, e, wire, put, got)
  BY ViewHere
<1> HIDE DEF x
<1>0. x.pc = "idle" /\ x.tcp = "connecting" /\ Set(e, Handshake(r)) /\ UNCHANGED <<wire, put, got>>
  BY DEF Connected, x
<1>1. y \in HandleRecord /\ Still(y, x) /\ y.tcp = "open" /\ y.pc = "idle"
  BY <1>x, <1>0 DEF HandleRecord, Transfer, Still
<1>2. HandleOK(y)
  BY <1>x, <1>0 DEF HandleRecord, HandleOK, Stage, Ends
<1> HIDE DEF y
<1>3. Sent(x) = 0 /\ Sent(y) = 0
  BY <1>0, <1>1 DEF Sent, Stage
<1>4. Same(y, x)
  BY <1>0, <1>1, <1>3, StillSame DEF Early
<1>5. z \in HandleRecord /\ HandleOK(z) /\ Alike(z, y) /\ Same(z, x)
  BY <1>1, <1>2, <1>4, CopyFlagKeeps, CopyFlagSame, SameSteps
<1> HIDE DEF z
<1>6. r \in HandleRecord /\ HandleOK(r) /\ Alike(r, z) /\ Same(r, x)
  BY <1>5, PostReadKeeps, PostReadSame, SameSteps
<1> HIDE DEF r
<1>7. Early(r)
  BY <1>1, <1>5, <1>6 DEF Alike, Early
<1>8. View(r, e, wire, put, got)
  BY <1>x, <1>v, <1>6, ViewSame
<1>9. View(Handshake(r), e, wire, put, got)
  BY <1>6, <1>7, <1>8, HandshakeView DEF TlsInv, TlsTypeOK, SeqPair
<1>10. View(Handshake(r), e, wire', put', got')
  BY <1>0, <1>9 DEF View
<1> QED BY <1>0, <1>10, ViewSet

\* What has come, before both sides may talk.
LEMMA HelloReadView ==
    ASSUME TlsInv, NEW e \in Side, NEW x \in HandleRecord, HandleOK(x),
           x.pc = "idle", x.tcp = "open", ~x.up,
           NEW w \in SeqPair, NEW s \in SeqPair, NEW g \in SeqPair, View(x, e, w, s, g)
    PROVE  View(HelloRead(x), e, w, s, g)
<1> DEFINE r == [x EXCEPT !.read = "no"]
           y == Handshake(r)
           c == [y EXCEPT !.up = TRUE, !.flyWrites = Tail(@), !.pc = "call", !.then = "hello"]
           a == [y EXCEPT !.up = TRUE, !.pc = "pop", !.more = TRUE, !.cont = "hello"]
<1>1. /\ r \in HandleRecord /\ Alike(r, x) /\ Still(r, x)
      /\ r.commit = x.commit /\ r.mFlag = x.mFlag /\ r.write = x.write /\ r.eof = x.eof
  BY DEF HandleRecord, Transfer, Alike, Still
<1>2. \/ HelloRead(x) = PostRead(y)
      \/ y.connects /\ HelloRead(x) = c
      \/ ~y.connects /\ HelloRead(x) = a
  BY DEF HelloRead
<1> HIDE DEF r
<1>3. HandleOK(r) /\ Early(r)
  BY <1>1, AlikeIsOK DEF HandleOK, Alike, Still, Stage, Early
<1>4. Same(r, x)
  <2>1. Sent(r) = 0 /\ Sent(x) = 0
    BY <1>1 DEF Sent, Stage, Alike
  <2> QED BY <1>1, <2>1, StillSame DEF Alike, Early
<1>5. View(y, e, w, s, g)
  BY <1>1, <1>3, <1>4, ViewSame, HandshakeView
<1>6. y \in HandleRecord /\ HandleOK(y) /\ Alike(y, r)
  BY <1>1, <1>3, HandleHere, HandshakeKeeps
<1> HIDE DEF y
<1>7. y.pc = "idle" /\ y.tcp = "open" /\ ~y.up
  BY <1>1, <1>6 DEF Alike
<1>8. CASE HelloRead(x) = PostRead(y)
  BY <1>5, <1>6, <1>8, PostReadSame, ViewSame
<1>9. CASE y.connects /\ HelloRead(x) = c
  <2>1. y.flyWrites # <<>> /\ y.flyWrites \in Seq(Record)
    BY <1>6, <1>7, <1>9 DEF HandleOK, HandleRecord
  <2>2. Tail(y.flyWrites) \in Seq(Record)
    BY <2>1, HeadAndTail
  <2>3. c \in HandleRecord
    BY <1>6, <2>2 DEF HandleRecord, Stages
  <2>4. /\ c.connects = y.connects /\ c.hs = y.hs /\ c.wrote = y.wrote
        /\ c.landReads = y.landReads /\ c.in = y.in /\ c.eof = y.eof
        /\ c.tcp = y.tcp /\ c.out = y.out /\ c.up
        /\ c.flyWrites = Tail(y.flyWrites) /\ c.pc = "call" /\ c.then = "hello"
    BY <1>6 DEF HandleRecord
  <2> HIDE DEF c
  <2>5. Sent(c) = 0 /\ Sent(y) = 0
    BY <1>7, <2>4 DEF Sent, Stage
  <2>6. Unsent(c) = Unsent(y) /\ Waits(c) = Waits(y)
    BY <1>7, <1>9, <2>4, <2>5 DEF Unsent, Waits
  <2>7. Same(c, y)
    BY <1>7, <2>4, <2>6 DEF Same, Early
  <2> QED BY <1>5, <1>6, <1>9, <2>3, <2>7, ViewSame
<1>10. CASE ~y.connects /\ HelloRead(x) = a
  <2>1. a \in HandleRecord
    BY <1>6 DEF HandleRecord, Stages
  <2>2. /\ a.connects = y.connects /\ a.hs = y.hs /\ a.wrote = y.wrote
        /\ a.landReads = y.landReads /\ a.in = y.in /\ a.eof = y.eof
        /\ a.tcp = y.tcp /\ a.out = y.out /\ a.flyWrites = y.flyWrites /\ a.pc = "pop"
    BY <1>6 DEF HandleRecord
  <2> HIDE DEF a
  <2>3. Sent(a) = 0 /\ Sent(y) = 0
    BY <1>7, <2>2 DEF Sent, Stage
  <2>4. Unsent(a) = Unsent(y) /\ Waits(a) = Waits(y)
    BY <1>10, <2>2, <2>3 DEF Unsent, Waits
  <2>5. Same(a, y)
    BY <1>7, <2>2, <2>4 DEF Same, Early
  <2> QED BY <1>5, <1>6, <1>10, <2>1, <2>5, ViewSame
<1> QED BY <1>2, <1>8, <1>9, <1>10

\* Records arrive.
LEMMA TcpReadFlows ==
    ASSUME TlsInv, FlowInv, NEW e \in Side, TcpRead(e)
    PROVE  FlowInv'
<1> DEFINE w == wire[Peer(e)]
           h == hnd[e]
           X(k) == [h EXCEPT !.in = @ \o SubSeq(w, 1, k)]
<1>h. h \in HandleRecord /\ HandleOK(h) /\ w \in Seq(Record)
  BY HandleHere
<1>t. wire \in SeqPair /\ put \in SeqPair /\ got \in SeqPair
  BY DEF TlsInv, TlsTypeOK, SeqPair
<1>p. Peer(e) \in Side /\ Peer(e) # e
  BY Peers
<1>v. View(h, e, wire, put, got)
  BY ViewHere
<1>1. PICK k \in 1 .. Len(w) :
        /\ X(k).pc = "idle" /\ X(k).tcp = "open"
        /\ wire' = [wire EXCEPT ![Peer(e)] = SubSeq(@, k + 1, Len(@))]
        /\ \/ Set(e, [X(k) EXCEPT !.pc = "pop", !.more = TRUE, !.cont = "read"])
           \/ ~X(k).up /\ Set(e, HelloRead(X(k)))
           \/ Set(e, HelloRefused(X(k)))
  BY DEF TcpRead
<1>u. UNCHANGED <<put, got>>
  BY DEF TcpRead
<1> DEFINE x == X(k)
           a == [x EXCEPT !.pc = "pop", !.more = TRUE, !.cont = "read"]
           q == [x EXCEPT !.read = "no", !.bad = TRUE]
<1>2. /\ wire'[Peer(e)] = SubSeq(w, k + 1, Len(w)) /\ wire'[e] = wire[e]
      /\ SubSeq(w, 1, k) \in Seq(Record) /\ SubSeq(w, k + 1, Len(w)) \in Seq(Record)
      /\ wire' \in SeqPair
  <2>1. SubSeq(w, 1, k) \in Seq(Record) /\ SubSeq(w, k + 1, Len(w)) \in Seq(Record)
    BY <1>h
  <2>2. wire'[Peer(e)] = SubSeq(w, k + 1, Len(w)) /\ wire'[e] = wire[e]
    BY <1>1, <1>p, <1>t DEF SeqPair
  <2>3. wire' \in SeqPair
    BY <1>1, <1>p, <1>t, <2>1 DEF SeqPair
  <2> QED BY <2>1, <2>2, <2>3
<1> HIDE DEF h, w
<1>3. h.in \o SubSeq(w, 1, k) \in Seq(Record)
  BY <1>2, <1>h DEF HandleRecord
<1>4. /\ x \in HandleRecord /\ Alike(x, h) /\ x.in = h.in \o SubSeq(w, 1, k)
      /\ x.hs = h.hs /\ x.wrote = h.wrote /\ x.out = h.out /\ x.commit = h.commit
      /\ x.mFlag = h.mFlag /\ x.write = h.write /\ x.eof = h.eof
  <2>1. x \in HandleRecord
    BY <1>h, <1>3 DEF HandleRecord
  <2>2. Alike(x, h)
    BY <1>h DEF HandleRecord, Alike
  <2> QED BY <1>h, <2>1, <2>2 DEF HandleRecord
<1>5. /\ x.pc = "idle" /\ x.tcp = "open"
      /\ \/ Set(e, a)
         \/ ~x.up /\ Set(e, HelloRead(x))
         \/ Set(e, HelloRefused(x))
  BY <1>1
<1> HIDE DEF X
<1>6. HandleOK(x)
  BY <1>h, <1>4, AlikeIsOK DEF HandleOK, Alike, Stage
<1>7. View(x, e, wire', put, got)
  <2>1. /\ Given(x) = Given(h) /\ (Finished(h) => Finished(x))
        /\ Unsent(x) = Unsent(h) /\ Waits(x) = Waits(h)
    BY <1>4 DEF Alike, Given, Finished, Unsent, Sent, Stage, Waits
  <2>2. Flow(x, hnd[Peer(e)], wire'[e], put[e], got[Peer(e)], Items[e])
    BY <1>h, <1>v, <1>2, <1>4, <2>1, HandleHere, SameWriter DEF View, Both, Alike
  <2>3. Flow(hnd[Peer(e)], x, wire'[Peer(e)], put[Peer(e)], got[e], Items[Peer(e)])
    <3>1. Flow(hnd[Peer(e)], h, w, put[Peer(e)], got[e], Items[Peer(e)]) /\ h.tcp = "open"
      BY <1>v, <1>4, <1>5 DEF View, Both, w, Alike
    <3>2. x.connects = h.connects /\ x.landReads = h.landReads
      BY <1>4 DEF Alike
    <3>3. /\ hnd[Peer(e)] \in HandleRecord /\ put[Peer(e)] \in Seq(Record)
          /\ got[e] \in Seq(Record) /\ Items[Peer(e)] \in Nat
      BY HandleHere, Peers
    <3>4. /\ x \in HandleRecord /\ x.in = h.in \o SubSeq(w, 1, k) /\ x.hs = h.hs
          /\ wire'[Peer(e)] = SubSeq(w, k + 1, Len(w))
      BY <1>2, <1>4
    <3> HIDE DEF x
    <3> QED BY <1>h, <3>1, <3>2, <3>3, <3>4, SomeArrive
  <2> QED BY <2>2, <2>3 DEF View, Both
<1>8. ASSUME NEW y, Set(e, y), View(y, e, wire', put, got) PROVE FlowInv'
  <2>1. View(y, e, wire', put', got')
    BY <1>u, <1>8 DEF View
  <2> QED BY <1>8, <2>1, ViewSet
<1> HIDE DEF x
<1>9. CASE Set(e, a)
  <2>1. a \in HandleRecord /\ Still(a, x) /\ a.tcp = x.tcp /\ a.pc = "pop"
    BY <1>4 DEF HandleRecord, Stages, Still
  <2> HIDE DEF a
  <2>2. Sent(a) = 0 /\ Sent(x) = 0
    BY <1>5, <2>1 DEF Sent, Stage
  <2>3. Same(a, x)
    BY <2>1, <2>2, StillSame DEF Early
  <2>4. View(a, e, wire', put, got)
    BY <1>4, <1>7, <2>1, <2>3, ViewSame
  <2> QED BY <1>8, <1>9, <2>4
<1>10. CASE ~x.up /\ Set(e, HelloRead(x))
  <2>1. View(HelloRead(x), e, wire', put, got)
    BY <1>t, <1>2, <1>4, <1>5, <1>6, <1>7, <1>10, HelloReadView
  <2> QED BY <1>8, <1>10, <2>1
<1>11. CASE Set(e, HelloRefused(x))
  <2>1. q \in HandleRecord /\ Still(q, x) /\ q.tcp = x.tcp /\ q.pc = "idle"
    BY <1>4, <1>5 DEF HandleRecord, Transfer, Still
  <2>2. HelloRefused(x) = PostRead(CloseSocket(q))
    BY DEF HelloRefused
  <2> HIDE DEF q
  <2>3. Sent(q) = 0 /\ Sent(x) = 0
    BY <1>5, <2>1 DEF Sent, Stage
  <2>4. Same(q, x)
    BY <2>1, <2>3, StillSame DEF Early
  <2>5. CloseSocket(q) \in HandleRecord /\ Same(CloseSocket(q), x)
    BY <2>1, <2>4, CloseSocketSame, SameSteps
  <2>6. PostRead(CloseSocket(q)) \in HandleRecord /\ Same(PostRead(CloseSocket(q)), x)
    BY <2>5, PostReadSame, SameSteps
  <2>7. View(HelloRefused(x), e, wire', put, got)
    BY <1>4, <1>7, <2>2, <2>6, ViewSame
  <2> QED BY <1>8, <1>11, <2>7
<1> QED BY <1>5, <1>9, <1>10, <1>11

\* Records are sent: a node of the buffer, as far as it was committed.
LEMMA TcpWriteFlows ==
    ASSUME TlsInv, FlowInv, NEW e \in Side, TcpWrite(e)
    PROVE  FlowInv'
<1> DEFINE x == hnd[e]
           c == x.commit
           u == [x EXCEPT !.pc = "written", !.cont = "written"]
           m == Commit(x)
           v == wire[e] \o SubSeq(x.out, 1, c)
<1>x. x \in HandleRecord /\ HandleOK(x) /\ wire[e] \in Seq(Record)
  BY HandleHere
<1>t. wire \in SeqPair /\ put \in SeqPair /\ got \in SeqPair
  BY DEF TlsInv, TlsTypeOK, SeqPair
<1>p. Peer(e) \in Side /\ Peer(e) # e
  BY Peers
<1>v. View(x, e, wire, put, got)
  BY ViewHere
<1>1. /\ x.pc = "idle" /\ x.tcp = "open" /\ x.write = "posted" /\ UNCHANGED <<put, got>>
      /\ \/ ~Early(hnd[Peer(e)]) /\ wire' = wire
         \/ wire' = [wire EXCEPT ![e] = v]
      /\ Set(e, u) \/ Set(e, m) \/ Set(e, Handshake(m))
  BY DEF TcpWrite, Early
<1> HIDE DEF x
<1>2. /\ x.out \in Seq(Record) /\ Len(x.out) \in Nat /\ c \in Nat /\ c <= Len(x.out)
      /\ SubSeq(x.out, 1, c) \in Seq(Record) /\ c \in 0 .. Len(x.out)
  <2>1. x.out \in Seq(Record) /\ c \in Nat /\ c <= Len(x.out) /\ Len(x.out) \in Nat
    BY <1>x, <1>1 DEF HandleRecord, HandleOK
  <2> HIDE DEF c
  <2>2. SubSeq(x.out, 1, c) \in Seq(Record)
    BY <2>1
  <2> QED BY <2>1, <2>2
<1>3. /\ wire' \in SeqPair /\ wire'[Peer(e)] = wire[Peer(e)]
      /\ Early(hnd[Peer(e)]) => wire'[e] = v
  <2>1. v \in Seq(Record)
    BY <1>x, <1>2, ConcatParts
  <2> HIDE DEF v
  <2> QED BY <1>1, <1>t, <1>p, <2>1 DEF SeqPair
<1>4. Sent(x) = 0 /\ Unsent(x) = x.out
  <2>1. Sent(x) = 0
    BY <1>1 DEF Sent, Stage
  <2>2. Unsent(x) = SubSeq(x.out, 0 + 1, Len(x.out))
    BY <2>1 DEF Unsent
  <2> QED BY <1>2, <2>1, <2>2, WholeSubSeq
<1>5. ASSUME NEW y \in HandleRecord, y.connects = x.connects, y.hs = x.hs, y.wrote = x.wrote,
             y.tcp = x.tcp, y.flyWrites = x.flyWrites, y.up = x.up,
             y.in = x.in, y.landReads = x.landReads, y.eof = x.eof,
             Unsent(y) = SubSeq(x.out, c + 1, Len(x.out))
      PROVE  View(y, e, wire', put, got)
  <2>1. Waits(y) = Waits(x) /\ x.tcp # "closed"
    BY <1>1, <1>5 DEF Waits
  <2>2. /\ Flow(x, hnd[Peer(e)], wire[e], put[e], got[Peer(e)], Items[e])
        /\ Flow(hnd[Peer(e)], x, wire[Peer(e)], put[Peer(e)], got[e], Items[Peer(e)])
    BY <1>v DEF View, Both
  <2>3. Flow(y, hnd[Peer(e)], wire'[e], put[e], got[Peer(e)], Items[e])
    <3> HIDE DEF c
    <3>1. c \in 0 .. Len(Unsent(x)) /\ Unsent(x) \in Seq(Record)
      BY <1>2, <1>4
    <3>2. Unsent(y) = SubSeq(Unsent(x), c + 1, Len(Unsent(x)))
      BY <1>4, <1>5
    <3>3. Early(hnd[Peer(e)]) => wire'[e] = wire[e] \o SubSeq(Unsent(x), 1, c)
      BY <1>3, <1>4
    <3>4. /\ hnd[Peer(e)] \in HandleRecord /\ wire[e] \in Seq(Record) /\ put[e] \in Seq(Record)
          /\ got[Peer(e)] \in Seq(Record) /\ Items[e] \in Nat
      BY HandleHere, Peers
    <3> QED BY <1>x, <1>5, <2>1, <2>2, <3>1, <3>2, <3>3, <3>4, SomeSent
  <2>4. Flow(hnd[Peer(e)], y, wire'[Peer(e)], put[Peer(e)], got[e], Items[Peer(e)])
    <3>1. Taken(y) = Taken(x) /\ (Finished(x) => Finished(y)) /\ (Stuck(x) => Stuck(y))
      BY <1>5 DEF Taken, Finished, Stuck, HasItem
    <3> QED BY <1>x, <1>3, <1>5, <2>2, <3>1, HandleHere, SameReader DEF Early
  <2> QED BY <2>3, <2>4 DEF View, Both
<1>6. ASSUME NEW y, Set(e, y), View(y, e, wire', put, got) PROVE FlowInv'
  <2>1. View(y, e, wire', put', got')
    BY <1>1, <1>6 DEF View
  <2> QED BY <1>6, <2>1, ViewSet
<1>7. View(u, e, wire', put, got)
  <2>1. /\ u \in HandleRecord /\ Still(u, x) /\ u.eof = x.eof /\ u.tcp = x.tcp
        /\ u.pc = "written" /\ u.cont = "written" /\ u.commit = c
    BY <1>x DEF HandleRecord, Stages, Still
  <2> HIDE DEF u
  <2>2. Unsent(u) = SubSeq(x.out, c + 1, Len(x.out))
    BY <2>1 DEF Unsent, Sent, Stage, Still
  <2> QED BY <1>5, <2>1, <2>2 DEF Still
<1>8. /\ m \in HandleRecord /\ HandleOK(m) /\ Alike(m, x)
      /\ m.hs = x.hs /\ m.wrote = x.wrote /\ m.in = x.in /\ m.eof = x.eof
      /\ m.out = SubSeq(x.out, c + 1, Len(x.out))
  <2>1. m \in HandleRecord /\ HandleOK(m) /\ Alike(m, x)
    BY <1>x, <1>1, CommitKeeps DEF Stage
  <2> QED BY <1>x, <2>1 DEF Commit, HandleRecord
<1> HIDE DEF m, u
<1>9. View(m, e, wire', put, got)
  <2>1. Sent(m) = 0
    BY <1>1, <1>8 DEF Sent, Stage, Alike
  <2>2. m.out \in Seq(Record)
    <3>1. m.pc # "closed"
      BY <1>1, <1>8 DEF Alike
    <3> QED BY <1>8 DEF HandleRecord
  <2>3. Unsent(m) = m.out
    <3>1. Unsent(m) = SubSeq(m.out, 0 + 1, Len(m.out))
      BY <2>1 DEF Unsent
    <3> QED BY <2>2, <3>1, WholeSubSeq
  <2> QED BY <1>5, <1>8, <2>3 DEF Alike
<1>10. View(Handshake(m), e, wire', put, got)
  <2>1. Early(m)
    BY <1>1, <1>8 DEF Alike, Early
  <2> QED BY <1>t, <1>3, <1>8, <1>9, <2>1, HandshakeView
<1> QED BY <1>1, <1>6, <1>7, <1>9, <1>10

\* Nothing has been sent yet, and no flight given.
LEMMA FlowStarts == TlsInit => FlowInv
<1> SUFFICES ASSUME TlsInit, NEW e \in Side
             PROVE  Flow(hnd[e], hnd[Peer(e)], wire[e], put[e], got[Peer(e)], Items[e])
  BY DEF FlowInv
<1>1. Peer(e) \in Side /\ (e = "client" <=> Peer(e) # "client")
  BY DEF Side, Peer
<1>2. /\ hnd[e] = NewHandle(e = "client") /\ hnd[Peer(e)] = NewHandle(Peer(e) = "client")
      /\ wire[e] = <<>> /\ put[e] = <<>> /\ got[Peer(e)] = <<>>
  BY <1>1 DEF TlsInit
<1> DEFINE x == hnd[e]
           z == hnd[Peer(e)]
<1>3. /\ x.connects = (e = "client") /\ x.hs = 0 /\ x.wrote = 0 /\ x.out = <<>>
      /\ x.flyWrites = (IF x.connects THEN <<Connect>> ELSE <<>>) /\ ~x.up /\ x.cont = "none"
      /\ z.connects = (Peer(e) = "client") /\ z.hs = 0 /\ z.in = <<>> /\ z.landReads = <<>>
  <2>1. x.connects \in BOOLEAN /\ x.flyWrites = IF e = "client" THEN <<Connect>> ELSE <<>>
    BY <1>2 DEF NewHandle
  <2>2. x.connects = (e = "client") /\ z.connects = (Peer(e) = "client")
    BY <1>2 DEF NewHandle
  <2>3. x.hs = 0 /\ x.wrote = 0 /\ x.out = <<>> /\ ~x.up /\ x.cont = "none"
    BY <1>2 DEF NewHandle
  <2>4. z.hs = 0 /\ z.in = <<>> /\ z.landReads = <<>>
    BY <1>2 DEF NewHandle
  <2> HIDE DEF x, z
  <2> QED BY <2>1, <2>2, <2>3, <2>4
<1> HIDE DEF x, z
<1>4. Given(x) = 0 /\ Taken(z) = 0 /\ ~Finished(x) /\ ~Finished(z)
  BY <1>3 DEF Given, Taken, Finished, Flights
<1>5. Len(<<>>) = 0 /\ Tail(<<Connect>>) = <<>> /\ SubSeq(<<>>, 0 + 1, Len(<<>>)) = <<>>
  OBVIOUS
<1>6. Unsent(x) = <<>> /\ Waits(x) = <<>>
  BY <1>3, <1>5 DEF Unsent, Sent, Waits
<1>7. WriterOK(x, <<>>, Items[e])
  BY <1>3, <1>4, <1>5 DEF WriterOK
<1>8. At(z, <<>>, 0) = 0
  BY <1>4, <1>5 DEF At
<1>9. ReaderOK(x, z, <<>>, <<>>, Items[e], 0)
  BY <1>3, <1>4, <1>5, <1>8 DEF ReaderOK
<1>10. WireOK(x, z, <<>>, <<>>, <<>>, Items[e], 0)
  BY <1>3, <1>4, <1>5, <1>6, <1>8 DEF WireOK
<1>11. x.connects # z.connects /\ 0 \in 0 .. Len(z.landReads)
  BY <1>1, <1>3, <1>5
<1>12. Flow(x, z, <<>>, <<>>, <<>>, Items[e])
  BY <1>7, <1>9, <1>10, <1>11 DEF Flow
<1> QED BY <1>2, <1>12 DEF x, z

\* The inductive invariant of the two streams between the applications: what
\* is in any buffer, queue or callback on the way is what comes next there.
THEOREM FlowInvariance == TlsSpec => []FlowInv
<1>1. TlsInit => FlowInv
  BY FlowStarts
<1>2. TlsInv /\ FlowInv /\ [TlsNext]_tlsVars => FlowInv'
  <2> SUFFICES ASSUME TlsInv, FlowInv, [TlsNext]_tlsVars PROVE FlowInv'
    OBVIOUS
  <2>1. CASE UNCHANGED tlsVars
    BY <2>1 DEF tlsVars, FlowInv
  <2>2. ASSUME NEW e \in Side, Calls(e) PROVE FlowInv'
    BY <2>2, ReadFlows, WriteFlows, CloseFlows, SayByeFlows DEF Calls
  <2>3. ASSUME NEW e \in Side, Works(e) PROVE FlowInv'
    BY <2>3, ConnectedFlows, CloseFlows, TcpReadFlows, TcpWriteFlows, FailFlows, ClosedFlows,
       PopFlows, LandReadsFlows, LandWritesFlows, EndQueuesFlows DEF Works
  <2>4. ASSUME NEW e \in Side, ConnectFails(e) \/ SocketFails(e) PROVE FlowInv'
    BY <2>4, CloseFlows
  <2> QED BY <2>1, <2>2, <2>3, <2>4 DEF TlsNext
<1> QED BY <1>1, <1>2, TlsInvariance, PTL DEF TlsSpec

\* The item of a callback is the oldest that the application has not had yet.
LEMMA NextLanded ==
    ASSUME TlsInv, FlowInv, NEW e \in Side, hnd[e].landReads # <<>>,
           Head(hnd[e].landReads) # None
    PROVE  /\ Len(got[e]) < Len(put[Peer(e)])
           /\ Head(hnd[e].landReads) = put[Peer(e)][Len(got[e]) + 1]
<1> DEFINE x == hnd[e]
           y == [x EXCEPT !.landReads = Tail(@)]
<1>x. x \in HandleRecord
  BY HandleHere
<1>v. View(x, e, wire, put, got) /\ x.landReads # <<>> /\ Head(x.landReads) # None
  BY ViewHere
<1> HIDE DEF x
<1>1. Tail(x.landReads) \in Seq(Record)
  BY <1>x, <1>v, QueueLengths, HeadAndTail
<1>2. y \in HandleRecord
  BY <1>x, <1>1 DEF HandleRecord
<1>3. /\ y.connects = x.connects /\ y.hs = x.hs /\ y.in = x.in /\ y.eof = x.eof
      /\ y.tcp = x.tcp /\ y.landReads = Tail(x.landReads)
  BY <1>x DEF HandleRecord
<1> HIDE DEF y
<1>4. Flow(hnd[Peer(e)], x, wire[Peer(e)], put[Peer(e)], got[e], Items[Peer(e)])
  BY <1>v DEF View, Both
<1>5. /\ hnd[Peer(e)] \in HandleRecord /\ wire[Peer(e)] \in Seq(Record)
      /\ put[Peer(e)] \in Seq(Record) /\ got[e] \in Seq(Record) /\ Items[Peer(e)] \in Nat
  BY HandleHere, Peers
<1>6. Early(y) => Early(x)
  BY <1>3 DEF Early
<1>7. PICK h \in HandleRecord, w \in Seq(Record), s \in Seq(Record), g \in Seq(Record), n \in Nat :
         /\ h = hnd[Peer(e)] /\ w = wire[Peer(e)] /\ s = put[Peer(e)] /\ g = got[e]
         /\ n = Items[Peer(e)]
  BY <1>5
<1>8. Flow(h, x, w, s, g, n)
  BY <1>4, <1>7
<1>9. Len(g) < Len(s) /\ Head(x.landReads) = s[Len(g) + 1]
  BY <1>x, <1>v, <1>2, <1>3, <1>6, <1>8, FirstLanded
<1> QED BY <1>7, <1>9 DEF x

\* A step of the queue between two applications, or none.
ItemsOf(e) == {Data(i) : i \in 1 .. Items[e]}
Forward(e) ==
    LET s == put[e]
        g == got[Peer(e)]
    IN  \/ put'[e] = s /\ got'[Peer(e)] = g
        \/ got'[Peer(e)] = g /\ \E r \in ItemsOf(e) : put'[e] = Append(s, r)
        \/ put'[e] = s /\ Len(g) < Len(s) /\ got'[Peer(e)] = Append(g, s[Len(g) + 1])

\* Each step is one of the queue, or none, for each of the two directions.
LEMMA StreamSteps ==
    ASSUME TlsInv, FlowInv, [TlsNext]_tlsVars
    PROVE  Forward("client") /\ Forward("server")
<1>t. put \in [Side -> Seq(Record)] /\ got \in [Side -> Seq(Record)]
  BY DEF TlsInv, TlsTypeOK
<1>1. ASSUME UNCHANGED <<put, got>> PROVE \A f \in Side : Forward(f)
  BY <1>1 DEF Forward
<1>2. ASSUME NEW e \in Side, Write(e) PROVE \A f \in Side : Forward(f)
  <2>1. UNCHANGED got
    BY <1>2 DEF Write
  <2>2. \/ UNCHANGED put
        \/ \E r \in ItemsOf(e) : put' = [put EXCEPT ![e] = Append(@, r)]
    BY <1>2, WriteFlows DEF ItemsOf
  <2>3. ASSUME NEW r \in ItemsOf(e), put' = [put EXCEPT ![e] = Append(@, r)]
        PROVE  Forward(e) /\ Forward(Peer(e))
    <3>1. put'[e] = Append(put[e], r) /\ put'[Peer(e)] = put[Peer(e)]
      BY <1>t, <2>3, Peers
    <3> QED BY <2>1, <3>1 DEF Forward
  <2> QED BY <1>1, <2>1, <2>2, <2>3, Peers
<1>3. ASSUME NEW e \in Side, LandReads(e) \/ EndReads(e) PROVE \A f \in Side : Forward(f)
  <2> DEFINE r == Head(hnd[e].landReads)
  <2>1. UNCHANGED put
    BY <1>3 DEF LandReads, EndReads
  <2>2. \/ UNCHANGED got
        \/ /\ hnd[e].landReads # <<>> /\ r # None
           /\ got' = [got EXCEPT ![e] = Append(@, r)]
    BY <1>3 DEF LandReads, EndReads, Landed
  <2>3. ASSUME hnd[e].landReads # <<>>, r # None, got' = [got EXCEPT ![e] = Append(@, r)]
        PROVE  Forward(e) /\ Forward(Peer(e))
    <3>1. Len(got[e]) < Len(put[Peer(e)]) /\ r = put[Peer(e)][Len(got[e]) + 1]
      BY <2>3, NextLanded
    <3> HIDE DEF r
    <3>2. got'[e] = Append(got[e], r) /\ got'[Peer(e)] = got[Peer(e)]
      BY <1>t, <2>3, Peers
    <3>3. Forward(e)
      BY <2>1, <3>2 DEF Forward
    <3>4. Forward(Peer(e))
      BY <2>1, <3>1, <3>2, Peers DEF Forward
    <3> QED BY <3>3, <3>4
  <2> QED BY <1>1, <2>1, <2>2, <2>3, Peers
<1>4. ASSUME NEW e \in Side,
             Read(e) \/ Close(e) \/ SayBye(e) \/ Connected(e) \/ HelloDone(e) \/ TcpRead(e)
             \/ TcpWrite(e) \/ TcpLost(e) \/ TcpReadFails(e) \/ TcpWriteFails(e) \/ TcpClosed(e)
             \/ Pop(e) \/ LandWrites(e) \/ EndQueues(e) \/ Return(e) \/ ConnectFails(e)
             \/ SocketFails(e)
      PROVE  UNCHANGED <<put, got>>
  BY <1>4 DEF Read, Close, SayBye, Connected, HelloDone, TcpRead, TcpWrite, TcpLost,
     TcpReadFails, TcpWriteFails, TcpClosed, Pop, LandWrites, EndQueues, Return, ConnectFails,
     SocketFails
<1>5. \A f \in Side : Forward(f)
  <2>1. CASE UNCHANGED tlsVars
    BY <1>1, <2>1 DEF tlsVars
  <2> QED BY <1>1, <1>2, <1>3, <1>4, <2>1 DEF TlsNext, Calls, Works
<1> QED BY <1>5 DEF Side

\* What the session of one side has taken comes out of the reads of the other,
\* once and in order, through the flights of the handshake, two buffers and
\* four queues, and however the connection ends: Tls implements two Fifos.
THEOREM TlsOrderCorrect == TlsSpec => TlsInOrder
<1>1. TlsInit => Stream1!Init /\ Stream2!Init
  BY DEF TlsInit, Side, Stream1!Init, Stream2!Init
<1>2. TlsInv /\ FlowInv /\ [TlsNext]_tlsVars =>
          /\ [Stream1!Next]_<<put["client"], got["server"]>>
          /\ [Stream2!Next]_<<put["server"], got["client"]>>
  <2> SUFFICES ASSUME TlsInv, FlowInv, [TlsNext]_tlsVars
               PROVE  /\ [Stream1!Next]_<<put["client"], got["server"]>>
                      /\ [Stream2!Next]_<<put["server"], got["client"]>>
    OBVIOUS
  <2>1. Forward("client") /\ Forward("server")
    BY StreamSteps
  <2>2. Peer("client") = "server" /\ Peer("server") = "client"
    BY DEF Peer
  <2>3. [Stream1!Next]_<<put["client"], got["server"]>>
    BY <2>1, <2>2 DEF Forward, ItemsOf, Stream1!Next, Stream1!Put, Stream1!Get
  <2>4. [Stream2!Next]_<<put["server"], got["client"]>>
    BY <2>1, <2>2 DEF Forward, ItemsOf, Stream2!Next, Stream2!Put, Stream2!Get
  <2> QED BY <2>3, <2>4
<1> QED BY <1>1, <1>2, TlsInvariance, FlowInvariance, PTL
      DEF TlsSpec, TlsInOrder, Stream1!Spec, Stream2!Spec

-----------------------------------------------------------------------------
(* ThreadPool, for any number of workers and tasks: nodes are counted, no  *)
(* worker sleeps while a task has nobody coming for it, tasks begin in     *)
(* order, and stop() returns only when all has been run.                   *)

Queued == {mAllTask[i] : i \in 1 .. Len(mAllTask)}
InHand == {task[w] : w \in Holding}

\* A worker has a task in hand while it runs it, and until it has given the
\* node back.
HandsOK ==
    \A w \in Workers :
        /\ pc[w] = "exec" => task[w] # NoTask
        /\ task[w] # NoTask => \/ pc[w] = "exec"
                               \/ pc[w] = "lock" /\ task[w] \in ran

\* An accepted task is in the queue, in a worker's hand, or has been run.
Served == Accepted = Queued \cup InHand \cup ran

\* A worker ends only when the pool is stopped and its queue empty.
ExitOK == \A w \in Workers : pc[w] = "exit" => ~mRunning /\ mAllTask = <<>>

CtlOK ==
    /\ mRunning <=> ctl \in {"starting", "started"}
    /\ ctl = "stopped" => mAllTask = <<>> /\ \A w \in Workers : pc[w] = "none"

Counts == NodesCounted /\ IdleBounded /\ mMaxAllocated <= maxSeen

IInv == TypeOK /\ Counts /\ NoneSleeps /\ HandsOK /\ Served /\ ExitOK /\ CtlOK

-----------------------------------------------------------------------------
(* Counting.                                                               *)

\* A finite set with one more, and without one, member.
LEMMA OneMore ==
    ASSUME NEW S, IsFiniteSet(S), NEW x, x \notin S
    PROVE  Cardinality(S \cup {x}) = Cardinality(S) + 1
BY FS_AddElement

LEMMA OneFewer ==
    ASSUME NEW S, IsFiniteSet(S), NEW x, x \in S
    PROVE  Cardinality(S \ {x}) = Cardinality(S) - 1 /\ Cardinality(S) > 0
<1>1. Cardinality(S \ {x}) = Cardinality(S) - 1
  BY FS_RemoveElement
<1>2. Cardinality(S) # 0
  BY FS_EmptySet
<1>3. Cardinality(S) \in Nat
  BY FS_CardinalityType
<1> QED BY <1>1, <1>2, <1>3

LEMMA Finite ==
    /\ IsFiniteSet(Holding) /\ Cardinality(Holding) \in Nat
    /\ IsFiniteSet(Looking) /\ Cardinality(Looking) \in Nat
<1>1. Holding \subseteq Workers /\ Looking \subseteq Workers
  BY DEF Holding, Looking
<1>2. IsFiniteSet(Holding) /\ IsFiniteSet(Looking)
  BY <1>1, PoolConstants, FS_Subset
<1> QED BY <1>2, FS_CardinalityType

\* The next state's sets are finite too.
LEMMA FiniteNext ==
    /\ IsFiniteSet(Looking') /\ Cardinality(Looking') \in Nat
<1>1. Looking' \subseteq Workers
  BY DEF Looking
<1> QED BY <1>1, PoolConstants, FS_Subset, FS_CardinalityType

\* A worker comes: NoneSleeps has one more to count.
LEMMA OneMoreLooks ==
    ASSUME NEW w \in Workers, w \notin Looking, Looking' = Looking \cup {w}
    PROVE  Cardinality(Looking') = Cardinality(Looking) + 1
BY OneMore, Finite

LEMMA OneFewerLooks ==
    ASSUME NEW w \in Workers, w \in Looking, Looking' = Looking \ {w}
    PROVE  Cardinality(Looking') = Cardinality(Looking) - 1 /\ Cardinality(Looking) > 0
BY OneFewer, Finite

\* After GiveBack(w) the nodes are those of the queue and of the others.
LEMMA GivenBack ==
    ASSUME TypeOK, Counts, NEW w \in Workers, GiveBack(w)
    PROVE  /\ mTaskCount' = Len(mAllTask) + Cardinality(Holding \ {w})
           /\ mAllocated' = mIdle' + mTaskCount'
           /\ mIdle' > 0 => mAllocated' <= maxSeen
           /\ mIdle' \in Nat /\ mAllocated' \in Nat /\ mTaskCount' \in Nat
           /\ Cardinality(Holding \ {w}) \in Nat
<1>0. /\ Len(mAllTask) \in Nat /\ Cardinality(Holding) \in Nat
      /\ maxSeen \in Nat /\ mMaxAllocated \in Nat
  BY Finite, PoolConstants DEF TypeOK
<1>1. CASE task[w] = NoTask
  <2>1. Holding \ {w} = Holding
    BY <1>1 DEF Holding
  <2> QED BY <1>0, <1>1, <2>1 DEF GiveBack, TypeOK, Counts, NodesCounted, IdleBounded, nodeVars
<1>2. CASE task[w] # NoTask
  <2>1. w \in Holding
    BY <1>2 DEF Holding
  <2>2. /\ Cardinality(Holding \ {w}) = Cardinality(Holding) - 1
        /\ Cardinality(Holding) > 0
    BY <2>1, OneFewer, Finite
  <2>3. PushFreeTask
    BY <1>2 DEF GiveBack
  <2> DEFINE h == Cardinality(Holding)
             g == Cardinality(Holding \ {w})
             q == Len(mAllTask)
  <2> HIDE DEF h, g, q
  <2>4. /\ mIdle \in Nat /\ mAllocated \in Nat /\ mTaskCount \in Nat
        /\ h \in Nat /\ q \in Nat /\ g = h - 1 /\ h > 0
        /\ mTaskCount = q + h /\ mAllocated = mIdle + mTaskCount
        /\ mIdle > 0 => mAllocated <= maxSeen
        /\ mMaxAllocated <= maxSeen
    BY <1>0, <2>2 DEF TypeOK, Counts, NodesCounted, IdleBounded, h, g, q
  <2>5. /\ mTaskCount' = q + g /\ mAllocated' = mIdle' + mTaskCount'
        /\ mIdle' > 0 => mAllocated' <= maxSeen
        /\ mIdle' \in Nat /\ mAllocated' \in Nat /\ mTaskCount' \in Nat /\ g \in Nat
    BY <1>0, <2>3, <2>4 DEF PushFreeTask, TooMany, Deleted
  <2> QED BY <2>5 DEF g, q
<1> QED BY <1>1, <1>2

-----------------------------------------------------------------------------
LEMMA Starts0 == Init => IInv
<1> SUFFICES ASSUME Init PROVE IInv
  OBVIOUS
<1>1. TypeOK
  <2>1. <<>> \in Seq(Tasks)
    OBVIOUS
  <2>2. mMaxAllocated \in Limits /\ maxSeen \in Limits
    BY DEF Init
  <2>3. pc \in [Workers -> States] /\ task \in [Workers -> Tasks \cup {NoTask}]
    BY DEF Init, States
  <2> QED BY <2>1, <2>2, <2>3 DEF Init, TypeOK
<1>2. Holding = {} /\ Waiting = {} /\ Queued = {} /\ InHand = {} /\ Accepted = {}
  BY DEF Init, Holding, Waiting, Queued, InHand, Accepted
<1>3. Counts
  BY <1>1, <1>2, FS_EmptySet, PoolConstants DEF Init, Counts, NodesCounted, IdleBounded, TypeOK
<1> QED BY <1>1, <1>2, <1>3 DEF Init, IInv, NoneSleeps, HandsOK, Served, ExitOK, CtlOK

\* A task is accepted: one more node, and one waiting worker is woken.
LEMMA PostKeeps == ASSUME IInv, NEW t \in Tasks, PostTask(t) PROVE IInv'
<1> USE DEF IInv
<1>0. UNCHANGED <<taken, mMaxAllocated, maxSeen, task, ran, mRunning, ctl, started>>
  BY DEF PostTask, limitVars, ctlVars
<1>1. /\ mAllTask' \in Seq(Tasks) /\ Len(mAllTask') = Len(mAllTask) + 1
      /\ posted' = Append(posted, t) /\ posted' \in Seq(Tasks)
      /\ Len(mAllTask) \in Nat
  BY DEF PostTask, Pushed, TypeOK
<1>2. Queued' = Queued \cup {t}
  <2>1. CASE mAllTask' = Append(mAllTask, t)
    <3>1. PICK l \in Nat : l = Len(mAllTask) /\ Len(mAllTask') = l + 1
      BY <1>1
    <3>2. mAllTask'[l + 1] = t /\ \A i \in 1 .. l : mAllTask'[i] = mAllTask[i]
      BY <2>1, <3>1 DEF TypeOK
    <3>3. 1 .. l + 1 = 1 .. l \cup {l + 1}
      OBVIOUS
    <3>4. Queued = {mAllTask[i] : i \in 1 .. l} /\ Queued' = {mAllTask'[i] : i \in 1 .. l + 1}
      BY <3>1 DEF Queued
    <3> QED BY <3>2, <3>3, <3>4
  <2>2. CASE mAllTask' = <<t>> \o mAllTask
    <3>1. \A i \in 1 .. Len(mAllTask) : mAllTask'[i + 1] = mAllTask[i]
      BY <2>2 DEF TypeOK
    <3>2. mAllTask'[1] = t /\ \A i \in 1 .. Len(mAllTask') :
             i = 1 \/ (i - 1 \in 1 .. Len(mAllTask) /\ mAllTask'[i] = mAllTask[i - 1])
      BY <2>2, <1>1 DEF TypeOK
    <3>3. ASSUME NEW x \in Queued' PROVE x \in Queued \cup {t}
      BY <3>2 DEF Queued
    <3>4. ASSUME NEW x \in Queued PROVE x \in Queued'
      <4>1. PICK i \in 1 .. Len(mAllTask) : x = mAllTask[i]
        BY DEF Queued
      <4>2. i + 1 \in 1 .. Len(mAllTask') /\ mAllTask'[i + 1] = x
        BY <4>1, <3>1, <1>1
      <4> QED BY <4>2 DEF Queued
    <3>5. t \in Queued'
      BY <3>2, <1>1 DEF Queued
    <3> QED BY <3>3, <3>4, <3>5
  <2> QED BY <2>1, <2>2 DEF PostTask, Pushed
<1>3. Accepted' = Accepted \cup {t}
  <2>1. /\ Len(posted') = Len(posted) + 1 /\ Len(posted) \in Nat
        /\ posted'[Len(posted) + 1] = t
        /\ \A i \in 1 .. Len(posted) : posted'[i] = posted[i]
    BY <1>1 DEF TypeOK
  <2>2. 1 .. Len(posted') = (1 .. Len(posted)) \cup {Len(posted) + 1}
    BY <2>1
  <2> QED BY <2>1, <2>2 DEF Accepted
<1>4. Holding' = Holding /\ InHand' = InHand
  BY <1>0 DEF Holding, InHand
<1>5. Counts' /\ mIdle' \in Nat /\ mAllocated' \in Nat /\ mTaskCount' \in Nat
  <2>1. /\ mIdle \in Nat /\ mAllocated \in Nat /\ mTaskCount \in Nat
        /\ mMaxAllocated \in Nat /\ maxSeen \in Nat /\ Cardinality(Holding) \in Nat
    BY Finite, PoolConstants DEF TypeOK
  <2>2. PopFreeTask
    BY DEF PostTask
  <2>3. Cardinality(Holding') = Cardinality(Holding)
    BY <1>4
  <2> DEFINE h == Cardinality(Holding)
             q == Len(mAllTask)
  <2> HIDE DEF h, q
  <2>4. /\ h \in Nat /\ q \in Nat /\ mTaskCount = q + h /\ mAllocated = mIdle + mTaskCount
        /\ mIdle > 0 => mAllocated <= maxSeen
        /\ mMaxAllocated <= maxSeen
    BY <1>1, <2>1 DEF Counts, NodesCounted, IdleBounded, h, q
  <2>5. /\ mTaskCount' = (q + 1) + h /\ mAllocated' = mIdle' + mTaskCount'
        /\ mIdle' > 0 => mAllocated' <= maxSeen
        /\ mIdle' \in Nat /\ mAllocated' \in Nat /\ mTaskCount' \in Nat
    BY <2>1, <2>2, <2>4 DEF PopFreeTask, HasIdle
  <2> QED BY <1>0, <1>1, <2>3, <2>4, <2>5 DEF Counts, NodesCounted, IdleBounded, h, q
<1>6. PICK w \in Workers :
         \/ Waiting = {} /\ pc' = pc
         \/ w \in Waiting /\ pc' = [pc EXCEPT ![w] = "woken"]
  BY PoolConstants DEF PostTask, NotifyOne, Waiting
<1>7. pc' \in [Workers -> States]
      /\ \A v \in Workers : pc'[v] = pc[v] \/ (pc[v] = "wait" /\ pc'[v] = "woken")
  BY <1>6 DEF TypeOK, States, Waiting
<1>8. TypeOK'
  BY <1>0, <1>1, <1>5, <1>7 DEF TypeOK
<1>9. NoneSleeps'
  <2>1. CASE Waiting = {} /\ pc' = pc
    <3>1. Waiting' = {}
      BY <2>1 DEF Waiting
    <3> QED BY <3>1 DEF NoneSleeps
  <2>2. CASE w \in Waiting /\ pc' = [pc EXCEPT ![w] = "woken"]
    <3>1. w \notin Looking /\ Looking' = Looking \cup {w}
      BY <2>2 DEF Waiting, Looking, TypeOK
    <3>2. Cardinality(Looking') = Cardinality(Looking) + 1
      BY <3>1, OneMoreLooks
    <3>3. Len(mAllTask) <= Cardinality(Looking)
      BY <2>2 DEF NoneSleeps
    <3> QED BY <1>1, <3>2, <3>3, Finite DEF NoneSleeps
  <2> QED BY <1>6, <2>1, <2>2
<1>10. HandsOK' /\ Served' /\ ExitOK' /\ CtlOK'
  BY <1>0, <1>2, <1>3, <1>4, <1>7 DEF HandsOK, Served, ExitOK, CtlOK, PostTask, TypeOK
<1> QED BY <1>5, <1>8, <1>9, <1>10

\* A worker waits, or ends: its node has been given back.
LEMMA LeaveKeeps ==
    ASSUME IInv, NEW w \in Workers, Wait(w) \/ Exit(w)
    PROVE  IInv'
<1> USE DEF IInv
<1>0. /\ UNCHANGED <<mAllTask, posted, taken, mMaxAllocated, maxSeen, ran, mRunning,
                     ctl, started>>
      /\ mAllTask = <<>> /\ GiveBack(w) /\ pc[w] \in {"lock", "woken"}
      /\ task' = [task EXCEPT ![w] = NoTask]
  BY DEF Wait, Exit, MustWait, MayExit, queueVars, limitVars, ctlVars
<1>1. PICK s \in {"wait", "exit"} :
         pc' = [pc EXCEPT ![w] = s] /\ (s = "exit" => ~mRunning)
  BY DEF Wait, Exit, MayExit
<1>2. Holding' = Holding \ {w}
  BY <1>0 DEF Holding, TypeOK
<1>3. TypeOK' /\ Counts'
  BY <1>0, <1>1, <1>2, GivenBack
     DEF TypeOK, States, Counts, NodesCounted, IdleBounded
<1>4. NoneSleeps'
  BY <1>0, FiniteNext DEF NoneSleeps
<1>5. HandsOK'
  BY <1>0, <1>1 DEF HandsOK, TypeOK
<1>6. Served'
  <2>1. Queued' = Queued /\ Accepted' = Accepted
    BY <1>0 DEF Queued, Accepted
  <2>2. \A v \in Holding' : v \in Holding /\ task'[v] = task[v]
    BY <1>0, <1>2 DEF TypeOK, Holding
  <2>3. InHand' \subseteq InHand
    BY <2>2 DEF InHand
  <2>4. \A v \in Holding : v = w \/ (v \in Holding' /\ task'[v] = task[v])
    BY <1>0, <1>2 DEF TypeOK, Holding
  <2>5. InHand \subseteq InHand' \cup ran
    BY <1>0, <2>4 DEF InHand, HandsOK, Holding
  <2> QED BY <1>0, <2>1, <2>3, <2>5 DEF Served
<1>7. ExitOK' /\ CtlOK'
  BY <1>0, <1>1 DEF ExitOK, CtlOK, TypeOK
<1> QED BY <1>3, <1>4, <1>5, <1>6, <1>7

LEMMA TakeKeeps == ASSUME IInv, NEW w \in Workers, TakeTask(w) PROVE IInv'
<1> USE DEF IInv
<1> DEFINE t == Head(mAllTask)
<1>0. /\ UNCHANGED <<posted, mMaxAllocated, maxSeen, ran, mRunning, ctl, started>>
      /\ mAllTask # <<>> /\ GiveBack(w) /\ pc[w] \in {"lock", "woken"}
      /\ mAllTask' = Tail(mAllTask) /\ taken' = Append(taken, t)
      /\ task' = [task EXCEPT ![w] = t] /\ pc' = [pc EXCEPT ![w] = "exec"]
  BY DEF TakeTask, queueVars, limitVars, ctlVars
<1>1. /\ t \in Tasks /\ t # NoTask /\ mAllTask' \in Seq(Tasks)
      /\ Len(mAllTask') = Len(mAllTask) - 1 /\ Len(mAllTask) \in Nat \ {0}
      /\ t = mAllTask[1]
      /\ \A i \in 1 .. Len(mAllTask') : mAllTask'[i] = mAllTask[i + 1]
  BY <1>0, PoolConstants DEF TypeOK
<1> HIDE DEF t
<1>2. w \notin Holding \ {w} /\ Holding' = (Holding \ {w}) \cup {w}
  BY <1>0, <1>1 DEF Holding, TypeOK
<1>3. Cardinality(Holding') = Cardinality(Holding \ {w}) + 1
  <2>1. IsFiniteSet(Holding \ {w})
    BY Finite, FS_Subset
  <2> QED BY <1>2, <2>1, OneMore
<1>4. Counts' /\ mIdle' \in Nat /\ mAllocated' \in Nat /\ mTaskCount' \in Nat
  BY <1>0, <1>1, <1>3, GivenBack
     DEF Counts, NodesCounted, IdleBounded
<1>5. TypeOK'
  BY <1>0, <1>1, <1>4 DEF TypeOK, States
<1>6. NoneSleeps'
  <2>1. Waiting' = Waiting
    BY <1>0 DEF Waiting, TypeOK
  <2>2. w \in Looking /\ Looking' = Looking \ {w}
    BY <1>0 DEF Looking, TypeOK
  <2>3. Cardinality(Looking') = Cardinality(Looking) - 1 /\ Cardinality(Looking) > 0
    BY <2>2, OneFewerLooks
  <2> QED BY <1>1, <2>1, <2>3, Finite DEF NoneSleeps
<1>7. HandsOK'
  BY <1>0, <1>1 DEF HandsOK, TypeOK
<1>8. Served'
  <2>1. Queued \subseteq Queued' \cup {t}
    <3> SUFFICES ASSUME NEW i \in 1 .. Len(mAllTask), mAllTask[i] # t
                 PROVE  mAllTask[i] \in Queued'
      BY DEF Queued
    <3>1. i - 1 \in 1 .. Len(mAllTask') /\ mAllTask'[i - 1] = mAllTask[(i - 1) + 1]
          /\ (i - 1) + 1 = i
      BY <1>1
    <3> QED BY <3>1 DEF Queued
  <2>2. Queued' \cup {t} \subseteq Queued
    BY <1>1 DEF Queued
  <2>3. \A v \in Holding : v = w \/ (v \in Holding' /\ task'[v] = task[v])
    BY <1>0, <1>2 DEF TypeOK, Holding
  <2>4. InHand \subseteq InHand' \cup ran
    BY <1>0, <2>3 DEF InHand, HandsOK, Holding
  <2>5. w \in Holding' /\ task'[w] = t
    BY <1>0, <1>2 DEF TypeOK
  <2>6. t \in InHand'
    BY <2>5 DEF InHand
  <2>7. \A v \in Holding' : v = w \/ (v \in Holding /\ task'[v] = task[v])
    BY <1>0, <1>2 DEF TypeOK
  <2>8. InHand' \subseteq InHand \cup {t}
    BY <2>5, <2>7 DEF InHand
  <2>9. Accepted' = Accepted
    BY <1>0 DEF Accepted
  <2> QED BY <1>0, <2>1, <2>2, <2>4, <2>6, <2>8, <2>9 DEF Served
<1>9. ExitOK' /\ CtlOK'
  BY <1>0 DEF ExitOK, CtlOK, TypeOK
<1> QED BY <1>4, <1>5, <1>6, <1>7, <1>8, <1>9

\* Steps of a worker's program counter that move no node.
LEMMA MoveKeeps ==
    ASSUME IInv, NEW w \in Workers, TaskReturns(w) \/ Woken(w) \/ CreateThread(w)
    PROVE  IInv'
<1> USE DEF IInv
<1>0. UNCHANGED <<mAllTask, posted, taken, mIdle, mAllocated, mTaskCount, mMaxAllocated,
                  maxSeen, task, mRunning, ctl, started>>
  BY DEF TaskReturns, Woken, CreateThread, queueVars, nodeVars, limitVars, ctlVars
<1>1. PICK s \in {"lock", "woken"} :
         /\ pc' = [pc EXCEPT ![w] = s]
         /\ \/ pc[w] = "exec" /\ s = "lock" /\ ran' = ran \cup {task[w]}
            \/ pc[w] = "wait" /\ s = "woken" /\ ran' = ran
            \/ pc[w] = "none" /\ s = "lock" /\ ran' = ran /\ ctl = "starting"
  BY DEF TaskReturns, Woken, CreateThread
<1>2. Holding' = Holding /\ InHand' = InHand /\ Queued' = Queued /\ Accepted' = Accepted
  BY <1>0 DEF Holding, InHand, Queued, Accepted
<1>3. task[w] \in InHand \/ pc[w] # "exec"
  BY DEF InHand, Holding, HandsOK
<1>4. TypeOK' /\ Counts'
  BY <1>0, <1>1, <1>2 DEF TypeOK, States, Counts, NodesCounted, IdleBounded, HandsOK
<1>5. NoneSleeps'
  <2>1. w \notin Looking /\ Looking' = Looking \cup {w}
    BY <1>1 DEF Looking, TypeOK
  <2>2. Cardinality(Looking') = Cardinality(Looking) + 1
    BY <2>1, OneMoreLooks
  <2>3. Waiting' \subseteq Waiting
    BY <1>1 DEF Waiting, TypeOK
  <2>4. Len(mAllTask) \in Nat
    BY DEF TypeOK
  <2> QED BY <1>0, <2>2, <2>3, <2>4, Finite DEF NoneSleeps
<1>6. HandsOK'
  BY <1>0, <1>1 DEF HandsOK, TypeOK
<1>7. Served'
  BY <1>1, <1>2, <1>3 DEF Served
<1>8. ExitOK' /\ CtlOK'
  BY <1>0, <1>1 DEF ExitOK, CtlOK, TypeOK
<1> QED BY <1>4, <1>5, <1>6, <1>7, <1>8

\* start() and stop(), and the limit.
LEMMA CtlKeeps ==
    ASSUME IInv,
           Start \/ StartReturns \/ Stop \/ \E n \in Limits : SetMaxAllocated(n)
    PROVE  IInv'
<1> USE DEF IInv
<1>0. UNCHANGED <<mAllTask, posted, taken, mIdle, mAllocated, mTaskCount, pc, task, ran>>
  BY DEF Start, StartReturns, Stop, SetMaxAllocated, queueVars, nodeVars, workVars
<1>1. Holding' = Holding /\ InHand' = InHand /\ Queued' = Queued /\ Accepted' = Accepted
      /\ Waiting' = Waiting /\ Looking' = Looking
  BY <1>0 DEF Holding, InHand, Queued, Accepted, Waiting, Looking
<1>2. mMaxAllocated' \in Limits /\ maxSeen' \in Limits
      /\ mMaxAllocated' <= maxSeen' /\ maxSeen <= maxSeen'
  BY PoolConstants DEF Start, StartReturns, Stop, SetMaxAllocated, limitVars, TypeOK, Counts
<1>3. TypeOK'
  <2>1. started' \in Nat /\ ctl' \in {"stopped", "starting", "started", "notify", "join"}
    BY DEF TypeOK, Start, StartReturns, Stop, SetMaxAllocated, ctlVars
  <2>2. mRunning' \in BOOLEAN
    BY Zenon DEF TypeOK, Start, StartReturns, Stop, SetMaxAllocated, ctlVars
  <2> QED BY <1>0, <1>2, <2>1, <2>2 DEF TypeOK
<1>5. Counts'
  <2>1. mAllocated \in Nat /\ maxSeen \in Nat /\ maxSeen' \in Nat /\ mMaxAllocated' \in Nat
    BY <1>2, PoolConstants DEF TypeOK
  <2>2. NodesCounted'
    BY <1>0, <1>1 DEF Counts, NodesCounted
  <2>3. IdleBounded'
    BY <1>0, <1>2, <2>1 DEF Counts, IdleBounded
  <2> QED BY <1>2, <2>2, <2>3 DEF Counts
<1>4. ExitOK' /\ CtlOK'
  BY <1>0 DEF ExitOK, CtlOK, Start, StartReturns, Stop, SetMaxAllocated, ctlVars, TypeOK
<1> QED BY <1>0, <1>1, <1>3, <1>4, <1>5 DEF NoneSleeps, HandsOK, Served

\* notify_all() and the end of stop(): nobody waits afterwards.
LEMMA StopKeeps == ASSUME IInv, NotifyAll \/ StopReturns PROVE IInv'
<1> USE DEF IInv
<1>0. UNCHANGED <<mAllTask, posted, taken, mIdle, mAllocated, mTaskCount, mMaxAllocated,
                  maxSeen, task, ran, mRunning, started>>
  BY DEF NotifyAll, StopReturns, queueVars, nodeVars, limitVars
<1>1. Holding' = Holding /\ InHand' = InHand /\ Queued' = Queued /\ Accepted' = Accepted
  BY <1>0 DEF Holding, InHand, Queued, Accepted
<1>2. /\ pc' \in [Workers -> States] /\ ctl' \in {"join", "stopped"}
      /\ \A v \in Workers : pc'[v] # "wait"
  BY DEF NotifyAll, AllWake, StopReturns, TypeOK, States
<1>3. TypeOK' /\ Counts'
  BY <1>0, <1>1, <1>2 DEF TypeOK, Counts, NodesCounted, IdleBounded
<1>4. NoneSleeps'
  BY <1>2 DEF NoneSleeps, Waiting
<1>5. HandsOK' /\ ExitOK' /\ CtlOK'
  <2>1. CASE NotifyAll
    BY <1>0, <2>1 DEF NotifyAll, AllWake, HandsOK, ExitOK, CtlOK, TypeOK
  <2>2. CASE StopReturns
    BY <1>0, <2>2, PoolConstants DEF StopReturns, HandsOK, ExitOK, CtlOK, TypeOK
  <2> QED BY <2>1, <2>2
<1>6. Served'
  BY <1>0, <1>1 DEF Served
<1> QED BY <1>3, <1>4, <1>5, <1>6

LEMMA Inductive == IInv /\ [Next]_vars => IInv'
<1> SUFFICES ASSUME IInv, [Next]_vars PROVE IInv'
  OBVIOUS
<1>1. CASE Next
  BY <1>1, PostKeeps, LeaveKeeps, TakeKeeps, MoveKeeps, CtlKeeps, StopKeeps
     DEF Next, WorkerStep, CtlStep
<1>2. CASE UNCHANGED vars
  <2>1. UNCHANGED <<mAllTask, posted, taken, mIdle, mAllocated, mTaskCount, mMaxAllocated,
                    maxSeen, pc, task, ran, mRunning, ctl, started>>
    BY <1>2 DEF vars, queueVars, nodeVars, limitVars, workVars, ctlVars
  <2>2. Holding' = Holding /\ InHand' = InHand /\ Queued' = Queued /\ Accepted' = Accepted
        /\ Waiting' = Waiting /\ Looking' = Looking
    BY <2>1 DEF Holding, InHand, Queued, Accepted, Waiting, Looking
  <2>3. TypeOK' /\ Counts'
    BY <2>1, <2>2 DEF IInv, TypeOK, Counts, NodesCounted, IdleBounded
  <2> QED BY <2>1, <2>2, <2>3 DEF IInv, NoneSleeps, HandsOK, Served, ExitOK, CtlOK
<1> QED BY <1>1, <1>2

\* The invariant holds in every behaviour of the pool.
THEOREM Invariance == Spec => []IInv
BY Starts0, Inductive, PTL DEF Spec

\* Every variable of ThreadPool has its type; no counter goes below zero.
THEOREM TypeCorrect == Spec => []TypeOK
<1>1. IInv => TypeOK
  BY DEF IInv
<1> QED BY <1>1, Invariance, PTL

\* popFreeTask() and pushFreeTask() lose no node and give none back twice.
THEOREM NodesCorrect == Spec => [](NodesCounted /\ IdleBounded)
<1>1. IInv => NodesCounted /\ IdleBounded
  BY DEF IInv, Counts
<1> QED BY <1>1, Invariance, PTL

\* notify_one() for each task is enough: no worker sleeps in run() while there
\* are more tasks than workers coming for them.
THEOREM NoneSleepsCorrect == Spec => []NoneSleeps
<1>1. IInv => NoneSleeps
  BY DEF IInv
<1> QED BY <1>1, Invariance, PTL

\* When stop() has returned, all that postTask() accepted has been run.
THEOREM StopCorrect == Spec => []StopDrains
<1>1. IInv => StopDrains
  <2> SUFFICES ASSUME IInv, ctl = "stopped"
               PROVE  mAllTask = <<>> /\ Accepted = ran /\ mTaskCount = 0 /\ ~mRunning
    BY DEF StopDrains
  <2>1. mAllTask = <<>> /\ ~mRunning /\ \A w \in Workers : pc[w] = "none"
    BY DEF IInv, CtlOK
  <2>2. Holding = {}
    BY <2>1 DEF IInv, HandsOK, Holding
  <2>3. Queued = {} /\ InHand = {}
    BY <2>1, <2>2 DEF Queued, InHand
  <2>4. mTaskCount = 0
    BY <2>1, <2>2, FS_EmptySet DEF IInv, Counts, NodesCounted
  <2> QED BY <2>1, <2>3, <2>4 DEF IInv, Served
<1> QED BY <1>1, Invariance, PTL

-----------------------------------------------------------------------------
(* The order in which tasks are begun.                                     *)

PostedOnce == \A i, j \in 1 .. Len(posted) : posted[i] = posted[j] => i = j
OrderInv == PostedOnce /\ BeginInOrder

\* A sequence with one element put in at place p: the rest moves up.
PutIn(s, z, t, p) ==
    /\ p \in 1 .. Len(s) + 1 /\ Len(z) = Len(s) + 1
    /\ z[p] = t
    /\ \A k \in 1 .. Len(s) : (k < p => z[k] = s[k]) /\ (k >= p => z[k + 1] = s[k])
    /\ \A k \in 1 .. Len(z) :
          \/ k = p
          \/ k < p /\ z[k] = s[k]
          \/ k > p /\ k - 1 \in 1 .. Len(s) /\ z[k] = s[k - 1]

\* Two sequences of one length with the same elements are one.
LEMMA SameSeq ==
    ASSUME NEW S, NEW a \in Seq(S), NEW b \in Seq(S), Len(a) = Len(b),
           \A k \in 1 .. Len(b) : a[k] = b[k]
    PROVE  a = b
OBVIOUS

\* An urgent task is put in before all that wait, another one behind.
LEMMA PushedPutIn ==
    ASSUME TypeOK, NEW t \in Tasks, mAllTask' = Pushed(t), taken' = taken
    PROVE  /\ PutIn(Begun, Begun', t,
                    IF t \in Urgent THEN Len(taken) + 1 ELSE Len(Begun) + 1)
           /\ PutIn(mAllTask, mAllTask', t,
                    IF t \in Urgent THEN 1 ELSE Len(mAllTask) + 1)
<1>0. taken \in Seq(Tasks) /\ mAllTask \in Seq(Tasks) /\ mAllTask' \in Seq(Tasks)
  BY DEF TypeOK, Pushed
<1>1. CASE t \in Urgent
  <2>1. mAllTask' = <<t>> \o mAllTask
    BY <1>1 DEF Pushed
  <2>2. /\ Len(mAllTask') = Len(mAllTask) + 1 /\ mAllTask'[1] = t
        /\ \A k \in 1 .. Len(mAllTask) : mAllTask'[k + 1] = mAllTask[k]
        /\ \A k \in 1 .. Len(mAllTask') :
              k = 1 \/ (k > 1 /\ k - 1 \in 1 .. Len(mAllTask) /\ mAllTask'[k] = mAllTask[k - 1])
    <3>1. Len(mAllTask') = Len(mAllTask) + 1 /\ Len(mAllTask) \in Nat
      BY <1>0, <2>1
    <3>2. \A k \in 1 .. Len(mAllTask') :
             mAllTask'[k] = IF k = 1 THEN t ELSE mAllTask[k - 1]
      BY <1>0, <2>1, <3>1
    <3> QED BY <3>1, <3>2
  <2>3. PutIn(mAllTask, mAllTask', t, 1)
    BY <1>0, <2>2 DEF PutIn
  <2>4. PutIn(taken \o mAllTask, taken \o mAllTask', t, Len(taken) + 1)
    <3> DEFINE a == taken \o mAllTask
               b == taken \o mAllTask'
               n == Len(taken)
               m == Len(mAllTask)
    <3>1. n \in Nat /\ m \in Nat /\ Len(a) = n + m /\ Len(b) = n + m + 1
      <4>1. n \in Nat /\ m \in Nat /\ Len(a) = n + m
        BY <1>0
      <4>2. Len(b) = n + Len(mAllTask')
        BY <1>0
      <4>3. Len(mAllTask') = m + 1
        BY <2>2
      <4> HIDE DEF n, m, a, b
      <4>4. n + (m + 1) = n + m + 1
        BY <4>1
      <4> QED BY <4>1, <4>2, <4>3, <4>4
    <3>2. \A k \in 1 .. n : a[k] = taken[k] /\ b[k] = taken[k]
      BY <1>0, <2>2
    <3>3. \A k \in n + 1 .. n + m : a[k] = mAllTask[k - n]
      BY <1>0, <3>1
    <3>4. \A k \in n + 1 .. n + m + 1 : b[k] = mAllTask'[k - n]
      BY <1>0, <2>2, <3>1
    <3> HIDE DEF a, b, n
    <3>5. \A k \in 1 .. Len(b) :
             \/ k = n + 1
             \/ k < n + 1 /\ b[k] = a[k]
             \/ k > n + 1 /\ k - 1 \in 1 .. Len(a) /\ b[k] = a[k - 1]
      <4> SUFFICES ASSUME NEW k \in 1 .. n + m + 1, k > n + 1
                   PROVE  k - 1 \in 1 .. Len(a) /\ b[k] = a[k - 1]
        BY <3>1, <3>2
      <4>1. k - n \in 1 .. Len(mAllTask') /\ k - n # 1
        BY <2>2, <3>1
      <4>2. mAllTask'[k - n] = mAllTask[(k - n) - 1]
        BY <4>1, <2>2
      <4>3. a[k - 1] = mAllTask[(k - 1) - n] /\ (k - 1) - n = (k - n) - 1
        BY <3>1, <3>3
      <4> QED BY <3>1, <3>4, <4>2, <4>3
    <3>6. \A k \in 1 .. Len(a) : k < n + 1 => b[k] = a[k]
      BY <3>1, <3>2
    <3>7. \A k \in 1 .. Len(a) : k >= n + 1 => b[k + 1] = a[k]
      <4> SUFFICES ASSUME NEW k \in 1 .. n + m, k >= n + 1 PROVE b[k + 1] = a[k]
        BY <3>1
      <4>1. mAllTask'[(k - n) + 1] = mAllTask[k - n]
        BY <2>2, <3>1
      <4>2. (k + 1) - n = (k - n) + 1
        BY <3>1
      <4> QED BY <3>1, <3>3, <3>4, <4>1, <4>2
    <3>8. b[n + 1] = t
      <4>1. b[n + 1] = mAllTask'[(n + 1) - n] /\ (n + 1) - n = 1
        BY <3>1, <3>4
      <4> QED BY <4>1, <2>2
    <3>9. n + 1 \in 1 .. Len(a) + 1
      BY <3>1
    <3>10. PutIn(a, b, t, n + 1)
      BY <3>1, <3>5, <3>6, <3>7, <3>8, <3>9 DEF PutIn
    <3> QED BY <3>10 DEF a, b, n
  <2> QED BY <1>1, <2>3, <2>4 DEF Begun
<1>2. CASE t \notin Urgent
  <2>1. mAllTask' = Append(mAllTask, t)
    BY <1>2 DEF Pushed
  <2>3. /\ Len(mAllTask') = Len(mAllTask) + 1 /\ mAllTask'[Len(mAllTask) + 1] = t
        /\ Len(mAllTask) \in Nat
        /\ \A k \in 1 .. Len(mAllTask) : mAllTask'[k] = mAllTask[k]
    BY <1>0, <2>1
  <2>2. PutIn(mAllTask, mAllTask', t, Len(mAllTask) + 1)
    <3>1. \A k \in 1 .. Len(mAllTask') :
             k = Len(mAllTask) + 1 \/ (k < Len(mAllTask) + 1 /\ mAllTask'[k] = mAllTask[k])
      BY <2>3
    <3>2. \A k \in 1 .. Len(mAllTask) : k < Len(mAllTask) + 1
      BY <2>3
    <3>3. Len(mAllTask) + 1 \in 1 .. Len(mAllTask) + 1
      BY <2>3
    <3> QED BY <2>3, <3>1, <3>2, <3>3 DEF PutIn
  <2>5. /\ Len(taken) \in Nat
        /\ Len(taken \o mAllTask) = Len(taken) + Len(mAllTask)
        /\ Len(taken \o mAllTask') = Len(taken) + Len(mAllTask) + 1
    BY <1>0, <2>3
  <2>6. \A k \in 1 .. Len(taken) + Len(mAllTask) :
           (taken \o mAllTask')[k] = (taken \o mAllTask)[k]
    BY <1>0, <2>3
  <2>7. (taken \o mAllTask')[Len(taken) + Len(mAllTask) + 1] = t
    BY <1>0, <2>3
  <2>4. PutIn(taken \o mAllTask, taken \o mAllTask', t, Len(taken \o mAllTask) + 1)
    <3> DEFINE a == taken \o mAllTask
               b == taken \o mAllTask'
    <3>1. /\ Len(a) \in Nat /\ Len(b) = Len(a) + 1 /\ b[Len(a) + 1] = t
          /\ \A k \in 1 .. Len(a) : b[k] = a[k]
      BY <2>3, <2>5, <2>6, <2>7
    <3> HIDE DEF a, b
    <3>2. \A k \in 1 .. Len(b) : k = Len(a) + 1 \/ (k < Len(a) + 1 /\ b[k] = a[k])
      BY <3>1
    <3>3. \A k \in 1 .. Len(a) : k < Len(a) + 1
      BY <3>1
    <3>4. Len(a) + 1 \in 1 .. Len(a) + 1
      BY <3>1
    <3>5. PutIn(a, b, t, Len(a) + 1)
      BY <3>1, <3>2, <3>3, <3>4 DEF PutIn
    <3> QED BY <3>5 DEF a, b
  <2> QED BY <1>2, <2>2, <2>4 DEF Begun
<1> QED BY <1>1, <1>2

LEMMA PostKeepsOrder ==
    ASSUME TypeOK, OrderInv, NEW t \in Tasks, PostTask(t)
    PROVE  OrderInv'
<1> USE DEF OrderInv
<1> DEFINE p == IF t \in Urgent THEN Len(taken) + 1 ELSE Len(Begun) + 1
           q == IF t \in Urgent THEN 1 ELSE Len(mAllTask) + 1
<1>1. mAllTask' = Pushed(t) /\ taken' = taken
  BY DEF PostTask
<1>2. PutIn(Begun, Begun', t, p) /\ PutIn(mAllTask, mAllTask', t, q)
  BY <1>1, PushedPutIn
<1>3. /\ Len(posted) \in Nat /\ Len(Begun) \in Nat /\ Len(mAllTask) \in Nat
      /\ Len(taken) \in Nat /\ Len(Begun) = Len(taken) + Len(mAllTask)
  BY DEF TypeOK, Begun
<1>4. /\ Len(posted') = Len(posted) + 1 /\ posted'[Len(posted) + 1] = t
      /\ \A i \in 1 .. Len(posted) : posted'[i] = posted[i] /\ posted[i] # t
  BY DEF PostTask, TypeOK, Accepted
<1>5. \A k \in 1 .. Len(Begun) : Begun[k] \in Accepted /\ Begun[k] # t
  BY DEF BeginInOrder, PostTask
<1>6. t \notin Urgent => p = Len(Begun) + 1
  OBVIOUS
<1>7. p \in 1 .. Len(Begun) + 1
  BY <1>2 DEF PutIn
<1> HIDE DEF p
<1>8. PostedOnce'
  BY <1>3, <1>4 DEF PostedOnce
<1>9. Accepted' = {Begun'[k] : k \in 1 .. Len(Begun')}
  <2>1. Accepted' = Accepted \cup {t}
    <3>1. 1 .. Len(posted') = (1 .. Len(posted)) \cup {Len(posted) + 1}
      BY <1>3, <1>4
    <3> QED BY <3>1, <1>4 DEF Accepted
  <2>2. ASSUME NEW k \in 1 .. Len(Begun') PROVE Begun'[k] \in Accepted \cup {t}
    <3>1. \/ Begun'[k] = t
          \/ k \in 1 .. Len(Begun) /\ Begun'[k] = Begun[k]
          \/ k - 1 \in 1 .. Len(Begun) /\ Begun'[k] = Begun[k - 1]
      BY <1>2, <1>3, <1>7 DEF PutIn
    <3> QED BY <3>1, <1>5
  <2>3. ASSUME NEW x \in Accepted PROVE \E k \in 1 .. Len(Begun') : x = Begun'[k]
    <3>1. PICK k \in 1 .. Len(Begun) : x = Begun[k]
      BY DEF BeginInOrder
    <3>2. \/ k \in 1 .. Len(Begun') /\ Begun'[k] = Begun[k]
          \/ k + 1 \in 1 .. Len(Begun') /\ Begun'[k + 1] = Begun[k]
      BY <1>2, <1>3, <1>7 DEF PutIn
    <3> QED BY <3>1, <3>2
  <2>4. p \in 1 .. Len(Begun') /\ Begun'[p] = t
    BY <1>2, <1>3, <1>7 DEF PutIn
  <2> QED BY <2>1, <2>2, <2>3, <2>4
<1>10. \A k, l \in 1 .. Len(Begun') : Begun'[k] = Begun'[l] => k = l
  <2> SUFFICES ASSUME NEW k \in 1 .. Len(Begun'), NEW l \in 1 .. Len(Begun'), Begun'[k] = Begun'[l]
               PROVE  k = l
    OBVIOUS
  <2>1. \/ k = p /\ Begun'[k] = t
        \/ k < p /\ k \in 1 .. Len(Begun) /\ Begun'[k] = Begun[k]
        \/ k > p /\ k - 1 \in 1 .. Len(Begun) /\ Begun'[k] = Begun[k - 1]
    BY <1>2, <1>3, <1>7 DEF PutIn
  <2>2. \/ l = p /\ Begun'[l] = t
        \/ l < p /\ l \in 1 .. Len(Begun) /\ Begun'[l] = Begun[l]
        \/ l > p /\ l - 1 \in 1 .. Len(Begun) /\ Begun'[l] = Begun[l - 1]
    BY <1>2, <1>3, <1>7 DEF PutIn
  <2>3. \A m, n \in 1 .. Len(Begun) : Begun[m] = Begun[n] => m = n
    BY DEF BeginInOrder
  <2>4. p \in Nat /\ k \in Nat /\ l \in Nat
    BY <1>2, <1>3, <1>7 DEF PutIn
  <2>5. CASE k = p
    BY <1>5, <2>1, <2>2, <2>4, <2>5
  <2>6. CASE k < p
    BY <1>5, <2>1, <2>2, <2>3, <2>4, <2>6
  <2>7. CASE k > p
    <3>1. l # p
      BY <1>5, <2>1, <2>2, <2>4, <2>7
    <3>2. CASE l < p
      BY <2>1, <2>2, <2>3, <2>4, <2>7, <3>2
    <3>3. CASE l > p
      <4>1. k - 1 = l - 1
        BY <2>1, <2>2, <2>3, <2>4, <2>7, <3>3
      <4> QED BY <2>4, <4>1
    <3> QED BY <2>4, <3>1, <3>2, <3>3
  <2> QED BY <2>4, <2>5, <2>6, <2>7
<1>11. \A i, j \in 1 .. Len(posted'), k, l \in 1 .. Len(Begun') :
          i < j /\ posted'[i] = Begun'[k] /\ posted'[j] = Begun'[l] =>
              k < l \/ posted'[i] \in Urgent \/ posted'[j] \in Urgent
  <2> SUFFICES ASSUME NEW i \in 1 .. Len(posted'), NEW j \in 1 .. Len(posted'),
                      NEW k \in 1 .. Len(Begun'), NEW l \in 1 .. Len(Begun'),
                      i < j, posted'[i] = Begun'[k], posted'[j] = Begun'[l],
                      posted'[i] \notin Urgent, posted'[j] \notin Urgent
               PROVE  k < l
    OBVIOUS
  <2>1. \/ k = p /\ Begun'[k] = t
        \/ k < p /\ k \in 1 .. Len(Begun) /\ Begun'[k] = Begun[k]
        \/ k > p /\ k - 1 \in 1 .. Len(Begun) /\ Begun'[k] = Begun[k - 1]
    BY <1>2, <1>3, <1>7 DEF PutIn
  <2>2. \/ l = p /\ Begun'[l] = t
        \/ l < p /\ l \in 1 .. Len(Begun) /\ Begun'[l] = Begun[l]
        \/ l > p /\ l - 1 \in 1 .. Len(Begun) /\ Begun'[l] = Begun[l - 1]
    BY <1>2, <1>3, <1>7 DEF PutIn
  <2>3. i \in 1 .. Len(posted) /\ posted'[i] = posted[i] /\ posted[i] # t
    BY <1>3, <1>4
  <2>4. p \in Nat /\ k \in Nat /\ l \in Nat
    BY <1>2, <1>3, <1>7 DEF PutIn
  <2>5. CASE j = Len(posted) + 1
    <3>1. posted'[j] = t
      BY <2>5, <1>4
    <3>2. p = Len(Begun) + 1
      BY <3>1, <1>6
    <3>3. l = p
      BY <2>2, <3>1, <1>5
    <3>4. k # p
      BY <2>1, <2>3
    <3> QED BY <2>1, <3>2, <3>3, <3>4, <2>4
  <2>6. CASE j # Len(posted) + 1
    <3>1. j \in 1 .. Len(posted) /\ posted'[j] = posted[j] /\ posted[j] # t
      BY <2>6, <1>3, <1>4
    <3>2. \A m, n \in 1 .. Len(Begun) :
             posted[i] = Begun[m] /\ posted[j] = Begun[n] => m < n
      <4>1. posted[i] \notin Urgent /\ posted[j] \notin Urgent
        BY <2>3, <3>1
      <4> QED BY <4>1, <2>3, <3>1 DEF BeginInOrder
    <3>3. \/ k < p /\ k \in 1 .. Len(Begun) /\ posted[i] = Begun[k]
          \/ k > p /\ k - 1 \in 1 .. Len(Begun) /\ posted[i] = Begun[k - 1]
      BY <2>1, <2>3
    <3>4. \/ l < p /\ l \in 1 .. Len(Begun) /\ posted[j] = Begun[l]
          \/ l > p /\ l - 1 \in 1 .. Len(Begun) /\ posted[j] = Begun[l - 1]
      BY <2>2, <3>1
    <3> QED BY <2>4, <3>2, <3>3, <3>4
  <2> QED BY <2>5, <2>6
<1>12. \A i, j \in 1 .. Len(mAllTask') :
          i < j /\ mAllTask'[j] \in Urgent => mAllTask'[i] \in Urgent
  <2> SUFFICES ASSUME NEW i \in 1 .. Len(mAllTask'), NEW j \in 1 .. Len(mAllTask'),
                      i < j, mAllTask'[j] \in Urgent
               PROVE  mAllTask'[i] \in Urgent
    OBVIOUS
  <2>0. \A m, n \in 1 .. Len(mAllTask) :
           m < n /\ mAllTask[n] \in Urgent => mAllTask[m] \in Urgent
    BY DEF BeginInOrder
  <2>1. CASE t \in Urgent
    <3>1. q = 1 /\ PutIn(mAllTask, mAllTask', t, 1)
      BY <1>2, <2>1
    <3>2. j > 1 /\ j - 1 \in 1 .. Len(mAllTask) /\ mAllTask'[j] = mAllTask[j - 1]
      BY <3>1 DEF PutIn
    <3>3. CASE i = 1
      BY <3>1, <3>3, <2>1 DEF PutIn
    <3>4. CASE i # 1
      <4>1. i - 1 \in 1 .. Len(mAllTask) /\ mAllTask'[i] = mAllTask[i - 1]
        BY <3>1, <3>4 DEF PutIn
      <4> QED BY <2>0, <3>2, <4>1
    <3> QED BY <3>3, <3>4
  <2>2. CASE t \notin Urgent
    <3>1. PutIn(mAllTask, mAllTask', t, Len(mAllTask) + 1)
      BY <1>2, <2>2
    <3>2. j \in 1 .. Len(mAllTask) /\ mAllTask'[j] = mAllTask[j]
      BY <3>1, <2>2, <1>3 DEF PutIn
    <3>3. i \in 1 .. Len(mAllTask) /\ mAllTask'[i] = mAllTask[i]
      BY <3>1, <3>2, <1>3 DEF PutIn
    <3> QED BY <2>0, <3>2, <3>3
  <2> QED BY <2>1, <2>2
<1> QED BY <1>8, <1>9, <1>10, <1>11, <1>12 DEF BeginInOrder

LEMMA TakeKeepsOrder ==
    ASSUME TypeOK, OrderInv, NEW w \in Workers, TakeTask(w)
    PROVE  OrderInv'
<1> USE DEF OrderInv
<1>1. /\ mAllTask' = Tail(mAllTask) /\ taken' = Append(taken, Head(mAllTask))
      /\ mAllTask # <<>> /\ posted' = posted
  BY DEF TakeTask
<1>2. taken \in Seq(Tasks) /\ mAllTask \in Seq(Tasks)
  BY DEF TypeOK
<1>3. Begun' = Begun
  <2>1. /\ Append(taken, Head(mAllTask)) \in Seq(Tasks) /\ Tail(mAllTask) \in Seq(Tasks)
        /\ Len(Append(taken, Head(mAllTask))) = Len(taken) + 1
        /\ Len(Tail(mAllTask)) = Len(mAllTask) - 1
        /\ Len(taken) \in Nat /\ Len(mAllTask) \in Nat /\ Len(mAllTask) > 0
    BY <1>1, <1>2
  <2>2. /\ Begun' \in Seq(Tasks) /\ Begun \in Seq(Tasks)
        /\ Len(Begun') = Len(Begun) /\ Len(Begun) = Len(taken) + Len(mAllTask)
    BY <1>1, <1>2, <2>1 DEF Begun
  <2>3. ASSUME NEW k \in 1 .. Len(Begun) PROVE Begun'[k] = Begun[k]
    <3>1. CASE k <= Len(taken)
      BY <1>1, <1>2, <2>1, <2>2, <3>1 DEF Begun
    <3>2. CASE k = Len(taken) + 1
      BY <1>1, <1>2, <2>1, <2>2, <3>2 DEF Begun
    <3>3. CASE k > Len(taken) + 1
      <4>1. k - Len(taken) - 1 \in 1 .. Len(Tail(mAllTask))
        BY <2>1, <2>2, <3>3
      <4>2. Begun'[k] = Tail(mAllTask)[k - Len(taken) - 1]
        BY <1>1, <1>2, <2>1, <2>2, <3>3 DEF Begun
      <4>3. Tail(mAllTask)[k - Len(taken) - 1] = mAllTask[k - Len(taken)]
        BY <1>2, <2>1, <4>1
      <4>4. Begun[k] = mAllTask[k - Len(taken)]
        BY <1>2, <2>1, <2>2, <3>3 DEF Begun
      <4> QED BY <4>2, <4>3, <4>4
    <3>4. k \in Nat /\ Len(taken) \in Nat
      BY <1>2
    <3> QED BY <3>1, <3>2, <3>3, <3>4
  <2> QED BY <2>2, <2>3, SameSeq
<1>4. Accepted' = Accepted
  BY <1>1 DEF Accepted
<1>5. /\ Len(mAllTask') = Len(mAllTask) - 1 /\ Len(mAllTask) \in Nat
      /\ \A i \in 1 .. Len(mAllTask') : mAllTask'[i] = mAllTask[i + 1]
  BY <1>1, <1>2
<1>6. \A i, j \in 1 .. Len(mAllTask') :
          i < j /\ mAllTask'[j] \in Urgent => mAllTask'[i] \in Urgent
  BY <1>5 DEF BeginInOrder
<1> QED BY <1>1, <1>3, <1>4, <1>6 DEF PostedOnce, BeginInOrder

\* Tasks that are not urgent are begun in the order they were posted.
THEOREM OrderCorrect == Spec => []BeginInOrder
<1>1. Init => OrderInv
  <2> SUFFICES ASSUME Init PROVE OrderInv
    OBVIOUS
  <2>1. Begun = <<>> /\ posted = <<>> /\ mAllTask = <<>>
    BY DEF Init, Begun
  <2> QED BY <2>1 DEF OrderInv, PostedOnce, BeginInOrder, Accepted
<1>2. TypeOK /\ OrderInv /\ [Next]_vars => OrderInv'
  <2> SUFFICES ASSUME TypeOK, OrderInv, [Next]_vars PROVE OrderInv'
    OBVIOUS
  <2>1. CASE UNCHANGED queueVars
    <3>1. mAllTask' = mAllTask /\ posted' = posted /\ taken' = taken
      BY <2>1 DEF queueVars
    <3>2. Begun' = Begun /\ Accepted' = Accepted
      BY <3>1 DEF Begun, Accepted
    <3> QED BY <3>1, <3>2 DEF OrderInv, PostedOnce, BeginInOrder
  <2>2. ASSUME NEW t \in Tasks, PostTask(t) PROVE OrderInv'
    BY <2>2, PostKeepsOrder
  <2>3. ASSUME NEW w \in Workers, TakeTask(w) PROVE OrderInv'
    BY <2>3, TakeKeepsOrder
  <2>4. ASSUME NEW w \in Workers, Wait(w) \/ Exit(w) \/ TaskReturns(w) \/ Woken(w) \/ CreateThread(w)
        PROVE  UNCHANGED queueVars
    BY <2>4 DEF Wait, Exit, TaskReturns, Woken, CreateThread
  <2>5. ASSUME (\E n \in Limits : SetMaxAllocated(n)) \/ Start \/ StartReturns \/ Stop
               \/ NotifyAll \/ StopReturns
        PROVE  UNCHANGED queueVars
    BY <2>5 DEF SetMaxAllocated, Start, StartReturns, Stop, NotifyAll, StopReturns
  <2>6. CASE UNCHANGED vars
    BY <2>1, <2>6 DEF vars
  <2> QED BY <2>1, <2>2, <2>3, <2>4, <2>5, <2>6 DEF Next, WorkerStep, CtlStep
<1>3. OrderInv => BeginInOrder
  BY DEF OrderInv
<1> QED BY <1>1, <1>2, <1>3, TypeCorrect, PTL DEF Spec
=============================================================================
