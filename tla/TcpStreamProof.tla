--------------------------- MODULE TcpStreamProof ---------------------------
(***************************************************************************)
(* Proofs about TcpStream, for any number of requests of any sizes and any *)
(* send buffer: each request stays one while the loop walks the rings.     *)
(***************************************************************************)
EXTENDS TcpStream, FiniteSetTheorems, TLAPS

Once(s) == \A i, j \in 1 .. Len(s) : s[i] = s[j] => i = j

Held == ToSet(mReadQueue) \cup ToSet(mWriteQueue) \cup ToSet(mRequest) \cup ToSet(batch)

\* No request waits twice in a queue, or in two queues.
Apart ==
    /\ Once(mReadQueue) /\ Once(mWriteQueue) /\ Once(mRequest) /\ Once(batch)
    /\ ToSet(mReadQueue) \cap (ToSet(mRequest) \cup ToSet(batch)) = {}
    /\ ToSet(mWriteQueue) \cap (ToSet(mRequest) \cup ToSet(batch)) = {}
    /\ ToSet(mRequest) \cap ToSet(batch) = {}

\* The loop looks at one request, which waits nowhere, or a callback runs;
\* what waits has been issued.
LookInv ==
    /\ cur \notin Held
    /\ cur = NoReq \/ cb = NoReq
    /\ \A w \in (1 .. Writes) \cap (Held \cup {cur}) : w <= issued

IInv == TypeOK /\ WholeWrites /\ Apart /\ LookInv

-----------------------------------------------------------------------------
(* Sequences without repetition, and their elements.                       *)

LEMMA AppendOnce ==
    ASSUME NEW S, NEW s \in Seq(S), NEW x \in S
    PROVE  /\ Append(s, x) \in Seq(S) /\ ToSet(Append(s, x)) = ToSet(s) \cup {x}
           /\ Once(s) /\ x \notin ToSet(s) => Once(Append(s, x))
<1>1. /\ Append(s, x) \in Seq(S) /\ Len(Append(s, x)) = Len(s) + 1 /\ Len(s) \in Nat
      /\ Append(s, x)[Len(s) + 1] = x
      /\ \A i \in 1 .. Len(s) : Append(s, x)[i] = s[i]
  OBVIOUS
<1>2. 1 .. Len(s) + 1 = (1 .. Len(s)) \cup {Len(s) + 1}
  BY <1>1
<1>3. DOMAIN s = 1 .. Len(s) /\ DOMAIN Append(s, x) = 1 .. Len(s) + 1
  BY <1>1
<1>4. ToSet(Append(s, x)) = ToSet(s) \cup {x}
  BY <1>1, <1>2, <1>3 DEF ToSet
<1>5. Once(s) /\ x \notin ToSet(s) => Once(Append(s, x))
  BY <1>1, <1>2, <1>3 DEF Once, ToSet
<1> QED BY <1>1, <1>4, <1>5

LEMMA CatOnce ==
    ASSUME NEW S, NEW s \in Seq(S), NEW t \in Seq(S)
    PROVE  /\ s \o t \in Seq(S) /\ ToSet(s \o t) = ToSet(s) \cup ToSet(t)
           /\ Once(s) /\ Once(t) /\ ToSet(s) \cap ToSet(t) = {} => Once(s \o t)
<1> DEFINE m == Len(s)
           n == Len(t)
           z == s \o t
<1>1. /\ z \in Seq(S) /\ Len(z) = m + n /\ m \in Nat /\ n \in Nat
      /\ DOMAIN s = 1 .. m /\ DOMAIN t = 1 .. n /\ DOMAIN z = 1 .. m + n
  OBVIOUS
<1>2. \A i \in 1 .. m : z[i] = s[i]
  OBVIOUS
<1>3. \A i \in 1 .. m + n : i > m => i - m \in 1 .. n /\ z[i] = t[i - m]
  OBVIOUS
<1>4. \A i \in 1 .. n : m + i \in 1 .. m + n /\ z[m + i] = t[i]
  OBVIOUS
<1> HIDE DEF m, n, z
<1>5. \A i \in 1 .. m + n : i \in 1 .. m \/ (i > m /\ i - m \in 1 .. n /\ z[i] = t[i - m])
  BY <1>1, <1>3
<1>6. \A i \in 1 .. m : i \in 1 .. m + n
  BY <1>1
<1>7. ToSet(z) = ToSet(s) \cup ToSet(t)
  <2>1. ASSUME NEW x \in ToSet(z) PROVE x \in ToSet(s) \cup ToSet(t)
    BY <1>1, <1>2, <1>5 DEF ToSet
  <2>2. ASSUME NEW x \in ToSet(s) PROVE x \in ToSet(z)
    BY <1>1, <1>2, <1>6 DEF ToSet
  <2>3. ASSUME NEW x \in ToSet(t) PROVE x \in ToSet(z)
    BY <1>1, <1>4 DEF ToSet
  <2> QED BY <2>1, <2>2, <2>3
<1>8. ASSUME Once(s), Once(t), ToSet(s) \cap ToSet(t) = {} PROVE Once(z)
  <2>0. \A i \in 1 .. m, j \in 1 .. n : s[i] # t[j]
    BY <1>1, <1>8 DEF ToSet
  <2> SUFFICES ASSUME NEW i \in 1 .. m + n, NEW j \in 1 .. m + n, z[i] = z[j] PROVE i = j
    BY <1>1 DEF Once
  <2>1. CASE i \in 1 .. m /\ j \in 1 .. m
    BY <1>2, <1>8, <2>1 DEF Once, m
  <2>2. CASE i > m /\ j > m
    <3>1. i - m \in 1 .. n /\ j - m \in 1 .. n /\ t[i - m] = t[j - m]
      BY <1>3, <2>2
    <3>2. i - m = j - m
      BY <1>8, <3>1 DEF Once, n
    <3> QED BY <1>1, <3>2
  <2>3. ~(i \in 1 .. m /\ j > m) /\ ~(i > m /\ j \in 1 .. m)
    BY <1>2, <1>3, <2>0
  <2> QED BY <1>5, <2>1, <2>2, <2>3
<1> QED BY <1>1, <1>7, <1>8 DEF z

LEMMA OneOnce ==
    ASSUME NEW S, NEW x \in S
    PROVE  <<x>> \in Seq(S) /\ ToSet(<<x>>) = {x} /\ Once(<<x>>)
BY DEF ToSet, Once

LEMMA FrontOnce ==
    ASSUME NEW S, NEW s \in Seq(S), NEW x \in S
    PROVE  /\ <<x>> \o s \in Seq(S) /\ ToSet(<<x>> \o s) = ToSet(s) \cup {x}
           /\ Once(s) /\ x \notin ToSet(s) => Once(<<x>> \o s)
<1>1. <<x>> \in Seq(S) /\ ToSet(<<x>>) = {x} /\ Once(<<x>>)
  BY OneOnce
<1>2. <<x>> \o s \in Seq(S) /\ ToSet(<<x>> \o s) = ToSet(<<x>>) \cup ToSet(s)
  BY <1>1, CatOnce
<1>3. ASSUME Once(s), x \notin ToSet(s) PROVE Once(<<x>> \o s)
  <2>1. ToSet(<<x>>) \cap ToSet(s) = {}
    BY <1>1, <1>3
  <2> QED BY <1>1, <1>3, <2>1, CatOnce
<1> QED BY <1>1, <1>2, <1>3

LEMMA TailOnce ==
    ASSUME NEW S, NEW s \in Seq(S), s # <<>>
    PROVE  /\ Head(s) \in S /\ Tail(s) \in Seq(S)
           /\ ToSet(s) = ToSet(Tail(s)) \cup {Head(s)}
           /\ Once(s) => Once(Tail(s)) /\ Head(s) \notin ToSet(Tail(s))
<1> DEFINE n == Len(s)
           t == Tail(s)
<1>1. /\ n \in Nat \ {0} /\ Head(s) = s[1] /\ s[1] \in S
      /\ t \in Seq(S) /\ Len(t) = n - 1 /\ DOMAIN s = 1 .. n /\ DOMAIN t = 1 .. n - 1
      /\ \A i \in 1 .. n - 1 : t[i] = s[i + 1]
  OBVIOUS
<1> HIDE DEF n, t
<1>2. \A i \in 1 .. n - 1 : i + 1 \in 1 .. n /\ i + 1 # 1
  BY <1>1
<1>3. \A i \in 1 .. n : i = 1 \/ (i - 1 \in 1 .. n - 1 /\ t[i - 1] = s[i])
  BY <1>1
<1>4. ToSet(s) = ToSet(t) \cup {s[1]}
  <2>1. \A x \in ToSet(s) : x \in ToSet(t) \cup {s[1]}
    BY <1>1, <1>3 DEF ToSet
  <2>2. \A x \in ToSet(t) : x \in ToSet(s)
    BY <1>1, <1>2 DEF ToSet
  <2>3. s[1] \in ToSet(s)
    BY <1>1 DEF ToSet
  <2> QED BY <2>1, <2>2, <2>3
<1>5. ASSUME Once(s) PROVE Once(t) /\ s[1] \notin ToSet(t)
  <2>1. \A i, j \in 1 .. n : s[i] = s[j] => i = j
    BY <1>5 DEF Once, n
  <2>2. \A i, j \in 1 .. n - 1 : t[i] = t[j] => i = j
    <3> SUFFICES ASSUME NEW i \in 1 .. n - 1, NEW j \in 1 .. n - 1, t[i] = t[j] PROVE i = j
      OBVIOUS
    <3>1. i + 1 = j + 1
      BY <1>1, <1>2, <2>1
    <3> QED BY <3>1
  <2>3. s[1] \notin ToSet(t)
    BY <1>1, <1>2, <2>1 DEF ToSet
  <2> QED BY <1>1, <2>2, <2>3 DEF Once
<1> QED BY <1>1, <1>4, <1>5 DEF t

LEMMA InSeq == ASSUME NEW S, NEW s \in Seq(S) PROVE ToSet(s) \subseteq S
BY DEF ToSet

LEMMA CatLen ==
    ASSUME NEW S, NEW s \in Seq(S), NEW t \in Seq(S)
    PROVE  s \o t \in Seq(S) /\ Len(s \o t) = Len(s) + Len(t)
OBVIOUS

LEMMA WiderSeq == ASSUME NEW S, NEW T, S \subseteq T, NEW s \in Seq(S) PROVE s \in Seq(T)
OBVIOUS

LEMMA NoneOnce == ToSet(<<>>) = {} /\ Once(<<>>)
BY DEF ToSet, Once

\* n units more of one write.
LEMMA MoreUnits ==
    ASSUME TypeOK, NEW w \in 1 .. Writes, NEW n \in Nat, stream' = stream \o Units(w, n)
    PROVE  /\ stream' \in Seq(1 .. Writes) /\ Len(stream') = Len(stream) + n
           /\ Cardinality(UnitsOf(w)') = Cardinality(UnitsOf(w)) + n
           /\ \A v \in 1 .. Writes : v # w => UnitsOf(v)' = UnitsOf(v)
<1> DEFINE m == Len(stream)
<1>0. stream \in Seq(1 .. Writes) /\ m \in Nat
  BY DEF TypeOK
<1>1. Units(w, n) \in Seq(1 .. Writes) /\ Len(Units(w, n)) = n /\ \A i \in 1 .. n : Units(w, n)[i] = w
  BY DEF Units
<1>2. stream' \in Seq(1 .. Writes) /\ Len(stream') = m + n
  <2>0. PICK u : u = Units(w, n)
    OBVIOUS
  <2>1. u \in Seq(1 .. Writes) /\ Len(u) = n
    BY <1>1, <2>0
  <2>2. stream \o u \in Seq(1 .. Writes) /\ Len(stream \o u) = Len(stream) + Len(u)
    BY <1>0, <2>1, CatLen
  <2> QED BY <2>0, <2>1, <2>2
<1>3. \A i \in 1 .. m : stream'[i] = stream[i]
  BY <1>0, <1>1
<1>4. \A i \in m + 1 .. m + n : stream'[i] = w
  <2> SUFFICES ASSUME NEW i \in m + 1 .. m + n PROVE stream'[i] = w
    OBVIOUS
  <2>1. i - m \in 1 .. n
    BY <1>0
  <2>2. stream'[i] = Units(w, n)[i - m]
    BY <1>0, <1>1
  <2> QED BY <1>1, <2>1, <2>2
<1>5. PICK k \in Nat : k = m
  BY <1>0
<1>6. 1 .. k + n = (1 .. k) \cup (k + 1 .. k + n) /\ (1 .. k) \cap (k + 1 .. k + n) = {}
  OBVIOUS
<1>7. UnitsOf(w)' = UnitsOf(w) \cup (k + 1 .. k + n)
  BY <1>2, <1>3, <1>4, <1>5, <1>6 DEF UnitsOf
<1>8. \A v \in 1 .. Writes : v # w => UnitsOf(v)' = UnitsOf(v)
  BY <1>2, <1>3, <1>4, <1>5, <1>6 DEF UnitsOf
<1>9. UnitsOf(w) \subseteq 1 .. k
  BY <1>5 DEF UnitsOf
<1>10. IsFiniteSet(UnitsOf(w)) /\ Cardinality(UnitsOf(w)) \in Nat
  <2>1. IsFiniteSet(1 .. k)
    BY FS_Interval
  <2> QED BY <1>9, <2>1, FS_Subset, FS_CardinalityType
<1>11. IsFiniteSet(k + 1 .. k + n) /\ Cardinality(k + 1 .. k + n) = n
  <2>1. k + 1 \in Int /\ k + n \in Int
    OBVIOUS
  <2>2. IsFiniteSet(k + 1 .. k + n)
    BY <2>1, FS_Interval
  <2>3. Cardinality(k + 1 .. k + n) = IF k + 1 > k + n THEN 0 ELSE (k + n) - (k + 1) + 1
    BY <2>1, FS_Interval
  <2> QED BY <2>2, <2>3
<1>12. UnitsOf(w) \cap (k + 1 .. k + n) = {}
  BY <1>6, <1>9
<1>13. Cardinality(UnitsOf(w) \cup (k + 1 .. k + n)) = Cardinality(UnitsOf(w)) + n
  <2>1. Cardinality({}) = 0
    BY FS_EmptySet
  <2>2. Cardinality(UnitsOf(w) \cup (k + 1 .. k + n))
          = Cardinality(UnitsOf(w)) + Cardinality(k + 1 .. k + n)
              - Cardinality(UnitsOf(w) \cap (k + 1 .. k + n))
    BY <1>10, <1>11, FS_Union
  <2>3. Cardinality(UnitsOf(w) \cap (k + 1 .. k + n)) = 0
    BY <1>12, <2>1
  <2> QED BY <1>10, <1>11, <2>2, <2>3
<1> QED BY <1>2, <1>7, <1>8, <1>13

-----------------------------------------------------------------------------
(* What a step leaves alone.                                               *)

\* What the types say of the sets of requests.
LEMMA Kinds ==
    ASSUME TypeOK
    PROVE  /\ ToSet(mReadQueue) \subseteq Reads /\ ToSet(mWriteQueue) \subseteq 1 .. Writes
           /\ ToSet(mRequest) \subseteq Request /\ ToSet(batch) \subseteq Request
           /\ Reads \cap (1 .. Writes) = {} /\ NoReq \notin Request /\ Opened \notin Request
           /\ NoReq # Opened /\ Held \subseteq Request /\ Request = Reads \cup (1 .. Writes)
<1>1. /\ ToSet(mReadQueue) \subseteq Reads /\ ToSet(mWriteQueue) \subseteq 1 .. Writes
      /\ ToSet(mRequest) \subseteq Request /\ ToSet(batch) \subseteq Request
  BY InSeq DEF TypeOK
<1>2. /\ Reads \cap (1 .. Writes) = {} /\ NoReq \notin Request /\ Opened \notin Request
      /\ NoReq # Opened
  BY StreamConstants DEF Request
<1> QED BY <1>1, <1>2 DEF Held, Request

LEMMA HeldBy == ASSUME TypeOK, NEW r PROVE Waits(r) <=> r \in Held \cup {cur}
<1>1. /\ mReadQueue \in Seq(Request) /\ mWriteQueue \in Seq(Request)
      /\ mRequest \in Seq(Request) /\ batch \in Seq(Request)
  <2>1. Reads \subseteq Request /\ 1 .. Writes \subseteq Request
    BY DEF Request
  <2> QED BY <2>1, WiderSeq DEF TypeOK
<1>2. PICK a : a = mReadQueue \o mWriteQueue
  OBVIOUS
<1>3. PICK b : b = a \o mRequest
  OBVIOUS
<1>4. PICK c : c = b \o batch
  OBVIOUS
<1>5. a \in Seq(Request) /\ ToSet(a) = ToSet(mReadQueue) \cup ToSet(mWriteQueue)
  BY <1>1, <1>2, CatOnce
<1>6. b \in Seq(Request) /\ ToSet(b) = ToSet(a) \cup ToSet(mRequest)
  BY <1>1, <1>3, <1>5, CatOnce
<1>7. ToSet(c) = ToSet(b) \cup ToSet(batch)
  BY <1>1, <1>4, <1>6, CatOnce
<1>8. Waits(r) <=> r \in ToSet(c) \cup {cur}
  BY <1>2, <1>3, <1>4 DEF Waits
<1> QED BY <1>5, <1>6, <1>7, <1>8 DEF Held

LEMMA BytesFrame ==
    ASSUME TypeOK, WholeWrites, UNCHANGED <<stream, mStepSize>>,
           (done' = done /\ (Closing => Closing')) \/ Closing'
    PROVE  WholeWrites'
<1>1. \A w \in 1 .. Writes : UnitsOf(w)' = UnitsOf(w)
  BY DEF UnitsOf
<1> QED BY <1>1 DEF WholeWrites

LEMMA QueuesFrame ==
    ASSUME UNCHANGED <<mReadQueue, mWriteQueue, mRequest, batch>>
    PROVE  Held' = Held /\ (Apart => Apart')
BY DEF Held, Apart

LEMMA SpaceType ==
    ASSUME TypeOK
    PROVE  /\ Len(stream) \in Nat /\ taken \in Nat /\ taken <= Len(stream)
           /\ Space \in Nat /\ Space = SendBuffer - (Len(stream) - taken)
           /\ SendBuffer \in Nat /\ Len(stream) - taken <= SendBuffer
<1>1. Len(stream) \in Nat /\ taken \in 0 .. Len(stream) /\ Space \in 0 .. SendBuffer
  BY DEF TypeOK
<1> QED BY <1>1, StreamConstants DEF Space

LEMMA SentType ==
    ASSUME TypeOK, NEW w \in 1 .. Writes
    PROVE  /\ mStepSize[w] \in Nat /\ WriteSize \in Nat /\ mStepSize[w] <= WriteSize
           /\ WriteSize - mStepSize[w] \in Nat /\ DOMAIN mStepSize = 1 .. Writes
<1>1. WriteSize \in Nat
  BY StreamConstants
<1>2. mStepSize \in [1 .. Writes -> 0 .. WriteSize]
  BY DEF TypeOK
<1>3. mStepSize[w] \in 0 .. WriteSize
  BY <1>2
<1> QED BY <1>1, <1>2, <1>3

-----------------------------------------------------------------------------
LEMMA Starts == Init => IInv
<1> SUFFICES ASSUME Init PROVE IInv
  OBVIOUS
<1>0. PICK r \in Reads : mReadQueue = <<r>>
  BY DEF Init
<1>1. TypeOK
  <2>1. /\ mReadQueue \in Seq(Reads) /\ mWriteQueue \in Seq(1 .. Writes)
        /\ mRequest \in Seq(Request) /\ batch \in Seq(Request)
        /\ done \in Seq(1 .. Writes) /\ stream \in Seq(1 .. Writes)
    BY <1>0 DEF Init
  <2>2. cur \in Request \cup {NoReq} /\ cb \in Request \cup {NoReq, Opened}
    BY DEF Init
  <2>3. /\ issued \in 0 .. Writes /\ mStepSize \in [1 .. Writes -> 0 .. WriteSize]
        /\ arrived \in 0 .. Incoming /\ got \in 0 .. arrived
    BY StreamConstants DEF Init
  <2>4. taken \in 0 .. Len(stream) /\ Space \in 0 .. SendBuffer
    BY StreamConstants DEF Init, Space
  <2>5. mFlag \subseteq {"READABLE", "WRITEABLE", "SYNC_READ", "SYNC_WRITE", "CLOSING"}
    BY DEF Init
  <2> QED BY <2>1, <2>2, <2>3, <2>4, <2>5 DEF Init, TypeOK
<1>2. /\ ToSet(mReadQueue) = {r} /\ Once(mReadQueue)
      /\ mWriteQueue = <<>> /\ mRequest = <<>> /\ batch = <<>>
      /\ cur = NoReq
  BY <1>0 DEF Init, ToSet, Once
<1>3. Apart
  BY <1>2, NoneOnce DEF Apart
<1>4. LookInv
  <2>1. Held = {r}
    BY <1>2, NoneOnce DEF Held
  <2> QED BY <1>1, <1>2, <2>1, Kinds DEF LookInv
<1>5. WholeWrites
  <2>1. \A w \in 1 .. Writes : UnitsOf(w) = {}
    BY DEF Init, UnitsOf
  <2>2. \A w \in 1 .. Writes : Cardinality(UnitsOf(w)) = 0
    BY <2>1, FS_EmptySet
  <2>3. ToSet(done) = {}
    BY NoneOnce DEF Init
  <2> QED BY <2>2, <2>3 DEF Init, WholeWrites
<1> QED BY <1>1, <1>3, <1>4, <1>5 DEF IInv

\* A read is issued again: it waits nowhere, so it goes behind those that do,
\* and the oldest one may move to the pending ones.
LEMMA ReadKeeps == ASSUME IInv, NEW r \in Reads, Read(r) PROVE IInv'
<1> USE DEF IInv
<1>0. /\ UNCHANGED <<mWriteQueue, batch, cur, cb, more, issued, mStepSize, done, got, stream,
                     taken, noSpace, arrived, fin, ready>>
      /\ cb # NoReq /\ ~Waits(r) /\ mFlag' = mFlag \ {"SYNC_READ"}
  BY DEF Read, appVars, netVars
<1>1. PICK q : q = Append(mReadQueue, r)
  OBVIOUS
<1>2. /\ q \in Seq(Reads) /\ ToSet(q) = ToSet(mReadQueue) \cup {r} /\ r \notin Held
      /\ Once(q) /\ q # <<>>
  <2>1. mReadQueue \in Seq(Reads)
    BY DEF TypeOK
  <2>2. r \notin Held
    BY <1>0, HeldBy
  <2>3. r \notin ToSet(mReadQueue) /\ Once(mReadQueue)
    BY <2>2 DEF Held, Apart
  <2>4. q # <<>>
    BY <1>1, <2>1
  <2> QED BY <1>1, <2>1, <2>2, <2>3, <2>4, AppendOnce
<1>5. /\ mReadQueue' \in Seq(Reads) /\ mRequest' \in Seq(Request)
      /\ Apart' /\ Held' = Held \cup {r}
  <2>1. CASE mRequest' = Append(mRequest, Head(q)) /\ mReadQueue' = Tail(q)
    <3>1. PICK x \in Reads : x = Head(q)
      BY <1>2, TailOnce
    <3>2. /\ mReadQueue' \in Seq(Reads) /\ ToSet(q) = ToSet(mReadQueue') \cup {x}
          /\ Once(mReadQueue') /\ x \notin ToSet(mReadQueue')
      BY <1>2, <2>1, <3>1, TailOnce
    <3>3. x \in Request /\ x \notin ToSet(mRequest) /\ x \notin ToSet(batch)
          /\ x \notin ToSet(mWriteQueue)
      <4>1. x \in ToSet(mReadQueue) \cup {r}
        BY <1>2, <3>2
      <4> QED BY <1>2, <4>1, Kinds DEF Apart, Held
    <3>4. /\ mRequest' \in Seq(Request) /\ ToSet(mRequest') = ToSet(mRequest) \cup {x}
          /\ Once(mRequest')
      BY <2>1, <3>1, <3>3, AppendOnce DEF TypeOK, Apart
    <3>5. Apart' /\ Held' = Held \cup {r}
      BY <1>0, <1>2, <3>2, <3>3, <3>4, Kinds DEF Apart, Held
    <3> QED BY <3>2, <3>4, <3>5
  <2>2. CASE mReadQueue' = q /\ mRequest' = mRequest
    <3>1. Apart' /\ Held' = Held \cup {r}
      BY <1>0, <1>2, <2>2, Kinds DEF Apart, Held
    <3> QED BY <1>2, <2>2, <3>1 DEF TypeOK
  <2> QED BY <1>1, <2>1, <2>2 DEF Read
<1>6. TypeOK'
  <2>1. Space' = Space
    BY <1>0 DEF Space
  <2>2. mFlag' \subseteq {"READABLE", "WRITEABLE", "SYNC_READ", "SYNC_WRITE", "CLOSING"}
    BY <1>0 DEF TypeOK
  <2> QED BY <1>0, <1>5, <2>1, <2>2 DEF TypeOK
<1>7. WholeWrites'
  BY <1>0, BytesFrame DEF Closing
<1>8. LookInv'
  BY <1>0, <1>2, <1>5, Kinds DEF LookInv
<1> QED BY <1>5, <1>6, <1>7, <1>8

\* A write is issued: its number is new.
LEMMA WriteKeeps == ASSUME IInv, Write PROVE IInv'
<1> USE DEF IInv
<1>0. /\ UNCHANGED <<mReadQueue, batch, cur, cb, more, mStepSize, done, got, stream,
                     taken, noSpace, arrived, fin, ready>>
      /\ cb # NoReq /\ mFlag' = mFlag \ {"SYNC_WRITE"}
      /\ issued < Writes /\ issued' = issued + 1
  BY DEF Write, netVars
<1>1. issued \in Nat /\ Writes \in Nat /\ issued + 1 \in 1 .. Writes
  BY <1>0, StreamConstants DEF TypeOK
<1>a. PICK r \in 1 .. Writes : r = issued + 1
  BY <1>1
<1>b. PICK q : q = Append(mWriteQueue, r)
  OBVIOUS
<1>2. /\ q \in Seq(1 .. Writes) /\ ToSet(q) = ToSet(mWriteQueue) \cup {r} /\ r \notin Held
      /\ Once(q) /\ q # <<>>
  <2>1. mWriteQueue \in Seq(1 .. Writes)
    BY DEF TypeOK
  <2>2. r \notin Held
    BY <1>1, <1>a DEF LookInv
  <2>3. r \notin ToSet(mWriteQueue) /\ Once(mWriteQueue)
    BY <2>2 DEF Held, Apart
  <2>4. q # <<>>
    BY <1>b, <2>1
  <2> QED BY <1>b, <2>1, <2>2, <2>3, <2>4, AppendOnce
<1>5. /\ mWriteQueue' \in Seq(1 .. Writes) /\ mRequest' \in Seq(Request)
      /\ Apart' /\ Held' = Held \cup {r}
  <2>1. CASE mRequest' = Append(mRequest, Head(q)) /\ mWriteQueue' = Tail(q)
    <3>1. PICK x \in 1 .. Writes : x = Head(q)
      BY <1>2, TailOnce
    <3>2. /\ mWriteQueue' \in Seq(1 .. Writes) /\ ToSet(q) = ToSet(mWriteQueue') \cup {x}
          /\ Once(mWriteQueue') /\ x \notin ToSet(mWriteQueue')
      BY <1>2, <2>1, <3>1, TailOnce
    <3>3. x \in Request /\ x \notin ToSet(mRequest) /\ x \notin ToSet(batch)
          /\ x \notin ToSet(mReadQueue)
      <4>1. x \in ToSet(mWriteQueue) \cup {r}
        BY <1>2, <3>2
      <4> QED BY <1>2, <4>1, Kinds DEF Apart, Held
    <3>4. /\ mRequest' \in Seq(Request) /\ ToSet(mRequest') = ToSet(mRequest) \cup {x}
          /\ Once(mRequest')
      BY <2>1, <3>1, <3>3, AppendOnce DEF TypeOK, Apart
    <3>5. Apart' /\ Held' = Held \cup {r}
      BY <1>0, <1>2, <3>2, <3>3, <3>4, Kinds DEF Apart, Held
    <3> QED BY <3>2, <3>4, <3>5
  <2>2. CASE mWriteQueue' = q /\ mRequest' = mRequest
    <3>1. Apart' /\ Held' = Held \cup {r}
      BY <1>0, <1>2, <2>2, Kinds DEF Apart, Held
    <3> QED BY <1>2, <2>2, <3>1 DEF TypeOK
  <2> QED BY <1>a, <1>b, <2>1, <2>2 DEF Write
<1>6. TypeOK'
  <2>1. Space' = Space
    BY <1>0 DEF Space
  <2>2. mFlag' \subseteq {"READABLE", "WRITEABLE", "SYNC_READ", "SYNC_WRITE", "CLOSING"}
    BY <1>0 DEF TypeOK
  <2>3. issued' \in 0 .. Writes
    BY <1>0, <1>1
  <2> QED BY <1>0, <1>5, <2>1, <2>2, <2>3 DEF TypeOK
<1>7. WholeWrites'
  BY <1>0, BytesFrame DEF Closing
<1>8. LookInv'
  <2>1. cur' \notin Held'
    BY <1>0, <1>1, <1>2, <1>5, <1>a, Kinds DEF LookInv
  <2>2. \A w \in (1 .. Writes) \cap (Held' \cup {cur'}) : w <= issued'
    BY <1>0, <1>1, <1>5, <1>a DEF LookInv
  <2> QED BY <1>0, <2>1, <2>2 DEF LookInv
<1> QED BY <1>5, <1>6, <1>7, <1>8

-----------------------------------------------------------------------------
\* The kernel and the peer change nothing of the loop's.
LEMMA NetKeeps == ASSUME IInv, Arrive \/ PeerFin \/ PeerTakes PROVE IInv'
<1> USE DEF IInv
<1>0. /\ UNCHANGED <<mFlag, mReadQueue, mWriteQueue, mRequest, batch, cur, cb, more, issued,
                     mStepSize, done, got, stream>>
      /\ noSpace' \in BOOLEAN /\ fin' \in BOOLEAN /\ ready' \in BOOLEAN
      /\ arrived' = arrived \/ (arrived < Incoming /\ arrived' = arrived + 1)
      /\ taken' = taken \/ (taken < Len(stream) /\ taken' = taken + 1)
  <2>1. CASE Arrive
    BY <2>1 DEF Arrive, loopVars, appVars, TypeOK
  <2>2. CASE PeerFin
    BY <2>2 DEF PeerFin, loopVars, appVars, TypeOK
  <2>3. CASE PeerTakes
    BY <2>3 DEF PeerTakes, loopVars, appVars, TypeOK
  <2> QED BY <2>1, <2>2, <2>3
<1>1. /\ taken' \in 0 .. Len(stream') /\ Space' \in 0 .. SendBuffer
      /\ arrived' \in 0 .. Incoming /\ got' \in 0 .. arrived'
  <2>1. taken' \in 0 .. Len(stream') /\ Space' \in 0 .. SendBuffer
    <3>1. Space' = SendBuffer - (Len(stream) - taken')
      BY <1>0 DEF Space
    <3> QED BY <1>0, <3>1, SpaceType
  <2>2. arrived' \in 0 .. Incoming /\ got' \in 0 .. arrived'
    BY <1>0, StreamConstants DEF TypeOK
  <2> QED BY <2>1, <2>2
<1>2. TypeOK'
  BY <1>0, <1>1 DEF TypeOK
<1>3. WholeWrites' /\ Apart' /\ Held' = Held
  BY <1>0, BytesFrame, QueuesFrame DEF Closing
<1>4. LookInv'
  BY <1>0, <1>3 DEF LookInv
<1> QED BY <1>2, <1>3, <1>4

\* A tick takes what is pending, and the oldest request of each direction.
LEMMA TickKeeps == ASSUME IInv, Tick PROVE IInv'
<1> USE DEF IInv
<1>0. /\ UNCHANGED <<cur, cb, more, issued, mStepSize, done, got, stream, taken, noSpace,
                     arrived, fin>>
      /\ batch = <<>> /\ cur = NoReq /\ cb = NoReq /\ ready' = FALSE /\ mRequest' = <<>>
  BY DEF Tick, appVars
<1>1. mFlag' \subseteq {"READABLE", "WRITEABLE", "SYNC_READ", "SYNC_WRITE", "CLOSING"}
      /\ (Closing => Closing')
  BY DEF Tick, TypeOK, Closing
<1>2. PICK rq, wq :
         /\ batch' = (mRequest \o rq) \o wq
         /\ (rq = <<>> /\ mReadQueue' = mReadQueue)
            \/ (rq = Oldest(mReadQueue) /\ mReadQueue' = Others(mReadQueue))
         /\ (wq = <<>> /\ mWriteQueue' = mWriteQueue)
            \/ (wq = Oldest(mWriteQueue) /\ mWriteQueue' = Others(mWriteQueue))
  <2>1. PICK readable, writeable :
           /\ batch' = mRequest \o (IF readable THEN Oldest(mReadQueue) ELSE <<>>)
                                \o (IF writeable THEN Oldest(mWriteQueue) ELSE <<>>)
           /\ mReadQueue' = IF readable THEN Others(mReadQueue) ELSE mReadQueue
           /\ mWriteQueue' = IF writeable THEN Others(mWriteQueue) ELSE mWriteQueue
    BY DEF Tick
  <2> QED BY <2>1
<1>3. /\ rq \in Seq(Reads) /\ mReadQueue' \in Seq(Reads)
      /\ ToSet(mReadQueue) = ToSet(rq) \cup ToSet(mReadQueue')
      /\ ToSet(rq) \cap ToSet(mReadQueue') = {}
      /\ Once(rq) /\ Once(mReadQueue')
  <2>1. CASE rq = <<>> /\ mReadQueue' = mReadQueue
    BY <2>1, NoneOnce DEF TypeOK, Apart
  <2>2. CASE mReadQueue = <<>> /\ rq = <<>> /\ mReadQueue' = <<>>
    BY <2>2, NoneOnce DEF TypeOK, Apart
  <2>3. CASE mReadQueue # <<>> /\ rq = <<Head(mReadQueue)>> /\ mReadQueue' = Tail(mReadQueue)
    <3>0. mReadQueue \in Seq(Reads) /\ Once(mReadQueue)
      BY DEF TypeOK, Apart
    <3>1. PICK x \in Reads : x = Head(mReadQueue)
      BY <2>3, <3>0, TailOnce
    <3>2. rq \in Seq(Reads) /\ ToSet(rq) = {x} /\ Once(rq)
      BY <2>3, <3>1, OneOnce
    <3>3. /\ mReadQueue' \in Seq(Reads) /\ ToSet(mReadQueue) = ToSet(mReadQueue') \cup {x}
          /\ Once(mReadQueue') /\ x \notin ToSet(mReadQueue')
      BY <2>3, <3>0, <3>1, TailOnce
    <3> QED BY <3>2, <3>3
  <2> QED BY <1>2, <2>1, <2>2, <2>3 DEF Oldest, Others
<1>4. /\ wq \in Seq(1 .. Writes) /\ mWriteQueue' \in Seq(1 .. Writes)
      /\ ToSet(mWriteQueue) = ToSet(wq) \cup ToSet(mWriteQueue')
      /\ ToSet(wq) \cap ToSet(mWriteQueue') = {}
      /\ Once(wq) /\ Once(mWriteQueue')
  <2>1. CASE wq = <<>> /\ mWriteQueue' = mWriteQueue
    BY <2>1, NoneOnce DEF TypeOK, Apart
  <2>2. CASE mWriteQueue = <<>> /\ wq = <<>> /\ mWriteQueue' = <<>>
    BY <2>2, NoneOnce DEF TypeOK, Apart
  <2>3. CASE mWriteQueue # <<>> /\ wq = <<Head(mWriteQueue)>> /\ mWriteQueue' = Tail(mWriteQueue)
    <3>0. mWriteQueue \in Seq(1 .. Writes) /\ Once(mWriteQueue)
      BY DEF TypeOK, Apart
    <3>1. PICK x \in 1 .. Writes : x = Head(mWriteQueue)
      BY <2>3, <3>0, TailOnce
    <3>2. wq \in Seq(1 .. Writes) /\ ToSet(wq) = {x} /\ Once(wq)
      BY <2>3, <3>1, OneOnce
    <3>3. /\ mWriteQueue' \in Seq(1 .. Writes) /\ ToSet(mWriteQueue) = ToSet(mWriteQueue') \cup {x}
          /\ Once(mWriteQueue') /\ x \notin ToSet(mWriteQueue')
      BY <2>3, <3>0, <3>1, TailOnce
    <3> QED BY <3>2, <3>3
  <2> QED BY <1>2, <2>1, <2>2, <2>3 DEF Oldest, Others
<1>5. PICK a : a = mRequest \o rq
  OBVIOUS
<1>6. /\ a \in Seq(Request) /\ ToSet(a) = ToSet(mRequest) \cup ToSet(rq) /\ Once(a)
  <2>1. rq \in Seq(Request) /\ mRequest \in Seq(Request) /\ Once(mRequest)
    BY <1>3, WiderSeq DEF Request, TypeOK, Apart
  <2>2. ToSet(mRequest) \cap ToSet(rq) = {}
    BY <1>3 DEF Apart
  <2> QED BY <1>3, <1>5, <2>1, <2>2, CatOnce
<1>7. /\ batch' \in Seq(Request) /\ ToSet(batch') = ToSet(a) \cup ToSet(wq) /\ Once(batch')
  <2>1. wq \in Seq(Request)
    BY <1>4, WiderSeq DEF Request
  <2>2. ToSet(a) \cap ToSet(wq) = {}
    <3>1. ToSet(rq) \subseteq Reads /\ ToSet(wq) \subseteq 1 .. Writes
      BY <1>3, <1>4, InSeq
    <3>2. ToSet(mRequest) \cap ToSet(wq) = {}
      BY <1>4 DEF Apart
    <3> QED BY <1>6, <3>1, <3>2, Kinds
  <2>3. batch' = a \o wq
    BY <1>2, <1>5
  <2> QED BY <1>4, <1>6, <2>1, <2>2, <2>3, CatOnce
<1>8. Held' = Held
  BY <1>0, <1>3, <1>4, <1>6, <1>7, NoneOnce DEF Held
<1>9. Apart'
  BY <1>0, <1>3, <1>4, <1>6, <1>7, NoneOnce, Kinds DEF Apart
<1>10. TypeOK'
  <2>1. Space' = Space
    BY <1>0 DEF Space
  <2>2. mRequest' \in Seq(Request)
    BY <1>0
  <2>3. ready' \in BOOLEAN
    BY <1>0
  <2> QED BY <1>0, <1>1, <1>3, <1>4, <1>7, <2>1, <2>2, <2>3 DEF TypeOK
<1>11. WholeWrites'
  BY <1>0, <1>1, BytesFrame
<1>12. LookInv'
  BY <1>0, <1>8 DEF LookInv
<1> QED BY <1>9, <1>10, <1>11, <1>12

\* The next of them is looked at.
LEMMA TakeKeeps == ASSUME IInv, TakeRequest PROVE IInv'
<1> USE DEF IInv
<1>0. /\ UNCHANGED <<mFlag, mReadQueue, mWriteQueue, mRequest, cb, more, issued, mStepSize,
                     done, got, stream, taken, noSpace, arrived, fin, ready>>
      /\ cb = NoReq /\ batch # <<>> /\ cur' = Head(batch) /\ batch' = Tail(batch)
  BY DEF TakeRequest, appVars, netVars
<1>1. /\ cur' \in Request /\ batch' \in Seq(Request)
      /\ ToSet(batch) = ToSet(batch') \cup {cur'}
      /\ Once(batch') /\ cur' \notin ToSet(batch')
  BY <1>0, TailOnce DEF TypeOK, Apart
<1>2. Apart' /\ Held' \cup {cur'} = Held /\ cur' \notin Held'
  BY <1>0, <1>1, Kinds DEF Apart, Held
<1>3. TypeOK'
  <2>1. Space' = Space
    BY <1>0 DEF Space
  <2> QED BY <1>0, <1>1, <2>1 DEF TypeOK
<1>4. WholeWrites'
  BY <1>0, BytesFrame DEF Closing
<1>5. LookInv'
  BY <1>0, <1>2 DEF LookInv
<1> QED BY <1>2, <1>3, <1>4, <1>5

-----------------------------------------------------------------------------
(* The request that is looked at.                                          *)

\* A read returns what there is, and its callback begins.
LEMMA ReadSomeKeeps == ASSUME IInv, ReadSome PROVE IInv'
<1> USE DEF IInv
<1> DEFINE n == IF Unread < ReadSize THEN Unread ELSE ReadSize
<1>0. /\ UNCHANGED <<mReadQueue, mWriteQueue, mRequest, batch, issued, mStepSize, done, stream,
                     taken, noSpace, arrived, fin, ready>>
      /\ cur \in Reads /\ cb' = cur /\ cur' = NoReq /\ more' \in BOOLEAN
      /\ mFlag' \in {mFlag, mFlag \ {"SYNC_READ"}}
      /\ Unread > 0 /\ got' = got + n
  BY DEF ReadSome, Call, Short, IsRead, netVars
<1>1. TypeOK'
  <2>1. got' \in 0 .. arrived'
    <3>1. arrived \in Nat /\ got \in Nat /\ got <= arrived /\ ReadSize \in Nat
      BY StreamConstants DEF TypeOK
    <3> QED BY <1>0, <3>1 DEF Unread
  <2>2. Space' = Space
    BY <1>0 DEF Space
  <2>3. cb' \in Request \cup {NoReq, Opened} /\ cur' \in Request \cup {NoReq}
    BY <1>0 DEF Request
  <2>4. mFlag' \subseteq {"READABLE", "WRITEABLE", "SYNC_READ", "SYNC_WRITE", "CLOSING"}
    BY <1>0 DEF TypeOK
  <2> QED BY <1>0, <2>1, <2>2, <2>3, <2>4 DEF TypeOK
<1>2. WholeWrites' /\ Apart' /\ Held' = Held
  BY <1>0, BytesFrame, QueuesFrame DEF Closing
<1>3. LookInv'
  BY <1>0, <1>2, Kinds DEF LookInv
<1> QED BY <1>1, <1>2, <1>3

\* The end of the stream closes the handle: what waits becomes pending.
LEMMA ReadEndKeeps == ASSUME IInv, ReadEnd PROVE IInv'
<1> USE DEF IInv
<1>0. /\ UNCHANGED <<batch, issued, mStepSize, done, got, stream, taken, noSpace, arrived, fin,
                     ready>>
      /\ cur \in Reads /\ cb' = cur /\ cur' = NoReq /\ more' = TRUE
      /\ mFlag' = ((mFlag \ {"SYNC_READ"}) \cup {"CLOSING"}) \ {"READABLE", "WRITEABLE"}
      /\ mRequest' = mRequest \o (mReadQueue \o mWriteQueue)
      /\ mReadQueue' = <<>> /\ mWriteQueue' = <<>>
  BY DEF ReadEnd, CloseHandle, Waiting, Call, IsRead, appVars, netVars
<1>1. PICK a : a = mReadQueue \o mWriteQueue
  OBVIOUS
<1>2. a \in Seq(Request) /\ ToSet(a) = ToSet(mReadQueue) \cup ToSet(mWriteQueue) /\ Once(a)
  <2>1. mReadQueue \in Seq(Request) /\ mWriteQueue \in Seq(Request)
    BY WiderSeq DEF TypeOK, Request
  <2>2. ToSet(mReadQueue) \cap ToSet(mWriteQueue) = {}
    BY Kinds
  <2> QED BY <1>1, <2>1, <2>2, CatOnce DEF Apart
<1>3. mRequest' \in Seq(Request) /\ ToSet(mRequest') = ToSet(mRequest) \cup ToSet(a) /\ Once(mRequest')
  <2>1. mRequest' = mRequest \o a /\ mRequest \in Seq(Request)
    BY <1>0, <1>1 DEF TypeOK
  <2>2. ToSet(mRequest) \cap ToSet(a) = {}
    BY <1>2 DEF Apart
  <2> QED BY <1>2, <2>1, <2>2, CatOnce DEF Apart
<1>4. Held' = Held /\ Apart'
  <2>1. Held' = Held
    BY <1>0, <1>2, <1>3, NoneOnce DEF Held
  <2>2. ToSet(mRequest') \cap ToSet(batch) = {}
    BY <1>2, <1>3 DEF Apart
  <2> QED BY <1>0, <1>3, <2>1, <2>2, NoneOnce DEF Apart
<1>5. TypeOK'
  <2>1. mReadQueue' \in Seq(Reads) /\ mWriteQueue' \in Seq(1 .. Writes)
    BY <1>0
  <2>2. Space' = Space
    BY <1>0 DEF Space
  <2>3. cb' \in Request \cup {NoReq, Opened} /\ cur' \in Request \cup {NoReq}
    BY <1>0 DEF Request
  <2>4. mFlag' \subseteq {"READABLE", "WRITEABLE", "SYNC_READ", "SYNC_WRITE", "CLOSING"}
    BY <1>0 DEF TypeOK
  <2>5. more' \in BOOLEAN
    BY <1>0
  <2> QED BY <1>0, <1>3, <2>1, <2>2, <2>3, <2>4, <2>5 DEF TypeOK
<1>6. WholeWrites'
  BY <1>0, BytesFrame DEF Closing
<1>7. LookInv'
  BY <1>0, <1>4, Kinds DEF LookInv
<1> QED BY <1>4, <1>5, <1>6, <1>7

\* A read that finds nothing goes back to the head of its queue.
LEMMA ReadAgainKeeps == ASSUME IInv, ReadAgain PROVE IInv'
<1> USE DEF IInv
<1>0. /\ UNCHANGED <<mWriteQueue, mRequest, batch, cb, more, issued, mStepSize, done, got, stream,
                     taken, noSpace, arrived, fin, ready>>
      /\ cur \in Reads /\ cur' = NoReq /\ mFlag' = mFlag \ {"SYNC_READ"}
      /\ mReadQueue' = <<cur>> \o mReadQueue
  BY DEF ReadAgain, IsRead, appVars, netVars
<1>1. cur \notin Held
  BY DEF LookInv
<1>2. /\ mReadQueue' \in Seq(Reads) /\ ToSet(mReadQueue') = ToSet(mReadQueue) \cup {cur}
      /\ Once(mReadQueue')
  <2>1. PICK s \in Seq(Reads), r \in Reads : s = mReadQueue /\ r = cur
    BY <1>0 DEF TypeOK
  <2>2. /\ <<r>> \o s \in Seq(Reads) /\ ToSet(<<r>> \o s) = ToSet(s) \cup {r}
        /\ Once(s) /\ r \notin ToSet(s) => Once(<<r>> \o s)
    <3> HIDE DEF IInv
    <3> QED BY FrontOnce
  <2>3. Once(s) /\ r \notin ToSet(s)
    BY <1>1, <2>1 DEF Apart, Held
  <2> QED BY <1>0, <2>1, <2>2, <2>3
<1>3. Apart' /\ Held' = Held \cup {cur}
  BY <1>0, <1>1, <1>2 DEF Apart, Held
<1>4. TypeOK'
  <2>1. Space' = Space
    BY <1>0 DEF Space
  <2>2. mFlag' \subseteq {"READABLE", "WRITEABLE", "SYNC_READ", "SYNC_WRITE", "CLOSING"}
    BY <1>0 DEF TypeOK
  <2> QED BY <1>0, <1>2, <2>1, <2>2 DEF TypeOK
<1>5. WholeWrites'
  BY <1>0, BytesFrame DEF Closing
<1>6. LookInv'
  BY <1>0, <1>3, Kinds DEF LookInv
<1> QED BY <1>3, <1>4, <1>5, <1>6

\* The kernel takes all that is left of a write, and its callback begins.
LEMMA SendAllKeeps == ASSUME IInv, SendAll PROVE IInv'
<1> USE DEF IInv
<1>0. /\ UNCHANGED <<mFlag, mReadQueue, mWriteQueue, mRequest, batch, issued, got, taken, noSpace,
                     arrived, fin, ready>>
      /\ cb' = cur /\ cur' = NoReq /\ more' = TRUE
  BY DEF SendAll, Call
<1>1. PICK w \in 1 .. Writes : w = cur
  BY DEF SendAll
<1>2. PICK n \in Nat : n = WriteSize - mStepSize[w]
  BY SentType
<1>3. /\ stream' = stream \o Units(w, n) /\ Space >= n
      /\ mStepSize' = [mStepSize EXCEPT ![w] = WriteSize] /\ done' = Append(done, w)
  BY <1>1, <1>2 DEF SendAll, Left
<1>4. /\ stream' \in Seq(1 .. Writes) /\ Len(stream') = Len(stream) + n
      /\ Cardinality(UnitsOf(w)') = Cardinality(UnitsOf(w)) + n
      /\ \A v \in 1 .. Writes : v # w => UnitsOf(v)' = UnitsOf(v)
  BY <1>3, MoreUnits
<1>5. TypeOK'
  <2>1. taken' \in 0 .. Len(stream') /\ Space' \in 0 .. SendBuffer
    <3>1. Space' = SendBuffer - ((Len(stream) + n) - taken)
      BY <1>0, <1>4 DEF Space
    <3> QED BY <1>0, <1>3, <1>4, <3>1, SpaceType
  <2>2. mStepSize' \in [1 .. Writes -> 0 .. WriteSize]
    BY <1>3, StreamConstants DEF TypeOK
  <2>3. done' \in Seq(1 .. Writes)
    BY <1>3, AppendOnce DEF TypeOK
  <2>4. cb' \in Request \cup {NoReq, Opened} /\ cur' \in Request \cup {NoReq}
    BY <1>0, <1>1 DEF Request
  <2>5. more' \in BOOLEAN
    BY <1>0
  <2> QED BY <1>0, <1>4, <2>1, <2>2, <2>3, <2>4, <2>5 DEF TypeOK
<1>6. WholeWrites'
  <2>0. done \in Seq(1 .. Writes)
    BY DEF TypeOK
  <2>1. ToSet(done') = ToSet(done) \cup {w}
    <3>1. PICK S : S = 1 .. Writes
      OBVIOUS
    <3>2. PICK d : d = Append(done, w)
      OBVIOUS
    <3>3. done \in Seq(S) /\ w \in S
      BY <2>0, <3>1
    <3>4. ToSet(d) = ToSet(done) \cup {w}
      BY <3>2, <3>3, AppendOnce
    <3> QED BY <1>3, <3>2, <3>4
  <2>2. Cardinality(UnitsOf(w)') = WriteSize /\ mStepSize'[w] = WriteSize
    <3>1. Cardinality(UnitsOf(w)) = mStepSize[w]
      BY DEF WholeWrites
    <3>2. mStepSize'[w] = WriteSize
      BY <1>3, SentType
    <3>3. mStepSize[w] + n = WriteSize
      BY <1>2, SentType
    <3> QED BY <1>4, <3>1, <3>2, <3>3
  <2>3. ASSUME NEW v \in 1 .. Writes, v # w
        PROVE  /\ Cardinality(UnitsOf(v)') = mStepSize'[v]
               /\ v \in ToSet(done') /\ ~Closing' => mStepSize'[v] = WriteSize
    <3>1. mStepSize'[v] = mStepSize[v]
      BY <1>3, <2>3, SentType
    <3>2. UnitsOf(v)' = UnitsOf(v)
      BY <1>4, <2>3
    <3>3. Closing' <=> Closing
      BY <1>0 DEF Closing
    <3> QED BY <2>1, <2>3, <3>1, <3>2, <3>3 DEF WholeWrites
  <2> QED BY <2>2, <2>3 DEF WholeWrites
<1>7. Apart' /\ Held' = Held
  BY <1>0, QueuesFrame
<1>8. LookInv'
  BY <1>0, <1>7, Kinds DEF LookInv
<1> QED BY <1>5, <1>6, <1>7, <1>8

\* It takes a part, and the write goes back to the head of its queue.
LEMMA SendPartKeeps == ASSUME IInv, SendPart PROVE IInv'
<1> USE DEF IInv
<1>0. /\ UNCHANGED <<mReadQueue, mRequest, batch, cb, more, issued, done, got, taken, arrived,
                     fin, ready>>
      /\ cur' = NoReq /\ noSpace' = TRUE /\ mFlag' = mFlag \ {"SYNC_WRITE"}
  BY DEF SendPart
<1>1. PICK w \in 1 .. Writes : w = cur
  BY DEF SendPart
<1>2. PICK n \in Nat : n = Space /\ n < WriteSize - mStepSize[w]
  BY <1>1, SpaceType DEF SendPart, Left
<1>3. /\ stream' = stream \o Units(w, n) /\ mWriteQueue' = <<w>> \o mWriteQueue
      /\ mStepSize' = [mStepSize EXCEPT ![w] = @ + n]
  BY <1>1, <1>2 DEF SendPart
<1>4. /\ stream' \in Seq(1 .. Writes) /\ Len(stream') = Len(stream) + n
      /\ Cardinality(UnitsOf(w)') = Cardinality(UnitsOf(w)) + n
      /\ \A v \in 1 .. Writes : v # w => UnitsOf(v)' = UnitsOf(v)
  BY <1>3, MoreUnits
<1>5. w \notin Held
  BY <1>1 DEF LookInv
<1>6. /\ mWriteQueue' \in Seq(1 .. Writes) /\ ToSet(mWriteQueue') = ToSet(mWriteQueue) \cup {w}
      /\ Once(mWriteQueue')
  <2>1. mWriteQueue \in Seq(1 .. Writes)
    BY DEF TypeOK
  <2>2. w \notin ToSet(mWriteQueue) /\ Once(mWriteQueue)
    BY <1>5 DEF Held, Apart
  <2>3. PICK s \in Seq(1 .. Writes) : s = mWriteQueue
    BY <2>1
  <2>4. /\ <<w>> \o s \in Seq(1 .. Writes) /\ ToSet(<<w>> \o s) = ToSet(s) \cup {w}
        /\ Once(s) /\ w \notin ToSet(s) => Once(<<w>> \o s)
    <3> HIDE DEF IInv
    <3> QED BY FrontOnce
  <2>5. Once(s) /\ w \notin ToSet(s)
    BY <2>2, <2>3
  <2> QED BY <1>3, <2>3, <2>4, <2>5
<1>7. Apart' /\ Held' = Held \cup {cur}
  BY <1>0, <1>1, <1>5, <1>6 DEF Apart, Held
<1>8. mStepSize[w] \in Nat /\ WriteSize \in Nat /\ mStepSize[w] + n \in 0 .. WriteSize
  BY <1>2, SentType
<1>9. TypeOK'
  <2>1. taken' \in 0 .. Len(stream') /\ Space' \in 0 .. SendBuffer
    <3>1. Space' = SendBuffer - ((Len(stream) + n) - taken)
      BY <1>0, <1>4 DEF Space
    <3> QED BY <1>0, <1>2, <1>4, <3>1, SpaceType
  <2>2. mStepSize' \in [1 .. Writes -> 0 .. WriteSize]
    BY <1>2, <1>3, <1>8 DEF TypeOK
  <2>3. mFlag' \subseteq {"READABLE", "WRITEABLE", "SYNC_READ", "SYNC_WRITE", "CLOSING"}
    BY <1>0 DEF TypeOK
  <2>4. noSpace' \in BOOLEAN
    BY <1>0
  <2> QED BY <1>0, <1>4, <1>6, <2>1, <2>2, <2>3, <2>4 DEF TypeOK
<1>10. WholeWrites'
  <2>1. Cardinality(UnitsOf(w)') = mStepSize'[w] /\ mStepSize[w] < WriteSize
    <3>1. Cardinality(UnitsOf(w)) = mStepSize[w]
      BY DEF WholeWrites
    <3>2. mStepSize'[w] = mStepSize[w] + n
      BY <1>3, SentType
    <3>3. mStepSize[w] < WriteSize
      BY <1>2, <1>8
    <3> QED BY <1>4, <3>1, <3>2, <3>3
  <2>2. Closing' <=> Closing
    BY <1>0 DEF Closing
  <2>3. ~(w \in ToSet(done) /\ ~Closing)
    BY <1>8, <2>1 DEF WholeWrites
  <2>4. ASSUME NEW v \in 1 .. Writes, v # w
        PROVE  /\ Cardinality(UnitsOf(v)') = mStepSize'[v]
               /\ v \in ToSet(done') /\ ~Closing' => mStepSize'[v] = WriteSize
    <3>1. mStepSize'[v] = mStepSize[v]
      BY <1>3, <2>4, SentType
    <3>2. UnitsOf(v)' = UnitsOf(v)
      BY <1>4, <2>4
    <3> QED BY <1>0, <2>2, <2>4, <3>1, <3>2 DEF WholeWrites
  <2>5. w \in ToSet(done') /\ ~Closing' => mStepSize'[w] = WriteSize
    BY <1>0, <2>2, <2>3
  <2>6. \A v \in 1 .. Writes :
           /\ Cardinality(UnitsOf(v)') = mStepSize'[v]
           /\ v \in ToSet(done') /\ ~Closing' => mStepSize'[v] = WriteSize
    BY <2>1, <2>4, <2>5
  <2> QED BY <2>6 DEF WholeWrites, UnitsOf
<1>11. LookInv'
  BY <1>0, <1>1, <1>7, Kinds DEF LookInv
<1> QED BY <1>7, <1>9, <1>10, <1>11

\* A closed handle hands the request back with an error.
LEMMA RefuseKeeps == ASSUME IInv, Refuse PROVE IInv'
<1> USE DEF IInv
<1>0. /\ UNCHANGED <<mFlag, mReadQueue, mWriteQueue, mRequest, batch, issued, mStepSize, got,
                     stream, taken, noSpace, arrived, fin, ready>>
      /\ cur # NoReq /\ Closing /\ cb' = cur /\ cur' = NoReq /\ more' = TRUE
      /\ done' = IF cur \in Reads THEN done ELSE Append(done, cur)
  BY DEF Refuse, Call, IsRead, netVars
<1>1. done' \in Seq(1 .. Writes)
  <2>0. done \in Seq(1 .. Writes) /\ cur \in Request
    BY <1>0 DEF TypeOK
  <2>1. CASE cur \in Reads
    BY <1>0, <2>0, <2>1
  <2>2. CASE cur \notin Reads
    <3>1. PICK w \in 1 .. Writes : w = cur
      BY <2>0, <2>2 DEF Request
    <3> QED BY <1>0, <2>0, <2>2, <3>1, AppendOnce
  <2> QED BY <2>1, <2>2
<1>2. TypeOK'
  <2>1. Space' = Space
    BY <1>0 DEF Space
  <2>2. cb' \in Request \cup {NoReq, Opened} /\ cur' \in Request \cup {NoReq}
    BY <1>0 DEF TypeOK
  <2>3. more' \in BOOLEAN
    BY <1>0
  <2> QED BY <1>0, <1>1, <2>1, <2>2, <2>3 DEF TypeOK
<1>3. WholeWrites' /\ Apart' /\ Held' = Held
  <2>1. Closing'
    BY <1>0 DEF Closing
  <2> QED BY <1>0, <2>1, BytesFrame, QueuesFrame
<1>4. LookInv'
  <2>1. cur' \notin Held' /\ (cur' = NoReq \/ cb' = NoReq)
    BY <1>0, <1>3, Kinds
  <2> QED BY <1>0, <1>3, <2>1, Kinds DEF LookInv
<1> QED BY <1>2, <1>3, <1>4

-----------------------------------------------------------------------------
(* The callback returns.                                                   *)

\* The loop goes on with the oldest of the reads,
LEMMA NextRead ==
    ASSUME IInv, cur = NoReq, cb' = NoReq, mReadQueue # <<>>,
           cur' = Head(mReadQueue), mReadQueue' = Tail(mReadQueue),
           UNCHANGED <<mFlag, mWriteQueue, mRequest, batch, more, appVars, netVars>>
    PROVE  IInv'
<1> USE DEF IInv
<1>0. UNCHANGED <<mFlag, mWriteQueue, mRequest, batch, more, issued, mStepSize, done, got, stream,
                  taken, noSpace, arrived, fin, ready>>
  BY DEF appVars, netVars
<1>1. mReadQueue \in Seq(Reads) /\ Once(mReadQueue)
  BY DEF TypeOK, Apart
<1>2. /\ cur' \in Reads /\ mReadQueue' \in Seq(Reads)
      /\ ToSet(mReadQueue) = ToSet(mReadQueue') \cup {cur'}
      /\ Once(mReadQueue') /\ cur' \notin ToSet(mReadQueue')
  BY <1>1, TailOnce
<1>3. Apart' /\ Held' \cup {cur'} = Held /\ cur' \notin Held'
  BY <1>0, <1>2, Kinds DEF Apart, Held
<1>4. TypeOK'
  <2>1. Space' = Space
    BY <1>0 DEF Space
  <2>2. cb' \in Request \cup {NoReq, Opened} /\ cur' \in Request \cup {NoReq}
    BY <1>2 DEF Request
  <2> QED BY <1>0, <1>2, <2>1, <2>2 DEF TypeOK
<1>5. WholeWrites'
  BY <1>0, BytesFrame DEF Closing
<1>6. LookInv'
  BY <1>0, <1>3 DEF LookInv
<1> QED BY <1>3, <1>4, <1>5, <1>6

\* or of the writes,
LEMMA NextWrite ==
    ASSUME IInv, cur = NoReq, cb' = NoReq, mWriteQueue # <<>>,
           cur' = Head(mWriteQueue), mWriteQueue' = Tail(mWriteQueue),
           UNCHANGED <<mFlag, mReadQueue, mRequest, batch, more, appVars, netVars>>
    PROVE  IInv'
<1> USE DEF IInv
<1>0. UNCHANGED <<mFlag, mReadQueue, mRequest, batch, more, issued, mStepSize, done, got, stream,
                  taken, noSpace, arrived, fin, ready>>
  BY DEF appVars, netVars
<1>1. mWriteQueue \in Seq(1 .. Writes) /\ Once(mWriteQueue)
  BY DEF TypeOK, Apart
<1>2. /\ cur' \in 1 .. Writes /\ mWriteQueue' \in Seq(1 .. Writes)
      /\ ToSet(mWriteQueue) = ToSet(mWriteQueue') \cup {cur'}
      /\ Once(mWriteQueue') /\ cur' \notin ToSet(mWriteQueue')
  BY <1>1, TailOnce
<1>3. Apart' /\ Held' \cup {cur'} = Held /\ cur' \notin Held'
  BY <1>0, <1>2, Kinds DEF Apart, Held
<1>4. TypeOK'
  <2>1. Space' = Space
    BY <1>0 DEF Space
  <2>2. cb' \in Request \cup {NoReq, Opened} /\ cur' \in Request \cup {NoReq}
    BY <1>2 DEF Request
  <2> QED BY <1>0, <1>2, <2>1, <2>2 DEF TypeOK
<1>5. WholeWrites'
  BY <1>0, BytesFrame DEF Closing
<1>6. LookInv'
  BY <1>0, <1>3 DEF LookInv
<1> QED BY <1>3, <1>4, <1>5, <1>6

\* or stops there.
LEMMA StopThere ==
    ASSUME IInv, cb' = NoReq, NEW sync \in {"SYNC_READ", "SYNC_WRITE"},
           mFlag' = mFlag \/ mFlag' = mFlag \cup {sync},
           UNCHANGED <<cur, mReadQueue, mWriteQueue, mRequest, batch, more, appVars, netVars>>
    PROVE  IInv'
<1> USE DEF IInv
<1>0. UNCHANGED <<cur, mReadQueue, mWriteQueue, mRequest, batch, more, issued, mStepSize, done, got,
                  stream, taken, noSpace, arrived, fin, ready>>
  BY DEF appVars, netVars
<1>1. TypeOK'
  <2>1. Space' = Space
    BY <1>0 DEF Space
  <2>2. mFlag' \subseteq {"READABLE", "WRITEABLE", "SYNC_READ", "SYNC_WRITE", "CLOSING"}
    BY DEF TypeOK
  <2> QED BY <1>0, <2>1, <2>2 DEF TypeOK
<1>2. WholeWrites' /\ Apart' /\ Held' = Held
  BY <1>0, BytesFrame, QueuesFrame DEF Closing
<1>3. LookInv'
  BY <1>0, <1>2 DEF LookInv
<1> QED BY <1>1, <1>2, <1>3

LEMMA ReturnKeeps == ASSUME IInv, Return PROVE IInv'
<1>0. cur = NoReq
  BY DEF Return, IInv, LookInv
<1>1. PICK sync \in {"SYNC_READ", "SYNC_WRITE"} : sync = IF IsRead(cb) THEN "SYNC_READ" ELSE "SYNC_WRITE"
  OBVIOUS
<1>2. CASE more /\ IsRead(cb) /\ mReadQueue # <<>>
  BY <1>0, <1>2, NextRead DEF Return
<1>3. CASE more /\ ~IsRead(cb) /\ mWriteQueue # <<>>
  BY <1>0, <1>3, NextWrite DEF Return
<1>4. CASE ~more \/ (IF IsRead(cb) THEN mReadQueue ELSE mWriteQueue) = <<>>
  <2>1. /\ UNCHANGED <<cur, mReadQueue, mWriteQueue, mRequest, batch, more, appVars, netVars>>
        /\ cb' = NoReq /\ (mFlag' = mFlag \/ mFlag' = mFlag \cup {sync})
    BY <1>1, <1>4 DEF Return
  <2> QED BY <2>1, StopThere
<1> QED BY <1>2, <1>3, <1>4 DEF Return, IInv, TypeOK

-----------------------------------------------------------------------------
LEMMA Inductive == ASSUME IInv, [Next]_vars PROVE IInv'
<1>1. CASE UNCHANGED vars
  <2>1. /\ UNCHANGED <<cur, mReadQueue, mWriteQueue, mRequest, batch, more, appVars, netVars>>
        /\ cb' = cb /\ mFlag' = mFlag
    BY <1>1 DEF vars, loopVars
  <2>2. /\ UNCHANGED <<issued, mStepSize, done, got, stream, taken, noSpace, arrived, fin, ready>>
        /\ UNCHANGED <<cur, mReadQueue, mWriteQueue, mRequest, batch, more, cb, mFlag>>
    BY <2>1 DEF appVars, netVars
  <2>3. TypeOK'
    <3>1. Space' = Space
      BY <2>2 DEF Space
    <3> QED BY <2>2, <3>1 DEF IInv, TypeOK
  <2>4. WholeWrites' /\ Apart' /\ Held' = Held
    BY <2>2, BytesFrame, QueuesFrame DEF Closing, IInv
  <2> QED BY <2>2, <2>3, <2>4 DEF IInv, LookInv
<1>2. CASE Idle
  BY <1>1, <1>2 DEF Idle
<1>3. CASE LoopStep
  BY <1>3, TickKeeps, TakeKeeps, ReadSomeKeeps, ReadEndKeeps, ReadAgainKeeps, SendAllKeeps,
     SendPartKeeps, RefuseKeeps, ReturnKeeps, ReadKeeps DEF LoopStep
<1>4. CASE Write
  BY <1>4, WriteKeeps
<1>5. CASE \E r \in Reads : Read(r)
  BY <1>5, ReadKeeps
<1>6. CASE Arrive \/ PeerFin \/ PeerTakes
  BY <1>6, NetKeeps
<1> QED BY <1>1, <1>2, <1>3, <1>4, <1>5, <1>6 DEF Next

THEOREM Invariance == Spec => []IInv
<1>1. Init => IInv
  BY Starts
<1>2. IInv /\ [Next]_vars => IInv'
  BY Inductive
<1> QED BY <1>1, <1>2, PTL DEF Spec

\* Every variable keeps a value of its type; the send buffer never holds more
\* than its capacity.
THEOREM TypeCorrect == Spec => []TypeOK
<1>1. IInv => TypeOK
  BY DEF IInv
<1> QED BY <1>1, Invariance, PTL

LEMMA LinkedFollows == ASSUME IInv PROVE LinkedOnce
<1> USE DEF IInv
<1>1. /\ mReadQueue \in Seq(Request) /\ mWriteQueue \in Seq(Request)
      /\ mRequest \in Seq(Request) /\ batch \in Seq(Request)
  <2>1. Reads \subseteq Request /\ 1 .. Writes \subseteq Request
    BY DEF Request
  <2> QED BY <2>1, WiderSeq DEF TypeOK
<1>2. PICK a : a = mReadQueue \o mWriteQueue
  OBVIOUS
<1>3. PICK b : b = a \o mRequest
  OBVIOUS
<1>4. PICK c : c = b \o batch
  OBVIOUS
<1>5. a \in Seq(Request) /\ ToSet(a) = ToSet(mReadQueue) \cup ToSet(mWriteQueue) /\ Once(a)
  <2>1. ToSet(mReadQueue) \cap ToSet(mWriteQueue) = {}
    BY Kinds
  <2> QED BY <1>1, <1>2, <2>1, CatOnce DEF Apart
<1>6. b \in Seq(Request) /\ ToSet(b) = ToSet(a) \cup ToSet(mRequest) /\ Once(b)
  <2>1. ToSet(a) \cap ToSet(mRequest) = {}
    BY <1>5 DEF Apart
  <2> QED BY <1>1, <1>3, <1>5, <2>1, CatOnce DEF Apart
<1>7. c \in Seq(Request) /\ ToSet(c) = ToSet(b) \cup ToSet(batch) /\ Once(c)
  <2>1. ToSet(b) \cap ToSet(batch) = {}
    BY <1>5, <1>6 DEF Apart
  <2> QED BY <1>1, <1>4, <1>6, <2>1, CatOnce DEF Apart
<1>8. IsInjective(c)
  BY <1>7 DEF IsInjective, Once
<1>9. cur \notin ToSet(c)
  BY <1>5, <1>6, <1>7 DEF LookInv, Held
<1> QED BY <1>2, <1>3, <1>4, <1>8, <1>9 DEF LinkedOnce

\* Every write stays whole and every request waits in one place: however the
\* sends are cut, the callbacks post requests again and the handle closes
\* under the loop.
THEOREM WholeCorrect == Spec => []RequestsWhole
<1>1. IInv => RequestsWhole
  BY LinkedFollows DEF IInv, RequestsWhole
<1> QED BY <1>1, Invariance, PTL
=============================================================================
