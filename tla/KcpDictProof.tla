---------------------------- MODULE KcpDictProof ----------------------------
(***************************************************************************)
(* Proofs about Kcp and HashDict, which share the lemmas about iteration   *)
(* and sequences that come first.                                          *)
(*                                                                         *)
(* Kcp, for windows, sizes and numbers of any width, and any network:      *)
(* KcpInv says how the lists of the two ends fit each other.  Numbers      *)
(* wrap, so the invariant speaks of counts: Count(sn) is how far sn is     *)
(* from the first number.  A conversation shorter than half the width      *)
(* (ShortTalk) is what makes Diff() the difference of the counts of all    *)
(* that can meet, also of a doubled datagram that comes very late.         *)
(*                                                                         *)
(* HashDict, for any keys and hashes, sizes that are powers of 2 and       *)
(* cursors of any width: DictInv says that the tables are in order, and    *)
(* what an iterator and a scan have behind them and before them.  A table  *)
(* parts the order of reversed bits (Place) in equal spans, one for each   *)
(* bucket, and NextCursor goes from one span to the next one.              *)
(***************************************************************************)
EXTENDS Kcp, HashDict, WellFoundedInduction, SequenceTheorems, FiniteSetTheorems, TLAPS

-----------------------------------------------------------------------------
(* Induction, and the sequence numbers.                                    *)

\* A set of numbers has a least one.
LEMMA LeastNat ==
    ASSUME NEW T \in SUBSET Nat, T # {}
    PROVE  \E x \in T : \A y \in T : x <= y
<1> DEFINE R == OpToRel(<, Nat)
<1>1. IsWellFoundedOn(R, Nat)
  BY NatLessThanWellFounded
<1>2. PICK x \in T : \A y \in T : ~ (<<y, x>> \in R)
  <2> HIDE DEF R
  <2> QED BY <1>1, WFMin
<1>3. \A y \in T : ~(y < x)
  BY <1>2 DEF OpToRel
<1> QED BY <1>3

\* Induction along a sequence of values.
LEMMA AllAlong ==
    ASSUME NEW n \in Nat, NEW S, NEW f, f[0] \in S,
           \A i \in 1 .. n : f[i - 1] \in S => f[i] \in S
    PROVE  \A i \in 0 .. n : f[i] \in S
<1> DEFINE T == {i \in 0 .. n : f[i] \notin S}
<1>1. SUFFICES ASSUME T # {} PROVE FALSE
  OBVIOUS
<1>2. PICK x \in T : \A y \in T : x <= y
  <2>1. T \in SUBSET Nat
    OBVIOUS
  <2> HIDE DEF T
  <2> QED BY <1>1, <2>1, LeastNat
<1>3. x \in 1 .. n /\ x - 1 \in 0 .. n
  OBVIOUS
<1>4. x - 1 \notin T
  BY <1>2, <1>3
<1> QED BY <1>3, <1>4

\* Steps within a set, and where they lead to from x.
Steps(n, S, step) == step \in [S \X (1 .. n) -> S]
Orbit(n, S, x, step) ==
    \E f \in [0 .. n -> S] : f[0] = x /\ \A i \in 1 .. n : f[i] = step[<<f[i - 1], i>>]

\* A step function of a set into itself can be iterated.
LEMMA Iterates ==
    ASSUME NEW n \in Nat, NEW S, NEW x \in S, NEW step, Steps(n, S, step)
    PROVE  Orbit(n, S, x, step)
<1> DEFINE Good(m) == \E f \in [0 .. m -> S] :
                         f[0] = x /\ \A i \in 1 .. m : f[i] = step[<<f[i - 1], i>>]
           T == {m \in 0 .. n : ~Good(m)}
<1>a. step \in [S \X (1 .. n) -> S]
  BY DEF Steps
<1>1. Good(0)
  <2> DEFINE f == [i \in 0 .. 0 |-> x]
  <2>1. f \in [0 .. 0 -> S] /\ f[0] = x
    OBVIOUS
  <2>2. \A i \in 1 .. 0 : FALSE
    OBVIOUS
  <2> HIDE DEF f
  <2> QED BY <2>1, <2>2
<1>2. ASSUME NEW m \in 1 .. n, Good(m - 1) PROVE Good(m)
  <2>1. PICK f \in [0 .. m - 1 -> S] :
           f[0] = x /\ \A i \in 1 .. m - 1 : f[i] = step[<<f[i - 1], i>>]
    BY <1>2
  <2> DEFINE g == [i \in 0 .. m |-> IF i = m THEN step[<<f[m - 1], m>>] ELSE f[i]]
  <2>2. f[m - 1] \in S /\ step[<<f[m - 1], m>>] \in S
    BY <1>a, <2>1
  <2>3. g \in [0 .. m -> S] /\ g[0] = x
    BY <2>1, <2>2
  <2>4. \A i \in 1 .. m : g[i] = step[<<g[i - 1], i>>]
    <3>1. TAKE i \in 1 .. m
    <3>2. i - 1 \in 0 .. m - 1 /\ g[i - 1] = f[i - 1]
      OBVIOUS
    <3>3. CASE i = m
      <4>1. g[m] = step[<<f[m - 1], m>>] /\ g[m - 1] = f[m - 1]
        BY <3>2, <3>3
      <4> HIDE DEF g
      <4> QED BY <3>3, <4>1
    <3>4. CASE i # m
      <4>1. i \in 1 .. m - 1
        BY <3>4
      <4>2. g[i] = f[i]
        BY <3>4, <4>1
      <4> QED BY <2>1, <3>2, <4>1, <4>2
    <3> QED BY <3>3, <3>4
  <2> HIDE DEF g
  <2> QED BY <2>3, <2>4
<1> HIDE DEF Good
<1>3. Good(n)
  <2>1. SUFFICES ASSUME T # {} PROVE FALSE
    OBVIOUS
  <2>2. PICK m \in T : \A y \in T : m <= y
    <3>1. T \in SUBSET Nat
      OBVIOUS
    <3> HIDE DEF T
    <3> QED BY <2>1, <3>1, LeastNat
  <2>3. m \in 1 .. n /\ m - 1 \in 0 .. n
    BY <1>1
  <2>4. Good(m - 1)
    BY <2>2, <2>3
  <2> QED BY <1>2, <2>3, <2>4
<1> QED BY <1>3 DEF Good, Orbit

\* Induction over numbers.
LEMMA AllNumbers ==
    ASSUME NEW n \in Nat, NEW S, 0 \in S, \A i \in 1 .. n : i - 1 \in S => i \in S
    PROVE  \A i \in 0 .. n : i \in S
<1> DEFINE f == [i \in 0 .. n |-> i]
<1>1. f[0] \in S /\ \A i \in 1 .. n : f[i - 1] \in S => f[i] \in S
  <2>1. \A i \in 1 .. n : i \in 0 .. n /\ i - 1 \in 0 .. n
    OBVIOUS
  <2> QED BY <2>1
<1>2. \A i \in 0 .. n : f[i] = i
  OBVIOUS
<1> HIDE DEF f
<1>3. \A i \in 0 .. n : f[i] \in S
  BY <1>1, AllAlong
<1> QED BY <1>2, <1>3

-----------------------------------------------------------------------------
(* Numbers.                                                                *)

SN == 0 .. SNMod - 1

\* Numbers that were given out before sn.
Count(sn) == (sn - FirstSN) % SNMod

\* What the constants are.
LEMMA Consts ==
    /\ SNMod \in Nat /\ SNMod > 0 /\ FirstSN \in SN
    /\ RecvWindow \in Nat /\ RecvWindow > 0 /\ SendWindow \in Nat /\ SendWindow > 0
    /\ WND_RCV \in Nat /\ FastResend \in Nat /\ MSS \in Nat /\ MSS > 0 /\ MTU \in Nat
    /\ \A e \in End : Messages[e] \in Seq(Nat)
  BY KcpConstants DEF SN, MSS

\* The remainder of what is at most once round.
LEMMA Wraps ==
    ASSUME NEW m \in Nat, m > 0, NEW x \in Int
    PROVE  /\ x \in 0 .. m - 1 => x % m = x
           /\ x \in m .. 2 * m - 1 => x % m = x - m
           /\ x \in -m .. -1 => x % m = x + m
<1>1. ASSUME NEW q \in {-1, 0, 1}, NEW r \in 0 .. m - 1 PROVE (q * m + r) % m = r
  BY <1>1
<1>2. ASSUME x \in 0 .. m - 1 PROVE x % m = x
  BY <1>2
<1>3. ASSUME x \in m .. 2 * m - 1 PROVE x % m = x - m
  <2>1. x - m \in 0 .. m - 1 /\ x = 1 * m + (x - m)
    BY <1>3
  <2> QED BY <2>1, <1>1
<1>4. ASSUME x \in -m .. -1 PROVE x % m = x + m
  <2>1. x + m \in 0 .. m - 1 /\ x = (-1) * m + (x + m)
    BY <1>4
  <2> QED BY <2>1, <1>1
<1> QED BY <1>2, <1>3, <1>4

\* The count of a number is how far round it is from the first one.
LEMMA CountOf ==
    ASSUME NEW sn \in SN
    PROVE  /\ Count(sn) \in SN
           /\ Count(sn) = IF sn >= FirstSN THEN sn - FirstSN ELSE sn - FirstSN + SNMod
<1>1. PICK m \in Nat : m = SNMod /\ m > 0
  BY Consts
<1>2. PICK x \in Int : x = sn - FirstSN
  BY Consts DEF SN
<1>3. Count(sn) = x % m
  BY <1>1, <1>2 DEF Count
<1>4. x \in 0 .. m - 1 \/ x \in -m .. -1
  BY Consts, <1>1, <1>2 DEF SN
<1>5. CASE x \in 0 .. m - 1
  <2>1. x % m = x
    BY <1>1, <1>5, Wraps
  <2> QED BY <1>1, <1>2, <1>3, <1>5, <2>1, Consts DEF SN
<1>6. CASE x \in -m .. -1
  <2>1. x % m = x + m
    BY <1>1, <1>6, Wraps
  <2> QED BY <1>1, <1>2, <1>3, <1>6, <2>1, Consts DEF SN
<1> QED BY <1>4, <1>5, <1>6

\* The first number counts as 0.
LEMMA CountFirst == FirstSN \in SN /\ Count(FirstSN) = 0
<1>1. FirstSN \in SN
  BY Consts
<1>2. Count(FirstSN) = IF FirstSN >= FirstSN THEN FirstSN - FirstSN ELSE FirstSN - FirstSN + SNMod
  BY <1>1, CountOf
<1> QED BY <1>1, <1>2, Consts DEF SN

\* Two numbers that count the same are the same.
LEMMA CountOnce == ASSUME NEW a \in SN, NEW b \in SN, Count(a) = Count(b) PROVE a = b
<1>a. /\ Count(a) = IF a >= FirstSN THEN a - FirstSN ELSE a - FirstSN + SNMod
      /\ Count(b) = IF b >= FirstSN THEN b - FirstSN ELSE b - FirstSN + SNMod
  BY CountOf
<1>0. SNMod \in Nat /\ FirstSN \in 0 .. SNMod - 1
  BY Consts DEF SN
<1>1. PICK m \in Nat, f \in Nat : m = SNMod /\ f = FirstSN /\ f < m
  BY <1>0
<1>2. PICK c \in Int : c = Count(a)
  BY <1>a, <1>1 DEF SN
<1>3. /\ c = IF a >= f THEN a - f ELSE a - f + m
      /\ c = IF b >= f THEN b - f ELSE b - f + m
      /\ a \in 0 .. m - 1 /\ b \in 0 .. m - 1
  BY <1>a, <1>1, <1>2 DEF SN
<1> QED BY <1>3

\* Numbers that lie less than half of all apart are compared as they should be.
LEMMA DiffIs ==
    ASSUME NEW a \in SN, NEW b \in SN, NEW d \in Int, d = Count(a) - Count(b),
           2 * d < SNMod, 2 * d >= -SNMod
    PROVE  Diff(a, b) = d
<1>a. /\ Count(a) = IF a >= FirstSN THEN a - FirstSN ELSE a - FirstSN + SNMod
      /\ Count(b) = IF b >= FirstSN THEN b - FirstSN ELSE b - FirstSN + SNMod
  BY CountOf
<1>1. PICK m \in Nat : m = SNMod /\ m > 0
  BY Consts
<1>2. PICK x \in Int : x = a - b /\ x \in -m .. m - 1
  BY Consts, <1>1 DEF SN
<1>3. x = d \/ x = d + m \/ x = d - m
  BY <1>a, <1>1, <1>2, Consts DEF SN
<1>4. x % m = IF d >= 0 THEN d ELSE d + m
  BY <1>1, <1>2, <1>3, Wraps
<1>5. Diff(a, b) = IF 2 * (x % m) >= m THEN (x % m) - m ELSE x % m
  BY <1>1, <1>2 DEF Diff
<1> QED BY <1>1, <1>4, <1>5

\* Plus() adds to the count, as long as that stays below the width.
LEMMA PlusIs ==
    ASSUME NEW a \in SN, NEW n \in Nat, Count(a) + n < SNMod
    PROVE  Plus(a, n) \in SN /\ Count(Plus(a, n)) = Count(a) + n
<1>1. PICK m \in Nat : m = SNMod /\ m > 0
  BY Consts
<1>2. PICK x \in Int : x = a + n /\ x \in 0 .. 2 * m - 1
  BY Consts, <1>1, CountOf DEF SN
<1>3. Plus(a, n) = x % m
  BY <1>1, <1>2 DEF Plus
<1>4. x % m = IF x < m THEN x ELSE x - m
  BY <1>1, <1>2, Wraps
<1>5. Plus(a, n) \in SN
  BY <1>1, <1>2, <1>3, <1>4 DEF SN
<1>6. PICK p \in SN : p = Plus(a, n)
  BY <1>5
<1>7. Count(p) = IF p >= FirstSN THEN p - FirstSN ELSE p - FirstSN + SNMod
  BY CountOf
<1>8. Count(a) = IF a >= FirstSN THEN a - FirstSN ELSE a - FirstSN + SNMod
  BY CountOf
<1>9. p = IF x < m THEN x ELSE x - m
  BY <1>3, <1>4, <1>6
<1> QED BY <1>1, <1>2, <1>6, <1>7, <1>8, <1>9, Consts DEF SN

\* Run(s, S) is how far s goes without leaving S.
LEMMA RunIs ==
    ASSUME NEW X, NEW s \in Seq(X), NEW S
    PROVE  /\ Run(s, S) \in 0 .. Len(s)
           /\ \A i \in 1 .. Run(s, S) : i \in S
           /\ Run(s, S) < Len(s) => Run(s, S) + 1 \notin S
<1> DEFINE T == {n \in 0 .. Len(s) : n + 1 \notin S \cap DOMAIN s}
<1>0. Len(s) \in Nat /\ DOMAIN s = 1 .. Len(s)
  OBVIOUS
<1>1. PICK n \in T : \A y \in T : n <= y
  <2>1. T \in SUBSET Nat
    BY <1>0
  <2>2. Len(s) \in T
    BY <1>0
  <2> HIDE DEF T
  <2> QED BY <2>1, <2>2, LeastNat
<1>2. \A i \in 1 .. n : i \in S
  <2>1. TAKE i \in 1 .. n
  <2>2. i - 1 \in 0 .. Len(s) /\ i - 1 < n /\ (i - 1) + 1 = i
    BY <1>0
  <2>3. i - 1 \notin T
    BY <1>1, <2>2
  <2> QED BY <2>2, <2>3
<1>3. n \in 0 .. Len(s) /\ 1 .. n \subseteq S /\ n + 1 \notin S \cap DOMAIN s
  BY <1>2
<1>4. /\ Run(s, S) \in 0 .. Len(s) /\ 1 .. Run(s, S) \subseteq S
      /\ Run(s, S) + 1 \notin S \cap DOMAIN s
  BY <1>3 DEF Run
<1> QED BY <1>0, <1>4

\* The chosen ones are elements that were chosen.
LEMMA ChosenIs ==
    ASSUME NEW X, NEW s \in Seq(X), NEW S
    PROVE  Chosen(s, S) \in Seq({s[j] : j \in S \cap DOMAIN s})
<1> DEFINE Y == {s[j] : j \in S \cap DOMAIN s}
           n == Len(s)
           W == Seq(Y)
           Op(q, i) == IF i \in S THEN Append(q, s[i]) ELSE q
           step == [p \in W \X (1 .. n) |-> Op(p[1], p[2])]
           Is(f) == f = [i \in 0 .. n |-> IF i = 0 THEN <<>> ELSE Op(f[i - 1], i)]
<1>0. n \in Nat /\ <<>> \in W
  OBVIOUS
<1>1. \A q \in W, i \in 1 .. n : Op(q, i) \in W
  <2>1. TAKE q \in W, i \in 1 .. n
  <2>2. i \in S => s[i] \in Y
    OBVIOUS
  <2> HIDE DEF Y
  <2> QED BY <2>2
<1> HIDE DEF W, Op
<1>2. Steps(n, W, step)
  BY <1>1 DEF Steps
<1>3. PICK f \in [0 .. n -> W] : f[0] = <<>> /\ \A i \in 1 .. n : f[i] = Op(f[i - 1], i)
  <2>1. Orbit(n, W, <<>>, step)
    <3>1. <<>> \in W
      BY <1>0
    <3> HIDE DEF step, n
    <3> QED BY <1>0, <1>2, <3>1, Iterates
  <2>2. PICK f \in [0 .. n -> W] : f[0] = <<>> /\ \A i \in 1 .. n : f[i] = step[<<f[i - 1], i>>]
    BY <2>1 DEF Orbit
  <2>3. \A i \in 1 .. n : f[i - 1] \in W
    BY <1>0
  <2>4. \A q \in W, i \in 1 .. n : step[<<q, i>>] = Op(q, i)
    OBVIOUS
  <2> HIDE DEF step, n
  <2> QED BY <2>2, <2>3, <2>4
<1>4. Is(f)
  <2>2. \A i \in 0 .. n : f[i] = IF i = 0 THEN <<>> ELSE Op(f[i - 1], i)
    BY <1>0, <1>3
  <2> QED BY <1>3, <2>2
<1>5. Chosen(s, S) = (CHOOSE g : Is(g))[n]
  BY DEF Chosen, Op
<1>6. PICK g : g = (CHOOSE h : Is(h)) /\ Is(g)
  BY <1>4
<1>7. g[0] = <<>> /\ \A i \in 1 .. n : g[i] = Op(g[i - 1], i)
  <2>1. \A i \in 0 .. n : g[i] = IF i = 0 THEN <<>> ELSE Op(g[i - 1], i)
    <3> HIDE DEF n
    <3> QED BY <1>6
  <2>2. 0 \in 0 .. n /\ \A i \in 1 .. n : i \in 0 .. n /\ i # 0
    BY <1>0
  <2> HIDE DEF n
  <2> QED BY <2>1, <2>2
<1>8. \A i \in 1 .. n : g[i - 1] \in W => g[i] \in W
  BY <1>1, <1>7
<1>9. \A i \in 0 .. n : g[i] \in W
  BY <1>0, <1>7, <1>8, AllAlong
<1> QED BY <1>0, <1>5, <1>6, <1>9 DEF W

-----------------------------------------------------------------------------
(* The segments of one end, numbered from 0 in the order they are sent.    *)

SegmentsOf(e) ==
    LET at[n \in 0 .. Len(Messages[e])] ==
            IF n = 0 THEN 0 ELSE at[n - 1] + Fragments(Messages[e][n])
    IN  at

\* Those of its first n messages.
Segments(e, n) == SegmentsOf(e)[n]

Total(e) == Segments(e, Len(Messages[e]))

\* Every message is at least one fragment.
LEMMA FragmentsPos == ASSUME NEW len \in Nat PROVE Fragments(len) \in Nat /\ Fragments(len) >= 1
<1>1. PICK m \in Nat : m = MSS /\ m > 0
  BY Consts
<1>2. CASE len <= m
  BY <1>1, <1>2 DEF Fragments
<1>3. CASE len > m
  <2>1. PICK q \in Int, x \in Nat : x = len + m - 1 /\ q = x \div m
    BY <1>1
  <2>2. x = q * m + (x % m) /\ x % m \in 0 .. m - 1 /\ x >= m
    BY <1>1, <1>3, <2>1
  <2>3. q \in Nat
    BY <1>1, <2>1
  <2>4. q # 0
    BY <2>2
  <2> QED BY <1>1, <1>3, <2>1, <2>3, <2>4 DEF Fragments
<1> QED BY <1>1, <1>2, <1>3

\* The segments of n messages are those of one less and its fragments.
LEMMA SegmentsAre ==
    ASSUME NEW e \in End
    PROVE  /\ Segments(e, 0) = 0
           /\ \A n \in 0 .. Len(Messages[e]) : Segments(e, n) \in Nat
           /\ \A n \in 1 .. Len(Messages[e]) :
                 Segments(e, n) = Segments(e, n - 1) + Fragments(Messages[e][n])
<1> DEFINE n == Len(Messages[e])
           Op(q, i) == q + Fragments(Messages[e][i])
           step == [p \in Nat \X (1 .. n) |-> Op(p[1], p[2])]
           Is(f) == f = [i \in 0 .. n |-> IF i = 0 THEN 0 ELSE Op(f[i - 1], i)]
<1>0. n \in Nat /\ \A i \in 1 .. n : Messages[e][i] \in Nat
  BY Consts
<1>1. \A q \in Nat, i \in 1 .. n : Op(q, i) \in Nat
  <2>1. TAKE q \in Nat, i \in 1 .. n
  <2>2. Messages[e][i] \in Nat
    BY <1>0
  <2>3. Fragments(Messages[e][i]) \in Nat
    BY <2>2, FragmentsPos
  <2> QED BY <2>3
<1> HIDE DEF Op
<1>2. Steps(n, Nat, step)
  BY <1>1 DEF Steps
<1>3. PICK f \in [0 .. n -> Nat] : f[0] = 0 /\ \A i \in 1 .. n : f[i] = Op(f[i - 1], i)
  <2>1. Orbit(n, Nat, 0, step)
    <3>1. 0 \in Nat
      BY <1>0
    <3> HIDE DEF step, n
    <3> QED BY <1>0, <1>2, <3>1, Iterates
  <2>2. PICK f \in [0 .. n -> Nat] : f[0] = 0 /\ \A i \in 1 .. n : f[i] = step[<<f[i - 1], i>>]
    BY <2>1 DEF Orbit
  <2>3. \A i \in 1 .. n : f[i - 1] \in Nat
    BY <1>0
  <2>4. \A q \in Nat, i \in 1 .. n : step[<<q, i>>] = Op(q, i)
    OBVIOUS
  <2> HIDE DEF step, n
  <2> QED BY <2>2, <2>3, <2>4
<1>4. Is(f)
  <2>2. \A i \in 0 .. n : f[i] = IF i = 0 THEN 0 ELSE Op(f[i - 1], i)
    BY <1>0, <1>3
  <2> QED BY <1>3, <2>2
<1>5. SegmentsOf(e) = CHOOSE g : Is(g)
  BY DEF SegmentsOf, Op
<1>6. Is(SegmentsOf(e))
  BY <1>4, <1>5
<1>7. Segments(e, 0) = 0 /\ \A i \in 1 .. n : Segments(e, i) = Op(Segments(e, i - 1), i)
  BY <1>0, <1>6 DEF Segments
<1>8. \A i \in 1 .. n : SegmentsOf(e)[i - 1] \in Nat => SegmentsOf(e)[i] \in Nat
  BY <1>1, <1>7 DEF Segments
<1>9. SegmentsOf(e)[0] \in Nat
  BY <1>7 DEF Segments
<1>10. \A i \in 0 .. n : SegmentsOf(e)[i] \in Nat
  BY <1>0, <1>8, <1>9, AllAlong
<1> QED BY <1>7, <1>10 DEF Segments, Op

\* More messages are no fewer segments.
LEMMA SegmentsGrow ==
    ASSUME NEW e \in End, NEW m \in 0 .. Len(Messages[e]), NEW n \in 0 .. Len(Messages[e]), m <= n
    PROVE  Segments(e, m) <= Segments(e, n)
<1> DEFINE L == Len(Messages[e])
           S == {x \in Nat : Segments(e, m) <= x}
           f == [i \in 0 .. n - m |-> Segments(e, m + i)]
<1>0. L \in Nat /\ n - m \in Nat
  BY Consts
<1>1. f[0] \in S
  BY <1>0, SegmentsAre
<1>2. ASSUME NEW i \in 1 .. n - m, f[i - 1] \in S PROVE f[i] \in S
  <2>1. m + i \in 1 .. L /\ i - 1 \in 0 .. n - m /\ i \in 0 .. n - m /\ m + (i - 1) = (m + i) - 1
    BY <1>0
  <2>2. Messages[e][m + i] \in Nat
    BY <2>1, Consts
  <2>3. PICK a \in Nat : a = Fragments(Messages[e][m + i])
    BY <2>2, FragmentsPos
  <2>4. Segments(e, m + i) = Segments(e, (m + i) - 1) + a
    BY <2>1, <2>3, SegmentsAre
  <2>5. f[i - 1] = Segments(e, (m + i) - 1) /\ f[i] = Segments(e, m + i)
    BY <2>1
  <2>6. PICK x \in Nat, y \in Nat : x = f[i - 1] /\ y = Segments(e, m) /\ y <= x
    BY <1>2, SegmentsAre
  <2>7. f[i] = x + a
    BY <2>4, <2>5, <2>6
  <2> QED BY <2>6, <2>7
<1>3. \A i \in 0 .. n - m : f[i] \in S
  <2> HIDE DEF f, S
  <2> QED BY <1>0, <1>1, <1>2, AllAlong
<1>4. f[n - m] = Segments(e, n) /\ n - m \in 0 .. n - m
  BY <1>0
<1> QED BY <1>3, <1>4

\* The message that the segment n belongs to, its place there and its
\* fragment's number.
MessageAt(e, n) ==
    CHOOSE m \in 1 .. Len(Messages[e]) : Segments(e, m - 1) <= n /\ n < Segments(e, m)
Data(e, n) == <<MessageAt(e, n), n - Segments(e, MessageAt(e, n) - 1) + 1>>
Frg(e, n) == Segments(e, MessageAt(e, n)) - n - 1

\* The fragments of a message follow each other in the segments.
LEMMA ItemAt ==
    ASSUME NEW e \in End, NEW m \in 1 .. Len(Messages[e]), NEW i \in 1 .. Fragments(Messages[e][m])
    PROVE  /\ Data(e, Segments(e, m - 1) + i - 1) = <<m, i>>
           /\ Frg(e, Segments(e, m - 1) + i - 1) = Fragments(Messages[e][m]) - i
           /\ Fragments(Messages[e][m]) \in Nat
           /\ Segments(e, m - 1) \in Nat
           /\ Segments(e, m) = Segments(e, m - 1) + Fragments(Messages[e][m])
<1> DEFINE L == Len(Messages[e])
<1>0. L \in Nat /\ m - 1 \in 0 .. L /\ m \in 0 .. L /\ Messages[e][m] \in Nat
  BY Consts
<1>1. PICK a \in Nat, c \in Nat : a = Segments(e, m - 1) /\ c = Fragments(Messages[e][m])
  BY <1>0, FragmentsPos, SegmentsAre
<1>2. Segments(e, m) = a + c
  BY <1>1, SegmentsAre
<1>3. PICK n \in Nat : n = a + i - 1
  BY <1>1
<1>4. a <= n /\ n < a + c
  BY <1>1, <1>3
<1>5. ASSUME NEW o \in 1 .. L, Segments(e, o - 1) <= n, n < Segments(e, o)
      PROVE  o = m
  <2>0. o - 1 \in 0 .. L /\ o \in 0 .. L
    BY <1>0
  <2>1. PICK x \in Nat, y \in Nat : x = Segments(e, o - 1) /\ y = Segments(e, o)
    BY <2>0, SegmentsAre
  <2>2. CASE o < m
    <3>1. o <= m - 1
      BY <1>0, <2>2
    <3>2. Segments(e, o) <= Segments(e, m - 1)
      BY <1>0, <2>0, <3>1, SegmentsGrow
    <3> QED BY <1>1, <1>4, <1>5, <2>1, <3>2
  <2>3. CASE o > m
    <3>1. m <= o - 1
      BY <1>0, <2>3
    <3>2. Segments(e, m) <= Segments(e, o - 1)
      BY <1>0, <2>0, <3>1, SegmentsGrow
    <3> QED BY <1>1, <1>2, <1>4, <1>5, <2>1, <3>2
  <2> QED BY <1>0, <2>2, <2>3
<1>6. Segments(e, m - 1) <= n /\ n < Segments(e, m)
  BY <1>1, <1>2, <1>4
<1>7. MessageAt(e, n) = m
  BY <1>5, <1>6 DEF MessageAt
<1>8. n - a + 1 = i /\ (a + c) - n - 1 = c - i
  BY <1>3
<1>9. Data(e, n) = <<m, i>>
  BY <1>1, <1>7, <1>8 DEF Data
<1>10. Frg(e, n) = c - i
  BY <1>2, <1>7, <1>8 DEF Frg
<1> QED BY <1>1, <1>2, <1>3, <1>9, <1>10

-----------------------------------------------------------------------------
(* The invariant.  e sends, r is the other end; n numbers e's segments.    *)

\* x carries the segment n.
IsItem(e, n, x) == x.data = Data(e, n) /\ x.frg = Frg(e, n)

\* An end has received the segment n of the other.
HasSegment(r, n) ==
    \/ n < Count(r.recvNext)
    \/ \E i \in DOMAIN r.recvBuffer : Count(r.recvBuffer[i].sn) = n

Fragment == [frg : Int, data : Nat \X Nat]
Received == [sn : SN, frg : Int, data : Nat \X Nat]
Waiting == [frg : Int, data : Nat \X Nat, size : Int]
Flying == [sn : SN, frg : Int, data : Nat \X Nat, size : Int, xmit : BOOLEAN, fast : Int]

KcpRecord ==
    [sendUNA : SN, sendNext : SN, recvNext : SN,
     sendQueue : Seq(Waiting), sendBuffer : Seq(Flying),
     recvBuffer : Seq(Received), recvQueue : Seq(Fragment), ackList : Seq(SN),
     remoteWindow : Nat, cwnd : Nat, ssthresh : Int,
     probe : SUBSET {"ASK", "TELL"}, probeWait : BOOLEAN]

NetSegment ==
    [cmd : {"ACK"}, wnd : Nat, una : SN, sn : SN]
    \cup [cmd : {"PUSH"}, wnd : Nat, una : SN, sn : SN, frg : Int, data : Nat \X Nat, size : Int]
    \cup [cmd : {"WASK", "WINS"}, wnd : Nat, una : SN]

\* What waits for a number is what comes after the last that has one.
QueueInv(e, k, s) ==
    /\ s \in 0 .. Len(Messages[e])
    /\ Count(k.sendNext) + Len(k.sendQueue) = Segments(e, s)
    /\ \A i \in DOMAIN k.sendQueue : IsItem(e, Count(k.sendNext) + i - 1, k.sendQueue[i])

\* What was sent and is kept: in order, from sendUNA on.
BufferInv(e, k) ==
    LET b == k.sendBuffer IN
    /\ \A i \in DOMAIN b : /\ Count(k.sendUNA) <= Count(b[i].sn)
                           /\ Count(b[i].sn) < Count(k.sendNext)
                           /\ IsItem(e, Count(b[i].sn), b[i])
    /\ \A i, j \in DOMAIN b : i < j => Count(b[i].sn) < Count(b[j].sn)
    /\ k.sendUNA = Una(k)
    /\ Count(k.sendUNA) <= Count(k.sendNext)
    /\ Count(k.sendNext) <= Count(k.sendUNA) + SendWindow

\* What is not kept, the other end has.
FreedInv(k, r) ==
    /\ Count(r.recvNext) <= Count(k.sendNext)
    /\ \A n \in 0 .. Count(k.sendNext) - 1 :
          HasSegment(r, n) \/ \E i \in DOMAIN k.sendBuffer : Count(k.sendBuffer[i].sn) = n

SenderInv(e, k, s, r) == QueueInv(e, k, s) /\ BufferInv(e, k) /\ FreedInv(k, r)

\* What has come too early: in order, inside of the window.
EarlyInv(e, r, top) ==
    LET b == r.recvBuffer IN
    /\ \A i \in DOMAIN b : /\ Count(r.recvNext) <= Count(b[i].sn)
                           /\ Count(b[i].sn) < Count(r.recvNext) + RecvWindow
                           /\ Count(b[i].sn) < top
                           /\ IsItem(e, Count(b[i].sn), b[i])
    /\ \A i, j \in DOMAIN b : i < j => Count(b[i].sn) < Count(b[j].sn)

NoneReady(r) ==
    r.recvBuffer # <<>> /\ r.recvBuffer[1].sn = r.recvNext => Len(r.recvQueue) >= RecvWindow

\* What can be read: the segments before recvNext that no message read has.
ReadInv(e, r, g) ==
    LET q == r.recvQueue
        first == Count(r.recvNext) - Len(q)
    IN  /\ Len(q) <= RecvWindow
        /\ \A i \in DOMAIN q : IsItem(e, first + i - 1, q[i])
        /\ g \in Seq(Seq(Nat \X Nat)) /\ Len(g) \in 0 .. Len(Messages[e])
        /\ Segments(e, Len(g)) = first
        /\ \A m \in DOMAIN g : g[m] = Message(e, m)

ReceiverInv(e, r, g, top) ==
    /\ Count(r.recvNext) <= top
    /\ EarlyInv(e, r, top) /\ NoneReady(r) /\ ReadInv(e, r, g)
    /\ \A i \in DOMAIN r.ackList : HasSegment(r, Count(r.ackList[i]))

\* What a segment under way from e says, e being k by now.
Says(e, seg, k) ==
    /\ seg \in NetSegment
    /\ Count(seg.una) <= Count(k.recvNext)
    /\ seg.cmd = "ACK" => HasSegment(k, Count(seg.sn))
    /\ seg.cmd = "PUSH" => Count(seg.sn) < Count(k.sendNext) /\ IsItem(e, Count(seg.sn), seg)

NetInv(e, k, n) ==
    \A i \in DOMAIN n : /\ n[i] \in Seq(NetSegment)
                        /\ \A j \in DOMAIN n[i] : Says(e, n[i][j], k)

KcpInv ==
    /\ kcp \in [End -> KcpRecord] /\ sent \in [End -> Nat]
    /\ DOMAIN net = End /\ (\A e \in End : net[e] \in Seq(Seq(NetSegment)))
    /\ DOMAIN got = End
    /\ \A e \in End :
          /\ SenderInv(e, kcp[e], sent[e], kcp[Peer(e)])
          /\ ReceiverInv(e, kcp[Peer(e)], got[Peer(e)], Count(kcp[e].sendNext))
          /\ NetInv(e, kcp[e], net[Peer(e)])

\* No end sends more segments than leave the numbers of a window apart from
\* those of an older one.
ShortTalk == \A e \in End : 2 * (Total(e) + RecvWindow) <= SNMod

-----------------------------------------------------------------------------
(* What other steps leave of it.                                           *)

\* An end knows at least what it knew.
Grown(k, k2) ==
    /\ Count(k.recvNext) <= Count(k2.recvNext) /\ Count(k.sendNext) <= Count(k2.sendNext)
    /\ \A n \in Int : HasSegment(k, n) => HasSegment(k2, n)

\* All of an end, o being the other one.
EndInv(e, k, s, g, o) ==
    /\ k \in KcpRecord /\ s \in Nat
    /\ SenderInv(e, k, s, o) /\ ReceiverInv(Peer(e), k, g, Count(o.sendNext))

\* There are two ends, each the other of the other.
LEMMA PeerIs == ASSUME NEW e \in End PROVE Peer(e) \in End /\ Peer(e) # e /\ Peer(Peer(e)) = e
  BY DEF Peer, End

\* Counts are numbers below the width.
LEMMA CountNat == ASSUME NEW sn \in SN PROVE Count(sn) \in Nat /\ Count(sn) < SNMod
  BY CountOf, Consts DEF SN

\* The elements of a sequence.
LEMMA ElementsIn == ASSUME NEW X, NEW s \in Seq(X) PROVE \A i \in DOMAIN s : s[i] \in X
  OBVIOUS

\* The types of the fields of a protocol object.
LEMMA PartsOf ==
    ASSUME NEW k \in KcpRecord
    PROVE  /\ k.sendUNA \in SN /\ k.sendNext \in SN /\ k.recvNext \in SN
           /\ Count(k.sendUNA) \in Nat /\ Count(k.sendNext) \in Nat /\ Count(k.recvNext) \in Nat
           /\ k.sendQueue \in Seq(Waiting) /\ k.sendBuffer \in Seq(Flying)
           /\ k.recvBuffer \in Seq(Received) /\ k.recvQueue \in Seq(Fragment)
           /\ k.ackList \in Seq(SN) /\ k.remoteWindow \in Nat
           /\ \A i \in DOMAIN k.sendBuffer : /\ k.sendBuffer[i] \in Flying
                                             /\ k.sendBuffer[i].sn \in SN
                                             /\ Count(k.sendBuffer[i].sn) \in Nat
           /\ \A i \in DOMAIN k.recvBuffer : /\ k.recvBuffer[i] \in Received
                                             /\ k.recvBuffer[i].sn \in SN
                                             /\ Count(k.recvBuffer[i].sn) \in Nat
           /\ \A i \in DOMAIN k.ackList : k.ackList[i] \in SN /\ Count(k.ackList[i]) \in Nat
<1>1. /\ k.sendUNA \in SN /\ k.sendNext \in SN /\ k.recvNext \in SN
      /\ k.sendQueue \in Seq(Waiting) /\ k.sendBuffer \in Seq(Flying)
      /\ k.recvBuffer \in Seq(Received) /\ k.recvQueue \in Seq(Fragment)
      /\ k.ackList \in Seq(SN) /\ k.remoteWindow \in Nat
  BY DEF KcpRecord
<1>2. \A i \in DOMAIN k.sendBuffer : k.sendBuffer[i] \in Flying
  BY <1>1, ElementsIn
<1>3. \A i \in DOMAIN k.recvBuffer : k.recvBuffer[i] \in Received
  BY <1>1, ElementsIn
<1>4. \A i \in DOMAIN k.ackList : k.ackList[i] \in SN
  BY <1>1, ElementsIn
<1>5. /\ \A x \in Flying : x.sn \in SN
      /\ \A x \in Received : x.sn \in SN
  BY DEF Flying, Received
<1>6. /\ Count(k.sendUNA) \in Nat /\ Count(k.sendNext) \in Nat /\ Count(k.recvNext) \in Nat
  BY <1>1, CountNat
<1>7. /\ \A i \in DOMAIN k.sendBuffer : k.sendBuffer[i].sn \in SN
      /\ \A i \in DOMAIN k.recvBuffer : k.recvBuffer[i].sn \in SN
  BY <1>2, <1>3, <1>5
<1>8. /\ \A i \in DOMAIN k.sendBuffer : Count(k.sendBuffer[i].sn) \in Nat
      /\ \A i \in DOMAIN k.recvBuffer : Count(k.recvBuffer[i].sn) \in Nat
      /\ \A i \in DOMAIN k.ackList : Count(k.ackList[i]) \in Nat
  BY <1>4, <1>7, CountNat
<1> QED BY <1>1, <1>2, <1>3, <1>4, <1>6, <1>7, <1>8

\* How many segments there are in all.
LEMMA TotalIs ==
    ASSUME ShortTalk, NEW e \in End
    PROVE  /\ Total(e) \in Nat /\ 2 * (Total(e) + RecvWindow) <= SNMod
           /\ \A s \in 0 .. Len(Messages[e]) : Segments(e, s) \in Nat /\ Segments(e, s) <= Total(e)
<1>1. Len(Messages[e]) \in 0 .. Len(Messages[e])
  BY Consts
<1>2. Total(e) \in Nat /\ \A s \in 0 .. Len(Messages[e]) : Segments(e, s) \in Nat
  BY <1>1, SegmentsAre DEF Total
<1>3. \A s \in 0 .. Len(Messages[e]) : Segments(e, s) <= Total(e)
  <2>1. TAKE s \in 0 .. Len(Messages[e])
  <2>2. s <= Len(Messages[e])
    BY <1>1
  <2> QED BY <1>1, <2>2, SegmentsGrow DEF Total
<1> QED BY <1>2, <1>3 DEF ShortTalk

\* All that is numbered is within the numbers of the conversation.
LEMMA DiffNear ==
    ASSUME ShortTalk, NEW e \in End, NEW a \in SN, NEW b \in SN,
           Count(a) <= Total(e), Count(b) <= Total(e) + RecvWindow
    PROVE  Diff(a, b) = Count(a) - Count(b)
<1>1. PICK t \in Nat : t = Total(e)
  BY TotalIs
<1>2. PICK w \in Nat, m \in Nat : w = RecvWindow /\ m = SNMod /\ w > 0
  BY Consts
<1>3. PICK x \in Nat, y \in Nat : x = Count(a) /\ y = Count(b)
  BY CountNat
<1>4. 2 * (t + w) <= m
  BY <1>1, <1>2, TotalIs
<1>5. PICK d \in Int : d = x - y
  OBVIOUS
<1>6. x <= t /\ y <= t + w
  BY <1>1, <1>2, <1>3
<1>7. 2 * d < m /\ 2 * d >= -m
  BY <1>2, <1>4, <1>5, <1>6
<1>8. d = Count(a) - Count(b) /\ 2 * d < SNMod /\ 2 * d >= -SNMod
  BY <1>2, <1>3, <1>5, <1>7
<1> QED BY <1>8, DiffIs

\* What grows twice has grown.
LEMMA GrownAgain ==
    ASSUME NEW k1 \in KcpRecord, NEW k2 \in KcpRecord, NEW k3 \in KcpRecord,
           Grown(k1, k2), Grown(k2, k3)
    PROVE  Grown(k1, k3)
<1>1. /\ k1.recvNext \in SN /\ k2.recvNext \in SN /\ k3.recvNext \in SN
      /\ k1.sendNext \in SN /\ k2.sendNext \in SN /\ k3.sendNext \in SN
  BY DEF KcpRecord
<1>2. /\ Count(k1.recvNext) \in Nat /\ Count(k2.recvNext) \in Nat /\ Count(k3.recvNext) \in Nat
      /\ Count(k1.sendNext) \in Nat /\ Count(k2.sendNext) \in Nat /\ Count(k3.sendNext) \in Nat
  BY <1>1, CountNat
<1> QED BY <1>2 DEF Grown

\* An end that changes none of the sender's fields.
LEMMA SenderSame ==
    ASSUME NEW k, NEW k2, NEW e, NEW s, NEW o, SenderInv(e, k, s, o),
           k2.sendUNA = k.sendUNA, k2.sendNext = k.sendNext,
           k2.sendQueue = k.sendQueue, k2.sendBuffer = k.sendBuffer
    PROVE  SenderInv(e, k2, s, o)
<1>1. QueueInv(e, k2, s)
  BY DEF SenderInv, QueueInv
<1>2. BufferInv(e, k2)
  BY DEF SenderInv, BufferInv, Una
<1>3. FreedInv(k2, o)
  BY DEF SenderInv, FreedInv
<1> QED BY <1>1, <1>2, <1>3 DEF SenderInv

\* An end that changes none of the receiver's fields.
LEMMA ReceiverSame ==
    ASSUME NEW k, NEW k2, NEW e, NEW g, NEW top, ReceiverInv(e, k, g, top),
           k2.recvNext = k.recvNext, k2.recvBuffer = k.recvBuffer,
           k2.recvQueue = k.recvQueue,
           k2.ackList = k.ackList \/ k2.ackList = <<>>
    PROVE  ReceiverInv(e, k2, g, top)
<1>1. EarlyInv(e, k2, top)
  BY DEF ReceiverInv, EarlyInv
<1>2. NoneReady(k2)
  BY DEF ReceiverInv, NoneReady
<1>3. ReadInv(e, k2, g)
  BY DEF ReceiverInv, ReadInv
<1>4. \A i \in DOMAIN k2.ackList : HasSegment(k2, Count(k2.ackList[i]))
  BY DEF ReceiverInv, HasSegment
<1> QED BY <1>1, <1>2, <1>3, <1>4 DEF ReceiverInv

\* What keeps what it knows has grown.
LEMMA GrownSame ==
    ASSUME NEW k \in KcpRecord, NEW k2, k2.sendNext = k.sendNext,
           k2.recvNext = k.recvNext, k2.recvBuffer = k.recvBuffer
    PROVE  Grown(k, k2)
<1>1. k.recvNext \in SN /\ k.sendNext \in SN
  BY DEF KcpRecord
<1>2. Count(k.recvNext) \in Nat /\ Count(k.sendNext) \in Nat
  BY <1>1, CountNat
<1> QED BY <1>2 DEF Grown, HasSegment

\* What the other end has freed it may still free.
LEMMA SenderOfGrown ==
    ASSUME NEW k \in KcpRecord, NEW o \in KcpRecord, NEW o2 \in KcpRecord, NEW e, NEW s,
           SenderInv(e, k, s, o), Grown(o, o2), Count(o2.recvNext) <= Count(k.sendNext)
    PROVE  SenderInv(e, k, s, o2)
<1>1. Count(k.sendNext) \in Nat
  BY CountNat DEF KcpRecord
<1>2. \A n \in 0 .. Count(k.sendNext) - 1 : n \in Int
  BY <1>1
<1>3. FreedInv(k, o2)
  BY <1>2 DEF SenderInv, FreedInv, Grown
<1> QED BY <1>3 DEF SenderInv

\* A receiver may have what the sender numbers later.
LEMMA ReceiverOfGrown ==
    ASSUME NEW k \in KcpRecord, NEW e, NEW g, NEW top \in Nat, NEW top2 \in Nat,
           ReceiverInv(e, k, g, top), top <= top2
    PROVE  ReceiverInv(e, k, g, top2)
<1>2. Count(k.recvNext) \in Nat /\ \A i \in DOMAIN k.recvBuffer : Count(k.recvBuffer[i].sn) \in Nat
  BY PartsOf
<1>3. EarlyInv(e, k, top2)
  BY <1>2 DEF ReceiverInv, EarlyInv
<1> QED BY <1>2, <1>3 DEF ReceiverInv

\* What is under way stays true of an end that knows more.
LEMMA NetOfGrown ==
    ASSUME NEW k \in KcpRecord, NEW k2 \in KcpRecord, NEW e, NEW n, NetInv(e, k, n), Grown(k, k2)
    PROVE  NetInv(e, k2, n)
<1>1. ASSUME NEW seg, Says(e, seg, k) PROVE Says(e, seg, k2)
  <2>1. /\ k.recvNext \in SN /\ k.sendNext \in SN /\ k2.recvNext \in SN /\ k2.sendNext \in SN
        /\ seg.una \in SN
        /\ seg.cmd = "ACK" => seg.sn \in SN
        /\ seg.cmd = "PUSH" => seg.sn \in SN
    BY <1>1 DEF Says, NetSegment, KcpRecord
  <2>2. /\ Count(k.recvNext) \in Nat /\ Count(k.sendNext) \in Nat
        /\ Count(k2.recvNext) \in Nat /\ Count(k2.sendNext) \in Nat
        /\ Count(seg.una) \in Nat
        /\ seg.cmd = "ACK" => Count(seg.sn) \in Nat
        /\ seg.cmd = "PUSH" => Count(seg.sn) \in Nat
    BY <2>1, CountNat
  <2> QED BY <1>1, <2>2 DEF Says, Grown
<1> QED BY <1>1 DEF NetInv

\* A step of one end.
LEMMA EndStep ==
    ASSUME KcpInv, NEW e \in End, NEW k2 \in KcpRecord, NEW s2, NEW g2,
           kcp' = [kcp EXCEPT ![e] = k2], sent' = [sent EXCEPT ![e] = s2],
           DOMAIN got' = End, got'[e] = g2, \A d \in End : d # e => got'[d] = got[d],
           EndInv(e, k2, s2, g2, kcp[Peer(e)]), Grown(kcp[e], k2),
           DOMAIN net' = End, \A d \in End : net'[d] \in Seq(Seq(NetSegment)),
           NetInv(e, k2, net'[Peer(e)]), NetInv(Peer(e), kcp[Peer(e)], net'[e])
    PROVE  KcpInv'
<1> DEFINE p == Peer(e)
           o == kcp[p]
<1>1. p \in End /\ p # e /\ Peer(p) = e /\ \A d \in End : d = e \/ d = p
  BY PeerIs DEF End
<1>2. kcp[e] \in KcpRecord /\ o \in KcpRecord
  BY <1>1 DEF KcpInv
<1>3. kcp'[e] = k2 /\ kcp'[p] = o /\ sent'[e] = s2 /\ sent'[p] = sent[p]
      /\ got'[e] = g2 /\ got'[p] = got[p]
  BY <1>1 DEF KcpInv
<1>4. kcp' \in [End -> KcpRecord] /\ sent' \in [End -> Nat] /\ DOMAIN got' = End
  BY DEF KcpInv, EndInv
<1>5. SenderInv(e, k2, s2, o) /\ ReceiverInv(p, k2, g2, Count(o.sendNext))
  BY DEF EndInv
<1>6. SenderInv(p, o, sent[p], kcp[e]) /\ ReceiverInv(e, o, got[p], Count(kcp[e].sendNext))
  BY <1>1 DEF KcpInv
<1>7. SenderInv(p, o, sent[p], k2)
  <2>1. Count(k2.recvNext) <= Count(o.sendNext)
    BY <1>5 DEF ReceiverInv
  <2> QED BY <1>2, <1>6, <2>1, SenderOfGrown
<1>8. ReceiverInv(e, o, got[p], Count(k2.sendNext))
  <2>1. Count(kcp[e].sendNext) \in Nat /\ Count(k2.sendNext) \in Nat
    <3>1. kcp[e].sendNext \in SN /\ k2.sendNext \in SN
      BY <1>2 DEF KcpRecord
    <3> QED BY <3>1, CountNat
  <2>2. Count(kcp[e].sendNext) <= Count(k2.sendNext)
    BY DEF Grown
  <2> QED BY <1>2, <1>6, <2>1, <2>2, ReceiverOfGrown
<1> HIDE DEF p, o
<1>9. NetInv(e, k2, net'[p]) /\ NetInv(p, o, net'[e])
  BY DEF p, o
<1>10. ASSUME NEW d \in End
       PROVE  /\ SenderInv(d, kcp'[d], sent'[d], kcp'[Peer(d)])
              /\ ReceiverInv(d, kcp'[Peer(d)], got'[Peer(d)], Count(kcp'[d].sendNext))
              /\ NetInv(d, kcp'[d], net'[Peer(d)])
  <2>1. CASE d = e
    BY <1>1, <1>3, <1>5, <1>8, <1>9, <2>1 DEF p
  <2>2. CASE d = p
    BY <1>1, <1>3, <1>5, <1>7, <1>9, <2>2 DEF p
  <2> QED BY <1>1, <2>1, <2>2
<1> QED BY <1>4, <1>10 DEF KcpInv

-----------------------------------------------------------------------------
(* The receiver.                                                           *)

\* All that does not hang on what MoveReady() does.
EarlyEnd(e, k, g, top) ==
    /\ Count(k.recvNext) <= top /\ EarlyInv(e, k, top) /\ ReadInv(e, k, g)
    /\ \A i \in DOMAIN k.ackList : HasSegment(k, Count(k.ackList[i]))

\* The sender's fields are the same.
SameSender(k, k2) ==
    /\ k2.sendUNA = k.sendUNA /\ k2.sendNext = k.sendNext
    /\ k2.sendQueue = k.sendQueue /\ k2.sendBuffer = k.sendBuffer

\* The length of a sequence.
LEMMA LengthIs ==
    ASSUME NEW X, NEW s \in Seq(X)
    PROVE  Len(s) \in Nat /\ DOMAIN s = 1 .. Len(s) /\ (s = <<>> <=> Len(s) = 0)
  OBVIOUS

IsRest(r, s, n, l) ==
    /\ r = SubSeq(s, n + 1, l) /\ Len(r) = l - n /\ DOMAIN r = 1 .. l - n
    /\ \A i \in 1 .. l - n : r[i] = s[n + i] /\ n + i \in 1 .. l

IsJoin(r, s, t, l, n) ==
    /\ r = s \o t /\ Len(r) = l + n /\ DOMAIN r = 1 .. l + n
    /\ \A i \in 1 .. l : r[i] = s[i]
    /\ \A i \in 1 .. n : r[l + i] = t[i]

\* The elements of the rest of a sequence.
LEMMA RestIs ==
    ASSUME NEW X, NEW s \in Seq(X), NEW l \in Nat, l = Len(s), NEW n \in 0 .. l
    PROVE  \E r \in Seq(X) : IsRest(r, s, n, l)
<1>1. n + 1 \in Int /\ l \in Int
  OBVIOUS
<1>2. \A i \in n + 1 .. l : s[i] \in X
  OBVIOUS
<1>3. /\ SubSeq(s, n + 1, l) \in Seq(X)
      /\ Len(SubSeq(s, n + 1, l)) = IF n + 1 <= l THEN l - (n + 1) + 1 ELSE 0
      /\ \A i \in 1 .. l - (n + 1) + 1 : SubSeq(s, n + 1, l)[i] = s[(n + 1) + i - 1]
  BY <1>1, <1>2, SubSeqProperties
<1>4. PICK r \in Seq(X) : r = SubSeq(s, n + 1, l)
  BY <1>3
<1>5. Len(r) = l - n
  BY <1>3, <1>4
<1>6. \A i \in 1 .. l - n : r[i] = s[n + i]
  <2>1. TAKE i \in 1 .. l - n
  <2>2. i \in 1 .. l - (n + 1) + 1 /\ (n + 1) + i - 1 = n + i
    OBVIOUS
  <2> QED BY <1>3, <1>4, <2>2
<1>7. DOMAIN r = 1 .. l - n
  BY <1>5
<1>8. \A i \in 1 .. l - n : n + i \in 1 .. l
  OBVIOUS
<1>9. IsRest(r, s, n, l)
  BY <1>4, <1>5, <1>6, <1>7, <1>8 DEF IsRest
<1> QED BY <1>9

\* The elements of two sequences that are joined.
LEMMA JoinIs ==
    ASSUME NEW X, NEW s \in Seq(X), NEW t \in Seq(X), NEW l \in Nat, l = Len(s),
           NEW n \in Nat, n = Len(t)
    PROVE  \E r \in Seq(X) : IsJoin(r, s, t, l, n)
<1>1. /\ s \o t \in Seq(X) /\ Len(s \o t) = Len(s) + Len(t)
      /\ \A i \in 1 .. Len(s) + Len(t) :
            (s \o t)[i] = IF i <= Len(s) THEN s[i] ELSE t[i - Len(s)]
  BY ConcatProperties
<1>2. PICK r \in Seq(X) : r = s \o t
  BY <1>1
<1>3. Len(r) = l + n /\ \A i \in 1 .. l + n : r[i] = IF i <= l THEN s[i] ELSE t[i - l]
  BY <1>1, <1>2
<1>4. \A i \in 1 .. l : r[i] = s[i]
  BY <1>3
<1>5. \A i \in 1 .. n : r[l + i] = t[i]
  <2>1. TAKE i \in 1 .. n
  <2>2. l + i \in 1 .. l + n /\ ~(l + i <= l) /\ (l + i) - l = i
    OBVIOUS
  <2> QED BY <1>3, <2>2
<1>6. DOMAIN r = 1 .. l + n
  BY <1>3
<1>7. IsJoin(r, s, t, l, n)
  BY <1>2, <1>3, <1>4, <1>5, <1>6 DEF IsJoin
<1> QED BY <1>7

\* What is ready has the numbers from recvNext on.
LEMMA ReadyIs ==
    ASSUME ShortTalk, NEW e \in End, NEW k \in KcpRecord, NEW g, NEW top \in Nat, top <= Total(e),
           EarlyEnd(e, k, g, top)
    PROVE  /\ Ready(k) \in 0 .. Len(k.recvBuffer)
           /\ Len(k.recvQueue) + Ready(k) <= RecvWindow
           /\ \A i \in 1 .. Ready(k) : Count(k.recvBuffer[i].sn) = Count(k.recvNext) + i - 1
           /\ Count(k.recvNext) + Ready(k) <= top
           /\ Ready(k) < Len(k.recvBuffer)
                /\ k.recvBuffer[Ready(k) + 1].sn = Plus(k.recvNext, Ready(k))
              => Len(k.recvQueue) + Ready(k) >= RecvWindow
           /\ Plus(k.recvNext, Ready(k)) \in SN
           /\ Count(Plus(k.recvNext, Ready(k))) = Count(k.recvNext) + Ready(k)
<1> DEFINE b == k.recvBuffer
           S == {i \in DOMAIN b : b[i].sn = Plus(k.recvNext, i - 1)
                                  /\ i <= RecvWindow - Len(k.recvQueue)}
<1>0. PICK n : n = Ready(k)
  OBVIOUS
<1>1. b \in Seq(Received) /\ Len(b) \in Nat /\ DOMAIN b = 1 .. Len(b) /\ k.recvNext \in SN
  BY PartsOf
<1>2. n \in 0 .. Len(b) /\ (\A i \in 1 .. n : i \in S) /\ (n < Len(b) => n + 1 \notin S)
  <2>1. n = Run(b, S)
    BY <1>0 DEF Ready
  <2> HIDE DEF b, S
  <2> QED BY <1>1, <2>1, RunIs
<1>a. /\ RecvWindow \in Nat /\ Len(k.recvQueue) \in Nat /\ SNMod \in Nat
      /\ Count(k.recvNext) \in Nat /\ Total(e) \in Nat
  <2>1. k.recvQueue \in Seq(Fragment)
    BY PartsOf
  <2> QED BY <2>1, Consts, PartsOf, TotalIs, LengthIs
<1>3. PICK w \in Nat, q \in Nat, m \in Nat, rn \in Nat, t \in Nat :
         /\ w = RecvWindow /\ q = Len(k.recvQueue) /\ m = SNMod /\ rn = Count(k.recvNext)
         /\ t = Total(e)
  BY <1>a
<1>4. q <= w /\ rn <= top /\ top <= t /\ 2 * (t + w) <= m /\ w > 0
  BY <1>3, TotalIs, Consts DEF EarlyEnd, ReadInv
<1>5. \A i \in 1 .. n : b[i].sn = Plus(k.recvNext, i - 1) /\ i <= w - q
  BY <1>2, <1>3
<1>6. q + n <= w
  BY <1>2, <1>4, <1>5
<1>7. \A i \in 0 .. n : Plus(k.recvNext, i) \in SN /\ Count(Plus(k.recvNext, i)) = rn + i
  <2>1. TAKE i \in 0 .. n
  <2>2. i \in Nat /\ rn + i < m
    BY <1>2, <1>4, <1>6
  <2>3. i \in Nat /\ Count(k.recvNext) + i < SNMod
    BY <1>3, <2>2
  <2> QED BY <1>1, <1>3, <2>3, PlusIs
<1>8. \A i \in 1 .. n : Count(b[i].sn) = rn + i - 1
  <2>1. TAKE i \in 1 .. n
  <2>2. i - 1 \in 0 .. n /\ rn + (i - 1) = rn + i - 1
    BY <1>2
  <2> QED BY <1>5, <1>7, <2>2
<1>9. rn + n <= top
  <2>1. CASE n = 0
    BY <1>4, <2>1
  <2>2. CASE n # 0
    <3>1. n \in 1 .. n /\ n \in DOMAIN b
      BY <1>1, <1>2, <2>2
    <3>2. Count(b[n].sn) < top
      BY <3>1 DEF EarlyEnd, EarlyInv
    <3>3. rn + n - 1 < top
      BY <1>8, <3>1, <3>2
    <3> QED BY <1>2, <3>3
  <2> QED BY <2>1, <2>2
<1>10. n < Len(b) /\ b[n + 1].sn = Plus(k.recvNext, n) => q + n >= w
  <2>1. SUFFICES ASSUME n < Len(b), b[n + 1].sn = Plus(k.recvNext, n) PROVE q + n >= w
    OBVIOUS
  <2>2. n + 1 \in DOMAIN b /\ (n + 1) - 1 = n
    BY <1>1, <1>2, <2>1
  <2>3. ~(n + 1 <= w - q)
    BY <1>2, <1>3, <2>1, <2>2
  <2> QED BY <1>2, <2>3
<1>b. Len(b) \in Nat
  BY <1>1
<1>11. n \in 0 .. n
  <2> HIDE DEF b
  <2> QED BY <1>2, <1>b
<1> QED BY <1>0, <1>2, <1>3, <1>6, <1>7, <1>8, <1>9, <1>10, <1>11

\* MoveReady keeps the receiver in order and has it know more.
LEMMA MoveReadyKeeps ==
    ASSUME ShortTalk, NEW e \in End, NEW k \in KcpRecord, NEW g, NEW top \in Nat, top <= Total(e),
           EarlyEnd(e, k, g, top)
    PROVE  /\ MoveReady(k) \in KcpRecord
           /\ ReceiverInv(e, MoveReady(k), g, top)
           /\ Grown(k, MoveReady(k))
           /\ SameSender(k, MoveReady(k)) /\ MoveReady(k).ackList = k.ackList
<1>1. PICK b \in Seq(Received), q \in Seq(Fragment) : b = k.recvBuffer /\ q = k.recvQueue
  BY PartsOf
<1>2. \A i \in DOMAIN b : b[i] \in Received /\ Count(b[i].sn) \in Nat
  BY <1>1, PartsOf
<1>a. Ready(k) \in 0 .. Len(b) /\ Len(b) \in Nat /\ Len(q) \in Nat /\ Count(k.recvNext) \in Nat
      /\ RecvWindow \in Nat
  BY <1>1, ReadyIs, PartsOf, LengthIs, Consts
<1>11. PICK rn \in Nat, lb \in Nat, lq \in Nat, w \in Nat, nn \in Nat :
         /\ rn = Count(k.recvNext) /\ lb = Len(b) /\ lq = Len(q) /\ w = RecvWindow /\ nn = Ready(k)
  BY <1>a
<1>3. DOMAIN b = 1 .. lb /\ DOMAIN q = 1 .. lq /\ nn \in 0 .. lb
  BY <1>a, <1>11, LengthIs
<1>8. PICK sn \in SN : sn = Plus(k.recvNext, nn)
  BY <1>11, ReadyIs
<1>12. /\ lq + nn <= w
       /\ \A i \in 1 .. nn : Count(b[i].sn) = rn + i - 1
       /\ rn + nn <= top
       /\ nn < lb /\ b[nn + 1].sn = sn => lq + nn >= w
       /\ Count(sn) = rn + nn
  BY <1>1, <1>11, <1>8, ReadyIs
<1>4. PICK new \in Seq(Fragment) :
         /\ new = [i \in 1 .. nn |-> [frg |-> b[i].frg, data |-> b[i].data]]
         /\ Len(new) = nn
         /\ \A i \in 1 .. nn : new[i].frg = b[i].frg /\ new[i].data = b[i].data
  <2> DEFINE f == [i \in 1 .. nn |-> [frg |-> b[i].frg, data |-> b[i].data]]
  <2>1. \A x \in Received : [frg |-> x.frg, data |-> x.data] \in Fragment
    BY DEF Received, Fragment
  <2>2. \A i \in 1 .. nn : b[i] \in Received
    BY <1>2, <1>3
  <2>3. f \in [1 .. nn -> Fragment]
    BY <2>1, <2>2
  <2>4. \A i \in 1 .. nn : f[i].frg = b[i].frg /\ f[i].data = b[i].data
    OBVIOUS
  <2>5. f \in Seq(Fragment) /\ Len(f) = nn
    <3> HIDE DEF f
    <3> QED BY <2>3
  <2> QED BY <2>4, <2>5
<1>5. PICK b2 \in Seq(Received) :
         /\ b2 = SubSeq(b, nn + 1, lb) /\ Len(b2) = lb - nn /\ DOMAIN b2 = 1 .. lb - nn
         /\ \A i \in 1 .. lb - nn : b2[i] = b[nn + i] /\ nn + i \in 1 .. lb
  <2>1. lb = Len(b)
    BY <1>11
  <2>2. PICK b2 \in Seq(Received) : IsRest(b2, b, nn, lb)
    BY <1>3, <2>1, RestIs
  <2> QED BY <2>2 DEF IsRest
<1>7. PICK q2 \in Seq(Fragment) :
         /\ q2 = q \o new /\ Len(q2) = lq + nn /\ DOMAIN q2 = 1 .. lq + nn
         /\ \A i \in 1 .. lq : q2[i] = q[i]
         /\ \A i \in 1 .. nn : q2[lq + i] = new[i]
  <2>1. lq = Len(q) /\ nn = Len(new)
    BY <1>4, <1>11
  <2>2. PICK q2 \in Seq(Fragment) : IsJoin(q2, q, new, lq, nn)
    BY <2>1, JoinIs
  <2> QED BY <2>2 DEF IsJoin
<1>6. PICK k2 : k2 = MoveReady(k)
  OBVIOUS
<1>0. k2 = [k EXCEPT !.recvQueue = q2, !.recvBuffer = b2, !.recvNext = sn]
  BY <1>1, <1>4, <1>5, <1>6, <1>7, <1>8, <1>11 DEF MoveReady
<1>10. k2 \in KcpRecord
  BY <1>0 DEF KcpRecord
<1>9. /\ k2.recvQueue = q2 /\ k2.recvBuffer = b2 /\ k2.recvNext = sn
      /\ k2.ackList = k.ackList /\ SameSender(k, k2)
  BY <1>0 DEF KcpRecord, SameSender
<1>13. EarlyInv(e, k2, top)
  <2>1. /\ \A i \in DOMAIN b : /\ rn <= Count(b[i].sn) /\ Count(b[i].sn) < rn + w
                               /\ Count(b[i].sn) < top /\ IsItem(e, Count(b[i].sn), b[i])
        /\ \A i, j \in DOMAIN b : i < j => Count(b[i].sn) < Count(b[j].sn)
    BY <1>1, <1>11 DEF EarlyEnd, EarlyInv
  <2>2. ASSUME NEW i \in DOMAIN b2
        PROVE  /\ rn + nn <= Count(b2[i].sn) /\ Count(b2[i].sn) < rn + nn + w
               /\ Count(b2[i].sn) < top /\ IsItem(e, Count(b2[i].sn), b2[i])
    <3>1. b2[i] = b[nn + i] /\ nn + i \in DOMAIN b /\ nn < nn + i
      BY <1>3, <1>5
    <3>2. PICK c \in Nat : c = Count(b[nn + i].sn)
      BY <1>2, <3>1
    <3>3. rn <= c /\ c < rn + w /\ c < top /\ IsItem(e, c, b[nn + i])
      BY <2>1, <3>1, <3>2
    <3>4. rn + nn <= c
      <4>1. CASE nn = 0
        BY <3>3, <4>1
      <4>2. CASE nn # 0
        <5>1. nn \in DOMAIN b /\ nn \in 1 .. nn
          BY <1>3, <4>2
        <5>2. Count(b[nn].sn) = rn + nn - 1
          BY <1>12, <5>1
        <5>3. Count(b[nn].sn) < c
          BY <2>1, <3>1, <3>2, <5>1
        <5> QED BY <5>2, <5>3
      <4> QED BY <4>1, <4>2
    <3> QED BY <3>1, <3>2, <3>3, <3>4
  <2>3. ASSUME NEW i \in DOMAIN b2, NEW j \in DOMAIN b2, i < j
        PROVE  Count(b2[i].sn) < Count(b2[j].sn)
    <3>a. i \in 1 .. lb - nn /\ j \in 1 .. lb - nn
      BY <1>5
    <3>1. b2[i] = b[nn + i] /\ nn + i \in DOMAIN b /\ b2[j] = b[nn + j] /\ nn + j \in DOMAIN b
      BY <1>3, <1>5, <3>a
    <3>b. nn + i < nn + j
      BY <2>3, <3>a
    <3> QED BY <2>1, <3>1, <3>b
  <2> QED BY <1>9, <1>11, <1>12, <2>2, <2>3 DEF EarlyInv
<1>14. NoneReady(k2)
  <2>1. SUFFICES ASSUME b2 # <<>>, b2[1].sn = sn PROVE Len(q2) >= RecvWindow
    BY <1>9 DEF NoneReady
  <2>2. Len(b2) # 0
    BY <1>5, <2>1
  <2>3. nn < lb /\ b2[1] = b[nn + 1]
    BY <1>3, <1>5, <2>2
  <2> QED BY <1>7, <1>11, <1>12, <2>1, <2>3
<1>15. ReadInv(e, k2, g)
  <2>1. /\ g \in Seq(Seq(Nat \X Nat)) /\ Len(g) \in 0 .. Len(Messages[e])
        /\ Segments(e, Len(g)) = rn - lq
        /\ \A m \in DOMAIN g : g[m] = Message(e, m)
        /\ \A i \in DOMAIN q : IsItem(e, rn - lq + i - 1, q[i])
    BY <1>1, <1>11 DEF EarlyEnd, ReadInv
  <2>2. Len(q2) <= RecvWindow /\ Count(sn) - Len(q2) = rn - lq
    BY <1>7, <1>11, <1>12
  <2>3. ASSUME NEW i \in DOMAIN q2 PROVE IsItem(e, rn - lq + i - 1, q2[i])
    <3>1. CASE i \in 1 .. lq
      <4>1. q2[i] = q[i] /\ i \in DOMAIN q
        BY <1>3, <1>7, <3>1
      <4> QED BY <2>1, <4>1
    <3>2. CASE i \notin 1 .. lq
      <4>1. i - lq \in 1 .. nn /\ lq + (i - lq) = i
        BY <1>7, <3>2
      <4>2. PICK j \in 1 .. nn : j = i - lq /\ lq + j = i
        BY <4>1
      <4>3. q2[i].frg = b[j].frg /\ q2[i].data = b[j].data /\ j \in DOMAIN b
        BY <1>3, <1>4, <1>7, <4>2
      <4>4. Count(b[j].sn) = rn + j - 1
        BY <1>12, <4>2
      <4>5. IsItem(e, rn + j - 1, b[j])
        BY <1>1, <4>3, <4>4 DEF EarlyEnd, EarlyInv
      <4>6. rn + j - 1 = rn - lq + i - 1
        BY <4>2
      <4> QED BY <4>3, <4>5, <4>6 DEF IsItem
    <3> QED BY <3>1, <3>2
  <2> QED BY <1>9, <2>1, <2>2, <2>3 DEF ReadInv
<1>16. \A m \in Int : HasSegment(k, m) => HasSegment(k2, m)
  <2>1. SUFFICES ASSUME NEW m \in Int, HasSegment(k, m)
                 PROVE  m < rn + nn \/ \E i \in DOMAIN b2 : Count(b2[i].sn) = m
    BY <1>9, <1>12 DEF HasSegment
  <2>2. CASE m < rn
    BY <2>2
  <2>3. CASE ~(m < rn)
    <3>1. PICK i \in DOMAIN b : Count(b[i].sn) = m
      BY <1>1, <1>11, <2>1, <2>3 DEF HasSegment
    <3>2. CASE i <= nn
      <4>1. m = rn + i - 1 /\ i \in 1 .. nn
        BY <1>3, <1>12, <3>1, <3>2
      <4> QED BY <4>1
    <3>3. CASE ~(i <= nn)
      <4>1. i - nn \in 1 .. lb - nn /\ nn + (i - nn) = i
        BY <1>3, <3>1, <3>3
      <4>2. i - nn \in DOMAIN b2 /\ b2[i - nn] = b[i]
        BY <1>5, <4>1
      <4> QED BY <3>1, <4>2
    <3> QED BY <3>2, <3>3
  <2> QED BY <2>2, <2>3
<1>17. Grown(k, k2)
  <2>1. Count(k.sendNext) \in Nat /\ k2.sendNext = k.sendNext
    BY <1>9, PartsOf DEF SameSender
  <2> QED BY <1>9, <1>11, <1>12, <1>16, <2>1 DEF Grown
<1>18. \A i \in DOMAIN k2.ackList : HasSegment(k2, Count(k2.ackList[i]))
  <2>1. TAKE i \in DOMAIN k2.ackList
  <2>2. HasSegment(k, Count(k.ackList[i])) /\ Count(k.ackList[i]) \in Nat
    BY <1>9, PartsOf DEF EarlyEnd
  <2> QED BY <1>9, <1>16, <2>2
<1>19. Count(k2.recvNext) <= top
  BY <1>9, <1>12
<1> QED BY <1>6, <1>9, <1>10, <1>13, <1>14, <1>15, <1>17, <1>18, <1>19 DEF ReceiverInv

IsInsert(r, s, i, x, l) ==
    /\ r = InsertAt(s, i + 1, x) /\ Len(r) = l + 1 /\ DOMAIN r = 1 .. l + 1
    /\ r[i + 1] = x
    /\ \A j \in 1 .. i : r[j] = s[j]
    /\ \A j \in i + 1 .. l : r[j + 1] = s[j]

\* The elements of a sequence with one more in it.
LEMMA InsertIs ==
    ASSUME NEW X, NEW s \in Seq(X), NEW l \in Nat, l = Len(s), NEW i \in 0 .. l, NEW x \in X
    PROVE  \E r \in Seq(X) : IsInsert(r, s, i, x, l)
<1>1. PICK a \in Seq(X) : a = SubSeq(s, 1, i) /\ Len(a) = i /\ \A j \in 1 .. i : a[j] = s[j]
  <2>1. 1 \in Int /\ i \in Int /\ \A j \in 1 .. i : s[j] \in X
    OBVIOUS
  <2>2. /\ SubSeq(s, 1, i) \in Seq(X)
        /\ Len(SubSeq(s, 1, i)) = IF 1 <= i THEN i - 1 + 1 ELSE 0
        /\ \A j \in 1 .. i - 1 + 1 : SubSeq(s, 1, i)[j] = s[1 + j - 1]
    BY <2>1, SubSeqProperties
  <2>3. PICK a \in Seq(X) : a = SubSeq(s, 1, i)
    BY <2>2
  <2>4. Len(a) = i
    BY <2>2, <2>3
  <2>5. \A j \in 1 .. i : a[j] = s[j]
    <3>1. TAKE j \in 1 .. i
    <3>2. j \in 1 .. i - 1 + 1 /\ 1 + j - 1 = j
      OBVIOUS
    <3> QED BY <2>2, <2>3, <3>2
  <2> QED BY <2>3, <2>4, <2>5
<1>2. PICK c \in Seq(X) : IsRest(c, s, i, l)
  BY RestIs
<1>3. << x >> \in Seq(X) /\ Len(<< x >>) = 1 /\ << x >>[1] = x
  OBVIOUS
<1>4. PICK d \in Seq(X) : IsJoin(d, a, << x >>, i, 1)
  <2>1. i = Len(a) /\ 1 = Len(<< x >>) /\ i \in Nat
    BY <1>1, <1>3
  <2> QED BY <1>3, <2>1, JoinIs
<1>5. PICK r \in Seq(X) : IsJoin(r, d, c, i + 1, l - i)
  <2>1. i + 1 = Len(d) /\ l - i = Len(c) /\ i + 1 \in Nat /\ l - i \in Nat
    BY <1>2, <1>4 DEF IsJoin, IsRest
  <2> QED BY <2>1, JoinIs
<1>6. r = InsertAt(s, i + 1, x)
  <2>1. (i + 1) - 1 = i
    OBVIOUS
  <2>2. r = (SubSeq(s, 1, (i + 1) - 1) \o << x >>) \o SubSeq(s, i + 1, Len(s))
    BY <1>1, <1>2, <1>4, <1>5, <2>1 DEF IsJoin, IsRest
  <2> QED BY <2>2 DEF InsertAt
<1>7. Len(r) = l + 1 /\ DOMAIN r = 1 .. l + 1
  <2>1. (i + 1) + (l - i) = l + 1
    OBVIOUS
  <2> QED BY <1>5, <2>1 DEF IsJoin
<1>8. d[i + 1] = x /\ \A j \in 1 .. i : d[j] = s[j]
  <2>1. d[i + 1] = << x >>[1]
    BY <1>4 DEF IsJoin
  <2> QED BY <1>1, <1>3, <1>4, <2>1 DEF IsJoin
<1>9. r[i + 1] = x /\ \A j \in 1 .. i : r[j] = s[j]
  <2>1. \A j \in 1 .. i + 1 : r[j] = d[j]
    BY <1>5 DEF IsJoin
  <2>2. i + 1 \in 1 .. i + 1 /\ \A j \in 1 .. i : j \in 1 .. i + 1
    OBVIOUS
  <2> QED BY <1>8, <2>1, <2>2
<1>10. \A j \in i + 1 .. l : r[j + 1] = s[j]
  <2>1. TAKE j \in i + 1 .. l
  <2>2. PICK m \in 1 .. l - i : m = j - i
    OBVIOUS
  <2>3. j + 1 = (i + 1) + m /\ i + m = j
    BY <2>2
  <2>4. r[(i + 1) + m] = c[m]
    BY <1>5, <2>2 DEF IsJoin
  <2>5. c[m] = s[i + m]
    BY <1>2, <2>2 DEF IsRest
  <2> QED BY <2>3, <2>4, <2>5
<1> QED BY <1>6, <1>7, <1>9, <1>10 DEF IsInsert

\* A segment that lies in the window and has not come yet.
LEMMA InsertKeeps ==
    ASSUME ShortTalk, NEW e \in End, NEW k \in KcpRecord, NEW top \in Nat, top <= Total(e),
           EarlyInv(e, k, top),
           NEW seg, seg.sn \in SN, seg.frg \in Int, seg.data \in Nat \X Nat,
           Count(k.recvNext) <= Count(seg.sn), Count(seg.sn) < Count(k.recvNext) + RecvWindow,
           Count(seg.sn) < top, IsItem(e, Count(seg.sn), seg),
           \A i \in DOMAIN k.recvBuffer : k.recvBuffer[i].sn # seg.sn
    PROVE  /\ Insert(k, seg) \in KcpRecord
           /\ EarlyInv(e, Insert(k, seg), top)
           /\ SameSender(k, Insert(k, seg))
           /\ Insert(k, seg).recvNext = k.recvNext /\ Insert(k, seg).recvQueue = k.recvQueue
           /\ Insert(k, seg).ackList = k.ackList
           /\ \A n \in Int : HasSegment(k, n) => HasSegment(Insert(k, seg), n)
           /\ HasSegment(Insert(k, seg), Count(seg.sn))
<1>1. PICK b \in Seq(Received), x \in Received :
         b = k.recvBuffer /\ x = [sn |-> seg.sn, frg |-> seg.frg, data |-> seg.data]
  <2>1. [sn |-> seg.sn, frg |-> seg.frg, data |-> seg.data] \in Received
    BY DEF Received
  <2> QED BY <2>1, PartsOf
<1>2. x.sn = seg.sn /\ x.frg = seg.frg /\ x.data = seg.data
  BY <1>1
<1>3. \A i \in DOMAIN b : b[i].sn \in SN /\ Count(b[i].sn) \in Nat
  BY <1>1, PartsOf
<1>4. PICK lb \in Nat : lb = Len(b) /\ DOMAIN b = 1 .. lb
  BY LengthIs
<1>5. PICK c \in Nat : c = Count(seg.sn)
  BY CountNat
<1> DEFINE S == {i \in DOMAIN b : Diff(seg.sn, b[i].sn) > 0}
<1>6. PICK m : m = Run(b, S)
  OBVIOUS
<1>7. m \in 0 .. lb /\ (\A i \in 1 .. m : i \in S) /\ (m < lb => m + 1 \notin S)
  <2> HIDE DEF S
  <2> QED BY <1>4, <1>6, RunIs
<1>8. PICK b2 \in Seq(Received) : IsInsert(b2, b, m, x, lb)
  <2>1. lb = Len(b)
    BY <1>4
  <2> QED BY <1>7, <2>1, InsertIs
<1>9. PICK k2 : k2 = Insert(k, seg)
  OBVIOUS
<1>10. k2 = [k EXCEPT !.recvBuffer = b2]
  BY <1>1, <1>6, <1>8, <1>9 DEF Insert, IsInsert
<1>11. /\ k2 \in KcpRecord /\ SameSender(k, k2) /\ k2.recvNext = k.recvNext
       /\ k2.recvQueue = k.recvQueue /\ k2.ackList = k.ackList /\ k2.recvBuffer = b2
  BY <1>10 DEF KcpRecord, SameSender
<1>12. /\ Len(b2) = lb + 1 /\ DOMAIN b2 = 1 .. lb + 1 /\ b2[m + 1] = x
       /\ \A j \in 1 .. m : b2[j] = b[j]
       /\ \A j \in m + 1 .. lb : b2[j + 1] = b[j]
  BY <1>8 DEF IsInsert
<1>13. /\ \A i \in DOMAIN b : /\ Count(k.recvNext) <= Count(b[i].sn)
                              /\ Count(b[i].sn) < Count(k.recvNext) + RecvWindow
                              /\ Count(b[i].sn) < top /\ IsItem(e, Count(b[i].sn), b[i])
       /\ \A i, j \in DOMAIN b : i < j => Count(b[i].sn) < Count(b[j].sn)
  BY <1>1 DEF EarlyInv
<1>14. \A i \in DOMAIN b : Diff(seg.sn, b[i].sn) = c - Count(b[i].sn)
  <2>1. TAKE i \in DOMAIN b
  <2>2. Count(b[i].sn) < top /\ b[i].sn \in SN /\ Count(b[i].sn) \in Nat
    BY <1>3, <1>13
  <2>3. Total(e) \in Nat /\ RecvWindow \in Nat
    BY TotalIs, Consts
  <2>4. Count(seg.sn) <= Total(e) /\ Count(b[i].sn) <= Total(e) + RecvWindow
    BY <1>5, <2>2, <2>3
  <2> QED BY <1>5, <2>2, <2>4, DiffNear
<1>15. \A i \in 1 .. m : i \in DOMAIN b /\ Count(b[i].sn) < c
  <2>1. TAKE i \in 1 .. m
  <2>2. i \in DOMAIN b /\ Diff(seg.sn, b[i].sn) > 0
    BY <1>7
  <2> QED BY <1>3, <1>14, <2>2
<1>16. \A i \in m + 1 .. lb : c < Count(b[i].sn)
  <2>1. TAKE i \in m + 1 .. lb
  <2>2. i \in DOMAIN b /\ m + 1 \in DOMAIN b /\ m < lb
    BY <1>4, <1>7
  <2>3. ~(Diff(seg.sn, b[m + 1].sn) > 0)
    BY <1>7, <2>2
  <2>4. PICK d \in Nat : d = Count(b[m + 1].sn)
    BY <1>3, <2>2
  <2>5. c <= d
    BY <1>14, <2>2, <2>3, <2>4
  <2>6. c # d
    BY <1>1, <1>3, <1>5, <2>2, <2>4, CountOnce
  <2>7. CASE i = m + 1
    BY <2>4, <2>5, <2>6, <2>7
  <2>8. CASE i # m + 1
    <3>1. m + 1 < i
      BY <1>7, <2>8
    <3>2. d < Count(b[i].sn) /\ Count(b[i].sn) \in Nat
      BY <1>3, <1>13, <2>2, <2>4, <3>1
    <3> QED BY <2>5, <3>2
  <2> QED BY <2>7, <2>8
\* Where an element of the new sequence comes from.
<1>17. \A j \in DOMAIN b2 : \/ j <= m /\ j \in DOMAIN b /\ b2[j] = b[j]
                            \/ j = m + 1 /\ b2[j] = x
                            \/ j > m + 1 /\ j - 1 \in DOMAIN b /\ j - 1 \in m + 1 .. lb
                               /\ b2[j] = b[j - 1]
  <2>1. TAKE j \in DOMAIN b2
  <2>2. CASE j <= m
    BY <1>4, <1>7, <1>12, <2>2
  <2>3. CASE j = m + 1
    BY <1>12, <2>3
  <2>4. CASE j > m + 1
    <3>0. j \in Nat /\ j <= lb + 1 /\ m \in Nat
      BY <1>7, <1>12
    <3>1. PICK i \in m + 1 .. lb : i = j - 1 /\ j = i + 1
      <4>1. j - 1 \in m + 1 .. lb /\ j = (j - 1) + 1
        BY <2>4, <3>0
      <4> QED BY <4>1
    <3> QED BY <1>4, <1>7, <1>12, <2>4, <3>1
  <2> QED BY <1>7, <1>12, <2>2, <2>3, <2>4
<1>18. EarlyInv(e, k2, top)
  <2>1. ASSUME NEW j \in DOMAIN b2
        PROVE  /\ Count(k.recvNext) <= Count(b2[j].sn)
               /\ Count(b2[j].sn) < Count(k.recvNext) + RecvWindow
               /\ Count(b2[j].sn) < top /\ IsItem(e, Count(b2[j].sn), b2[j])
    <3>1. CASE j <= m
      <4>1. j \in DOMAIN b /\ b2[j] = b[j]
        BY <1>7, <1>12, <1>17, <3>1
      <4> QED BY <1>13, <4>1
    <3>2. CASE j = m + 1
      BY <1>2, <1>12, <3>2 DEF IsItem
    <3>3. CASE j > m + 1
      BY <1>7, <1>13, <1>17, <3>3
    <3> QED BY <1>7, <1>12, <3>1, <3>2, <3>3
  <2>2. ASSUME NEW i \in DOMAIN b2, NEW j \in DOMAIN b2, i < j
        PROVE  Count(b2[i].sn) < Count(b2[j].sn)
    <3>1. i \in Nat /\ j \in Nat /\ m \in Nat
      BY <1>7, <1>12
    <3>2. CASE j <= m
      <4>1. b2[j] = b[j] /\ j \in DOMAIN b /\ i <= m /\ b2[i] = b[i] /\ i \in DOMAIN b
        BY <1>17, <2>2, <3>1, <3>2
      <4> QED BY <1>13, <2>2, <4>1
    <3>3. CASE j = m + 1
      <4>1. i <= m /\ i \in 1 .. m /\ b2[i] = b[i]
        BY <1>12, <1>17, <2>2, <3>1, <3>3
      <4> QED BY <1>2, <1>5, <1>12, <1>15, <3>3, <4>1
    <3>4. CASE j > m + 1
      <4>1. j - 1 \in DOMAIN b /\ j - 1 \in m + 1 .. lb /\ b2[j] = b[j - 1]
        BY <1>17, <3>1, <3>4
      <4>2. PICK y \in Nat : y = Count(b[j - 1].sn)
        BY <1>3, <4>1
      <4>3. c < y
        BY <1>16, <4>1, <4>2
      <4>4. CASE i <= m
        <5>1. i \in 1 .. m /\ b2[i] = b[i]
          BY <1>12, <1>17, <3>1, <4>4
        <5>2. Count(b[i].sn) < c /\ Count(b[i].sn) \in Nat
          BY <1>3, <1>15, <5>1
        <5> QED BY <4>1, <4>2, <4>3, <5>1, <5>2
      <4>5. CASE i = m + 1
        BY <1>2, <1>5, <1>12, <4>1, <4>2, <4>3, <4>5
      <4>6. CASE i > m + 1
        <5>1. i - 1 \in DOMAIN b /\ b2[i] = b[i - 1] /\ i - 1 < j - 1
          BY <1>17, <2>2, <3>1, <4>6
        <5> QED BY <1>13, <4>1, <5>1
      <4> QED BY <3>1, <4>4, <4>5, <4>6
    <3> QED BY <3>1, <3>2, <3>3, <3>4
  <2> QED BY <1>11, <2>1, <2>2 DEF EarlyInv
<1>19. ASSUME NEW n \in Int, HasSegment(k, n) PROVE HasSegment(k2, n)
  <2>1. CASE n < Count(k.recvNext)
    BY <1>11, <2>1 DEF HasSegment
  <2>2. CASE ~(n < Count(k.recvNext))
    <3>1. PICK i \in DOMAIN b : Count(b[i].sn) = n
      BY <1>1, <1>19, <2>2 DEF HasSegment
    <3>2. CASE i <= m
      <4>1. i \in DOMAIN b2 /\ b2[i] = b[i]
        BY <1>4, <1>12, <3>2
      <4> QED BY <1>11, <3>1, <4>1 DEF HasSegment
    <3>3. CASE ~(i <= m)
      <4>1. i + 1 \in DOMAIN b2 /\ b2[i + 1] = b[i]
        BY <1>4, <1>7, <1>12, <3>3
      <4> QED BY <1>11, <3>1, <4>1 DEF HasSegment
    <3> QED BY <3>2, <3>3
  <2> QED BY <2>1, <2>2
<1>20. HasSegment(k2, Count(seg.sn))
  <2>1. m + 1 \in DOMAIN b2 /\ b2[m + 1].sn = seg.sn
    BY <1>2, <1>7, <1>12
  <2> QED BY <1>11, <2>1 DEF HasSegment
<1> QED BY <1>9, <1>11, <1>18, <1>19, <1>20

\* parseSeg and what comes before it, for a segment the sender did number.
LEMMA ParsePushKeeps ==
    ASSUME ShortTalk, NEW e \in End, NEW k \in KcpRecord, NEW g, NEW top \in Nat, top <= Total(e),
           ReceiverInv(e, k, g, top),
           NEW seg, seg.sn \in SN, seg.frg \in Int, seg.data \in Nat \X Nat,
           Count(seg.sn) < top, IsItem(e, Count(seg.sn), seg)
    PROVE  /\ ParsePush(k, seg) \in KcpRecord
           /\ ReceiverInv(e, ParsePush(k, seg), g, top)
           /\ Grown(k, ParsePush(k, seg)) /\ SameSender(k, ParsePush(k, seg))
<1> DEFINE acked == [k EXCEPT !.ackList = Append(@, seg.sn)]
<1>1. PICK a : a = acked
  OBVIOUS
<1>2. /\ a \in KcpRecord /\ SameSender(k, a) /\ a.recvNext = k.recvNext
      /\ a.recvQueue = k.recvQueue /\ a.recvBuffer = k.recvBuffer
      /\ a.ackList = Append(k.ackList, seg.sn)
  <2>1. k.ackList \in Seq(SN)
    BY PartsOf
  <2>2. Append(k.ackList, seg.sn) \in Seq(SN)
    BY <2>1
  <2> QED BY <1>1, <2>2 DEF KcpRecord, SameSender
<1>3. \A i \in DOMAIN a.ackList :
         a.ackList[i] = seg.sn \/ (i \in DOMAIN k.ackList /\ a.ackList[i] = k.ackList[i])
  <2>1. PICK l \in Seq(SN) : l = k.ackList
    BY PartsOf
  <2>2. \A i \in DOMAIN Append(l, seg.sn) :
           Append(l, seg.sn)[i] = seg.sn \/ (i \in DOMAIN l /\ Append(l, seg.sn)[i] = l[i])
    OBVIOUS
  <2> QED BY <1>2, <2>1, <2>2
<1>4. Grown(k, a) /\ \A n \in Int : HasSegment(k, n) <=> HasSegment(a, n)
  <2>1. a.sendNext = k.sendNext
    BY <1>2 DEF SameSender
  <2> QED BY <1>2, <2>1, GrownSame DEF HasSegment
<1>5. EarlyInv(e, a, top) /\ ReadInv(e, a, g) /\ NoneReady(a) /\ Count(a.recvNext) <= top
  BY <1>2 DEF ReceiverInv, EarlyInv, ReadInv, NoneReady
<1>6. \A i \in DOMAIN k.ackList : HasSegment(k, Count(k.ackList[i])) /\ Count(k.ackList[i]) \in Nat
  BY PartsOf DEF ReceiverInv
<1>7. PICK c \in Nat, rn \in Nat, w \in Nat, t \in Nat, m \in Nat :
         /\ c = Count(seg.sn) /\ rn = Count(k.recvNext) /\ w = RecvWindow /\ t = Total(e)
         /\ m = SNMod
  BY CountNat, PartsOf, TotalIs, Consts
<1>8. c < top /\ top <= t /\ rn <= top /\ 2 * (t + w) <= m /\ w > 0
  BY <1>7, TotalIs, Consts DEF ReceiverInv
<1>9. BelowWindow(k, seg.sn) <=> c < rn + w
  <2>1. rn + w < m /\ w \in Nat
    BY <1>8
  <2>2. k.recvNext \in SN /\ Count(k.recvNext) + RecvWindow < SNMod /\ RecvWindow \in Nat
    BY <1>7, <2>1, PartsOf
  <2>3. Plus(k.recvNext, RecvWindow) \in SN /\ Count(Plus(k.recvNext, RecvWindow)) = rn + w
    BY <1>7, <2>2, PlusIs
  <2>4. Count(seg.sn) <= Total(e) /\ Count(Plus(k.recvNext, RecvWindow)) <= Total(e) + RecvWindow
    BY <1>7, <1>8, <2>3
  <2>5. Diff(seg.sn, Plus(k.recvNext, RecvWindow)) = c - (rn + w)
    BY <1>7, <2>3, <2>4, DiffNear
  <2> QED BY <2>5 DEF BelowWindow
<1>10. IsOld(k, seg.sn) <=> c < rn
  <2>1. Count(seg.sn) <= Total(e) /\ Count(k.recvNext) <= Total(e) + RecvWindow /\ k.recvNext \in SN
    BY <1>7, <1>8, PartsOf
  <2>2. Diff(seg.sn, k.recvNext) = c - rn
    BY <1>7, <2>1, DiffNear
  <2> QED BY <2>2 DEF IsOld
<1>11. CASE ~BelowWindow(k, seg.sn)
  <2>1. ParsePush(k, seg) = k
    BY <1>11 DEF ParsePush
  <2>2. Grown(k, k) /\ SameSender(k, k)
    BY GrownSame DEF SameSender
  <2> QED BY <2>1, <2>2
\* What is held has been acknowledged by right.
<1>12. ASSUME HasSegment(k, c) PROVE EarlyEnd(e, a, g, top)
  <2>1. ASSUME NEW i \in DOMAIN a.ackList PROVE HasSegment(a, Count(a.ackList[i]))
    <3>1. CASE a.ackList[i] = seg.sn
      BY <1>4, <1>7, <1>12, <3>1
    <3>2. CASE i \in DOMAIN k.ackList /\ a.ackList[i] = k.ackList[i]
      BY <1>4, <1>6, <3>2
    <3> QED BY <1>3, <3>1, <3>2
  <2> QED BY <1>5, <2>1 DEF EarlyEnd
<1>13. CASE BelowWindow(k, seg.sn) /\ IsOld(k, seg.sn)
  <2>1. ParsePush(k, seg) = a
    BY <1>1, <1>13 DEF ParsePush
  <2>2. HasSegment(k, c)
    BY <1>7, <1>10, <1>13 DEF HasSegment
  <2>3. ReceiverInv(e, a, g, top)
    BY <1>5, <1>12, <2>2 DEF EarlyEnd, ReceiverInv
  <2> QED BY <1>2, <1>4, <2>1, <2>3
<1>14. CASE BelowWindow(k, seg.sn) /\ ~IsOld(k, seg.sn)
  <2>1. ParsePush(k, seg) = ParseSeg(a, seg)
    BY <1>1, <1>14 DEF ParsePush
  <2>2. CASE \E i \in DOMAIN a.recvBuffer : a.recvBuffer[i].sn = seg.sn
    <3>1. ParseSeg(a, seg) = MoveReady(a)
      BY <2>2 DEF ParseSeg
    <3>2. HasSegment(k, c)
      BY <1>2, <1>7, <2>2 DEF HasSegment
    <3>3. EarlyEnd(e, a, g, top)
      BY <1>12, <3>2
    <3>4. PICK k3 : k3 = MoveReady(a)
      OBVIOUS
    <3>5. k3 \in KcpRecord /\ ReceiverInv(e, k3, g, top) /\ Grown(a, k3) /\ SameSender(a, k3)
      BY <1>2, <3>3, <3>4, MoveReadyKeeps
    <3>6. Grown(k, k3)
      BY <1>2, <1>4, <3>5, GrownAgain
    <3>7. SameSender(k, k3)
      BY <1>2, <3>5 DEF SameSender
    <3> QED BY <2>1, <3>1, <3>4, <3>5, <3>6, <3>7
  <2>3. CASE ~\E i \in DOMAIN a.recvBuffer : a.recvBuffer[i].sn = seg.sn
    <3>1. ParseSeg(a, seg) = MoveReady(Insert(a, seg))
      BY <2>3 DEF ParseSeg
    <3>2. PICK k2 : k2 = Insert(a, seg)
      OBVIOUS
    <3>a. /\ Count(a.recvNext) <= Count(seg.sn)
          /\ Count(seg.sn) < Count(a.recvNext) + RecvWindow
      BY <1>2, <1>7, <1>9, <1>10, <1>14
    <3>b. \A i \in DOMAIN a.recvBuffer : a.recvBuffer[i].sn # seg.sn
      BY <2>3
    <3>3. /\ k2 \in KcpRecord /\ EarlyInv(e, k2, top) /\ SameSender(a, k2)
          /\ k2.recvNext = a.recvNext /\ k2.recvQueue = a.recvQueue /\ k2.ackList = a.ackList
          /\ \A n \in Int : HasSegment(a, n) => HasSegment(k2, n)
          /\ HasSegment(k2, Count(seg.sn))
      BY <1>2, <1>5, <3>2, <3>a, <3>b, InsertKeeps
    <3>4. EarlyEnd(e, k2, g, top)
      <4>1. ASSUME NEW i \in DOMAIN k2.ackList PROVE HasSegment(k2, Count(k2.ackList[i]))
        <5>1. i \in DOMAIN a.ackList /\ k2.ackList[i] = a.ackList[i]
          BY <3>3
        <5>2. CASE a.ackList[i] = seg.sn
          BY <3>3, <5>1, <5>2
        <5>3. CASE i \in DOMAIN k.ackList /\ a.ackList[i] = k.ackList[i]
          BY <1>4, <1>6, <3>3, <5>1, <5>3
        <5> QED BY <1>3, <5>1, <5>2, <5>3
      <4>2. ReadInv(e, k2, g) /\ Count(k2.recvNext) <= top
        BY <1>5, <3>3 DEF ReadInv
      <4> QED BY <3>3, <4>1, <4>2 DEF EarlyEnd
    <3>5. PICK k3 : k3 = MoveReady(k2)
      OBVIOUS
    <3>6. k3 \in KcpRecord /\ ReceiverInv(e, k3, g, top) /\ Grown(k2, k3) /\ SameSender(k2, k3)
      BY <3>3, <3>4, <3>5, MoveReadyKeeps
    <3>7. Grown(a, k2)
      <4>1. Count(a.recvNext) \in Nat /\ Count(a.sendNext) \in Nat /\ k2.sendNext = a.sendNext
        BY <1>2, <3>3, PartsOf DEF SameSender
      <4> QED BY <3>3, <4>1 DEF Grown
    <3>8. Grown(k, k3)
      <4>1. Grown(k, k2)
        BY <1>2, <1>4, <3>3, <3>7, GrownAgain
      <4> QED BY <3>3, <3>6, <4>1, GrownAgain
    <3>9. SameSender(k, k3)
      BY <1>2, <3>3, <3>6 DEF SameSender
    <3> QED BY <2>1, <3>1, <3>2, <3>5, <3>6, <3>8, <3>9
  <2> QED BY <2>2, <2>3
<1> QED BY <1>11, <1>13, <1>14

-----------------------------------------------------------------------------
(* The sender.                                                             *)

\* The receiver's fields are the same.
SameReceiver(k, k2) ==
    /\ k2.recvNext = k.recvNext /\ k2.recvBuffer = k.recvBuffer
    /\ k2.recvQueue = k.recvQueue /\ k2.ackList = k.ackList

\* No more is numbered than there is to send.
LEMMA NumberedIs ==
    ASSUME ShortTalk, NEW e \in End, NEW k \in KcpRecord, NEW s, NEW o, SenderInv(e, k, s, o)
    PROVE  /\ Count(k.sendNext) \in Nat /\ Count(k.sendNext) <= Total(e)
           /\ \A i \in DOMAIN k.sendBuffer : Count(k.sendBuffer[i].sn) < Total(e)
<1>1. k.sendQueue \in Seq(Waiting)
  BY PartsOf
<1>2. PICK a \in Nat, c \in Nat : a = Count(k.sendNext) /\ c = Len(k.sendQueue)
  BY <1>1, PartsOf, LengthIs
<1>3. a + c = Segments(e, s) /\ s \in 0 .. Len(Messages[e])
  BY <1>2 DEF SenderInv, QueueInv
<1>4. Segments(e, s) \in Nat /\ Segments(e, s) <= Total(e) /\ Total(e) \in Nat
  BY <1>3, TotalIs
<1>5. a <= Total(e)
  BY <1>3, <1>4
<1>6. \A i \in DOMAIN k.sendBuffer :
         Count(k.sendBuffer[i].sn) < a /\ Count(k.sendBuffer[i].sn) \in Nat
  BY <1>2, PartsOf DEF SenderInv, BufferInv
<1> QED BY <1>2, <1>4, <1>5, <1>6

\* b2 is b without some that the other end has.
Freed(b, b2, o) ==
    \E f \in [DOMAIN b2 -> DOMAIN b] :
       /\ \A i \in DOMAIN b2 : b2[i] = b[f[i]]
       /\ \A i, j \in DOMAIN b2 : i < j => f[i] < f[j]
       /\ \A j \in DOMAIN b : HasSegment(o, Count(b[j].sn)) \/ \E i \in DOMAIN b2 : j = f[i]

\* The sender may free any segments that the other end has.
LEMMA FreedKeeps ==
    ASSUME NEW e \in End, NEW k \in KcpRecord, NEW s, NEW o, SenderInv(e, k, s, o),
           NEW b2 \in Seq(Flying), Freed(k.sendBuffer, b2, o)
    PROVE  LET k2 == ShrinkBuf([k EXCEPT !.sendBuffer = b2]) IN
           k2 \in KcpRecord /\ SenderInv(e, k2, s, o)
           /\ SameReceiver(k, k2) /\ k2.sendNext = k.sendNext
<1>1. PICK b \in Seq(Flying) : b = k.sendBuffer
  BY PartsOf
<1>2. PICK f \in [DOMAIN b2 -> DOMAIN b] :
         /\ \A i \in DOMAIN b2 : b2[i] = b[f[i]]
         /\ \A i, j \in DOMAIN b2 : i < j => f[i] < f[j]
         /\ \A j \in DOMAIN b : HasSegment(o, Count(b[j].sn)) \/ \E i \in DOMAIN b2 : j = f[i]
  BY <1>1 DEF Freed
<1>3. PICK lb \in Nat, lc \in Nat :
         lb = Len(b) /\ DOMAIN b = 1 .. lb /\ lc = Len(b2) /\ DOMAIN b2 = 1 .. lc
  BY LengthIs
<1>4. /\ \A i \in DOMAIN b : b[i].sn \in SN /\ Count(b[i].sn) \in Nat
      /\ \A i \in DOMAIN b2 : f[i] \in DOMAIN b
  BY <1>1, <1>2, PartsOf
<1>5. PICK k1 : k1 = [k EXCEPT !.sendBuffer = b2]
  OBVIOUS
<1>6. k1 \in KcpRecord /\ k1.sendBuffer = b2 /\ k1.sendNext = k.sendNext
  BY <1>5 DEF KcpRecord
<1>7. PICK una : una = Una(k1)
  OBVIOUS
<1>8. \/ lc = 0 /\ una = k.sendNext
      \/ lc > 0 /\ una = b2[1].sn /\ 1 \in DOMAIN b2
  <2>1. CASE b2 = <<>>
    BY <1>3, <1>6, <1>7, <2>1, LengthIs DEF Una
  <2>2. CASE b2 # <<>>
    <3>1. lc # 0
      BY <1>3, <2>2, LengthIs
    <3>2. Head(b2) = b2[1]
      BY <2>2
    <3> QED BY <1>3, <1>6, <1>7, <2>2, <3>1, <3>2 DEF Una
  <2> QED BY <2>1, <2>2
<1>9. una \in SN
  BY <1>2, <1>4, <1>8, PartsOf
<1>10. PICK k2 : k2 = ShrinkBuf(k1)
  OBVIOUS
<1>11. k2 = [k1 EXCEPT !.sendUNA = una]
  BY <1>7, <1>10 DEF ShrinkBuf
<1>12. /\ k2 \in KcpRecord /\ SameReceiver(k, k2) /\ k2.sendNext = k.sendNext
       /\ k2.sendBuffer = b2 /\ k2.sendUNA = una /\ k2.sendQueue = k.sendQueue
  BY <1>5, <1>6, <1>9, <1>11 DEF KcpRecord, SameReceiver
<1>13. QueueInv(e, k2, s)
  BY <1>12 DEF SenderInv, QueueInv
<1>14. PICK u \in Nat, u2 \in Nat, n \in Nat, w \in Nat :
          u = Count(k.sendUNA) /\ u2 = Count(una) /\ n = Count(k.sendNext) /\ w = SendWindow
  BY <1>9, PartsOf, CountNat, Consts
<1>15. /\ \A i \in DOMAIN b : /\ u <= Count(b[i].sn) /\ Count(b[i].sn) < n
                              /\ IsItem(e, Count(b[i].sn), b[i])
       /\ \A i, j \in DOMAIN b : i < j => Count(b[i].sn) < Count(b[j].sn)
       /\ u <= n /\ n <= u + w
  BY <1>1, <1>14 DEF SenderInv, BufferInv
<1>16. BufferInv(e, k2)
  <2>1. \A i, j \in DOMAIN b2 : i < j => Count(b2[i].sn) < Count(b2[j].sn)
    BY <1>2, <1>4, <1>15
  <2>2. u <= u2 /\ u2 <= n
    <3>1. CASE lc = 0
      BY <1>8, <1>14, <1>15, <3>1
    <3>2. CASE lc # 0
      <4>1. una = b[f[1]].sn /\ f[1] \in DOMAIN b
        BY <1>2, <1>4, <1>8, <3>2
      <4> QED BY <1>4, <1>14, <1>15, <4>1
    <3> QED BY <3>1, <3>2
  <2>3. ASSUME NEW i \in DOMAIN b2
        PROVE  u2 <= Count(b2[i].sn) /\ Count(b2[i].sn) < n /\ IsItem(e, Count(b2[i].sn), b2[i])
    <3>1. lc > 0 /\ una = b2[1].sn /\ 1 \in DOMAIN b2
      BY <1>3, <1>8
    <3>2. u2 <= Count(b2[i].sn)
      <4>1. CASE i = 1
        BY <1>14, <3>1, <4>1
      <4>2. CASE i # 1
        <5>1. 1 < i
          BY <1>3, <4>2
        <5>2. Count(b2[1].sn) < Count(b2[i].sn)
          BY <2>1, <3>1, <5>1
        <5>3. Count(b2[i].sn) \in Nat
          BY <1>2, <1>4
        <5> QED BY <1>14, <3>1, <5>2, <5>3
      <4> QED BY <4>1, <4>2
    <3> QED BY <1>2, <1>4, <1>15, <3>2
  <2>4. n <= u2 + w
    BY <1>15, <2>2
  <2>5. una = Una(k2)
    BY <1>6, <1>7, <1>12 DEF Una
  <2> QED BY <1>12, <1>14, <2>1, <2>2, <2>3, <2>4, <2>5 DEF BufferInv
<1>17. FreedInv(k2, o)
  <2>1. /\ Count(o.recvNext) <= n
        /\ \A m \in 0 .. n - 1 : HasSegment(o, m) \/ \E i \in DOMAIN b : Count(b[i].sn) = m
    BY <1>1, <1>14 DEF SenderInv, FreedInv
  <2>2. ASSUME NEW m \in 0 .. n - 1
        PROVE  HasSegment(o, m) \/ \E i \in DOMAIN b2 : Count(b2[i].sn) = m
    <3>1. SUFFICES ASSUME ~HasSegment(o, m) PROVE \E i \in DOMAIN b2 : Count(b2[i].sn) = m
      OBVIOUS
    <3>2. PICK j \in DOMAIN b : Count(b[j].sn) = m
      BY <2>1, <3>1
    <3>3. PICK i \in DOMAIN b2 : j = f[i]
      BY <1>2, <3>1, <3>2
    <3> QED BY <1>2, <3>2, <3>3
  <2> QED BY <1>12, <1>14, <2>1, <2>2 DEF FreedInv
<1>18. SenderInv(e, k2, s, o)
  BY <1>13, <1>16, <1>17 DEF SenderInv
<1> QED BY <1>5, <1>10, <1>12, <1>18

\* parseUNA frees what the other end is past.
LEMMA ParseUNAKeeps ==
    ASSUME ShortTalk, NEW e \in End, NEW k \in KcpRecord, NEW s, NEW o \in KcpRecord,
           SenderInv(e, k, s, o), NEW una \in SN, Count(una) <= Count(o.recvNext)
    PROVE  LET k2 == ShrinkBuf(ParseUNA(k, una)) IN
           k2 \in KcpRecord /\ SenderInv(e, k2, s, o)
           /\ SameReceiver(k, k2) /\ k2.sendNext = k.sendNext
<1>1. PICK b \in Seq(Flying) : b = k.sendBuffer
  BY PartsOf
<1>2. PICK lb \in Nat : lb = Len(b) /\ DOMAIN b = 1 .. lb
  BY LengthIs
<1> DEFINE S == {i \in DOMAIN b : Diff(una, b[i].sn) > 0}
<1>3. PICK n : n = Run(b, S)
  OBVIOUS
<1>4. n \in 0 .. lb /\ \A i \in 1 .. n : i \in S
  <2> HIDE DEF S
  <2> QED BY <1>2, <1>3, RunIs
<1>5. PICK b2 \in Seq(Flying) : IsRest(b2, b, n, lb)
  BY <1>2, <1>4, RestIs
<1>6. ParseUNA(k, una) = [k EXCEPT !.sendBuffer = b2]
  BY <1>1, <1>2, <1>3, <1>5 DEF ParseUNA, DropFirst, IsRest
<1>7. \A i \in 1 .. n : HasSegment(o, Count(b[i].sn))
  <2>1. TAKE i \in 1 .. n
  <2>2. i \in DOMAIN b /\ Diff(una, b[i].sn) > 0
    BY <1>4
  <2>3. PICK c \in Nat, x \in Nat, t \in Nat, w \in Nat, rn \in Nat, sn \in Nat :
           /\ c = Count(una) /\ x = Count(b[i].sn) /\ t = Total(e) /\ w = RecvWindow
           /\ rn = Count(o.recvNext) /\ sn = Count(k.sendNext)
    BY <1>1, <2>2, CountNat, PartsOf, TotalIs, Consts
  <2>4. c <= rn /\ rn <= sn /\ sn <= t /\ x < t
    BY <1>1, <2>2, <2>3, NumberedIs DEF SenderInv, FreedInv
  <2>5. Count(una) <= Total(e) /\ Count(b[i].sn) <= Total(e) + RecvWindow /\ b[i].sn \in SN
    BY <1>1, <2>2, <2>3, <2>4, PartsOf
  <2>6. Diff(una, b[i].sn) = c - x
    BY <2>3, <2>5, DiffNear
  <2>7. x < rn
    BY <2>2, <2>4, <2>6
  <2> QED BY <2>3, <2>7 DEF HasSegment
<1>8. Freed(b, b2, o)
  <2> DEFINE f == [i \in DOMAIN b2 |-> n + i]
  <2>1. DOMAIN b2 = 1 .. lb - n /\ \A i \in 1 .. lb - n : b2[i] = b[n + i] /\ n + i \in 1 .. lb
    BY <1>5 DEF IsRest
  <2>2. f \in [DOMAIN b2 -> DOMAIN b]
    BY <1>2, <2>1
  <2>3. \A i \in DOMAIN b2 : b2[i] = b[f[i]]
    BY <2>1
  <2>4. \A i, j \in DOMAIN b2 : i < j => f[i] < f[j]
    BY <1>4, <2>1
  <2>5. ASSUME NEW j \in DOMAIN b
        PROVE  HasSegment(o, Count(b[j].sn)) \/ \E i \in DOMAIN b2 : j = f[i]
    <3>1. CASE j <= n
      BY <1>2, <1>4, <1>7, <3>1
    <3>2. CASE ~(j <= n)
      <4>1. j - n \in DOMAIN b2 /\ n + (j - n) = j
        BY <1>2, <1>4, <2>1, <3>2
      <4> QED BY <4>1
    <3> QED BY <3>1, <3>2
  <2> HIDE DEF f
  <2> QED BY <2>2, <2>3, <2>4, <2>5 DEF Freed
<1> QED BY <1>1, <1>6, <1>8, FreedKeeps

IsRemove(r, s, i, l) ==
    /\ r = RemoveAt(s, i) /\ Len(r) = l - 1 /\ DOMAIN r = 1 .. l - 1
    /\ \A j \in 1 .. i - 1 : r[j] = s[j]
    /\ \A j \in i .. l - 1 : r[j] = s[j + 1]

\* The elements of a sequence with one taken out.
LEMMA RemoveIs ==
    ASSUME NEW X, NEW s \in Seq(X), NEW l \in Nat, l = Len(s), NEW i \in 1 .. l
    PROVE  \E r \in Seq(X) : IsRemove(r, s, i, l)
<1>1. PICK a \in Seq(X) : a = SubSeq(s, 1, i - 1) /\ Len(a) = i - 1 /\ \A j \in 1 .. i - 1 : a[j] = s[j]
  <2>1. 1 \in Int /\ i - 1 \in Int /\ \A j \in 1 .. i - 1 : s[j] \in X
    OBVIOUS
  <2>2. /\ SubSeq(s, 1, i - 1) \in Seq(X)
        /\ Len(SubSeq(s, 1, i - 1)) = IF 1 <= i - 1 THEN (i - 1) - 1 + 1 ELSE 0
        /\ \A j \in 1 .. (i - 1) - 1 + 1 : SubSeq(s, 1, i - 1)[j] = s[1 + j - 1]
    BY <2>1, SubSeqProperties
  <2>3. PICK a \in Seq(X) : a = SubSeq(s, 1, i - 1)
    BY <2>2
  <2>4. Len(a) = i - 1
    BY <2>2, <2>3
  <2>5. \A j \in 1 .. i - 1 : a[j] = s[j]
    <3>1. TAKE j \in 1 .. i - 1
    <3>2. j \in 1 .. (i - 1) - 1 + 1 /\ 1 + j - 1 = j
      OBVIOUS
    <3> QED BY <2>2, <2>3, <3>2
  <2> QED BY <2>3, <2>4, <2>5
<1>2. PICK c \in Seq(X) : IsRest(c, s, i, l)
  <2>1. i \in 0 .. l
    OBVIOUS
  <2> QED BY <2>1, RestIs
<1>3. PICK r \in Seq(X) : IsJoin(r, a, c, i - 1, l - i)
  <2>1. i - 1 = Len(a) /\ l - i = Len(c) /\ i - 1 \in Nat /\ l - i \in Nat
    BY <1>1, <1>2 DEF IsRest
  <2> QED BY <2>1, JoinIs
<1>4. r = RemoveAt(s, i)
  <2>1. r = SubSeq(s, 1, i - 1) \o SubSeq(s, i + 1, Len(s))
    BY <1>1, <1>2, <1>3 DEF IsJoin, IsRest
  <2> QED BY <2>1 DEF RemoveAt
<1>5. Len(r) = l - 1 /\ DOMAIN r = 1 .. l - 1
  <2>1. (i - 1) + (l - i) = l - 1
    OBVIOUS
  <2> QED BY <1>3, <2>1 DEF IsJoin
<1>6. \A j \in 1 .. i - 1 : r[j] = s[j]
  BY <1>1, <1>3 DEF IsJoin
<1>7. \A j \in i .. l - 1 : r[j] = s[j + 1]
  <2>1. TAKE j \in i .. l - 1
  <2>2. PICK m \in 1 .. l - i : m = j - i + 1
    OBVIOUS
  <2>3. (i - 1) + m = j /\ i + m = j + 1
    BY <2>2
  <2>4. r[(i - 1) + m] = c[m]
    BY <1>3, <2>2 DEF IsJoin
  <2>5. c[m] = s[i + m]
    BY <1>2, <2>2 DEF IsRest
  <2> QED BY <2>3, <2>4, <2>5
<1> QED BY <1>4, <1>5, <1>6, <1>7 DEF IsRemove

\* parseACK frees a segment that the other end acknowledged, for it has it.
LEMMA ParseACKKeeps ==
    ASSUME NEW e \in End, NEW k \in KcpRecord, NEW s, NEW o \in KcpRecord,
           SenderInv(e, k, s, o), NEW sn \in SN, HasSegment(o, Count(sn))
    PROVE  LET k2 == ShrinkBuf(ParseACK(k, sn)) IN
           k2 \in KcpRecord /\ SenderInv(e, k2, s, o)
           /\ SameReceiver(k, k2) /\ k2.sendNext = k.sendNext
<1>1. PICK b \in Seq(Flying) : b = k.sendBuffer
  BY PartsOf
<1>2. PICK lb \in Nat : lb = Len(b) /\ DOMAIN b = 1 .. lb
  BY LengthIs
<1> DEFINE acked == {i \in DOMAIN b : b[i].sn = sn}
<1>3. CASE InFlight(k, sn) /\ acked # {}
  <2>1. PICK n \in 1 .. lb : n = (CHOOSE i \in acked : TRUE) /\ b[n].sn = sn
    BY <1>2, <1>3
  <2>2. PICK b2 \in Seq(Flying) : IsRemove(b2, b, n, lb)
    BY <1>2, RemoveIs
  <2>3. ParseACK(k, sn) = [k EXCEPT !.sendBuffer = b2]
    BY <1>1, <1>3, <2>1, <2>2 DEF ParseACK, IsRemove
  <2>4. Freed(b, b2, o)
    <3> DEFINE f == [i \in DOMAIN b2 |-> IF i < n THEN i ELSE i + 1]
    <3>1. /\ DOMAIN b2 = 1 .. lb - 1
          /\ \A j \in 1 .. n - 1 : b2[j] = b[j]
          /\ \A j \in n .. lb - 1 : b2[j] = b[j + 1]
      BY <2>2 DEF IsRemove
    <3>2. f \in [DOMAIN b2 -> DOMAIN b]
      BY <1>2, <3>1
    <3>3. \A i \in DOMAIN b2 : b2[i] = b[f[i]]
      <4>1. TAKE i \in DOMAIN b2
      <4>2. CASE i < n
        BY <3>1, <4>2
      <4>3. CASE ~(i < n)
        BY <3>1, <4>3
      <4> QED BY <4>2, <4>3
    <3>4. \A i, j \in DOMAIN b2 : i < j => f[i] < f[j]
      BY <3>1
    <3>5. ASSUME NEW j \in DOMAIN b
          PROVE  HasSegment(o, Count(b[j].sn)) \/ \E i \in DOMAIN b2 : j = f[i]
      <4>1. CASE j = n
        BY <2>1, <4>1
      <4>2. CASE j < n
        <5>1. j \in DOMAIN b2 /\ f[j] = j
          BY <1>2, <3>1, <4>2
        <5> QED BY <5>1
      <4>3. CASE j > n
        <5>1. j - 1 \in DOMAIN b2 /\ f[j - 1] = j
          BY <1>2, <3>1, <4>3
        <5> QED BY <5>1
      <4> QED BY <1>2, <4>1, <4>2, <4>3
    <3> HIDE DEF f
    <3> QED BY <3>2, <3>3, <3>4, <3>5 DEF Freed
  <2> QED BY <1>1, <2>3, <2>4, FreedKeeps
<1>4. CASE ~(InFlight(k, sn) /\ acked # {})
  <2>1. ParseACK(k, sn) = k
    BY <1>1, <1>4 DEF ParseACK
  <2>2. k.sendUNA = Una(k)
    BY DEF SenderInv, BufferInv
  <2>3. PICK k2 : k2 = ShrinkBuf(k)
    OBVIOUS
  <2>4. k2 = k
    BY <2>2, <2>3 DEF ShrinkBuf, KcpRecord
  <2> QED BY <2>1, <2>3, <2>4 DEF SameReceiver
<1> QED BY <1>3, <1>4

-----------------------------------------------------------------------------
(* importRaw().                                                            *)

\* A step of the sender leaves the receiver alone.
LEMMA EndSame ==
    ASSUME NEW e \in End, NEW k \in KcpRecord, NEW k2 \in KcpRecord, NEW s, NEW g, NEW o,
           EndInv(e, k, s, g, o), SameReceiver(k, k2), SenderInv(e, k2, s, o),
           k2.sendNext = k.sendNext
    PROVE  EndInv(e, k2, s, g, o) /\ Grown(k, k2)
<1>1. ReceiverInv(Peer(e), k2, g, Count(o.sendNext))
  BY ReceiverSame DEF EndInv, SameReceiver
<1>2. Grown(k, k2)
  BY GrownSame DEF SameReceiver
<1> QED BY <1>1, <1>2 DEF EndInv

\* One segment of a datagram that says what is, or was, true.
LEMMA ImportSegmentKeeps ==
    ASSUME ShortTalk, NEW e \in End, NEW k \in KcpRecord, NEW s, NEW g, NEW o \in KcpRecord,
           EndInv(e, k, s, g, o), Count(o.sendNext) <= Total(Peer(e)),
           NEW seg, Says(Peer(e), seg, o)
    PROVE  /\ ImportSegment(k, seg) \in KcpRecord
           /\ EndInv(e, ImportSegment(k, seg), s, g, o)
           /\ Grown(k, ImportSegment(k, seg))
<1>1. /\ seg \in NetSegment /\ seg.una \in SN /\ seg.wnd \in Nat
      /\ seg.cmd \in {"ACK", "PUSH", "WASK", "WINS"}
      /\ seg.cmd \in {"ACK", "PUSH"} => seg.sn \in SN
      /\ seg.cmd = "PUSH" => seg.frg \in Int /\ seg.data \in Nat \X Nat
  BY DEF Says, NetSegment
<1>2. PICK k0 : k0 = [k EXCEPT !.remoteWindow = seg.wnd]
  OBVIOUS
<1>3. /\ k0 \in KcpRecord /\ SameReceiver(k, k0) /\ k0.sendNext = k.sendNext
      /\ k0.sendUNA = k.sendUNA /\ k0.sendBuffer = k.sendBuffer /\ k0.sendQueue = k.sendQueue
  BY <1>1, <1>2 DEF KcpRecord, SameReceiver
<1>4. SenderInv(e, k, s, o)
  BY DEF EndInv
<1>5. SenderInv(e, k0, s, o)
  BY <1>3, <1>4, SenderSame
<1>6. PICK k1 : k1 = ShrinkBuf(ParseUNA(k0, seg.una))
  OBVIOUS
<1>7. /\ k1 \in KcpRecord /\ SenderInv(e, k1, s, o)
      /\ SameReceiver(k0, k1) /\ k1.sendNext = k0.sendNext
  <2>1. Count(seg.una) <= Count(o.recvNext)
    BY DEF Says
  <2> QED BY <1>1, <1>3, <1>5, <1>6, <2>1, ParseUNAKeeps
<1>8. EndInv(e, k1, s, g, o) /\ Grown(k, k1)
  <2>1. SameReceiver(k, k1) /\ k1.sendNext = k.sendNext
    BY <1>3, <1>7 DEF SameReceiver
  <2> QED BY <1>7, <2>1, EndSame
<1>9. CASE seg.cmd = "ACK"
  <2>1. ImportSegment(k, seg) = ShrinkBuf(ParseACK(k1, seg.sn))
    BY <1>2, <1>6, <1>9 DEF ImportSegment
  <2>2. PICK k2 : k2 = ShrinkBuf(ParseACK(k1, seg.sn))
    OBVIOUS
  <2>3. seg.sn \in SN /\ HasSegment(o, Count(seg.sn))
    BY <1>1, <1>9 DEF Says
  <2>4. /\ k2 \in KcpRecord /\ SenderInv(e, k2, s, o)
        /\ SameReceiver(k1, k2) /\ k2.sendNext = k1.sendNext
    BY <1>7, <2>2, <2>3, ParseACKKeeps
  <2>5. EndInv(e, k2, s, g, o) /\ Grown(k1, k2)
    BY <1>7, <1>8, <2>4, EndSame
  <2>6. Grown(k, k2)
    BY <1>7, <1>8, <2>4, <2>5, GrownAgain
  <2> QED BY <2>1, <2>2, <2>4, <2>5, <2>6
<1>10. CASE seg.cmd = "PUSH"
  <2>1. ImportSegment(k, seg) = ParsePush(k1, seg)
    BY <1>2, <1>6, <1>10 DEF ImportSegment
  <2>2. PICK k2 : k2 = ParsePush(k1, seg)
    OBVIOUS
  <2>3. /\ seg.sn \in SN /\ seg.frg \in Int /\ seg.data \in Nat \X Nat
        /\ Count(seg.sn) < Count(o.sendNext) /\ IsItem(Peer(e), Count(seg.sn), seg)
    BY <1>1, <1>10 DEF Says
  <2>4. Peer(e) \in End /\ Count(o.sendNext) \in Nat
    BY PeerIs, PartsOf
  <2>5. ReceiverInv(Peer(e), k1, g, Count(o.sendNext))
    BY <1>8 DEF EndInv
  <2>6. /\ k2 \in KcpRecord /\ ReceiverInv(Peer(e), k2, g, Count(o.sendNext))
        /\ Grown(k1, k2) /\ SameSender(k1, k2)
    BY <1>7, <2>2, <2>3, <2>4, <2>5, ParsePushKeeps
  <2>7. SenderInv(e, k2, s, o)
    BY <1>7, <2>6, SenderSame DEF SameSender
  <2>8. EndInv(e, k2, s, g, o)
    BY <2>6, <2>7 DEF EndInv
  <2>9. Grown(k, k2)
    BY <1>7, <1>8, <2>6, GrownAgain
  <2> QED BY <2>1, <2>2, <2>6, <2>8, <2>9
<1>11. CASE seg.cmd = "WASK"
  <2>1. PICK k2 : k2 = [k1 EXCEPT !.probe = @ \cup {"TELL"}]
    OBVIOUS
  <2>2. ImportSegment(k, seg) = k2
    BY <1>2, <1>6, <1>11, <2>1 DEF ImportSegment
  <2>3. /\ k2 \in KcpRecord /\ SameReceiver(k1, k2) /\ k2.sendNext = k1.sendNext
        /\ k2.sendUNA = k1.sendUNA /\ k2.sendBuffer = k1.sendBuffer
        /\ k2.sendQueue = k1.sendQueue
    BY <1>7, <2>1 DEF KcpRecord, SameReceiver
  <2>4. SenderInv(e, k2, s, o)
    BY <1>7, <2>3, SenderSame
  <2>5. EndInv(e, k2, s, g, o) /\ Grown(k1, k2)
    BY <1>7, <1>8, <2>3, <2>4, EndSame
  <2>6. Grown(k, k2)
    BY <1>7, <1>8, <2>3, <2>5, GrownAgain
  <2> QED BY <2>2, <2>3, <2>5, <2>6
<1>12. CASE seg.cmd = "WINS"
  <2>1. ImportSegment(k, seg) = k1
    BY <1>2, <1>6, <1>12 DEF ImportSegment
  <2> QED BY <1>7, <1>8, <2>1
<1> QED BY <1>1, <1>9, <1>10, <1>11, <1>12

\* The segments of one datagram, one after the other.
Segmentwise(k, datagram) ==
    LET done[i \in 0 .. Len(datagram)] ==
            IF i = 0 THEN k ELSE ImportSegment(done[i - 1], datagram[i])
    IN  done[Len(datagram)]

\* All segments of a datagram.
LEMMA SegmentwiseKeeps ==
    ASSUME ShortTalk, NEW e \in End, NEW k \in KcpRecord, NEW s, NEW g, NEW o \in KcpRecord,
           EndInv(e, k, s, g, o), Count(o.sendNext) <= Total(Peer(e)),
           NEW datagram \in Seq(NetSegment),
           \A j \in DOMAIN datagram : Says(Peer(e), datagram[j], o)
    PROVE  /\ Segmentwise(k, datagram) \in KcpRecord
           /\ EndInv(e, Segmentwise(k, datagram), s, g, o)
           /\ Grown(k, Segmentwise(k, datagram))
<1> DEFINE n == Len(datagram)
           W == {x \in KcpRecord : EndInv(e, x, s, g, o) /\ Grown(k, x)}
           Op(x, i) == ImportSegment(x, datagram[i])
           step == [p \in W \X (1 .. n) |-> Op(p[1], p[2])]
           Is(f) == f = [i \in 0 .. n |-> IF i = 0 THEN k ELSE Op(f[i - 1], i)]
<1>0. n \in Nat /\ \A i \in 1 .. n : i \in DOMAIN datagram
  OBVIOUS
<1>a. k \in W
  BY GrownSame
<1>1. \A x \in W, i \in 1 .. n : Op(x, i) \in W
  <2>1. TAKE x \in W, i \in 1 .. n
  <2>2. Says(Peer(e), datagram[i], o)
    BY <1>0
  <2>3. x \in KcpRecord /\ EndInv(e, x, s, g, o) /\ Grown(k, x)
    OBVIOUS
  <2>4. PICK y : y = ImportSegment(x, datagram[i])
    OBVIOUS
  <2>5. y \in KcpRecord /\ EndInv(e, y, s, g, o) /\ Grown(x, y)
    BY <2>2, <2>3, <2>4, ImportSegmentKeeps
  <2>6. Grown(k, y)
    BY <2>3, <2>5, GrownAgain
  <2> QED BY <2>4, <2>5, <2>6
<1> HIDE DEF W, Op
<1>2. Steps(n, W, step)
  BY <1>1 DEF Steps
<1>3. PICK f \in [0 .. n -> W] : f[0] = k /\ \A i \in 1 .. n : f[i] = Op(f[i - 1], i)
  <2>1. Orbit(n, W, k, step)
    <3> HIDE DEF step, n
    <3> QED BY <1>0, <1>2, <1>a, Iterates
  <2>2. PICK f \in [0 .. n -> W] : f[0] = k /\ \A i \in 1 .. n : f[i] = step[<<f[i - 1], i>>]
    BY <2>1 DEF Orbit
  <2>3. \A i \in 1 .. n : f[i - 1] \in W
    BY <1>0
  <2>4. \A x \in W, i \in 1 .. n : step[<<x, i>>] = Op(x, i)
    OBVIOUS
  <2> HIDE DEF step, n
  <2> QED BY <2>2, <2>3, <2>4
<1>4. Is(f)
  <2>2. \A i \in 0 .. n : f[i] = IF i = 0 THEN k ELSE Op(f[i - 1], i)
    BY <1>0, <1>3
  <2> QED BY <1>3, <2>2
<1>5. Segmentwise(k, datagram) = (CHOOSE h : Is(h))[n]
  BY DEF Segmentwise, Op
<1>6. PICK h : h = (CHOOSE x : Is(x)) /\ Is(h)
  BY <1>4
<1>7. h[0] = k /\ \A i \in 1 .. n : h[i] = Op(h[i - 1], i)
  <2>1. \A i \in 0 .. n : h[i] = IF i = 0 THEN k ELSE Op(h[i - 1], i)
    <3> HIDE DEF n
    <3> QED BY <1>6
  <2>2. 0 \in 0 .. n /\ \A i \in 1 .. n : i \in 0 .. n /\ i # 0
    BY <1>0
  <2> HIDE DEF n
  <2> QED BY <2>1, <2>2
<1>8. \A i \in 1 .. n : h[i - 1] \in W => h[i] \in W
  BY <1>1, <1>7
<1>9. \A i \in 0 .. n : h[i] \in W
  BY <1>0, <1>7, <1>8, <1>a, AllAlong
<1>10. Segmentwise(k, datagram) \in W
  BY <1>0, <1>5, <1>6, <1>9
<1> QED BY <1>10 DEF W

\* Nothing hangs on how often a segment was sent or skipped.
Alike(b, b2) ==
    /\ b2 \in Seq(Flying) /\ DOMAIN b2 = DOMAIN b
    /\ \A i \in DOMAIN b : b2[i].sn = b[i].sn /\ b2[i].frg = b[i].frg /\ b2[i].data = b[i].data

\* The sender does not hang on how often a segment was skipped or sent.
LEMMA SenderAlike ==
    ASSUME NEW e \in End, NEW k \in KcpRecord, NEW k2, NEW s, NEW o, SenderInv(e, k, s, o),
           k2.sendUNA = k.sendUNA, k2.sendNext = k.sendNext, k2.sendQueue = k.sendQueue,
           Alike(k.sendBuffer, k2.sendBuffer)
    PROVE  SenderInv(e, k2, s, o)
<1>1. PICK b \in Seq(Flying), b2 \in Seq(Flying) :
         /\ b = k.sendBuffer /\ b2 = k2.sendBuffer /\ DOMAIN b2 = DOMAIN b
         /\ \A i \in DOMAIN b : b2[i].sn = b[i].sn /\ b2[i].frg = b[i].frg /\ b2[i].data = b[i].data
  BY PartsOf DEF Alike
<1>2. QueueInv(e, k2, s)
  BY DEF SenderInv, QueueInv
<1>3. Una(k2) = Una(k)
  <2>1. DOMAIN b = 1 .. Len(b) /\ DOMAIN b2 = 1 .. Len(b2) /\ Len(b) \in Nat /\ Len(b2) \in Nat
        /\ (b = <<>> <=> Len(b) = 0) /\ (b2 = <<>> <=> Len(b2) = 0)
    BY LengthIs
  <2>2. CASE b = <<>>
    <3>0. Len(b2) = 0
      <4>1. SUFFICES ASSUME Len(b2) # 0 PROVE FALSE
        OBVIOUS
      <4>2. 1 \in DOMAIN b2
        BY <2>1, <4>1
      <4>3. 1 \in 1 .. 0
        BY <1>1, <2>1, <2>2, <4>2
      <4> QED BY <4>3
    <3>1. b2 = <<>>
      BY <2>1, <3>0
    <3> QED BY <1>1, <2>2, <3>1 DEF Una
  <2>3. CASE b # <<>>
    <3>1. 1 \in DOMAIN b
      BY <2>1, <2>3
    <3>2. b2 # <<>>
      BY <1>1, <2>1, <3>1
    <3>3. Head(b) = b[1] /\ Head(b2) = b2[1]
      BY <2>3, <3>2
    <3> QED BY <1>1, <2>3, <3>1, <3>2, <3>3 DEF Una
  <2> QED BY <2>2, <2>3
<1>4. BufferInv(e, k2)
  <2>1. BufferInv(e, k)
    BY DEF SenderInv
  <2> QED BY <1>1, <1>3, <2>1 DEF BufferInv, IsItem
<1>5. FreedInv(k2, o)
  BY <1>1 DEF SenderInv, FreedInv
<1> QED BY <1>2, <1>4, <1>5 DEF SenderInv

\* parseFaskACK only counts.
LEMMA ParseFaskACKKeeps ==
    ASSUME NEW e \in End, NEW k \in KcpRecord, NEW s, NEW o, SenderInv(e, k, s, o), NEW sn
    PROVE  LET k2 == ParseFaskACK(k, sn) IN
           k2 \in KcpRecord /\ SenderInv(e, k2, s, o)
           /\ SameReceiver(k, k2) /\ k2.sendNext = k.sendNext
<1>1. PICK b \in Seq(Flying) : b = k.sendBuffer
  BY PartsOf
<1>2. CASE ~InFlight(k, sn)
  <2>1. ParseFaskACK(k, sn) = k
    BY <1>2 DEF ParseFaskACK
  <2> QED BY <2>1 DEF SameReceiver
<1>3. CASE InFlight(k, sn)
  <2> DEFINE more(x) == [x EXCEPT !.fast = Least(x.fast + 1, FastResend)]
             c == [i \in DOMAIN b |-> IF Diff(sn, b[i].sn) > 0 THEN more(b[i]) ELSE b[i]]
  <2>1. \A x \in Flying : /\ more(x) \in Flying /\ more(x).sn = x.sn
                          /\ more(x).frg = x.frg /\ more(x).data = x.data
    <3>1. TAKE x \in Flying
    <3>2. x.fast \in Int /\ FastResend \in Int
      BY Consts DEF Flying
    <3>3. Least(x.fast + 1, FastResend) \in Int
      BY <3>2 DEF Least
    <3>4. PICK v \in Int : v = Least(x.fast + 1, FastResend)
      BY <3>3
    <3>5. more(x) = [x EXCEPT !.fast = v]
      BY <3>4
    <3> HIDE DEF more
    <3> QED BY <3>5 DEF Flying
  <2>6. ParseFaskACK(k, sn) = [k EXCEPT !.sendBuffer = c]
    BY <1>1, <1>3 DEF ParseFaskACK
  <2>2. \A i \in DOMAIN b : b[i] \in Flying
    BY ElementsIn
  <2> HIDE DEF more
  <2>3. \A i \in DOMAIN b : c[i] = b[i] \/ c[i] = more(b[i])
    OBVIOUS
  <2>4. c \in [DOMAIN b -> Flying]
    BY <2>1, <2>2
  <2>5. c \in Seq(Flying) /\ DOMAIN c = DOMAIN b
    <3>1. Len(b) \in Nat /\ DOMAIN b = 1 .. Len(b)
      BY LengthIs
    <3> HIDE DEF c
    <3> QED BY <2>4, <3>1
  <2> HIDE DEF c
  <2>7. Alike(b, c)
    BY <2>1, <2>2, <2>3, <2>5 DEF Alike
  <2>8. PICK k2 : k2 = [k EXCEPT !.sendBuffer = c]
    OBVIOUS
  <2>9. /\ k2 \in KcpRecord /\ SameReceiver(k, k2) /\ k2.sendNext = k.sendNext
        /\ k2.sendUNA = k.sendUNA /\ k2.sendBuffer = c /\ k2.sendQueue = k.sendQueue
    BY <2>5, <2>8 DEF KcpRecord, SameReceiver
  <2>10. SenderInv(e, k2, s, o)
    BY <1>1, <2>7, <2>9, SenderAlike
  <2> QED BY <2>6, <2>8, <2>9, <2>10
<1> QED BY <1>2, <1>3

\* importRaw() keeps an end in order, whatever datagram of the other it gets.
LEMMA ImportRawKeeps ==
    ASSUME ShortTalk, NEW e \in End, NEW k \in KcpRecord, NEW s, NEW g, NEW o \in KcpRecord,
           EndInv(e, k, s, g, o), Count(o.sendNext) <= Total(Peer(e)),
           NEW datagram \in Seq(NetSegment),
           \A j \in DOMAIN datagram : Says(Peer(e), datagram[j], o), NEW slow
    PROVE  /\ ImportRaw(k, datagram, slow) \in KcpRecord
           /\ EndInv(e, ImportRaw(k, datagram, slow), s, g, o)
           /\ Grown(k, ImportRaw(k, datagram, slow))
<1>1. PICK k1 : k1 = Segmentwise(k, datagram)
  OBVIOUS
<1>2. k1 \in KcpRecord /\ EndInv(e, k1, s, g, o) /\ Grown(k, k1)
  BY <1>1, SegmentwiseKeeps
<1>3. PICK k2 : k2 = CountSkipped(k1, datagram)
  OBVIOUS
<1>4. k2 \in KcpRecord /\ SenderInv(e, k2, s, o) /\ SameReceiver(k1, k2) /\ k2.sendNext = k1.sendNext
  <2>1. SenderInv(e, k1, s, o)
    BY <1>2 DEF EndInv
  <2>2. CASE k2 = k1
    BY <1>2, <2>1, <2>2 DEF SameReceiver
  <2>3. CASE k2 = ParseFaskACK(k1, MaxAck(datagram))
    BY <1>2, <2>1, <2>3, ParseFaskACKKeeps
  <2> QED BY <1>3, <2>2, <2>3 DEF CountSkipped
<1>5. EndInv(e, k2, s, g, o) /\ Grown(k1, k2)
  BY <1>2, <1>4, EndSame
<1>6. PICK k3 : k3 = Grow(k2, k.sendUNA, slow)
  OBVIOUS
<1>7. /\ k3 \in KcpRecord /\ SameReceiver(k2, k3) /\ k3.sendNext = k2.sendNext
      /\ k3.sendUNA = k2.sendUNA /\ k3.sendBuffer = k2.sendBuffer /\ k3.sendQueue = k2.sendQueue
  <2>1. k3 = k2 \/ k3 = [k2 EXCEPT !.cwnd = @ + 1]
    BY <1>6 DEF Grow
  <2>2. k2.cwnd + 1 \in Nat
    <3>1. k2.cwnd \in Nat
      BY <1>4 DEF KcpRecord
    <3> QED BY <3>1
  <2>3. PICK c \in Nat : c = k2.cwnd + 1
    BY <2>2
  <2>4. CASE k3 = k2
    BY <1>4, <2>4 DEF SameReceiver
  <2>5. CASE k3 = [k2 EXCEPT !.cwnd = c]
    BY <1>4, <2>5 DEF KcpRecord, SameReceiver
  <2> QED BY <2>1, <2>3, <2>4, <2>5
<1>8. SenderInv(e, k3, s, o)
  BY <1>4, <1>7, SenderSame
<1>9. EndInv(e, k3, s, g, o) /\ Grown(k2, k3)
  BY <1>4, <1>5, <1>7, <1>8, EndSame
<1>10. Grown(k, k3)
  <2>1. Grown(k, k2)
    BY <1>2, <1>4, <1>5, GrownAgain
  <2> QED BY <1>4, <1>7, <1>9, <2>1, GrownAgain
<1>11. ImportRaw(k, datagram, slow) = k3
  BY <1>1, <1>3, <1>6 DEF ImportRaw, Segmentwise
<1> QED BY <1>7, <1>9, <1>10, <1>11

-----------------------------------------------------------------------------
(* flush().                                                                *)

\* The difference of two numbers.
LEMMA DiffInt == ASSUME NEW a \in SN, NEW b \in SN PROVE Diff(a, b) \in Int
<1>1. PICK m \in Nat, x \in Int : m = SNMod /\ m > 0 /\ x = a - b
  BY Consts DEF SN
<1>2. x % m \in Int
  BY <1>1
<1>3. PICK d \in Int : d = (a - b) % SNMod
  BY <1>1, <1>2
<1> QED BY <1>1, <1>3 DEF Diff

\* The window that flush() keeps to is no wider than mSendWindowSize.
LEMMA WindowIs == ASSUME NEW k \in KcpRecord PROVE Window(k) \in Nat /\ Window(k) <= SendWindow
<1>1. k.remoteWindow \in Nat /\ k.cwnd \in Nat /\ SendWindow \in Nat
  BY Consts DEF KcpRecord
<1> QED BY <1>1 DEF Window, Least

\* Nothing added.
LEMMA PlusNone == ASSUME NEW sn \in SN PROVE Plus(sn, 0) = sn
<1>1. Count(sn) + 0 < SNMod /\ 0 \in Nat
  BY CountNat
<1>2. Plus(sn, 0) \in SN /\ Count(Plus(sn, 0)) = Count(sn) + 0
  BY <1>1, PlusIs
<1>3. Count(Plus(sn, 0)) = Count(sn)
  BY <1>2, CountNat
<1> QED BY <1>2, <1>3, CountOnce

\* How many numbers flush() gives out.
Given(k) == Least(Len(k.sendQueue), Most(Window(k) - Diff(k.sendNext, k.sendUNA), 0))

\* flush() numbers what there is, and no more than the window lets it.
LEMMA GivenIs ==
    ASSUME ShortTalk, NEW e \in End, NEW k \in KcpRecord, NEW s, NEW o, SenderInv(e, k, s, o)
    PROVE  /\ Given(k) \in 0 .. Len(k.sendQueue) /\ Len(k.sendQueue) \in Nat
           /\ Count(k.sendNext) + Given(k) <= Count(k.sendUNA) + SendWindow
           /\ Count(k.sendNext) + Given(k) < SNMod
<1>0. Len(k.sendQueue) \in Nat /\ Count(k.sendNext) \in Nat /\ Count(k.sendUNA) \in Nat
  <2>1. k.sendQueue \in Seq(Waiting)
    BY PartsOf
  <2> QED BY <2>1, LengthIs, PartsOf
<1>1. PICK l \in Nat, a \in Nat, u \in Nat, w \in Nat, sw \in Nat, t \in Nat, rw \in Nat, m \in Nat :
         /\ l = Len(k.sendQueue) /\ a = Count(k.sendNext) /\ u = Count(k.sendUNA)
         /\ w = Window(k) /\ sw = SendWindow /\ t = Total(e) /\ rw = RecvWindow /\ m = SNMod
  BY <1>0, WindowIs, Consts, TotalIs
<1>2. u <= a /\ a <= u + sw /\ w <= sw /\ 2 * (t + rw) <= m /\ rw > 0 /\ a <= t
  BY <1>1, WindowIs, TotalIs, Consts, NumberedIs DEF SenderInv, BufferInv
<1>3. a + l <= t
  <2>1. a + l = Segments(e, s) /\ s \in 0 .. Len(Messages[e])
    BY <1>1 DEF SenderInv, QueueInv
  <2>2. Segments(e, s) <= Total(e)
    BY <2>1, TotalIs
  <2> QED BY <1>1, <2>1, <2>2
<1>4. Diff(k.sendNext, k.sendUNA) = a - u
  <2>1. Count(k.sendNext) <= Total(e) /\ Count(k.sendUNA) <= Total(e) + RecvWindow
        /\ k.sendNext \in SN /\ k.sendUNA \in SN
    BY <1>1, <1>2, PartsOf
  <2> QED BY <1>1, <2>1, DiffNear
<1>5. Given(k) = Least(l, Most(w - (a - u), 0))
  BY <1>1, <1>4 DEF Given
<1>6. PICK n \in Int : n = Given(k) /\ n \in 0 .. l /\ (n > 0 => n <= w - (a - u))
  BY <1>5 DEF Least, Most
<1>7. a + n <= u + sw
  BY <1>2, <1>6
<1>8. a + n < m
  BY <1>2, <1>3, <1>6
<1> QED BY <1>1, <1>6, <1>7, <1>8

\* What flush() numbers moves from the queue to the buffer, in order.
LEMMA NumberKeeps ==
    ASSUME ShortTalk, NEW e \in End, NEW k \in KcpRecord, NEW s, NEW o \in KcpRecord,
           SenderInv(e, k, s, o)
    PROVE  /\ Number(k) \in KcpRecord /\ SenderInv(e, Number(k), s, o)
           /\ SameReceiver(k, Number(k)) /\ Grown(k, Number(k))
<1>1. PICK b \in Seq(Flying), q \in Seq(Waiting) : b = k.sendBuffer /\ q = k.sendQueue
  BY PartsOf
<1>2. PICK lb \in Nat, lq \in Nat :
         lb = Len(b) /\ DOMAIN b = 1 .. lb /\ lq = Len(q) /\ DOMAIN q = 1 .. lq
  BY LengthIs
<1>3. PICK n \in Nat, a \in Nat, u \in Nat, w \in Nat, m \in Nat :
         /\ n = Given(k) /\ a = Count(k.sendNext) /\ u = Count(k.sendUNA) /\ w = SendWindow
         /\ m = SNMod
  <2>1. Given(k) \in Nat
    BY GivenIs
  <2> QED BY <2>1, PartsOf, Consts
<1>4. n <= lq /\ a + n <= u + w /\ a + n < m
  <2>1. /\ Given(k) \in 0 .. Len(k.sendQueue) /\ Len(k.sendQueue) \in Nat
        /\ Count(k.sendNext) + Given(k) <= Count(k.sendUNA) + SendWindow
        /\ Count(k.sendNext) + Given(k) < SNMod
    BY GivenIs
  <2> QED BY <1>1, <1>2, <1>3, <2>1
<1>5. \A i \in 0 .. n : Plus(k.sendNext, i) \in SN /\ Count(Plus(k.sendNext, i)) = a + i
  <2>1. TAKE i \in 0 .. n
  <2>2. i \in Nat /\ a + i < m
    BY <1>4
  <2>3. i \in Nat /\ Count(k.sendNext) + i < SNMod /\ k.sendNext \in SN
    BY <1>3, <2>2, PartsOf
  <2> QED BY <1>3, <2>3, PlusIs
<1> DEFINE new == [i \in 1 .. n |->
                     [sn |-> Plus(k.sendNext, i - 1), frg |-> q[i].frg,
                      data |-> q[i].data, size |-> q[i].size, xmit |-> FALSE, fast |-> 0]]
<1>6. PICK c \in Seq(Flying) :
         /\ c = new /\ Len(c) = n
         /\ \A i \in 1 .. n : /\ c[i].sn = Plus(k.sendNext, i - 1) /\ c[i].frg = q[i].frg
                              /\ c[i].data = q[i].data
  <2>1. \A x \in Waiting, sn \in SN :
           [sn |-> sn, frg |-> x.frg, data |-> x.data, size |-> x.size, xmit |-> FALSE, fast |-> 0]
             \in Flying
    BY DEF Waiting, Flying
  <2>2. \A i \in 1 .. n : q[i] \in Waiting /\ Plus(k.sendNext, i - 1) \in SN
    <3>1. TAKE i \in 1 .. n
    <3>2. i \in DOMAIN q /\ i - 1 \in 0 .. n
      BY <1>2, <1>4
    <3> QED BY <1>5, <3>2, ElementsIn
  <2>3. new \in [1 .. n -> Flying]
    BY <2>1, <2>2
  <2>4. \A i \in 1 .. n : /\ new[i].sn = Plus(k.sendNext, i - 1) /\ new[i].frg = q[i].frg
                          /\ new[i].data = q[i].data
    OBVIOUS
  <2>5. new \in Seq(Flying) /\ Len(new) = n
    <3> HIDE DEF new
    <3> QED BY <2>3
  <2> HIDE DEF new
  <2> QED BY <2>4, <2>5
<1>7. \A i \in 1 .. n : Count(c[i].sn) = a + i - 1
  <2>1. TAKE i \in 1 .. n
  <2>2. i - 1 \in 0 .. n /\ a + (i - 1) = a + i - 1
    OBVIOUS
  <2> QED BY <1>5, <1>6, <2>2
<1>8. PICK b2 \in Seq(Flying) : IsJoin(b2, b, c, lb, n)
  BY <1>2, <1>6, JoinIs
<1>9. PICK q2 \in Seq(Waiting) : IsRest(q2, q, n, lq)
  <2>1. n \in 0 .. lq /\ lq = Len(q)
    BY <1>2, <1>4
  <2> QED BY <2>1, RestIs
<1>10. PICK sn \in SN : sn = Plus(k.sendNext, n) /\ Count(sn) = a + n
  <2>1. n \in 0 .. n
    OBVIOUS
  <2> QED BY <1>5, <2>1
<1>11. PICK k2 : k2 = Number(k)
  OBVIOUS
<1>12. k2 = [k EXCEPT !.sendBuffer = b2, !.sendQueue = q2, !.sendNext = sn]
  <2>1. b2 = b \o new /\ q2 = SubSeq(q, n + 1, Len(q))
    BY <1>2, <1>6, <1>8, <1>9 DEF IsJoin, IsRest
  <2> QED BY <1>1, <1>3, <1>10, <1>11, <2>1 DEF Number, Given
<1>13. /\ k2 \in KcpRecord /\ SameReceiver(k, k2) /\ k2.sendUNA = k.sendUNA
       /\ k2.sendBuffer = b2 /\ k2.sendQueue = q2 /\ k2.sendNext = sn
  BY <1>12 DEF KcpRecord, SameReceiver
<1> HIDE DEF new
<1>14. QueueInv(e, k2, s)
  <2>1. /\ s \in 0 .. Len(Messages[e]) /\ a + lq = Segments(e, s)
        /\ \A i \in DOMAIN q : IsItem(e, a + i - 1, q[i])
    BY <1>1, <1>2, <1>3 DEF SenderInv, QueueInv
  <2>2. /\ Len(q2) = lq - n /\ DOMAIN q2 = 1 .. lq - n
        /\ \A i \in 1 .. lq - n : q2[i] = q[n + i] /\ n + i \in 1 .. lq
    BY <1>9 DEF IsRest
  <2>3. (a + n) + (lq - n) = a + lq
    OBVIOUS
  <2>4. \A i \in DOMAIN q2 : IsItem(e, (a + n) + i - 1, q2[i])
    <3>1. TAKE i \in DOMAIN q2
    <3>2. q2[i] = q[n + i] /\ n + i \in DOMAIN q /\ a + (n + i) - 1 = (a + n) + i - 1
      BY <1>2, <2>2
    <3> QED BY <2>1, <3>2
  <2> QED BY <1>10, <1>13, <2>1, <2>2, <2>3, <2>4 DEF QueueInv
<1>15. /\ Len(b2) = lb + n /\ DOMAIN b2 = 1 .. lb + n
       /\ \A i \in 1 .. lb : b2[i] = b[i]
       /\ \A i \in 1 .. n : b2[lb + i] = c[i]
  BY <1>8 DEF IsJoin
<1>16. /\ \A i \in DOMAIN b : /\ u <= Count(b[i].sn) /\ Count(b[i].sn) < a
                              /\ IsItem(e, Count(b[i].sn), b[i])
       /\ \A i, j \in DOMAIN b : i < j => Count(b[i].sn) < Count(b[j].sn)
       /\ u <= a /\ k.sendUNA = Una(k)
  BY <1>1, <1>3 DEF SenderInv, BufferInv
<1>17. \A i \in DOMAIN b2 : \/ i \in DOMAIN b /\ b2[i] = b[i] /\ i <= lb
                            \/ i > lb /\ i - lb \in 1 .. n /\ b2[i] = c[i - lb]
  <2>1. TAKE i \in DOMAIN b2
  <2>2. CASE i <= lb
    BY <1>2, <1>15, <2>2
  <2>3. CASE ~(i <= lb)
    <3>1. PICK j \in 1 .. n : j = i - lb /\ i = lb + j
      <4>1. i - lb \in 1 .. n /\ i = lb + (i - lb)
        BY <1>15, <2>3
      <4> QED BY <4>1
    <3> QED BY <1>15, <2>3, <3>1
  <2> QED BY <2>2, <2>3
<1>18. \A i \in 1 .. n : IsItem(e, a + i - 1, c[i])
  <2>1. TAKE i \in 1 .. n
  <2>2. i \in DOMAIN q
    BY <1>2, <1>4
  <2>3. IsItem(e, a + i - 1, q[i])
    BY <1>1, <1>3, <2>2 DEF SenderInv, QueueInv
  <2> QED BY <1>6, <2>3 DEF IsItem
<1>19. \A i \in DOMAIN b : Count(b[i].sn) \in Nat
  BY <1>1, PartsOf
<1>20. BufferInv(e, k2)
  <2>1. ASSUME NEW i \in DOMAIN b2
        PROVE  /\ u <= Count(b2[i].sn) /\ Count(b2[i].sn) < a + n
               /\ IsItem(e, Count(b2[i].sn), b2[i])
    <3>1. CASE i \in DOMAIN b /\ b2[i] = b[i]
      BY <1>16, <1>19, <3>1
    <3>2. CASE i - lb \in 1 .. n /\ b2[i] = c[i - lb]
      <4>1. PICK j \in 1 .. n : j = i - lb
        BY <3>2
      <4>2. Count(b2[i].sn) = a + j - 1 /\ IsItem(e, a + j - 1, b2[i])
        BY <1>7, <1>18, <3>2, <4>1
      <4> QED BY <1>16, <4>2
    <3> QED BY <1>17, <3>1, <3>2
  <2>2. ASSUME NEW i \in DOMAIN b2, NEW j \in DOMAIN b2, i < j
        PROVE  Count(b2[i].sn) < Count(b2[j].sn)
    <3>0. i \in Nat /\ j \in Nat
      BY <1>15
    <3>1. CASE j <= lb
      <4>1. b2[i] = b[i] /\ i \in DOMAIN b /\ b2[j] = b[j] /\ j \in DOMAIN b
        BY <1>17, <2>2, <3>0, <3>1
      <4> QED BY <1>16, <2>2, <4>1
    <3>2. CASE ~(j <= lb)
      <4>1. PICK y \in 1 .. n : y = j - lb /\ b2[j] = c[y]
        BY <1>17, <3>0, <3>2
      <4>2. CASE i <= lb
        <5>1. b2[i] = b[i] /\ i \in DOMAIN b
          BY <1>17, <3>0, <4>2
        <5> QED BY <1>7, <1>16, <1>19, <4>1, <5>1
      <4>3. CASE ~(i <= lb)
        <5>1. PICK x \in 1 .. n : x = i - lb /\ b2[i] = c[x]
          BY <1>17, <3>0, <4>3
        <5>2. x < y
          BY <2>2, <3>0, <4>1, <5>1
        <5>3. Count(c[x].sn) = a + x - 1 /\ Count(c[y].sn) = a + y - 1
          BY <1>7
        <5>4. a + x - 1 < a + y - 1
          BY <5>2
        <5> QED BY <4>1, <5>1, <5>3, <5>4
      <4> QED BY <4>2, <4>3
    <3> QED BY <3>1, <3>2
  <2>3. k.sendUNA = Una(k2)
    <3>1. CASE b = <<>>
      <4>1. k.sendUNA = k.sendNext /\ lb = 0
        BY <1>1, <1>2, <1>16, <3>1 DEF Una
      <4>2. CASE n = 0
        <5>1. b2 = <<>>
          BY <1>15, <4>1, <4>2, LengthIs
        <5>2. sn = k.sendNext
          BY <1>10, <4>2, PlusNone, PartsOf
        <5> QED BY <1>13, <4>1, <5>1, <5>2 DEF Una
      <4>3. CASE n # 0
        <5>1. b2 # <<>> /\ 1 \in 1 .. n
          BY <1>15, <4>1, <4>3, LengthIs
        <5>2. Head(b2) = b2[1]
          BY <5>1
        <5>3. b2[1] = c[1]
          BY <1>15, <4>1, <5>1
        <5>4. c[1].sn = Plus(k.sendNext, 0)
          BY <1>6, <5>1
        <5>5. c[1].sn = k.sendNext
          BY <5>4, PlusNone, PartsOf
        <5> QED BY <1>13, <4>1, <5>1, <5>2, <5>3, <5>5 DEF Una
      <4> QED BY <4>2, <4>3
    <3>2. CASE b # <<>>
      <4>1. 1 \in 1 .. lb /\ Len(b2) # 0
        BY <1>2, <1>15, <3>2, LengthIs
      <4>2. b2 # <<>>
        BY <4>1, LengthIs
      <4>3. Head(b2) = b2[1] /\ Head(b) = b[1] /\ b2[1] = b[1]
        BY <1>15, <3>2, <4>1, <4>2
      <4> QED BY <1>1, <1>13, <1>16, <3>2, <4>2, <4>3 DEF Una
    <3> QED BY <3>1, <3>2
  <2>4. u <= a + n /\ a + n <= u + w
    BY <1>4, <1>16
  <2> QED BY <1>3, <1>10, <1>13, <2>1, <2>2, <2>3, <2>4 DEF BufferInv
<1>21. FreedInv(k2, o)
  <2>1. /\ Count(o.recvNext) <= a /\ Count(o.recvNext) \in Nat
        /\ \A x \in 0 .. a - 1 : HasSegment(o, x) \/ \E i \in DOMAIN b : Count(b[i].sn) = x
    BY <1>1, <1>3, PartsOf DEF SenderInv, FreedInv
  <2>2. ASSUME NEW x \in 0 .. (a + n) - 1
        PROVE  HasSegment(o, x) \/ \E i \in DOMAIN b2 : Count(b2[i].sn) = x
    <3>1. CASE x < a
      <4>1. SUFFICES ASSUME ~HasSegment(o, x) PROVE \E i \in DOMAIN b2 : Count(b2[i].sn) = x
        OBVIOUS
      <4>2. PICK i \in DOMAIN b : Count(b[i].sn) = x
        BY <2>1, <3>1, <4>1
      <4>3. i \in DOMAIN b2 /\ b2[i] = b[i]
        BY <1>2, <1>15
      <4> QED BY <4>2, <4>3
    <3>2. CASE ~(x < a)
      <4>1. PICK j \in 1 .. n : j = x - a + 1
        <5>1. x - a + 1 \in 1 .. n
          BY <3>2
        <5> QED BY <5>1
      <4>2. Count(c[j].sn) = x
        BY <1>7, <4>1
      <4>3. lb + j \in DOMAIN b2 /\ b2[lb + j] = c[j]
        BY <1>15
      <4> QED BY <4>2, <4>3
    <3> QED BY <3>1, <3>2
  <2>3. Count(o.recvNext) <= a + n
    BY <2>1
  <2> QED BY <1>10, <1>13, <2>2, <2>3 DEF FreedInv
<1>22. Grown(k, k2)
  <2>1. Count(k.recvNext) \in Nat
    BY PartsOf
  <2>2. Count(k.sendNext) <= Count(k2.sendNext)
    BY <1>3, <1>10, <1>13
  <2> QED BY <1>13, <2>1, <2>2 DEF Grown, HasSegment, SameReceiver
<1>23. SenderInv(e, k2, s, o)
  BY <1>14, <1>20, <1>21 DEF SenderInv
<1> QED BY <1>11, <1>13, <1>22, <1>23

\* What is packed is what there is to send.
LEMMA PackIs ==
    ASSUME NEW Y, NEW segs \in Seq(Y)
    PROVE  Pack(segs) \in Seq(Seq(Y))
<1> DEFINE n == Len(segs)
           W == Seq(Seq(Y))
           Op(x, i) == PutIn(x, segs[i])
           step == [p \in W \X (1 .. n) |-> Op(p[1], p[2])]
           Is(f) == f = [i \in 0 .. n |-> IF i = 0 THEN <<>> ELSE Op(f[i - 1], i)]
<1>0. n \in Nat /\ <<>> \in W
  OBVIOUS
<1>1. \A x \in W, i \in 1 .. n : Op(x, i) \in W
  <2>1. TAKE x \in W, i \in 1 .. n
  <2>2. PICK seg \in Y : seg = segs[i]
    OBVIOUS
  <2>3. << seg >> \in Seq(Y)
    OBVIOUS
  <2>4. Append(x, << seg >>) \in W
    <3>1. PICK y \in Seq(Y) : y = << seg >>
      BY <2>3
    <3>2. Append(x, y) \in Seq(Seq(Y))
      OBVIOUS
    <3> QED BY <3>1, <3>2
  <2>5. ASSUME x # <<>> PROVE [x EXCEPT ![Len(x)] = Append(@, seg)] \in W
    <3>1. Len(x) \in 1 .. Len(x)
      BY <2>5, EmptySeq
    <3>2. x[Len(x)] \in Seq(Y)
      BY <3>1, ElementOfSeq
    <3>a. PICK z \in Seq(Y) : z = x[Len(x)]
      BY <3>2
    <3>b. Append(z, seg) \in Seq(Y)
      OBVIOUS
    <3>3. PICK y \in Seq(Y) : y = Append(x[Len(x)], seg)
      BY <3>a, <3>b
    <3>4. [x EXCEPT ![Len(x)] = y] \in Seq(Seq(Y))
      BY <3>1, ExceptSeq
    <3> QED BY <3>3, <3>4
  <2>6. PutIn(x, seg) \in W
    BY <2>4, <2>5 DEF PutIn
  <2> QED BY <2>2, <2>6
<1> HIDE DEF W, Op
<1>2. Steps(n, W, step)
  BY <1>1 DEF Steps
<1>3. PICK f \in [0 .. n -> W] : f[0] = <<>> /\ \A i \in 1 .. n : f[i] = Op(f[i - 1], i)
  <2>1. Orbit(n, W, <<>>, step)
    <3>1. <<>> \in W
      BY <1>0
    <3> HIDE DEF step, n
    <3> QED BY <1>0, <1>2, <3>1, Iterates
  <2>2. PICK f \in [0 .. n -> W] : f[0] = <<>> /\ \A i \in 1 .. n : f[i] = step[<<f[i - 1], i>>]
    BY <2>1 DEF Orbit
  <2>3. \A i \in 1 .. n : f[i - 1] \in W
    BY <1>0
  <2>4. \A x \in W, i \in 1 .. n : step[<<x, i>>] = Op(x, i)
    OBVIOUS
  <2> HIDE DEF step, n
  <2> QED BY <2>2, <2>3, <2>4
<1>4. Is(f)
  <2>2. \A i \in 0 .. n : f[i] = IF i = 0 THEN <<>> ELSE Op(f[i - 1], i)
    BY <1>0, <1>3
  <2> QED BY <1>3, <2>2
<1>5. Pack(segs) = (CHOOSE h : Is(h))[n]
  BY DEF Pack, Op
<1>6. PICK h : h = (CHOOSE x : Is(x)) /\ Is(h)
  BY <1>4
<1>7. h[0] = <<>> /\ \A i \in 1 .. n : h[i] = Op(h[i - 1], i)
  <2>1. \A i \in 0 .. n : h[i] = IF i = 0 THEN <<>> ELSE Op(h[i - 1], i)
    <3> HIDE DEF n
    <3> QED BY <1>6
  <2>2. 0 \in 0 .. n /\ \A i \in 1 .. n : i \in 0 .. n /\ i # 0
    BY <1>0
  <2> HIDE DEF n
  <2> QED BY <2>1, <2>2
<1>8. \A i \in 1 .. n : h[i - 1] \in W => h[i] \in W
  BY <1>1, <1>7
<1>9. \A i \in 0 .. n : h[i] \in W
  BY <1>0, <1>7, <1>8, AllAlong
<1> QED BY <1>0, <1>5, <1>6, <1>9 DEF W

\* What an end may say.
Sayable(e, k) == {seg \in NetSegment : Says(e, seg, k)}

\* flush() marks what it sends.
LEMMA MarkSentKeeps ==
    ASSUME NEW e \in End, NEW k \in KcpRecord, NEW s, NEW o, SenderInv(e, k, s, o),
           NEW late, NEW fast
    PROVE  LET k2 == MarkSent(k, late, fast) IN
           k2 \in KcpRecord /\ SenderInv(e, k2, s, o)
           /\ SameReceiver(k, k2) /\ k2.sendNext = k.sendNext
<1>1. PICK b \in Seq(Flying) : b = k.sendBuffer
  BY PartsOf
<1> DEFINE marked(x) == IF x.sn \in late THEN x
                        ELSE IF x.sn \in fast THEN [x EXCEPT !.fast = 0]
                        ELSE [x EXCEPT !.xmit = TRUE]
           c == [i \in DOMAIN b |-> marked(b[i])]
<1>2. \A x \in Flying : /\ marked(x) \in Flying /\ marked(x).sn = x.sn
                        /\ marked(x).frg = x.frg /\ marked(x).data = x.data
  <2>1. TAKE x \in Flying
  <2>2. CASE x.sn \in late
    BY <2>2
  <2>3. CASE x.sn \notin late /\ x.sn \in fast
    <3>1. marked(x) = [x EXCEPT !.fast = 0]
      BY <2>3
    <3> HIDE DEF marked
    <3> QED BY <3>1 DEF Flying
  <2>4. CASE x.sn \notin late /\ x.sn \notin fast
    <3>1. marked(x) = [x EXCEPT !.xmit = TRUE]
      BY <2>4
    <3> HIDE DEF marked
    <3> QED BY <3>1 DEF Flying
  <2> QED BY <2>2, <2>3, <2>4
<1>3. \A i \in DOMAIN b : b[i] \in Flying
  BY ElementsIn
<1>4. MarkSent(k, late, fast) = [k EXCEPT !.sendBuffer = c]
  BY <1>1 DEF MarkSent
<1> HIDE DEF marked
<1>5. \A i \in DOMAIN b : c[i] = marked(b[i])
  OBVIOUS
<1>6. c \in [DOMAIN b -> Flying]
  BY <1>2, <1>3
<1>7. c \in Seq(Flying) /\ DOMAIN c = DOMAIN b
  <2>1. Len(b) \in Nat /\ DOMAIN b = 1 .. Len(b)
    BY LengthIs
  <2> HIDE DEF c
  <2> QED BY <1>6, <2>1
<1> HIDE DEF c
<1>8. Alike(b, c)
  BY <1>2, <1>3, <1>5, <1>7 DEF Alike
<1>9. PICK k2 : k2 = [k EXCEPT !.sendBuffer = c]
  OBVIOUS
<1>10. /\ k2 \in KcpRecord /\ SameReceiver(k, k2) /\ k2.sendNext = k.sendNext
       /\ k2.sendUNA = k.sendUNA /\ k2.sendBuffer = c /\ k2.sendQueue = k.sendQueue
  BY <1>7, <1>9 DEF KcpRecord, SameReceiver
<1>11. SenderInv(e, k2, s, o)
  BY <1>1, <1>8, <1>10, SenderAlike
<1> QED BY <1>4, <1>9, <1>10, <1>11

\* Congest() and ProbeOnFlush() change nothing that matters here.
SameLists(k, k2) ==
    /\ SameReceiver(k, k2) /\ k2.sendNext = k.sendNext /\ k2.sendUNA = k.sendUNA
    /\ k2.sendBuffer = k.sendBuffer /\ k2.sendQueue = k.sendQueue

\* k with another mSsthresh and mCwnd.
Loaded(k, y, x) == [k EXCEPT !.ssthresh = y, !.cwnd = x]

\* mSsthresh and mCwnd are no part of the lists.
LEMMA LoadedIs ==
    ASSUME NEW k \in KcpRecord, NEW y \in Int, NEW x \in Nat
    PROVE  Loaded(k, y, x) \in KcpRecord /\ SameLists(k, Loaded(k, y, x))
<1>1. SameLists(k, Loaded(k, y, x))
  BY DEF Loaded, SameLists, SameReceiver, KcpRecord
<1>2. Loaded(k, y, x) \in KcpRecord
  BY DEF Loaded, KcpRecord
<1> QED BY <1>1, <1>2

\* Every object is loaded with what it has.
LEMMA LoadedSelf ==
    ASSUME NEW k \in KcpRecord
    PROVE  \E y, x \in Int : k = Loaded(k, y, x)
<1>1. PICK x \in Int, y \in Int : x = k.cwnd /\ y = k.ssthresh
  <2>1. k.cwnd \in Int /\ k.ssthresh \in Int
    BY DEF KcpRecord
  <2> QED BY <2>1
<1>2. PICK k2 : k2 = Loaded(k, y, x)
  OBVIOUS
<1>3. k2 = k
  BY <1>1, <1>2 DEF Loaded, KcpRecord
<1> QED BY <1>2, <1>3

\* The congestion window is no part of the lists.
LEMMA CongestKeeps ==
    ASSUME NEW k \in KcpRecord, NEW w \in Nat, NEW fast, NEW lost
    PROVE  Congest(k, w, fast, lost) \in KcpRecord /\ SameLists(k, Congest(k, w, fast, lost))
<1>1. PICK d \in Int : d = Diff(k.sendNext, k.sendUNA)
  BY DiffInt, PartsOf
<1>2. PICK half \in Int, v \in Int, z \in Int :
         half = Most(2, d \div 2) /\ v = Most(2, w \div 2) /\ z = half + FastResend
  <2>1. Most(2, d \div 2) \in Int /\ Most(2, w \div 2) \in Int
    BY DEF Most
  <2>2. PICK h \in Int : h = Most(2, d \div 2)
    BY <2>1
  <2>3. h + FastResend \in Int
    BY Consts
  <2> QED BY <2>1, <2>2, <2>3
<1>3. PICK k1 : k1 = IF fast THEN Loaded(k, half, z) ELSE k
  OBVIOUS
<1>4. PICK y1 \in Int, x1 \in Int : k1 = Loaded(k, y1, x1)
  <2>1. PICK y \in Int, x \in Int : k = Loaded(k, y, x)
    BY LoadedSelf
  <2> QED BY <1>3, <2>1
<1>5. PICK k2 : k2 = IF lost THEN [k1 EXCEPT !.ssthresh = v, !.cwnd = 1] ELSE k1
  OBVIOUS
<1>6. PICK y2 \in Int, x2 \in Int : k2 = Loaded(k, y2, x2)
  <2>2. [k1 EXCEPT !.ssthresh = v, !.cwnd = 1] = Loaded(k, v, 1)
    <3>1. k1 = [k EXCEPT !.ssthresh = y1, !.cwnd = x1]
      BY <1>4 DEF Loaded
    <3> QED BY <3>1 DEF Loaded, KcpRecord
  <2>3. CASE lost
    BY <1>5, <2>2, <2>3
  <2>4. CASE ~lost
    BY <1>4, <1>5, <2>4
  <2> QED BY <2>3, <2>4
<1>7. PICK x3 \in Nat : x3 = Most(x2, 1)
  <2>1. Most(x2, 1) \in Nat
    BY DEF Most
  <2> QED BY <2>1
<1>8. [k2 EXCEPT !.cwnd = Most(@, 1)] = Loaded(k, y2, x3)
  <2>1. k2.cwnd = x2 /\ [k2 EXCEPT !.cwnd = x3] = Loaded(k, y2, x3)
    <3>1. k2 = [k EXCEPT !.ssthresh = y2, !.cwnd = x2]
      BY <1>6 DEF Loaded
    <3> QED BY <3>1 DEF Loaded, KcpRecord
  <2> QED BY <1>7, <2>1
<1>9. Congest(k, w, fast, lost) = [k2 EXCEPT !.cwnd = Most(@, 1)]
  <2>1. k1 = IF fast THEN [k EXCEPT !.ssthresh = half, !.cwnd = half + FastResend] ELSE k
    BY <1>2, <1>3 DEF Loaded
  <2> QED BY <1>1, <1>2, <1>5, <2>1 DEF Congest
<1>10. Loaded(k, y2, x3) \in KcpRecord /\ SameLists(k, Loaded(k, y2, x3))
  BY LoadedIs
<1> QED BY <1>8, <1>9, <1>10

\* The probe of a window of 0 is no part of the lists.
LEMMA ProbeKeeps ==
    ASSUME NEW k \in KcpRecord, NEW due
    PROVE  ProbeOnFlush(k, due) \in KcpRecord /\ SameLists(k, ProbeOnFlush(k, due))
<1>1. PICK k2 : k2 = ProbeOnFlush(k, due)
  OBVIOUS
<1>2. \/ k2 = k
      \/ k2 = [k EXCEPT !.probeWait = FALSE] \/ k2 = [k EXCEPT !.probeWait = TRUE]
      \/ k2 = [k EXCEPT !.probe = @ \cup {"ASK"}]
  BY <1>1 DEF ProbeOnFlush
<1>3. k2 \in KcpRecord /\ SameLists(k, k2)
  BY <1>2 DEF KcpRecord, SameLists, SameReceiver
<1> QED BY <1>1, <1>3

\* The window an end tells the other.
LEMMA UnusedIs == ASSUME NEW k \in KcpRecord PROVE WindowUnused(k) \in Nat
<1>1. k.recvQueue \in Seq(Fragment)
  BY PartsOf
<1>2. PICK w \in Nat : w = RecvWindow
  BY Consts
<1>3. PICK l \in Nat : l = Len(k.recvQueue)
  BY <1>1
<1>4. Most(w - l, 0) \in Nat
  BY DEF Most
<1> QED BY <1>2, <1>3, <1>4 DEF WindowUnused

\* A sequence of what the elements of another are mapped to.
LEMMA MappedIs ==
    ASSUME NEW X, NEW Y, NEW s \in Seq(X), NEW f \in [X -> Y]
    PROVE  [i \in DOMAIN s |-> f[s[i]]] \in Seq(Y)
<1>1. Len(s) \in Nat /\ DOMAIN s = 1 .. Len(s)
  OBVIOUS
<1>2. \A i \in DOMAIN s : f[s[i]] \in Y
  OBVIOUS
<1>3. PICK t : t = [i \in DOMAIN s |-> f[s[i]]]
  OBVIOUS
<1>4. t \in [1 .. Len(s) -> Y]
  BY <1>1, <1>2, <1>3
<1>5. t \in Seq(Y)
  BY <1>1, <1>4
<1> QED BY <1>3, <1>5

\* What flush() says of itself is true then and stays so.
LEMMA ControlsAre ==
    ASSUME NEW e \in End, NEW k \in KcpRecord, NEW k2 \in KcpRecord, NEW k1, Grown(k, k2),
           \A i \in DOMAIN k.ackList : HasSegment(k, Count(k.ackList[i]))
    PROVE  Controls(k, k1) \in Seq(Sayable(e, k2))
<1> DEFINE Y == Sayable(e, k2)
<1>1. PICK w \in Nat : w = WindowUnused(k)
  BY UnusedIs
<1>2. k.recvNext \in SN /\ k.ackList \in Seq(SN) /\ Count(k.recvNext) <= Count(k2.recvNext)
  BY PartsOf DEF Grown
<1>3. \A c \in {"WASK", "WINS"} : Header(k, c) \in Y
  BY <1>1, <1>2 DEF Header, Sayable, Says, NetSegment
<1>4. \A i \in DOMAIN k.ackList : AckOf(k, k.ackList[i]) \in Y
  <2>1. TAKE i \in DOMAIN k.ackList
  <2>2. k.ackList[i] \in SN /\ Count(k.ackList[i]) \in Nat /\ HasSegment(k, Count(k.ackList[i]))
    BY PartsOf
  <2>3. HasSegment(k2, Count(k.ackList[i]))
    BY <2>2 DEF Grown
  <2>4. PICK sn \in SN : sn = k.ackList[i]
    BY <2>2
  <2>5. PICK x : x = AckOf(k, k.ackList[i])
    OBVIOUS
  <2>6. x = [cmd |-> "ACK", wnd |-> w, una |-> k.recvNext, sn |-> sn]
    BY <1>1, <2>4, <2>5 DEF AckOf
  <2>7. x \in NetSegment /\ x.cmd = "ACK" /\ x.una = k.recvNext /\ x.sn = sn
    BY <1>2, <2>6 DEF NetSegment
  <2>8. Says(e, x, k2)
    BY <1>2, <2>3, <2>4, <2>7 DEF Says
  <2> QED BY <2>5, <2>7, <2>8 DEF Sayable
<1> HIDE DEF Y
<1>5. [i \in DOMAIN k.ackList |-> AckOf(k, k.ackList[i])] \in Seq(Y)
  <2>1. PICK l \in Seq(SN) : l = k.ackList
    BY <1>2
  <2>2. PICK t : t = [i \in DOMAIN l |-> AckOf(k, l[i])]
    OBVIOUS
  <2>3. Len(l) \in Nat /\ DOMAIN l = 1 .. Len(l)
    OBVIOUS
  <2>4. t \in [1 .. Len(l) -> Y]
    BY <1>4, <2>1, <2>2, <2>3
  <2>5. t \in Seq(Y)
    BY <2>3, <2>4
  <2> QED BY <2>1, <2>2, <2>5
<1>6. \A c \in {"WASK", "WINS"} : << Header(k, c) >> \in Seq(Y)
  BY <1>3
<1>7. PICK a \in Seq(Y), b \in Seq(Y), c \in Seq(Y) :
         /\ a = [i \in DOMAIN k.ackList |-> AckOf(k, k.ackList[i])]
         /\ b = IF "ASK" \in k1.probe THEN << Header(k, "WASK") >> ELSE <<>>
         /\ c = IF "TELL" \in k1.probe THEN << Header(k, "WINS") >> ELSE <<>>
  <2>1. <<>> \in Seq(Y)
    OBVIOUS
  <2> QED BY <1>5, <1>6, <2>1
<1>8. (a \o b) \o c \in Seq(Y)
  OBVIOUS
<1> QED BY <1>7, <1>8 DEF Controls, Y

\* What flush() sends again is what is in the buffer.
LEMMA PushesAre ==
    ASSUME NEW e \in End, NEW k \in KcpRecord, NEW k2 \in KcpRecord, NEW k4 \in KcpRecord,
           BufferInv(e, k2), Count(k.recvNext) <= Count(k4.recvNext), k4.sendNext = k2.sendNext,
           NEW late, NEW fast
    PROVE  LET data == ToSend(k2, late, fast) IN
           [i \in DOMAIN data |-> PushOf(k, data[i])] \in Seq(Sayable(e, k4))
<1> DEFINE Y == Sayable(e, k4)
           Z == {x \in Flying : Count(x.sn) < Count(k2.sendNext) /\ IsItem(e, Count(x.sn), x)}
<1>1. PICK w \in Nat : w = WindowUnused(k)
  BY UnusedIs
<1>2. PICK b \in Seq(Flying) : b = k2.sendBuffer
  BY PartsOf
<1>3. \A i \in DOMAIN b : b[i] \in Z
  BY <1>2, PartsOf DEF BufferInv
<1>4. PICK data : data = ToSend(k2, late, fast)
  OBVIOUS
<1>5. data \in Seq(Z)
  <2> DEFINE S == {i \in DOMAIN b : ~b[i].xmit \/ b[i].sn \in late \cup fast}
  <2>1. data = Chosen(b, S)
    BY <1>2, <1>4 DEF ToSend
  <2> HIDE DEF S
  <2>2. data \in Seq({b[j] : j \in S \cap DOMAIN b})
    BY <2>1, ChosenIs
  <2>3. {b[j] : j \in S \cap DOMAIN b} \subseteq Z
    BY <1>3
  <2> QED BY <2>2, <2>3, SeqMonotonic
<1>6. \A x \in Z : PushOf(k, x) \in Y
  <2>1. TAKE x \in Z
  <2>2. k.recvNext \in SN
    BY PartsOf
  <2>3. PICK y : y = PushOf(k, x)
    OBVIOUS
  <2>4. y = [cmd |-> "PUSH", wnd |-> w, una |-> k.recvNext,
             sn |-> x.sn, frg |-> x.frg, data |-> x.data, size |-> x.size]
    BY <1>1, <2>3 DEF PushOf
  <2>5. x.sn \in SN /\ x.frg \in Int /\ x.data \in Nat \X Nat /\ x.size \in Int
    BY DEF Flying
  <2>6. /\ y \in NetSegment /\ y.cmd = "PUSH" /\ y.una = k.recvNext
        /\ y.sn = x.sn /\ y.frg = x.frg /\ y.data = x.data
    BY <2>2, <2>4, <2>5 DEF NetSegment
  <2>7. Says(e, y, k4)
    BY <2>6 DEF Says, IsItem
  <2> QED BY <2>3, <2>6, <2>7 DEF Sayable
<1> HIDE DEF Y, Z
<1>7. PICK f \in [Z -> Y] : f = [x \in Z |-> PushOf(k, x)]
  BY <1>6
<1>8. [i \in DOMAIN data |-> f[data[i]]] \in Seq(Y)
  BY <1>5, MappedIs
<1>9. \A i \in DOMAIN data : data[i] \in Z
  BY <1>5, ElementsIn
<1>10. [i \in DOMAIN data |-> f[data[i]]] = [i \in DOMAIN data |-> PushOf(k, data[i])]
  BY <1>7, <1>9
<1> QED BY <1>4, <1>8, <1>10 DEF Y

\* flush() keeps an end in order, and hands out what is true of it.
LEMMA FlushKeeps ==
    ASSUME ShortTalk, NEW e \in End, NEW k \in KcpRecord, NEW s, NEW g, NEW o \in KcpRecord,
           EndInv(e, k, s, g, o), NEW due, NEW late, NEW fast
    PROVE  LET f == Flush(k, due, late, fast) IN
           /\ f.k \in KcpRecord /\ EndInv(e, f.k, s, g, o) /\ Grown(k, f.k)
           /\ f.out \in Seq(Seq(Sayable(e, f.k)))
<1>1. PICK k1 : k1 = ProbeOnFlush(k, due)
  OBVIOUS
<1>2. k1 \in KcpRecord /\ SameLists(k, k1)
  BY <1>1, ProbeKeeps
<1>3. PICK kc : kc = [k1 EXCEPT !.ackList = <<>>, !.probe = {}]
  OBVIOUS
<1>4. /\ kc \in KcpRecord /\ kc.sendNext = k.sendNext /\ kc.sendUNA = k.sendUNA
      /\ kc.sendBuffer = k.sendBuffer /\ kc.sendQueue = k.sendQueue
      /\ kc.recvNext = k.recvNext /\ kc.recvBuffer = k.recvBuffer
      /\ kc.recvQueue = k.recvQueue /\ kc.ackList = <<>>
  <2>1. /\ k1.sendNext = k.sendNext /\ k1.sendUNA = k.sendUNA
        /\ k1.sendBuffer = k.sendBuffer /\ k1.sendQueue = k.sendQueue
        /\ k1.recvNext = k.recvNext /\ k1.recvBuffer = k.recvBuffer
        /\ k1.recvQueue = k.recvQueue
    BY <1>2 DEF SameLists, SameReceiver
  <2>2. <<>> \in Seq(SN) /\ {} \in SUBSET {"ASK", "TELL"}
    OBVIOUS
  <2>3. kc \in KcpRecord
    BY <1>2, <1>3, <2>2 DEF KcpRecord
  <2>4. /\ kc.sendNext = k1.sendNext /\ kc.sendUNA = k1.sendUNA
        /\ kc.sendBuffer = k1.sendBuffer /\ kc.sendQueue = k1.sendQueue
        /\ kc.recvNext = k1.recvNext /\ kc.recvBuffer = k1.recvBuffer
        /\ kc.recvQueue = k1.recvQueue /\ kc.ackList = <<>>
    BY <1>2, <1>3 DEF KcpRecord
  <2> QED BY <2>1, <2>3, <2>4
<1>5. SenderInv(e, kc, s, o) /\ Grown(k, kc)
  <2>1. SenderInv(e, k, s, o)
    BY DEF EndInv
  <2> QED BY <1>4, <2>1, SenderSame, GrownSame
<1>6. PICK k2 : k2 = Number(kc)
  OBVIOUS
<1>7. k2 \in KcpRecord /\ SenderInv(e, k2, s, o) /\ SameReceiver(kc, k2) /\ Grown(kc, k2)
  BY <1>4, <1>5, <1>6, NumberKeeps
<1>8. PICK k3 : k3 = MarkSent(k2, late, fast)
  OBVIOUS
<1>9. k3 \in KcpRecord /\ SenderInv(e, k3, s, o) /\ SameReceiver(k2, k3) /\ k3.sendNext = k2.sendNext
  BY <1>7, <1>8, MarkSentKeeps
<1>10. PICK k4 : k4 = Congest(k3, Window(k1), fast # {}, late # {})
  OBVIOUS
<1>11. k4 \in KcpRecord /\ SameLists(k3, k4)
  BY <1>2, <1>9, <1>10, WindowIs, CongestKeeps
<1>12. SenderInv(e, k4, s, o)
  BY <1>9, <1>11, SenderSame DEF SameLists
<1>13. /\ k4.recvNext = k.recvNext /\ k4.recvBuffer = k.recvBuffer
       /\ k4.recvQueue = k.recvQueue /\ k4.ackList = <<>> /\ k4.sendNext = k2.sendNext
  BY <1>4, <1>7, <1>9, <1>11 DEF SameLists, SameReceiver
<1>14. ReceiverInv(Peer(e), k4, g, Count(o.sendNext))
  BY <1>13, ReceiverSame DEF EndInv
<1>15. EndInv(e, k4, s, g, o)
  BY <1>11, <1>12, <1>14 DEF EndInv
<1>16. Grown(k, k4)
  <2>1. Grown(k2, k4)
    BY <1>4, <1>7, <1>13, GrownSame DEF SameReceiver
  <2>2. Grown(k, k2)
    BY <1>4, <1>5, <1>7, GrownAgain
  <2> QED BY <1>7, <1>11, <2>1, <2>2, GrownAgain
<1>17. PICK data : data = ToSend(k2, late, fast)
  OBVIOUS
<1>18. [i \in DOMAIN data |-> PushOf(k, data[i])] \in Seq(Sayable(e, k4))
  <2>1. BufferInv(e, k2)
    BY <1>7 DEF SenderInv
  <2>2. Count(k.recvNext) <= Count(k4.recvNext)
    BY <1>16 DEF Grown
  <2> QED BY <1>7, <1>11, <1>13, <1>17, <2>1, <2>2, PushesAre
<1>19. Controls(k, k1) \in Seq(Sayable(e, k4))
  <2>1. \A i \in DOMAIN k.ackList : HasSegment(k, Count(k.ackList[i]))
    BY DEF EndInv, ReceiverInv
  <2> QED BY <1>11, <1>16, <2>1, ControlsAre
<1>20. PICK segs : segs = Controls(k, k1) \o [i \in DOMAIN data |-> PushOf(k, data[i])]
  OBVIOUS
<1>21. segs \in Seq(Sayable(e, k4))
  BY <1>18, <1>19, <1>20, ConcatProperties
<1>22. Pack(segs) \in Seq(Seq(Sayable(e, k4)))
  BY <1>21, PackIs
<1>23. Flush(k, due, late, fast) = [out |-> Pack(segs), k |-> k4]
  BY <1>1, <1>3, <1>6, <1>8, <1>10, <1>17, <1>20 DEF Flush
<1> QED BY <1>11, <1>15, <1>16, <1>22, <1>23

-----------------------------------------------------------------------------
(* The steps.                                                              *)

\* The invariant, seen from one end.
LEMMA EndOf ==
    ASSUME ShortTalk, KcpInv, NEW e \in End
    PROVE  /\ kcp[e] \in KcpRecord /\ kcp[Peer(e)] \in KcpRecord
           /\ EndInv(e, kcp[e], sent[e], got[e], kcp[Peer(e)])
           /\ Count(kcp[Peer(e)].sendNext) <= Total(Peer(e))
           /\ net[e] \in Seq(Seq(NetSegment)) /\ net[Peer(e)] \in Seq(Seq(NetSegment))
           /\ NetInv(e, kcp[e], net[Peer(e)]) /\ NetInv(Peer(e), kcp[Peer(e)], net[e])
<1>1. PICK p \in End : p = Peer(e) /\ Peer(p) = e
  BY PeerIs
<1>2. /\ kcp[e] \in KcpRecord /\ kcp[p] \in KcpRecord /\ sent[e] \in Nat
      /\ net[e] \in Seq(Seq(NetSegment)) /\ net[p] \in Seq(Seq(NetSegment))
  BY DEF KcpInv
<1>3. /\ SenderInv(e, kcp[e], sent[e], kcp[p])
      /\ SenderInv(p, kcp[p], sent[p], kcp[e])
      /\ ReceiverInv(p, kcp[e], got[e], Count(kcp[p].sendNext))
      /\ NetInv(e, kcp[e], net[p]) /\ NetInv(p, kcp[p], net[e])
  BY <1>1 DEF KcpInv
<1>4. Count(kcp[p].sendNext) <= Total(p)
  BY <1>2, <1>3, NumberedIs
<1>5. EndInv(e, kcp[e], sent[e], got[e], kcp[p])
  BY <1>1, <1>2, <1>3 DEF EndInv
<1> QED BY <1>1, <1>2, <1>3, <1>4, <1>5

\* What is under way is what an end may say.
LEMMA NetIs ==
    ASSUME NEW e \in End, NEW k \in KcpRecord, NEW n
    PROVE  n \in Seq(Seq(NetSegment)) /\ NetInv(e, k, n) <=> n \in Seq(Seq(Sayable(e, k)))
<1> DEFINE Y == Sayable(e, k)
<1>0. \A x : x \in Y <=> x \in NetSegment /\ Says(e, x, k)
  BY DEF Sayable
<1>1. ASSUME n \in Seq(Seq(NetSegment)), NetInv(e, k, n) PROVE n \in Seq(Seq(Y))
  <2> HIDE DEF Y
  <2>1. ASSUME NEW i \in DOMAIN n PROVE n[i] \in Seq(Y)
    <3>1. PICK d \in Seq(NetSegment) : d = n[i]
      BY <1>1, <2>1 DEF NetInv
    <3>2. \A j \in DOMAIN d : d[j] \in NetSegment
      BY ElementsIn
    <3>3. \A j \in DOMAIN d : d[j] \in Y
      BY <1>0, <1>1, <2>1, <3>1, <3>2 DEF NetInv
    <3>4. Len(d) \in Nat /\ d \in [1 .. Len(d) -> Y]
      BY <3>3
    <3> QED BY <3>1, <3>4
  <2>2. Len(n) \in Nat /\ n \in [1 .. Len(n) -> Seq(Y)]
    BY <1>1, <2>1
  <2> QED BY <2>2
<1>2. ASSUME n \in Seq(Seq(Y)) PROVE n \in Seq(Seq(NetSegment)) /\ NetInv(e, k, n)
  <2>1. Y \subseteq NetSegment
    BY <1>0
  <2>2. \A i \in DOMAIN n : n[i] \in Seq(Y)
    BY <1>2, ElementsIn
  <2> HIDE DEF Y
  <2>3. Seq(Y) \subseteq Seq(NetSegment)
    BY <2>1, SeqMonotonic
  <2>4. n \in Seq(Seq(NetSegment))
    BY <1>2, <2>3, SeqMonotonic
  <2>5. ASSUME NEW i \in DOMAIN n PROVE \A j \in DOMAIN n[i] : n[i][j] \in Y
    BY <2>2, ElementsIn
  <2>6. NetInv(e, k, n)
    BY <1>0, <2>2, <2>3, <2>5 DEF NetInv
  <2> QED BY <2>4, <2>6
<1> QED BY <1>1, <1>2

\* update() at e: some of what flush() hands out goes under way.
LEMMA UpdateStep ==
    ASSUME ShortTalk, KcpInv, NEW e \in End, Update(e)
    PROVE  KcpInv'
<1>1. PICK p \in End : p = Peer(e) /\ Peer(p) = e /\ p # e /\ \A d \in End : d = e \/ d = p
  BY PeerIs DEF End
<1>2. PICK late, fast, due, S :
        LET f == Flush(kcp[e], due, late, fast) IN
        /\ kcp' = [kcp EXCEPT ![e] = f.k]
        /\ net' = [net EXCEPT ![p] = @ \o Chosen(f.out, S)]
        /\ UNCHANGED <<sent, got>>
  BY <1>1 DEF Update
<1>3. PICK f : f = Flush(kcp[e], due, late, fast)
  OBVIOUS
<1>4. PICK k, s, g, o : k = kcp[e] /\ s = sent[e] /\ g = got[e] /\ o = kcp[p]
  OBVIOUS
<1>5. /\ k \in KcpRecord /\ o \in KcpRecord /\ EndInv(e, k, s, g, o)
      /\ net[e] \in Seq(Seq(NetSegment)) /\ net[p] \in Seq(Seq(NetSegment))
      /\ NetInv(e, k, net[p]) /\ NetInv(p, o, net[e])
  BY <1>1, <1>4, EndOf
<1>6. /\ f.k \in KcpRecord /\ EndInv(e, f.k, s, g, o) /\ Grown(k, f.k)
      /\ f.out \in Seq(Seq(Sayable(e, f.k)))
  BY <1>3, <1>4, <1>5, FlushKeeps
<1>7. PICK k2 : k2 = f.k
  OBVIOUS
<1>8. PICK Y : Y = Sayable(e, k2)
  OBVIOUS
<1>9. PICK d : d = Chosen(f.out, S)
  OBVIOUS
<1>10. d \in Seq(Seq(Y))
  <2>1. f.out \in Seq(Seq(Y))
    BY <1>6, <1>7, <1>8
  <2>2. PICK q \in Seq(Seq(Y)) : q = f.out
    BY <2>1
  <2>3. d \in Seq({q[j] : j \in S \cap DOMAIN q})
    BY <1>9, <2>2, ChosenIs
  <2>4. {q[j] : j \in S \cap DOMAIN q} \subseteq Seq(Y)
    BY ElementsIn
  <2> QED BY <2>3, <2>4, SeqMonotonic
<1>11. net[p] \in Seq(Seq(Y))
  <2>1. NetInv(e, k2, net[p])
    BY <1>5, <1>6, <1>7, NetOfGrown
  <2> QED BY <1>5, <1>6, <1>7, <1>8, <2>1, NetIs
<1>12. net[p] \o d \in Seq(Seq(Y))
  BY <1>10, <1>11, ConcatProperties
<1>13. net[p] \o d \in Seq(Seq(NetSegment)) /\ NetInv(e, k2, net[p] \o d)
  BY <1>6, <1>7, <1>8, <1>12, NetIs
<1>14. /\ DOMAIN net' = End /\ net'[p] = net[p] \o d /\ net'[e] = net[e]
  <2>1. DOMAIN net = End
    BY DEF KcpInv
  <2> QED BY <1>1, <1>2, <1>3, <1>9, <2>1
<1>15. kcp' = [kcp EXCEPT ![e] = k2]
  BY <1>2, <1>3, <1>7
<1>16. /\ sent' = [sent EXCEPT ![e] = s]
       /\ DOMAIN got' = End /\ got'[e] = g /\ \A d2 \in End : d2 # e => got'[d2] = got[d2]
  <2>1. sent \in [End -> Nat] /\ DOMAIN got = End
    BY DEF KcpInv
  <2> QED BY <1>2, <1>4, <2>1
<1>17. \A d2 \in End : net'[d2] \in Seq(Seq(NetSegment))
  BY <1>1, <1>5, <1>13, <1>14
<1> QED
  BY <1>1, <1>4, <1>5, <1>6, <1>7, <1>13, <1>14, <1>15, <1>16, <1>17, EndStep

\* importRaw() at e of a datagram that is under way.
LEMMA ImportStep ==
    ASSUME ShortTalk, KcpInv, NEW e \in End, NEW i, NEW doubled, Import(e, i, doubled)
    PROVE  KcpInv'
<1>1. PICK p \in End : p = Peer(e) /\ Peer(p) = e /\ p # e /\ \A d \in End : d = e \/ d = p
  BY PeerIs DEF End
<1>2. PICK n : n = net[e]
  OBVIOUS
<1>3. PICK slow :
        /\ i \in DOMAIN n
        /\ kcp' = [kcp EXCEPT ![e] = ImportRaw(kcp[e], n[i], slow)]
        /\ net' = IF doubled THEN net ELSE [net EXCEPT ![e] = RemoveAt(n, i)]
        /\ UNCHANGED <<sent, got>>
  BY <1>2 DEF Import
<1>4. PICK k, s, g, o : k = kcp[e] /\ s = sent[e] /\ g = got[e] /\ o = kcp[p]
  OBVIOUS
<1>5. /\ k \in KcpRecord /\ o \in KcpRecord /\ EndInv(e, k, s, g, o)
      /\ Count(o.sendNext) <= Total(p)
      /\ n \in Seq(Seq(NetSegment)) /\ net[p] \in Seq(Seq(NetSegment))
      /\ NetInv(e, k, net[p]) /\ NetInv(p, o, n)
  BY <1>1, <1>2, <1>4, EndOf
<1>6. PICK d \in Seq(NetSegment) : d = n[i]
  BY <1>3, <1>5 DEF NetInv
<1>7. \A j \in DOMAIN d : Says(p, d[j], o)
  BY <1>3, <1>5, <1>6 DEF NetInv
<1>8. PICK k2 : k2 = ImportRaw(k, d, slow)
  OBVIOUS
<1>9. k2 \in KcpRecord /\ EndInv(e, k2, s, g, o) /\ Grown(k, k2)
  BY <1>1, <1>5, <1>7, <1>8, ImportRawKeeps
<1>10. kcp' = [kcp EXCEPT ![e] = k2]
  BY <1>3, <1>4, <1>6, <1>8
<1>11. /\ sent' = [sent EXCEPT ![e] = s]
       /\ DOMAIN got' = End /\ got'[e] = g /\ \A d2 \in End : d2 # e => got'[d2] = got[d2]
  <2>1. sent \in [End -> Nat] /\ DOMAIN got = End
    BY DEF KcpInv
  <2> QED BY <1>3, <1>4, <2>1
<1>12. NetInv(e, k2, net[p])
  BY <1>5, <1>9, NetOfGrown
<1>13. DOMAIN net' = End /\ net'[p] = net[p]
       /\ net'[e] \in Seq(Seq(NetSegment)) /\ NetInv(p, o, net'[e])
  <2>0. DOMAIN net = End
    BY DEF KcpInv
  <2>1. CASE doubled
    BY <1>2, <1>3, <1>5, <2>0, <2>1
  <2>2. CASE ~doubled
    <3>1. PICK Y : Y = Sayable(p, o)
      OBVIOUS
    <3>2. n \in Seq(Seq(Y))
      BY <1>5, <3>1, NetIs
    <3>3. PICK l \in Nat : l = Len(n) /\ i \in 1 .. l
      <4>1. Len(n) \in Nat /\ DOMAIN n = 1 .. Len(n)
        BY <3>2, LengthIs
      <4> QED BY <1>3, <4>1
    <3>4. PICK r \in Seq(Seq(Y)) : IsRemove(r, n, i, l)
      BY <3>2, <3>3, RemoveIs
    <3>5. r = RemoveAt(n, i)
      BY <3>4 DEF IsRemove
    <3>6. r \in Seq(Seq(NetSegment)) /\ NetInv(p, o, r)
      BY <1>5, <3>1, NetIs
    <3>7. net' = [net EXCEPT ![e] = r]
      BY <1>3, <2>2, <3>5
    <3>8. DOMAIN net' = End /\ net'[p] = net[p] /\ net'[e] = r
      BY <1>1, <2>0, <3>7
    <3> QED BY <3>6, <3>8
  <2> QED BY <2>1, <2>2
<1>14. \A d2 \in End : net'[d2] \in Seq(Seq(NetSegment))
  BY <1>1, <1>5, <1>13
<1> QED
  BY <1>1, <1>4, <1>5, <1>9, <1>10, <1>11, <1>12, <1>13, <1>14, EndStep

\* sendKCP() at e.
LEMMA SplitIs ==
    ASSUME NEW e \in End, NEW m \in 1 .. Len(Messages[e])
    PROVE  LET t == Split(e, m) IN
           /\ t \in Seq(Waiting) /\ Len(t) = Fragments(Messages[e][m])
           /\ \A i \in 1 .. Len(t) : t[i].frg = Len(t) - i /\ t[i].data = <<m, i>>
<1>1. PICK L \in Nat : L = Len(Messages[e])
  BY Consts
<1>2. m \in 1 .. L
  BY <1>1
<1>3. PICK len \in Nat : len = Messages[e][m]
  BY <1>1, <1>2, Consts
<1>4. PICK c \in Nat : c = Fragments(len)
  BY FragmentsPos
<1>5. PICK ms \in Nat : ms = MSS
  BY Consts
<1>6. PICK t : t = Split(e, m)
  OBVIOUS
<1>7. t = [i \in 1 .. c |->
             [frg |-> c - i, data |-> <<m, i>>, size |-> Least(ms, len - (i - 1) * ms)]]
  BY <1>3, <1>4, <1>5, <1>6 DEF Split
<1>8. ASSUME NEW i \in 1 .. c PROVE t[i] \in Waiting /\ t[i].frg = c - i /\ t[i].data = <<m, i>>
  <2>1. PICK z : z = Least(ms, len - (i - 1) * ms)
    OBVIOUS
  <2>2. (i - 1) * ms \in Int
    OBVIOUS
  <2>3. z \in Int
    BY <2>1, <2>2 DEF Least
  <2>4. t[i] = [frg |-> c - i, data |-> <<m, i>>, size |-> z]
    BY <1>7, <2>1
  <2>5. c - i \in Int /\ <<m, i>> \in Nat \X Nat
    BY <1>1, <1>2
  <2>6. t[i].frg = c - i /\ t[i].data = <<m, i>>
    BY <2>4
  <2>7. t[i] \in Waiting
    BY <2>3, <2>4, <2>5 DEF Waiting
  <2> QED BY <2>6, <2>7
<1>9. t \in [1 .. c -> Waiting]
  BY <1>7, <1>8
<1>10. t \in Seq(Waiting) /\ Len(t) = c
  BY <1>7, <1>9
<1> QED BY <1>3, <1>4, <1>6, <1>8, <1>10

\* sendKCP() at e: the fragments of the next message wait for a number.
LEMMA SendKCPStep ==
    ASSUME ShortTalk, KcpInv, NEW e \in End, SendKCP(e)
    PROVE  KcpInv'
<1>1. PICK p \in End : p = Peer(e) /\ Peer(p) = e /\ p # e /\ \A d \in End : d = e \/ d = p
  BY PeerIs DEF End
<1>2. PICK k, s, g, o : k = kcp[e] /\ s = sent[e] /\ g = got[e] /\ o = kcp[p]
  OBVIOUS
<1>3. /\ k \in KcpRecord /\ o \in KcpRecord /\ EndInv(e, k, s, g, o)
      /\ net[e] \in Seq(Seq(NetSegment)) /\ net[p] \in Seq(Seq(NetSegment))
      /\ NetInv(e, k, net[p]) /\ NetInv(p, o, net[e])
  BY <1>1, <1>2, EndOf
<1>4. PICK L \in Nat : L = Len(Messages[e])
  BY Consts
<1>5. s \in Nat /\ s < L
  BY <1>2, <1>3, <1>4 DEF SendKCP, EndInv
<1>6. PICK m \in Nat : m = s + 1
  BY <1>5
<1>7. m \in 1 .. L /\ m \in 0 .. L /\ s \in 0 .. L /\ s = m - 1
  BY <1>5, <1>6
<1>8. /\ sent' = [sent EXCEPT ![e] = m]
      /\ kcp' = [kcp EXCEPT ![e].sendQueue = @ \o Split(e, m)]
      /\ UNCHANGED <<net, got>>
  BY <1>2, <1>6 DEF SendKCP
<1>9. PICK t \in Seq(Waiting) : t = Split(e, m)
  BY <1>4, <1>7, SplitIs
<1>10. PICK c \in Nat : c = Fragments(Messages[e][m]) /\ c = Len(t)
         /\ \A i \in 1 .. c : t[i].frg = c - i /\ t[i].data = <<m, i>>
  <2>1. Len(t) \in Nat
    OBVIOUS
  <2> QED BY <1>4, <1>7, <1>9, <2>1, SplitIs
<1>11. PICK q \in Seq(Waiting) : q = k.sendQueue
  BY <1>3, PartsOf
<1>12. PICK l \in Nat : l = Len(q)
  OBVIOUS
<1>13. PICK r \in Seq(Waiting) : IsJoin(r, q, t, l, c)
  BY <1>10, <1>12, JoinIs
<1>14. /\ r = q \o t /\ Len(r) = l + c /\ DOMAIN r = 1 .. l + c
       /\ \A i \in 1 .. l : r[i] = q[i]
       /\ \A i \in 1 .. c : r[l + i] = t[i]
  BY <1>13 DEF IsJoin
<1>15. PICK k2 : k2 = [k EXCEPT !.sendQueue = r]
  OBVIOUS
<1>16. /\ k2 \in KcpRecord /\ k2.sendQueue = r
       /\ k2.sendUNA = k.sendUNA /\ k2.sendNext = k.sendNext /\ k2.sendBuffer = k.sendBuffer
       /\ k2.recvNext = k.recvNext /\ k2.recvBuffer = k.recvBuffer
       /\ k2.recvQueue = k.recvQueue /\ k2.ackList = k.ackList
  BY <1>3, <1>15 DEF KcpRecord
<1>17. kcp' = [kcp EXCEPT ![e] = k2]
  <2>1. e \in DOMAIN kcp
    BY DEF KcpInv
  <2>2. kcp' = [kcp EXCEPT ![e] = [kcp[e] EXCEPT !.sendQueue = kcp[e].sendQueue \o Split(e, m)]]
    BY <1>8, <2>1
  <2> QED BY <1>2, <1>9, <1>11, <1>14, <1>15, <2>2
<1>18. SenderInv(e, k2, m, o)
  <2>0. QueueInv(e, k, s) /\ BufferInv(e, k) /\ FreedInv(k, o)
    BY <1>3 DEF EndInv, SenderInv
  <2>1. PICK a \in Nat : a = Count(k.sendNext)
    BY <1>3, PartsOf
  <2>2. PICK b \in Nat : b = Segments(e, s)
    BY <1>4, <1>7, SegmentsAre
  <2>3. a + l = b
    BY <1>11, <1>12, <2>0, <2>1, <2>2 DEF QueueInv
  <2>4. Segments(e, m) = b + c
    BY <1>4, <1>7, <1>10, <2>2, SegmentsAre
  <2>5. ASSUME NEW i \in 1 .. c
        PROVE  Data(e, b + i - 1) = <<m, i>> /\ Frg(e, b + i - 1) = c - i
    <3>1. Segments(e, m - 1) = b /\ Fragments(Messages[e][m]) = c
      BY <1>7, <1>10, <2>2
    <3> QED BY <1>4, <1>7, <3>1, ItemAt
  <2>6. ASSUME NEW i \in 1 .. l + c PROVE IsItem(e, a + i - 1, r[i])
    <3>1. CASE i <= l
      <4>1. i \in 1 .. l /\ i \in DOMAIN q
        BY <1>12, <3>1
      <4>2. IsItem(e, a + i - 1, q[i])
        BY <1>11, <2>0, <2>1, <4>1 DEF QueueInv
      <4> QED BY <1>14, <4>1, <4>2
    <3>2. CASE i > l
      <4>1. PICK j \in 1 .. c : i = l + j
        <5>1. i - l \in 1 .. c /\ i = l + (i - l)
          BY <3>2
        <5> QED BY <5>1
      <4>2. a + i - 1 = b + j - 1
        BY <2>3, <4>1
      <4>3. r[i] = t[j] /\ t[j].frg = c - j /\ t[j].data = <<m, j>>
        BY <1>10, <1>14, <4>1
      <4> QED BY <2>5, <4>2, <4>3 DEF IsItem
    <3> QED BY <3>1, <3>2
  <2>7. a + (l + c) = b + c
    BY <2>3
  <2>8. QueueInv(e, k2, m)
    BY <1>4, <1>7, <1>14, <1>16, <2>1, <2>4, <2>6, <2>7 DEF QueueInv
  <2>9. BufferInv(e, k2)
    BY <1>16, <2>0 DEF BufferInv, Una
  <2>10. FreedInv(k2, o)
    BY <1>16, <2>0 DEF FreedInv
  <2> QED BY <2>8, <2>9, <2>10 DEF SenderInv
<1>19. EndInv(e, k2, m, g, o)
  <2>1. ReceiverInv(p, k, g, Count(o.sendNext))
    BY <1>1, <1>3 DEF EndInv
  <2>2. ReceiverInv(p, k2, g, Count(o.sendNext))
    BY <1>16, <2>1, ReceiverSame
  <2> QED BY <1>1, <1>16, <1>18, <2>2 DEF EndInv
<1>20. Grown(k, k2)
  BY <1>3, <1>16, GrownSame
<1>21. NetInv(e, k2, net[p])
  BY <1>3, <1>16, <1>20, NetOfGrown
<1>22. DOMAIN got' = End /\ got'[e] = g /\ \A d2 \in End : d2 # e => got'[d2] = got[d2]
  BY <1>2, <1>8 DEF KcpInv
<1>23. DOMAIN net' = End /\ net'[p] = net[p] /\ net'[e] = net[e]
  BY <1>8 DEF KcpInv
<1>24. \A d2 \in End : net'[d2] \in Seq(Seq(NetSegment))
  BY <1>1, <1>3, <1>23
<1> QED
  BY <1>1, <1>2, <1>3, <1>8, <1>16, <1>17, <1>19, <1>20, <1>21, <1>22, <1>23, <1>24, EndStep

\* What is first in the queue is the whole next message.
LEMMA FirstMessage ==
    ASSUME ShortTalk, NEW p \in End, NEW k \in KcpRecord, NEW g, NEW top \in Nat, top <= Total(p),
           Count(k.recvNext) <= top, ReadInv(p, k, g), HasMessage(k)
    PROVE  \E m \in 1 .. Len(Messages[p]), c \in Nat :
             /\ m = Len(g) + 1 /\ c = Fragments(Messages[p][m]) /\ c >= 1
             /\ c <= Len(k.recvQueue) /\ EndOfMessage(k) = c
             /\ Count(k.recvNext) - Len(k.recvQueue) = Segments(p, Len(g))
             /\ Segments(p, m) = Segments(p, Len(g)) + c
             /\ [i \in 1 .. c |-> k.recvQueue[i].data] = Message(p, m)
             /\ Message(p, m) \in Seq(Nat \X Nat)
<1>1. PICK q \in Seq(Fragment) : q = k.recvQueue
  BY PartsOf
<1>2. PICK lq \in Nat, rn \in Nat, L \in Nat, t \in Nat :
        lq = Len(q) /\ DOMAIN q = 1 .. lq /\ rn = Count(k.recvNext)
        /\ L = Len(Messages[p]) /\ t = Total(p)
  <2>1. Len(q) \in Nat /\ DOMAIN q = 1 .. Len(q)
    BY LengthIs
  <2>2. Count(k.recvNext) \in Nat /\ Total(p) \in Nat
    BY PartsOf, TotalIs
  <2>3. Len(Messages[p]) \in Nat
    BY Consts
  <2> QED BY <2>1, <2>2, <2>3
<1>3. PICK G \in Nat : G = Len(g) /\ G \in 0 .. L
  BY <1>2 DEF ReadInv
<1>4. PICK b \in Nat : b = Segments(p, G) /\ b = rn - lq
  <2>1. Segments(p, G) \in Nat
    BY <1>2, <1>3, SegmentsAre
  <2> QED BY <1>1, <1>2, <1>3, <2>1 DEF ReadInv
<1>5. lq >= 1 /\ lq >= q[1].frg + 1
  <2>1. q # <<>> /\ lq >= q[1].frg + 1
    BY <1>1, <1>2 DEF HasMessage
  <2>2. lq # 0
    BY <1>2, <2>1, LengthIs
  <2> QED BY <2>1, <2>2
<1>6. G # L
  <2>1. b < rn
    BY <1>4, <1>5
  <2>2. rn <= t
    BY <1>2, TotalIs
  <2>3. b < t
    BY <2>1, <2>2
  <2>4. t = Segments(p, L)
    BY <1>2 DEF Total
  <2>5. ASSUME G = L PROVE FALSE
    <3>1. Segments(p, G) = Segments(p, L)
      BY <2>5
    <3>2. b = t
      BY <1>4, <2>4, <3>1
    <3> QED BY <2>3, <3>2
  <2> QED BY <2>5
<1>7. PICK m \in Nat : m = G + 1 /\ m \in 1 .. L /\ m - 1 = G
  BY <1>3, <1>6
<1>8. PICK c \in Nat : c = Fragments(Messages[p][m]) /\ c >= 1
  <2>1. Messages[p][m] \in Nat
    BY <1>2, <1>7, Consts
  <2> QED BY <2>1, FragmentsPos
<1>9. Segments(p, m) = b + c
  BY <1>2, <1>4, <1>7, <1>8, SegmentsAre
<1>10. ASSUME NEW i \in 1 .. c
       PROVE  Data(p, b + i - 1) = <<m, i>> /\ Frg(p, b + i - 1) = c - i
  <2>1. Segments(p, m - 1) = b
    BY <1>4, <1>7
  <2> QED BY <1>2, <1>7, <1>8, <2>1, ItemAt
<1>11. \A i \in 1 .. lq : IsItem(p, b + i - 1, q[i])
  BY <1>1, <1>2, <1>4 DEF ReadInv
<1>12. \A i \in 1 .. c : i <= lq => q[i].frg = c - i /\ q[i].data = <<m, i>>
  <2> SUFFICES ASSUME NEW i \in 1 .. c, i <= lq
               PROVE  q[i].frg = c - i /\ q[i].data = <<m, i>>
    OBVIOUS
  <2>1. i \in 1 .. lq
    BY <1>2, <1>8
  <2>2. IsItem(p, b + i - 1, q[i])
    BY <1>11, <2>1
  <2>3. Data(p, b + i - 1) = <<m, i>> /\ Frg(p, b + i - 1) = c - i
    BY <1>10
  <2>4. q[i].data = Data(p, b + i - 1) /\ q[i].frg = Frg(p, b + i - 1)
    BY <2>2 DEF IsItem
  <2> QED BY <2>3, <2>4
<1>13. c <= lq
  <2>1. 1 \in 1 .. c
    BY <1>8
  <2>2. q[1].frg = c - 1
    BY <1>5, <1>12, <2>1
  <2> QED BY <1>5, <2>2
<1>14. \A i \in 1 .. c : q[i].frg = c - i /\ q[i].data = <<m, i>>
  BY <1>12, <1>13
<1>15. EndOfMessage(k) = c
  <2>1. c \in DOMAIN q /\ q[c].frg = 0 /\ \A j \in 1 .. c - 1 : q[j].frg # 0
    BY <1>2, <1>8, <1>13, <1>14
  <2>2. ASSUME NEW i \in DOMAIN q, q[i].frg = 0, \A j \in 1 .. i - 1 : q[j].frg # 0
        PROVE  i = c
    <3>1. i \in 1 .. lq
      BY <1>2
    <3>2. CASE i < c
      <4>1. q[i].frg = c - i
        BY <1>14, <3>1, <3>2
      <4> QED BY <2>2, <3>1, <3>2, <4>1
    <3>3. CASE i > c
      <4>1. c \in 1 .. i - 1
        BY <1>8, <3>1, <3>3
      <4> QED BY <2>1, <2>2, <4>1
    <3> QED BY <3>1, <3>2, <3>3
  <2>3. EndOfMessage(k) =
          CHOOSE i \in DOMAIN q : q[i].frg = 0 /\ \A j \in 1 .. i - 1 : q[j].frg # 0
    BY <1>1 DEF EndOfMessage
  <2> QED BY <2>1, <2>2, <2>3
<1>16. [i \in 1 .. c |-> q[i].data] = [i \in 1 .. c |-> <<m, i>>]
  BY <1>14
<1>17. Message(p, m) = [i \in 1 .. c |-> <<m, i>>]
  BY <1>8 DEF Message
<1>18. Message(p, m) \in Seq(Nat \X Nat)
  <2>1. Message(p, m) \in [1 .. c -> Nat \X Nat]
    BY <1>17
  <2> QED BY <2>1
<1>19. /\ m \in 1 .. Len(Messages[p]) /\ m = Len(g) + 1 /\ c <= Len(k.recvQueue)
       /\ Count(k.recvNext) - Len(k.recvQueue) = Segments(p, Len(g))
       /\ Segments(p, m) = Segments(p, Len(g)) + c
  BY <1>1, <1>2, <1>3, <1>4, <1>7, <1>9, <1>13
<1>20. [i \in 1 .. c |-> k.recvQueue[i].data] = Message(p, m)
  BY <1>1, <1>16, <1>17
<1> QED BY <1>8, <1>15, <1>18, <1>19, <1>20

\* The queue without its first message.
LEMMA TakenKeeps ==
    ASSUME NEW p \in End, NEW k \in KcpRecord, NEW g, NEW top, EarlyEnd(p, k, g, top),
           NEW c \in Nat, c <= Len(k.recvQueue), NEW m \in 1 .. Len(Messages[p]), m = Len(g) + 1,
           Segments(p, m) = Segments(p, Len(g)) + c, Message(p, m) \in Seq(Nat \X Nat),
           NEW k2, k2 = [k EXCEPT !.recvQueue = SubSeq(k.recvQueue, c + 1, Len(k.recvQueue))]
    PROVE  /\ k2 \in KcpRecord /\ EarlyEnd(p, k2, Append(g, Message(p, m)), top)
           /\ SameSender(k, k2) /\ Grown(k, k2)
<1>1. PICK q \in Seq(Fragment) : q = k.recvQueue
  BY PartsOf
<1>2. PICK lq \in Nat, rn \in Nat, w \in Nat :
        /\ lq = Len(q) /\ DOMAIN q = 1 .. lq /\ rn = Count(k.recvNext) /\ w = RecvWindow
  <2>1. Len(q) \in Nat /\ DOMAIN q = 1 .. Len(q)
    BY LengthIs
  <2>2. Count(k.recvNext) \in Nat /\ RecvWindow \in Nat
    BY PartsOf, Consts
  <2> QED BY <2>1, <2>2
<1>3. c \in 0 .. lq
  BY <1>1, <1>2
<1>4. PICK r \in Seq(Fragment) : IsRest(r, q, c, lq)
  BY <1>2, <1>3, RestIs
<1>5. /\ r = SubSeq(q, c + 1, lq) /\ Len(r) = lq - c /\ DOMAIN r = 1 .. lq - c
      /\ \A i \in 1 .. lq - c : r[i] = q[c + i] /\ c + i \in 1 .. lq
  BY <1>4 DEF IsRest
<1>6. k2 = [k EXCEPT !.recvQueue = r]
  BY <1>1, <1>2, <1>5
<1>7. /\ k2 \in KcpRecord /\ k2.recvQueue = r /\ k2.recvNext = k.recvNext
      /\ k2.sendNext = k.sendNext
      /\ k2.recvBuffer = k.recvBuffer /\ k2.ackList = k.ackList /\ SameSender(k, k2)
  BY <1>6 DEF KcpRecord, SameSender
<1>8. EarlyInv(p, k2, top) /\ Count(k2.recvNext) <= top
      /\ \A i \in DOMAIN k2.ackList : HasSegment(k2, Count(k2.ackList[i]))
  BY <1>7 DEF EarlyEnd, EarlyInv, HasSegment
<1>9. PICK x \in Seq(Nat \X Nat) : x = Message(p, m)
  OBVIOUS
<1>10. PICK g2 : g2 = Append(g, x)
  OBVIOUS
<1>11. /\ g \in Seq(Seq(Nat \X Nat)) /\ lq <= w
       /\ Segments(p, Len(g)) = rn - lq
       /\ \A i \in 1 .. lq : IsItem(p, rn - lq + i - 1, q[i])
       /\ \A j \in DOMAIN g : g[j] = Message(p, j)
  BY <1>1, <1>2 DEF EarlyEnd, ReadInv
<1>12. /\ g2 \in Seq(Seq(Nat \X Nat)) /\ Len(g2) = m
       /\ \A j \in DOMAIN g2 : g2[j] = Message(p, j)
  <2>1. PICK G \in Nat : G = Len(g) /\ DOMAIN g = 1 .. G
    BY <1>11, LengthIs
  <2>2. g2 \in Seq(Seq(Nat \X Nat)) /\ Len(g2) = G + 1
        /\ (\A j \in 1 .. G : g2[j] = g[j]) /\ g2[G + 1] = x
    BY <1>10, <1>11, <2>1, AppendProperties
  <2>3. DOMAIN g2 = 1 .. G + 1
    BY <2>2, LengthIs
  <2>4. m = G + 1
    BY <2>1
  <2>5. ASSUME NEW j \in 1 .. G + 1 PROVE g2[j] = Message(p, j)
    <3>1. CASE j \in 1 .. G
      BY <1>11, <2>1, <2>2, <3>1
    <3>2. CASE j = G + 1
      BY <1>9, <2>2, <2>4, <3>2
    <3> QED BY <3>1, <3>2
  <2> QED BY <2>2, <2>3, <2>4, <2>5
<1>20. PICK lr \in Nat : lr = Len(r) /\ lr = lq - c
  BY <1>3, <1>5
<1>13. Len(r) <= RecvWindow /\ rn - Len(r) = rn - lq + c
  <2>1. lr <= w /\ rn - lr = rn - lq + c
    BY <1>3, <1>11, <1>20
  <2> QED BY <1>2, <1>20, <2>1
<1>14. Segments(p, Len(g2)) = rn - Len(r)
  BY <1>11, <1>12, <1>13
<1>15. ASSUME NEW i \in DOMAIN r PROVE IsItem(p, rn - Len(r) + i - 1, r[i])
  <2>1. i \in 1 .. lq - c
    BY <1>5
  <2>2. r[i] = q[c + i] /\ c + i \in 1 .. lq
    BY <1>5, <2>1
  <2>3. rn - lq + (c + i) - 1 = rn - Len(r) + i - 1
    <3>1. rn - lq + (c + i) - 1 = rn - lr + i - 1
      BY <1>3, <1>20, <2>1
    <3> QED BY <1>20, <3>1
  <2> QED BY <1>11, <2>2, <2>3
<1>16. ReadInv(p, k2, g2)
  <2>1. Len(g2) \in 0 .. Len(Messages[p])
    <3>1. Len(Messages[p]) \in Nat
      BY Consts
    <3> QED BY <1>12, <3>1
  <2> QED BY <1>2, <1>7, <1>12, <1>13, <1>14, <1>15, <2>1 DEF ReadInv
<1>17. Grown(k, k2)
  BY <1>7, GrownSame
<1> QED BY <1>7, <1>8, <1>9, <1>10, <1>16, <1>17 DEF EarlyEnd

\* receiveKCP() at e: the first message comes out, and what is ready moves up.
LEMMA ReceiveKCPStep ==
    ASSUME ShortTalk, KcpInv, NEW e \in End, ReceiveKCP(e)
    PROVE  /\ KcpInv'
           /\ \E m \in 1 .. Len(Messages[Peer(e)]) :
                 /\ m = Len(got[e]) + 1
                 /\ got' = [got EXCEPT ![e] = Append(@, Message(Peer(e), m))]
<1>1. PICK p \in End : p = Peer(e) /\ Peer(p) = e /\ p # e /\ \A d \in End : d = e \/ d = p
  BY PeerIs DEF End
<1>2. PICK k, s, g, o : k = kcp[e] /\ s = sent[e] /\ g = got[e] /\ o = kcp[p]
  OBVIOUS
<1>3. /\ k \in KcpRecord /\ o \in KcpRecord /\ EndInv(e, k, s, g, o)
      /\ Count(o.sendNext) <= Total(p)
      /\ net[e] \in Seq(Seq(NetSegment)) /\ net[p] \in Seq(Seq(NetSegment))
      /\ NetInv(e, k, net[p]) /\ NetInv(p, o, net[e])
  BY <1>1, <1>2, EndOf
<1>4. PICK top \in Nat : top = Count(o.sendNext)
  BY <1>3, PartsOf
<1>5. SenderInv(e, k, s, o) /\ ReceiverInv(p, k, g, top) /\ s \in Nat
  BY <1>1, <1>3, <1>4 DEF EndInv
<1>6. EarlyEnd(p, k, g, top)
  BY <1>5 DEF ReceiverInv, EarlyEnd
<1>7. HasMessage(k)
  BY <1>2 DEF ReceiveKCP
<1>8. PICK m \in 1 .. Len(Messages[p]), c \in Nat :
        /\ m = Len(g) + 1
        /\ c <= Len(k.recvQueue) /\ EndOfMessage(k) = c
        /\ Segments(p, m) = Segments(p, Len(g)) + c
        /\ [i \in 1 .. c |-> k.recvQueue[i].data] = Message(p, m)
        /\ Message(p, m) \in Seq(Nat \X Nat)
  BY <1>3, <1>4, <1>6, <1>7, FirstMessage DEF EarlyEnd
<1>9. PICK k0 : k0 = [k EXCEPT !.recvQueue = SubSeq(k.recvQueue, c + 1, Len(k.recvQueue))]
  OBVIOUS
<1>10. PICK g2 : g2 = Append(g, Message(p, m))
  OBVIOUS
<1>11. k0 \in KcpRecord /\ EarlyEnd(p, k0, g2, top) /\ SameSender(k, k0) /\ Grown(k, k0)
  BY <1>3, <1>6, <1>8, <1>9, <1>10, TakenKeeps
<1>12. PICK k1 : k1 = MoveReady(k0)
  OBVIOUS
<1>13. /\ k1 \in KcpRecord /\ ReceiverInv(p, k1, g2, top) /\ Grown(k0, k1) /\ SameSender(k0, k1)
  BY <1>3, <1>4, <1>11, <1>12, MoveReadyKeeps
<1>14. PICK k2 :
        /\ k2 = k1 \/ k2 = [k1 EXCEPT !.probe = @ \cup {"TELL"}]
        /\ kcp' = [kcp EXCEPT ![e] = k2]
  <2>1. k.recvQueue = kcp[e].recvQueue /\ EndOfMessage(kcp[e]) = c
    BY <1>2, <1>8
  <2>2. kcp' = [kcp EXCEPT ![e] =
                  IF Len(k.recvQueue) >= RecvWindow /\ Len(k1.recvQueue) < RecvWindow
                  THEN [k1 EXCEPT !.probe = @ \cup {"TELL"}] ELSE k1]
    BY <1>2, <1>9, <1>12, <2>1 DEF ReceiveKCP
  <2> QED BY <2>2
<1>15. /\ k2 \in KcpRecord /\ SameSender(k1, k2) /\ k2.recvNext = k1.recvNext
       /\ k2.recvBuffer = k1.recvBuffer /\ k2.recvQueue = k1.recvQueue /\ k2.ackList = k1.ackList
  <2>1. k1.probe \cup {"TELL"} \in SUBSET {"ASK", "TELL"}
    BY <1>13 DEF KcpRecord
  <2> QED BY <1>13, <1>14, <2>1 DEF KcpRecord, SameSender
<1>16. SameSender(k, k2)
  BY <1>11, <1>13, <1>15 DEF SameSender
<1>17. SenderInv(e, k2, s, o)
  BY <1>5, <1>16, SenderSame DEF SameSender
<1>18. ReceiverInv(p, k2, g2, top)
  BY <1>13, <1>15, ReceiverSame
<1>19. EndInv(e, k2, s, g2, o)
  BY <1>1, <1>4, <1>5, <1>15, <1>17, <1>18 DEF EndInv
<1>20. Grown(k, k2)
  <2>1. Grown(k1, k2)
    BY <1>13, <1>15, GrownSame DEF SameSender
  <2>2. Grown(k, k1)
    BY <1>3, <1>11, <1>13, GrownAgain
  <2> QED BY <1>3, <1>13, <1>15, <2>1, <2>2, GrownAgain
<1>21. NetInv(e, k2, net[p])
  BY <1>3, <1>15, <1>20, NetOfGrown
<1>22. got' = [got EXCEPT ![e] = g2] /\ UNCHANGED <<net, sent>>
  <2>1. k.recvQueue = kcp[e].recvQueue /\ EndOfMessage(kcp[e]) = c
    BY <1>2, <1>8
  <2>2. /\ got' = [got EXCEPT ![e] = Append(got[e], [i \in 1 .. c |-> k.recvQueue[i].data])]
        /\ UNCHANGED <<net, sent>>
    BY <2>1 DEF ReceiveKCP
  <2> QED BY <1>2, <1>8, <1>10, <2>2
<1>23. DOMAIN got' = End /\ got'[e] = g2 /\ \A d2 \in End : d2 # e => got'[d2] = got[d2]
  BY <1>22 DEF KcpInv
<1>24. DOMAIN net' = End /\ net'[p] = net[p] /\ net'[e] = net[e]
  BY <1>22 DEF KcpInv
<1>25. \A d2 \in End : net'[d2] \in Seq(Seq(NetSegment))
  BY <1>1, <1>3, <1>24
<1>26. sent' = [sent EXCEPT ![e] = s]
  BY <1>2, <1>22 DEF KcpInv
<1>27. KcpInv'
  BY <1>1, <1>2, <1>3, <1>14, <1>15, <1>19, <1>20, <1>21, <1>23, <1>24, <1>25, <1>26, EndStep
<1> QED BY <1>1, <1>2, <1>8, <1>10, <1>22, <1>27

\* At the start nothing was said and nothing is known.
LEMMA KcpStarts == ASSUME KcpInit PROVE KcpInv
<1>1. /\ SNMod \in Nat /\ FirstSN \in SN /\ RecvWindow \in Nat /\ SendWindow \in Nat
      /\ WND_RCV \in Nat /\ Count(FirstSN) = 0
  BY Consts, CountFirst
<1>2. PICK k : k = NewKcp
  OBVIOUS
<1>3. k \in KcpRecord
  BY <1>1, <1>2 DEF NewKcp, KcpRecord
<1>4. /\ k.sendUNA = FirstSN /\ k.sendNext = FirstSN /\ k.recvNext = FirstSN
      /\ k.sendQueue = <<>> /\ k.sendBuffer = <<>> /\ k.recvBuffer = <<>>
      /\ k.recvQueue = <<>> /\ k.ackList = <<>>
  BY <1>2 DEF NewKcp
<1>5. ASSUME NEW e \in End
      PROVE  SenderInv(e, k, 0, k) /\ ReceiverInv(e, k, <<>>, 0) /\ NetInv(e, k, <<>>)
  <2>1. PICK L \in Nat : L = Len(Messages[e])
    BY Consts
  <2>2. Segments(e, 0) = 0 /\ 0 \in 0 .. L
    BY SegmentsAre
  <2>3. QueueInv(e, k, 0)
    BY <1>1, <1>4, <2>1, <2>2 DEF QueueInv
  <2>4. BufferInv(e, k)
    BY <1>1, <1>4 DEF BufferInv, Una
  <2>5. FreedInv(k, k)
    BY <1>1, <1>4 DEF FreedInv
  <2>6. EarlyInv(e, k, 0) /\ NoneReady(k)
    BY <1>4 DEF EarlyInv, NoneReady
  <2>7. ReadInv(e, k, <<>>)
    BY <1>1, <1>4, <2>1, <2>2 DEF ReadInv
  <2>8. ReceiverInv(e, k, <<>>, 0)
    BY <1>1, <1>4, <2>6, <2>7 DEF ReceiverInv
  <2> QED BY <2>3, <2>4, <2>5, <2>8 DEF SenderInv, NetInv
<1>6. /\ kcp = [e \in End |-> k] /\ net = [e \in End |-> <<>>]
      /\ sent = [e \in End |-> 0] /\ got = [e \in End |-> <<>>]
  BY <1>2 DEF KcpInit
<1>7. ASSUME NEW e \in End
      PROVE  /\ kcp[e] = k /\ kcp[Peer(e)] = k /\ sent[e] = 0
             /\ got[Peer(e)] = <<>> /\ net[Peer(e)] = <<>> /\ net[e] = <<>>
  BY <1>6, PeerIs
<1>8. <<>> \in Seq(Seq(NetSegment)) /\ Count(k.sendNext) = 0
  BY <1>1, <1>4
<1> QED BY <1>3, <1>5, <1>6, <1>7, <1>8 DEF KcpInv

\* A step of neither end.
LEMMA KcpStays ==
    ASSUME KcpInv, UNCHANGED <<kcp, net, sent, got>>
    PROVE  KcpInv'
BY DEF KcpInv, SenderInv, QueueInv, BufferInv, FreedInv, ReceiverInv, EarlyInv, NoneReady, ReadInv,
       NetInv, Says, HasSegment, Una

\* What comes out was sent.
LEMMA TakenWasSent ==
    ASSUME ShortTalk, KcpInv, NEW e \in End, ReceiveKCP(e)
    PROVE  Len(got[e]) + 1 <= sent[Peer(e)]
<1>1. PICK p \in End : p = Peer(e) /\ Peer(p) = e
  BY PeerIs
<1>2. PICK k, o, g : k = kcp[e] /\ o = kcp[p] /\ g = got[e]
  OBVIOUS
<1>3. PICK s \in Nat : s = sent[p] /\ QueueInv(p, o, s)
  BY <1>1, <1>2 DEF KcpInv, SenderInv
<1>4. k \in KcpRecord /\ o \in KcpRecord /\ ReceiverInv(p, k, g, Count(o.sendNext))
      /\ Count(o.sendNext) <= Total(p)
  BY <1>1, <1>2, EndOf DEF EndInv
<1>5. PICK top \in Nat, rn \in Nat : top = Count(o.sendNext) /\ rn = Count(k.recvNext)
  BY <1>4, PartsOf
<1>6. rn <= top /\ ReadInv(p, k, g)
  BY <1>4, <1>5 DEF ReceiverInv
<1>7. HasMessage(k)
  BY <1>2 DEF ReceiveKCP
<1>8. PICK m \in 1 .. Len(Messages[p]), c \in Nat :
        /\ m = Len(g) + 1 /\ c >= 1 /\ c <= Len(k.recvQueue)
        /\ Count(k.recvNext) - Len(k.recvQueue) = Segments(p, Len(g))
        /\ Segments(p, m) = Segments(p, Len(g)) + c
  BY <1>4, <1>5, <1>6, <1>7, FirstMessage
<1>9. PICK L \in Nat : L = Len(Messages[p])
  BY Consts
<1>10. PICK G \in Nat : G = Len(g) /\ G \in 0 .. L /\ m = G + 1
  BY <1>6, <1>8, <1>9 DEF ReadInv
<1>11. s \in 0 .. L
  BY <1>3, <1>9 DEF QueueInv
<1>12. PICK x \in Nat, y \in Nat : x = Segments(p, G) /\ y = Segments(p, s)
  BY <1>9, <1>10, <1>11, SegmentsAre
<1>13. PICK lq \in Nat : lq = Len(k.recvQueue)
  BY <1>4, PartsOf, LengthIs
<1>14. top <= y
  <2>1. PICK l \in Nat : l = Len(o.sendQueue)
    BY <1>4, PartsOf, LengthIs
  <2>2. top + l = y
    BY <1>3, <1>5, <1>12, <2>1 DEF QueueInv
  <2> QED BY <2>2
<1>15. x < y
  <2>1. rn - lq = x /\ c <= lq /\ c >= 1
    BY <1>5, <1>8, <1>10, <1>12, <1>13
  <2> QED BY <1>6, <1>14, <2>1
<1>16. ~(s <= G)
  <2>1. SUFFICES ASSUME s <= G PROVE FALSE
    OBVIOUS
  <2>2. y <= x
    BY <1>9, <1>10, <1>11, <1>12, <2>1, SegmentsGrow
  <2> QED BY <1>15, <2>2
<1> QED BY <1>1, <1>2, <1>3, <1>10, <1>16

\* Every step keeps the invariant.
LEMMA KcpKeeps ==
    ASSUME ShortTalk, KcpInv, [KcpNext]_vars
    PROVE  KcpInv'
<1>1. CASE UNCHANGED vars
  BY <1>1, KcpStays DEF vars
<1>2. CASE KcpNext
  <2>1. PICK e \in End : \/ SendKCP(e) \/ ReceiveKCP(e) \/ Update(e)
                         \/ \E i \in 1 .. NetCap[e], doubled \in BOOLEAN : Import(e, i, doubled)
    BY <1>2 DEF KcpNext
  <2>2. CASE SendKCP(e)
    BY <2>2, SendKCPStep
  <2>3. CASE ReceiveKCP(e)
    BY <2>3, ReceiveKCPStep
  <2>4. CASE Update(e)
    BY <2>4, UpdateStep
  <2>5. CASE \E i \in 1 .. NetCap[e], doubled \in BOOLEAN : Import(e, i, doubled)
    BY <2>5, ImportStep
  <2> QED BY <2>1, <2>2, <2>3, <2>4, <2>5
<1> QED BY <1>1, <1>2

\* Whatever the network loses, doubles or reorders, and whichever timers are
\* due at an update(): the lists of both ends fit each other.  What waits,
\* flies, has come too early and can be read are consecutive segments of the
\* messages, and what the sender has freed the receiver has.
THEOREM KcpInvariance == ASSUME ShortTalk PROVE KcpSpec => []KcpInv
<1>1. KcpInit => KcpInv
  BY KcpStarts
<1>2. KcpInv /\ [KcpNext]_vars => KcpInv'
  BY KcpKeeps
<1> QED BY <1>1, <1>2, PTL DEF KcpSpec

\* The windows, from the invariant.
LEMMA WindowsFollow == ASSUME ShortTalk, KcpInv PROVE WindowsKept
<1> USE DEF WindowsKept
<1>1. TAKE e \in End
<1>2. PICK p \in End : p = Peer(e) /\ Peer(p) = e
  BY PeerIs
<1>3. PICK k, o, g : k = kcp[e] /\ o = kcp[p] /\ g = got[e]
  OBVIOUS
<1>4. /\ k \in KcpRecord /\ o \in KcpRecord /\ ReceiverInv(p, k, g, Count(o.sendNext))
      /\ Count(o.sendNext) <= Total(p) /\ SenderInv(e, k, sent[e], o)
  BY <1>2, <1>3, EndOf DEF EndInv
<1>5. PICK top \in Nat, rn \in Nat, w \in Nat, t \in Nat :
        top = Count(o.sendNext) /\ rn = Count(k.recvNext) /\ w = RecvWindow /\ t = Total(p)
  BY <1>4, PartsOf, Consts, TotalIs
<1>6. top <= t /\ rn <= top /\ EarlyInv(p, k, top) /\ NoneReady(k) /\ ReadInv(p, k, g)
  BY <1>4, <1>5 DEF ReceiverInv
<1>7. PICK b \in Seq(Received) : b = k.recvBuffer
  BY <1>4, PartsOf
<1>8. PICK q \in Seq(Fragment) : q = k.recvQueue
  BY <1>4, PartsOf
<1>9. PICK edge \in SN : edge = Plus(k.recvNext, RecvWindow) /\ Count(edge) = rn + w
  <2>1. 2 * (t + w) <= SNMod
    BY <1>5, TotalIs
  <2>2. PICK m \in Nat : m = SNMod
    BY Consts
  <2>3. rn + w < m
    <3>1. m > 0
      BY <2>2, Consts
    <3> QED BY <1>6, <2>1, <2>2, <3>1
  <2> QED BY <1>4, <1>5, <2>2, <2>3, PlusIs, PartsOf
<1>10. ASSUME NEW i \in DOMAIN b
       PROVE  /\ b[i].sn \in SN /\ Count(b[i].sn) \in Nat /\ Count(b[i].sn) < rn + w
              /\ rn <= Count(b[i].sn) /\ Count(b[i].sn) < top
  BY <1>4, <1>5, <1>6, <1>7, PartsOf DEF EarlyInv
<1>11. ASSUME NEW i \in DOMAIN b
       PROVE  BelowWindow(k, b[i].sn) /\ ~IsOld(k, b[i].sn)
  <2>1. PICK sn \in SN, c \in Nat : sn = b[i].sn /\ c = Count(sn)
    BY <1>10
  <2>2. rn <= c /\ c < rn + w /\ c < top
    BY <1>10, <2>1
  <2>3. c <= t /\ rn + w <= t + w /\ rn <= t + w
    BY <1>6, <2>2
  <2>4. Diff(sn, edge) = c - (rn + w)
    BY <1>5, <1>9, <2>1, <2>3, DiffNear
  <2>5. Diff(sn, k.recvNext) = c - rn
    BY <1>4, <1>5, <2>1, <2>3, DiffNear, PartsOf
  <2> QED BY <1>9, <2>1, <2>2, <2>4, <2>5 DEF BelowWindow, IsOld
<1>12. ASSUME NEW i \in DOMAIN b, i > 1 PROVE Diff(b[i].sn, b[i - 1].sn) > 0
  <2>1. i - 1 \in DOMAIN b /\ i - 1 < i
    BY <1>12, LengthIs
  <2>2. PICK x \in SN, y \in SN, c \in Nat, d \in Nat :
          x = b[i].sn /\ y = b[i - 1].sn /\ c = Count(x) /\ d = Count(y)
    BY <1>10, <2>1
  <2>3. d < c
    BY <1>6, <1>7, <2>1, <2>2 DEF EarlyInv
  <2>4. c <= t /\ d <= t + w
    <3>1. c < top /\ d < top
      BY <1>10, <2>1, <2>2
    <3> QED BY <1>6, <3>1
  <2>5. Diff(x, y) = c - d
    BY <1>5, <2>2, <2>4, DiffNear
  <2> QED BY <2>2, <2>3, <2>5
<1>13. Len(q) \in Nat /\ Len(q) <= RecvWindow
  BY <1>6, <1>8, LengthIs DEF ReadInv
<1>14. b # <<>> /\ b[1].sn = k.recvNext => Len(q) = RecvWindow
  BY <1>5, <1>6, <1>7, <1>8, <1>13 DEF NoneReady
<1>15. Diff(k.sendNext, k.sendUNA) \in 0 .. SendWindow
  <2>1. PICK x \in Nat, y \in Nat, z \in Nat :
          x = Count(k.sendNext) /\ y = Count(k.sendUNA) /\ z = SendWindow
    BY <1>4, PartsOf, Consts
  <2>2. y <= x /\ x <= y + z
    BY <1>4, <2>1 DEF SenderInv, BufferInv
  <2>3. PICK u \in Nat : u = Total(e) /\ x <= u
    BY <1>4, <2>1, NumberedIs, TotalIs
  <2>4. x <= u /\ y <= u + w
    BY <2>2, <2>3
  <2>5. Diff(k.sendNext, k.sendUNA) = x - y
    BY <1>4, <1>5, <2>1, <2>3, <2>4, DiffNear, PartsOf
  <2> QED BY <2>1, <2>2, <2>5
<1> QED BY <1>3, <1>7, <1>8, <1>11, <1>12, <1>13, <1>14, <1>15

\* Nothing is freed too soon, from the invariant.
LEMMA ReleasedFollows == ASSUME ShortTalk, KcpInv PROVE ReleasedOnlyWhenHeld
<1> USE DEF ReleasedOnlyWhenHeld
<1>1. TAKE e \in End
<1>2. PICK p \in End : p = Peer(e) /\ Peer(p) = e
  BY PeerIs
<1>3. PICK k, r : k = kcp[e] /\ r = kcp[p]
  OBVIOUS
<1>4. k \in KcpRecord /\ r \in KcpRecord /\ SenderInv(e, k, sent[e], r)
  BY <1>2, <1>3, EndOf DEF EndInv
<1>5. PICK x \in Nat, rn \in Nat, t \in Nat, w \in Nat, m \in Nat :
        /\ x = Count(k.sendNext) /\ rn = Count(r.recvNext) /\ t = Total(e) /\ w = RecvWindow
        /\ m = SNMod
  BY <1>4, PartsOf, TotalIs, Consts
<1>6. rn <= x /\ x <= t
  BY <1>4, <1>5, NumberedIs DEF SenderInv, FreedInv
<1>7. Diff(k.sendNext, r.recvNext) = x - rn
  <2>1. rn <= t + w
    BY <1>6
  <2> QED BY <1>4, <1>5, <1>6, <2>1, DiffNear, PartsOf
<1>8. ASSUME NEW i \in 0 .. x - rn - 1
      PROVE  LET sn == Plus(r.recvNext, i) IN
             Buffered(k.sendBuffer, sn) \/ Buffered(r.recvBuffer, sn)
  <2>1. PICK n \in Nat : n = rn + i /\ n \in 0 .. x - 1 /\ ~(n < rn)
    BY <1>6
  <2>2. n < m
    <3>1. 2 * (t + w) <= m /\ m > 0
      BY <1>5, TotalIs, Consts
    <3> QED BY <1>6, <2>1, <3>1
  <2>3. PICK sn \in SN : sn = Plus(r.recvNext, i) /\ Count(sn) = n
    <3>1. PICK a \in SN : a = r.recvNext /\ Count(a) = rn
      BY <1>4, <1>5, PartsOf
    <3>2. i \in Nat /\ Count(a) + i < SNMod /\ Count(a) + i = n
      BY <1>5, <2>1, <2>2, <3>1
    <3>3. Plus(a, i) \in SN /\ Count(Plus(a, i)) = Count(a) + i
      BY <3>2, PlusIs
    <3> QED BY <3>1, <3>2, <3>3
  <2>4. \/ HasSegment(r, n)
        \/ \E j \in DOMAIN k.sendBuffer : Count(k.sendBuffer[j].sn) = n
    BY <1>4, <1>5, <2>1 DEF SenderInv, FreedInv
  <2>5. \/ \E j \in DOMAIN r.recvBuffer : Count(r.recvBuffer[j].sn) = n
        \/ \E j \in DOMAIN k.sendBuffer : Count(k.sendBuffer[j].sn) = n
    BY <1>5, <2>1, <2>4 DEF HasSegment
  <2>6. \/ \E j \in DOMAIN r.recvBuffer : r.recvBuffer[j].sn = sn
        \/ \E j \in DOMAIN k.sendBuffer : k.sendBuffer[j].sn = sn
    BY <1>4, <2>3, <2>5, CountOnce, PartsOf
  <2> QED BY <2>3, <2>6 DEF Buffered
<1> QED BY <1>2, <1>3, <1>6, <1>7, <1>8

\* parseSeg, receiveKCP() and flush() keep to the windows, for all sizes of
\* them and all conversations shorter than half the width of the numbers.
THEOREM WindowsCorrect == ASSUME ShortTalk PROVE KcpSpec => []WindowsKept
<1>1. KcpInv => WindowsKept
  BY WindowsFollow
<1> QED BY <1>1, KcpInvariance, PTL

\* parseUNA and parseACK never free a segment that the other end has not
\* got, whatever stale or doubled acknowledgement they were given.
THEOREM ReleasedCorrect == ASSUME ShortTalk PROVE KcpSpec => []ReleasedOnlyWhenHeld
<1>1. KcpInv => ReleasedOnlyWhenHeld
  BY ReleasedFollows
<1> QED BY <1>1, KcpInvariance, PTL

\* What a step does to what was sent by e and came out at the other end: no
\* more than the abstract queue.
Passes(e) ==
    \/ Put(e)' = Put(e) /\ got'[Peer(e)] = got[Peer(e)]
    \/ /\ \E x \in Whole(e) : Put(e)' = Append(Put(e), x)
       /\ got'[Peer(e)] = got[Peer(e)]
    \/ /\ Len(got[Peer(e)]) < Len(Put(e)) /\ Put(e)' = Put(e)
       /\ got'[Peer(e)] = Append(got[Peer(e)], Put(e)[Len(got[Peer(e)]) + 1])

\* What did not send has put nothing.
LEMMA PutSame == ASSUME NEW e \in End, sent'[e] = sent[e] PROVE Put(e)' = Put(e)
  BY DEF Put

\* One more message sent is one more put.
LEMMA PutMore ==
    ASSUME NEW e \in End, sent[e] \in Nat, sent'[e] = sent[e] + 1,
           sent'[e] \in DOMAIN Messages[e]
    PROVE  \E x \in Whole(e) : Put(e)' = Append(Put(e), x)
<1>1. PICK s \in Nat : s = sent[e] /\ sent'[e] = s + 1
  OBVIOUS
<1>2. PICK x \in Whole(e) : x = Message(e, s + 1)
  BY <1>1 DEF Whole
<1>3. PICK f : f = [n \in 1 .. s |-> Message(e, n)]
  OBVIOUS
<1>4. PICK X : X = {Message(e, n) : n \in 1 .. s + 1}
  OBVIOUS
<1>5. PICK h : h = [n \in 1 .. s + 1 |-> Message(e, n)]
  OBVIOUS
<1>6. h = Append(f, x)
  <2>0. \A n \in 1 .. s + 1 : Message(e, n) \in X
    BY <1>4
  <2>a. x \in X /\ \A n \in 1 .. s : n \in 1 .. s + 1
    BY <1>2, <2>0
  <2>b. f \in [1 .. s -> X] /\ h \in [1 .. s + 1 -> X]
    BY <1>3, <1>5, <2>0, <2>a
  <2>1. f \in Seq(X) /\ Len(f) = s /\ h \in Seq(X) /\ Len(h) = s + 1
    BY <2>b
  <2>c. PICK a : a = Append(f, x)
    OBVIOUS
  <2>d. /\ a \in Seq(X) /\ Len(a) = Len(f) + 1 /\ a[Len(f) + 1] = x
        /\ \A n \in 1 .. Len(f) : a[n] = f[n]
    BY <2>1, <2>a, <2>c, AppendProperties
  <2>2. /\ a \in Seq(X) /\ a = Append(f, x) /\ Len(a) = s + 1 /\ a[s + 1] = x
        /\ \A n \in 1 .. s : a[n] = f[n]
    BY <2>1, <2>c, <2>d
  <2>3. \A n \in 1 .. s + 1 : h[n] = a[n]
    BY <1>2, <1>3, <1>5, <2>2
  <2> QED BY <2>1, <2>2, <2>3, SeqEqual
<1>7. Put(e) = f /\ Put(e)' = h
  BY <1>1, <1>3, <1>5 DEF Put
<1> QED BY <1>6, <1>7

\* Every step is one of the abstract queue from e to its peer, or none.
LEMMA KcpPasses ==
    ASSUME ShortTalk, KcpInv, [KcpNext]_vars, NEW e \in End
    PROVE  Passes(e)
<1>1. PICK p \in End : p = Peer(e) /\ Peer(p) = e /\ p # e /\ \A d \in End : d = e \/ d = p
  BY PeerIs DEF End
<1>2. sent \in [End -> Nat] /\ DOMAIN got = End
  BY DEF KcpInv
<1>3. CASE UNCHANGED vars
  BY <1>1, <1>3, PutSame DEF vars, Passes
<1>4. CASE KcpNext
  <2>1. PICK d \in End : \/ SendKCP(d) \/ ReceiveKCP(d) \/ Update(d)
                         \/ \E i \in 1 .. NetCap[d], doubled \in BOOLEAN : Import(d, i, doubled)
    BY <1>4 DEF KcpNext
  <2>2. CASE SendKCP(d)
    <3>1. CASE d = e
      <4>1. /\ sent'[e] = sent[e] + 1 /\ got' = got
            /\ sent[e] < Len(Messages[e])
        BY <1>2, <2>2, <3>1 DEF SendKCP
      <4>2. sent'[e] \in DOMAIN Messages[e]
        <5>1. Messages[e] \in Seq(Nat) /\ sent[e] \in Nat
          BY <1>2, Consts
        <5>2. PICK l \in Nat : l = Len(Messages[e]) /\ DOMAIN Messages[e] = 1 .. l
          BY <5>1, LengthIs
        <5> QED BY <4>1, <5>1, <5>2
      <4> QED BY <1>1, <1>2, <4>1, <4>2, PutMore DEF Passes
    <3>2. CASE d # e
      <4>1. sent'[e] = sent[e] /\ got' = got
        BY <1>2, <2>2, <3>2 DEF SendKCP
      <4> QED BY <4>1, PutSame DEF Passes
    <3> QED BY <3>1, <3>2
  <2>3. CASE ReceiveKCP(d)
    <3>0. sent' = sent
      BY <2>3 DEF ReceiveKCP
    <3>1. CASE d = p
      <4>1. PICK g : g = got[p]
        OBVIOUS
      <4>2. PICK m \in 1 .. Len(Messages[e]) :
              m = Len(g) + 1 /\ got' = [got EXCEPT ![p] = Append(got[p], Message(e, m))]
        BY <1>1, <2>3, <3>1, <4>1, ReceiveKCPStep
      <4>3. got'[p] = Append(g, Message(e, m))
        BY <1>2, <4>1, <4>2
      <4>4. m <= sent[e]
        BY <1>1, <2>3, <3>1, <4>1, <4>2, TakenWasSent
      <4>5. PICK s \in Nat : s = sent[e]
        BY <1>2
      <4>6. Len(g) \in Nat /\ m \in 1 .. s /\ Len(g) < s
        <5>1. Len(g) \in Nat
          <6>1. got[Peer(e)] \in Seq(Seq(Nat \X Nat))
            BY DEF KcpInv, ReceiverInv, ReadInv
          <6> QED BY <1>1, <4>1, <6>1, LengthIs
        <5> QED BY <4>2, <4>4, <4>5, <5>1
      <4>7. Put(e) = [n \in 1 .. s |-> Message(e, n)]
        BY <4>5 DEF Put
      <4>8. Len(Put(e)) = s /\ Put(e)[m] = Message(e, m)
        BY <4>6, <4>7
      <4>9. Put(e)' = Put(e)
        BY <3>0, PutSame
      <4> QED BY <1>1, <4>1, <4>2, <4>3, <4>6, <4>8, <4>9 DEF Passes
    <3>2. CASE d # p
      <4>1. got'[p] = got[p]
        BY <1>2, <2>3, <3>2 DEF ReceiveKCP
      <4> QED BY <1>1, <3>0, <4>1, PutSame DEF Passes
    <3> QED BY <3>1, <3>2
  <2>4. CASE Update(d)
    <3>1. sent' = sent /\ got' = got
      BY <2>4 DEF Update
    <3> QED BY <3>1, PutSame DEF Passes
  <2>5. CASE \E i \in 1 .. NetCap[d], doubled \in BOOLEAN : Import(d, i, doubled)
    <3>1. sent' = sent /\ got' = got
      BY <2>5 DEF Import
    <3> QED BY <3>1, PutSame DEF Passes
  <2> QED BY <2>1, <2>2, <2>3, <2>4, <2>5
<1> QED BY <1>3, <1>4

\* Both directions.
LEMMA KcpRefines ==
    ASSUME ShortTalk, KcpInv, [KcpNext]_vars
    PROVE  /\ [AtoB!Next]_<<Put("a"), got["b"]>>
           /\ [BtoA!Next]_<<Put("b"), got["a"]>>
<1>1. "a" \in End /\ "b" \in End /\ Peer("a") = "b" /\ Peer("b") = "a"
  BY PeerIs DEF End
<1>2. Passes("a") /\ Passes("b")
  BY <1>1, KcpPasses
<1>3. [AtoB!Next]_<<Put("a"), got["b"]>>
  BY <1>1, <1>2 DEF Passes, AtoB!Next, AtoB!Put, AtoB!Get
<1>4. [BtoA!Next]_<<Put("b"), got["a"]>>
  BY <1>1, <1>2 DEF Passes, BtoA!Next, BtoA!Put, BtoA!Get
<1> QED BY <1>3, <1>4

\* Nothing is put and nothing has come out.
LEMMA KcpStartsEmpty == ASSUME KcpInit PROVE AtoB!Init /\ BtoA!Init
  BY DEF KcpInit, AtoB!Init, BtoA!Init, Put, End

\* KCP is two queues: from whatever the network makes of the datagrams of
\* flush(), receiveKCP() returns the messages that sendKCP() took, whole, in
\* order and each once.
THEOREM DeliversCorrect == ASSUME ShortTalk PROVE KcpSpec => DeliversInOrder
<1>1. KcpInit => AtoB!Init /\ BtoA!Init
  BY KcpStartsEmpty
<1>2. KcpInv /\ [KcpNext]_vars => /\ [AtoB!Next]_<<Put("a"), got["b"]>>
                                  /\ [BtoA!Next]_<<Put("b"), got["a"]>>
  BY KcpRefines
<1> QED BY <1>1, <1>2, KcpInvariance, PTL DEF KcpSpec, DeliversInOrder, AtoB!Spec, BtoA!Spec

-----------------------------------------------------------------------------
(* Powers of 2.                                                            *)

\* The sizes double.
LEMMA PowerIs ==
    /\ Power \in [0 .. Bits -> Nat] /\ Power[0] = 1
    /\ \A b \in 1 .. Bits : Power[b] = 2 * Power[b - 1]
<1> DEFINE step == [p \in Nat \X (1 .. Bits) |-> 2 * p[1]]
           Is(f) == f = [i \in 0 .. Bits |-> IF i = 0 THEN 1 ELSE 2 * f[i - 1]]
<1>0. Bits \in Nat /\ 1 \in Nat
  BY DictConstants
<1>1. Steps(Bits, Nat, step)
  BY <1>0 DEF Steps
<1>2. PICK f \in [0 .. Bits -> Nat] : f[0] = 1 /\ \A i \in 1 .. Bits : f[i] = 2 * f[i - 1]
  <2>1. Orbit(Bits, Nat, 1, step)
    <3> HIDE DEF step
    <3> QED BY <1>0, <1>1, Iterates
  <2>2. PICK f \in [0 .. Bits -> Nat] : f[0] = 1 /\ \A i \in 1 .. Bits : f[i] = step[<<f[i - 1], i>>]
    BY <2>1 DEF Orbit
  <2>3. \A i \in 1 .. Bits : f[i - 1] \in Nat
    BY <1>0
  <2>4. \A q \in Nat, i \in 1 .. Bits : step[<<q, i>>] = 2 * q
    OBVIOUS
  <2> HIDE DEF step
  <2> QED BY <2>2, <2>3, <2>4
<1>3. Is(f)
  <2>1. \A i \in 0 .. Bits : f[i] = IF i = 0 THEN 1 ELSE 2 * f[i - 1]
    BY <1>0, <1>2
  <2> QED BY <1>2, <2>1
<1>4. Power = CHOOSE g : Is(g)
  BY DEF Power
<1>5. Is(Power)
  BY <1>3, <1>4
<1>6. \A i \in 0 .. Bits : Power[i] = IF i = 0 THEN 1 ELSE 2 * Power[i - 1]
  BY <1>5
<1>7. DOMAIN Power = 0 .. Bits
  BY <1>5
<1> HIDE DEF Is
<1>8. Power[0] = 1 /\ \A b \in 1 .. Bits : Power[b] = 2 * Power[b - 1]
  BY <1>0, <1>6
<1>9. \A i \in 0 .. Bits : Power[i] \in Nat
  <2>1. Power[0] \in Nat
    BY <1>8
  <2>2. \A i \in 1 .. Bits : Power[i - 1] \in Nat => Power[i] \in Nat
    BY <1>0, <1>8
  <2> QED BY <1>0, <2>1, <2>2, AllAlong
<1>10. Power = [i \in 0 .. Bits |-> Power[i]]
  BY <1>5 DEF Is
<1> QED BY <1>8, <1>9, <1>10

-----------------------------------------------------------------------------
(* Division.                                                               *)

\* A product grows with its factor.
LEMMA TimesUp == ASSUME NEW s \in Nat, NEW a \in Nat, NEW b \in Nat, a < b
                 PROVE  s * a + s <= s * b
<1>1. PICK c \in Nat : b = a + 1 + c
  <2>1. b - a - 1 \in Nat /\ b = a + 1 + (b - a - 1)
    OBVIOUS
  <2> QED BY <2>1
<1>2. s * b = s * a + s + s * c
  BY <1>1
<1>3. s * c \in Nat
  OBVIOUS
<1>4. s * a \in Nat
  OBVIOUS
<1> QED BY <1>2, <1>3, <1>4

\* Quotient and remainder are the only ones.
LEMMA Unique == ASSUME NEW s \in Nat, NEW q \in Nat, NEW p \in Nat, NEW r \in 0 .. s - 1,
                       NEW t \in 0 .. s - 1, s * q + r = s * p + t
                PROVE  q = p /\ r = t
<1>0. s * q \in Nat /\ s * p \in Nat
  OBVIOUS
<1>1. ~ (q < p)
  <2>1. SUFFICES ASSUME q < p PROVE FALSE
    OBVIOUS
  <2>2. s * q + s <= s * p
    BY <2>1, TimesUp
  <2> QED BY <1>0, <2>2
<1>2. ~ (p < q)
  <2>1. SUFFICES ASSUME p < q PROVE FALSE
    OBVIOUS
  <2>2. s * p + s <= s * q
    BY <2>1, TimesUp
  <2> QED BY <1>0, <2>2
<1>3. q = p
  BY <1>1, <1>2
<1> QED BY <1>0, <1>3

\* What quotient and remainder are.
LEMMA DivMod == ASSUME NEW x \in Nat, NEW s \in Nat, s > 0
                PROVE  /\ x \div s \in Nat /\ x % s \in 0 .. s - 1
                       /\ x = s * (x \div s) + (x % s)
  OBVIOUS

\* A quotient and what it leaves.
LEMMA Divide == ASSUME NEW x \in Nat, NEW s \in Nat, s > 0
                PROVE  \E q \in Nat, r \in 0 .. s - 1 :
                           q = x \div s /\ r = x % s /\ x = s * q + r
<1>1. x \div s \in Nat /\ x % s \in 0 .. s - 1 /\ x = s * (x \div s) + (x % s)
  BY DivMod
<1> QED BY <1>1

\* Division backwards.
LEMMA DivIs == ASSUME NEW s \in Nat, s > 0, NEW q \in Nat, NEW r \in 0 .. s - 1,
                      NEW x, x = s * q + r
               PROVE  x \div s = q /\ x % s = r
<1>1. x \in Nat
  <2>1. s * q \in Nat
    OBVIOUS
  <2> QED BY <2>1
<1>2. x \div s \in Nat /\ x % s \in 0 .. s - 1 /\ x = s * (x \div s) + (x % s)
  BY <1>1, DivMod
<1>3. PICK a \in Nat, b \in 0 .. s - 1 : a = x \div s /\ b = x % s
  BY <1>2
<1>4. s * q + r = s * a + b
  BY <1>2, <1>3
<1> QED BY <1>3, <1>4, Unique

\* A remainder by a multiple has the same remainder.
LEMMA ModMod == ASSUME NEW x \in Nat, NEW s \in Nat, s > 0, NEW t \in Nat, t > 0
                PROVE  (x % (s * t)) % s = x % s
<1>1. s * t \in Nat /\ s * t > 0
  OBVIOUS
<1>2. PICK w \in Nat : w = s * t /\ w > 0
  BY <1>1
<1>3. PICK q \in Nat, y \in 0 .. w - 1 : q = x \div w /\ y = x % w /\ x = w * q + y
  BY <1>2, Divide
<1>4. PICK c \in Nat, r \in 0 .. s - 1 : c = y \div s /\ r = y % s /\ y = s * c + r
  BY Divide
<1>5. w * q = s * (t * q)
  BY <1>2
<1>6. t * q \in Nat
  OBVIOUS
<1>7. PICK e \in Nat : e = t * q
  BY <1>6
<1>8. x = s * e + (s * c + r)
  BY <1>3, <1>4, <1>5, <1>7
<1>9. x = s * (e + c) + r
  BY <1>8
<1>10. x % s = r
  BY <1>9, DivIs
<1> QED BY <1>2, <1>3, <1>4, <1>10

\* Dividing twice.
LEMMA DivDiv == ASSUME NEW x \in Nat, NEW s \in Nat, s > 0, NEW t \in Nat, t > 0
                PROVE  (x \div s) \div t = x \div (s * t)
<1>1. PICK q \in Nat, r \in 0 .. s - 1 : q = x \div s /\ x = s * q + r
  BY Divide
<1>2. PICK c \in Nat, d \in 0 .. t - 1 : c = q \div t /\ q = t * c + d
  BY Divide
<1>3. PICK w \in Nat : w = s * t /\ w > 0
  <2>1. s * t \in Nat /\ s * t > 0
    OBVIOUS
  <2> QED BY <2>1
<1>4. s * q = w * c + s * d
  BY <1>2, <1>3
<1>5. s * d + r \in 0 .. w - 1
  <2>1. s * d + s <= s * t
    BY TimesUp
  <2>2. s * d \in Nat
    OBVIOUS
  <2> QED BY <1>3, <2>1, <2>2
<1>6. PICK z \in 0 .. w - 1 : z = s * d + r
  BY <1>5
<1>7. w * c \in Nat /\ s * d \in Nat
  OBVIOUS
<1>8. x = w * c + z
  BY <1>1, <1>4, <1>6, <1>7
<1>9. x \div w = c
  BY <1>3, <1>8, DivIs
<1> QED BY <1>1, <1>2, <1>3, <1>9

-----------------------------------------------------------------------------
(* Powers and bits.                                                        *)

\* Powers are positive.
LEMMA PowerPos == \A b \in 0 .. Bits : Power[b] \in Nat /\ Power[b] > 0
<1> DEFINE S == {n \in Nat : n > 0}
<1>0. Bits \in Nat
  BY DictConstants
<1>1. Power[0] \in S
  BY PowerIs
<1>2. \A b \in 1 .. Bits : Power[b - 1] \in S => Power[b] \in S
  <2>1. TAKE b \in 1 .. Bits
  <2>2. b - 1 \in 0 .. Bits
    BY <1>0
  <2>3. Power[b] = 2 * Power[b - 1] /\ Power[b - 1] \in Nat
    BY <2>2, PowerIs
  <2> QED BY <2>3
<1> HIDE DEF S
<1>3. \A b \in 0 .. Bits : Power[b] \in S
  BY <1>0, <1>1, <1>2, AllAlong
<1> QED BY <1>3 DEF S

\* Exponents add.
LEMMA PowerAdd == ASSUME NEW m \in 0 .. Bits, NEW n \in 0 .. Bits, m + n <= Bits
                  PROVE  Power[m + n] = Power[m] * Power[n]
<1>0. Bits \in Nat
  BY DictConstants
<1> DEFINE T == {i \in 0 .. n : Power[m + i] = Power[m] * Power[i]}
<1>1. 0 \in T
  <2>1. Power[m] \in Nat /\ Power[0] = 1
    BY PowerIs
  <2>2. Power[m] * 1 = Power[m] /\ m + 0 = m
    BY <2>1
  <2> QED BY <2>1, <2>2
<1>2. \A i \in 1 .. n : i - 1 \in T => i \in T
  <2>1. SUFFICES ASSUME NEW i \in 1 .. n, Power[m + (i - 1)] = Power[m] * Power[i - 1]
                 PROVE  Power[m + i] = Power[m] * Power[i]
    <3>1. \A i \in 1 .. n : i - 1 \in 0 .. n /\ i \in 0 .. n
      OBVIOUS
    <3> QED BY <3>1
  <2>2. i - 1 \in 0 .. Bits /\ i \in 1 .. Bits /\ m + i \in 1 .. Bits /\ (m + i) - 1 = m + (i - 1)
    BY <1>0
  <2>3. PICK a \in Nat, b \in Nat : a = Power[m] /\ b = Power[i - 1]
    BY <2>2, PowerIs
  <2>4. Power[m + i] = 2 * Power[m + (i - 1)]
    BY <2>2, PowerIs
  <2>5. Power[i] = 2 * b
    BY <2>2, <2>3, PowerIs
  <2>6. Power[m + i] = 2 * (a * b)
    BY <2>1, <2>3, <2>4
  <2>7. 2 * (a * b) = a * (2 * b)
    OBVIOUS
  <2> QED BY <2>3, <2>5, <2>6, <2>7
<1> HIDE DEF T
<1>3. n \in Nat /\ n \in 0 .. n
  OBVIOUS
<1>4. n \in T
  BY <1>1, <1>2, <1>3, AllNumbers
<1> QED BY <1>4 DEF T

\* A smaller power divides a larger one.
LEMMA PowerSplit == ASSUME NEW m \in 0 .. Bits, NEW n \in 0 .. Bits, m <= n
                    PROVE  /\ n - m \in 0 .. Bits /\ Power[n] = Power[m] * Power[n - m]
                           /\ Power[m] <= Power[n]
<1>0. Bits \in Nat
  BY DictConstants
<1>1. n - m \in 0 .. Bits /\ m + (n - m) = n
  BY <1>0
<1>2. Power[n] = Power[m] * Power[n - m]
  BY <1>1, PowerAdd
<1>3. PICK a \in Nat, b \in Nat : a = Power[m] /\ b = Power[n - m] /\ b > 0
  BY <1>1, PowerPos
<1>4. a <= a * b
  <2>1. a * 0 + a <= a * b
    BY <1>3, TimesUp
  <2>2. a * 0 = 0
    OBVIOUS
  <2> QED BY <2>1, <2>2
<1> QED BY <1>1, <1>2, <1>3, <1>4

\* A bit is 0 or 1.
LEMMA BitIs == ASSUME NEW v \in Nat, NEW n \in 0 .. Bits PROVE Bit(v, n) \in {0, 1}
<1>1. PICK s \in Nat : s = Power[n] /\ s > 0
  BY PowerPos
<1>2. PICK q \in Nat : q = v \div s
  BY <1>1, DivMod
<1>3. q % 2 \in {0, 1}
  OBVIOUS
<1> QED BY <1>1, <1>2, <1>3 DEF Bit

\* A number is its low bits and the next one.
LEMMA LowBits == ASSUME NEW v \in Nat, NEW n \in 1 .. Bits
                 PROVE  v % Power[n] = (v % Power[n - 1]) + Power[n - 1] * Bit(v, n - 1)
<1>0. n - 1 \in 0 .. Bits /\ n \in 0 .. Bits
  BY DictConstants
<1>1. PICK s \in Nat : s = Power[n - 1] /\ s > 0 /\ Power[n] = 2 * s
  BY <1>0, PowerPos, PowerIs
<1>2. PICK q \in Nat, r \in 0 .. s - 1 : q = v \div s /\ r = v % s /\ v = s * q + r
  BY <1>1, Divide
<1>3. PICK p \in Nat, b \in {0, 1} : b = q % 2 /\ q = 2 * p + b
  <2>1. q % 2 \in {0, 1} /\ q \div 2 \in Nat /\ q = 2 * (q \div 2) + (q % 2)
    OBVIOUS
  <2> QED BY <2>1
<1>4. Bit(v, n - 1) = b
  BY <1>1, <1>2, <1>3 DEF Bit
<1>5. s * q = (2 * s) * p + s * b
  BY <1>3
<1>6. r + s * b \in 0 .. 2 * s - 1
  <2>1. CASE b = 0
    BY <2>1
  <2>2. CASE b = 1
    BY <2>2
  <2> QED BY <2>1, <2>2
<1>7. PICK t \in 0 .. 2 * s - 1 : t = r + s * b
  BY <1>6
<1>8. v = (2 * s) * p + t
  <2>1. PICK x \in Nat, y \in Nat : x = s * b /\ y = (2 * s) * p
    OBVIOUS
  <2>2. s * q = y + x /\ t = r + x
    BY <1>5, <1>7, <2>1
  <2>3. PICK z \in Nat : z = s * q
    BY <1>2
  <2>4. v = z + r
    BY <1>2, <2>3
  <2>5. z = y + x
    BY <2>2, <2>3
  <2>6. v = y + t
    BY <2>2, <2>4, <2>5
  <2> QED BY <2>1, <2>6
<1>9. v % (2 * s) = t
  <2>1. PICK w \in Nat : w = 2 * s
    OBVIOUS
  <2> QED BY <1>1, <1>7, <1>8, <2>1, DivIs
<1> QED BY <1>1, <1>2, <1>4, <1>7, <1>9

-----------------------------------------------------------------------------
(* Reversed bits.                                                          *)

\* The low n bits of v, reversed, for each n.
IsRev(v, f) ==
    /\ f \in [0 .. Bits -> Nat] /\ f[0] = 0
    /\ \A n \in 1 .. Bits : f[n] = 2 * f[n - 1] + Bit(v, n - 1)
Rev(v) == CHOOSE f : IsRev(v, f)

\* ReverseBits is the last of them.
LEMMA RevIs == ASSUME NEW v \in Nat PROVE IsRev(v, Rev(v)) /\ ReverseBits(v) = Rev(v)[Bits]
<1> DEFINE step == [p \in Nat \X (1 .. Bits) |-> 2 * p[1] + Bit(v, p[2] - 1)]
           Is(f) == f = [n \in 0 .. Bits |-> IF n = 0 THEN 0 ELSE 2 * f[n - 1] + Bit(v, n - 1)]
<1>0. Bits \in Nat /\ 0 \in Nat
  BY DictConstants
<1>a. \A n \in 1 .. Bits : n - 1 \in 0 .. Bits /\ Bit(v, n - 1) \in Nat
  <2>1. \A m \in 0 .. Bits : Bit(v, m) \in Nat
    BY BitIs
  <2>2. \A n \in 1 .. Bits : n - 1 \in 0 .. Bits
    BY <1>0
  <2> QED BY <2>1, <2>2
<1>1. Steps(Bits, Nat, step)
  <2>1. \A q \in Nat, n \in 1 .. Bits : 2 * q + Bit(v, n - 1) \in Nat
    BY <1>a
  <2> QED BY <2>1 DEF Steps
<1>2. PICK f \in [0 .. Bits -> Nat] :
         f[0] = 0 /\ \A i \in 1 .. Bits : f[i] = 2 * f[i - 1] + Bit(v, i - 1)
  <2>1. Orbit(Bits, Nat, 0, step)
    <3> HIDE DEF step
    <3> QED BY <1>0, <1>1, Iterates
  <2>2. PICK f \in [0 .. Bits -> Nat] : f[0] = 0 /\ \A i \in 1 .. Bits : f[i] = step[<<f[i - 1], i>>]
    BY <2>1 DEF Orbit
  <2>3. \A i \in 1 .. Bits : f[i - 1] \in Nat
    BY <1>0
  <2>4. \A q \in Nat, i \in 1 .. Bits : step[<<q, i>>] = 2 * q + Bit(v, i - 1)
    OBVIOUS
  <2> HIDE DEF step
  <2> QED BY <2>2, <2>3, <2>4
<1>3. IsRev(v, f)
  BY <1>2 DEF IsRev
<1>4. IsRev(v, Rev(v))
  BY <1>3 DEF Rev
<1>5. Is(f)
  <2>1. \A i \in 0 .. Bits : f[i] = IF i = 0 THEN 0 ELSE 2 * f[i - 1] + Bit(v, i - 1)
    BY <1>0, <1>2
  <2> QED BY <1>2, <2>1
<1>6. ReverseBits(v) = (CHOOSE g : Is(g))[Bits]
  BY DEF ReverseBits
<1>7. PICK g : g = (CHOOSE h : Is(h)) /\ Is(g)
  BY <1>5
<1>8. \A i \in 0 .. Bits : g[i] = IF i = 0 THEN 0 ELSE 2 * g[i - 1] + Bit(v, i - 1)
  BY <1>7
<1>9. g[0] = 0 /\ \A i \in 1 .. Bits : g[i] = 2 * g[i - 1] + Bit(v, i - 1)
  BY <1>0, <1>8
<1>10. \A i \in 0 .. Bits : g[i] = Rev(v)[i]
  <2> DEFINE T == {i \in 0 .. Bits : g[i] = Rev(v)[i]}
  <2>1. 0 \in T
    BY <1>0, <1>4, <1>9 DEF IsRev
  <2>2. \A i \in 1 .. Bits : i - 1 \in T => i \in T
    BY <1>0, <1>4, <1>9 DEF IsRev
  <2> HIDE DEF T
  <2>3. \A i \in 0 .. Bits : i \in T
    BY <1>0, <2>1, <2>2, AllNumbers
  <2> QED BY <2>3 DEF T
<1> HIDE DEF Is
<1> QED BY <1>0, <1>4, <1>6, <1>7, <1>10

\* The next bit comes behind those before it.
LEMMA RevNext == ASSUME NEW v \in Nat, NEW n \in 1 .. Bits
                 PROVE  /\ n - 1 \in 0 .. Bits /\ n \in 0 .. Bits
                        /\ Rev(v)[n - 1] \in Nat /\ Bit(v, n - 1) \in {0, 1}
                        /\ Rev(v)[n] = 2 * Rev(v)[n - 1] + Bit(v, n - 1)
<1>1. n - 1 \in 0 .. Bits /\ n \in 0 .. Bits
  BY DictConstants
<1>2. IsRev(v, Rev(v))
  BY RevIs
<1>3. Bit(v, n - 1) \in {0, 1}
  BY <1>1, BitIs
<1> QED BY <1>1, <1>2, <1>3 DEF IsRev

\* Reversing n bits gives n bits.
LEMMA RevBelow == ASSUME NEW v \in Nat, NEW n \in 0 .. Bits
                  PROVE  Rev(v)[n] \in 0 .. Power[n] - 1
<1> DEFINE T == {i \in 0 .. Bits : Rev(v)[i] \in 0 .. Power[i] - 1}
<1>0. Bits \in Nat
  BY DictConstants
<1>1. 0 \in T
  <2>1. Rev(v)[0] = 0 /\ Power[0] = 1
    BY RevIs, PowerIs DEF IsRev
  <2> QED BY <1>0, <2>1
<1>2. \A i \in 1 .. Bits : i - 1 \in T => i \in T
  <2>1. SUFFICES ASSUME NEW i \in 1 .. Bits, Rev(v)[i - 1] \in 0 .. Power[i - 1] - 1
                 PROVE  Rev(v)[i] \in 0 .. Power[i] - 1
    BY <1>0
  <2>2. PICK p \in Nat : p = Power[i - 1] /\ Power[i] = 2 * p
    BY RevNext, PowerIs
  <2>3. PICK r \in 0 .. p - 1, b \in {0, 1} : Rev(v)[i] = 2 * r + b
    BY <2>1, <2>2, RevNext
  <2> QED BY <2>2, <2>3
<1> HIDE DEF T
<1>3. \A i \in 0 .. Bits : i \in T
  BY <1>0, <1>1, <1>2, AllNumbers
<1> QED BY <1>3 DEF T

\* Low bits of low bits.
LEMMA ModPower == ASSUME NEW v \in Nat, NEW m \in 0 .. Bits, NEW n \in 0 .. Bits, m <= n
                  PROVE  (v % Power[n]) % Power[m] = v % Power[m]
<1>1. PICK s \in Nat, t \in Nat :
         s = Power[m] /\ s > 0 /\ t = Power[n - m] /\ t > 0 /\ Power[n] = s * t
  BY PowerPos, PowerSplit
<1>2. (v % (s * t)) % s = v % s
  BY <1>1, ModMod
<1> QED BY <1>1, <1>2

\* The reversed bits are the same if the low bits are.
LEMMA RevSame == ASSUME NEW u \in Nat, NEW v \in Nat, NEW m \in 0 .. Bits,
                        u % Power[m] = v % Power[m]
                 PROVE  Rev(u)[m] = Rev(v)[m]
<1> DEFINE T == {i \in 0 .. m : Rev(u)[i] = Rev(v)[i]}
<1>0. Bits \in Nat /\ m \in Nat /\ m \in 0 .. m
  BY DictConstants
<1>1. 0 \in T
  <2>1. IsRev(u, Rev(u)) /\ IsRev(v, Rev(v))
    BY RevIs
  <2> QED BY <1>0, <2>1 DEF IsRev
<1>2. \A i \in 1 .. m : i - 1 \in T => i \in T
  <2>1. SUFFICES ASSUME NEW i \in 1 .. m, Rev(u)[i - 1] = Rev(v)[i - 1]
                 PROVE  Rev(u)[i] = Rev(v)[i]
    BY <1>0
  <2>2. i \in 1 .. Bits /\ i - 1 \in 0 .. Bits /\ i \in 0 .. Bits /\ i <= m /\ i - 1 <= m
    BY <1>0
  <2>3. u % Power[i] = v % Power[i]
    BY <2>2, ModPower
  <2>4. u % Power[i - 1] = v % Power[i - 1]
    BY <2>2, ModPower
  <2>5. PICK p \in Nat, a \in {0, 1}, b \in {0, 1} :
           p = Power[i - 1] /\ p > 0 /\ a = Bit(u, i - 1) /\ b = Bit(v, i - 1)
    BY <2>2, PowerPos, BitIs
  <2>6. PICK r \in Nat : r = u % p /\ r = v % p
    BY <2>4, <2>5, DivMod
  <2>7. r + p * a = r + p * b
    BY <2>2, <2>3, <2>5, <2>6, LowBits
  <2>8. a = b
    BY <2>5, <2>7
  <2> QED BY <2>1, <2>2, <2>5, <2>8, RevNext
<1> HIDE DEF T
<1>3. m \in T
  BY <1>0, <1>1, <1>2, AllNumbers
<1> QED BY <1>3 DEF T

\* And only then.
LEMMA RevOnce == ASSUME NEW u \in Nat, NEW v \in Nat, NEW m \in 0 .. Bits, Rev(u)[m] = Rev(v)[m]
                 PROVE  u % Power[m] = v % Power[m]
<1> DEFINE T == {i \in 0 .. m : Rev(u)[i] = Rev(v)[i] => u % Power[i] = v % Power[i]}
<1>0. Bits \in Nat /\ m \in Nat /\ m \in 0 .. m
  BY DictConstants
<1>1. 0 \in T
  <2>1. Power[0] = 1 /\ u % 1 = 0 /\ v % 1 = 0
    BY PowerIs
  <2> QED BY <1>0, <2>1
<1>2. \A i \in 1 .. m : i - 1 \in T => i \in T
  <2>1. SUFFICES ASSUME NEW i \in 1 .. m, Rev(u)[i] = Rev(v)[i],
                        Rev(u)[i - 1] = Rev(v)[i - 1] => u % Power[i - 1] = v % Power[i - 1]
                 PROVE  u % Power[i] = v % Power[i]
    BY <1>0
  <2>2. i \in 1 .. Bits
    BY <1>0
  <2>3. PICK x \in Nat, a \in {0, 1} :
           x = Rev(u)[i - 1] /\ a = Bit(u, i - 1) /\ Rev(u)[i] = 2 * x + a
    BY <2>2, RevNext
  <2>4. PICK y \in Nat, b \in {0, 1} :
           y = Rev(v)[i - 1] /\ b = Bit(v, i - 1) /\ Rev(v)[i] = 2 * y + b
    BY <2>2, RevNext
  <2>5. x = y /\ a = b
    <3>1. 2 * x + a = 2 * y + b
      BY <2>1, <2>3, <2>4
    <3> QED BY <3>1
  <2> QED BY <2>1, <2>2, <2>3, <2>4, <2>5, LowBits
<1> HIDE DEF T
<1>3. m \in T
  BY <1>0, <1>1, <1>2, AllNumbers
<1> QED BY <1>3 DEF T

\* The high bits come last.
LEMMA RevSplit == ASSUME NEW v \in Nat, NEW m \in 0 .. Bits, NEW n \in 0 .. Bits, m + n <= Bits
                  PROVE  Rev(v)[m + n] = Power[n] * Rev(v)[m] + Rev(v \div Power[m])[n]
<1> DEFINE w == v \div Power[m]
           T == {i \in 0 .. n : Rev(v)[m + i] = Power[i] * Rev(v)[m] + Rev(w)[i]}
<1>0. Bits \in Nat /\ n \in Nat /\ n \in 0 .. n
  BY DictConstants
<1>a. PICK s \in Nat : s = Power[m] /\ s > 0
  BY PowerPos
<1>b. w \in Nat
  BY <1>a, DivMod
<1>c. PICK r \in Nat : r = Rev(v)[m]
  BY RevIs DEF IsRev
<1>1. 0 \in T
  <2>1. Rev(w)[0] = 0 /\ Power[0] = 1 /\ m + 0 = m
    BY <1>b, RevIs, PowerIs DEF IsRev
  <2>2. r = 1 * r + 0
    OBVIOUS
  <2> HIDE DEF w
  <2> QED BY <1>0, <1>c, <2>1, <2>2
<1>2. \A i \in 1 .. n : i - 1 \in T => i \in T
  <2> HIDE DEF w
  <2>1. SUFFICES ASSUME NEW i \in 1 .. n,
                        Rev(v)[m + (i - 1)] = Power[i - 1] * Rev(v)[m] + Rev(w)[i - 1]
                 PROVE  Rev(v)[m + i] = Power[i] * Rev(v)[m] + Rev(w)[i]
    BY <1>0
  <2>2. /\ i - 1 \in 0 .. Bits /\ i \in 1 .. Bits /\ m + i \in 1 .. Bits
        /\ (m + i) - 1 = m + (i - 1) /\ m + (i - 1) \in 0 .. Bits /\ m + (i - 1) <= Bits
    BY <1>0
  <2>3. PICK p \in Nat : p = Power[i - 1] /\ p > 0 /\ Power[i] = 2 * p
    BY <2>2, PowerPos, PowerIs
  <2>4. PICK x \in Nat, b \in {0, 1} :
           x = Rev(w)[i - 1] /\ b = Bit(w, i - 1) /\ Rev(w)[i] = 2 * x + b
    BY <1>b, <2>2, RevNext
  <2>5. Bit(v, m + (i - 1)) = b
    <3>1. Power[m + (i - 1)] = s * p
      BY <1>a, <2>2, <2>3, PowerAdd
    <3>2. (v \div s) \div p = v \div (s * p)
      BY <1>a, <2>3, DivDiv
    <3> QED BY <1>a, <2>3, <2>4, <3>1, <3>2 DEF Bit, w
  <2>6. PICK y \in Nat : y = Rev(v)[m + (i - 1)] /\ Rev(v)[m + i] = 2 * y + b
    <3>1. PICK j \in 1 .. Bits : j = m + i
      BY <2>2
    <3>2. Rev(v)[j - 1] \in Nat /\ Rev(v)[j] = 2 * Rev(v)[j - 1] + Bit(v, j - 1)
      BY RevNext
    <3>3. j - 1 = m + (i - 1)
      BY <2>2, <3>1
    <3> QED BY <2>5, <3>1, <3>2, <3>3
  <2>7. y = p * r + x
    BY <1>c, <2>1, <2>3, <2>4, <2>6
  <2>8. (2 * p) * r = 2 * (p * r)
    OBVIOUS
  <2>9. PICK z \in Nat : z = p * r
    OBVIOUS
  <2>10. 2 * y + b = 2 * z + (2 * x + b)
    BY <2>7, <2>9
  <2> QED BY <1>c, <2>3, <2>4, <2>6, <2>8, <2>9, <2>10
<1> HIDE DEF T
<1>3. n \in T
  BY <1>0, <1>1, <1>2, AllNumbers
<1> QED BY <1>3 DEF T

\* Reversing twice gives the low bits back.
LEMMA RevTwice == ASSUME NEW n \in 0 .. Bits
                  PROVE  \A v \in Nat : Rev(Rev(v)[n])[n] = v % Power[n]
<1> DEFINE T == {i \in 0 .. n : \A v \in Nat : Rev(Rev(v)[i])[i] = v % Power[i]}
<1>0. Bits \in Nat /\ n \in Nat /\ n \in 0 .. n
  BY DictConstants
<1>1. 0 \in T
  <2>1. SUFFICES ASSUME NEW v \in Nat PROVE Rev(Rev(v)[0])[0] = v % Power[0]
    BY <1>0
  <2>2. IsRev(v, Rev(v)) /\ IsRev(0, Rev(0))
    BY RevIs
  <2>3. Rev(v)[0] = 0 /\ Rev(0)[0] = 0
    BY <2>2 DEF IsRev
  <2>4. Power[0] = 1 /\ v % 1 = 0
    BY PowerIs
  <2> QED BY <2>3, <2>4
<1>2. \A i \in 1 .. n : i - 1 \in T => i \in T
  <2>1. SUFFICES ASSUME NEW i \in 1 .. n, NEW v \in Nat,
                        \A u \in Nat : Rev(Rev(u)[i - 1])[i - 1] = u % Power[i - 1]
                 PROVE  Rev(Rev(v)[i])[i] = v % Power[i]
    BY <1>0
  <2>2. i \in 1 .. Bits /\ i - 1 \in 0 .. Bits /\ 1 \in 0 .. Bits /\ 1 \in 1 .. Bits
    BY <1>0
  <2>3. PICK x \in Nat, b \in {0, 1} :
           x = Rev(v)[i - 1] /\ b = Bit(v, i - 1) /\ Rev(v)[i] = 2 * x + b
    BY <2>2, RevNext
  <2>4. PICK w \in Nat : w = 2 * x + b
    OBVIOUS
  <2>5. w \div 2 = x /\ w % 2 = b
    BY <2>4
  <2>6. Power[0] = 1 /\ Power[1] = 2
    BY <2>2, PowerIs
  <2>7. Rev(w)[1] = b
    <3>1. PICK j \in 1 .. Bits : j = 1
      BY <2>2
    <3>2. Rev(w)[j] = 2 * Rev(w)[j - 1] + Bit(w, j - 1)
      BY RevNext
    <3>3. IsRev(w, Rev(w))
      BY RevIs
    <3>4. Rev(w)[0] = 0
      BY <3>3 DEF IsRev
    <3>5. Bit(w, 0) = b
      <4>1. w \div 1 = w
        OBVIOUS
      <4> QED BY <2>5, <2>6, <4>1 DEF Bit
    <3>6. j - 1 = 0
      BY <3>1
    <3> QED BY <3>1, <3>2, <3>4, <3>5, <3>6
  <2>8. PICK p \in Nat : p = Power[i - 1]
    BY <2>2, PowerPos
  <2>9. Rev(w)[1 + (i - 1)] = p * Rev(w)[1] + Rev(w \div Power[1])[i - 1]
    <3>1. 1 + (i - 1) <= Bits
      BY <2>2
    <3> QED BY <2>2, <2>8, <3>1, RevSplit
  <2>10. Rev(w)[i] = p * b + (v % p)
    <3>1. 1 + (i - 1) = i
      OBVIOUS
    <3>2. Rev(x)[i - 1] = v % p
      BY <2>1, <2>3, <2>8
    <3> QED BY <2>5, <2>6, <2>7, <2>9, <3>1, <3>2
  <2>11. v % Power[i] = (v % p) + p * b
    BY <2>2, <2>3, <2>8, LowBits
  <2>12. PICK y \in Nat, z \in Nat : y = v % p /\ z = p * b
    BY <2>2, <2>8, PowerPos, DivMod
  <2> QED BY <2>3, <2>4, <2>10, <2>11, <2>12
<1> HIDE DEF T
<1>3. n \in T
  BY <1>0, <1>1, <1>2, AllNumbers
<1> QED BY <1>3 DEF T

\* Reversing ones gives ones.
LEMMA RevOnes == ASSUME NEW n \in 0 .. Bits, NEW v \in Nat, v % Power[n] = Power[n] - 1
                 PROVE  Rev(v)[n] = Power[n] - 1
<1> DEFINE T == {i \in 0 .. n : v % Power[i] = Power[i] - 1 => Rev(v)[i] = Power[i] - 1}
<1>0. Bits \in Nat /\ n \in Nat /\ n \in 0 .. n
  BY DictConstants
<1>1. 0 \in T
  <2>1. IsRev(v, Rev(v))
    BY RevIs
  <2>2. Rev(v)[0] = 0 /\ Power[0] = 1
    BY <2>1, PowerIs DEF IsRev
  <2> QED BY <1>0, <2>2
<1>2. \A i \in 1 .. n : i - 1 \in T => i \in T
  <2>1. SUFFICES ASSUME NEW i \in 1 .. n, v % Power[i] = Power[i] - 1,
                        v % Power[i - 1] = Power[i - 1] - 1 => Rev(v)[i - 1] = Power[i - 1] - 1
                 PROVE  Rev(v)[i] = Power[i] - 1
    BY <1>0
  <2>2. i \in 1 .. Bits /\ i - 1 \in 0 .. Bits
    BY <1>0
  <2>3. PICK p \in Nat : p = Power[i - 1] /\ p > 0 /\ Power[i] = 2 * p
    BY <2>2, PowerPos, PowerIs
  <2>4. PICK x \in Nat, b \in {0, 1} :
           x = Rev(v)[i - 1] /\ b = Bit(v, i - 1) /\ Rev(v)[i] = 2 * x + b
    BY <2>2, RevNext
  <2>5. PICK r \in 0 .. p - 1 : r = v % p
    BY <2>3, DivMod
  <2>6. 2 * p - 1 = r + p * b
    BY <2>1, <2>2, <2>3, <2>4, <2>5, LowBits
  <2>7. b = 1 /\ r = p - 1
    <3>1. CASE b = 0
      <4>1. p * b = 0
        BY <3>1
      <4> QED BY <2>3, <2>6, <4>1
    <3>2. CASE b = 1
      <4>1. p * b = p
        BY <3>2
      <4> QED BY <3>2, <2>6, <4>1
    <3> QED BY <3>1, <3>2
  <2> QED BY <2>1, <2>3, <2>4, <2>5, <2>7
<1> HIDE DEF T
<1>3. n \in T
  BY <1>0, <1>1, <1>2, AllNumbers
<1> QED BY <1>3 DEF T

\* Reversing 0 gives 0.
LEMMA RevZero == ASSUME NEW n \in 0 .. Bits PROVE Rev(0)[n] = 0
<1> DEFINE T == {i \in 0 .. Bits : Rev(0)[i] = 0}
<1>0. Bits \in Nat
  BY DictConstants
<1>1. 0 \in T
  <2>1. IsRev(0, Rev(0))
    BY RevIs
  <2> QED BY <1>0, <2>1 DEF IsRev
<1>2. \A i \in 1 .. Bits : i - 1 \in T => i \in T
  <2>1. SUFFICES ASSUME NEW i \in 1 .. Bits, Rev(0)[i - 1] = 0 PROVE Rev(0)[i] = 0
    BY <1>0
  <2>2. PICK p \in Nat : p = Power[i - 1] /\ p > 0
    BY RevNext, PowerPos
  <2>3. 0 \div p = 0
    BY <2>2
  <2>4. Bit(0, i - 1) = 0
    BY <2>2, <2>3 DEF Bit
  <2> QED BY <2>1, <2>4, RevNext
<1> HIDE DEF T
<1>3. \A i \in 0 .. Bits : i \in T
  BY <1>0, <1>1, <1>2, AllNumbers
<1> QED BY <1>3 DEF T

-----------------------------------------------------------------------------
(* The order of a scan.                                                    *)

\* Where a bucket of 2^m begins in the order of reversed bits, and how much
\* of that order it is.
Span(m) == Power[Bits - m]
Begin(v, m) == Span(m) * Rev(v)[m]
Place(v) == Rev(v)[Bits]
All == Power[Bits]

\* A table of 2^m buckets parts the order in 2^m equal spans.
LEMMA SpanIs == ASSUME NEW m \in 0 .. Bits
                PROVE  /\ Span(m) \in Nat /\ Span(m) > 0 /\ Power[m] \in Nat /\ Power[m] > 0
                       /\ All = Power[m] * Span(m) /\ All \in Nat /\ Power[m] <= All
                       /\ m + (Bits - m) = Bits /\ Bits - m \in 0 .. Bits /\ Bits \in 0 .. Bits
<1>0. Bits \in Nat
  BY DictConstants
<1>1. Bits \in 0 .. Bits /\ m <= Bits /\ m + (Bits - m) = Bits /\ Bits - m \in 0 .. Bits
  BY <1>0
<1>2. Power[Bits] = Power[m] * Power[Bits - m] /\ Power[m] <= Power[Bits]
  BY <1>1, PowerSplit
<1>3. /\ Power[Bits - m] \in Nat /\ Power[Bits - m] > 0 /\ Power[m] \in Nat /\ Power[m] > 0
      /\ Power[Bits] \in Nat
  BY <1>1, PowerPos
<1> QED BY <1>1, <1>2, <1>3 DEF Span, All

\* A number lies in the span of its bucket.
LEMMA InSpan == ASSUME NEW v \in Nat, NEW m \in 0 .. Bits
                PROVE  \E x \in 0 .. Span(m) - 1 : /\ Place(v) = Begin(v, m) + x
                                                   /\ x = Rev(v \div Power[m])[Bits - m]
<1>1. Place(v) = Span(m) * Rev(v)[m] + Rev(v \div Power[m])[Bits - m]
  <2>1. PICK n \in 0 .. Bits : n = Bits - m /\ m + n = Bits
    BY SpanIs
  <2>2. m + n <= Bits
    BY <2>1, SpanIs
  <2>3. Rev(v)[m + n] = Power[n] * Rev(v)[m] + Rev(v \div Power[m])[n]
    BY <2>2, RevSplit
  <2> QED BY <2>1, <2>3 DEF Place, Span
<1>2. v \div Power[m] \in Nat
  BY SpanIs, DivMod
<1>3. Rev(v \div Power[m])[Bits - m] \in 0 .. Power[Bits - m] - 1
  BY <1>2, SpanIs, RevBelow
<1> QED BY <1>1, <1>3 DEF Begin, Span

\* A span begins at a multiple, and ends within the order.
LEMMA BeginIs == ASSUME NEW v \in Nat, NEW m \in 0 .. Bits
                 PROVE  /\ Rev(v)[m] \in 0 .. Power[m] - 1 /\ Begin(v, m) \in Nat
                        /\ Begin(v, m) + Span(m) <= All
<1>1. PICK s \in Nat, t \in Nat : s = Power[m] /\ t = Span(m) /\ All = s * t
  BY SpanIs
<1>2. PICK r \in 0 .. s - 1 : r = Rev(v)[m]
  BY <1>1, RevBelow
<1>3. t * r + t <= t * s
  BY TimesUp
<1>4. t * s = s * t /\ t * r \in Nat
  OBVIOUS
<1> QED BY <1>1, <1>2, <1>3, <1>4 DEF Begin

\* What lies in the span of a bucket is in it.
LEMMA SpanOnly == ASSUME NEW u \in Nat, NEW v \in Nat, NEW m \in 0 .. Bits,
                         Begin(v, m) <= Place(u), Place(u) < Begin(v, m) + Span(m)
                  PROVE  u % Power[m] = v % Power[m]
<1>1. PICK t \in Nat : t = Span(m) /\ t > 0
  BY SpanIs
<1>2. PICK a \in Nat, b \in Nat : a = Rev(u)[m] /\ b = Rev(v)[m]
  <2>1. Rev(u)[m] \in 0 .. Power[m] - 1 /\ Rev(v)[m] \in 0 .. Power[m] - 1
    BY RevBelow
  <2> QED BY <2>1
<1>3. PICK x \in 0 .. t - 1 : Place(u) = t * a + x
  BY <1>1, <1>2, InSpan DEF Begin
<1>4. t * b <= t * a + x /\ t * a + x < t * b + t
  BY <1>1, <1>2, <1>3 DEF Begin
<1>5. PICK y \in 0 .. t - 1 : y = t * a + x - t * b
  <2>1. PICK p \in Nat, q \in Nat : p = t * a /\ q = t * b
    OBVIOUS
  <2> QED BY <1>4, <2>1
<1>6. t * a + x = t * b + y
  <2>1. PICK p \in Nat, q \in Nat : p = t * a /\ q = t * b
    OBVIOUS
  <2> QED BY <1>5, <2>1
<1>7. a = b
  BY <1>6, Unique
<1>8. Rev(u)[m] = Rev(v)[m]
  BY <1>2, <1>7
<1> QED BY <1>8, RevOnce

\* NextCursor() goes to where the next span begins, or back to 0.
LEMMA NextIs == ASSUME NEW v \in Nat, NEW m \in 0 .. Bits
                PROVE  LET next == NextCursor(v, Power[m])
                           e == Begin(v, m) + Span(m)
                       IN  /\ next \in Cursor
                           /\ e < All => Place(next) = e /\ next # 0
                           /\ e = All => next = 0
<1>1. PICK s \in Nat, t \in Nat, n \in Nat :
         s = Power[m] /\ t = Span(m) /\ n = All /\ s > 0 /\ t > 0 /\ n = s * t /\ s <= n
  BY SpanIs
<1>2. PICK r \in 0 .. s - 1 : r = v % s
  BY <1>1, DivMod
<1>3. PICK b \in Nat : b = Begin(v, m)
  BY BeginIs
<1>4. PICK y \in Nat : y = r + n - s
  BY <1>1
<1>5. y \div s = t - 1 /\ y % s = r
  <2>1. s * (t - 1) = n - s
    BY <1>1
  <2>2. t - 1 \in Nat
    BY <1>1
  <2>3. PICK q \in Nat : q = t - 1 /\ s * q = n - s
    BY <2>1, <2>2
  <2>4. y = s * q + r
    BY <1>1, <1>4, <2>3
  <2>5. s \in Nat /\ s > 0 /\ q \in Nat /\ r \in 0 .. s - 1
    BY <1>1
  <2>6. y \div s = q /\ y % s = r
    BY <2>4, <2>5, DivIs
  <2> QED BY <2>3, <2>6
<1>6. Begin(y, m) = b
  <2>1. y % Power[m] = v % Power[m]
    BY <1>1, <1>2, <1>5
  <2>2. Rev(y)[m] = Rev(v)[m]
    BY <2>1, RevSame
  <2> QED BY <1>3, <2>2 DEF Begin
<1>7. Place(y) = b + t - 1
  <2>1. PICK x \in 0 .. t - 1 : Place(y) = b + x /\ x = Rev(y \div s)[Bits - m]
    BY <1>1, <1>6, InSpan
  <2>2. PICK k \in 0 .. Bits : k = Bits - m /\ t = Power[k]
    BY <1>1, SpanIs DEF Span
  <2>3. PICK q \in Nat : q = t - 1 /\ y \div s = q
    BY <1>1, <1>5
  <2>4. q % t = q
    BY <1>1, <2>3
  <2>5. Rev(q)[k] = t - 1
    BY <2>2, <2>3, <2>4, RevOnes
  <2> QED BY <2>1, <2>2, <2>3, <2>5
<1>8. ReverseBits(y) = b + t - 1
  BY <1>7, RevIs DEF Place
<1>9. b + t <= n
  BY <1>1, <1>3, BeginIs
<1>10. PICK z \in 0 .. n - 1 : z = (b + t) % n
  BY <1>1, DivMod
<1>11. NextCursor(v, Power[m]) = ReverseBits(z)
  <2>1. (ReverseBits(y) + 1) % All = z
    <3>1. b + t - 1 + 1 = b + t
      OBVIOUS
    <3> QED BY <1>1, <1>8, <1>10, <3>1
  <2> QED BY <1>1, <1>2, <1>4, <2>1 DEF NextCursor, All
<1>12. PICK x \in 0 .. n - 1 : x = ReverseBits(z) /\ x = Rev(z)[Bits]
  <2>1. Bits \in 0 .. Bits
    BY SpanIs
  <2>2. Rev(z)[Bits] \in 0 .. Power[Bits] - 1
    BY <2>1, RevBelow
  <2>3. ReverseBits(z) = Rev(z)[Bits]
    BY RevIs
  <2> QED BY <1>1, <2>2, <2>3 DEF All
<1>13. Place(x) = z
  <2>1. Bits \in 0 .. Bits
    BY SpanIs
  <2>2. Rev(Rev(z)[Bits])[Bits] = z % Power[Bits]
    BY <2>1, RevTwice
  <2>3. z % n = z
    BY <1>1
  <2> QED BY <1>1, <1>12, <2>2, <2>3 DEF Place, All
<1>14. x \in Cursor
  BY <1>1, <1>12 DEF Cursor, All
<1>15. Place(0) = 0 /\ ReverseBits(0) = 0
  <2>1. Bits \in 0 .. Bits
    BY SpanIs
  <2> QED BY <2>1, RevZero, RevIs DEF Place
<1>16. CASE b + t < n
  <2>1. z = b + t
    BY <1>1, <1>10, <1>16
  <2>2. x # 0
    BY <1>1, <1>13, <1>15, <2>1
  <2>3. NextCursor(v, Power[m]) = x
    BY <1>11, <1>12
  <2> QED BY <1>1, <1>3, <1>13, <1>14, <1>16, <2>1, <2>2, <2>3
<1>17. CASE b + t = n
  <2>1. z = 0
    BY <1>1, <1>10, <1>17
  <2>2. NextCursor(v, Power[m]) = x /\ x = 0
    BY <1>11, <1>12, <1>15, <2>1
  <2> QED BY <1>1, <1>3, <1>14, <1>17, <2>2
<1> QED BY <1>9, <1>16, <1>17

-----------------------------------------------------------------------------
(* The invariant of the table.                                             *)

Tabs == UNION {[0 .. n - 1 -> Seq(Key)] : n \in Powers \cup {0}}
DictRecord ==
    [table : [{1, 2} -> Tabs], index : Nat \cup {-1}, iters : {0, 1}, may : BOOLEAN]

\* Each entry is in the chain of its hash, and each key is there once.
Within(chain, k) == \E j \in DOMAIN chain : chain[j] = k
ChainOK(t, b) ==
    \A i \in DOMAIN t[b] :
        /\ Bucket(t, t[b][i]) = b
        /\ \A j \in DOMAIN t[b] : t[b][i] = t[b][j] => i = j
TableOK(t) == \A b \in DOMAIN t : ChainOK(t, b)

\* The buckets before the index have been moved.
Tidy(d) ==
    /\ TableOK(d.table[1]) /\ TableOK(d.table[2])
    /\ \A k \in Key : ~ (In(d.table[1], k) /\ In(d.table[2], k))
    /\ ~Rehashing(d) => d.table[2] = NoTable
    /\ Rehashing(d) =>
          /\ d.table[1] # NoTable /\ d.table[2] # NoTable
          /\ \A b \in DOMAIN d.table[1] : b < d.index => d.table[1][b] = <<>>

KeysOK(d, ks, it) ==
    /\ d \in DictRecord /\ Tidy(d)
    /\ ks = {k \in Key : Holds(d, k)}
    /\ d.iters = IF it.on THEN 1 ELSE 0

\* The keys an iterator has before it.
From(chain, next, k) == \E m \in DOMAIN chain, j \in DOMAIN chain :
                            chain[m] = next /\ chain[j] = k /\ m <= j
Later(it, i, b) == i > it.table \/ (i = it.table /\ b > it.index)
Ahead(d, it, k) ==
    \E i \in Tables(d) : \E b \in DOMAIN d.table[i] :
        \/ Later(it, i, b) /\ Within(d.table[i][b], k)
        \/ i = it.table /\ b = it.index /\ it.next # NoKey /\ From(d.table[i][b], it.next, k)

\* It stands in a table, and has what it must return behind it or before it.
Stands(d, it) ==
    /\ it.table \in Tables(d) /\ it.index \in DOMAIN d.table[it.table]
    /\ it.next # NoKey => it.next \in Key /\ Within(d.table[it.table][it.index], it.next)
Returns(d, it) ==
    \A k \in Key : /\ k \in it.must => k \in it.got \/ Ahead(d, it, k)
                   /\ ~ (k \in it.got /\ Ahead(d, it, k))

IterRecord ==
    [on : BOOLEAN, table : {1, 2}, index : Nat \cup {-1}, node : Key \cup {NoKey},
     next : Key \cup {NoKey}, must : SUBSET Key, got : SUBSET Key, wrong : {FALSE}]
IterOK(d, ks, it) ==
    /\ it \in IterRecord
    /\ it.must \subseteq ks /\ it.got \subseteq ks
    /\ IF it.on THEN Stands(d, it) /\ Returns(d, it) ELSE it = NoIter

\* What the cursor has passed has been returned.
ScanRecord ==
    [on : BOOLEAN, v : Cursor, must : SUBSET Key, got : SUBSET Key, missed : {{}}]
ScanOK(ks, s) ==
    /\ s \in ScanRecord
    /\ s.on => /\ s.must \subseteq ks
               /\ \A k \in s.must : Place(Hash[k]) < Place(s.v) => k \in s.got

DictInv == KeysOK(dict, keys, iter) /\ IterOK(dict, keys, iter) /\ ScanOK(keys, scan)

-----------------------------------------------------------------------------
(* Tables.                                                                 *)

\* A table has a power of 2 of buckets, or none.
LEMMA TabIs == ASSUME NEW t \in Tabs
               PROVE  \E n \in Nat : /\ n \in Powers \cup {0} /\ t \in [0 .. n - 1 -> Seq(Key)]
                                     /\ Size(t) = n /\ DOMAIN t = 0 .. n - 1
                                     /\ n = 0 <=> t = NoTable
<1>1. PICK n \in Powers \cup {0} : t \in [0 .. n - 1 -> Seq(Key)]
  BY DEF Tabs
<1>2. n \in Nat
  BY <1>1, PowerPos DEF Powers
<1>3. Cardinality(0 .. n - 1) = n
  <2>1. 0 \in Int /\ n - 1 \in Int
    BY <1>2
  <2>2. Cardinality(0 .. n - 1) = IF 0 > n - 1 THEN 0 ELSE n - 1 - 0 + 1
    BY <2>1, FS_Interval
  <2> QED BY <1>2, <2>2
<1>4. DOMAIN t = 0 .. n - 1
  BY <1>1
<1>5. n = 0 => t = NoTable
  <2>1. SUFFICES ASSUME n = 0 PROVE t = NoTable
    OBVIOUS
  <2>2. 0 .. n - 1 = {}
    BY <2>1
  <2>3. t \in [{} -> Seq(Key)]
    BY <1>1, <2>2
  <2> QED BY <2>3 DEF NoTable
<1>6. t = NoTable => n = 0
  <2>1. SUFFICES ASSUME t = NoTable, n # 0 PROVE FALSE
    OBVIOUS
  <2>2. DOMAIN t = {} /\ 0 \in 0 .. n - 1
    BY <1>2, <2>1 DEF NoTable
  <2> QED BY <1>4, <2>2
<1> QED BY <1>1, <1>2, <1>3, <1>4, <1>5, <1>6 DEF Size

\* What TabIs says, with the number of buckets given.
LEMMA SizeIs == ASSUME NEW t \in Tabs
                PROVE  /\ Size(t) \in Nat /\ DOMAIN t = 0 .. Size(t) - 1
                       /\ t \in [0 .. Size(t) - 1 -> Seq(Key)]
                       /\ t # NoTable => Size(t) > 0 /\ Size(t) \in Powers
                       /\ t = NoTable => Size(t) = 0
                       /\ \A b \in DOMAIN t : t[b] \in Seq(Key)
<1>1. PICK n \in Nat : /\ n \in Powers \cup {0} /\ t \in [0 .. n - 1 -> Seq(Key)]
                       /\ Size(t) = n /\ DOMAIN t = 0 .. n - 1
                       /\ n = 0 <=> t = NoTable
  BY TabIs
<1> QED BY <1>1

\* No table is one without buckets.
LEMMA EmptyTab == NoTable \in Tabs
<1>1. 0 .. 0 - 1 = {}
  OBVIOUS
<1>2. NoTable \in [{} -> Seq(Key)]
  BY DEF NoTable
<1>3. NoTable \in [0 .. 0 - 1 -> Seq(Key)]
  BY <1>1, <1>2
<1>4. \E n \in Powers \cup {0} : NoTable \in [0 .. n - 1 -> Seq(Key)]
  BY <1>3
<1> QED BY <1>4 DEF Tabs

\* The bucket of a key.
LEMMA BucketIs == ASSUME NEW t \in Tabs, t # NoTable, NEW k \in Key
                  PROVE  Bucket(t, k) \in DOMAIN t
<1>1. PICK n \in Nat : n = Size(t) /\ n > 0 /\ DOMAIN t = 0 .. n - 1
  BY SizeIs
<1>2. PICK h \in Nat : h = Hash[k]
  BY DictConstants
<1>3. h % n \in 0 .. n - 1
  BY <1>1
<1> QED BY <1>1, <1>2, <1>3 DEF Bucket

\* Chains hold keys.
LEMMA ChainKeys == ASSUME NEW t \in Tabs, NEW b \in DOMAIN t
                   PROVE  /\ t[b] \in Seq(Key) /\ Len(t[b]) \in Nat /\ DOMAIN t[b] = 1 .. Len(t[b])
                          /\ \A j \in DOMAIN t[b] : t[b][j] \in Key
                          /\ t[b] = <<>> <=> DOMAIN t[b] = {}
<1>1. PICK c \in Seq(Key) : c = t[b]
  BY SizeIs
<1>2. Len(c) \in Nat /\ DOMAIN c = 1 .. Len(c) /\ (c = <<>> <=> Len(c) = 0)
  BY LengthIs
<1>3. \A j \in 1 .. Len(c) : c[j] \in Key
  OBVIOUS
<1>4. (1 .. Len(c) = {}) <=> Len(c) = 0
  <2>1. Len(c) # 0 => 1 \in 1 .. Len(c)
    BY <1>2
  <2>2. Len(c) = 0 => 1 .. Len(c) = {}
    OBVIOUS
  <2> QED BY <2>1, <2>2
<1> QED BY <1>1, <1>2, <1>3, <1>4

\* A key is in the table when its chain has it.
LEMMA InIs == ASSUME NEW t \in Tabs, NEW k \in Key
              PROVE  /\ In(t, k) <=> t # NoTable /\ Within(t[Bucket(t, k)], k)
                     /\ In(t, k) => Bucket(t, k) \in DOMAIN t
                     /\ ~ In(NoTable, k)
<1>1. CASE t # NoTable
  <2>1. PICK b \in DOMAIN t : b = Bucket(t, k)
    BY <1>1, BucketIs
  <2>2. DOMAIN t[b] = 1 .. Len(t[b])
    BY ChainKeys
  <2>3. Size(t) > 0
    BY <1>1, SizeIs
  <2>4. In(t, k) <=> Within(t[b], k)
    BY <2>1, <2>2, <2>3 DEF In, Contains, Within
  <2>5. ~ In(NoTable, k)
    <3>1. NoTable \in Tabs
      BY EmptyTab
    <3>2. Size(NoTable) = 0
      BY <3>1, SizeIs
    <3> QED BY <3>2 DEF In
  <2> QED BY <1>1, <2>1, <2>4, <2>5
<1>2. CASE t = NoTable
  <2>1. Size(t) = 0
    BY <1>2, SizeIs
  <2> QED BY <1>2, <2>1 DEF In
<1> QED BY <1>1, <1>2

\* In a table in order, a key in any chain is in the table.
LEMMA InChain == ASSUME NEW t \in Tabs, TableOK(t), NEW b \in DOMAIN t, NEW k \in Key,
                        Within(t[b], k)
                 PROVE  In(t, k) /\ Bucket(t, k) = b
<1>1. PICK j \in DOMAIN t[b] : t[b][j] = k
  BY DEF Within
<1>2. Bucket(t, k) = b
  BY <1>1 DEF TableOK, ChainOK
<1>3. t # NoTable
  BY DEF NoTable
<1> QED BY <1>2, <1>3, InIs

\* Where entries are.
Spots(t) == UNION {{b} \X DOMAIN t[b] : b \in DOMAIN t}

\* There are no more entries than keys.
LEMMA UsedIs == ASSUME NEW t \in Tabs, TableOK(t)
                PROVE  /\ Used(t) \in Nat /\ Used(t) <= Cardinality(Key)
                       /\ Used(t) = 0 => \A b \in DOMAIN t : t[b] = <<>>
                       /\ Used(t) # 0 => \E b \in DOMAIN t : t[b] # <<>>
<1> DEFINE f == [p \in Spots(t) |-> t[p[1]][p[2]]]
<1>1. \A p \in Spots(t) : p = <<p[1], p[2]>> /\ p[1] \in DOMAIN t /\ p[2] \in DOMAIN t[p[1]]
  BY DEF Spots
<1>2. \A p \in Spots(t) : f[p] = t[p[1]][p[2]] /\ f[p] \in Key
  BY <1>1, ChainKeys
<1>3. f \in [Spots(t) -> Key]
  BY <1>2
<1>4. \A p \in Spots(t), q \in Spots(t) : f[p] = f[q] => p = q
  <2>1. TAKE p \in Spots(t), q \in Spots(t)
  <2>2. SUFFICES ASSUME f[p] = f[q] PROVE p = q
    OBVIOUS
  <2>3. t[p[1]][p[2]] = t[q[1]][q[2]]
    BY <1>2, <2>2
  <2>4. Bucket(t, t[p[1]][p[2]]) = p[1] /\ Bucket(t, t[q[1]][q[2]]) = q[1]
    BY <1>1 DEF TableOK, ChainOK
  <2>5. p[1] = q[1]
    BY <2>3, <2>4
  <2>6. p[2] = q[2]
    BY <1>1, <2>3, <2>5 DEF TableOK, ChainOK
  <2> QED BY <1>1, <2>5, <2>6
<1>5. f \in Injection(Spots(t), Key)
  <2>1. DOMAIN f = Spots(t)
    OBVIOUS
  <2> HIDE DEF f
  <2> QED BY <1>3, <1>4, <2>1 DEF Injection, IsInjective
<1>6. IsFiniteSet(Key)
  BY DictConstants
<1> HIDE DEF f
<1>7. IsFiniteSet(Spots(t)) /\ Cardinality(Spots(t)) <= Cardinality(Key)
  BY <1>5, <1>6, FS_Injection
<1>8. Used(t) = Cardinality(Spots(t))
  BY DEF Used, Spots
<1>9. Used(t) \in Nat
  BY <1>7, <1>8, FS_CardinalityType
<1>10. Used(t) = 0 <=> Spots(t) = {}
  BY <1>7, <1>8, FS_EmptySet
<1>11. Spots(t) = {} => \A b \in DOMAIN t : t[b] = <<>>
  <2>1. SUFFICES ASSUME NEW b \in DOMAIN t, t[b] # <<>> PROVE Spots(t) # {}
    OBVIOUS
  <2>2. PICK j : j \in DOMAIN t[b]
    BY <2>1, ChainKeys
  <2>3. <<b, j>> \in Spots(t)
    BY <2>2 DEF Spots
  <2> QED BY <2>3
<1>12. Spots(t) # {} => \E b \in DOMAIN t : t[b] # <<>>
  <2>1. SUFFICES ASSUME NEW p \in Spots(t) PROVE \E b \in DOMAIN t : t[b] # <<>>
    OBVIOUS
  <2>2. p[1] \in DOMAIN t /\ p[2] \in DOMAIN t[p[1]]
    BY <1>1
  <2>3. t[p[1]] # <<>>
    BY <2>2, ChainKeys
  <2> QED BY <2>2, <2>3
<1> QED BY <1>7, <1>8, <1>9, <1>10, <1>11, <1>12

-----------------------------------------------------------------------------
(* What the operations do to a table.                                      *)

\* What is the same of two chains, or tables, but for one key.
AlikeBut(c2, c, k) ==
    \A x \in Key \ {k} :
        /\ Within(c2, x) <=> Within(c, x)
        /\ \A n \in Key \ {k} : From(c2, n, x) <=> From(c, n, x)
AlikeTab(t2, t, k) ==
    /\ t2 \in Tabs /\ DOMAIN t2 = DOMAIN t
    /\ \A b \in DOMAIN t : AlikeBut(t2[b], t[b], k)

\* Put at its head, a key does not disturb a chain.
LEMMA PutChain == ASSUME NEW c \in Seq(Key), NEW k \in Key
                  PROVE  \E r \in Seq(Key) : /\ r = <<k>> \o c /\ Within(r, k) /\ AlikeBut(r, c, k)
                                             /\ DOMAIN r = 1 .. Len(c) + 1 /\ r[1] = k
                                             /\ \A j \in 1 .. Len(c) : r[j + 1] = c[j]
<1>1. PICK l \in Nat : l = Len(c) /\ DOMAIN c = 1 .. l
  BY LengthIs
<1>2. PICK h \in Seq(Key) : h = <<k>> /\ Len(h) = 1 /\ h[1] = k
  <2>1. <<k>> \in Seq(Key) /\ Len(<<k>>) = 1 /\ <<k>>[1] = k
    OBVIOUS
  <2> QED BY <2>1
<1>3. PICK r \in Seq(Key) : IsJoin(r, h, c, 1, l)
  <2>1. 1 \in Nat /\ 1 = Len(h) /\ l = Len(c)
    BY <1>1, <1>2
  <2> QED BY <1>1, <2>1, JoinIs
<1>4. DOMAIN r = 1 .. l + 1 /\ r[1] = k /\ \A j \in 1 .. l : r[j + 1] = c[j]
  <2>1. 1 + l = l + 1 /\ 1 \in 1 .. 1
    OBVIOUS
  <2>2. \A j \in 1 .. l : 1 + j = j + 1
    OBVIOUS
  <2> QED BY <1>2, <1>3, <2>1, <2>2 DEF IsJoin
<1>5. Within(r, k)
  BY <1>4 DEF Within
<1>6. \A m \in DOMAIN r : r[m] # k => m - 1 \in DOMAIN c /\ r[m] = c[m - 1]
  <2>1. TAKE m \in DOMAIN r
  <2>2. SUFFICES ASSUME r[m] # k PROVE m - 1 \in DOMAIN c /\ r[m] = c[m - 1]
    OBVIOUS
  <2>3. m \in 1 .. l + 1 /\ m # 1
    BY <1>4, <2>2
  <2>4. m - 1 \in 1 .. l /\ (m - 1) + 1 = m
    BY <2>3
  <2> QED BY <1>1, <1>4, <2>4
<1>7. \A m \in DOMAIN c : m + 1 \in DOMAIN r /\ r[m + 1] = c[m]
  BY <1>1, <1>4
<1>8. \A x \in Key \ {k} : Within(r, x) <=> Within(c, x)
  BY <1>6, <1>7 DEF Within
<1>9. \A x \in Key \ {k}, n \in Key \ {k} : From(r, n, x) <=> From(c, n, x)
  <2>1. TAKE x \in Key \ {k}, n \in Key \ {k}
  <2>2. From(r, n, x) => From(c, n, x)
    <3>1. SUFFICES ASSUME NEW m \in DOMAIN r, NEW j \in DOMAIN r, r[m] = n, r[j] = x, m <= j
                   PROVE  From(c, n, x)
      BY DEF From
    <3>2. /\ m - 1 \in DOMAIN c /\ c[m - 1] = n
          /\ j - 1 \in DOMAIN c /\ c[j - 1] = x
      BY <1>6, <3>1
    <3>3. m - 1 <= j - 1
      BY <1>4, <3>1
    <3> QED BY <3>2, <3>3 DEF From
  <2>3. From(c, n, x) => From(r, n, x)
    <3>1. SUFFICES ASSUME NEW m \in DOMAIN c, NEW j \in DOMAIN c, c[m] = n, c[j] = x, m <= j
                   PROVE  From(r, n, x)
      BY DEF From
    <3>2. /\ m + 1 \in DOMAIN r /\ r[m + 1] = n
          /\ j + 1 \in DOMAIN r /\ r[j + 1] = x
      BY <1>7, <3>1
    <3>3. m + 1 <= j + 1
      BY <1>1, <3>1
    <3> QED BY <3>2, <3>3 DEF From
  <2> QED BY <2>2, <2>3
<1>10. AlikeBut(r, c, k)
  BY <1>8, <1>9 DEF AlikeBut
<1>11. r = <<k>> \o c
  BY <1>2, <1>3 DEF IsJoin
<1> QED BY <1>1, <1>4, <1>5, <1>10, <1>11

\* Nor does a key that is taken out.
LEMMA RemoveChain == ASSUME NEW c \in Seq(Key), NEW i \in DOMAIN c,
                            \A j \in DOMAIN c : c[j] = c[i] => j = i
                     PROVE  \E r \in Seq(Key) : /\ r = RemoveAt(c, i) /\ ~ Within(r, c[i])
                                                /\ AlikeBut(r, c, c[i]) /\ IsRemove(r, c, i, Len(c))
<1>1. PICK l \in Nat : l = Len(c) /\ DOMAIN c = 1 .. l
  BY LengthIs
<1>2. PICK r \in Seq(Key) : IsRemove(r, c, i, l)
  BY <1>1, RemoveIs
<1> DEFINE up(j) == IF j < i THEN j ELSE j + 1
           down(j) == IF j < i THEN j ELSE j - 1
<1>3. \A j \in DOMAIN r : up(j) \in DOMAIN c /\ r[j] = c[up(j)] /\ up(j) # i
  <2>1. TAKE j \in DOMAIN r
  <2>2. j \in 1 .. l - 1 /\ i \in 1 .. l
    BY <1>1, <1>2 DEF IsRemove
  <2>3. CASE j < i
    <3>1. j \in 1 .. i - 1
      BY <2>2, <2>3
    <3> QED BY <1>1, <1>2, <2>2, <2>3, <3>1 DEF IsRemove
  <2>4. CASE ~ (j < i)
    <3>1. j \in i .. l - 1 /\ j + 1 \in 1 .. l /\ j + 1 # i
      BY <2>2, <2>4
    <3> QED BY <1>1, <1>2, <2>4, <3>1 DEF IsRemove
  <2> QED BY <2>3, <2>4
<1>4. \A j \in DOMAIN c : j # i => down(j) \in DOMAIN r /\ r[down(j)] = c[j]
  <2>1. TAKE j \in DOMAIN c
  <2>2. SUFFICES ASSUME j # i PROVE down(j) \in DOMAIN r /\ r[down(j)] = c[j]
    OBVIOUS
  <2>3. j \in 1 .. l /\ i \in 1 .. l
    BY <1>1
  <2>4. CASE j < i
    <3>1. j \in 1 .. i - 1 /\ j \in 1 .. l - 1
      BY <2>3, <2>4
    <3> QED BY <1>2, <2>4, <3>1 DEF IsRemove
  <2>5. CASE ~ (j < i)
    <3>1. j - 1 \in i .. l - 1 /\ j - 1 \in 1 .. l - 1 /\ (j - 1) + 1 = j
      BY <2>2, <2>3, <2>5
    <3> QED BY <1>2, <2>5, <3>1 DEF IsRemove
  <2> QED BY <2>4, <2>5
<1>5. /\ \A j \in DOMAIN r, m \in DOMAIN r : m <= j => up(m) <= up(j)
      /\ \A j \in DOMAIN c, m \in DOMAIN c : m <= j /\ m # i /\ j # i => down(m) <= down(j)
  <2>1. DOMAIN r = 1 .. l - 1 /\ i \in 1 .. l
    BY <1>1, <1>2 DEF IsRemove
  <2> QED BY <1>1, <2>1
<1> HIDE DEF up, down
<1>6. ~ Within(r, c[i])
  BY <1>3 DEF Within
<1>7. \A x \in Key \ {c[i]} : Within(r, x) <=> Within(c, x)
  BY <1>3, <1>4 DEF Within
<1>8. \A x \in Key \ {c[i]}, n \in Key \ {c[i]} : From(r, n, x) <=> From(c, n, x)
  <2>1. TAKE x \in Key \ {c[i]}, n \in Key \ {c[i]}
  <2>2. From(r, n, x) => From(c, n, x)
    <3>1. SUFFICES ASSUME NEW m \in DOMAIN r, NEW j \in DOMAIN r, r[m] = n, r[j] = x, m <= j
                   PROVE  From(c, n, x)
      BY DEF From
    <3>2. /\ up(m) \in DOMAIN c /\ c[up(m)] = n
          /\ up(j) \in DOMAIN c /\ c[up(j)] = x
      BY <1>3, <3>1
    <3> QED BY <1>5, <3>1, <3>2 DEF From
  <2>3. From(c, n, x) => From(r, n, x)
    <3>1. SUFFICES ASSUME NEW m \in DOMAIN c, NEW j \in DOMAIN c, c[m] = n, c[j] = x, m <= j
                   PROVE  From(r, n, x)
      BY DEF From
    <3>2. m # i /\ j # i
      BY <3>1
    <3>3. /\ down(m) \in DOMAIN r /\ r[down(m)] = n
          /\ down(j) \in DOMAIN r /\ r[down(j)] = x
      BY <1>4, <3>1, <3>2
    <3> QED BY <1>5, <3>1, <3>2, <3>3 DEF From
  <2> QED BY <2>2, <2>3
<1>9. AlikeBut(r, c, c[i])
  BY <1>7, <1>8 DEF AlikeBut
<1> QED BY <1>1, <1>2, <1>6, <1>9 DEF IsRemove

\* A table with another chain in one bucket.
IsSet(t2, t, b, c) ==
    /\ t2 \in Tabs /\ DOMAIN t2 = DOMAIN t /\ Size(t2) = Size(t)
    /\ t2[b] = c /\ t2 # NoTable
    /\ \A a \in DOMAIN t : a # b => t2[a] = t[a]
    /\ \A x \in Key : Bucket(t2, x) = Bucket(t, x)
\* Only that chain is another one.
LEMMA SetChain == ASSUME NEW t \in Tabs, NEW b \in DOMAIN t, NEW c \in Seq(Key)
                  PROVE  IsSet([t EXCEPT ![b] = c], t, b, c)
<1> DEFINE t2 == [t EXCEPT ![b] = c]
<1>1. PICK n \in Nat : /\ n \in Powers \cup {0} /\ t \in [0 .. n - 1 -> Seq(Key)]
                       /\ Size(t) = n /\ DOMAIN t = 0 .. n - 1
                       /\ n = 0 <=> t = NoTable
  BY TabIs
<1>2. t2 \in [0 .. n - 1 -> Seq(Key)]
  BY <1>1
<1>3. t2 \in Tabs
  BY <1>1, <1>2 DEF Tabs
<1>4. DOMAIN t2 = DOMAIN t /\ t2[b] = c /\ \A a \in DOMAIN t : a # b => t2[a] = t[a]
  BY <1>1
<1>5. Size(t2) = Size(t)
  BY <1>4 DEF Size
<1>6. t2 # NoTable
  <2>1. DOMAIN NoTable = {}
    BY DEF NoTable
  <2> QED BY <1>4, <2>1
<1> HIDE DEF t2
<1>7. \A x \in Key : Bucket(t2, x) = Bucket(t, x)
  BY <1>5 DEF Bucket
<1>8. IsSet(t2, t, b, c)
  BY <1>3, <1>4, <1>5, <1>6, <1>7 DEF IsSet
<1> QED BY <1>8 DEF t2

\* What PutFirst() makes of a table.
IsPut(t2, t, k) ==
    /\ AlikeTab(t2, t, k) /\ TableOK(t2) /\ t2 # NoTable /\ Size(t2) = Size(t)
    /\ \A x \in Key : In(t2, x) <=> In(t, x) \/ x = k
    /\ \A b \in DOMAIN t : b # Bucket(t, k) => t2[b] = t[b]

\* PutFirst() adds a key that is not there.
LEMMA PutIs == ASSUME NEW t \in Tabs, t # NoTable, TableOK(t), NEW k \in Key, ~ In(t, k)
               PROVE  IsPut(PutFirst(t, k), t, k)
<1>1. PICK b \in DOMAIN t : b = Bucket(t, k)
  BY BucketIs
<1>2. PICK c \in Seq(Key) : c = t[b]
  BY SizeIs
<1>3. PICK r \in Seq(Key) : /\ r = <<k>> \o c /\ Within(r, k) /\ AlikeBut(r, c, k)
                            /\ DOMAIN r = 1 .. Len(c) + 1 /\ r[1] = k
                            /\ \A j \in 1 .. Len(c) : r[j + 1] = c[j]
  BY PutChain
<1>4. PICK t2 : t2 = PutFirst(t, k) /\ t2 = [t EXCEPT ![b] = r]
  BY <1>1, <1>2, <1>3 DEF PutFirst
<1>5. /\ t2 \in Tabs /\ DOMAIN t2 = DOMAIN t /\ Size(t2) = Size(t) /\ t2[b] = r
      /\ t2 # NoTable /\ \A a \in DOMAIN t : a # b => t2[a] = t[a]
      /\ \A x \in Key : Bucket(t2, x) = Bucket(t, x)
  <2>1. IsSet([t EXCEPT ![b] = r], t, b, r)
    BY SetChain
  <2>2. IsSet(t2, t, b, r)
    BY <1>4, <2>1
  <2> QED BY <2>2 DEF IsSet
<1>6. ~ Within(c, k)
  BY <1>1, <1>2, InIs
<1>7. \A x \in Key : AlikeBut(c, c, x) /\ \A a \in DOMAIN t : AlikeBut(t[a], t[a], x)
  BY DEF AlikeBut
<1>8. AlikeTab(t2, t, k)
  BY <1>2, <1>3, <1>5, <1>7 DEF AlikeTab
<1>9. TableOK(t2)
  <2>1. SUFFICES ASSUME NEW a \in DOMAIN t PROVE ChainOK(t2, a)
    BY <1>5 DEF TableOK
  <2>2. ChainOK(t, a)
    BY DEF TableOK
  <2>3. CASE a # b
    <3>1. t2[a] = t[a]
      BY <1>5, <2>3
    <3>2. \A j \in DOMAIN t[a] : t[a][j] \in Key
      BY ChainKeys
    <3> QED BY <1>5, <2>2, <3>1, <3>2 DEF ChainOK
  <2>4. CASE a = b
    <3>1. PICK l \in Nat : l = Len(c) /\ DOMAIN c = 1 .. l
      BY LengthIs
    <3>2. \A j \in DOMAIN r : \/ j = 1 /\ r[j] = k
                              \/ j - 1 \in DOMAIN c /\ r[j] = c[j - 1] /\ r[j] # k
      <4>1. TAKE j \in DOMAIN r
      <4>2. j = 1 \/ j - 1 \in 1 .. l
        BY <1>3, <3>1
      <4>3. j - 1 \in 1 .. l => r[j] = c[j - 1]
        <5>1. (j - 1) + 1 = j
          BY <1>3, <3>1
        <5> QED BY <1>3, <3>1, <5>1
      <4>4. \A m \in DOMAIN c : c[m] # k
        BY <1>6 DEF Within
      <4> QED BY <1>3, <3>1, <4>2, <4>3, <4>4
    <3>3. \A j \in DOMAIN c : c[j] \in Key /\ Bucket(t, c[j]) = b
      BY <1>2, <2>2, <2>4, ChainKeys DEF ChainOK
    <3>4. \A j \in DOMAIN c, m \in DOMAIN c : c[j] = c[m] => j = m
      BY <1>2, <2>2, <2>4 DEF ChainOK
    <3>5. \A j \in DOMAIN r : Bucket(t2, r[j]) = b
      BY <1>1, <1>5, <3>2, <3>3
    <3>6. \A j \in DOMAIN r, m \in DOMAIN r : r[j] = r[m] => j = m
      <4>1. \A j \in DOMAIN r : j \in Nat
        BY <1>3
      <4>2. TAKE j \in DOMAIN r, m \in DOMAIN r
      <4>3. SUFFICES ASSUME r[j] = r[m] PROVE j = m
        OBVIOUS
      <4>4. CASE j = 1
        BY <3>2, <4>3, <4>4
      <4>5. CASE j # 1
        <5>1. j - 1 \in DOMAIN c /\ r[j] = c[j - 1] /\ r[j] # k
          BY <3>2, <4>5
        <5>2. m - 1 \in DOMAIN c /\ r[m] = c[m - 1]
          BY <3>2, <4>3, <5>1
        <5>3. j - 1 = m - 1
          BY <3>4, <4>3, <5>1, <5>2
        <5> QED BY <4>1, <5>3
      <4> QED BY <4>4, <4>5
    <3> QED BY <1>5, <2>4, <3>5, <3>6 DEF ChainOK
  <2> QED BY <2>3, <2>4
<1>10. \A x \in Key : In(t2, x) <=> In(t, x) \/ x = k
  <2>1. TAKE x \in Key
  <2>2. PICK a \in DOMAIN t : a = Bucket(t, x)
    BY BucketIs
  <2>3. In(t2, x) <=> Within(t2[a], x)
    BY <1>5, <2>2, InIs
  <2>4. In(t, x) <=> Within(t[a], x)
    BY <2>2, InIs
  <2>5. CASE x = k
    BY <1>1, <1>3, <1>5, <2>2, <2>3, <2>5
  <2>6. CASE x # k
    <3>1. Within(t2[a], x) <=> Within(t[a], x)
      BY <1>8, <2>6 DEF AlikeTab, AlikeBut
    <3> QED BY <2>3, <2>4, <2>6, <3>1
  <2> QED BY <2>5, <2>6
<1> QED BY <1>1, <1>4, <1>5, <1>8, <1>9, <1>10 DEF IsPut

\* What TakeOut() makes of a table.
IsUnlink(t2, t, k) ==
    /\ AlikeTab(t2, t, k) /\ TableOK(t2) /\ t2 # NoTable
    /\ \A x \in Key : In(t2, x) <=> In(t, x) /\ x # k
    /\ \A b \in DOMAIN t : t[b] = <<>> => t2[b] = <<>>

\* TakeOut() takes out a key that is there.
LEMMA UnlinkIs == ASSUME NEW t \in Tabs, TableOK(t), NEW k \in Key, In(t, k)
                  PROVE  IsUnlink(TakeOut(t, k), t, k)
<1>1. PICK b \in DOMAIN t : b = Bucket(t, k) /\ Within(t[b], k)
  BY InIs
<1>2. PICK c \in Seq(Key) : c = t[b]
  BY SizeIs
<1>3. PICK i \in DOMAIN c : i = (CHOOSE j \in DOMAIN c : c[j] = k) /\ c[i] = k
  BY <1>1, <1>2 DEF Within
<1>4. \A j \in DOMAIN c, m \in DOMAIN c : c[j] = c[m] => j = m
  BY <1>2 DEF TableOK, ChainOK
<1>5. PICK r \in Seq(Key) : /\ r = RemoveAt(c, i) /\ ~ Within(r, k)
                            /\ AlikeBut(r, c, k) /\ IsRemove(r, c, i, Len(c))
  BY <1>3, <1>4, RemoveChain
<1>6. PICK t2 : t2 = TakeOut(t, k) /\ t2 = [t EXCEPT ![b] = r]
  BY <1>1, <1>2, <1>3, <1>5 DEF TakeOut
<1>7. /\ t2 \in Tabs /\ DOMAIN t2 = DOMAIN t /\ Size(t2) = Size(t) /\ t2[b] = r
      /\ t2 # NoTable /\ \A a \in DOMAIN t : a # b => t2[a] = t[a]
      /\ \A x \in Key : Bucket(t2, x) = Bucket(t, x)
  <2>1. IsSet([t EXCEPT ![b] = r], t, b, r)
    BY SetChain
  <2>2. IsSet(t2, t, b, r)
    BY <1>6, <2>1
  <2> QED BY <2>2 DEF IsSet
<1>8. \A x \in Key, a \in DOMAIN t : AlikeBut(t[a], t[a], x)
  BY DEF AlikeBut
<1>9. AlikeTab(t2, t, k)
  BY <1>2, <1>5, <1>7, <1>8 DEF AlikeTab
<1>10. TableOK(t2)
  <2>1. SUFFICES ASSUME NEW a \in DOMAIN t PROVE ChainOK(t2, a)
    BY <1>7 DEF TableOK
  <2>2. ChainOK(t, a)
    BY DEF TableOK
  <2>3. CASE a # b
    <3>1. t2[a] = t[a]
      BY <1>7, <2>3
    <3>2. \A j \in DOMAIN t[a] : t[a][j] \in Key
      BY ChainKeys
    <3> QED BY <1>7, <2>2, <3>1, <3>2 DEF ChainOK
  <2>4. CASE a = b
    <3>1. PICK l \in Nat : l = Len(c) /\ DOMAIN c = 1 .. l
      BY LengthIs
    <3>2. /\ DOMAIN r = 1 .. l - 1 /\ \A j \in 1 .. i - 1 : r[j] = c[j]
          /\ \A j \in i .. l - 1 : r[j] = c[j + 1]
      BY <1>5, <3>1 DEF IsRemove
    <3>3. \A j \in DOMAIN r : \E m \in DOMAIN c : r[j] = c[m] /\ m = IF j < i THEN j ELSE j + 1
      <4>1. TAKE j \in DOMAIN r
      <4>2. j \in 1 .. l - 1 /\ i \in 1 .. l
        BY <3>1, <3>2
      <4>3. CASE j < i
        <5>1. j \in 1 .. i - 1 /\ j \in 1 .. l
          BY <4>2, <4>3
        <5> QED BY <3>1, <3>2, <4>3, <5>1
      <4>4. CASE ~ (j < i)
        <5>1. j \in i .. l - 1 /\ j + 1 \in 1 .. l
          BY <4>2, <4>4
        <5> QED BY <3>1, <3>2, <4>4, <5>1
      <4> QED BY <4>3, <4>4
    <3>4. \A j \in DOMAIN c : c[j] \in Key /\ Bucket(t, c[j]) = b
      BY <1>2, <2>2, <2>4, ChainKeys DEF ChainOK
    <3>5. \A j \in DOMAIN r : Bucket(t2, r[j]) = b
      BY <1>7, <3>3, <3>4
    <3>6. \A j \in DOMAIN r, m \in DOMAIN r : r[j] = r[m] => j = m
      <4>1. TAKE j \in DOMAIN r, m \in DOMAIN r
      <4>2. SUFFICES ASSUME r[j] = r[m] PROVE j = m
        OBVIOUS
      <4>3. PICK j2 \in DOMAIN c : r[j] = c[j2] /\ j2 = IF j < i THEN j ELSE j + 1
        BY <3>3
      <4>4. PICK m2 \in DOMAIN c : r[m] = c[m2] /\ m2 = IF m < i THEN m ELSE m + 1
        BY <3>3
      <4>5. j2 = m2
        BY <1>4, <4>2, <4>3, <4>4
      <4>6. j \in 1 .. l - 1 /\ m \in 1 .. l - 1 /\ i \in 1 .. l
        BY <3>1, <3>2
      <4> QED BY <4>3, <4>4, <4>5, <4>6
    <3> QED BY <1>7, <2>4, <3>5, <3>6 DEF ChainOK
  <2> QED BY <2>3, <2>4
<1>11. \A x \in Key : In(t2, x) <=> In(t, x) /\ x # k
  <2>1. TAKE x \in Key
  <2>a. t # NoTable
    BY <1>1 DEF NoTable
  <2>2. PICK a \in DOMAIN t : a = Bucket(t, x)
    BY <2>a, BucketIs
  <2>3. In(t2, x) <=> Within(t2[a], x)
    BY <1>7, <2>2, InIs
  <2>4. In(t, x) <=> Within(t[a], x)
    BY <2>a, <2>2, InIs
  <2>5. CASE x = k
    BY <1>1, <1>5, <1>7, <2>2, <2>3, <2>5
  <2>6. CASE x # k
    <3>1. Within(t2[a], x) <=> Within(t[a], x)
      BY <1>9, <2>6 DEF AlikeTab, AlikeBut
    <3> QED BY <2>3, <2>4, <2>6, <3>1
  <2> QED BY <2>5, <2>6
<1>12. \A a \in DOMAIN t : t[a] = <<>> => t2[a] = <<>>
  <2>1. t[b] # <<>>
    BY <1>1, ChainKeys DEF Within
  <2> QED BY <1>7, <2>1
<1> QED BY <1>6, <1>7, <1>9, <1>10, <1>11, <1>12 DEF IsUnlink

-----------------------------------------------------------------------------
(* Rehashing.                                                              *)

\* The parts of a dictionary.
Parts(d2, t, u, i, d) ==
    /\ d2 \in DictRecord /\ d2.table[1] = t /\ d2.table[2] = u /\ d2.index = i
    /\ d2.iters = d.iters /\ d2.may = d.may

\* The parts of a dictionary as it is.
LEMMA DictIs == ASSUME NEW d \in DictRecord
                PROVE  /\ Parts(d, d.table[1], d.table[2], d.index, d)
                       /\ d.table[1] \in Tabs /\ d.table[2] \in Tabs
                       /\ d.index \in Nat \cup {-1} /\ Tables(d) \subseteq {1, 2}
                       /\ 1 \in Tables(d) /\ (2 \in Tables(d) <=> Rehashing(d))
<1>1. d.table \in [{1, 2} -> Tabs] /\ d.index \in Nat \cup {-1}
  BY DEF DictRecord
<1> QED BY <1>1 DEF Parts, Tables

\* What an operation makes of the tables.
LEMMA WithTable == ASSUME NEW d \in DictRecord, NEW i \in {1, 2}, NEW t \in Tabs, NEW d2,
                          d2 = [d EXCEPT !.table[i] = t]
                   PROVE  /\ i = 1 => Parts(d2, t, d.table[2], d.index, d)
                          /\ i = 2 => Parts(d2, d.table[1], t, d.index, d)
  BY DEF DictRecord, Parts

\* A second table, of which nothing was moved.
LEMMA WithSecond == ASSUME NEW d \in DictRecord, NEW t \in Tabs, NEW d2,
                           d2 = [d EXCEPT !.table[2] = t, !.index = 0]
                    PROVE  Parts(d2, d.table[1], t, 0, d)
<1>1. PICK p : p = [d.table EXCEPT ![2] = t]
  OBVIOUS
<1>2. p \in [{1, 2} -> Tabs] /\ p[1] = d.table[1] /\ p[2] = t
  <2>1. PICK o \in [{1, 2} -> Tabs] : o = d.table
    BY DEF DictRecord
  <2>2. p = [o EXCEPT ![2] = t]
    BY <1>1, <2>1
  <2> QED BY <2>1, <2>2
<1>3. PICK i \in Nat \cup {-1} : i = 0
  OBVIOUS
<1>4. d2 = [d EXCEPT !.table = p, !.index = i]
  BY <1>1, <1>3 DEF DictRecord
<1>5. /\ d2 \in DictRecord /\ d2.table = p /\ d2.index = i
      /\ d2.iters = d.iters /\ d2.may = d.may
  BY <1>2, <1>4 DEF DictRecord
<1> QED BY <1>2, <1>3, <1>5 DEF Parts

\* Other tables and another index.
LEMMA WithBoth == ASSUME NEW d \in DictRecord, NEW t \in Tabs, NEW u \in Tabs,
                         NEW i \in Nat \cup {-1}, NEW d2,
                         d2 = [d EXCEPT !.table = << t, u >>, !.index = i]
                  PROVE  Parts(d2, t, u, i, d)
<1>1. PICK p : p = << t, u >> /\ p \in [{1, 2} -> Tabs] /\ p[1] = t /\ p[2] = u
  <2>1. << t, u >> \in [{1, 2} -> Tabs]
    OBVIOUS
  <2> QED BY <2>1
<1>2. d2 = [d EXCEPT !.table = p, !.index = i]
  BY <1>1
<1>3. /\ d2 \in DictRecord /\ d2.table = p /\ d2.index = i
      /\ d2.iters = d.iters /\ d2.may = d.may
  BY <1>1, <1>2 DEF DictRecord
<1> QED BY <1>1, <1>3 DEF Parts

\* The powers of 2 have one that is enough.
LEMMA NextPowerIs == ASSUME NEW size \in Nat, size <= All
                     PROVE  NextPower(size) \in Powers
<1> DEFINE enough == {p \in Powers : p >= MinSize /\ p >= size}
<1>1. All \in enough
  <2>1. Bits \in Nat /\ MinSize \in {Power[b] : b \in 1 .. Bits}
    BY DictConstants
  <2>2. PICK b \in 1 .. Bits : MinSize = Power[b]
    BY <2>1
  <2>3. b \in 0 .. Bits /\ Bits \in 0 .. Bits
    BY <2>1
  <2>4. Power[b] <= All /\ All \in Nat /\ Power[b] \in Nat
    BY <2>3, SpanIs
  <2>5. All \in Powers
    BY <2>3 DEF Powers, All
  <2> QED BY <2>2, <2>4, <2>5
<1>2. enough \in SUBSET Nat
  BY PowerPos DEF Powers
<1>3. \E x \in enough : \A y \in enough : x <= y
  BY <1>1, <1>2, LeastNat
<1>4. (CHOOSE p \in enough : \A q \in enough : p <= q) \in enough
  BY <1>3
<1> QED BY <1>4 DEF NextPower

\* A table with no entry.
Fresh(t) == /\ t \in Tabs /\ t # NoTable /\ TableOK(t) /\ \A k \in Key : ~ In(t, k)
            /\ \A b \in DOMAIN t : t[b] = <<>>
\* A new table has no entry.
LEMMA TableIs == ASSUME NEW n \in Powers PROVE Fresh(Table(n))
<1>1. n \in Nat /\ n > 0
  BY PowerPos DEF Powers
<1>2. PICK t : t = Table(n) /\ t \in [0 .. n - 1 -> Seq(Key)]
  <2>1. <<>> \in Seq(Key)
    OBVIOUS
  <2>2. [i \in 0 .. n - 1 |-> <<>>] \in [0 .. n - 1 -> Seq(Key)]
    BY <2>1
  <2> QED BY <2>2 DEF Table
<1>3. t \in Tabs
  BY <1>2 DEF Tabs
<1>4. DOMAIN t = 0 .. n - 1 /\ \A b \in DOMAIN t : t[b] = <<>>
  BY <1>2 DEF Table
<1>5. 0 \in DOMAIN t
  BY <1>1, <1>4
<1>6. t # NoTable
  BY <1>5 DEF NoTable
<1>7. \A b \in DOMAIN t : DOMAIN t[b] = {}
  BY <1>4
<1>8. TableOK(t)
  BY <1>7 DEF TableOK, ChainOK
<1>9. \A k \in Key : ~ In(t, k)
  <2>1. \A k \in Key : In(t, k) => Within(t[Bucket(t, k)], k) /\ Bucket(t, k) \in DOMAIN t
    BY <1>3, InIs
  <2> QED BY <1>7, <2>1 DEF Within
<1> QED BY <1>2, <1>3, <1>4, <1>6, <1>8, <1>9 DEF Fresh

\* A dictionary in order that has the keys it had.
Same(d2, d) == /\ d2 \in DictRecord /\ Tidy(d2) /\ d2.iters = d.iters
               /\ \A k \in Key : Holds(d2, k) <=> Holds(d, k)

\* One whose tables are as they were, but for a new one.
Stays(d2, d) ==
    /\ Tables(d) \subseteq Tables(d2)
    /\ \A i \in Tables(d) : d.table[i] # NoTable => d2.table[i] = d.table[i]
    /\ \A i \in Tables(d2) \ Tables(d) : \A b \in DOMAIN d2.table[i] : d2.table[i][b] = <<>>

\* A dictionary is the same as itself.
LEMMA SameAsIs == ASSUME NEW d \in DictRecord, Tidy(d)
                  PROVE  Same(d, d) /\ Stays(d, d)
  BY DEF Same, Stays

\* One operation after another.
LEMMA SameTwice == ASSUME NEW d1, NEW d2, NEW d3, Same(d2, d1), Same(d3, d2)
                   PROVE  Same(d3, d1)
  BY DEF Same

\* What a dictionary holds, by its parts.
LEMMA HoldsIs == ASSUME NEW d \in DictRecord, NEW k \in Key
                 PROVE  /\ Rehashing(d) => (Holds(d, k) <=> In(d.table[1], k) \/ In(d.table[2], k))
                        /\ ~ Rehashing(d) => (Holds(d, k) <=> In(d.table[1], k))
  BY DEF Holds, Tables

\* Reallocate() makes a table, of the entries there are.
LEMMA ReallocateKeeps ==
    ASSUME NEW d \in DictRecord, Tidy(d), NEW size \in Nat, size <= All
    PROVE  LET d2 == Reallocate(d, size)
           IN  /\ Same(d2, d) /\ Stays(d2, d)
               /\ ~ Rehashing(d) /\ d.table[1] = NoTable => d2.table[1] # NoTable
<1>1. PICK n \in Powers : n = NextPower(size)
  BY NextPowerIs
<1>2. PICK w : w = Table(n) /\ Fresh(w)
  BY TableIs
<1>3. d.table[1] \in Tabs /\ d.table[2] \in Tabs /\ d.index \in Nat \cup {-1}
  BY DictIs
<1>4. PICK d2 : d2 = Reallocate(d, size)
  OBVIOUS
<1>5. CASE /\ ~ Rehashing(d) /\ ~ (Used(d.table[1]) > size) /\ ~ (n = Size(d.table[1]))
           /\ d.table[1] = NoTable
  <2>1. d2 = [d EXCEPT !.table[1] = w]
    BY <1>1, <1>2, <1>4, <1>5 DEF Reallocate
  <2>2. Parts(d2, w, d.table[2], d.index, d)
    BY <1>2, <2>1, WithTable DEF Fresh
  <2>3. d2 \in DictRecord /\ d2.iters = d.iters /\ d2.table[1] = w /\ d2.table[2] = d.table[2]
        /\ d2.index = d.index
    BY <2>2 DEF Parts
  <2>4. ~ Rehashing(d2) /\ Tables(d2) = Tables(d) /\ Tables(d) = {1}
    BY <1>5, <2>3 DEF Rehashing, Tables
  <2>5. \A k \in Key : ~ In(d2.table[1], k) /\ ~ In(d.table[1], k)
    BY <1>2, <1>3, <1>5, <2>3, InIs DEF Fresh
  <2>6. Tidy(d2)
    BY <1>2, <1>5, <2>3, <2>4, <2>5 DEF Tidy, Fresh
  <2>7. \A k \in Key : Holds(d2, k) <=> Holds(d, k)
    BY <1>5, <2>3, <2>4, <2>5, HoldsIs
  <2>8. Same(d2, d)
    BY <2>3, <2>6, <2>7 DEF Same
  <2>9. Stays(d2, d)
    BY <1>5, <2>4 DEF Stays
  <2> QED BY <1>2, <1>4, <2>3, <2>8, <2>9 DEF Fresh
<1>6. CASE /\ ~ Rehashing(d) /\ ~ (Used(d.table[1]) > size) /\ ~ (n = Size(d.table[1]))
           /\ d.table[1] # NoTable
  <2>1. d2 = [d EXCEPT !.table[2] = w, !.index = 0]
    BY <1>1, <1>2, <1>4, <1>6 DEF Reallocate
  <2>2. Parts(d2, d.table[1], w, 0, d)
    BY <1>2, <2>1, WithSecond DEF Fresh
  <2>3. d2 \in DictRecord /\ d2.iters = d.iters /\ d2.table[1] = d.table[1] /\ d2.table[2] = w
        /\ d2.index = 0
    BY <2>2 DEF Parts
  <2>4. Rehashing(d2) /\ Tables(d2) = {1, 2} /\ Tables(d) = {1}
    BY <1>6, <2>3 DEF Rehashing, Tables
  <2>5. \A k \in Key : ~ In(w, k)
    BY <1>2 DEF Fresh
  <2>6. Tidy(d2)
    <3>1. \A b \in DOMAIN d.table[1] : ~ (b < 0)
      BY <1>3, SizeIs
    <3> QED BY <1>2, <1>6, <2>3, <2>4, <2>5, <3>1 DEF Tidy, Fresh
  <2>7. \A k \in Key : Holds(d2, k) <=> Holds(d, k)
    BY <1>6, <2>3, <2>4, <2>5, HoldsIs
  <2>8. Same(d2, d)
    BY <2>3, <2>6, <2>7 DEF Same
  <2>9. Stays(d2, d)
    BY <1>2, <2>3, <2>4 DEF Stays, Fresh
  <2> QED BY <1>4, <1>6, <2>8, <2>9
<1>7. CASE Rehashing(d) \/ Used(d.table[1]) > size \/ n = Size(d.table[1])
  <2>1. d2 = d
    BY <1>1, <1>4, <1>7 DEF Reallocate
  <2>2. ~ Rehashing(d) => d.table[1] # NoTable
    <3>1. SUFFICES ASSUME d.table[1] = NoTable, ~ Rehashing(d) PROVE FALSE
      OBVIOUS
    <3>2. NoTable \in Tabs /\ TableOK(NoTable) /\ \A b \in DOMAIN NoTable : FALSE
      BY EmptyTab DEF NoTable, TableOK
    <3>3. Used(NoTable) = 0 /\ Size(NoTable) = 0
      BY <3>2, UsedIs, SizeIs
    <3>4. n > 0
      BY PowerPos DEF Powers
    <3> QED BY <1>7, <3>1, <3>3, <3>4
  <2> QED BY <1>4, <2>1, <2>2, SameAsIs
<1> QED BY <1>5, <1>6, <1>7

\* PutFirst() makes a table of a table.
LEMMA PutTab == ASSUME NEW t \in Tabs, t # NoTable, NEW k \in Key
                PROVE  PutFirst(t, k) \in Tabs /\ PutFirst(t, k) # NoTable
<1>1. PICK b \in DOMAIN t : b = Bucket(t, k)
  BY BucketIs
<1>2. PICK c \in Seq(Key) : c = t[b]
  BY SizeIs
<1>3. PICK r \in Seq(Key) : r = <<k>> \o c
  BY PutChain
<1>4. IsSet([t EXCEPT ![b] = r], t, b, r)
  BY SetChain
<1>5. PutFirst(t, k) = [t EXCEPT ![b] = r]
  BY <1>1, <1>2, <1>3 DEF PutFirst
<1> QED BY <1>4, <1>5 DEF IsSet

\* A table that has the keys of another, and the first i of a chain.
IsMoved(t, u, chain, i) ==
    /\ t \in Tabs /\ t # NoTable /\ TableOK(t)
    /\ \A x \in Key : In(t, x) <=> In(u, x) \/ \E j \in 1 .. i : chain[j] = x

\* A bucket is moved an entry at a time.
LEMMA MoveChain ==
    ASSUME NEW u \in Tabs, u # NoTable, TableOK(u), NEW chain \in Seq(Key),
           \A i \in DOMAIN chain : ~ In(u, chain[i]),
           \A i \in DOMAIN chain, j \in DOMAIN chain : chain[i] = chain[j] => i = j
    PROVE  LET to[i \in 0 .. Len(chain)] ==
                   IF i = 0 THEN u ELSE PutFirst(to[i - 1], chain[i])
           IN  IsMoved(to[Len(chain)], u, chain, Len(chain))
<1> DEFINE S == {t \in Tabs : t # NoTable}
           step == [p \in S \X (1 .. Len(chain)) |-> PutFirst(p[1], chain[p[2]])]
           Is(f) == f = [i \in 0 .. Len(chain) |->
                            IF i = 0 THEN u ELSE PutFirst(f[i - 1], chain[i])]
<1>0. Len(chain) \in Nat /\ DOMAIN chain = 1 .. Len(chain) /\ \A i \in 1 .. Len(chain) : chain[i] \in Key
  BY LengthIs
<1>1. PICK l \in Nat : l = Len(chain)
  BY <1>0
<1>2. Steps(l, S, step)
  <2>1. \A t \in S, i \in 1 .. l : PutFirst(t, chain[i]) \in S
    BY <1>0, <1>1, PutTab
  <2> HIDE DEF S
  <2> QED BY <1>1, <2>1 DEF Steps
<1>3. PICK f \in [0 .. l -> S] :
         f[0] = u /\ \A i \in 1 .. l : f[i] = PutFirst(f[i - 1], chain[i])
  <2>a. u \in S
    OBVIOUS
  <2>1. Orbit(l, S, u, step)
    <3> HIDE DEF step, S
    <3> QED BY <1>1, <1>2, <2>a, Iterates
  <2>2. PICK f \in [0 .. l -> S] : f[0] = u /\ \A i \in 1 .. l : f[i] = step[<<f[i - 1], i>>]
    <3> HIDE DEF step, S
    <3> QED BY <2>1 DEF Orbit
  <2>3. \A i \in 1 .. l : f[i - 1] \in S
    <3> HIDE DEF step, S
    <3> QED OBVIOUS
  <2>4. \A t \in S, i \in 1 .. l : step[<<t, i>>] = PutFirst(t, chain[i])
    <3> HIDE DEF S
    <3> QED BY <1>1
  <2> HIDE DEF step, S
  <2> QED BY <2>2, <2>3, <2>4
<1> HIDE DEF S, step
<1>4. Is(f)
  <2>1. \A i \in 0 .. l : f[i] = IF i = 0 THEN u ELSE PutFirst(f[i - 1], chain[i])
    BY <1>3
  <2> QED BY <1>1, <1>3, <2>1
<1>5. PICK g : g = (CHOOSE h : Is(h)) /\ Is(g)
  BY <1>4
<1>6. \A i \in 0 .. l : g[i] = IF i = 0 THEN u ELSE PutFirst(g[i - 1], chain[i])
  BY <1>1, <1>5
<1>7. g[0] = u /\ \A i \in 1 .. l : g[i] = PutFirst(g[i - 1], chain[i])
  BY <1>6
<1> DEFINE T == {i \in 0 .. l : IsMoved(g[i], u, chain, i)}
<1>8. 0 \in T
  <2>1. \A j \in 1 .. 0 : FALSE
    OBVIOUS
  <2>2. IsMoved(g[0], u, chain, 0)
    BY <1>7, <2>1 DEF IsMoved
  <2> QED BY <2>2
<1>9. \A i \in 1 .. l : i - 1 \in T => i \in T
  <2>1. SUFFICES ASSUME NEW i \in 1 .. l, i - 1 \in T PROVE i \in T
    OBVIOUS
  <2>2. PICK t : t = g[i - 1] /\ IsMoved(t, u, chain, i - 1)
    BY <2>1
  <2>3. PICK k \in Key : k = chain[i]
    BY <1>0, <1>1
  <2>4. ~ In(t, k)
    <3>1. ~ In(u, k) /\ \A j \in 1 .. i - 1 : j \in DOMAIN chain /\ i \in DOMAIN chain /\ j # i
      BY <1>0, <1>1, <2>3
    <3> QED BY <2>2, <2>3, <3>1 DEF IsMoved
  <2>5. IsPut(PutFirst(t, k), t, k)
    BY <2>2, <2>4, PutIs DEF IsMoved
  <2>6. PICK t2 : t2 = g[i] /\ IsPut(t2, t, k)
    BY <1>7, <2>2, <2>3, <2>5
  <2>7. \A j : j \in 1 .. i <=> j \in 1 .. i - 1 \/ j = i
    OBVIOUS
  <2>8. \A x \in Key : In(t2, x) <=> In(u, x) \/ \E j \in 1 .. i : chain[j] = x
    BY <2>2, <2>3, <2>6, <2>7 DEF IsMoved, IsPut
  <2>9. IsMoved(t2, u, chain, i)
    BY <2>6, <2>8 DEF IsMoved, IsPut, AlikeTab
  <2> QED BY <2>6, <2>9
<1> HIDE DEF T
<1>10. \A i \in 0 .. l : i \in T
  BY <1>8, <1>9, AllNumbers
<1>11. IsMoved(g[l], u, chain, l)
  BY <1>10 DEF T
<1> QED BY <1>1, <1>5, <1>11

\* moveBucket() leaves the bucket empty, and the keys in the second table.
LEMMA MoveBucketKeeps ==
    ASSUME NEW d \in DictRecord, Tidy(d), Rehashing(d), NEW b \in DOMAIN d.table[1],
           \A a \in DOMAIN d.table[1] : a < b => d.table[1][a] = <<>>
    PROVE  Same(MoveBucket(d, b), d) /\ Rehashing(MoveBucket(d, b))
<1>1. PICK t \in Tabs : t = d.table[1] /\ TableOK(t) /\ t # NoTable
  BY DictIs DEF Tidy
<1>2. PICK u \in Tabs : u = d.table[2] /\ TableOK(u) /\ u # NoTable
  BY DictIs DEF Tidy
<1>3. PICK chain \in Seq(Key) : chain = t[b]
  BY <1>1, ChainKeys
<1>4. Len(chain) \in Nat /\ DOMAIN chain = 1 .. Len(chain) /\ \A i \in 1 .. Len(chain) : chain[i] \in Key
  BY LengthIs
<1>5. \A i \in DOMAIN chain : In(t, chain[i]) /\ ~ In(u, chain[i])
  <2>1. TAKE i \in DOMAIN chain
  <2>2. chain[i] \in Key /\ Within(t[b], chain[i])
    BY <1>3, <1>4 DEF Within
  <2>3. In(t, chain[i])
    BY <1>1, <2>2, InChain
  <2> QED BY <1>1, <1>2, <2>2, <2>3 DEF Tidy
<1>6. \A i \in DOMAIN chain, j \in DOMAIN chain : chain[i] = chain[j] => i = j
  BY <1>1, <1>3 DEF TableOK, ChainOK
<1>7. PICK u2 : /\ IsMoved(u2, u, chain, Len(chain))
                /\ u2 = LET to[i \in 0 .. Len(chain)] ==
                                IF i = 0 THEN u ELSE PutFirst(to[i - 1], chain[i])
                        IN  to[Len(chain)]
  BY <1>2, <1>5, <1>6, MoveChain
<1>8. PICK c \in Seq(Key) : c = <<>>
  <2>1. <<>> \in Seq(Key)
    OBVIOUS
  <2> QED BY <2>1
<1>9. PICK t2 : t2 = [t EXCEPT ![b] = c] /\ IsSet(t2, t, b, c)
  BY <1>1, SetChain
<1>10. b \in Nat /\ b + 1 \in Nat \cup {-1} /\ b + 1 # -1
  BY <1>1, SizeIs
<1>11. PICK d2 : /\ d2 = MoveBucket(d, b) /\ Parts(d2, t2, u2, b + 1, d)
  <2>1. PICK m : m = b + 1
    OBVIOUS
  <2>2. PICK d2 : d2 = [d EXCEPT !.table = << t2, u2 >>, !.index = m]
    OBVIOUS
  <2>3. Parts(d2, t2, u2, m, d)
    <3>1. t2 \in Tabs /\ u2 \in Tabs /\ m \in Nat \cup {-1}
      BY <1>7, <1>9, <1>10, <2>1 DEF IsMoved, IsSet
    <3> QED BY <2>2, <3>1, WithBoth
  <2>4. MoveBucket(d, b) = d2
    BY <1>1, <1>2, <1>3, <1>7, <1>8, <1>9, <2>1, <2>2 DEF MoveBucket
  <2> QED BY <2>1, <2>3, <2>4
<1>12. /\ d2 \in DictRecord /\ d2.table[1] = t2 /\ d2.table[2] = u2 /\ d2.index = b + 1
       /\ d2.iters = d.iters
  BY <1>11 DEF Parts
<1>13. Rehashing(d2)
  BY <1>10, <1>12 DEF Rehashing
<1>14. TableOK(t2) /\ t2 # NoTable
  <2>1. \A a \in DOMAIN t : a # b => ChainOK(t2, a)
    <3>1. TAKE a \in DOMAIN t
    <3>2. ChainOK(t, a) /\ \A j \in DOMAIN t[a] : t[a][j] \in Key
      BY <1>1, ChainKeys DEF TableOK
    <3> QED BY <1>9, <3>2 DEF ChainOK, IsSet
  <2>2. DOMAIN t2[b] = {}
    BY <1>8, <1>9 DEF IsSet
  <2> QED BY <1>9, <2>1, <2>2 DEF TableOK, ChainOK, IsSet
<1>15. \A x \in Key : In(t2, x) <=> In(t, x) /\ ~ \E j \in 1 .. Len(chain) : chain[j] = x
  <2>1. TAKE x \in Key
  <2>2. PICK a \in DOMAIN t : a = Bucket(t, x)
    BY <1>1, BucketIs
  <2>3. In(t, x) <=> Within(t[a], x)
    BY <1>1, <2>2, InIs
  <2>4. In(t2, x) <=> Within(t2[a], x)
    BY <1>9, <2>2, InIs DEF IsSet
  <2>5. Within(t[b], x) <=> \E j \in 1 .. Len(chain) : chain[j] = x
    BY <1>3, <1>4 DEF Within
  <2>6. Within(t[b], x) => a = b
    BY <1>1, <2>2, InChain
  <2>7. ~ Within(t2[b], x)
    BY <1>8, <1>9 DEF Within, IsSet
  <2>8. CASE a = b
    BY <2>3, <2>4, <2>5, <2>7, <2>8
  <2>9. CASE a # b
    <3>1. t2[a] = t[a]
      BY <1>9, <2>9 DEF IsSet
    <3> QED BY <2>3, <2>4, <2>5, <2>6, <2>9, <3>1
  <2> QED BY <2>8, <2>9
<1>16. \A x \in Key : (In(t2, x) \/ In(u2, x)) <=> (In(t, x) \/ In(u, x))
  <2>1. \A x \in Key : In(u2, x) <=> In(u, x) \/ \E j \in 1 .. Len(chain) : chain[j] = x
    BY <1>7 DEF IsMoved
  <2>2. \A x \in Key : (\E j \in 1 .. Len(chain) : chain[j] = x) => In(t, x)
    BY <1>4, <1>5
  <2> QED BY <1>15, <2>1, <2>2
<1>17. \A x \in Key : ~ (In(t2, x) /\ In(u2, x))
  <2>1. \A x \in Key : In(u2, x) <=> In(u, x) \/ \E j \in 1 .. Len(chain) : chain[j] = x
    BY <1>7 DEF IsMoved
  <2>2. \A x \in Key : ~ (In(t, x) /\ In(u, x))
    BY <1>1, <1>2 DEF Tidy
  <2> QED BY <1>15, <2>1, <2>2
<1>18. \A a \in DOMAIN t2 : a < b + 1 => t2[a] = <<>>
  <2>1. TAKE a \in DOMAIN t2
  <2>2. a \in DOMAIN t /\ a \in Nat
    BY <1>1, <1>9, SizeIs DEF IsSet
  <2>3. a = b => t2[a] = <<>>
    BY <1>8, <1>9 DEF IsSet
  <2>4. a < b => t2[a] = <<>>
    BY <1>1, <1>9, <1>10, <2>2 DEF IsSet
  <2> QED BY <1>10, <2>2, <2>3, <2>4
<1>19. Tidy(d2)
  BY <1>7, <1>12, <1>13, <1>14, <1>17, <1>18 DEF Tidy, IsMoved
<1>20. \A x \in Key : Holds(d2, x) <=> Holds(d, x)
  BY <1>1, <1>2, <1>12, <1>13, <1>16, HoldsIs
<1>21. Same(d2, d)
  BY <1>12, <1>19, <1>20 DEF Same
<1> QED BY <1>11, <1>13, <1>21

\* The second table takes the place of the first when that is empty.
LEMMA FinishKeeps == ASSUME NEW d \in DictRecord, Tidy(d), Rehashing(d)
                     PROVE  Same(Finish(d), d)
<1>1. PICK t \in Tabs : t = d.table[1] /\ TableOK(t)
  BY DictIs DEF Tidy
<1>2. PICK u \in Tabs : u = d.table[2] /\ TableOK(u) /\ u # NoTable
  BY DictIs DEF Tidy
<1>3. CASE Used(t) = 0
  <2>1. PICK d2 : d2 = Finish(d) /\ Parts(d2, u, NoTable, -1, d)
    <3>1. PICK m \in Nat \cup {-1} : m = -1
      OBVIOUS
    <3>2. PICK n \in Tabs : n = NoTable
      BY EmptyTab
    <3>3. PICK d2 : d2 = [d EXCEPT !.table = << u, n >>, !.index = m]
      OBVIOUS
    <3>4. Parts(d2, u, n, m, d)
      BY <3>3, WithBoth
    <3>5. Finish(d) = d2
      BY <1>1, <1>2, <1>3, <3>1, <3>2, <3>3 DEF Finish, Done
    <3> QED BY <3>1, <3>2, <3>4, <3>5
  <2>2. /\ d2 \in DictRecord /\ d2.table[1] = u /\ d2.table[2] = NoTable /\ d2.index = -1
        /\ d2.iters = d.iters
    BY <2>1 DEF Parts
  <2>3. ~ Rehashing(d2)
    BY <2>2 DEF Rehashing
  <2>4. \A k \in Key : ~ In(t, k)
    <3>1. \A b \in DOMAIN t : t[b] = <<>>
      BY <1>1, <1>3, UsedIs
    <3>2. \A k \in Key : In(t, k) => Bucket(t, k) \in DOMAIN t /\ Within(t[Bucket(t, k)], k)
      BY InIs
    <3>3. \A k \in Key : ~ Within(<<>>, k)
      BY DEF Within
    <3> QED BY <3>1, <3>2, <3>3
  <2>5. \A k \in Key : ~ In(NoTable, k)
    BY EmptyTab, InIs
  <2>6. TableOK(NoTable)
    BY DEF TableOK, NoTable
  <2>7. Tidy(d2)
    BY <1>2, <2>2, <2>3, <2>5, <2>6 DEF Tidy
  <2>8. \A k \in Key : Holds(d2, k) <=> Holds(d, k)
    BY <1>1, <1>2, <2>2, <2>3, <2>4, HoldsIs
  <2> QED BY <2>1, <2>2, <2>7, <2>8 DEF Same
<1>4. CASE Used(t) # 0
  <2>1. Finish(d) = d
    BY <1>1, <1>4 DEF Finish, Done
  <2> QED BY <2>1, SameAsIs
<1> QED BY <1>3, <1>4

\* rehashBatch() keeps the keys.
LEMMA RehashBatchKeeps == ASSUME NEW d \in DictRecord, Tidy(d)
                          PROVE  Same(RehashBatch(d), d)
<1>1. CASE ~ Rehashing(d)
  <2>1. RehashBatch(d) = d
    BY <1>1 DEF RehashBatch
  <2> QED BY <2>1, SameAsIs
<1>2. CASE Rehashing(d) /\ Used(d.table[1]) = 0
  <2>1. RehashBatch(d) = Finish(d)
    BY <1>2 DEF RehashBatch
  <2> QED BY <1>2, <2>1, FinishKeeps
<1>3. CASE Rehashing(d) /\ Used(d.table[1]) # 0
  <2>1. PICK t \in Tabs : t = d.table[1] /\ TableOK(t) /\ t # NoTable
    BY <1>3, DictIs DEF Tidy
  <2>2. PICK x \in Nat : x = d.index
    BY <1>3, DictIs DEF Rehashing
  <2> DEFINE full == {b \in DOMAIN t : b >= x /\ t[b] # <<>>}
  <2>3. \A b \in DOMAIN t : b \in Nat /\ (b < x => t[b] = <<>>)
    BY <1>3, <2>1, <2>2, SizeIs DEF Tidy
  <2>4. full # {}
    <3>1. PICK b \in DOMAIN t : t[b] # <<>>
      BY <1>3, <2>1, UsedIs
    <3> QED BY <2>3, <3>1
  <2>5. full \in SUBSET Nat
    BY <2>3
  <2>6. \E b \in full : \A c \in full : b <= c
    <3> HIDE DEF full
    <3> QED BY <2>4, <2>5, LeastNat
  <2>7. PICK next : next = (CHOOSE b \in full : \A c \in full : b <= c)
    OBVIOUS
  <2>8. next \in full /\ \A c \in full : next <= c
    <3> HIDE DEF full
    <3> QED BY <2>6, <2>7
  <2>9. next \in DOMAIN t /\ next \in Nat /\ next >= x
    BY <2>3, <2>8
  <2>10. \A a \in DOMAIN t : a < next => t[a] = <<>>
    <3>1. SUFFICES ASSUME NEW a \in DOMAIN t, a < next, t[a] # <<>> PROVE FALSE
      OBVIOUS
    <3>2. a \in full
      BY <2>2, <2>3, <3>1
    <3> QED BY <2>3, <2>8, <2>9, <3>1, <3>2
  <2>11. RehashBatch(d) = IF next - x >= EmptyVisits THEN [d EXCEPT !.index = @ + EmptyVisits]
                          ELSE Finish(MoveBucket(d, next))
    BY <1>3, <2>1, <2>2, <2>7 DEF RehashBatch
  <2>12. CASE next - x >= EmptyVisits
    <3>1. PICK e \in Nat : e = EmptyVisits
      BY DictConstants
    <3>2. PICK m \in Nat \cup {-1} : m = x + e /\ m # -1
      BY <2>2
    <3>3. PICK d2 : d2 = [d EXCEPT !.index = m] /\ d2 = RehashBatch(d)
      BY <2>2, <2>11, <2>12, <3>1, <3>2
    <3>4. d2 \in DictRecord /\ d2.table = d.table /\ d2.index = m /\ d2.iters = d.iters
      BY <3>3 DEF DictRecord
    <3>5. Rehashing(d2)
      BY <3>2, <3>4 DEF Rehashing
    <3>6. \A b \in DOMAIN t : b < m => t[b] = <<>>
      BY <2>2, <2>3, <2>9, <2>10, <2>12, <3>1, <3>2
    <3>7. Tidy(d2)
      BY <1>3, <2>1, <3>4, <3>5, <3>6 DEF Tidy
    <3>8. \A k \in Key : Holds(d2, k) <=> Holds(d, k)
      BY <1>3, <3>4, <3>5, HoldsIs
    <3> QED BY <3>3, <3>4, <3>7, <3>8 DEF Same
  <2>13. CASE ~ (next - x >= EmptyVisits)
    <3>1. RehashBatch(d) = Finish(MoveBucket(d, next))
      BY <2>11, <2>13
    <3>2. Same(MoveBucket(d, next), d) /\ Rehashing(MoveBucket(d, next))
      BY <1>3, <2>1, <2>9, <2>10, MoveBucketKeeps
    <3>3. Same(Finish(MoveBucket(d, next)), MoveBucket(d, next))
      BY <3>2, FinishKeeps DEF Same
    <3> QED BY <3>1, <3>2, <3>3, SameTwice
  <2> QED BY <2>12, <2>13
<1> QED BY <1>1, <1>2, <1>3

\* With an iterator, rehashStep() does nothing.
LEMMA RehashStepKeeps == ASSUME NEW d \in DictRecord, Tidy(d)
                         PROVE  /\ Same(RehashStep(d), d)
                                /\ d.iters # 0 => RehashStep(d) = d
  BY RehashBatchKeeps, SameAsIs DEF RehashStep

\* The table new entries are put in.
Target(d) == IF Rehashing(d) THEN 2 ELSE 1

\* What fits into the largest table.
LEMMA ConstantsIs == /\ MinSize \in Nat /\ MinSize <= All /\ All \in Nat /\ All > 0
                     /\ Cardinality(Key) \in Nat /\ 2 * Cardinality(Key) <= All
                     /\ Cardinality(Key) <= All
<1>1. Cardinality(Key) \in Nat
  BY DictConstants, FS_CardinalityType
<1>2. 2 * Cardinality(Key) <= All
  BY DictConstants DEF All
<1>3. Bits \in Nat /\ MinSize \in {Power[b] : b \in 1 .. Bits}
  BY DictConstants
<1>4. PICK b \in 1 .. Bits : MinSize = Power[b]
  BY <1>3
<1>5. b \in 0 .. Bits /\ Bits \in 0 .. Bits
  BY <1>3
<1>6. All \in Nat /\ All > 0
  BY <1>5, PowerPos DEF All
<1>7. MinSize \in Nat /\ MinSize <= All
  BY <1>4, <1>5, SpanIs
<1>8. \A c \in Nat, a \in Nat : 2 * c <= a => c <= a
  OBVIOUS
<1> QED BY <1>1, <1>2, <1>6, <1>7, <1>8

\* expandIfNeeded() leaves the table new entries are put in.
LEMMA ExpandKeeps == ASSUME NEW d \in DictRecord, Tidy(d)
                     PROVE  LET d2 == ExpandIfNeeded(d)
                            IN  Same(d2, d) /\ Stays(d2, d) /\ d2.table[Target(d2)] # NoTable
<1>1. PICK t \in Tabs : t = d.table[1] /\ TableOK(t)
  BY DictIs DEF Tidy
<1>2. PICK used \in Nat : used = Used(t) /\ used <= Cardinality(Key)
  BY <1>1, UsedIs
<1>3. used * 2 <= All /\ used * 2 \in Nat
  BY <1>2, ConstantsIs
<1>4. MinSize \in Nat /\ MinSize <= All
  BY ConstantsIs
<1> DEFINE Ends(d2) == Same(d2, d) /\ Stays(d2, d) /\ d2.table[Target(d2)] # NoTable
<1>5. \A d2 : Same(d2, d) /\ Stays(d2, d) /\ d2.table[1] # NoTable => Ends(d2)
  BY DEF Same, Tidy, Target
<1>6. CASE Rehashing(d)
  <2>1. ExpandIfNeeded(d) = d
    BY <1>6 DEF ExpandIfNeeded
  <2>2. d.table[1] # NoTable
    BY <1>6 DEF Tidy
  <2>3. Ends(d)
    BY <1>5, <2>2, SameAsIs
  <2> QED BY <2>1, <2>3
<1>7. CASE ~ Rehashing(d) /\ t = NoTable
  <2>1. ExpandIfNeeded(d) = Reallocate(d, MinSize)
    BY <1>1, <1>7 DEF ExpandIfNeeded
  <2>2. PICK d2 : /\ d2 = Reallocate(d, MinSize) /\ Same(d2, d) /\ Stays(d2, d)
                  /\ d2.table[1] # NoTable
    BY <1>1, <1>4, <1>7, ReallocateKeeps
  <2>3. Ends(d2)
    BY <1>5, <2>2
  <2> QED BY <2>1, <2>2, <2>3
<1>8. CASE ~ Rehashing(d) /\ t # NoTable
  <2>1. ExpandIfNeeded(d) = d \/ ExpandIfNeeded(d) = Reallocate(d, used * 2)
    BY <1>1, <1>2, <1>8 DEF ExpandIfNeeded
  <2>2. Ends(d)
    BY <1>1, <1>5, <1>8, SameAsIs
  <2>3. PICK d2 : d2 = Reallocate(d, used * 2) /\ Same(d2, d) /\ Stays(d2, d)
    BY <1>3, ReallocateKeeps
  <2>4. d2.table[1] # NoTable
    <3>1. 1 \in Tables(d)
      BY DictIs
    <3> QED BY <1>1, <1>8, <2>3, <3>1 DEF Stays
  <2>5. Ends(d2)
    BY <1>5, <2>3, <2>4
  <2> QED BY <2>1, <2>2, <2>3, <2>5
<1> QED BY <1>6, <1>7, <1>8

-----------------------------------------------------------------------------
(* What an iterator has before it.                                         *)

\* A dictionary that differs in one key only.
AlikeDict(d2, d, k) ==
    /\ d2 \in DictRecord /\ Tidy(d2) /\ d2.iters = d.iters
    /\ Tables(d2) = Tables(d)
    /\ \A i \in Tables(d) : AlikeTab(d2.table[i], d.table[i], k)

\* A chain is like itself.
LEMMA AlikeSelf == ASSUME NEW t \in Tabs, NEW k \in Key PROVE AlikeTab(t, t, k)
  BY DEF AlikeTab, AlikeBut

\* The entry that goes into the target.
LEMMA PutKey ==
    ASSUME NEW d \in DictRecord, Tidy(d), NEW k \in Key, ~ Holds(d, k),
           d.table[Target(d)] # NoTable, NEW d2,
           d2 = [d EXCEPT !.table[Target(d)] = PutFirst(@, k)]
    PROVE  AlikeDict(d2, d, k) /\ \A x \in Key : Holds(d2, x) <=> Holds(d, x) \/ x = k
<1>1. PICK t \in Tabs : t = d.table[1] /\ TableOK(t)
  BY DictIs DEF Tidy
<1>2. PICK u \in Tabs : u = d.table[2] /\ TableOK(u)
  BY DictIs DEF Tidy
<1>3. PICK i \in {1, 2} : i = Target(d)
  BY DEF Target
<1>4. PICK w \in Tabs : w = d.table[i] /\ TableOK(w) /\ w # NoTable /\ ~ In(w, k)
  <2>1. ~ In(d.table[i], k)
    BY <1>3, HoldsIs DEF Target
  <2> QED BY <1>1, <1>2, <1>3, <2>1
<1>5. PICK w2 : w2 = PutFirst(w, k) /\ IsPut(w2, w, k)
  BY <1>4, PutIs
<1>6. w2 \in Tabs /\ TableOK(w2) /\ w2 # NoTable /\ AlikeTab(w2, w, k)
  BY <1>5 DEF IsPut, AlikeTab
<1>7. \A x \in Key : In(w2, x) <=> In(w, x) \/ x = k
  BY <1>5 DEF IsPut
<1>8. d2 = [d EXCEPT !.table[i] = w2]
  BY <1>3, <1>4, <1>5
<1>9. \A x \in Key : ~ (In(t, x) /\ In(u, x))
  BY <1>1, <1>2 DEF Tidy
<1>10. CASE Rehashing(d)
  <2>1. i = 2 /\ w = u
    BY <1>2, <1>3, <1>4, <1>10 DEF Target
  <2>2. Parts(d2, t, w2, d.index, d)
    BY <1>1, <1>6, <1>8, <2>1, WithTable
  <2>3. /\ d2 \in DictRecord /\ d2.table[1] = t /\ d2.table[2] = w2 /\ d2.index = d.index
        /\ d2.iters = d.iters
    BY <2>2 DEF Parts
  <2>4. Rehashing(d2) /\ Tables(d2) = {1, 2} /\ Tables(d) = {1, 2}
    BY <1>10, <2>3 DEF Rehashing, Tables
  <2>5. ~ In(t, k)
    BY <1>1, <1>10, HoldsIs
  <2>6. \A x \in Key : ~ (In(t, x) /\ In(w2, x))
    BY <1>7, <1>9, <2>1, <2>5
  <2>7. t # NoTable /\ \A b \in DOMAIN t : b < d.index => t[b] = <<>>
    BY <1>1, <1>10 DEF Tidy
  <2>8. Tidy(d2)
    BY <1>1, <1>6, <2>3, <2>4, <2>6, <2>7 DEF Tidy
  <2>9. \A j \in Tables(d) : AlikeTab(d2.table[j], d.table[j], k)
    BY <1>1, <1>2, <1>6, <2>1, <2>3, <2>4, AlikeSelf
  <2>10. AlikeDict(d2, d, k)
    BY <2>3, <2>4, <2>8, <2>9 DEF AlikeDict
  <2>11. \A x \in Key : Holds(d2, x) <=> Holds(d, x) \/ x = k
    BY <1>1, <1>2, <1>7, <1>10, <2>1, <2>3, <2>4, HoldsIs
  <2> QED BY <2>10, <2>11
<1>11. CASE ~ Rehashing(d)
  <2>1. i = 1 /\ w = t
    BY <1>1, <1>3, <1>4, <1>11 DEF Target
  <2>2. Parts(d2, w2, u, d.index, d)
    BY <1>2, <1>6, <1>8, <2>1, WithTable
  <2>3. /\ d2 \in DictRecord /\ d2.table[1] = w2 /\ d2.table[2] = u /\ d2.index = d.index
        /\ d2.iters = d.iters
    BY <2>2 DEF Parts
  <2>4. ~ Rehashing(d2) /\ Tables(d2) = {1} /\ Tables(d) = {1}
    BY <1>11, <2>3 DEF Rehashing, Tables
  <2>5. u = NoTable
    BY <1>2, <1>11 DEF Tidy
  <2>6. \A x \in Key : ~ In(u, x)
    BY <2>5, InIs
  <2>7. Tidy(d2)
    BY <1>2, <1>6, <2>3, <2>4, <2>5, <2>6 DEF Tidy
  <2>8. AlikeDict(d2, d, k)
    BY <1>1, <1>6, <2>1, <2>3, <2>4, <2>7 DEF AlikeDict
  <2>9. \A x \in Key : Holds(d2, x) <=> Holds(d, x) \/ x = k
    BY <1>1, <1>7, <1>11, <2>1, <2>3, <2>4, HoldsIs
  <2> QED BY <2>8, <2>9
<1> QED BY <1>10, <1>11

\* The table an entry is taken out of.
Holder(d, k) == IF In(d.table[1], k) THEN 1 ELSE 2

\* The entry that is taken out of its table.
LEMMA UnlinkKey ==
    ASSUME NEW d \in DictRecord, Tidy(d), NEW k \in Key, Holds(d, k), NEW d2,
           d2 = [d EXCEPT !.table[Holder(d, k)] = TakeOut(@, k)]
    PROVE  AlikeDict(d2, d, k) /\ \A x \in Key : Holds(d2, x) <=> Holds(d, x) /\ x # k
<1>1. PICK t \in Tabs : t = d.table[1] /\ TableOK(t)
  BY DictIs DEF Tidy
<1>2. PICK u \in Tabs : u = d.table[2] /\ TableOK(u)
  BY DictIs DEF Tidy
<1>3. PICK i \in {1, 2} : i = Holder(d, k)
  BY DEF Holder
<1>4. PICK w \in Tabs : w = d.table[i] /\ TableOK(w) /\ In(w, k)
  <2>1. In(d.table[i], k)
    BY <1>3, HoldsIs DEF Holder
  <2> QED BY <1>1, <1>2, <1>3, <2>1
<1>5. PICK w2 : w2 = TakeOut(w, k) /\ IsUnlink(w2, w, k)
  BY <1>4, UnlinkIs
<1>6. w2 \in Tabs /\ TableOK(w2) /\ w2 # NoTable /\ AlikeTab(w2, w, k) /\ DOMAIN w2 = DOMAIN w
  BY <1>5 DEF IsUnlink, AlikeTab
<1>7. \A x \in Key : In(w2, x) <=> In(w, x) /\ x # k
  BY <1>5 DEF IsUnlink
<1>8. d2 = [d EXCEPT !.table[i] = w2]
  BY <1>3, <1>4, <1>5
<1>9. \A x \in Key : ~ (In(t, x) /\ In(u, x))
  BY <1>1, <1>2 DEF Tidy
<1>10. CASE i = 2
  <2>1. w = u
    BY <1>2, <1>4, <1>10
  <2>2. Parts(d2, t, w2, d.index, d)
    BY <1>1, <1>6, <1>8, <1>10, WithTable
  <2>3. /\ d2 \in DictRecord /\ d2.table[1] = t /\ d2.table[2] = w2 /\ d2.index = d.index
        /\ d2.iters = d.iters
    BY <2>2 DEF Parts
  <2>4. ~ In(t, k)
    BY <1>1, <1>3, <1>10 DEF Holder
  <2>5. Rehashing(d)
    BY <1>1, <2>4, HoldsIs
  <2>6. Rehashing(d2) /\ Tables(d2) = {1, 2} /\ Tables(d) = {1, 2}
    BY <2>3, <2>5 DEF Rehashing, Tables
  <2>7. t # NoTable /\ \A b \in DOMAIN t : b < d.index => t[b] = <<>>
    BY <1>1, <2>5 DEF Tidy
  <2>8. \A x \in Key : ~ (In(t, x) /\ In(w2, x))
    BY <1>7, <1>9, <2>1
  <2>9. Tidy(d2)
    BY <1>1, <1>6, <2>3, <2>6, <2>7, <2>8 DEF Tidy
  <2>10. \A j \in Tables(d) : AlikeTab(d2.table[j], d.table[j], k)
    BY <1>1, <1>2, <1>6, <2>1, <2>3, <2>6, AlikeSelf
  <2>11. AlikeDict(d2, d, k)
    BY <2>3, <2>6, <2>9, <2>10 DEF AlikeDict
  <2>12. \A x \in Key : Holds(d2, x) <=> Holds(d, x) /\ x # k
    BY <1>1, <1>2, <1>7, <2>1, <2>3, <2>4, <2>5, <2>6, HoldsIs
  <2> QED BY <2>11, <2>12
<1>11. CASE i = 1
  <2>1. w = t
    BY <1>1, <1>4, <1>11
  <2>2. Parts(d2, w2, u, d.index, d)
    BY <1>2, <1>6, <1>8, <1>11, WithTable
  <2>3. /\ d2 \in DictRecord /\ d2.table[1] = w2 /\ d2.table[2] = u /\ d2.index = d.index
        /\ d2.iters = d.iters
    BY <2>2 DEF Parts
  <2>4. (Rehashing(d2) <=> Rehashing(d)) /\ Tables(d2) = Tables(d) /\ Tables(d) \subseteq {1, 2}
    BY <2>3 DEF Rehashing, Tables
  <2>5. Rehashing(d) => u # NoTable /\ \A b \in DOMAIN w2 : b < d.index => w2[b] = <<>>
    <3>1. SUFFICES ASSUME Rehashing(d)
                   PROVE  u # NoTable /\ \A b \in DOMAIN w2 : b < d.index => w2[b] = <<>>
      OBVIOUS
    <3>2. u # NoTable /\ \A b \in DOMAIN w : b < d.index => w[b] = <<>>
      BY <1>1, <1>2, <2>1, <3>1 DEF Tidy
    <3>3. \A b \in DOMAIN w : w[b] = <<>> => w2[b] = <<>>
      BY <1>5 DEF IsUnlink
    <3> QED BY <1>6, <3>2, <3>3
  <2>6. \A x \in Key : ~ (In(w2, x) /\ In(u, x))
    BY <1>7, <1>9, <2>1
  <2>7. ~ Rehashing(d) => u = NoTable
    BY <1>2 DEF Tidy
  <2>8. Tidy(d2)
    BY <1>2, <1>6, <2>3, <2>4, <2>5, <2>6, <2>7 DEF Tidy
  <2>9. \A j \in Tables(d) : AlikeTab(d2.table[j], d.table[j], k)
    BY <1>1, <1>2, <1>6, <2>1, <2>3, <2>4, AlikeSelf
  <2>10. AlikeDict(d2, d, k)
    BY <2>3, <2>4, <2>8, <2>9 DEF AlikeDict
  <2>11. \A x \in Key : Holds(d2, x) <=> Holds(d, x) /\ x # k
    <3>1. In(t, k) /\ ~ In(u, k)
      BY <1>4, <1>9, <2>1
    <3>2. TAKE x \in Key
    <3>3. CASE Rehashing(d)
      BY <1>1, <1>2, <1>7, <2>1, <2>3, <2>4, <3>1, <3>3, HoldsIs
    <3>4. CASE ~ Rehashing(d)
      BY <1>1, <1>7, <2>1, <2>3, <2>4, <3>4, HoldsIs
    <3> QED BY <3>3, <3>4
  <2> QED BY <2>10, <2>11
<1> QED BY <1>10, <1>11

\* Another key coming or going leaves before an iterator what is there.
LEMMA AheadAlike ==
    ASSUME NEW d \in DictRecord, NEW k \in Key, NEW d2, AlikeDict(d2, d, k),
           NEW it \in IterRecord, it.next # k, NEW x \in Key, x # k
    PROVE  Ahead(d2, it, x) <=> Ahead(d, it, x)
<1>1. \A i \in Tables(d) : /\ DOMAIN d2.table[i] = DOMAIN d.table[i]
                           /\ \A b \in DOMAIN d.table[i] : AlikeBut(d2.table[i][b], d.table[i][b], k)
  BY DEF AlikeDict, AlikeTab
<1>2. \A i \in Tables(d) : \A b \in DOMAIN d.table[i] :
         /\ Within(d2.table[i][b], x) <=> Within(d.table[i][b], x)
         /\ it.next # NoKey => (From(d2.table[i][b], it.next, x) <=> From(d.table[i][b], it.next, x))
  <2>1. it.next # NoKey => it.next \in Key \ {k}
    BY DEF IterRecord
  <2> QED BY <1>1, <2>1 DEF AlikeBut
<1>3. Tables(d2) = Tables(d)
  BY DEF AlikeDict
<1> QED BY <1>1, <1>2, <1>3 DEF Ahead

\* It stands where it stood.
LEMMA StandsAlike ==
    ASSUME NEW d \in DictRecord, NEW k \in Key, NEW d2, AlikeDict(d2, d, k),
           NEW it \in IterRecord, it.next # k, Stands(d, it)
    PROVE  Stands(d2, it)
<1>1. Tables(d2) = Tables(d) /\ it.table \in Tables(d) /\ it.index \in DOMAIN d.table[it.table]
  BY DEF AlikeDict, Stands
<1>2. /\ DOMAIN d2.table[it.table] = DOMAIN d.table[it.table]
      /\ AlikeBut(d2.table[it.table][it.index], d.table[it.table][it.index], k)
  BY <1>1 DEF AlikeDict, AlikeTab
<1>3. it.next # NoKey => it.next \in Key \ {k} /\ Within(d.table[it.table][it.index], it.next)
  BY DEF Stands
<1> QED BY <1>1, <1>2, <1>3 DEF Stands, AlikeBut

\* A new table changes nothing of that.
LEMMA AheadStays ==
    ASSUME NEW d \in DictRecord, Tidy(d), NEW d2, Stays(d2, d), NEW it, Stands(d, it)
    PROVE  Stands(d2, it) /\ \A x \in Key : Ahead(d2, it, x) <=> Ahead(d, it, x)
<1>1. \A i \in Tables(d) : d.table[i] # NoTable
  <2>1. d.table[it.table] # NoTable
    BY DEF Stands, NoTable
  <2>2. Tables(d) \subseteq {1, 2} /\ (2 \in Tables(d) <=> Rehashing(d)) /\ it.table \in Tables(d)
    BY DictIs DEF Stands
  <2>3. Rehashing(d) => d.table[1] # NoTable /\ d.table[2] # NoTable
    BY DEF Tidy
  <2> QED BY <2>1, <2>2, <2>3
<1>2. \A i \in Tables(d) : i \in Tables(d2) /\ d2.table[i] = d.table[i]
  BY <1>1 DEF Stays
<1>3. \A i \in Tables(d2) \ Tables(d) : \A b \in DOMAIN d2.table[i] :
         i # it.table /\ \A x \in Key : ~ Within(d2.table[i][b], x)
  <2>1. \A x \in Key : ~ Within(<<>>, x)
    BY DEF Within
  <2> QED BY <2>1 DEF Stays, Stands
<1>4. Stands(d2, it)
  BY <1>2 DEF Stands
<1>5. ASSUME NEW x \in Key PROVE Ahead(d2, it, x) <=> Ahead(d, it, x)
  <2>1. Ahead(d2, it, x) => Ahead(d, it, x)
    <3>1. SUFFICES ASSUME NEW i \in Tables(d2), NEW b \in DOMAIN d2.table[i],
                          \/ Later(it, i, b) /\ Within(d2.table[i][b], x)
                          \/ /\ i = it.table /\ b = it.index /\ it.next # NoKey
                             /\ From(d2.table[i][b], it.next, x)
                   PROVE  Ahead(d, it, x)
      BY DEF Ahead
    <3>2. i \in Tables(d)
      BY <1>3, <3>1
    <3> QED BY <1>2, <3>1, <3>2 DEF Ahead
  <2>2. Ahead(d, it, x) => Ahead(d2, it, x)
    <3>1. SUFFICES ASSUME NEW i \in Tables(d), NEW b \in DOMAIN d.table[i],
                          \/ Later(it, i, b) /\ Within(d.table[i][b], x)
                          \/ /\ i = it.table /\ b = it.index /\ it.next # NoKey
                             /\ From(d.table[i][b], it.next, x)
                   PROVE  Ahead(d2, it, x)
      BY DEF Ahead
    <3> QED BY <1>2, <3>1 DEF Ahead
  <2> QED BY <2>1, <2>2
<1> QED BY <1>4, <1>5

\* The entry after one: what was before the iterator, but for that one.
IsAfter(nx, c, n) ==
    /\ nx \in Key \cup {NoKey} /\ (nx # NoKey => Within(c, nx))
    /\ \A x \in Key : From(c, n, x) <=> x = n \/ (nx # NoKey /\ From(c, nx, x))
    /\ ~ (nx # NoKey /\ From(c, nx, n))

\* mNext is the entry after one.
LEMMA AfterIs ==
    ASSUME NEW d \in DictRecord, Tidy(d), NEW a \in Tables(d), NEW b \in DOMAIN d.table[a],
           NEW n \in Key, Within(d.table[a][b], n)
    PROVE  IsAfter(After(d, n), d.table[a][b], n)
<1>1. PICK t \in Tabs : t = d.table[a] /\ TableOK(t)
  BY DictIs DEF Tidy
<1>2. In(t, n) /\ Bucket(t, n) = b
  BY <1>1, InChain
<1>3. (IF In(d.table[1], n) THEN d.table[1] ELSE d.table[2]) = t
  <2>1. a \in {1, 2}
    BY DictIs
  <2>2. ~ (In(d.table[1], n) /\ In(d.table[2], n))
    BY DEF Tidy
  <2> QED BY <1>1, <1>2, <2>1, <2>2
<1>4. PICK c \in Seq(Key) : c = t[b]
  BY <1>1, ChainKeys
<1>5. PICK l \in Nat : l = Len(c) /\ DOMAIN c = 1 .. l /\ \A j \in DOMAIN c : c[j] \in Key
  BY LengthIs
<1>6. \A j \in DOMAIN c, m \in DOMAIN c : c[j] = c[m] => j = m
  BY <1>1, <1>4 DEF TableOK, ChainOK
<1>7. PICK i \in DOMAIN c : i = (CHOOSE j \in DOMAIN c : c[j] = n) /\ c[i] = n
  BY <1>1, <1>4 DEF Within
<1>8. PICK nx : nx = After(d, n)
  OBVIOUS
<1>9. nx = IF i = l THEN NoKey ELSE c[i + 1]
  BY <1>2, <1>3, <1>4, <1>5, <1>7, <1>8 DEF After
<1>10. NoKey \notin Key
  BY DictConstants
<1>11. \A x \in Key : From(c, n, x) <=> \E j \in DOMAIN c : c[j] = x /\ i <= j
  BY <1>6, <1>7 DEF From
<1>12. CASE i = l
  <2>1. nx = NoKey
    BY <1>9, <1>12
  <2>2. \A j \in DOMAIN c : i <= j <=> j = i
    BY <1>5, <1>12
  <2>3. \A x \in Key : From(c, n, x) <=> x = n
    BY <1>7, <1>11, <2>2
  <2>4. IsAfter(nx, c, n)
    BY <2>1, <2>3 DEF IsAfter
  <2> QED BY <1>1, <1>4, <1>8, <2>4
<1>13. CASE i # l
  <2>1. PICK q : q = i + 1 /\ q \in DOMAIN c
    BY <1>5, <1>13
  <2>2. nx = c[q] /\ nx \in Key /\ nx # NoKey /\ Within(c, nx)
    BY <1>5, <1>9, <1>10, <1>13, <2>1 DEF Within
  <2>3. \A x \in Key : From(c, nx, x) <=> \E j \in DOMAIN c : c[j] = x /\ q <= j
    BY <1>6, <2>1, <2>2 DEF From
  <2>4. \A j \in DOMAIN c : i <= j <=> j = i \/ q <= j
    BY <1>5, <2>1
  <2>5. \A x \in Key : From(c, n, x) <=> x = n \/ From(c, nx, x)
    <3>1. TAKE x \in Key
    <3>2. (\E j \in DOMAIN c : c[j] = x /\ i <= j) <=> x = n \/ \E j \in DOMAIN c : c[j] = x /\ q <= j
      BY <1>7, <2>4
    <3> QED BY <1>11, <2>3, <3>2
  <2>6. ~ From(c, nx, n)
    <3>1. \A j \in DOMAIN c : c[j] = n => j = i
      BY <1>6, <1>7
    <3>2. ~ (q <= i)
      BY <1>5, <2>1
    <3> QED BY <2>3, <3>1, <3>2
  <2>7. IsAfter(nx, c, n)
    BY <2>2, <2>5, <2>6 DEF IsAfter
  <2> QED BY <1>1, <1>4, <1>8, <2>7
<1> QED BY <1>12, <1>13

\* The head of a chain has all of it behind.
LEMMA HeadIs == ASSUME NEW c \in Seq(Key), c # <<>>
                PROVE  /\ Head(c) \in Key /\ Within(c, Head(c))
                       /\ \A x \in Key : From(c, Head(c), x) <=> Within(c, x)
<1>1. PICK l \in Nat : l = Len(c) /\ DOMAIN c = 1 .. l /\ \A j \in DOMAIN c : c[j] \in Key
  BY LengthIs
<1>2. 1 \in DOMAIN c /\ Head(c) = c[1]
  <2>1. l # 0
    BY <1>1, LengthIs
  <2> QED BY <1>1, <2>1
<1>3. \A j \in DOMAIN c : 1 <= j
  BY <1>1
<1>4. \A x \in Key : Within(c, x) => From(c, Head(c), x)
  BY <1>2, <1>3 DEF From, Within
<1>5. \A x \in Key : From(c, Head(c), x) => Within(c, x)
  BY DEF From, Within
<1> QED BY <1>1, <1>2, <1>4, <1>5 DEF Within

\* Of spots there is a first one.
LEMMA FirstSpot ==
    ASSUME NEW F \in SUBSET ({1, 2} \X Nat), F # {}
    PROVE  LET at == CHOOSE x \in F : \A y \in F : NotAfter(x, y)
           IN  at \in F /\ \A y \in F : NotAfter(at, y)
<1>a. \A x \in F : x = <<x[1], x[2]>> /\ x[1] \in {1, 2} /\ x[2] \in Nat
  OBVIOUS
<1> DEFINE ones == {x[1] : x \in F}
<1>1. PICK i \in ones : \A j \in ones : i <= j
  <2>1. ones \in SUBSET Nat /\ ones # {}
    BY <1>a
  <2> HIDE DEF ones
  <2> QED BY <2>1, LeastNat
<1> DEFINE twos == {x[2] : x \in {y \in F : y[1] = i}}
<1>2. PICK b \in twos : \A c \in twos : b <= c
  <2>1. twos \in SUBSET Nat /\ twos # {}
    BY <1>a
  <2> HIDE DEF twos
  <2> QED BY <2>1, LeastNat
<1>3. PICK x \in F : x[1] = i /\ x[2] = b
  OBVIOUS
<1>4. \A y \in F : NotAfter(x, y)
  <2>1. TAKE y \in F
  <2>2. i <= y[1] /\ (y[1] = i => b <= y[2])
    BY <1>1, <1>2
  <2>3. i \in {1, 2} /\ y[1] \in {1, 2}
    BY <1>a
  <2> QED BY <1>3, <2>2, <2>3 DEF NotAfter
<1> QED BY <1>3, <1>4

\* What getNext() needs of an iterator, which may just begin.
GoesOn(d, it) ==
    /\ it \in IterRecord /\ it.on /\ Returns(d, it)
    /\ it.next # NoKey => Stands(d, it)

\* The entry k of bucket b of table a comes next.
ComesNext(d, it, a, b, k) ==
    /\ a \in Tables(d) /\ b \in DOMAIN d.table[a] /\ k \in Key
    /\ Within(d.table[a][b], k) /\ Ahead(d, it, k)
    /\ \A x \in Key : Ahead(d, it, x) <=>
          \/ From(d.table[a][b], k, x)
          \/ \E i \in Tables(d) : \E c \in DOMAIN d.table[i] :
                (i > a \/ (i = a /\ c > b)) /\ Within(d.table[i][c], x)

\* What it is to return it.
IsReturn(it2, d, it, k) ==
    /\ it2 \in IterRecord /\ it2.on = it.on /\ Stands(d, it2) /\ Returns(d, it2)
    /\ it2.must = it.must /\ it2.got = it.got \cup {k}

\* An entry is returned.
LEMMA ReturnIs ==
    ASSUME NEW d \in DictRecord, Tidy(d), NEW it \in IterRecord, Returns(d, it),
           NEW a, NEW b, NEW k, ComesNext(d, it, a, b, k)
    PROVE  IsReturn(Return(it, d, k, <<a, b>>), d, it, k)
<1>a. /\ a \in Tables(d) /\ b \in DOMAIN d.table[a] /\ k \in Key
      /\ Within(d.table[a][b], k) /\ Ahead(d, it, k)
  BY DEF ComesNext
<1>b. \A x \in Key : Ahead(d, it, x) <=>
          \/ From(d.table[a][b], k, x)
          \/ \E i \in Tables(d) : \E c \in DOMAIN d.table[i] :
                (i > a \/ (i = a /\ c > b)) /\ Within(d.table[i][c], x)
  BY DEF ComesNext
<1>1. PICK nx : nx = After(d, k) /\ IsAfter(nx, d.table[a][b], k)
  BY <1>a, AfterIs
<1>2. nx \in Key \cup {NoKey}
  BY <1>1 DEF IsAfter
<1>3. a \in {1, 2} /\ b \in Nat
  <2>1. a \in {1, 2} /\ d.table[a] \in Tabs
    BY <1>a, DictIs
  <2>2. DOMAIN d.table[a] = 0 .. Size(d.table[a]) - 1 /\ Size(d.table[a]) \in Nat
    BY <2>1, SizeIs
  <2> QED BY <1>a, <2>1, <2>2
<1>4. k \notin it.got
  BY <1>a DEF Returns
<1>5. PICK it2 : it2 = Return(it, d, k, <<a, b>>)
  OBVIOUS
<1>6. it2 = [it EXCEPT !.table = a, !.index = b, !.node = k, !.next = nx,
                       !.got = @ \cup {k}, !.wrong = @ \/ k \in it.got]
  BY <1>1, <1>5 DEF Return
<1>7. /\ it2.table = a /\ it2.index = b /\ it2.next = nx /\ it2.got = it.got \cup {k}
      /\ it2.must = it.must /\ it2.on = it.on
  BY <1>6 DEF IterRecord
<1>8. it2 \in IterRecord
  <2>1. it.wrong = FALSE
    BY DEF IterRecord
  <2>2. PICK w : w = (it.wrong \/ k \in it.got) /\ w = FALSE
    BY <1>4, <2>1
  <2>3. it2 = [it EXCEPT !.table = a, !.index = b, !.node = k, !.next = nx,
                         !.got = @ \cup {k}, !.wrong = w]
    BY <1>6, <2>2 DEF IterRecord
  <2> QED BY <1>a, <1>2, <1>3, <2>2, <2>3 DEF IterRecord
<1>9. Stands(d, it2)
  BY <1>a, <1>1, <1>2, <1>7 DEF Stands, IsAfter
<1>10. \A x \in Key : Ahead(d, it2, x) <=>
          \/ nx # NoKey /\ From(d.table[a][b], nx, x)
          \/ \E i \in Tables(d) : \E c \in DOMAIN d.table[i] :
                (i > a \/ (i = a /\ c > b)) /\ Within(d.table[i][c], x)
  BY <1>a, <1>7 DEF Ahead, Later
<1>11. ~ \E i \in Tables(d) : \E c \in DOMAIN d.table[i] :
            (i > a \/ (i = a /\ c > b)) /\ Within(d.table[i][c], k)
  <2>1. SUFFICES ASSUME NEW i \in Tables(d), NEW c \in DOMAIN d.table[i],
                        i > a \/ (i = a /\ c > b), Within(d.table[i][c], k)
                 PROVE  FALSE
    OBVIOUS
  <2>2. i \in {1, 2} /\ a \in {1, 2} /\ d.table[i] \in Tabs /\ d.table[a] \in Tabs
    BY <1>a, DictIs
  <2>3. TableOK(d.table[i]) /\ TableOK(d.table[a])
    BY <2>2 DEF Tidy
  <2>4. In(d.table[i], k) /\ Bucket(d.table[i], k) = c
    BY <1>a, <2>1, <2>2, <2>3, InChain
  <2>5. In(d.table[a], k) /\ Bucket(d.table[a], k) = b
    BY <1>a, <2>2, <2>3, InChain
  <2>6. i = a
    BY <1>a, <2>2, <2>4, <2>5 DEF Tidy
  <2>7. c = b
    BY <2>4, <2>5, <2>6
  <2> QED BY <1>3, <2>1, <2>2, <2>6, <2>7
<1>12. \A x \in Key : Ahead(d, it, x) <=> x = k \/ Ahead(d, it2, x)
  BY <1>b, <1>1, <1>10 DEF IsAfter
<1>13. ~ Ahead(d, it2, k)
  BY <1>a, <1>1, <1>10, <1>11 DEF IsAfter
<1>14. Returns(d, it2)
  <2>1. SUFFICES ASSUME NEW x \in Key
                 PROVE  /\ x \in it2.must => x \in it2.got \/ Ahead(d, it2, x)
                        /\ ~ (x \in it2.got /\ Ahead(d, it2, x))
    BY DEF Returns
  <2>2. /\ x \in it.must => x \in it.got \/ Ahead(d, it, x)
        /\ ~ (x \in it.got /\ Ahead(d, it, x))
    BY DEF Returns
  <2> QED BY <1>7, <1>12, <1>13, <2>2
<1>15. IsReturn(it2, d, it, k)
  BY <1>7, <1>8, <1>9, <1>14 DEF IsReturn
<1> QED BY <1>5, <1>15

-----------------------------------------------------------------------------
(* The steps of the dictionary.                                            *)

\* The tables may change, if the keys do not.
LEMMA KeepStep ==
    ASSUME NEW d, NEW ks, NEW it, KeysOK(d, ks, it), IterOK(d, ks, it), NEW d2, Same(d2, d),
           d.iters # 0 => Stays(d2, d)
    PROVE  KeysOK(d2, ks, it) /\ IterOK(d2, ks, it)
<1>1. d \in DictRecord /\ Tidy(d) /\ d.iters = IF it.on THEN 1 ELSE 0
  BY DEF KeysOK
<1>2. KeysOK(d2, ks, it)
  <2>1. {k \in Key : Holds(d2, k)} = {k \in Key : Holds(d, k)}
    BY DEF Same
  <2> QED BY <2>1 DEF KeysOK, Same
<1>3. CASE it.on
  <2>1. Stays(d2, d) /\ Stands(d, it) /\ Returns(d, it)
    BY <1>1, <1>3 DEF IterOK
  <2>2. Stands(d2, it) /\ \A x \in Key : Ahead(d2, it, x) <=> Ahead(d, it, x)
    BY <1>1, <2>1, AheadStays
  <2>3. Returns(d2, it)
    BY <2>1, <2>2 DEF Returns
  <2> QED BY <1>2, <1>3, <2>2, <2>3 DEF IterOK
<1>4. CASE ~ it.on
  BY <1>2, <1>4 DEF IterOK
<1> QED BY <1>3, <1>4

\* A key is added.
LEMMA PutStep ==
    ASSUME NEW d, NEW ks, NEW it, KeysOK(d, ks, it), IterOK(d, ks, it), NEW k \in Key,
           k \notin ks, NEW d2, AlikeDict(d2, d, k),
           \A x \in Key : Holds(d2, x) <=> Holds(d, x) \/ x = k
    PROVE  KeysOK(d2, ks \cup {k}, it) /\ IterOK(d2, ks \cup {k}, it)
<1>1. d \in DictRecord /\ Tidy(d) /\ d.iters = IF it.on THEN 1 ELSE 0
  BY DEF KeysOK
<1>2. KeysOK(d2, ks \cup {k}, it)
  <2>1. {x \in Key : Holds(d2, x)} = {x \in Key : Holds(d, x)} \cup {k}
    OBVIOUS
  <2> QED BY <2>1 DEF KeysOK, AlikeDict
<1>3. it \in IterRecord /\ it.must \subseteq ks /\ it.got \subseteq ks
  BY DEF IterOK
<1>4. CASE it.on
  <2>1. Stands(d, it) /\ Returns(d, it)
    BY <1>4 DEF IterOK
  <2>2. it.next # k
    <3>1. SUFFICES ASSUME it.next = k PROVE FALSE
      OBVIOUS
    <3>2. k # NoKey
      BY DictConstants
    <3>3. /\ it.table \in Tables(d) /\ it.index \in DOMAIN d.table[it.table]
          /\ Within(d.table[it.table][it.index], k)
      BY <2>1, <3>1, <3>2 DEF Stands
    <3>4. d.table[it.table] \in Tabs /\ TableOK(d.table[it.table])
      BY <1>1, <3>3, DictIs DEF Tidy
    <3>5. In(d.table[it.table], k)
      BY <3>3, <3>4, InChain
    <3>6. Holds(d, k)
      BY <3>3, <3>5 DEF Holds
    <3> QED BY <3>6 DEF KeysOK
  <2>3. Stands(d2, it)
    BY <1>1, <1>3, <2>1, <2>2, StandsAlike
  <2>4. \A x \in Key \ {k} : Ahead(d2, it, x) <=> Ahead(d, it, x)
    BY <1>1, <1>3, <2>2, AheadAlike
  <2>5. Returns(d2, it)
    BY <1>3, <2>1, <2>4 DEF Returns
  <2> QED BY <1>2, <1>3, <1>4, <2>3, <2>5 DEF IterOK
<1>5. CASE ~ it.on
  BY <1>2, <1>3, <1>5 DEF IterOK
<1> QED BY <1>4, <1>5

\* What is forgotten of a removed key.
LEMMA ForgetIs == ASSUME NEW it \in IterRecord, NEW k
                  PROVE  LET r == Forget(it, k)
                         IN  /\ r \in IterRecord /\ r.on = it.on /\ r.table = it.table
                             /\ r.index = it.index /\ r.next = it.next
                             /\ r.must = it.must \ {k} /\ r.got = it.got \ {k}
  BY DEF Forget, IterRecord

\* A key is removed.
LEMMA UnlinkStep ==
    ASSUME NEW d, NEW ks, NEW it, KeysOK(d, ks, it), IterOK(d, ks, it), NEW k \in Key,
           it.next # k, NEW d2, AlikeDict(d2, d, k),
           \A x \in Key : Holds(d2, x) <=> Holds(d, x) /\ x # k
    PROVE  KeysOK(d2, ks \ {k}, Forget(it, k)) /\ IterOK(d2, ks \ {k}, Forget(it, k))
<1>1. d \in DictRecord /\ Tidy(d) /\ d.iters = IF it.on THEN 1 ELSE 0
  BY DEF KeysOK
<1>3. it \in IterRecord /\ it.must \subseteq ks /\ it.got \subseteq ks
  BY DEF IterOK
<1>4. PICK r : /\ r = Forget(it, k)
               /\ r \in IterRecord /\ r.on = it.on /\ r.table = it.table
               /\ r.index = it.index /\ r.next = it.next
               /\ r.must = it.must \ {k} /\ r.got = it.got \ {k}
  BY <1>3, ForgetIs
<1>5. KeysOK(d2, ks \ {k}, r)
  <2>1. {x \in Key : Holds(d2, x)} = {x \in Key : Holds(d, x)} \ {k}
    OBVIOUS
  <2> QED BY <1>4, <2>1 DEF KeysOK, AlikeDict
<1>6. r.must \subseteq ks \ {k} /\ r.got \subseteq ks \ {k}
  BY <1>3, <1>4
<1>7. CASE it.on
  <2>1. Stands(d, it) /\ Returns(d, it)
    BY <1>7 DEF IterOK
  <2>2. Stands(d2, it)
    BY <1>1, <1>3, <2>1, StandsAlike
  <2>3. Stands(d2, r)
    BY <1>4, <2>2 DEF Stands
  <2>4. \A x \in Key \ {k} : Ahead(d2, it, x) <=> Ahead(d, it, x)
    BY <1>1, <1>3, AheadAlike
  <2>5. \A x \in Key : Ahead(d2, r, x) <=> Ahead(d2, it, x)
    BY <1>4 DEF Ahead, Later
  <2>6. Returns(d2, r)
    <3>1. SUFFICES ASSUME NEW x \in Key
                   PROVE  /\ x \in r.must => x \in r.got \/ Ahead(d2, r, x)
                          /\ ~ (x \in r.got /\ Ahead(d2, r, x))
      BY DEF Returns
    <3>2. CASE x = k
      BY <1>4, <3>2
    <3>3. CASE x # k
      <4>1. /\ x \in it.must => x \in it.got \/ Ahead(d, it, x)
            /\ ~ (x \in it.got /\ Ahead(d, it, x))
        BY <2>1 DEF Returns
      <4> QED BY <1>4, <2>4, <2>5, <3>3, <4>1
    <3> QED BY <3>2, <3>3
  <2> QED BY <1>4, <1>5, <1>6, <1>7, <2>3, <2>6 DEF IterOK
<1>8. CASE ~ it.on
  <2>1. it = NoIter
    BY <1>8 DEF IterOK
  <2>2. r = NoIter
    <3>1. {} \ {k} = {}
      OBVIOUS
    <3> QED BY <1>4, <2>1, <3>1 DEF Forget, NoIter
  <2> QED BY <1>4, <1>5, <1>6, <1>8, <2>2 DEF IterOK
<1> QED BY <1>7, <1>8

\* A scan does not mind an added key, and forgets a removed one.
LEMMA ScanAdd == ASSUME NEW ks, NEW s, ScanOK(ks, s), NEW k PROVE ScanOK(ks \cup {k}, s)
  BY DEF ScanOK

\* A scan need not return a key that was removed.
LEMMA ScanForget == ASSUME NEW ks, NEW s, ScanOK(ks, s), NEW k
                    PROVE  ScanOK(ks \ {k}, Forget(s, k))
<1>1. s \in ScanRecord
  BY DEF ScanOK
<1>2. PICK r : r = Forget(s, k)
  OBVIOUS
<1>3. /\ r \in ScanRecord /\ r.on = s.on /\ r.v = s.v
      /\ r.must = s.must \ {k} /\ r.got = s.got \ {k}
  BY <1>1, <1>2 DEF Forget, ScanRecord
<1>4. ScanOK(ks \ {k}, r)
  BY <1>3 DEF ScanOK
<1> QED BY <1>2, <1>4

\* add().
LEMMA AddKeyStep == ASSUME DictInv, NEW k \in Key, AddKey(k) PROVE DictInv'
<1>1. KeysOK(dict, keys, iter) /\ IterOK(dict, keys, iter) /\ ScanOK(keys, scan)
  BY DEF DictInv
<1>2. dict \in DictRecord /\ Tidy(dict)
  BY <1>1 DEF KeysOK
<1>3. PICK d1 : d1 = RehashStep(dict) /\ Same(d1, dict) /\ (dict.iters # 0 => d1 = dict)
  BY <1>2, RehashStepKeeps
<1>4. PICK d : d = ExpandIfNeeded(d1) /\ Same(d, d1) /\ Stays(d, d1) /\ d.table[Target(d)] # NoTable
  BY <1>3, ExpandKeeps DEF Same
<1>5. Same(d, dict) /\ (dict.iters # 0 => Stays(d, dict))
  BY <1>3, <1>4, SameTwice
<1>6. KeysOK(d, keys, iter) /\ IterOK(d, keys, iter)
  BY <1>1, <1>5, KeepStep
<1>7. CASE Holds(d, k)
  <2>1. dict' = d /\ keys' = keys /\ iter' = iter /\ scan' = scan
    BY <1>3, <1>4, <1>7 DEF AddKey
  <2> QED BY <1>1, <1>6, <2>1 DEF DictInv
<1>8. CASE ~ Holds(d, k)
  <2>1. PICK d2 : d2 = [d EXCEPT !.table[Target(d)] = PutFirst(@, k)]
    OBVIOUS
  <2>2. dict' = d2 /\ keys' = keys \cup {k} /\ iter' = iter /\ scan' = scan
    BY <1>3, <1>4, <1>8, <2>1 DEF AddKey, Target
  <2>3. AlikeDict(d2, d, k) /\ \A x \in Key : Holds(d2, x) <=> Holds(d, x) \/ x = k
    BY <1>4, <1>6, <1>8, <2>1, PutKey DEF KeysOK
  <2>4. k \notin keys
    BY <1>6, <1>8 DEF KeysOK
  <2>5. KeysOK(d2, keys \cup {k}, iter) /\ IterOK(d2, keys \cup {k}, iter)
    BY <1>6, <2>3, <2>4, PutStep
  <2>6. ScanOK(keys \cup {k}, scan)
    BY <1>1, ScanAdd
  <2> QED BY <2>2, <2>5, <2>6 DEF DictInv
<1> QED BY <1>7, <1>8

\* remove().
LEMMA RemoveKeyStep == ASSUME DictInv, NEW k \in Key, RemoveKey(k) PROVE DictInv'
<1>1. KeysOK(dict, keys, iter) /\ IterOK(dict, keys, iter) /\ ScanOK(keys, scan)
  BY DEF DictInv
<1>2. dict \in DictRecord /\ Tidy(dict)
  BY <1>1 DEF KeysOK
<1>3. PICK d : d = RehashStep(dict) /\ Same(d, dict) /\ (dict.iters # 0 => d = dict)
  BY <1>2, RehashStepKeeps
<1>4. dict.iters # 0 => Stays(d, dict)
  BY <1>2, <1>3, SameAsIs
<1>5. KeysOK(d, keys, iter) /\ IterOK(d, keys, iter)
  BY <1>1, <1>3, <1>4, KeepStep
<1>6. CASE ~ Holds(d, k)
  <2>1. dict' = d /\ keys' = keys /\ iter' = iter /\ scan' = scan
    BY <1>3, <1>6 DEF RemoveKey
  <2> QED BY <1>1, <1>5, <2>1 DEF DictInv
<1>7. CASE Holds(d, k)
  <2>1. PICK d2 : d2 = [d EXCEPT !.table[Holder(d, k)] = TakeOut(@, k)]
    OBVIOUS
  <2>2. /\ dict' = d2 /\ keys' = keys \ {k} /\ iter' = Forget(iter, k)
        /\ scan' = Forget(scan, k) /\ iter.next # k
    BY <1>3, <1>7, <2>1 DEF RemoveKey, Holder
  <2>3. AlikeDict(d2, d, k) /\ \A x \in Key : Holds(d2, x) <=> Holds(d, x) /\ x # k
    BY <1>5, <1>7, <2>1, UnlinkKey DEF KeysOK
  <2>4. KeysOK(d2, keys \ {k}, Forget(iter, k)) /\ IterOK(d2, keys \ {k}, Forget(iter, k))
    BY <1>5, <2>2, <2>3, UnlinkStep
  <2>5. ScanOK(keys \ {k}, Forget(scan, k))
    BY <1>1, ScanForget
  <2> QED BY <2>2, <2>4, <2>5 DEF DictInv
<1> QED BY <1>6, <1>7

\* The other operations of the dictionary.
LEMMA OtherStep == ASSUME DictInv, Find \/ Resize \/ Clear \/ \E b \in BOOLEAN : MayResize(b)
                   PROVE  DictInv'
<1>1. KeysOK(dict, keys, iter) /\ IterOK(dict, keys, iter) /\ ScanOK(keys, scan)
  BY DEF DictInv
<1>2. dict \in DictRecord /\ Tidy(dict)
  BY <1>1 DEF KeysOK
<1>3. ASSUME NEW d, Same(d, dict), dict.iters # 0 => Stays(d, dict),
             dict' = d, UNCHANGED <<keys, scan, iter>>
      PROVE  DictInv'
  <2>1. KeysOK(d, keys, iter) /\ IterOK(d, keys, iter)
    BY <1>1, <1>3, KeepStep
  <2> QED BY <1>1, <1>3, <2>1 DEF DictInv
<1>4. CASE Find
  <2>1. PICK d : d = RehashStep(dict) /\ Same(d, dict) /\ (dict.iters # 0 => d = dict)
    BY <1>2, RehashStepKeeps
  <2>2. dict.iters # 0 => Stays(d, dict)
    BY <1>2, <2>1, SameAsIs
  <2>3. dict' = d /\ UNCHANGED <<keys, scan, iter>>
    BY <1>4, <2>1 DEF Find
  <2> QED BY <1>3, <2>1, <2>2, <2>3
<1>5. CASE Resize
  <2>1. PICK t \in Tabs : t = dict.table[1] /\ TableOK(t)
    BY <1>2, DictIs DEF Tidy
  <2>2. PICK used \in Nat : used = Used(t) /\ used <= Cardinality(Key)
    BY <2>1, UsedIs
  <2>3. Cardinality(Key) \in Nat /\ Cardinality(Key) <= All /\ MinSize \in Nat /\ MinSize <= All
    BY ConstantsIs
  <2>4. PICK size \in Nat : size = (IF used < MinSize THEN MinSize ELSE used) /\ size <= All
    <3>1. All \in Nat
      BY ConstantsIs
    <3> QED BY <2>2, <2>3, <3>1
  <2>5. PICK d : d = Reallocate(dict, size) /\ Same(d, dict) /\ Stays(d, dict)
    BY <1>2, <2>4, ReallocateKeeps
  <2>6. dict' = d /\ UNCHANGED <<keys, scan, iter>>
    BY <1>5, <2>1, <2>2, <2>4, <2>5 DEF Resize
  <2> QED BY <1>3, <2>5, <2>6
<1>6. CASE \E b \in BOOLEAN : MayResize(b)
  <2>1. PICK b \in BOOLEAN : MayResize(b)
    BY <1>6
  <2>2. PICK d : d = [dict EXCEPT !.may = b]
    OBVIOUS
  <2>3. /\ d \in DictRecord /\ d.table = dict.table /\ d.index = dict.index
        /\ d.iters = dict.iters
    BY <1>2, <2>2 DEF DictRecord
  <2>4. (Rehashing(d) <=> Rehashing(dict)) /\ Tables(d) = Tables(dict)
    BY <2>3 DEF Rehashing, Tables
  <2>5. Tidy(d)
    BY <1>2, <2>3, <2>4 DEF Tidy
  <2>6. Same(d, dict)
    BY <2>3, <2>4, <2>5 DEF Same, Holds
  <2>7. Stays(d, dict)
    BY <2>3, <2>4 DEF Stays
  <2>8. dict' = d /\ UNCHANGED <<keys, scan, iter>>
    BY <2>1, <2>2 DEF MayResize
  <2> QED BY <1>3, <2>6, <2>7, <2>8
<1>7. CASE Clear
  <2>1. PICK d : /\ d = [dict EXCEPT !.table = << NoTable, NoTable >>, !.index = -1]
                 /\ Parts(d, NoTable, NoTable, -1, dict)
    <3>1. PICK m \in Nat \cup {-1} : m = -1
      OBVIOUS
    <3>2. PICK n \in Tabs : n = NoTable
      BY EmptyTab
    <3>3. PICK d : d = [dict EXCEPT !.table = << n, n >>, !.index = m]
      OBVIOUS
    <3>4. Parts(d, n, n, m, dict)
      BY <1>2, <3>3, WithBoth
    <3> QED BY <3>1, <3>2, <3>3, <3>4
  <2>2. /\ d \in DictRecord /\ d.table[1] = NoTable /\ d.table[2] = NoTable /\ d.index = -1
        /\ d.iters = dict.iters
    BY <2>1 DEF Parts
  <2>3. /\ dict' = d /\ keys' = {} /\ scan' = [scan EXCEPT !.must = {}] /\ iter' = iter
        /\ dict.iters = 0
    BY <1>7, <2>1 DEF Clear
  <2>4. ~ Rehashing(d)
    BY <2>2 DEF Rehashing
  <2>5. TableOK(NoTable) /\ \A x \in Key : ~ In(NoTable, x)
    BY EmptyTab, InIs DEF TableOK, NoTable
  <2>6. Tidy(d)
    BY <2>2, <2>4, <2>5 DEF Tidy
  <2>7. \A x \in Key : ~ Holds(d, x)
    BY <2>2, <2>4, <2>5, HoldsIs
  <2>8. ~ iter.on /\ iter = NoIter /\ iter \in IterRecord
    BY <1>1, <2>3 DEF KeysOK, IterOK
  <2>9. KeysOK(d, {}, iter)
    BY <2>2, <2>3, <2>6, <2>7, <2>8 DEF KeysOK
  <2>10. IterOK(d, {}, iter)
    BY <2>8 DEF IterOK, NoIter
  <2>11. ScanOK({}, scan')
    <3>1. scan \in ScanRecord
      BY <1>1 DEF ScanOK
    <3>2. PICK s : s = scan'
      OBVIOUS
    <3>3. s \in ScanRecord /\ s.must = {}
      BY <2>3, <3>1, <3>2 DEF ScanRecord
    <3>4. ScanOK({}, s)
      BY <3>3 DEF ScanOK
    <3> QED BY <3>2, <3>4
  <2> QED BY <2>3, <2>9, <2>10, <2>11 DEF DictInv
<1> QED BY <1>4, <1>5, <1>6, <1>7

\* What getNext() leaves behind.
NextOK(d, ks, it) == KeysOK(d, ks, it) /\ IterOK(d, ks, it)

\* The next entry of the chain.
LEMMA NextInChain ==
    ASSUME NEW d \in DictRecord, Tidy(d), NEW ks, NEW it, KeysOK(d, ks, it), GoesOn(d, it),
           it.must \subseteq ks, it.got \subseteq ks, it.next # NoKey
    PROVE  NextOK(d, ks, Return(it, d, it.next, <<it.table, it.index>>))
<1>1. /\ it.table \in Tables(d) /\ it.index \in DOMAIN d.table[it.table]
      /\ it.next \in Key /\ Within(d.table[it.table][it.index], it.next)
  BY DEF GoesOn, Stands
<1>2. PICK a \in Tables(d) : a = it.table
  BY <1>1
<1>3. PICK b \in DOMAIN d.table[a] : b = it.index
  BY <1>1, <1>2
<1>4. PICK k \in Key : k = it.next /\ Within(d.table[a][b], k)
  BY <1>1, <1>2, <1>3
<1>5. b \in Nat
  BY <1>2, DictIs, SizeIs
<1>6. \A x \in Key : Ahead(d, it, x) <=>
              \/ From(d.table[a][b], k, x)
              \/ \E i \in Tables(d) : \E c \in DOMAIN d.table[i] :
                    (i > a \/ (i = a /\ c > b)) /\ Within(d.table[i][c], x)
  BY <1>2, <1>3, <1>4 DEF Ahead, Later
<1>7. From(d.table[a][b], k, k)
  <2>1. d.table[a] \in Tabs
    BY DictIs
  <2>2. \A m \in DOMAIN d.table[a][b] : m <= m
    BY <2>1, ChainKeys
  <2> QED BY <1>4, <2>2 DEF Within, From
<1>8. Ahead(d, it, k)
  BY <1>6, <1>7
<1>9. PICK r : r = Return(it, d, k, <<a, b>>) /\ IsReturn(r, d, it, k)
  <2>1. ComesNext(d, it, a, b, k)
    BY <1>4, <1>6, <1>8 DEF ComesNext
  <2>2. it \in IterRecord /\ Returns(d, it)
    BY DEF GoesOn
  <2> QED BY <2>1, <2>2, ReturnIs
<1>10. k \in ks
  <2>1. d.table[a] \in Tabs /\ TableOK(d.table[a])
    BY DictIs DEF Tidy
  <2>2. In(d.table[a], k)
    BY <1>4, <2>1, InChain
  <2> QED BY <2>2 DEF KeysOK, Holds
<1>11. IterOK(d, ks, r)
  BY <1>9, <1>10 DEF IterOK, GoesOn, IsReturn
<1>12. KeysOK(d, ks, r)
  BY <1>9 DEF KeysOK, IsReturn
<1> QED BY <1>2, <1>3, <1>4, <1>9, <1>11, <1>12 DEF NextOK

\* The chains getNext() has before it.
Full(d, it) == {x \in ToCome(d, it) : d.table[x[1]][x[2]] # <<>>}

\* They are the buckets that come later.
LEMMA FullIs == ASSUME NEW d \in DictRecord, NEW it
                PROVE  /\ Full(d, it) \in SUBSET ({1, 2} \X Nat)
                       /\ \A i, b : <<i, b>> \in Full(d, it) <=>
                             /\ i \in Tables(d) /\ b \in DOMAIN d.table[i]
                             /\ Later(it, i, b) /\ d.table[i][b] # <<>>
<1>1. \A i \in Tables(d) : i \in {1, 2} /\ d.table[i] \in Tabs
  BY DictIs
<1>2. \A i \in Tables(d) : \A b \in DOMAIN d.table[i] : b \in Nat
  <2>1. TAKE i \in Tables(d)
  <2>2. DOMAIN d.table[i] = 0 .. Size(d.table[i]) - 1 /\ Size(d.table[i]) \in Nat
    BY <1>1, SizeIs
  <2> QED BY <2>2
<1>3. \A x \in Full(d, it) : x \in {1, 2} \X Nat
  BY <1>1, <1>2 DEF Full, ToCome
<1>4. ASSUME NEW i, NEW b
      PROVE  <<i, b>> \in Full(d, it) <=>
                             /\ i \in Tables(d) /\ b \in DOMAIN d.table[i]
                             /\ Later(it, i, b) /\ d.table[i][b] # <<>>
  <2>1. <<i, b>>[1] = i /\ <<i, b>>[2] = b
    OBVIOUS
  <2>2. <<i, b>> \in UNION {{j} \X DOMAIN d.table[j] : j \in Tables(d)} <=>
           i \in Tables(d) /\ b \in DOMAIN d.table[i]
    OBVIOUS
  <2> QED BY <2>1, <2>2 DEF Full, ToCome, Later
<1> QED BY <1>3, <1>4

\* A key in a later chain.
LEMMA AheadIs ==
    ASSUME NEW d \in DictRecord, NEW it, it.next = NoKey, NEW x \in Key
    PROVE  Ahead(d, it, x) <=> \E i \in Tables(d) : \E b \in DOMAIN d.table[i] :
                                  <<i, b>> \in Full(d, it) /\ Within(d.table[i][b], x)
<1>1. \A i \in Tables(d) : \A b \in DOMAIN d.table[i] : Within(d.table[i][b], x) => d.table[i][b] # <<>>
  <2>1. ~ Within(<<>>, x)
    BY DEF Within
  <2> QED BY <2>1
<1>2. \A i \in Tables(d) : \A b \in DOMAIN d.table[i] :
         <<i, b>> \in Full(d, it) <=> Later(it, i, b) /\ d.table[i][b] # <<>>
  BY FullIs
<1> QED BY <1>1, <1>2 DEF Ahead

\* The head of the next chain.
LEMMA NextChain ==
    ASSUME NEW d \in DictRecord, Tidy(d), NEW ks, NEW it, KeysOK(d, ks, it), GoesOn(d, it),
           it.must \subseteq ks, it.got \subseteq ks, it.next = NoKey, Full(d, it) # {},
           NEW at, at = CHOOSE x \in Full(d, it) : \A y \in Full(d, it) : NotAfter(x, y)
    PROVE  NextOK(d, ks, Return(it, d, Head(d.table[at[1]][at[2]]), at))
<1>1. at \in Full(d, it) /\ \A y \in Full(d, it) : NotAfter(at, y)
  BY FullIs, FirstSpot
<1>2. PICK a \in {1, 2}, b \in Nat : at = <<a, b>>
  <2>1. at \in {1, 2} \X Nat
    BY <1>1, FullIs
  <2> QED BY <2>1
<1>3. /\ a \in Tables(d) /\ b \in DOMAIN d.table[a] /\ Later(it, a, b) /\ d.table[a][b] # <<>>
      /\ at[1] = a /\ at[2] = b
  <2>1. <<a, b>> \in Full(d, it)
    BY <1>1, <1>2
  <2>2. /\ a \in Tables(d) /\ b \in DOMAIN d.table[a] /\ Later(it, a, b) /\ d.table[a][b] # <<>>
    <3>1. \A i, e : <<i, e>> \in Full(d, it) =>
             i \in Tables(d) /\ e \in DOMAIN d.table[i] /\ Later(it, i, e) /\ d.table[i][e] # <<>>
      BY FullIs
    <3> QED BY <2>1, <3>1
  <2>3. <<a, b>>[1] = a /\ <<a, b>>[2] = b
    OBVIOUS
  <2>4. at[1] = a /\ at[2] = b
    BY <1>2, <2>3
  <2> QED BY <2>2, <2>4
<1>4. PICK c \in Seq(Key) : c = d.table[a][b] /\ c # <<>>
  BY <1>3, DictIs, ChainKeys
<1>5. PICK k \in Key : /\ k = Head(c) /\ Within(c, k)
                       /\ \A x \in Key : From(c, k, x) <=> Within(c, x)
  BY <1>4, HeadIs
<1>6. \A i \in Tables(d) : \A e \in DOMAIN d.table[i] : <<i, e>> \in Full(d, it) <=>
         /\ i > a \/ (i = a /\ (e > b \/ e = b))
         /\ d.table[i][e] # <<>>
  <2>1. TAKE i \in Tables(d)
  <2>2. TAKE e \in DOMAIN d.table[i]
  <2>3. i \in {1, 2} /\ e \in Nat
    <3>1. i \in {1, 2} /\ d.table[i] \in Tabs
      BY DictIs
    <3>2. DOMAIN d.table[i] = 0 .. Size(d.table[i]) - 1 /\ Size(d.table[i]) \in Nat
      BY <3>1, SizeIs
    <3> QED BY <3>1, <3>2
  <2>4. <<i, e>> \in Full(d, it) <=> Later(it, i, e) /\ d.table[i][e] # <<>>
    BY FullIs
  <2>5. <<i, e>> \in Full(d, it) => a < i \/ (a = i /\ b <= e)
    <3>1. SUFFICES ASSUME <<i, e>> \in Full(d, it) PROVE a < i \/ (a = i /\ b <= e)
      OBVIOUS
    <3>2. NotAfter(at, <<i, e>>)
      BY <1>1, <3>1
    <3> QED BY <1>3, <3>2 DEF NotAfter
  <2>6. it.table \in {1, 2} /\ it.index \in Int
    BY DEF GoesOn, IterRecord
  <2>7. i > a \/ (i = a /\ (e > b \/ e = b)) => Later(it, i, e)
    BY <1>3, <2>3, <2>6 DEF Later
  <2> QED BY <2>3, <2>4, <2>5, <2>7
<1>7. \A x \in Key : Ahead(d, it, x) <=>
              \/ From(d.table[a][b], k, x)
              \/ \E i \in Tables(d) : \E e \in DOMAIN d.table[i] :
                    (i > a \/ (i = a /\ e > b)) /\ Within(d.table[i][e], x)
  <2>1. TAKE x \in Key
  <2>2. Ahead(d, it, x) <=> \E i \in Tables(d) : \E e \in DOMAIN d.table[i] :
                                  <<i, e>> \in Full(d, it) /\ Within(d.table[i][e], x)
    BY AheadIs
  <2>3. \A i \in Tables(d) : \A e \in DOMAIN d.table[i] : Within(d.table[i][e], x) => d.table[i][e] # <<>>
    <3>1. ~ Within(<<>>, x)
      BY DEF Within
    <3> QED BY <3>1
  <2>4. From(d.table[a][b], k, x) <=> Within(d.table[a][b], x)
    BY <1>4, <1>5
  <2>5. \A i \in Tables(d) : \A e \in DOMAIN d.table[i] :
           <<i, e>> \in Full(d, it) /\ Within(d.table[i][e], x) <=>
              \/ i = a /\ e = b /\ Within(d.table[i][e], x)
              \/ (i > a \/ (i = a /\ e > b)) /\ Within(d.table[i][e], x)
    BY <1>6, <2>3
  <2> QED BY <1>3, <2>2, <2>4, <2>5
<1>8. Ahead(d, it, k)
  BY <1>4, <1>5, <1>7
<1>9. PICK r : r = Return(it, d, k, <<a, b>>) /\ IsReturn(r, d, it, k)
  <2>1. Within(d.table[a][b], k)
    BY <1>4, <1>5
  <2>2. ComesNext(d, it, a, b, k)
    BY <1>3, <1>7, <1>8, <2>1 DEF ComesNext
  <2>3. it \in IterRecord /\ Returns(d, it)
    BY DEF GoesOn
  <2> QED BY <2>2, <2>3, ReturnIs
<1>10. k \in ks
  <2>1. d.table[a] \in Tabs /\ TableOK(d.table[a]) /\ Within(d.table[a][b], k)
    BY <1>4, <1>5, DictIs DEF Tidy
  <2>2. In(d.table[a], k)
    BY <1>3, <2>1, InChain
  <2> QED BY <1>3, <2>2 DEF KeysOK, Holds
<1>11. IterOK(d, ks, r)
  BY <1>9, <1>10 DEF IterOK, GoesOn, IsReturn
<1>12. KeysOK(d, ks, r)
  BY <1>9 DEF KeysOK, IsReturn
<1>13. Return(it, d, Head(d.table[at[1]][at[2]]), at) = r
  BY <1>2, <1>3, <1>4, <1>5, <1>9
<1> QED BY <1>11, <1>12, <1>13 DEF NextOK

\* At the end all was returned that had to be.
LEMMA NextEnds ==
    ASSUME NEW d \in DictRecord, Tidy(d), NEW ks, NEW it, KeysOK(d, ks, it), GoesOn(d, it),
           it.must \subseteq ks, it.next = NoKey, Full(d, it) = {}, NEW d2, NEW it2,
           d2 = [d EXCEPT !.iters = @ - 1],
           it2 = [NoIter EXCEPT !.wrong = it.wrong \/ ~(it.must \subseteq it.got)]
    PROVE  NextOK(d2, ks, it2)
<1>1. \A x \in Key : ~ Ahead(d, it, x)
  BY AheadIs
<1>2. it.must \subseteq it.got /\ it.wrong = FALSE /\ it.on
  BY <1>1 DEF GoesOn, Returns, IterRecord
<1>3. PICK w : w = (it.wrong \/ ~(it.must \subseteq it.got)) /\ w = FALSE
  BY <1>2
<1>4. it2 = NoIter /\ it2 \in IterRecord /\ it2.must = {} /\ it2.got = {} /\ ~ it2.on
  <2>1. it2 = [NoIter EXCEPT !.wrong = w]
    BY <1>3
  <2>2. it2 = NoIter
    BY <1>3, <2>1 DEF NoIter
  <2>3. NoIter \in IterRecord
    BY DEF NoIter, IterRecord
  <2>4. NoIter.must = {} /\ NoIter.got = {} /\ NoIter.on = FALSE
    BY DEF NoIter
  <2> QED BY <2>2, <2>3, <2>4
<1>5. d.iters = 1
  BY <1>2 DEF KeysOK
<1>6. PICK z : z = d.iters - 1 /\ z = 0
  BY <1>5
<1>7. d2 = [d EXCEPT !.iters = z]
  BY <1>6 DEF DictRecord
<1>8. d2 \in DictRecord /\ d2.table = d.table /\ d2.index = d.index /\ d2.iters = 0
  BY <1>6, <1>7 DEF DictRecord
<1>9. (Rehashing(d2) <=> Rehashing(d)) /\ Tables(d2) = Tables(d)
  BY <1>8 DEF Rehashing, Tables
<1>10. Tidy(d2)
  BY <1>8, <1>9 DEF Tidy
<1>11. \A x \in Key : Holds(d2, x) <=> Holds(d, x)
  BY <1>8, <1>9 DEF Holds
<1>12. KeysOK(d2, ks, it2)
  <2>1. {k \in Key : Holds(d2, k)} = {k \in Key : Holds(d, k)}
    BY <1>11
  <2> QED BY <1>4, <1>8, <1>10, <2>1 DEF KeysOK
<1>13. IterOK(d2, ks, it2)
  BY <1>4 DEF IterOK
<1> QED BY <1>12, <1>13 DEF NextOK

\* An iterator from which getNext() goes on.
Begins(d, ks, it) ==
    /\ KeysOK(d, ks, it) /\ GoesOn(d, it) /\ it.must \subseteq ks /\ it.got \subseteq ks
    /\ d \in DictRecord /\ Tidy(d)

\* Before its first entry, an iterator has all keys before it.
LEMMA FirstReady ==
    ASSUME NEW d, NEW ks, KeysOK(d, ks, NoIter), NEW d2, NEW it,
           d2 = [d EXCEPT !.iters = @ + 1],
           it = [NoIter EXCEPT !.on = TRUE, !.must = ks]
    PROVE  Begins(d2, ks, it)
<1>1. d \in DictRecord /\ Tidy(d) /\ ks = {k \in Key : Holds(d, k)} /\ ks \subseteq Key
  BY DEF KeysOK
<1>2. d.iters = 0
  BY DEF KeysOK, NoIter
<1>3. /\ it \in IterRecord /\ it.on = TRUE /\ it.must = ks /\ it.got = {} /\ it.next = NoKey
      /\ it.table = 1 /\ it.index = -1
  BY <1>1 DEF NoIter, IterRecord
<1>4. PICK z : z = d.iters + 1 /\ z = 1
  BY <1>2
<1>5. d2 = [d EXCEPT !.iters = z]
  BY <1>1, <1>4 DEF DictRecord
<1>6. d2 \in DictRecord /\ d2.table = d.table /\ d2.index = d.index /\ d2.iters = 1
  BY <1>1, <1>4, <1>5 DEF DictRecord
<1>7. (Rehashing(d2) <=> Rehashing(d)) /\ Tables(d2) = Tables(d)
  BY <1>6 DEF Rehashing, Tables
<1>8. Tidy(d2)
  BY <1>1, <1>6, <1>7 DEF Tidy
<1>9. \A x \in Key : Holds(d2, x) <=> Holds(d, x)
  BY <1>6, <1>7 DEF Holds
<1>10. KeysOK(d2, ks, it)
  <2>1. {k \in Key : Holds(d2, k)} = {k \in Key : Holds(d, k)}
    BY <1>9
  <2> QED BY <1>1, <1>3, <1>6, <1>8, <2>1 DEF KeysOK
<1>11. \A k \in ks : Ahead(d2, it, k)
  <2>1. TAKE k \in ks
  <2>2. k \in Key /\ Holds(d2, k)
    BY <1>1, <1>9
  <2>3. PICK i \in Tables(d2) : In(d2.table[i], k)
    BY <2>2 DEF Holds
  <2>4. i \in {1, 2} /\ d2.table[i] \in Tabs
    BY <1>6, DictIs
  <2>5. PICK b : b = Bucket(d2.table[i], k) /\ b \in DOMAIN d2.table[i] /\ Within(d2.table[i][b], k)
    BY <2>2, <2>3, <2>4, InIs
  <2>6. b \in Nat
    <3>1. DOMAIN d2.table[i] = 0 .. Size(d2.table[i]) - 1 /\ Size(d2.table[i]) \in Nat
      BY <2>4, SizeIs
    <3> QED BY <2>5, <3>1
  <2>7. Later(it, i, b)
    BY <1>3, <2>4, <2>6 DEF Later
  <2> QED BY <2>5, <2>7 DEF Ahead
<1>12. GoesOn(d2, it)
  BY <1>3, <1>11 DEF GoesOn, Returns
<1> QED BY <1>3, <1>6, <1>8, <1>10, <1>12 DEF Begins

\* getNext().
LEMMA GetNextStep == ASSUME DictInv, GetNext PROVE DictInv'
<1>1. KeysOK(dict, keys, iter) /\ IterOK(dict, keys, iter) /\ ScanOK(keys, scan)
  BY DEF DictInv
<1>2. PICK it : it = IF ~iter.on THEN [NoIter EXCEPT !.on = TRUE, !.must = keys] ELSE iter
  OBVIOUS
<1>3. PICK d : d = IF ~iter.on THEN [dict EXCEPT !.iters = @ + 1] ELSE dict
  OBVIOUS
<1>4. /\ KeysOK(d, keys, it) /\ GoesOn(d, it) /\ it.must \subseteq keys /\ it.got \subseteq keys
      /\ d \in DictRecord /\ Tidy(d)
  <2>1. CASE iter.on
    <3>1. it = iter /\ d = dict
      BY <1>2, <1>3, <2>1
    <3>3. Begins(dict, keys, iter)
      BY <1>1, <2>1 DEF Begins, KeysOK, IterOK, GoesOn
    <3> QED BY <3>1, <3>3 DEF Begins
  <2>2. CASE ~ iter.on
    <3>1. iter = NoIter
      BY <1>1, <2>2 DEF IterOK
    <3>2. KeysOK(dict, keys, NoIter)
      BY <1>1, <3>1
    <3>3. Begins(d, keys, it)
      BY <1>2, <1>3, <2>2, <3>2, FirstReady
    <3> QED BY <3>3 DEF Begins
  <2> QED BY <2>1, <2>2
<1>5. PICK at : at = CHOOSE x \in Full(d, it) : \A y \in Full(d, it) : NotAfter(x, y)
  OBVIOUS
<1>6. /\ IF it.next # NoKey
         THEN iter' = Return(it, d, it.next, <<it.table, it.index>>) /\ dict' = d
         ELSE IF Full(d, it) # {}
         THEN iter' = Return(it, d, Head(d.table[at[1]][at[2]]), at) /\ dict' = d
         ELSE /\ iter' = [NoIter EXCEPT !.wrong = it.wrong \/ ~(it.must \subseteq it.got)]
              /\ dict' = [d EXCEPT !.iters = @ - 1]
      /\ UNCHANGED <<keys, scan>>
  BY <1>2, <1>3, <1>5 DEF GetNext, Full
<1>7. NextOK(dict', keys, iter')
  <2>1. CASE it.next # NoKey
    BY <1>4, <1>6, <2>1, NextInChain
  <2>2. CASE it.next = NoKey /\ Full(d, it) # {}
    <3>1. NextOK(d, keys, Return(it, d, Head(d.table[at[1]][at[2]]), at))
      BY <1>4, <1>5, <2>2, NextChain
    <3> QED BY <1>6, <2>2, <3>1
  <2>3. CASE it.next = NoKey /\ Full(d, it) = {}
    <3>1. PICK d2 : d2 = [d EXCEPT !.iters = @ - 1]
      OBVIOUS
    <3>2. PICK it2 : it2 = [NoIter EXCEPT !.wrong = it.wrong \/ ~(it.must \subseteq it.got)]
      OBVIOUS
    <3>3. NextOK(d2, keys, it2)
      BY <1>4, <2>3, <3>1, <3>2, NextEnds
    <3> QED BY <1>6, <2>3, <3>1, <3>2, <3>3
  <2> QED BY <2>1, <2>2, <2>3
<1> QED BY <1>1, <1>6, <1>7 DEF DictInv, NextOK

-----------------------------------------------------------------------------
(* The scan.                                                               *)

\* What a step of a scan from v returns of the keys: those up to its cursor.
Covers(r, v, ks) ==
    /\ r.v \in Cursor
    /\ \A k \in ks : /\ Place(v) <= Place(Hash[k])
                     /\ r.v = 0 \/ Place(Hash[k]) < Place(r.v)
                     => k \in r.got

\* A cursor finds the keys whose low bits it has.
LEMMA ChainFound ==
    ASSUME NEW t \in Tabs, NEW m \in 0 .. Bits, Size(t) = Power[m], NEW v \in Nat,
           NEW k \in Key, In(t, k), Hash[k] % Power[m] = v % Power[m]
    PROVE  k \in ChainAt(t, v)
<1>1. PICK b \in DOMAIN t : b = Bucket(t, k) /\ Within(t[b], k)
  BY InIs
<1>2. b = v % Size(t)
  BY <1>1 DEF Bucket
<1>3. PICK c \in Seq(Key) : c = t[b]
  BY <1>1, ChainKeys
<1>4. PICK j \in DOMAIN c : c[j] = k
  BY <1>1, <1>3 DEF Within
<1>5. k \in ToSet(c)
  BY <1>4 DEF ToSet
<1> QED BY <1>2, <1>3, <1>5 DEF ChainAt

\* The numbers of a cursor and of a hash.
LEMMA PlaceIs == ASSUME NEW v \in Nat
                 PROVE  Place(v) \in Nat /\ Place(v) < All
<1>1. Bits \in 0 .. Bits
  BY DictConstants
<1>2. Rev(v)[Bits] \in 0 .. Power[Bits] - 1
  BY <1>1, RevBelow
<1>3. Power[Bits] \in Nat
  BY <1>1, PowerPos
<1> QED BY <1>2, <1>3 DEF Place, All

\* Cursors and hashes are numbers, and 0 is the first of all.
LEMMA CursorIs == /\ \A v \in Cursor : v \in Nat /\ v < All
                  /\ \A k \in Key : Hash[k] \in Nat
                  /\ 0 \in Cursor /\ Place(0) = 0
<1>1. All \in Nat /\ All > 0
  BY ConstantsIs
<1>2. Cursor = 0 .. All - 1
  BY DEF Cursor, All
<1>3. Bits \in 0 .. Bits
  BY DictConstants
<1>4. Place(0) = 0
  BY <1>3, RevZero DEF Place
<1>5. \A k \in Key : Hash[k] \in Nat
  BY DictConstants
<1> QED BY <1>1, <1>2, <1>4, <1>5

\* Of one table, a step returns the chain of the cursor.
LEMMA ScanOne ==
    ASSUME NEW t \in Tabs, t # NoTable, NEW v \in Cursor, NEW r,
           r = [v |-> NextCursor(v, Size(t)), got |-> ChainAt(t, v)]
    PROVE  Covers(r, v, {k \in Key : In(t, k)})
<1>1. PICK m \in 0 .. Bits : Size(t) = Power[m]
  BY SizeIs DEF Powers
<1>2. PICK x \in Nat : x = v
  BY CursorIs
<1>3. PICK e : e = Begin(x, m) + Span(m)
  OBVIOUS
<1>4. PICK next : next = NextCursor(x, Power[m])
  OBVIOUS
<1>5. /\ next \in Cursor
      /\ e < All => Place(next) = e /\ next # 0
      /\ e = All => next = 0
  BY <1>2, <1>3, <1>4, NextIs
<1>6. Begin(x, m) \in Nat /\ Span(m) \in Nat /\ All \in Nat /\ e <= All
  BY <1>3, BeginIs, SpanIs
<1>7. PICK y \in 0 .. Span(m) - 1 : Place(x) = Begin(x, m) + y
  BY InSpan
<1>8. Begin(x, m) <= Place(x)
  BY <1>6, <1>7
<1>9. ASSUME NEW k \in Key, In(t, k), Place(x) <= Place(Hash[k]),
             next = 0 \/ Place(Hash[k]) < Place(next)
      PROVE  k \in ChainAt(t, x)
  <2>1. PICK h \in Nat : h = Hash[k]
    BY CursorIs
  <2>2. Place(h) \in Nat /\ Place(h) < All /\ Place(x) \in Nat
    BY PlaceIs
  <2>3. Place(h) < e
    <3>1. CASE e < All
      BY <1>5, <1>9, <2>1, <3>1
    <3>2. CASE ~ (e < All)
      BY <1>3, <1>6, <2>2, <3>2
    <3> QED BY <3>1, <3>2
  <2>4. Begin(x, m) <= Place(h)
    BY <1>6, <1>8, <1>9, <2>1, <2>2
  <2>5. h % Power[m] = x % Power[m]
    BY <1>3, <2>3, <2>4, SpanOnly
  <2> QED BY <1>1, <1>9, <2>1, <2>5, ChainFound
<1>10. r.v = next /\ r.got = ChainAt(t, x)
  BY <1>1, <1>2, <1>4
<1> QED BY <1>2, <1>5, <1>9, <1>10 DEF Covers

\* A number less than a modulus is what it leaves.
LEMMA ModSmall == ASSUME NEW x \in Nat, NEW s \in Nat, x < s PROVE x % s = x /\ x \div s = 0
<1>1. s * 0 + x = x /\ x \in 0 .. s - 1
  OBVIOUS
<1> QED BY <1>1, DivIs

\* The cursors of a larger table that lie in the bucket of v of a smaller one.
IsRun(at, v, m, n, r) ==
    /\ r \in 1 .. Power[n] /\ Rev(v)[n] \in Nat
    /\ at \in [0 .. Power[n] -> Cursor] /\ at[0] = v
    /\ Span(n) * (Rev(v)[n] + r) = Begin(v, m) + Span(m)
    /\ \A i \in 0 .. r - 1 : Rev(at[i])[n] = Rev(v)[n] + i
    /\ \A i \in 1 .. r : LET e == Span(n) * (Rev(v)[n] + i)
                         IN  /\ e < All => Place(at[i]) = e /\ at[i] # 0
                             /\ e = All => at[i] = 0

\* Such are the cursors that NextCursor goes through from v.
LEMMA CursorsAre ==
    ASSUME NEW m \in 0 .. Bits, NEW n \in 0 .. Bits, m <= n, NEW v \in Cursor, NEW at,
           at \in [0 .. Power[n] -> Cursor], at[0] = v,
           \A i \in 1 .. Power[n] : at[i] = NextCursor(at[i - 1], Power[n])
    PROVE  \E r : IsRun(at, v, m, n, r)
<1>1. PICK x \in Nat : x = v
  BY CursorIs
<1>2. PICK j \in 0 .. Bits : j = n - m /\ m + j = n /\ n <= Bits
  BY DictConstants
<1>3. PICK p \in Nat : p = Power[j] /\ p > 0
  BY PowerPos
<1>4. PICK g \in Nat : g = Span(n) /\ g > 0
  BY SpanIs
<1>5. PICK s \in Nat : s = Span(m)
  BY SpanIs
<1>6. s = g * p
  <2>1. Bits - n \in 0 .. Bits /\ Bits - m \in 0 .. Bits /\ (Bits - n) + j = Bits - m
    BY <1>2, DictConstants
  <2>2. Power[(Bits - n) + j] = Power[Bits - n] * Power[j]
    BY <2>1, PowerAdd
  <2> QED BY <1>3, <1>4, <1>5, <2>1, <2>2 DEF Span
<1>7. PICK low \in Nat : low = Rev(x)[m]
  BY RevBelow
<1>8. PICK q \in 0 .. p - 1 : q = Rev(x \div Power[m])[j]
  <2>1. PICK w \in Nat : w = x \div Power[m]
    BY PowerPos, DivMod
  <2>2. Rev(w)[j] \in 0 .. p - 1
    BY <1>3, RevBelow
  <2> QED BY <2>1, <2>2
<1>9. PICK R \in Nat : R = Rev(x)[n]
  BY RevBelow
<1>10. R = p * low + q
  <2>1. Rev(x)[m + j] = Power[j] * Rev(x)[m] + Rev(x \div Power[m])[j]
    BY <1>2, RevSplit
  <2> QED BY <1>2, <1>3, <1>7, <1>8, <1>9, <2>1
<1>11. PICK r \in 1 .. p : r = p - q
  BY <1>8
<1>12. PICK N \in Nat : N = Power[n] /\ p <= N
  <2>1. j <= n
    BY <1>2
  <2> QED BY <1>2, <1>3, <2>1, PowerPos, PowerSplit
<1>13. r \in 1 .. N
  BY <1>11, <1>12
<1>14. PICK a \in Nat : a = Begin(x, m)
  BY BeginIs
<1>15. g * (R + r) = a + s
  <2>1. R + r = p * low + p
    BY <1>8, <1>10, <1>11
  <2>2. g * (p * low + p) = (g * p) * low + g * p
    BY <1>3, <1>4, <1>7
  <2>3. a = s * low
    BY <1>5, <1>7, <1>14 DEF Begin
  <2> QED BY <1>6, <2>1, <2>2, <2>3
<1>16. a + s <= All /\ All \in Nat
  BY <1>5, <1>14, BeginIs, SpanIs
<1>17. \A i \in Nat : i < r => g * (R + i) < All /\ g * (R + i) \in Nat /\ g * (R + i) + g <= All
  <2>1. TAKE i \in Nat
  <2>2. SUFFICES ASSUME i < r
                 PROVE  g * (R + i) < All /\ g * (R + i) \in Nat /\ g * (R + i) + g <= All
    OBVIOUS
  <2>3. PICK y \in Nat : y = R + i
    OBVIOUS
  <2>4. PICK z \in Nat : z = R + r /\ y < z
    BY <2>2, <2>3
  <2>5. g * y + g <= g * z
    BY <2>3, <2>4, TimesUp
  <2>6. g * y \in Nat /\ g * z \in Nat
    OBVIOUS
  <2> QED BY <1>4, <1>15, <1>16, <2>3, <2>4, <2>5, <2>6
<1> DEFINE Goes(i) == LET e == g * (R + i)
                      IN  /\ e < All => Place(at[i]) = e /\ at[i] # 0
                          /\ e = All => at[i] = 0
           T == {i \in 0 .. r : /\ i < r => Rev(at[i])[n] = R + i
                                /\ i > 0 => Goes(i)}
<1>18. 0 \in T
  BY <1>1, <1>9
<1>19. \A i \in 1 .. r : i - 1 \in T => i \in T
  <2>1. SUFFICES ASSUME NEW i \in 1 .. r, i - 1 \in T PROVE i \in T
    OBVIOUS
  <2>2. PICK y : y = R + (i - 1) /\ y \in Nat /\ y + 1 = R + i
    OBVIOUS
  <2>3. PICK c \in Nat : c = at[i - 1]
    <3>1. i - 1 \in 0 .. Power[n]
      BY <1>12, <1>13
    <3> QED BY <3>1, CursorIs
  <2>4. Rev(c)[n] = y
    BY <2>1, <2>2, <2>3
  <2>5. Begin(c, n) = g * y
    BY <1>4, <2>4 DEF Begin
  <2>6. PICK e : e = Begin(c, n) + Span(n)
    OBVIOUS
  <2>7. e = g * (R + i)
    <3>1. g * (y + 1) = g * y + g
      BY <1>4, <2>2
    <3> QED BY <1>4, <2>2, <2>5, <2>6, <3>1
  <2>8. at[i] = NextCursor(c, Power[n])
    BY <1>12, <1>13, <2>3
  <2>9. /\ e < All => Place(at[i]) = e /\ at[i] # 0
        /\ e = All => at[i] = 0
    BY <2>6, <2>8, NextIs
  <2>10. Goes(i)
    BY <2>7, <2>9
  <2>11. i < r => Rev(at[i])[n] = R + i
    <3>1. SUFFICES ASSUME i < r PROVE Rev(at[i])[n] = R + i
      OBVIOUS
    <3>2. Place(at[i]) = g * (R + i)
      BY <1>17, <2>7, <2>9, <3>1
    <3>3. PICK u \in Nat : u = at[i]
      <4>1. i \in 0 .. Power[n]
        BY <1>12, <1>13
      <4> QED BY <4>1, CursorIs
    <3>4. PICK o \in 0 .. g - 1 : Place(u) = Begin(u, n) + o
      BY <1>4, InSpan
    <3>5. PICK k \in Nat : k = Rev(u)[n]
      BY RevBelow
    <3>6. Place(u) = g * k + o
      BY <1>4, <3>4, <3>5 DEF Begin
    <3>7. PICK z \in Nat : z = R + i
      OBVIOUS
    <3>8. g * k + o = g * z + 0 /\ 0 \in 0 .. g - 1
      BY <1>4, <3>2, <3>3, <3>6, <3>7
    <3>9. k = z
      BY <3>8, Unique
    <3> QED BY <3>3, <3>5, <3>7, <3>9
  <2> HIDE DEF Goes
  <2> QED BY <2>10, <2>11
<1> HIDE DEF T
<1>20. \A i \in 0 .. r : i \in T
  <2>1. r \in Nat
    OBVIOUS
  <2> QED BY <1>18, <1>19, <2>1, AllNumbers
<1>21. \A i \in 0 .. r - 1 : Rev(at[i])[n] = R + i
  BY <1>20 DEF T
<1>22. \A i \in 1 .. r : Goes(i)
  <2> HIDE DEF Goes
  <2> QED BY <1>20 DEF T
<1>23. IsRun(at, v, m, n, r)
  BY <1>1, <1>4, <1>5, <1>9, <1>12, <1>13, <1>14, <1>15, <1>21, <1>22 DEF IsRun
<1> QED BY <1>23

\* The run ends with a cursor that has no bits between the two sizes.
LEMMA RunEnds ==
    ASSUME NEW m \in 0 .. Bits, NEW n \in 0 .. Bits, m <= n, NEW v \in Cursor, NEW at, NEW r,
           IsRun(at, v, m, n, r)
    PROVE  (at[r] % Power[n]) \div Power[m] = 0
<1>1. PICK x \in Nat : x = v
  BY CursorIs
<1>2. r \in 1 .. Power[n] /\ at \in [0 .. Power[n] -> Cursor] /\ Power[n] \in Nat
  BY PowerPos DEF IsRun
<1>3. PICK u \in Nat : u = at[r] /\ u < All
  <2>1. r \in 0 .. Power[n]
    BY <1>2
  <2> QED BY <1>2, <2>1, CursorIs
<1>4. PICK s \in Nat : s = Power[m] /\ s > 0 /\ s <= Power[n]
  BY PowerPos, PowerSplit
<1>5. PICK w \in Nat : w = u \div s
  BY <1>4, DivMod
<1>6. SUFFICES w = 0
  <2>1. PICK q \in Nat, y \in 0 .. s - 1 : q = u \div s /\ y = u % s /\ u = s * q + y
    BY <1>4, Divide
  <2>2. w = 0 => u < s
    BY <1>4, <1>5, <2>1
  <2>3. PICK N \in Nat : N = Power[n] /\ s <= N
    BY <1>2, <1>4
  <2>4. u < s => u % N = u /\ u \div s = 0
    <3>1. u < s => u < N
      BY <2>3
    <3> QED BY <1>4, <3>1, ModSmall
  <2> QED BY <1>3, <1>4, <2>2, <2>3, <2>4
<1>7. PICK e \in Nat : e = Begin(x, m) + Span(m) /\ e <= All
  <2>1. /\ Begin(x, m) \in Nat /\ Begin(x, m) + Span(m) <= All
        /\ Span(m) \in Nat
    BY BeginIs, SpanIs
  <2> QED BY <2>1
<1>8. /\ e < All => Place(u) = e
      /\ e = All => u = 0
  <2>1. Span(n) * (Rev(v)[n] + r) = e
    BY <1>1, <1>7 DEF IsRun
  <2>2. r \in 1 .. r
    BY <1>2
  <2> QED BY <1>3, <2>1, <2>2 DEF IsRun
<1>9. CASE e = All
  <2>1. u = 0
    BY <1>8, <1>9
  <2> QED BY <1>4, <1>5, <2>1, ModSmall
<1>10. CASE e # All
  <2>1. Place(u) = e
    <3>1. All \in Nat
      BY ConstantsIs
    <3> QED BY <1>7, <1>8, <1>10, <3>1
  <2>2. PICK g \in Nat : g = Span(m) /\ g > 0 /\ All = s * g
    BY <1>4, SpanIs
  <2>3. PICK o \in 0 .. g - 1 : Place(u) = Begin(u, m) + o /\ o = Rev(w)[Bits - m]
    BY <1>4, <1>5, <2>2, InSpan
  <2>4. PICK a \in Nat : a = Rev(x)[m]
    BY RevBelow
  <2>5. PICK b \in Nat : b = Rev(u)[m]
    BY RevBelow
  <2>6. g * b + o = g * (a + 1) + 0
    <3>1. g * (a + 1) = g * a + g /\ g * (a + 1) + 0 = g * (a + 1)
      OBVIOUS
    <3>2. Begin(x, m) = g * a /\ Begin(u, m) = g * b
      BY <2>2, <2>4, <2>5 DEF Begin
    <3>3. PICK ga : ga = g * a /\ ga \in Nat
      OBVIOUS
    <3>4. PICK gb : gb = g * b /\ gb \in Nat
      OBVIOUS
    <3>5. gb + o = ga + g
      BY <1>7, <2>1, <2>2, <2>3, <3>2, <3>3, <3>4
    <3> QED BY <3>1, <3>3, <3>4, <3>5
  <2>7. o = 0
    <3>1. a + 1 \in Nat /\ 0 \in 0 .. g - 1
      BY <2>2
    <3> QED BY <2>6, <3>1, Unique
  <2>8. PICK k \in 0 .. Bits : k = Bits - m
    BY SpanIs
  <2>9. Rev(w)[k] = Rev(0)[k]
    BY <2>3, <2>7, <2>8, RevZero
  <2>10. w % Power[k] = 0 % Power[k]
    BY <2>9, RevOnce
  <2>11. PICK p \in Nat : p = Power[k] /\ p > 0 /\ p = g
    BY <2>2, <2>8, PowerPos DEF Span
  <2>12. w < p
    <3>0. PICK q \in Nat, y \in 0 .. s - 1 : q = u \div s /\ y = u % s /\ u = s * q + y
      BY <1>4, Divide
    <3>1. u = s * w + y
      BY <1>5, <3>0
    <3>2. SUFFICES ASSUME ~ (w < p) PROVE FALSE
      OBVIOUS
    <3>3. PICK z \in Nat : w = g + z
      BY <2>11, <3>2
    <3>4. s * w = s * g + s * z
      BY <3>3
    <3>5. s * z \in Nat /\ s * g \in Nat
      OBVIOUS
    <3>6. PICK a2 \in Nat : a2 = s * z
      BY <3>5
    <3>7. PICK b2 \in Nat : b2 = s * g /\ b2 = All
      BY <2>2, <3>5
    <3>8. u = b2 + a2 + y /\ y \in Nat
      BY <3>0, <3>1, <3>4, <3>6, <3>7
    <3> QED BY <1>3, <3>6, <3>7, <3>8
  <2>13. w % p = w /\ 0 % p = 0
    BY <2>11, <2>12, ModSmall
  <2> QED BY <2>10, <2>11, <2>13
<1> QED BY <1>9, <1>10

\* What the first e cursors of a run find, in the bucket and in their chains.
LEMMA RunCovers ==
    ASSUME NEW m \in 0 .. Bits, NEW n \in 0 .. Bits, m <= n, NEW v \in Cursor, NEW at, NEW r,
           IsRun(at, v, m, n, r), NEW t \in Tabs, NEW u \in Tabs, Size(t) = Power[m],
           Size(u) = Power[n], NEW e \in 1 .. r, NEW found,
           found = ChainAt(t, v) \cup UNION {ChainAt(u, at[i]) : i \in 0 .. e - 1}
    PROVE  Covers([v |-> at[e], got |-> found], v, {k \in Key : In(t, k) \/ In(u, k)})
<1>1. PICK x \in Nat : x = v
  BY CursorIs
<1>2. r \in 1 .. Power[n] /\ at \in [0 .. Power[n] -> Cursor] /\ Power[n] \in Nat
  BY PowerPos DEF IsRun
<1>3. at[e] \in Cursor
  <2>1. e \in 0 .. Power[n]
    BY <1>2
  <2> QED BY <1>2, <2>1
<1>4. PICK g \in Nat : g = Span(n) /\ g > 0
  BY SpanIs
<1>5. PICK R \in Nat : R = Rev(x)[n]
  BY RevBelow
<1>6. PICK b \in Nat : b = Begin(x, m)
  BY BeginIs
<1>7. PICK s \in Nat : s = Span(m)
  BY SpanIs
<1>8. g * (R + r) = b + s /\ b + s <= All /\ All \in Nat
  BY <1>1, <1>4, <1>5, <1>6, <1>7, BeginIs, SpanIs DEF IsRun
<1>9. PICK z \in Nat : z = g * (R + e) /\ z <= b + s
  <2>1. PICK y \in Nat : y = R + e
    BY <1>2
  <2>2. PICK w \in Nat : w = R + r /\ y <= w
    BY <1>2, <2>1
  <2>3. g * y \in Nat /\ g * w \in Nat
    OBVIOUS
  <2>4. y < w => g * y + g <= g * w
    BY TimesUp
  <2>5. y = w => g * y = g * w
    OBVIOUS
  <2>6. g * y <= g * w
    BY <2>2, <2>3, <2>4, <2>5
  <2> QED BY <1>8, <2>1, <2>2, <2>3, <2>6
<1>10. /\ z < All => Place(at[e]) = z /\ at[e] # 0
       /\ z = All => at[e] = 0
  BY <1>1, <1>4, <1>5, <1>9 DEF IsRun
<1>11. ASSUME NEW k \in Key, In(t, k) \/ In(u, k), Place(x) <= Place(Hash[k]),
              at[e] = 0 \/ Place(Hash[k]) < Place(at[e])
       PROVE  k \in found
  <2>1. PICK h \in Nat : h = Hash[k]
    BY CursorIs
  <2>2. Place(h) \in Nat /\ Place(h) < All /\ Place(x) \in Nat
    BY PlaceIs
  <2>3. Place(h) < z
    <3>1. CASE z < All
      BY <1>10, <1>11, <2>1, <3>1
    <3>2. CASE ~ (z < All)
      BY <1>8, <1>9, <2>2, <3>2
    <3> QED BY <3>1, <3>2
  <2>4. CASE In(t, k)
    <3>1. PICK y \in 0 .. s - 1 : Place(x) = b + y
      BY <1>6, <1>7, InSpan
    <3>2. b <= Place(h) /\ Place(h) < b + s
      BY <1>9, <1>11, <2>1, <2>2, <2>3, <3>1
    <3>3. h % Power[m] = x % Power[m]
      BY <1>6, <1>7, <3>2, SpanOnly
    <3>4. k \in ChainAt(t, x)
      BY <2>1, <2>4, <3>3, ChainFound
    <3> QED BY <1>1, <3>4
  <2>5. CASE In(u, k)
    <3>1. PICK H \in Nat : H = Rev(h)[n]
      BY RevBelow
    <3>2. PICK y \in 0 .. g - 1 : Place(h) = g * H + y
      BY <1>4, <3>1, InSpan DEF Begin
    <3>3. PICK o \in 0 .. g - 1 : Place(x) = g * R + o
      BY <1>4, <1>5, InSpan DEF Begin
    <3>4. g * H \in Nat /\ g * R \in Nat
      OBVIOUS
    <3>5. R <= H
      <4>1. SUFFICES ASSUME H < R PROVE FALSE
        OBVIOUS
      <4>2. g * H + g <= g * R
        BY <4>1, TimesUp
      <4> QED BY <1>11, <2>1, <3>2, <3>3, <3>4, <4>2
    <3>6. H < R + e
      <4>1. SUFFICES ASSUME ~ (H < R + e) PROVE FALSE
        OBVIOUS
      <4>2. PICK w \in Nat : w = R + e
        BY <1>2
      <4>3. w < H \/ w = H
        BY <4>1, <4>2
      <4>4. w < H => g * w + g <= g * H
        BY TimesUp
      <4>5. g * w \in Nat /\ z = g * w
        BY <1>9, <4>2
      <4>6. w = H => g * w = g * H
        OBVIOUS
      <4> QED BY <2>3, <3>2, <3>4, <4>3, <4>4, <4>5, <4>6
    <3>7. PICK i : i = H - R /\ i \in 0 .. e - 1 /\ i \in 0 .. r - 1 /\ R + i = H
      BY <1>2, <3>5, <3>6
    <3>8. PICK c \in Nat : c = at[i]
      <4>1. i \in 0 .. Power[n]
        BY <1>2, <3>7
      <4> QED BY <1>2, <4>1, CursorIs
    <3>9. Rev(c)[n] = H
      BY <1>1, <1>5, <3>7, <3>8 DEF IsRun
    <3>10. h % Power[n] = c % Power[n]
      BY <3>1, <3>9, RevOnce
    <3>11. k \in ChainAt(u, c)
      BY <2>1, <2>5, <3>10, ChainFound
    <3> QED BY <3>7, <3>8, <3>11
  <2> QED BY <1>11, <2>4, <2>5
<1> QED BY <1>1, <1>3, <1>11 DEF Covers

\* The cursors of scanAll() with two tables.
LEMMA ScanTwo ==
    ASSUME NEW t \in Tabs, NEW u \in Tabs, t # NoTable, u # NoTable, Size(t) <= Size(u),
           NEW v \in Cursor
    PROVE  Covers(ScanBoth(t, u, v), v, {k \in Key : In(t, k) \/ In(u, k)})
<1>1. PICK m \in 0 .. Bits : Size(t) = Power[m]
  BY SizeIs DEF Powers
<1>2. PICK n \in 0 .. Bits : Size(u) = Power[n]
  BY SizeIs DEF Powers
<1>3. PICK N \in Nat : N = Power[n] /\ N > 0
  BY PowerPos
<1>4. m <= n
  <2>1. SUFFICES ASSUME ~ (m <= n) PROVE FALSE
    OBVIOUS
  <2>2. PICK j \in 1 .. Bits : j = m - n /\ n + j = m
    BY <2>1, DictConstants
  <2>3. j \in 0 .. Bits /\ j - 1 \in 0 .. Bits /\ m <= Bits
    BY <2>2, DictConstants
  <2>4. Power[m] = N * Power[j]
    BY <1>3, <2>2, <2>3, PowerAdd
  <2>5. Power[j] = 2 * Power[j - 1]
    BY <2>2, PowerIs
  <2>6. PICK p \in Nat : p = Power[j - 1] /\ p > 0
    BY <2>3, PowerPos
  <2>7. N * (2 * p) = N * p + N * p /\ N * p >= N
    BY <1>3, <2>6
  <2>8. N * p \in Nat
    BY <1>3, <2>6
  <2> QED BY <1>1, <1>2, <1>3, <2>4, <2>5, <2>6, <2>7, <2>8
<1> DEFINE step == [q \in Cursor \X (1 .. N) |-> NextCursor(q[1], N)]
           Is(f) == f = [i \in 0 .. Size(u) |-> IF i = 0 THEN v ELSE NextCursor(f[i - 1], Size(u))]
<1>5. \A c \in Cursor : NextCursor(c, N) \in Cursor
  BY <1>3, CursorIs, NextIs
<1>6. PICK f \in [0 .. N -> Cursor] :
         f[0] = v /\ \A i \in 1 .. N : f[i] = NextCursor(f[i - 1], N)
  <2>1. Steps(N, Cursor, step)
    <3> HIDE DEF Cursor
    <3> QED BY <1>5 DEF Steps
  <2>2. Orbit(N, Cursor, v, step)
    <3> HIDE DEF step
    <3> QED BY <2>1, Iterates
  <2>3. PICK f \in [0 .. N -> Cursor] : f[0] = v /\ \A i \in 1 .. N : f[i] = step[<<f[i - 1], i>>]
    <3> HIDE DEF step
    <3> QED BY <2>2 DEF Orbit
  <2>4. \A i \in 1 .. N : f[i - 1] \in Cursor
    OBVIOUS
  <2>5. \A c \in Cursor, i \in 1 .. N : step[<<c, i>>] = NextCursor(c, N)
    OBVIOUS
  <2> HIDE DEF step
  <2> QED BY <2>3, <2>4, <2>5
<1>7. Is(f)
  <2>1. \A i \in 0 .. N : f[i] = IF i = 0 THEN v ELSE NextCursor(f[i - 1], N)
    BY <1>6
  <2> QED BY <1>2, <1>3, <1>6, <2>1
<1>8. PICK at : at = (CHOOSE h : Is(h)) /\ Is(at)
  BY <1>7
<1>9. \A i \in 0 .. N : at[i] = IF i = 0 THEN v ELSE NextCursor(at[i - 1], N)
  BY <1>2, <1>3, <1>8
<1>10. at[0] = v /\ \A i \in 1 .. N : at[i] = NextCursor(at[i - 1], N)
  BY <1>9
<1>11. at \in [0 .. N -> Cursor]
  <2> DEFINE T == {i \in 0 .. N : at[i] \in Cursor}
  <2>1. 0 \in T
    BY <1>10
  <2>2. \A i \in 1 .. N : i - 1 \in T => i \in T
    BY <1>5, <1>10
  <2> HIDE DEF T
  <2>3. \A i \in 0 .. N : i \in T
    BY <2>1, <2>2, AllNumbers
  <2>4. \A i \in 0 .. N : at[i] \in Cursor
    BY <2>3 DEF T
  <2>5. at = [i \in 0 .. N |-> at[i]]
    <3>1. \E w : at = [i \in 0 .. N |-> w[i]]
      <4>1. PICK w : w = [i \in 0 .. N |-> IF i = 0 THEN v ELSE NextCursor(at[i - 1], N)]
        OBVIOUS
      <4>2. at = w
        BY <1>2, <1>3, <1>8, <4>1
      <4> QED BY <4>1, <4>2
    <3> QED BY <3>1
  <2> QED BY <2>4, <2>5
<1> HIDE DEF Is
<1>12. PICK r : IsRun(at, v, m, n, r)
  BY <1>3, <1>4, <1>10, <1>11, CursorsAre
<1>13. r \in 1 .. N
  BY <1>3, <1>12 DEF IsRun
<1> DEFINE ends == {i \in 1 .. Size(u) : (at[i] % Size(u)) \div Size(t) = 0}
<1>14. r \in ends
  <2>1. (at[r] % Power[n]) \div Power[m] = 0
    BY <1>4, <1>12, RunEnds
  <2> QED BY <1>1, <1>2, <1>3, <1>13, <2>1
<1>15. PICK e : e = (CHOOSE i \in ends : \A j \in ends : i <= j)
  OBVIOUS
<1>16. e \in ends /\ \A j \in ends : e <= j
  <2>1. ends \in SUBSET Nat
    OBVIOUS
  <2> HIDE DEF ends
  <2>2. \E i \in ends : \A j \in ends : i <= j
    BY <1>14, <2>1, LeastNat
  <2> QED BY <1>15, <2>2
<1>17. e \in 1 .. r
  <2>1. e \in 1 .. N
    BY <1>2, <1>3, <1>16
  <2>2. e <= r
    <3> HIDE DEF ends
    <3> QED BY <1>14, <1>16
  <2> QED BY <1>13, <2>1, <2>2
<1>18. PICK found : found = ChainAt(t, v) \cup UNION {ChainAt(u, at[i]) : i \in 0 .. e - 1}
  OBVIOUS
<1>19. ScanBoth(t, u, v) = [v |-> at[e], got |-> found]
  <2> DEFINE Ends(h) == {i \in 1 .. Size(u) : (h[i] % Size(u)) \div Size(t) = 0}
             FinalItem(h) == CHOOSE i \in Ends(h) : \A j \in Ends(h) : i <= j
             Out(h) == [v |-> h[FinalItem(h)],
                        got |-> ChainAt(t, v) \cup
                                   UNION {ChainAt(u, h[i]) : i \in 0 .. FinalItem(h) - 1}]
  <2>1. ScanBoth(t, u, v) = Out(CHOOSE h : Is(h))
    BY DEF ScanBoth, Is
  <2>2. FinalItem(at) = e
    BY <1>15
  <2>3. Out(at) = [v |-> at[e], got |-> found]
    <3> HIDE DEF FinalItem
    <3> QED BY <1>18, <2>2
  <2> HIDE DEF Out
  <2> QED BY <1>8, <2>1, <2>3
<1>20. Covers([v |-> at[e], got |-> found], v, {k \in Key : In(t, k) \/ In(u, k)})
  BY <1>1, <1>2, <1>4, <1>12, <1>17, <1>18, RunCovers
<1> QED BY <1>19, <1>20

\* A step of scanAll() returns what lies up to its cursor.
LEMMA ScanAllIs ==
    ASSUME NEW d \in DictRecord, Tidy(d), NEW v \in Cursor
    PROVE  Covers(ScanAll(d, v), v, {k \in Key : Holds(d, k)})
<1>1. PICK t \in Tabs : t = d.table[1] /\ TableOK(t)
  BY DictIs DEF Tidy
<1>2. PICK u \in Tabs : u = d.table[2] /\ TableOK(u)
  BY DictIs DEF Tidy
<1>3. Used(t) \in Nat /\ Used(u) \in Nat
  BY <1>1, <1>2, UsedIs
<1>4. PICK r : r = ScanAll(d, v)
  OBVIOUS
<1>5. CASE Entries(d) = 0
  <2>1. Used(t) = 0 /\ Used(u) = 0
    BY <1>1, <1>2, <1>3, <1>5 DEF Entries
  <2>2. \A k \in Key : ~ In(t, k) /\ ~ In(u, k)
    <3>1. (\A b \in DOMAIN t : t[b] = <<>>) /\ (\A b \in DOMAIN u : u[b] = <<>>)
      BY <1>1, <1>2, <2>1, UsedIs
    <3>2. \A k \in Key : ~ Within(<<>>, k)
      BY DEF Within
    <3>3. \A k \in Key : In(t, k) => Bucket(t, k) \in DOMAIN t /\ Within(t[Bucket(t, k)], k)
      BY InIs
    <3>4. \A k \in Key : In(u, k) => Bucket(u, k) \in DOMAIN u /\ Within(u[Bucket(u, k)], k)
      BY InIs
    <3> QED BY <3>1, <3>2, <3>3, <3>4
  <2>3. \A k \in Key : ~ Holds(d, k)
    BY <1>1, <1>2, <2>2, HoldsIs
  <2>4. r.v = 0
    BY <1>4, <1>5 DEF ScanAll
  <2>5. Covers(r, v, {k \in Key : Holds(d, k)})
    BY <2>3, <2>4, CursorIs DEF Covers
  <2> QED BY <1>4, <2>5
<1>6. CASE Entries(d) # 0 /\ ~ Rehashing(d)
  <2>1. u = NoTable
    BY <1>2, <1>6 DEF Tidy
  <2>2. Used(u) = 0
    <3>1. \A b \in DOMAIN u : FALSE
      BY <2>1 DEF NoTable
    <3> QED BY <1>2, <3>1, UsedIs
  <2>3. Used(t) # 0
    BY <1>1, <1>2, <1>3, <1>6, <2>2 DEF Entries
  <2>4. t # NoTable
    <3>1. PICK b : b \in DOMAIN t
      BY <1>1, <2>3, UsedIs
    <3> QED BY <3>1 DEF NoTable
  <2>5. r = [v |-> NextCursor(v, Size(t)), got |-> ChainAt(t, v)]
    BY <1>1, <1>4, <1>6 DEF ScanAll
  <2>6. Covers(r, v, {k \in Key : In(t, k)})
    BY <2>4, <2>5, ScanOne
  <2>7. {k \in Key : Holds(d, k)} = {k \in Key : In(t, k)}
    BY <1>1, <1>6, HoldsIs
  <2> QED BY <1>4, <2>6, <2>7
<1>7. CASE Entries(d) # 0 /\ Rehashing(d)
  <2>1. t # NoTable /\ u # NoTable
    BY <1>1, <1>2, <1>7 DEF Tidy
  <2>2. Size(t) \in Nat /\ Size(u) \in Nat
    BY SizeIs
  <2>3. r = IF Size(t) > Size(u) THEN ScanBoth(u, t, v) ELSE ScanBoth(t, u, v)
    BY <1>1, <1>2, <1>4, <1>7 DEF ScanAll
  <2>4. {k \in Key : Holds(d, k)} = {k \in Key : In(t, k) \/ In(u, k)}
    BY <1>1, <1>2, <1>7, HoldsIs
  <2>5. {k \in Key : In(t, k) \/ In(u, k)} = {k \in Key : In(u, k) \/ In(t, k)}
    OBVIOUS
  <2>6. CASE Size(t) > Size(u)
    <3>1. Covers(ScanBoth(u, t, v), v, {k \in Key : In(u, k) \/ In(t, k)})
      BY <2>1, <2>2, <2>6, ScanTwo
    <3> QED BY <1>4, <2>3, <2>4, <2>5, <2>6, <3>1
  <2>7. CASE ~ (Size(t) > Size(u))
    <3>1. Covers(ScanBoth(t, u, v), v, {k \in Key : In(t, k) \/ In(u, k)})
      BY <2>1, <2>2, <2>7, ScanTwo
    <3> QED BY <1>4, <2>3, <2>4, <2>7, <3>1
  <2> QED BY <2>6, <2>7
<1> QED BY <1>5, <1>6, <1>7

\* A scan returns all that it must before it ends.
LEMMA ScanStep == ASSUME DictInv, Scan PROVE DictInv'
<1>1. KeysOK(dict, keys, iter) /\ IterOK(dict, keys, iter) /\ ScanOK(keys, scan)
  BY DEF DictInv
<1>2. dict \in DictRecord /\ Tidy(dict) /\ keys = {k \in Key : Holds(dict, k)} /\ keys \subseteq Key
  BY <1>1 DEF KeysOK
<1>3. PICK from : from = IF scan.on THEN scan ELSE [NoScan EXCEPT !.on = TRUE, !.must = keys]
  OBVIOUS
<1>4. /\ from \in ScanRecord /\ from.on = TRUE /\ from.must \subseteq keys
      /\ \A k \in from.must : Place(Hash[k]) < Place(from.v) => k \in from.got
  <2>1. CASE scan.on
    BY <1>1, <1>3, <2>1 DEF ScanOK
  <2>2. CASE ~ scan.on
    <3>1. from = [NoScan EXCEPT !.on = TRUE, !.must = keys]
      BY <1>3, <2>2
    <3>2. /\ from.on = TRUE /\ from.v = 0 /\ from.must = keys /\ from.got = {}
          /\ from.missed = {} /\ from \in ScanRecord
      BY <1>2, <3>1, CursorIs DEF NoScan, ScanRecord
    <3>3. \A k \in Key : ~ (Place(Hash[k]) < Place(0))
      <4>1. \A k \in Key : Place(Hash[k]) \in Nat /\ Place(0) = 0
        BY CursorIs, PlaceIs
      <4> QED BY <4>1
    <3> QED BY <1>2, <3>2, <3>3
  <2> QED BY <2>1, <2>2
<1>5. PICK v \in Cursor : v = from.v
  BY <1>4 DEF ScanRecord
<1>6. PICK step : step = ScanAll(dict, v) /\ Covers(step, v, keys)
  BY <1>2, ScanAllIs
<1>7. PICK found : found = from.got \cup step.got
  OBVIOUS
<1>8. /\ scan' = IF step.v = 0
                 THEN [NoScan EXCEPT !.missed = from.must \ found]
                 ELSE [from EXCEPT !.v = step.v, !.got = found \cap from.must]
      /\ UNCHANGED <<dict, keys, iter>>
  BY <1>3, <1>5, <1>6, <1>7 DEF Scan
<1>9. \A k \in from.must : step.v = 0 \/ Place(Hash[k]) < Place(step.v) => k \in found
  <2>1. TAKE k \in from.must
  <2>2. SUFFICES ASSUME step.v = 0 \/ Place(Hash[k]) < Place(step.v) PROVE k \in found
    OBVIOUS
  <2>3. k \in keys /\ k \in Key
    BY <1>2, <1>4
  <2>4. Place(Hash[k]) \in Nat /\ Place(v) \in Nat
    BY <2>3, CursorIs, PlaceIs
  <2>5. CASE Place(Hash[k]) < Place(v)
    BY <1>4, <1>5, <1>7, <2>5
  <2>6. CASE Place(v) <= Place(Hash[k])
    BY <1>6, <1>7, <2>2, <2>3, <2>6 DEF Covers
  <2> QED BY <2>4, <2>5, <2>6
<1>10. PICK s : s = scan'
  OBVIOUS
<1>11. ScanOK(keys, s)
  <2>1. CASE step.v = 0
    <3>1. PICK none : none = from.must \ found /\ none = {}
      BY <1>9, <2>1
    <3>2. s = [NoScan EXCEPT !.missed = none]
      BY <1>8, <1>10, <2>1, <3>1
    <3>3. s.on = FALSE /\ s \in ScanRecord
      BY <3>1, <3>2, CursorIs DEF NoScan, ScanRecord
    <3> QED BY <3>3 DEF ScanOK
  <2>2. CASE step.v # 0
    <3>1. PICK c \in Cursor : c = step.v
      BY <1>6 DEF Covers
    <3>2. PICK g : g = found \cap from.must /\ g \subseteq Key
      BY <1>2, <1>4
    <3>3. s = [from EXCEPT !.v = c, !.got = g]
      BY <1>8, <1>10, <2>2, <3>1, <3>2
    <3>4. s \in ScanRecord /\ s.v = c /\ s.got = g /\ s.must = from.must
      BY <1>4, <3>2, <3>3 DEF ScanRecord
    <3>5. \A k \in s.must : Place(Hash[k]) < Place(s.v) => k \in s.got
      BY <1>9, <3>1, <3>2, <3>4
    <3> QED BY <1>4, <3>4, <3>5 DEF ScanOK
  <2> QED BY <2>1, <2>2
<1> QED BY <1>1, <1>8, <1>10, <1>11 DEF DictInv

\* The invariant holds at first.
LEMMA DictStarts == ASSUME DictInit PROVE DictInv
<1>1. PICK d : d = [table |-> << NoTable, NoTable >>, index |-> -1, iters |-> 0, may |-> TRUE]
  OBVIOUS
<1>2. dict = d /\ keys = {} /\ scan = NoScan /\ iter = NoIter
  BY <1>1 DEF DictInit
<1>3. /\ d \in DictRecord /\ d.table[1] = NoTable /\ d.table[2] = NoTable /\ d.index = -1
      /\ d.iters = 0
  <2>1. PICK p : p = << NoTable, NoTable >> /\ p \in [{1, 2} -> Tabs] /\ p[1] = NoTable /\ p[2] = NoTable
    <3>1. PICK n \in Tabs : n = NoTable
      BY EmptyTab
    <3>2. << n, n >> \in [{1, 2} -> Tabs] /\ << n, n >>[1] = n /\ << n, n >>[2] = n
      OBVIOUS
    <3> QED BY <3>1, <3>2
  <2>2. d = [table |-> p, index |-> -1, iters |-> 0, may |-> TRUE]
    BY <1>1, <2>1
  <2> QED BY <2>1, <2>2 DEF DictRecord
<1>4. ~ Rehashing(d)
  BY <1>3 DEF Rehashing
<1>5. TableOK(NoTable) /\ \A x \in Key : ~ In(NoTable, x)
  BY EmptyTab, InIs DEF TableOK, NoTable
<1>6. Tidy(d)
  BY <1>3, <1>4, <1>5 DEF Tidy
<1>7. \A x \in Key : ~ Holds(d, x)
  BY <1>3, <1>4, <1>5, HoldsIs
<1>8. /\ NoIter \in IterRecord /\ NoIter.on = FALSE /\ NoIter.must = {} /\ NoIter.got = {}
  BY DEF NoIter, IterRecord
<1>9. KeysOK(d, {}, NoIter)
  BY <1>3, <1>6, <1>7, <1>8 DEF KeysOK
<1>10. IterOK(d, {}, NoIter)
  BY <1>8 DEF IterOK
<1>11. ScanOK({}, NoScan)
  <2>1. NoScan \in ScanRecord /\ NoScan.on = FALSE
    BY CursorIs DEF NoScan, ScanRecord
  <2> QED BY <2>1 DEF ScanOK
<1> QED BY <1>2, <1>9, <1>10, <1>11 DEF DictInv

\* Every step keeps the invariant.
LEMMA DictStep == ASSUME DictInv, [DictNext]_dictVars PROVE DictInv'
<1>1. CASE \E k \in Key : AddKey(k)
  BY <1>1, AddKeyStep
<1>2. CASE \E k \in Key : RemoveKey(k)
  BY <1>2, RemoveKeyStep
<1>3. CASE Find \/ Resize \/ Clear \/ \E b \in BOOLEAN : MayResize(b)
  BY <1>3, OtherStep
<1>4. CASE Scan
  BY <1>4, ScanStep
<1>5. CASE GetNext
  BY <1>5, GetNextStep
<1>6. CASE UNCHANGED dictVars
  BY <1>6 DEF dictVars, DictInv
<1> QED BY <1>1, <1>2, <1>3, <1>4, <1>5, <1>6 DEF DictNext

\* Every reachable dictionary is in order: each key is in one chain, that of
\* its hash, and the iterator and the scan have behind or before them all that
\* they must return.
THEOREM DictInvariance == DictSpec => []DictInv
<1>1. DictInit => DictInv
  BY DictStarts
<1>2. DictInv /\ [DictNext]_dictVars => DictInv'
  BY DictStep
<1> QED BY <1>1, <1>2, PTL DEF DictSpec

\* A scan of the whole table returns every key that was there from its start
\* to its end, whatever the size of the tables, while they are rehashed.
THEOREM ScanCorrect == DictSpec => []ScanComplete
<1>1. DictInv => ScanComplete
  BY DEF DictInv, ScanOK, ScanRecord, ScanComplete
<1> QED BY <1>1, DictInvariance, PTL

\* A safe iterator returns every key that was there all the time, and no key
\* twice.
THEOREM IterateCorrect == DictSpec => []IterateOnce
<1>1. DictInv => IterateOnce
  BY DEF DictInv, IterOK, IterRecord, IterateOnce
<1> QED BY <1>1, DictInvariance, PTL
=============================================================================
