---------------------------- MODULE MemSlabProof ----------------------------
(***************************************************************************)
(* Proof that the slab allocator gives no memory to two owners and that    *)
(* its lists and counters are exact, for a pool of any size, any slots and *)
(* any sequence of calls.                                                  *)
(*                                                                         *)
(* The invariant says where every page belongs: the pool falls into runs   *)
(* (free ones, blocks of whole pages, single pages of chunks), the lists   *)
(* are doubly linked and hold what they should, no two free runs touch,    *)
(* and the blocks handed out are those the pages tell of.  freePages()     *)
(* breaks it on the way: there the run L is free but in no list yet.       *)
(***************************************************************************)
EXTENDS MemSlab, FiniteSetTheorems, WellFoundedInduction, TLAPS

-----------------------------------------------------------------------------
(* The lists: the links of their nodes, when one comes, goes or is replaced.*)

\* The heads of the lists: one for each slot, and mFreePage.
Lists == Slot \cup {FreePage}

\* q visits the nodes N of the list of h, k of them, by next and back by prev.
Chain(nx, pv, h, N, k, q) ==
    /\ q[0] = h /\ q[k + 1] = h
    /\ \A i \in 1 .. k : q[i] \in N /\ pv[q[i]] = q[i - 1]
    /\ \A i \in 0 .. k : nx[q[i]] = q[i + 1]
    /\ \A x \in N : \E i \in 1 .. k : q[i] = x
    /\ \A i, j \in 1 .. k : q[i] = q[j] => i = j

\* The list of h has the nodes N.
ListOf(nx, pv, h, N) == \E k \in Nat, q \in [Nat -> Node] : Chain(nx, pv, h, N, k, q)

\* No page is a head of a list, and Null is no node.
LEMMA NodeFacts ==
    /\ Null \notin Page /\ Null \notin Node
    /\ \A h \in Lists : h \in Node /\ h \notin Page
    /\ Page \subseteq Node
    /\ \A p \in Page : p \in 0 .. Pages - 1
  BY SlabConstants DEF Lists, Node, Page

\* Another state in which the nodes of a list have the links they had.
LEMMA ChainFrame ==
    ASSUME NEW nx, NEW pv, NEW h \in Lists, NEW N \in SUBSET Page, ListOf(nx, pv, h, N),
           NEW nx2, NEW pv2,
           \A x \in N \cup {h} : nx2[x] = nx[x],
           \A x \in N : pv2[x] = pv[x]
    PROVE  ListOf(nx2, pv2, h, N)
<1>1. PICK k \in Nat, q \in [Nat -> Node] : Chain(nx, pv, h, N, k, q)
  BY DEF ListOf
<1>2. \A i \in 0 .. k : q[i] \in N \cup {h}
  <2>1. TAKE i \in 0 .. k
  <2>2. i = 0 \/ i \in 1 .. k
    OBVIOUS
  <2> QED BY <1>1, <2>2 DEF Chain
<1>3. Chain(nx2, pv2, h, N, k, q)
  BY <1>1, <1>2 DEF Chain
<1> QED BY <1>3 DEF ListOf

\* The links of a node of a list.
InChain(nx, pv, h, N, x) ==
    /\ nx[x] \in N \cup {h} /\ nx[x] # x
    /\ pv[x] \in N \cup {h} /\ pv[x] # x
    /\ nx[pv[x]] = x
    /\ nx[x] # h => pv[nx[x]] = x

\* The first node follows the head, and every link has its counterpart.
LEMMA ChainNext ==
    ASSUME NEW nx, NEW pv, NEW h \in Lists, NEW N \in SUBSET Page, ListOf(nx, pv, h, N)
    PROVE  /\ nx[h] \in N \cup {h}
           /\ nx[h] = h <=> N = {}
           /\ \A x \in N : InChain(nx, pv, h, N, x)
<1>1. PICK k \in Nat, q \in [Nat -> Node] : Chain(nx, pv, h, N, k, q)
  BY DEF ListOf
<1>2. h \notin N
  BY NodeFacts
<1>3. \A i \in 0 .. k + 1 : i = 0 \/ i = k + 1 \/ i \in 1 .. k
  OBVIOUS
<1>4. \A i \in 0 .. k + 1 : q[i] \in N \cup {h}
  BY <1>1, <1>3 DEF Chain
<1>5. nx[h] = q[1] /\ 1 \in 0 .. k + 1
  BY <1>1 DEF Chain
<1>6. nx[h] = h <=> N = {}
  <2>1. CASE k = 0
    <3>1. \A x \in N : FALSE
      BY <1>1, <2>1 DEF Chain
    <3> QED BY <1>1, <1>5, <2>1, <3>1 DEF Chain
  <2>2. CASE k # 0
    <3>1. 1 \in 1 .. k
      BY <2>2
    <3>2. q[1] \in N
      BY <1>1, <3>1 DEF Chain
    <3> QED BY <1>2, <1>5, <3>2
  <2> QED BY <2>1, <2>2
<1>7. ASSUME NEW x \in N PROVE InChain(nx, pv, h, N, x)
  <2>1. PICK i \in 1 .. k : q[i] = x
    BY <1>1 DEF Chain
  <2>2. i \in 0 .. k /\ i - 1 \in 0 .. k /\ i + 1 \in 0 .. k + 1 /\ i - 1 \in 0 .. k + 1
        /\ (i - 1) + 1 = i /\ (i + 1) - 1 = i
    OBVIOUS
  <2>3. nx[x] = q[i + 1] /\ pv[x] = q[i - 1] /\ nx[q[i - 1]] = x
    BY <1>1, <2>1, <2>2 DEF Chain
  <2>4. nx[x] # h => i + 1 \in 1 .. k /\ pv[nx[x]] = x
    <3>1. ASSUME nx[x] # h PROVE i + 1 \in 1 .. k
      <4>1. i + 1 # k + 1
        BY <1>1, <2>3, <3>1 DEF Chain
      <4> QED BY <4>1
    <3>2. ASSUME nx[x] # h PROVE pv[nx[x]] = x
      <4>1. pv[q[i + 1]] = q[(i + 1) - 1]
        BY <1>1, <3>1, <3>2 DEF Chain
      <4> QED BY <2>1, <2>2, <2>3, <4>1
    <3> QED BY <3>1, <3>2
  <2>5. nx[x] # x
    <3>1. CASE nx[x] = h
      BY <1>2, <3>1
    <3>2. CASE nx[x] # h
      <4>1. q[i + 1] = q[i] => i + 1 = i
        BY <1>1, <2>4, <3>2 DEF Chain
      <4> QED BY <2>1, <2>3, <4>1
    <3> QED BY <3>1, <3>2
  <2>6. pv[x] # x
    <3>1. CASE i = 1
      BY <1>1, <1>2, <2>3, <3>1 DEF Chain
    <3>2. CASE i # 1
      <4>0. i - 1 \in 1 .. k
        BY <3>2
      <4>1. q[i - 1] = q[i] => i - 1 = i
        BY <1>1, <4>0 DEF Chain
      <4> QED BY <2>1, <2>3, <4>1
    <3> QED BY <3>1, <3>2
  <2>7. nx[x] \in N \cup {h} /\ pv[x] \in N \cup {h}
    BY <1>4, <2>2, <2>3
  <2> QED BY <2>2, <2>3, <2>4, <2>5, <2>6, <2>7 DEF InChain
<1> QED BY <1>4, <1>5, <1>6, <1>7

\* A node leaves its list.
LEMMA ChainUnlink ==
    ASSUME NEW nx, NEW pv, NEW h \in Lists, NEW N \in SUBSET Page, ListOf(nx, pv, h, N),
           NEW nx2, NEW pv2, NEW p \in N,
           \A x \in (N \ {p}) \cup {h} : nx2[x] = IF x = pv[p] THEN nx[p] ELSE nx[x],
           \A x \in N \ {p} : pv2[x] = IF x = nx[p] THEN pv[p] ELSE pv[x]
    PROVE  ListOf(nx2, pv2, h, N \ {p})
<1>1. PICK k \in Nat, q \in [Nat -> Node] : Chain(nx, pv, h, N, k, q)
  BY DEF ListOf
<1>2. h \notin N
  BY NodeFacts
<1>3. PICK j \in 1 .. k : q[j] = p
  BY <1>1 DEF Chain
<1> DEFINE r == [i \in Nat |-> IF i < j THEN q[i] ELSE q[i + 1]]
<1>4. r \in [Nat -> Node]
  OBVIOUS
<1>5. \A i \in Nat : r[i] = IF i < j THEN q[i] ELSE q[i + 1]
  OBVIOUS
<1> HIDE DEF r
<1>6. k - 1 \in Nat /\ k \in Nat /\ j \in Nat
  OBVIOUS
<1>7. nx[p] = q[j + 1] /\ pv[p] = q[j - 1] /\ nx[q[j - 1]] = p
  <2>1. j \in 0 .. k /\ j - 1 \in 0 .. k /\ (j - 1) + 1 = j
    OBVIOUS
  <2> QED BY <1>1, <1>3, <2>1 DEF Chain
<1>7a. /\ q[0] = h /\ q[k + 1] = h /\ h \notin N
       /\ \A i \in 1 .. k : q[i] \in N
       /\ \A a, b \in 1 .. k : q[a] = q[b] => a = b
  BY <1>1, <1>2 DEF Chain
<1>8. ASSUME NEW a \in 0 .. k, NEW b \in 0 .. k, q[a] = q[b] PROVE a = b
  <2>1. (a = 0 \/ a \in 1 .. k) /\ (b = 0 \/ b \in 1 .. k)
    OBVIOUS
  <2> QED BY <1>7a, <1>8, <2>1
<1>9. ASSUME NEW a \in 1 .. k + 1, NEW b \in 1 .. k + 1, q[a] = q[b] PROVE a = b
  <2>1. (a = k + 1 \/ a \in 1 .. k) /\ (b = k + 1 \/ b \in 1 .. k)
    OBVIOUS
  <2> QED BY <1>7a, <1>9, <2>1
<1>10. \A i \in 0 .. k : i # j => q[i] \in (N \ {p}) \cup {h}
  <2>1. TAKE i \in 0 .. k
  <2>2. i = 0 \/ i \in 1 .. k
    OBVIOUS
  <2>3. j \in 0 .. k
    OBVIOUS
  <2> QED BY <1>1, <1>2, <1>3, <1>8, <2>2, <2>3 DEF Chain
<1>11. r[0] = h /\ r[(k - 1) + 1] = h
  <2>1. r[0] = q[0]
    BY <1>5, <1>6
  <2>2. (k - 1) + 1 = k /\ ~(k < j)
    BY <1>6
  <2>3. r[k] = q[k + 1]
    BY <1>5, <1>6, <2>2
  <2> QED BY <1>1, <2>1, <2>2, <2>3 DEF Chain
<1>12. \A i \in 1 .. k - 1 : r[i] \in N \ {p} /\ pv2[r[i]] = r[i - 1]
  <2>1. TAKE i \in 1 .. k - 1
  <2>2. i \in Nat /\ i - 1 \in Nat /\ i \in 1 .. k /\ i + 1 \in 1 .. k /\ i \in 0 .. k
        /\ i + 1 \in 0 .. k
        /\ i \in 1 .. k + 1 /\ i + 1 \in 1 .. k + 1 /\ j + 1 \in 1 .. k + 1
        /\ (i + 1) - 1 = i /\ (i - 1) + 1 = i
    BY <1>6
  <2>3. CASE i < j
    <3>1. i - 1 < j /\ i # j /\ i # j + 1
      BY <2>2, <2>3
    <3>2. r[i] = q[i] /\ r[i - 1] = q[i - 1]
      BY <1>5, <2>2, <2>3, <3>1
    <3>3. q[i] \in N /\ q[i] # p
      BY <1>1, <1>3, <2>2, <3>1 DEF Chain
    <3>4. q[i] # nx[p]
      BY <1>7, <1>9, <2>2, <3>1
    <3>5. pv[q[i]] = q[i - 1]
      BY <1>1, <2>2 DEF Chain
    <3> QED BY <3>2, <3>3, <3>4, <3>5
  <2>4. CASE i = j
    <3>1. r[i] = q[i + 1] /\ r[i - 1] = q[i - 1] /\ i - 1 < j /\ i + 1 # j
      BY <1>5, <2>2, <2>4
    <3>2. q[i + 1] \in N /\ q[i + 1] # p
      BY <1>1, <1>3, <2>2, <3>1 DEF Chain
    <3> QED BY <1>7, <2>4, <3>1, <3>2
  <2>5. CASE i > j
    <3>1. ~(i < j) /\ ~(i - 1 < j) /\ i + 1 # j /\ i + 1 # j + 1
      BY <2>2, <2>5
    <3>2. r[i] = q[i + 1] /\ r[i - 1] = q[i]
      BY <1>5, <2>2, <3>1
    <3>3. q[i + 1] \in N /\ q[i + 1] # p
      BY <1>1, <1>3, <2>2, <3>1 DEF Chain
    <3>4. q[i + 1] # nx[p]
      BY <1>7, <1>9, <2>2, <3>1
    <3>5. pv[q[i + 1]] = q[(i + 1) - 1]
      BY <1>1, <2>2 DEF Chain
    <3> QED BY <2>2, <3>2, <3>3, <3>4, <3>5
  <2> QED BY <2>2, <2>3, <2>4, <2>5
<1>13. \A i \in 0 .. k - 1 : nx2[r[i]] = r[i + 1]
  <2>1. TAKE i \in 0 .. k - 1
  <2>2. i \in Nat /\ i + 1 \in Nat /\ i \in 0 .. k /\ i + 1 \in 0 .. k /\ j - 1 \in 0 .. k
        /\ (i + 1) + 1 \in Nat
    BY <1>6
  <2>3. CASE i + 1 < j
    <3>1. i < j /\ i # j /\ i # j - 1
      BY <2>2, <2>3
    <3>2. r[i] = q[i] /\ r[i + 1] = q[i + 1]
      BY <1>5, <2>2, <2>3, <3>1
    <3>3. q[i] \in (N \ {p}) \cup {h}
      BY <1>10, <2>2, <3>1
    <3>4. q[i] # pv[p]
      BY <1>7, <1>8, <2>2, <3>1
    <3>5. nx[q[i]] = q[i + 1]
      BY <1>1, <2>2 DEF Chain
    <3> QED BY <3>2, <3>3, <3>4, <3>5
  <2>4. CASE i + 1 = j
    <3>1. i < j /\ ~(i + 1 < j) /\ i # j /\ i = j - 1 /\ (i + 1) + 1 = j + 1
      BY <2>2, <2>4
    <3>2. r[i] = q[i] /\ r[i + 1] = q[(i + 1) + 1]
      BY <1>5, <2>2, <3>1
    <3>3. q[i] \in (N \ {p}) \cup {h}
      BY <1>10, <2>2, <3>1
    <3> QED BY <1>7, <3>1, <3>2, <3>3
  <2>5. CASE i + 1 > j
    <3>1. ~(i < j) /\ ~(i + 1 < j) /\ i + 1 # j /\ i + 1 # j - 1
      BY <2>2, <2>5
    <3>2. r[i] = q[i + 1] /\ r[i + 1] = q[(i + 1) + 1]
      BY <1>5, <2>2, <3>1
    <3>3. q[i + 1] \in (N \ {p}) \cup {h}
      BY <1>10, <2>2, <3>1
    <3>4. q[i + 1] # pv[p]
      BY <1>7, <1>8, <2>2, <3>1
    <3>5. nx[q[i + 1]] = q[(i + 1) + 1]
      BY <1>1, <2>2 DEF Chain
    <3> QED BY <3>2, <3>3, <3>4, <3>5
  <2> QED BY <2>2, <2>3, <2>4, <2>5
<1>14. \A x \in N \ {p} : \E i \in 1 .. k - 1 : r[i] = x
  <2>1. TAKE x \in N \ {p}
  <2>2. PICK i \in 1 .. k : q[i] = x
    BY <1>1 DEF Chain
  <2>3. i # j
    BY <1>3, <2>2
  <2>4. CASE i < j
    <3>1. i \in 1 .. k - 1 /\ r[i] = x
      BY <1>5, <1>6, <2>2, <2>4
    <3> QED BY <3>1
  <2>5. CASE i > j
    <3>1. i - 1 \in 1 .. k - 1 /\ ~(i - 1 < j) /\ (i - 1) + 1 = i /\ i - 1 \in Nat
      BY <1>6, <2>5
    <3>2. r[i - 1] = x
      BY <1>5, <2>2, <3>1
    <3> QED BY <3>1, <3>2
  <2> QED BY <2>3, <2>4, <2>5
<1>15. \A a, b \in 1 .. k - 1 : r[a] = r[b] => a = b
  <2>1. TAKE a, b \in 1 .. k - 1
  <2> DEFINE c == IF a < j THEN a ELSE a + 1
             d == IF b < j THEN b ELSE b + 1
  <2>2. a \in Nat /\ b \in Nat /\ c \in 0 .. k /\ d \in 0 .. k /\ (c = d => a = b)
    BY <1>6
  <2>3. r[a] = q[c] /\ r[b] = q[d]
    BY <1>5, <2>2
  <2> HIDE DEF c, d
  <2> QED BY <1>8, <2>2, <2>3
<1>16. Chain(nx2, pv2, h, N \ {p}, k - 1, r)
  BY <1>11, <1>12, <1>13, <1>14, <1>15 DEF Chain
<1> QED BY <1>4, <1>6, <1>16 DEF ListOf

\* A node becomes the first of a list.
LEMMA ChainLink ==
    ASSUME NEW nx, NEW pv, NEW h \in Lists, NEW N \in SUBSET Page, ListOf(nx, pv, h, N),
           NEW nx2, NEW pv2, NEW p \in Page \ N,
           nx2[h] = p, nx2[p] = nx[h], pv2[p] = h,
           \A x \in N : nx2[x] = nx[x],
           \A x \in N : pv2[x] = IF x = nx[h] THEN p ELSE pv[x]
    PROVE  ListOf(nx2, pv2, h, N \cup {p})
<1>1. PICK k \in Nat, q \in [Nat -> Node] : Chain(nx, pv, h, N, k, q)
  BY DEF ListOf
<1>2. h \notin N /\ h \in Node /\ p \in Node /\ p # h
  BY NodeFacts
<1> DEFINE r == [i \in Nat |-> IF i = 0 THEN h ELSE IF i = 1 THEN p ELSE q[i - 1]]
<1>4. r \in [Nat -> Node]
  <2>1. \A i \in Nat : r[i] \in Node
    BY <1>2
  <2> QED BY <2>1
<1>5. r[0] = h /\ r[1] = p /\ \A i \in Nat : i > 1 => r[i] = q[i - 1]
  OBVIOUS
<1> HIDE DEF r
<1>6. nx[h] = q[1]
  BY <1>1 DEF Chain
<1>11. r[0] = h /\ r[(k + 1) + 1] = h
  <2>1. (k + 1) + 1 \in Nat /\ (k + 1) + 1 > 1 /\ ((k + 1) + 1) - 1 = k + 1
    OBVIOUS
  <2> QED BY <1>1, <1>5, <2>1 DEF Chain
<1>12. \A i \in 1 .. k + 1 : r[i] \in N \cup {p} /\ pv2[r[i]] = r[i - 1]
  <2>1. TAKE i \in 1 .. k + 1
  <2>2. CASE i = 1
    BY <1>5, <2>2
  <2>3. CASE i = 2
    <3>1. 1 \in 1 .. k /\ r[2] = q[1]
      BY <1>5, <2>3
    <3>2. q[1] \in N
      BY <1>1, <3>1 DEF Chain
    <3> QED BY <1>5, <1>6, <2>3, <3>1, <3>2
  <2>4. CASE i > 2
    <3>1. i - 1 \in 1 .. k /\ i - 1 > 1 /\ i > 1 /\ i \in Nat /\ i - 1 \in Nat /\ 1 \in 1 .. k
      BY <2>4
    <3>2. r[i] = q[i - 1] /\ r[i - 1] = q[(i - 1) - 1]
      BY <1>5, <3>1
    <3>3. q[i - 1] \in N /\ pv[q[i - 1]] = q[(i - 1) - 1]
      BY <1>1, <3>1 DEF Chain
    <3>4. q[i - 1] # q[1]
      BY <1>1, <3>1 DEF Chain
    <3> QED BY <1>6, <3>2, <3>3, <3>4
  <2> QED BY <2>2, <2>3, <2>4
<1>13. \A i \in 0 .. k + 1 : nx2[r[i]] = r[i + 1]
  <2>1. TAKE i \in 0 .. k + 1
  <2>2. CASE i = 0
    BY <1>5, <2>2
  <2>3. CASE i = 1
    <3>1. r[2] = q[1]
      BY <1>5
    <3> QED BY <1>5, <1>6, <2>3, <3>1
  <2>4. CASE i > 1
    <3>1. i - 1 \in 1 .. k /\ i - 1 \in 0 .. k /\ i \in Nat /\ i + 1 \in Nat /\ i + 1 > 1
          /\ (i - 1) + 1 = i /\ (i + 1) - 1 = i
      BY <2>4
    <3>2. r[i] = q[i - 1] /\ r[i + 1] = q[i]
      BY <1>5, <2>4, <3>1
    <3>3. q[i - 1] \in N /\ nx[q[i - 1]] = q[(i - 1) + 1]
      BY <1>1, <3>1 DEF Chain
    <3> QED BY <3>1, <3>2, <3>3
  <2> QED BY <2>2, <2>3, <2>4
<1>14. \A x \in N \cup {p} : \E i \in 1 .. k + 1 : r[i] = x
  <2>1. TAKE x \in N \cup {p}
  <2>2. CASE x = p
    <3>1. 1 \in 1 .. k + 1
      OBVIOUS
    <3> QED BY <1>5, <2>2, <3>1
  <2>3. CASE x \in N
    <3>1. PICK i \in 1 .. k : q[i] = x
      BY <1>1, <2>3 DEF Chain
    <3>2. i + 1 \in 1 .. k + 1 /\ i + 1 \in Nat /\ i + 1 > 1 /\ (i + 1) - 1 = i
      OBVIOUS
    <3>3. r[i + 1] = x
      BY <1>5, <3>1, <3>2
    <3> QED BY <3>2, <3>3
  <2> QED BY <2>2, <2>3
<1>15. \A a, b \in 1 .. k + 1 : r[a] = r[b] => a = b
  <2>1. \A a \in 1 .. k + 1 : a > 1 => /\ r[a] = q[a - 1] /\ a - 1 \in 1 .. k
                                       /\ r[a] # p
    <3>1. TAKE a \in 1 .. k + 1
    <3>2. HAVE a > 1
    <3>3. a - 1 \in 1 .. k /\ a \in Nat
      BY <3>2
    <3>4. r[a] = q[a - 1]
      BY <1>5, <3>2, <3>3
    <3>5. q[a - 1] \in N
      BY <1>1, <3>3 DEF Chain
    <3> QED BY <3>3, <3>4, <3>5
  <2>2. TAKE a, b \in 1 .. k + 1
  <2>3. HAVE r[a] = r[b]
  <2>4. CASE a > 1 /\ b > 1
    <3>1. a - 1 = b - 1
      BY <1>1, <2>1, <2>3, <2>4 DEF Chain
    <3> QED BY <3>1
  <2>5. CASE a = 1
    BY <1>5, <2>1, <2>3, <2>5
  <2>6. CASE b = 1
    BY <1>5, <2>1, <2>3, <2>6
  <2> QED BY <2>4, <2>5, <2>6
<1>16. Chain(nx2, pv2, h, N \cup {p}, k + 1, r)
  BY <1>11, <1>12, <1>13, <1>14, <1>15 DEF Chain
<1> QED BY <1>4, <1>16 DEF ListOf

\* A node takes the place of another in a list.
LEMMA ChainReplace ==
    ASSUME NEW nx, NEW pv, NEW h \in Lists, NEW N \in SUBSET Page, ListOf(nx, pv, h, N),
           NEW nx2, NEW pv2, NEW p \in N, NEW e \in Page \ N,
           nx2[e] = nx[p], pv2[e] = pv[p],
           \A x \in (N \ {p}) \cup {h} : nx2[x] = IF x = pv[p] THEN e ELSE nx[x],
           \A x \in N \ {p} : pv2[x] = IF x = nx[p] THEN e ELSE pv[x]
    PROVE  ListOf(nx2, pv2, h, (N \ {p}) \cup {e})
<1>1. PICK k \in Nat, q \in [Nat -> Node] : Chain(nx, pv, h, N, k, q)
  BY DEF ListOf
<1>2. h \notin N /\ e \in Node /\ e # h /\ e # p
  BY NodeFacts
<1>3. PICK j \in 1 .. k : q[j] = p
  BY <1>1 DEF Chain
<1> DEFINE r == [i \in Nat |-> IF i = j THEN e ELSE q[i]]
<1>4. r \in [Nat -> Node]
  BY <1>2
<1>5. r[j] = e /\ \A i \in Nat : i # j => r[i] = q[i]
  OBVIOUS
<1> HIDE DEF r
<1>7. nx[p] = q[j + 1] /\ pv[p] = q[j - 1]
  <2>1. j \in 0 .. k
    OBVIOUS
  <2> QED BY <1>1, <1>3, <2>1 DEF Chain
<1>8. \A a, b \in 0 .. k : q[a] = q[b] => a = b
  <2>1. TAKE a, b \in 0 .. k
  <2>2. (a = 0 \/ a \in 1 .. k) /\ (b = 0 \/ b \in 1 .. k)
    OBVIOUS
  <2> QED BY <1>1, <1>2, <2>2 DEF Chain
<1>9. \A a, b \in 1 .. k + 1 : q[a] = q[b] => a = b
  <2>1. TAKE a, b \in 1 .. k + 1
  <2>2. (a = k + 1 \/ a \in 1 .. k) /\ (b = k + 1 \/ b \in 1 .. k)
    OBVIOUS
  <2> QED BY <1>1, <1>2, <2>2 DEF Chain
<1>11. r[0] = h /\ r[k + 1] = h
  BY <1>1, <1>5 DEF Chain
<1>12. \A i \in 1 .. k : r[i] \in (N \ {p}) \cup {e} /\ pv2[r[i]] = r[i - 1]
  <2>1. TAKE i \in 1 .. k
  <2>2. i \in Nat /\ i - 1 \in Nat /\ i \in 1 .. k + 1 /\ j + 1 \in 1 .. k + 1 /\ j \in 0 .. k
        /\ i \in 0 .. k
    OBVIOUS
  <2>3. CASE i = j
    <3>1. r[i - 1] = q[i - 1]
      BY <1>5, <2>2, <2>3
    <3> QED BY <1>5, <1>7, <2>3, <3>1
  <2>4. CASE i # j
    <3>1. r[i] = q[i] /\ q[i] \in N /\ q[i] # p /\ pv[q[i]] = q[i - 1]
      BY <1>1, <1>3, <1>5, <1>8, <2>2, <2>4 DEF Chain
    <3>2. CASE i = j + 1
      <4>1. q[i] = nx[p] /\ r[i - 1] = e
        BY <1>5, <1>7, <3>2
      <4> QED BY <3>1, <4>1
    <3>3. CASE i # j + 1
      <4>1. q[i] # nx[p]
        BY <1>7, <1>9, <2>2, <3>3
      <4>2. r[i - 1] = q[i - 1]
        BY <1>5, <2>2, <3>3
      <4> QED BY <3>1, <4>1, <4>2
    <3> QED BY <3>2, <3>3
  <2> QED BY <2>3, <2>4
<1>13. \A i \in 0 .. k : nx2[r[i]] = r[i + 1]
  <2>1. TAKE i \in 0 .. k
  <2>2. i \in Nat /\ i + 1 \in Nat /\ j \in 0 .. k /\ j - 1 \in 0 .. k
    OBVIOUS
  <2>3. CASE i = j
    <3>1. r[i + 1] = q[i + 1]
      BY <1>5, <2>2, <2>3
    <3> QED BY <1>5, <1>7, <2>3, <3>1
  <2>4. CASE i # j
    <3>1. r[i] = q[i] /\ nx[q[i]] = q[i + 1]
      BY <1>1, <1>5, <2>2, <2>4 DEF Chain
    <3>2. q[i] \in (N \ {p}) \cup {h}
      <4>1. i = 0 \/ i \in 1 .. k
        OBVIOUS
      <4> QED BY <1>1, <1>2, <1>3, <1>8, <2>2, <2>4, <4>1 DEF Chain
    <3>3. CASE i = j - 1
      <4>1. q[i] = pv[p] /\ r[i + 1] = e
        BY <1>5, <1>7, <3>3
      <4> QED BY <3>1, <3>2, <4>1
    <3>4. CASE i # j - 1
      <4>1. q[i] # pv[p]
        BY <1>7, <1>8, <2>2, <3>4
      <4>2. r[i + 1] = q[i + 1]
        BY <1>5, <2>2, <3>4
      <4> QED BY <3>1, <3>2, <4>1, <4>2
    <3> QED BY <3>3, <3>4
  <2> QED BY <2>3, <2>4
<1>14. \A x \in (N \ {p}) \cup {e} : \E i \in 1 .. k : r[i] = x
  <2>1. TAKE x \in (N \ {p}) \cup {e}
  <2>2. CASE x = e
    BY <1>5, <2>2
  <2>3. CASE x \in N \ {p}
    <3>1. PICK i \in 1 .. k : q[i] = x
      BY <1>1, <2>3 DEF Chain
    <3>2. i # j /\ i \in Nat
      BY <1>3, <2>3, <3>1
    <3> QED BY <1>5, <3>1, <3>2
  <2> QED BY <2>2, <2>3
<1>15. \A a, b \in 1 .. k : r[a] = r[b] => a = b
  <2>1. \A a \in 1 .. k : a \in Nat /\ (a # j => r[a] = q[a] /\ q[a] # e)
    BY <1>1, <1>5 DEF Chain
  <2> QED BY <1>1, <1>5, <2>1 DEF Chain
<1>16. Chain(nx2, pv2, h, (N \ {p}) \cup {e}, k, r)
  BY <1>11, <1>12, <1>13, <1>14, <1>15 DEF Chain
<1> QED BY <1>4, <1>16 DEF ListOf

-----------------------------------------------------------------------------
(* Walk() and FirstFit() on a list.                                        *)

\* What a page can be: see MemSlab.
Marks == {"free", "start", "busy", "chunks"}

\* The state of a pool.
SlabRecord ==
    [next : [Node -> Node \cup {Null}], prev : [Node -> Node \cup {Null}],
     type : [Page -> Slot \cup {Null}], mark : [Page -> Marks], count : [Page -> Nat],
     used : [Page -> SUBSET Nat],
     mFreePageCount : Int, mTotal : [Slot -> Int], mUsed : [Slot -> Int]]

\* A set of numbers that is not empty has a least one.
LEMMA LeastNat ==
    ASSUME NEW T \in SUBSET Nat, T # {}
    PROVE  \E x \in T : \A y \in T : x <= y
<1> DEFINE R == OpToRel(<, Nat)
<1>1. IsWellFoundedOn(R, Nat)
  BY NatLessThanWellFounded
<1>2. PICK x \in T : \A y \in T : ~ (<<y, x>> \in R)
  <2> HIDE DEF R
  <2> QED BY <1>1, WFMin
<1>3. \A y \in T : ~(y < x)
  BY <1>2 DEF OpToRel
<1> QED BY <1>3

\* Walk() visits the nodes of a list in order, and stays at the head then.
LEMMA WalkChain ==
    ASSUME NEW m \in SlabRecord, NEW h \in Lists, NEW N \in SUBSET Page, ListOf(m.next, m.prev, h, N)
    PROVE  \E k \in 0 .. Pages, q \in [Nat -> Node] :
              /\ Chain(m.next, m.prev, h, N, k, q)
              /\ Walk(m, h) = [i \in 1 .. Pages + 1 |-> IF i <= k THEN q[i] ELSE h]
<1>0. Pages \in Nat /\ h \notin N
  BY SlabConstants, NodeFacts
<1>1. PICK k \in Nat, q \in [Nat -> Node] : Chain(m.next, m.prev, h, N, k, q)
  BY DEF ListOf
<1>2. k <= Pages
  <2> DEFINE f == [i \in 1 .. k |-> q[i]]
  <2>1. \A i \in 1 .. k : f[i] = q[i] /\ q[i] \in Page
    BY <1>1 DEF Chain
  <2>2. f \in [1 .. k -> Page] /\ \A i, j \in 1 .. k : f[i] = f[j] => i = j
    BY <1>1, <2>1 DEF Chain
  <2> HIDE DEF f
  <2>3. f \in Injection(1 .. k, Page)
    BY <2>2 DEF Injection, IsInjective
  <2>4. IsFiniteSet(Page) /\ Cardinality(Page) = Pages
    <3>1. 0 \in Int /\ Pages - 1 \in Int
      BY <1>0
    <3>2. IsFiniteSet(0 .. Pages - 1)
          /\ Cardinality(0 .. Pages - 1) = IF 0 > Pages - 1 THEN 0 ELSE (Pages - 1) - 0 + 1
      BY <3>1, FS_Interval
    <3> QED BY <1>0, <3>2 DEF Page
  <2>5. Cardinality(1 .. k) = k
    <3>1. Cardinality(1 .. k) = IF 1 > k THEN 0 ELSE k - 1 + 1
      BY FS_Interval
    <3> QED BY <3>1
  <2>6. Cardinality(1 .. k) <= Cardinality(Page)
    BY <2>3, <2>4, FS_Injection
  <2> QED BY <2>4, <2>5, <2>6
<1> DEFINE D == 1 .. Pages + 1
           F(i, f) == IF i = 1 THEN m.next[h] ELSE IF f[i - 1] = h THEN h ELSE m.next[f[i - 1]]
           w == [i \in D |-> IF i <= k THEN q[i] ELSE h]
<1>3. \A i \in D : w[i] = IF i <= k THEN q[i] ELSE h
  OBVIOUS
<1>4. \A i \in D : w[i] = F(i, w)
  <2> HIDE DEF w
  <2>1. TAKE i \in D
  <2>2. i \in Nat /\ (i = 1 \/ i - 1 \in D)
    BY <1>0
  <2>3. CASE i = 1
    <3>1. m.next[h] = q[1] /\ (k = 0 => q[1] = h)
      BY <1>1 DEF Chain
    <3>2. i <= k \/ k = 0
      BY <2>3
    <3> QED BY <1>3, <2>3, <3>1, <3>2
  <2>4. CASE i # 1 /\ i - 1 <= k
    <3>1. i - 1 \in 1 .. k /\ i - 1 \in 0 .. k /\ (i - 1) + 1 = i
      BY <2>2, <2>4
    <3>2. w[i - 1] = q[i - 1] /\ q[i - 1] \in N /\ m.next[q[i - 1]] = q[i]
      BY <1>1, <1>3, <2>2, <2>4, <3>1 DEF Chain
    <3>3. w[i] = q[i]
      <4>1. CASE i <= k
        BY <1>3, <4>1
      <4>2. CASE ~(i <= k)
        <5>1. i = k + 1
          BY <2>2, <3>1, <4>2
        <5> QED BY <1>1, <1>3, <4>2, <5>1 DEF Chain
      <4> QED BY <4>1, <4>2
    <3> QED BY <1>0, <2>4, <3>2, <3>3
  <2>5. CASE i # 1 /\ ~(i - 1 <= k)
    <3>1. ~(i <= k)
      BY <2>2, <2>5
    <3> QED BY <1>3, <2>2, <2>5, <3>1
  <2> QED BY <2>3, <2>4, <2>5
<1>5. w = [i \in D |-> F(i, w)]
  <2>1. w = [i \in D |-> w[i]]
    OBVIOUS
  <2> HIDE DEF w, F
  <2> QED BY <1>4, <2>1
<1>6. Walk(m, h) = [i \in D |-> F(i, Walk(m, h))]
  <2>1. Walk(m, h) = CHOOSE at : at = [i \in D |-> F(i, at)]
    BY DEF Walk
  <2> HIDE DEF w, F, D
  <2> QED BY <1>5, <2>1
<1>7. ASSUME NEW v, v = [i \in D |-> F(i, v)]
      PROVE  v = w
  <2> DEFINE T == {i \in D : v[i] # w[i]}
  <2>1. \A i \in D : v[i] = F(i, v)
    <3> HIDE DEF F
    <3> QED BY <1>7
  <2>2. T = {}
    <3>1. SUFFICES ASSUME T # {} PROVE FALSE
      OBVIOUS
    <3>2. T \in SUBSET Nat
      BY <1>0
    <3>3. PICK i \in T : \A j \in T : i <= j
      <4> HIDE DEF T
      <4> QED BY <3>1, <3>2, LeastNat
    <3>4. i \in D /\ v[i] # w[i]
      OBVIOUS
    <3>5. i # 1 => i - 1 \in D /\ i - 1 \notin T
      BY <1>0, <3>3, <3>4
    <3>6. i # 1 => v[i - 1] = w[i - 1]
      BY <3>5
    <3> HIDE DEF w, T, D
    <3> QED BY <1>4, <2>1, <3>4, <3>6
  <2>3. v = [i \in D |-> v[i]] /\ w = [i \in D |-> w[i]]
    BY <1>7
  <2>4. \A i \in D : v[i] = w[i]
    BY <2>2
  <2> HIDE DEF w, D, F, T
  <2> QED BY <2>3, <2>4
<1>8. Walk(m, h) = w
  <2> HIDE DEF w, F, D
  <2> QED BY <1>6, <1>7
<1>9. k \in 0 .. Pages
  BY <1>0, <1>2
<1> QED BY <1>1, <1>8, <1>9

\* A list holds the nodes that IsList asks for.
LEMMA ChainIsList ==
    ASSUME NEW m \in SlabRecord, NEW h \in Lists, NEW N \in SUBSET Page, ListOf(m.next, m.prev, h, N)
    PROVE  IsList(m, h, N)
<1>1. PICK k \in 0 .. Pages, q \in [Nat -> Node] :
         /\ Chain(m.next, m.prev, h, N, k, q)
         /\ Walk(m, h) = [i \in 1 .. Pages + 1 |-> IF i <= k THEN q[i] ELSE h]
  BY WalkChain
<1> DEFINE at == Walk(m, h)
<1>2. h \notin N /\ Pages \in Nat
  BY SlabConstants, NodeFacts
<1>3. DOMAIN at = 1 .. Pages + 1 /\ \A i \in DOMAIN at : at[i] = IF i <= k THEN q[i] ELSE h
  BY <1>1
<1> HIDE DEF at
<1>4. {at[i] : i \in DOMAIN at} \ {h} = N
  <2>1. ASSUME NEW i \in DOMAIN at, at[i] # h PROVE at[i] \in N
    <3>1. i \in 1 .. k
      BY <1>2, <1>3, <2>1
    <3> QED BY <1>1, <1>3, <3>1 DEF Chain
  <2>2. ASSUME NEW x \in N PROVE x # h /\ \E i \in DOMAIN at : at[i] = x
    <3>1. PICK i \in 1 .. k : q[i] = x
      BY <1>1 DEF Chain
    <3>2. i \in DOMAIN at /\ i <= k
      BY <1>2, <1>3
    <3> QED BY <1>2, <1>3, <3>1, <3>2
  <2> QED BY <2>1, <2>2
<1>5. \A p \in N : InChain(m.next, m.prev, h, N, p)
  BY ChainNext
<1>6. \A p \in N : m.next[m.prev[p]] = p /\ (m.next[p] # h => m.prev[m.next[p]] = p)
  BY <1>5 DEF InChain
<1> QED BY <1>4, <1>6 DEF IsList, at

\* allocPages() finds a free run that is large enough, if it finds one.
LEMMA FitFound ==
    ASSUME NEW m \in SlabRecord, NEW N \in SUBSET Page, ListOf(m.next, m.prev, FreePage, N), NEW n
    PROVE  /\ FirstFit(m, n) \in N \cup {FreePage}
           /\ FirstFit(m, n) # FreePage => m.count[FirstFit(m, n)] >= n
<1>0. FreePage \in Lists /\ Pages \in Nat /\ FreePage \notin N
  BY SlabConstants, NodeFacts DEF Lists
<1>1. PICK k \in 0 .. Pages, q \in [Nat -> Node] :
         /\ Chain(m.next, m.prev, FreePage, N, k, q)
         /\ Walk(m, FreePage) = [i \in 1 .. Pages + 1 |-> IF i <= k THEN q[i] ELSE FreePage]
  BY <1>0, WalkChain
<1> DEFINE at == Walk(m, FreePage)
           fits(i) == at[i] = FreePage \/ m.count[at[i]] >= n
           T == {i \in DOMAIN at : fits(i)}
<1>2. DOMAIN at = 1 .. Pages + 1
      /\ \A i \in DOMAIN at : at[i] = IF i <= k THEN q[i] ELSE FreePage
  BY <1>1
<1>3. \A i \in DOMAIN at : at[i] \in N \cup {FreePage}
  <2>1. \A i \in DOMAIN at : i <= k => i \in 1 .. k
    BY <1>2
  <2> QED BY <1>1, <1>2, <2>1 DEF Chain
<1>4. Pages + 1 \in T
  <2>1. Pages + 1 \in DOMAIN at /\ ~(Pages + 1 <= k)
    BY <1>0, <1>2
  <2> QED BY <1>2, <2>1
<1>5. \E i \in DOMAIN at : fits(i) /\ \A j \in 1 .. i - 1 : ~fits(j)
  <2>1. T \in SUBSET Nat
    BY <1>2
  <2>2. PICK i \in T : \A j \in T : i <= j
    <3> HIDE DEF T
    <3> QED BY <1>4, <2>1, LeastNat
  <2>3. \A j \in 1 .. i - 1 : j \in DOMAIN at /\ ~(i <= j)
    BY <1>0, <1>2
  <2>4. \A j \in 1 .. i - 1 : ~fits(j)
    BY <2>2, <2>3
  <2> QED BY <2>4
<1>6. PICK i \in DOMAIN at : fits(i) /\ FirstFit(m, n) = at[i]
  <2> DEFINE P(i) == fits(i) /\ \A j \in 1 .. i - 1 : ~fits(j)
  <2>1. FirstFit(m, n) = at[CHOOSE i \in DOMAIN at : P(i)]
    BY DEF FirstFit
  <2>2. \E i \in DOMAIN at : P(i)
    BY <1>5
  <2>3. (CHOOSE i \in DOMAIN at : P(i)) \in DOMAIN at /\ P(CHOOSE i \in DOMAIN at : P(i))
    <3> HIDE DEF P, at
    <3> QED BY <2>2
  <2> QED BY <2>1, <2>3
<1> HIDE DEF at
<1> QED BY <1>3, <1>6

-----------------------------------------------------------------------------
(* All lists of the pool at once.                                          *)

\* The nodes of all lists: M[h] are those of the list of h.
On(M) == UNION {M[h] : h \in Lists}

\* The lists are what M says, and no node is in two of them.
AllLists(nx, pv, M) ==
    /\ M \in [Lists -> SUBSET Page]
    /\ \A g, h \in Lists : g # h => M[g] \cap M[h] = {}
    /\ \A h \in Lists : ListOf(nx, pv, h, M[h])

\* What the links of a member, or of a head, can be.
LEMMA MemberLinks ==
    ASSUME NEW nx, NEW pv, NEW M, AllLists(nx, pv, M), NEW h \in Lists, NEW p \in M[h]
    PROVE  /\ p \in Page /\ p \in On(M)
           /\ nx[p] \in M[h] \cup {h} /\ nx[p] # p
           /\ pv[p] \in M[h] \cup {h} /\ pv[p] # p
           /\ nx[p] \in Node /\ pv[p] \in Node
           /\ nx[p] # Null /\ pv[p] # Null
<1>1. M[h] \in SUBSET Page /\ ListOf(nx, pv, h, M[h])
  BY DEF AllLists
<1>2. InChain(nx, pv, h, M[h], p)
  BY <1>1, ChainNext
<1>3. p \in On(M)
  BY DEF On
<1> QED BY <1>1, <1>2, <1>3, NodeFacts DEF InChain

\* One member less, one more, one for another.
Drop(M, h, p) == [M EXCEPT ![h] = @ \ {p}]
Add(M, h, p) == [M EXCEPT ![h] = @ \cup {p}]
Swap(M, h, p, e) == [M EXCEPT ![h] = (@ \ {p}) \cup {e}]

\* A node leaves its list and the others stay as they are.
Unlinked(nx, pv, nx2, pv2, M, p) ==
    /\ \A x \in (On(M) \ {p}) \cup Lists : nx2[x] = IF x = pv[p] THEN nx[p] ELSE nx[x]
    /\ \A x \in On(M) \ {p} : pv2[x] = IF x = nx[p] THEN pv[p] ELSE pv[x]

\* The list has one node less then, and the others the nodes they had.
LEMMA AllUnlink ==
    ASSUME NEW nx, NEW pv, NEW M, AllLists(nx, pv, M), NEW h \in Lists, NEW p \in M[h],
           NEW nx2, NEW pv2, Unlinked(nx, pv, nx2, pv2, M, p)
    PROVE  /\ AllLists(nx2, pv2, Drop(M, h, p))
           /\ On(Drop(M, h, p)) = On(M) \ {p}
<1> DEFINE M2 == Drop(M, h, p)
<1>1. M \in [Lists -> SUBSET Page] /\ \A f, g \in Lists : f # g => M[f] \cap M[g] = {}
  BY DEF AllLists
<1>2. M2 \in [Lists -> SUBSET Page] /\ M2[h] = M[h] \ {p} /\ \A g \in Lists : g # h => M2[g] = M[g]
  BY <1>1 DEF Drop
<1> HIDE DEF M2
<1>3. \A f, g \in Lists : f # g => M2[f] \cap M2[g] = {}
  BY <1>1, <1>2
<1>4. nx[p] \in M[h] \cup {h} /\ pv[p] \in M[h] \cup {h}
  BY MemberLinks
<1>5. ListOf(nx2, pv2, h, M2[h])
  <2>1. M[h] \in SUBSET Page /\ ListOf(nx, pv, h, M[h])
    BY <1>1 DEF AllLists
  <2>2. \A x \in (M[h] \ {p}) \cup {h} : nx2[x] = IF x = pv[p] THEN nx[p] ELSE nx[x]
    BY DEF On, Unlinked
  <2>3. \A x \in M[h] \ {p} : pv2[x] = IF x = nx[p] THEN pv[p] ELSE pv[x]
    BY DEF On, Unlinked
  <2>4. ListOf(nx2, pv2, h, M[h] \ {p})
    BY <2>1, <2>2, <2>3, ChainUnlink
  <2> QED BY <1>2, <2>4
<1>6. ASSUME NEW g \in Lists, g # h PROVE ListOf(nx2, pv2, g, M2[g])
  <2>1. M[g] \in SUBSET Page /\ ListOf(nx, pv, g, M[g]) /\ M[g] \cap M[h] = {}
    BY <1>1, <1>6 DEF AllLists
  <2>2. g \notin M[h] /\ h \notin M[g] /\ M[g] \subseteq On(M) \ {p}
    BY <1>1, <2>1, NodeFacts DEF On
  <2>3. \A x \in M[g] \cup {g} : x # pv[p] /\ x # nx[p]
    BY <1>4, <1>6, <2>1, <2>2
  <2>4. \A x \in M[g] \cup {g} : nx2[x] = nx[x]
    BY <2>2, <2>3 DEF Unlinked
  <2>5. \A x \in M[g] : pv2[x] = pv[x]
    BY <2>2, <2>3 DEF Unlinked
  <2>6. ListOf(nx2, pv2, g, M[g])
    BY <2>1, <2>4, <2>5, ChainFrame
  <2> QED BY <1>2, <1>6, <2>6
<1>7. AllLists(nx2, pv2, M2)
  <2>1. \A g \in Lists : ListOf(nx2, pv2, g, M2[g])
    BY <1>5, <1>6
  <2> QED BY <1>2, <1>3, <2>1 DEF AllLists
<1>8. On(M2) = On(M) \ {p}
  <2>1. ASSUME NEW x \in On(M2) PROVE x \in On(M) \ {p}
    <3>1. PICK g \in Lists : x \in M2[g]
      BY DEF On
    <3>2. g # h => p \notin M[g]
      BY <1>1
    <3> QED BY <1>2, <3>1, <3>2 DEF On
  <2>2. ASSUME NEW x \in On(M) \ {p} PROVE x \in On(M2)
    <3>1. PICK g \in Lists : x \in M[g]
      BY DEF On
    <3>2. x \in M2[g]
      BY <1>2, <3>1
    <3> QED BY <3>2 DEF On
  <2> QED BY <2>1, <2>2
<1> QED BY <1>7, <1>8 DEF M2

\* A node becomes the first of a list.
LinkedFirst(nx, pv, nx2, pv2, M, h, p) ==
    /\ nx2[p] = nx[h] /\ pv2[p] = h
    /\ \A x \in On(M) \cup Lists : nx2[x] = IF x = h THEN p ELSE nx[x]
    /\ \A x \in On(M) : pv2[x] = IF x = nx[h] THEN p ELSE pv[x]

\* The list has one node more then.
LEMMA AllLink ==
    ASSUME NEW nx, NEW pv, NEW M, AllLists(nx, pv, M), NEW h \in Lists,
           NEW p \in Page \ On(M), NEW nx2, NEW pv2,
           LinkedFirst(nx, pv, nx2, pv2, M, h, p)
    PROVE  /\ AllLists(nx2, pv2, Add(M, h, p))
           /\ On(Add(M, h, p)) = On(M) \cup {p}
<1> DEFINE M2 == Add(M, h, p)
<1>1. M \in [Lists -> SUBSET Page] /\ \A f, g \in Lists : f # g => M[f] \cap M[g] = {}
  BY DEF AllLists
<1>2. M2 \in [Lists -> SUBSET Page] /\ M2[h] = M[h] \cup {p}
      /\ \A g \in Lists : g # h => M2[g] = M[g]
  BY <1>1 DEF Add
<1> HIDE DEF M2
<1>3. \A g \in Lists : M[g] \subseteq On(M) /\ p \notin M[g]
  BY DEF On
<1>3a. \A f, g \in Lists : f # g => M2[f] \cap M2[g] = {}
  BY <1>1, <1>2, <1>3
<1>4. nx[h] \in M[h] \cup {h}
  <2>1. M[h] \in SUBSET Page /\ ListOf(nx, pv, h, M[h])
    BY <1>1 DEF AllLists
  <2> QED BY <2>1, ChainNext
<1>5. ListOf(nx2, pv2, h, M2[h])
  <2>1. M[h] \in SUBSET Page /\ ListOf(nx, pv, h, M[h]) /\ p \in Page \ M[h] /\ h \notin M[h]
    BY <1>1, <1>3, NodeFacts DEF AllLists
  <2>2. \A x \in M[h] : nx2[x] = nx[x]
    BY <1>3, <2>1 DEF LinkedFirst
  <2>3. \A x \in M[h] : pv2[x] = IF x = nx[h] THEN p ELSE pv[x]
    BY <1>3 DEF LinkedFirst
  <2>4. nx2[h] = p /\ nx2[p] = nx[h] /\ pv2[p] = h
    BY DEF LinkedFirst
  <2>5. ListOf(nx2, pv2, h, M[h] \cup {p})
    BY <2>1, <2>2, <2>3, <2>4, ChainLink
  <2> QED BY <1>2, <2>5
<1>6. ASSUME NEW g \in Lists, g # h PROVE ListOf(nx2, pv2, g, M2[g])
  <2>1. M[g] \in SUBSET Page /\ ListOf(nx, pv, g, M[g]) /\ M[g] \cap M[h] = {}
    BY <1>1, <1>6 DEF AllLists
  <2>2. h \notin M[g] /\ M[g] \subseteq On(M)
    BY <1>3, <2>1, NodeFacts
  <2>3. \A x \in M[g] : x # nx[h]
    BY <1>4, <2>1, <2>2
  <2>4. \A x \in M[g] \cup {g} : nx2[x] = nx[x]
    BY <1>6, <2>2 DEF LinkedFirst
  <2>5. \A x \in M[g] : pv2[x] = pv[x]
    BY <2>2, <2>3 DEF LinkedFirst
  <2>6. ListOf(nx2, pv2, g, M[g])
    BY <2>1, <2>4, <2>5, ChainFrame
  <2> QED BY <1>2, <1>6, <2>6
<1>7. AllLists(nx2, pv2, M2)
  <2>1. \A g \in Lists : ListOf(nx2, pv2, g, M2[g])
    BY <1>5, <1>6
  <2> QED BY <1>2, <1>3a, <2>1 DEF AllLists
<1>8. On(M2) = On(M) \cup {p}
  <2>1. ASSUME NEW x \in On(M2) PROVE x \in On(M) \cup {p}
    <3>1. PICK g \in Lists : x \in M2[g]
      BY DEF On
    <3> QED BY <1>2, <1>3, <3>1
  <2>2. ASSUME NEW x \in On(M) PROVE x \in On(M2)
    <3>1. PICK g \in Lists : x \in M[g]
      BY DEF On
    <3>2. x \in M2[g]
      BY <1>2, <3>1
    <3> QED BY <3>2 DEF On
  <2>3. p \in On(M2)
    BY <1>2 DEF On
  <2> QED BY <2>1, <2>2, <2>3
<1> QED BY <1>7, <1>8 DEF M2

\* A node takes the place of another.
Replaced(nx, pv, nx2, pv2, M, p, e) ==
    /\ nx2[e] = nx[p] /\ pv2[e] = pv[p]
    /\ \A x \in (On(M) \ {p}) \cup Lists : nx2[x] = IF x = pv[p] THEN e ELSE nx[x]
    /\ \A x \in On(M) \ {p} : pv2[x] = IF x = nx[p] THEN e ELSE pv[x]

\* The list has the one for the other then.
LEMMA AllReplace ==
    ASSUME NEW nx, NEW pv, NEW M, AllLists(nx, pv, M), NEW h \in Lists, NEW p \in M[h],
           NEW e \in Page \ On(M), NEW nx2, NEW pv2,
           Replaced(nx, pv, nx2, pv2, M, p, e)
    PROVE  /\ AllLists(nx2, pv2, Swap(M, h, p, e))
           /\ On(Swap(M, h, p, e)) = (On(M) \ {p}) \cup {e}
<1> DEFINE M2 == Swap(M, h, p, e)
<1>1. M \in [Lists -> SUBSET Page] /\ \A f, g \in Lists : f # g => M[f] \cap M[g] = {}
  BY DEF AllLists
<1>2. M2 \in [Lists -> SUBSET Page] /\ M2[h] = (M[h] \ {p}) \cup {e}
      /\ \A g \in Lists : g # h => M2[g] = M[g]
  BY <1>1 DEF Swap
<1> HIDE DEF M2
<1>3. \A g \in Lists : M[g] \subseteq On(M) /\ e \notin M[g]
  BY DEF On
<1>3a. \A f, g \in Lists : f # g => M2[f] \cap M2[g] = {}
  BY <1>1, <1>2, <1>3
<1>4. nx[p] \in M[h] \cup {h} /\ pv[p] \in M[h] \cup {h}
  BY MemberLinks
<1>5. ListOf(nx2, pv2, h, M2[h])
  <2>1. M[h] \in SUBSET Page /\ ListOf(nx, pv, h, M[h]) /\ e \in Page \ M[h]
    BY <1>1, <1>3 DEF AllLists
  <2>2. \A x \in (M[h] \ {p}) \cup {h} : nx2[x] = IF x = pv[p] THEN e ELSE nx[x]
    BY <1>3 DEF Replaced
  <2>3. \A x \in M[h] \ {p} : pv2[x] = IF x = nx[p] THEN e ELSE pv[x]
    BY <1>3 DEF Replaced
  <2>4. ListOf(nx2, pv2, h, (M[h] \ {p}) \cup {e})
    <3>1. nx2[e] = nx[p] /\ pv2[e] = pv[p]
      BY DEF Replaced
    <3> QED BY <2>1, <2>2, <2>3, <3>1, ChainReplace
  <2> QED BY <1>2, <2>4
<1>6. ASSUME NEW g \in Lists, g # h PROVE ListOf(nx2, pv2, g, M2[g])
  <2>1. M[g] \in SUBSET Page /\ ListOf(nx, pv, g, M[g]) /\ M[g] \cap M[h] = {}
    BY <1>1, <1>6 DEF AllLists
  <2>2. g \notin M[h] /\ h \notin M[g] /\ M[g] \subseteq On(M) \ {p}
    BY <1>1, <1>3, <2>1, NodeFacts
  <2>3. \A x \in M[g] \cup {g} : x # pv[p] /\ x # nx[p]
    BY <1>4, <1>6, <2>1, <2>2
  <2>4. \A x \in M[g] \cup {g} : nx2[x] = nx[x]
    BY <2>2, <2>3 DEF Replaced
  <2>5. \A x \in M[g] : pv2[x] = pv[x]
    BY <2>2, <2>3 DEF Replaced
  <2>6. ListOf(nx2, pv2, g, M[g])
    BY <2>1, <2>4, <2>5, ChainFrame
  <2> QED BY <1>2, <1>6, <2>6
<1>7. AllLists(nx2, pv2, M2)
  <2>1. \A g \in Lists : ListOf(nx2, pv2, g, M2[g])
    BY <1>5, <1>6
  <2> QED BY <1>2, <1>3a, <2>1 DEF AllLists
<1>8. On(M2) = (On(M) \ {p}) \cup {e}
  <2>1. ASSUME NEW x \in On(M2) PROVE x \in (On(M) \ {p}) \cup {e}
    <3>1. PICK g \in Lists : x \in M2[g]
      BY DEF On
    <3>2. g # h => p \notin M[g]
      BY <1>1
    <3> QED BY <1>2, <1>3, <3>1, <3>2
  <2>2. ASSUME NEW x \in On(M) \ {p} PROVE x \in On(M2)
    <3>1. PICK g \in Lists : x \in M[g]
      BY DEF On
    <3>2. x \in M2[g]
      BY <1>2, <3>1
    <3> QED BY <3>2 DEF On
  <2>3. e \in On(M2)
    BY <1>2 DEF On
  <2> QED BY <2>1, <2>2, <2>3
<1> QED BY <1>7, <1>8 DEF M2

-----------------------------------------------------------------------------
(* The pages.                                                              *)

\* The first pages of the free runs, of all runs, and the pages behind a first one.
Free(m) == {p \in Page : m.mark[p] = "free" /\ m.count[p] > 0}
First(m) == Free(m) \cup {p \in Page : m.mark[p] \in {"start", "chunks"}}
Inner(m, p) == p + 1 .. p + m.count[p] - 1

\* The pages fall into runs: free ones, blocks of whole pages, and single
\* pages that hold chunks.
Regions(m) ==
    /\ \A p \in First(m) :
          /\ m.count[p] \in 1 .. Pages - p
          /\ m.mark[p] = "chunks" => m.count[p] = 1
          /\ \A q \in Inner(m, p) :
                /\ m.mark[q] = IF m.mark[p] = "free" THEN "free" ELSE "busy"
                /\ m.count[q] = IF m.mark[p] = "free" THEN 0 ELSE Pages
    /\ \A q \in Page : \E p \in First(m) : p <= q /\ q < p + m.count[p]

\* The fields of the state of a pool.
LEMMA RecordFields ==
    ASSUME NEW m \in SlabRecord
    PROVE  /\ m.next \in [Node -> Node \cup {Null}] /\ m.prev \in [Node -> Node \cup {Null}]
           /\ m.type \in [Page -> Slot \cup {Null}] /\ m.mark \in [Page -> Marks]
           /\ m.count \in [Page -> Nat] /\ m.used \in [Page -> SUBSET Nat]
           /\ m.mFreePageCount \in Int /\ m.mTotal \in [Slot -> Int]
           /\ m.mUsed \in [Slot -> Int]
  BY DEF SlabRecord

\* Two runs share no page, and where one ends another begins.
LEMMA RegionFacts ==
    ASSUME NEW m \in SlabRecord, Regions(m)
    PROVE  /\ \A p \in First(m) : /\ p \in Page /\ m.count[p] \in Nat
                                  /\ m.count[p] > 0 /\ p + m.count[p] <= Pages
           /\ \A p \in First(m), q \in Page :
                 p < q /\ q < p + m.count[p] =>
                     /\ q \notin First(m)
                     /\ m.mark[q] = IF m.mark[p] = "free" THEN "free" ELSE "busy"
                     /\ m.count[q] = IF m.mark[p] = "free" THEN 0 ELSE Pages
           /\ \A p, r \in First(m) : p # r => p + m.count[p] <= r \/ r + m.count[r] <= p
           /\ \A p \in First(m) : p + m.count[p] < Pages => p + m.count[p] \in First(m)
           /\ \A p \in First(m) : p > 0 => \E r \in First(m) : r + m.count[r] = p
<1>1. Pages \in Nat /\ m.mark \in [Page -> Marks] /\ m.count \in [Page -> Nat]
  BY SlabConstants, RecordFields
<1>2. \A q \in Page : q \in Nat /\ q < Pages
  BY SlabConstants DEF Page
<1>2a. \A q \in Nat : q < Pages => q \in Page
  BY SlabConstants DEF Page
<1>3. \A p \in First(m) : p \in Page /\ p \in Nat /\ m.count[p] \in Nat
                          /\ m.count[p] > 0 /\ p + m.count[p] <= Pages
  BY <1>1, <1>2 DEF Regions, First, Free
<1>4. \A p \in First(m), q \in Page :
         p < q /\ q < p + m.count[p] =>
             /\ q \notin First(m)
             /\ m.mark[q] = IF m.mark[p] = "free" THEN "free" ELSE "busy"
             /\ m.count[q] = IF m.mark[p] = "free" THEN 0 ELSE Pages
  <2>1. TAKE p \in First(m), q \in Page
  <2>2. HAVE p < q /\ q < p + m.count[p]
  <2>3. q \in Inner(m, p)
    BY <1>2, <1>3, <2>2 DEF Inner
  <2>4. /\ m.mark[q] = IF m.mark[p] = "free" THEN "free" ELSE "busy"
        /\ m.count[q] = IF m.mark[p] = "free" THEN 0 ELSE Pages
    BY <2>3 DEF Regions
  <2> QED BY <2>4 DEF First, Free
<1>5. \A p, r \in First(m) : p # r => p + m.count[p] <= r \/ r + m.count[r] <= p
  <2>1. TAKE p, r \in First(m)
  <2>2. p \in Nat /\ r \in Nat /\ m.count[p] \in Nat /\ m.count[r] \in Nat
    BY <1>3
  <2>3. ~(p < r /\ r < p + m.count[p]) /\ ~(r < p /\ p < r + m.count[r])
    BY <1>3, <1>4
  <2> QED BY <2>2, <2>3
<1>6. ASSUME NEW p \in First(m), p + m.count[p] < Pages
      PROVE  p + m.count[p] \in First(m)
  <2>1. PICK e \in Nat : e = p + m.count[p]
    BY <1>3
  <2>2. e \in Page
    BY <1>2a, <1>6, <2>1
  <2>3. PICK r \in First(m) : r <= e /\ e < r + m.count[r]
    BY <2>2 DEF Regions
  <2>4. r # p
    BY <1>3, <2>1, <2>3
  <2>5. r + m.count[r] <= p \/ p + m.count[p] <= r
    BY <1>5, <2>4
  <2>6. PICK c \in Nat, d \in Nat : c = m.count[p] /\ d = m.count[r] /\ c > 0
    BY <1>3
  <2>7. r = e
    BY <1>3, <2>1, <2>3, <2>5, <2>6
  <2> QED BY <2>1, <2>7
<1>7. ASSUME NEW p \in First(m), p > 0
      PROVE  \E r \in First(m) : r + m.count[r] = p
  <2>1. p \in Nat /\ p - 1 \in Page
    <3>1. p \in Nat /\ p \in Page
      BY <1>3
    <3>2. p - 1 \in Nat /\ p - 1 < Pages
      BY <1>1, <1>2, <1>7, <3>1
    <3> QED BY <1>2a, <3>1, <3>2
  <2>2. PICK r \in First(m) : r <= p - 1 /\ p - 1 < r + m.count[r]
    BY <2>1 DEF Regions
  <2>3. ~(r < p /\ p < r + m.count[r])
    BY <1>3, <1>4
  <2>4. r \in Nat /\ m.count[r] \in Nat
    BY <1>3
  <2>5. r + m.count[r] = p
    BY <2>1, <2>2, <2>3, <2>4
  <2> QED BY <2>5
<1> QED BY <1>3, <1>4, <1>5, <1>6, <1>7

\* Two free runs that touch become one.
LEMMA RegionsMerge ==
    ASSUME NEW m \in SlabRecord, NEW m2 \in SlabRecord, Regions(m),
           NEW a \in Free(m), NEW e \in Free(m), a + m.count[a] = e,
           m2.mark = m.mark,
           \A q \in Page : m2.count[q] = IF q = a THEN m.count[a] + m.count[e]
                                         ELSE IF q = e THEN 0 ELSE m.count[q]
    PROVE  Regions(m2) /\ Free(m2) = Free(m) \ {e} /\ First(m2) = First(m) \ {e}
<1>1. /\ \A p \in First(m) : /\ p \in Page /\ m.count[p] \in Nat
                             /\ m.count[p] > 0 /\ p + m.count[p] <= Pages
      /\ \A p \in First(m), q \in Page :
            p < q /\ q < p + m.count[p] =>
                /\ q \notin First(m)
                /\ m.mark[q] = IF m.mark[p] = "free" THEN "free" ELSE "busy"
                /\ m.count[q] = IF m.mark[p] = "free" THEN 0 ELSE Pages
  BY RegionFacts
<1>2. /\ Pages \in Nat /\ (\A q \in Page : q \in Nat /\ q < Pages)
      /\ \A q \in Nat : q < Pages => q \in Page
  BY SlabConstants DEF Page
<1>3. /\ a \in First(m) /\ e \in First(m) /\ a \in Page /\ e \in Page
      /\ m.mark[a] = "free" /\ m.mark[e] = "free"
  BY DEF First, Free
<1>4. PICK c \in Nat, d \in Nat : c = m.count[a] /\ d = m.count[e]
  BY <1>1, <1>3
<1>5. /\ c > 0 /\ d > 0 /\ a \in Nat /\ e \in Nat /\ e = a + c /\ e + d <= Pages /\ a # e
  BY <1>1, <1>2, <1>3, <1>4
<1>6. m2.count[a] = c + d /\ m2.count[e] = 0
      /\ \A q \in Page : q # a /\ q # e => m2.count[q] = m.count[q]
  BY <1>3, <1>4, <1>5
<1>7. Free(m2) = Free(m) \ {e}
  <2>1. c + d > 0 /\ ~(m2.count[e] > 0) /\ m.count[a] > 0
    BY <1>4, <1>5, <1>6
  <2>2. \A q \in Page : q \in Free(m2) <=> q \in Free(m) /\ q # e
    BY <1>3, <1>6, <2>1 DEF Free
  <2>3. Free(m2) \subseteq Page /\ Free(m) \subseteq Page
    BY DEF Free
  <2> QED BY <2>2, <2>3
<1>8. First(m2) = First(m) \ {e}
  <2>1. First(m2) = Free(m2) \cup {p \in Page : m.mark[p] \in {"start", "chunks"}}
    BY DEF First
  <2>2. ~(m.mark[e] \in {"start", "chunks"})
    BY <1>3
  <2> QED BY <1>7, <2>1, <2>2 DEF First
<1>9. ASSUME NEW p \in First(m2)
      PROVE  /\ m2.count[p] \in 1 .. Pages - p
             /\ m2.mark[p] = "chunks" => m2.count[p] = 1
             /\ \A q \in Inner(m2, p) :
                   /\ m2.mark[q] = IF m2.mark[p] = "free" THEN "free" ELSE "busy"
                   /\ m2.count[q] = IF m2.mark[p] = "free" THEN 0 ELSE Pages
  <2>0. p \in First(m) /\ p # e /\ p \in Page /\ p \in Nat
    BY <1>1, <1>2, <1>8
  <2>1. CASE p = a
    <3>1. m2.count[p] \in 1 .. Pages - p /\ m2.mark[p] = "free"
      BY <1>2, <1>3, <1>5, <1>6, <2>1
    <3>2. ASSUME NEW q \in Inner(m2, p)
          PROVE  m2.mark[q] = "free" /\ m2.count[q] = 0
      <4>1. q \in Nat /\ a < q /\ q < a + c + d /\ q \in Page
        BY <1>2, <1>5, <1>6, <2>1 DEF Inner
      <4>2. q # a
        BY <1>5, <4>1
      <4>3. CASE q < a + c
        <5>1. m.mark[q] = "free" /\ m.count[q] = 0
          BY <1>1, <1>3, <1>4, <4>1, <4>3
        <5>2. q # e
          BY <1>5, <4>1, <4>3
        <5> QED BY <1>6, <4>1, <4>2, <5>1, <5>2
      <4>4. CASE q = e
        BY <1>3, <1>6, <4>4
      <4>5. CASE q > e
        <5>1. q < e + m.count[e]
          BY <1>4, <1>5, <4>1
        <5>2. m.mark[q] = "free" /\ m.count[q] = 0
          BY <1>1, <1>3, <4>1, <4>5, <5>1
        <5>3. q # e
          BY <1>5, <4>1, <4>5
        <5> QED BY <1>6, <4>1, <4>2, <5>2, <5>3
      <4> QED BY <1>5, <4>1, <4>3, <4>4, <4>5
    <3> QED BY <3>1, <3>2
  <2>2. CASE p # a
    <3>1. m2.count[p] = m.count[p]
      BY <1>6, <2>0, <2>2
    <3>2. /\ m.count[p] \in 1 .. Pages - p
          /\ m.mark[p] = "chunks" => m.count[p] = 1
      BY <2>0 DEF Regions
    <3>3. ASSUME NEW q \in Inner(m2, p)
          PROVE  /\ m2.mark[q] = IF m2.mark[p] = "free" THEN "free" ELSE "busy"
                 /\ m2.count[q] = IF m2.mark[p] = "free" THEN 0 ELSE Pages
      <4>1. q \in Inner(m, p)
        BY <3>1 DEF Inner
      <4>2. p < q /\ q < p + m.count[p] /\ q \in Page
        BY <1>2, <2>0, <3>2, <4>1 DEF Inner
      <4>3. q \notin First(m)
        BY <1>1, <2>0, <4>2
      <4>4. m2.count[q] = m.count[q]
        BY <1>3, <1>6, <4>2, <4>3
      <4> QED BY <2>0, <4>1, <4>4 DEF Regions
    <3> QED BY <3>1, <3>2, <3>3
  <2> QED BY <2>1, <2>2
<1>10. ASSUME NEW q \in Page
       PROVE  \E p \in First(m2) : p <= q /\ q < p + m2.count[p]
  <2>1. PICK p \in First(m) : p <= q /\ q < p + m.count[p]
    BY DEF Regions
  <2>2. CASE p = a \/ p = e
    <3>1. a \in First(m2)
      BY <1>3, <1>5, <1>8
    <3>2. a <= q /\ q < a + m2.count[a]
      <4>1. CASE p = a
        BY <1>2, <1>4, <1>5, <1>6, <2>1, <4>1
      <4>2. CASE p = e
        BY <1>2, <1>4, <1>5, <1>6, <2>1, <4>2
      <4> QED BY <2>2, <4>1, <4>2
    <3> QED BY <3>1, <3>2
  <2>3. CASE p # a /\ p # e
    <3>1. p \in First(m2) /\ m2.count[p] = m.count[p]
      BY <1>1, <1>6, <1>8, <2>3
    <3> QED BY <2>1, <3>1
  <2> QED BY <2>2, <2>3
<1> QED BY <1>7, <1>8, <1>9, <1>10 DEF Regions

\* The first n pages of a free run become a block; the rest stays free.
LEMMA RegionsTake ==
    ASSUME NEW m \in SlabRecord, NEW m2 \in SlabRecord, Regions(m),
           NEW p \in Free(m), NEW n \in Nat, n > 0, n <= m.count[p],
           \A q \in Page : m2.mark[q] = IF q = p THEN "start"
                                        ELSE IF q \in p .. p + n - 1 THEN "busy" ELSE m.mark[q],
           \A q \in Page : m2.count[q] = IF q = p THEN n
                                         ELSE IF q \in p .. p + n - 1 THEN Pages
                                         ELSE IF q = p + n /\ n < m.count[p] THEN m.count[p] - n
                                         ELSE m.count[q]
    PROVE  /\ Regions(m2)
           /\ Free(m2) = IF n < m.count[p] THEN (Free(m) \ {p}) \cup {p + n} ELSE Free(m) \ {p}
           /\ First(m2) = IF n < m.count[p] THEN First(m) \cup {p + n} ELSE First(m)
<1>1. /\ \A r \in First(m) : /\ r \in Page /\ m.count[r] \in Nat
                             /\ m.count[r] > 0 /\ r + m.count[r] <= Pages
      /\ \A r \in First(m), q \in Page :
            r < q /\ q < r + m.count[r] =>
                /\ q \notin First(m)
                /\ m.mark[q] = IF m.mark[r] = "free" THEN "free" ELSE "busy"
                /\ m.count[q] = IF m.mark[r] = "free" THEN 0 ELSE Pages
      /\ \A r, s \in First(m) : r # s => r + m.count[r] <= s \/ s + m.count[s] <= r
  BY RegionFacts
<1>2. /\ Pages \in Nat /\ (\A q \in Page : q \in Nat /\ q < Pages)
      /\ \A q \in Nat : q < Pages => q \in Page
  BY SlabConstants DEF Page
<1>3. p \in First(m) /\ p \in Page /\ m.mark[p] = "free"
  BY DEF First, Free
<1>4. PICK c \in Nat : c = m.count[p]
  BY <1>1, <1>3
<1>5. p \in Nat /\ c > 0 /\ p + c <= Pages /\ n <= c
  BY <1>1, <1>2, <1>3, <1>4
<1>6. ASSUME NEW q \in Page
      PROVE  /\ q = p => m2.mark[q] = "start" /\ m2.count[q] = n
             /\ p < q /\ q < p + n => m2.mark[q] = "busy" /\ m2.count[q] = Pages
             /\ q = p + n /\ n < c => m2.mark[q] = "free" /\ m2.count[q] = c - n
             /\ p + n < q /\ q < p + c => m2.mark[q] = "free" /\ m2.count[q] = 0
             /\ q < p \/ p + c <= q => m2.mark[q] = m.mark[q] /\ m2.count[q] = m.count[q]
  <2>1. q \in Nat
    BY <1>2
  <2>2. p < q /\ q < p + c => m.mark[q] = "free" /\ m.count[q] = 0
    BY <1>1, <1>3, <1>4
  <2>3. q \in p .. p + n - 1 <=> p <= q /\ q < p + n
    BY <1>5, <2>1
  <2> QED BY <1>4, <1>5, <2>1, <2>2, <2>3
<1>7. \A q \in Page : q = p \/ (p < q /\ q < p + n) \/ (q = p + n /\ n < c)
                      \/ (p + n < q /\ q < p + c) \/ q < p \/ p + c <= q
  BY <1>2, <1>5
<1>8. ASSUME NEW q \in Page
      PROVE  /\ q \in Free(m2) <=> \/ q \in Free(m) /\ q # p
                                   \/ q = p + n /\ n < c
             /\ q \in First(m2) <=> q \in First(m) \/ (q = p + n /\ n < c)
  <2>0. q \in Nat
    BY <1>2
  <2>1. CASE q = p
    <3>1. m2.mark[q] = "start" /\ q # p + n
      BY <1>5, <1>6, <2>0, <2>1
    <3> QED BY <1>3, <2>1, <3>1 DEF Free, First
  <2>2. CASE p < q /\ q < p + n
    <3>1. m2.mark[q] = "busy" /\ q # p + n
      BY <1>5, <1>6, <2>0, <2>2
    <3>2. q \notin First(m) /\ q \notin Free(m)
      BY <1>1, <1>3, <1>4, <1>5, <2>0, <2>2 DEF First
    <3> QED BY <3>1, <3>2 DEF Free, First
  <2>3. CASE q = p + n /\ n < c
    <3>1. m2.mark[q] = "free" /\ m2.count[q] = c - n /\ c - n > 0
      BY <1>5, <1>6, <2>3
    <3> QED BY <2>3, <3>1 DEF Free, First
  <2>4. CASE p + n < q /\ q < p + c
    <3>1. m2.mark[q] = "free" /\ m2.count[q] = 0 /\ q # p + n
      BY <1>5, <1>6, <2>0, <2>4
    <3>2. q \notin First(m) /\ q \notin Free(m)
      BY <1>1, <1>3, <1>4, <1>5, <2>0, <2>4 DEF First
    <3> QED BY <3>1, <3>2 DEF Free, First
  <2>5. CASE q < p \/ p + c <= q
    <3>1. m2.mark[q] = m.mark[q] /\ m2.count[q] = m.count[q] /\ q # p /\ ~(q = p + n /\ n < c)
      BY <1>5, <1>6, <2>0, <2>5
    <3> QED BY <3>1 DEF Free, First
  <2> QED BY <1>7, <2>1, <2>2, <2>3, <2>4, <2>5
<1>9. /\ Free(m2) = IF n < c THEN (Free(m) \ {p}) \cup {p + n} ELSE Free(m) \ {p}
      /\ First(m2) = IF n < c THEN First(m) \cup {p + n} ELSE First(m)
  <2>1. n < c => p + n \in Page
    BY <1>2, <1>5
  <2>2. First(m) \subseteq Page /\ First(m2) \subseteq Page
        /\ Free(m) \subseteq Page /\ Free(m2) \subseteq Page
    BY DEF First, Free
  <2>3. p + n # p
    BY <1>5
  <2> QED BY <1>8, <2>1, <2>2, <2>3
<1>10. ASSUME NEW r \in First(m2)
      PROVE  /\ m2.count[r] \in 1 .. Pages - r
             /\ m2.mark[r] = "chunks" => m2.count[r] = 1
             /\ \A q \in Inner(m2, r) :
                   /\ m2.mark[q] = IF m2.mark[r] = "free" THEN "free" ELSE "busy"
                   /\ m2.count[q] = IF m2.mark[r] = "free" THEN 0 ELSE Pages
  <2>0. r \in Page /\ r \in Nat
    BY <1>2 DEF First, Free
  <2>1. CASE r = p
    <3>1. m2.mark[r] = "start" /\ m2.count[r] = n
      BY <1>3, <1>6, <2>1
    <3>2. ASSUME NEW q \in Inner(m2, r) PROVE m2.mark[q] = "busy" /\ m2.count[q] = Pages
      <4>1. q \in Nat /\ p < q /\ q < p + n
        BY <1>5, <2>1, <3>1 DEF Inner
      <4>2. q \in Page
        BY <1>2, <1>5, <4>1
      <4> QED BY <1>6, <4>1, <4>2
    <3> QED BY <1>2, <1>5, <2>1, <3>1, <3>2
  <2>2. CASE r = p + n /\ n < c
    <3>1. m2.mark[r] = "free" /\ m2.count[r] = c - n
      BY <1>6, <2>0, <2>2
    <3>2. ASSUME NEW q \in Inner(m2, r) PROVE m2.mark[q] = "free" /\ m2.count[q] = 0
      <4>1. q \in Nat /\ p + n < q /\ q < p + c
        BY <1>5, <2>2, <3>1 DEF Inner
      <4>2. q \in Page
        BY <1>2, <1>5, <4>1
      <4> QED BY <1>6, <4>1, <4>2
    <3> QED BY <1>2, <1>5, <2>2, <3>1, <3>2
  <2>3. CASE r # p /\ ~(r = p + n /\ n < c)
    <3>0. r \in First(m)
      BY <1>8, <2>0, <2>3
    <3>1. PICK d \in Nat : d = m.count[r]
      BY <1>1, <3>0
    <3>2. d > 0 /\ r + d <= Pages /\ (p + c <= r \/ r + d <= p)
      BY <1>1, <1>3, <1>4, <2>3, <3>0, <3>1
    <3>3. m2.mark[r] = m.mark[r] /\ m2.count[r] = d
      BY <1>5, <1>6, <2>0, <3>1, <3>2
    <3>4. m.mark[r] = "chunks" => d = 1
      BY <3>0, <3>1 DEF Regions
    <3>5. ASSUME NEW q \in Inner(m2, r)
          PROVE  /\ m2.mark[q] = IF m2.mark[r] = "free" THEN "free" ELSE "busy"
                 /\ m2.count[q] = IF m2.mark[r] = "free" THEN 0 ELSE Pages
      <4>1. q \in Nat /\ r < q /\ q < r + d
        BY <2>0, <3>3 DEF Inner
      <4>2. q \in Page /\ (q < p \/ p + c <= q)
        BY <1>2, <1>5, <2>0, <3>2, <4>1
      <4>3. m2.mark[q] = m.mark[q] /\ m2.count[q] = m.count[q]
        BY <1>6, <4>2
      <4>4. /\ m.mark[q] = IF m.mark[r] = "free" THEN "free" ELSE "busy"
            /\ m.count[q] = IF m.mark[r] = "free" THEN 0 ELSE Pages
        BY <1>1, <3>0, <3>1, <4>1, <4>2
      <4> QED BY <3>3, <4>3, <4>4
    <3>6. d \in 1 .. Pages - r
      BY <1>2, <2>0, <3>2
    <3> QED BY <3>3, <3>4, <3>5, <3>6
  <2> QED BY <2>1, <2>2, <2>3
<1>11. ASSUME NEW q \in Page
       PROVE  \E r \in First(m2) : r <= q /\ q < r + m2.count[r]
  <2>0. q \in Nat
    BY <1>2
  <2>1. CASE p <= q /\ q < p + n
    <3>1. p \in First(m2) /\ m2.count[p] = n
      BY <1>3, <1>6, <1>8
    <3> QED BY <2>1, <3>1
  <2>2. CASE p + n <= q /\ q < p + c
    <3>1. n < c
      BY <1>5, <2>0, <2>2
    <3>2. p + n \in Page
      BY <1>2, <1>5, <3>1
    <3>3. p + n \in First(m2) /\ m2.count[p + n] = c - n
      BY <1>6, <1>8, <3>1, <3>2
    <3>4. q < (p + n) + (c - n)
      BY <1>5, <2>0, <2>2
    <3> QED BY <2>2, <3>3, <3>4
  <2>3. CASE q < p \/ p + c <= q
    <3>1. PICK r \in First(m) : r <= q /\ q < r + m.count[r]
      BY DEF Regions
    <3>2. PICK d \in Nat : d = m.count[r]
      BY <1>1, <3>1
    <3>3. r # p /\ r \in Page /\ r \in Nat
      <4>1. r \in Page /\ r \in Nat
        BY <1>1, <1>2, <3>1
      <4>2. r = p => q < p + c
        BY <1>4, <3>1
      <4> QED BY <1>5, <2>0, <2>3, <3>1, <4>1, <4>2
    <3>4. p + c <= r \/ r + d <= p
      BY <1>1, <1>3, <1>4, <3>2, <3>3
    <3>5. d > 0
      BY <1>1, <3>1, <3>2
    <3>6. r < p \/ p + c <= r
      BY <1>5, <3>3, <3>4, <3>5
    <3>7. m2.count[r] = d /\ r \in First(m2)
      BY <1>6, <1>8, <3>1, <3>2, <3>3, <3>6
    <3> QED BY <3>1, <3>2, <3>7
  <2> QED BY <1>5, <2>0, <2>1, <2>2, <2>3
<1> QED BY <1>4, <1>9, <1>10, <1>11 DEF Regions

\* Marks and counts are all that decides where the runs are.
LEMMA RegionsSame ==
    ASSUME NEW m \in SlabRecord, NEW m2 \in SlabRecord, Regions(m),
           m2.mark = m.mark, m2.count = m.count
    PROVE  Regions(m2) /\ Free(m2) = Free(m) /\ First(m2) = First(m)
<1>1. Free(m2) = Free(m)
  BY DEF Free
<1>2. First(m2) = First(m)
  BY <1>1 DEF First
<1>3. \A p : Inner(m2, p) = Inner(m, p)
  BY DEF Inner
<1> QED BY <1>1, <1>2, <1>3 DEF Regions

\* A block of one page is made a page of chunks.
LEMMA RegionsChunks ==
    ASSUME NEW m \in SlabRecord, NEW m2 \in SlabRecord, Regions(m),
           NEW p \in Page, m.mark[p] = "start", m.count[p] = 1,
           \A q \in Page : m2.mark[q] = IF q = p THEN "chunks" ELSE m.mark[q],
           m2.count = m.count
    PROVE  Regions(m2) /\ Free(m2) = Free(m) /\ First(m2) = First(m)
<1>1. Free(m2) = Free(m)
  BY DEF Free
<1>2. First(m2) = First(m)
  BY <1>1 DEF First
<1>3. /\ \A r \in First(m) : r \in Page /\ m.count[r] \in 1 .. Pages - r
      /\ \A q \in Page : \E r \in First(m) : r <= q /\ q < r + m.count[r]
  BY DEF Regions, First, Free
<1>4. ASSUME NEW r \in First(m)
      PROVE  /\ m2.mark[r] = "chunks" => m2.count[r] = 1
             /\ \A q \in Inner(m2, r) :
                   /\ m2.mark[q] = IF m2.mark[r] = "free" THEN "free" ELSE "busy"
                   /\ m2.count[q] = IF m2.mark[r] = "free" THEN 0 ELSE Pages
  <2>1. r \in Page /\ m2.count[r] = m.count[r] /\ m.count[r] \in 1 .. Pages - r
    BY <1>3
  <2>2. m2.mark[r] = "chunks" => m2.count[r] = 1
    BY <2>1 DEF Regions
  <2>3. m2.mark[r] = "free" <=> m.mark[r] = "free"
    BY <2>1
  <2>4. ASSUME NEW q \in Inner(m2, r)
        PROVE  /\ m2.mark[q] = IF m2.mark[r] = "free" THEN "free" ELSE "busy"
               /\ m2.count[q] = IF m2.mark[r] = "free" THEN 0 ELSE Pages
    <3>1. q \in Inner(m, r)
      BY DEF Inner
    <3>2. /\ m.mark[q] = IF m.mark[r] = "free" THEN "free" ELSE "busy"
          /\ m.count[q] = IF m.mark[r] = "free" THEN 0 ELSE Pages
      BY <3>1 DEF Regions
    <3>3. q \in Page
      BY <2>1, <3>1, SlabConstants DEF Page, Inner
    <3>4. q # p
      BY <3>2
    <3> QED BY <2>3, <3>2, <3>3, <3>4
  <2> QED BY <2>2, <2>4
<1> QED BY <1>1, <1>2, <1>3, <1>4 DEF Regions

\* The pages of a block are marked free.
LEMMA RegionsRelease ==
    ASSUME NEW m \in SlabRecord, NEW m2 \in SlabRecord, Regions(m),
           NEW p \in First(m), p \notin Free(m), NEW n, n = m.count[p],
           \A q \in Page : m2.mark[q] = IF q \in p .. p + n - 1 THEN "free" ELSE m.mark[q],
           \A q \in Page : m2.count[q] = IF q = p THEN n
                                         ELSE IF q \in p + 1 .. p + n - 1 THEN 0 ELSE m.count[q]
    PROVE  Regions(m2) /\ Free(m2) = Free(m) \cup {p} /\ First(m2) = First(m)
<1>1. /\ \A r \in First(m) : /\ r \in Page /\ m.count[r] \in Nat
                             /\ m.count[r] > 0 /\ r + m.count[r] <= Pages
      /\ \A r \in First(m), q \in Page :
            r < q /\ q < r + m.count[r] =>
                /\ q \notin First(m)
                /\ m.mark[q] = IF m.mark[r] = "free" THEN "free" ELSE "busy"
                /\ m.count[q] = IF m.mark[r] = "free" THEN 0 ELSE Pages
      /\ \A r, s \in First(m) : r # s => r + m.count[r] <= s \/ s + m.count[s] <= r
  BY RegionFacts
<1>2. /\ Pages \in Nat /\ (\A q \in Page : q \in Nat /\ q < Pages)
      /\ \A q \in Nat : q < Pages => q \in Page
  BY SlabConstants DEF Page
<1>3. p \in Page /\ p \in Nat /\ n \in Nat /\ n > 0 /\ p + n <= Pages
  BY <1>1, <1>2
<1>4. ASSUME NEW q \in Page
      PROVE  /\ q = p => m2.mark[q] = "free" /\ m2.count[q] = n
             /\ p < q /\ q < p + n => m2.mark[q] = "free" /\ m2.count[q] = 0
             /\ q < p \/ p + n <= q => m2.mark[q] = m.mark[q] /\ m2.count[q] = m.count[q]
  <2>1. q \in Nat
    BY <1>2
  <2>2. /\ q \in p .. p + n - 1 <=> p <= q /\ q < p + n
        /\ q \in p + 1 .. p + n - 1 <=> p < q /\ q < p + n
    BY <1>3, <2>1
  <2> QED BY <1>3, <2>1, <2>2
<1>5. \A q \in Page : q \in Nat /\ (q = p \/ (p < q /\ q < p + n) \/ q < p \/ p + n <= q)
  BY <1>2, <1>3
<1>6. ASSUME NEW q \in Page
      PROVE  /\ q \in Free(m2) <=> q \in Free(m) \/ q = p
             /\ q \in First(m2) <=> q \in First(m)
  <2>1. CASE q = p
    <3>1. m2.mark[q] = "free" /\ m2.count[q] > 0
      BY <1>3, <1>4, <2>1
    <3> QED BY <2>1, <3>1 DEF Free, First
  <2>2. CASE p < q /\ q < p + n
    <3>1. m2.mark[q] = "free" /\ ~(m2.count[q] > 0) /\ q # p
      BY <1>3, <1>4, <1>5, <2>2
    <3>2. q \notin First(m) /\ q \notin Free(m)
      BY <1>1, <2>2 DEF First
    <3> QED BY <3>1, <3>2 DEF Free, First
  <2>3. CASE q < p \/ p + n <= q
    <3>1. m2.mark[q] = m.mark[q] /\ m2.count[q] = m.count[q] /\ q # p
      BY <1>3, <1>4, <1>5, <2>3
    <3> QED BY <3>1 DEF Free, First
  <2> QED BY <1>5, <2>1, <2>2, <2>3
<1>7. Free(m2) = Free(m) \cup {p} /\ First(m2) = First(m)
  <2>1. First(m) \subseteq Page /\ First(m2) \subseteq Page
        /\ Free(m) \subseteq Page /\ Free(m2) \subseteq Page
    BY DEF First, Free
  <2> QED BY <1>3, <1>6, <2>1
<1>8. ASSUME NEW r \in First(m2)
      PROVE  /\ m2.count[r] = m.count[r]
             /\ m2.count[r] \in 1 .. Pages - r
             /\ m2.mark[r] = "chunks" => m2.count[r] = 1
             /\ \A q \in Inner(m2, r) :
                   /\ m2.mark[q] = IF m2.mark[r] = "free" THEN "free" ELSE "busy"
                   /\ m2.count[q] = IF m2.mark[r] = "free" THEN 0 ELSE Pages
  <2>0. r \in First(m) /\ r \in Page /\ r \in Nat
    BY <1>1, <1>2, <1>7
  <2>1. CASE r = p
    <3>1. m2.mark[r] = "free" /\ m2.count[r] = n
      BY <1>3, <1>4, <2>1
    <3>2. ASSUME NEW q \in Inner(m2, r) PROVE m2.mark[q] = "free" /\ m2.count[q] = 0
      <4>1. q \in Nat /\ p < q /\ q < p + n
        BY <1>3, <2>1, <3>1 DEF Inner
      <4>2. q \in Page
        BY <1>2, <1>3, <4>1
      <4> QED BY <1>4, <4>1, <4>2
    <3> QED BY <1>2, <1>3, <2>1, <3>1, <3>2
  <2>2. CASE r # p
    <3>1. PICK d \in Nat : d = m.count[r]
      BY <1>1, <2>0
    <3>2. d > 0 /\ r + d <= Pages /\ (p + n <= r \/ r + d <= p)
      BY <1>1, <2>0, <2>2, <3>1
    <3>3. m2.mark[r] = m.mark[r] /\ m2.count[r] = d
      BY <1>3, <1>4, <2>0, <3>1, <3>2
    <3>4. m.mark[r] = "chunks" => d = 1
      BY <2>0, <3>1 DEF Regions
    <3>5. ASSUME NEW q \in Inner(m2, r)
          PROVE  /\ m2.mark[q] = IF m2.mark[r] = "free" THEN "free" ELSE "busy"
                 /\ m2.count[q] = IF m2.mark[r] = "free" THEN 0 ELSE Pages
      <4>1. q \in Nat /\ r < q /\ q < r + d
        BY <2>0, <3>3 DEF Inner
      <4>2. q \in Page /\ (q < p \/ p + n <= q)
        BY <1>2, <1>3, <2>0, <3>2, <4>1
      <4>3. m2.mark[q] = m.mark[q] /\ m2.count[q] = m.count[q]
        BY <1>4, <4>2
      <4>4. /\ m.mark[q] = IF m.mark[r] = "free" THEN "free" ELSE "busy"
            /\ m.count[q] = IF m.mark[r] = "free" THEN 0 ELSE Pages
        BY <1>1, <2>0, <3>1, <4>1, <4>2
      <4> QED BY <3>3, <4>3, <4>4
    <3>6. d \in 1 .. Pages - r
      BY <1>2, <2>0, <3>2
    <3> QED BY <3>1, <3>3, <3>4, <3>5, <3>6
  <2> QED BY <2>1, <2>2
<1>9. \A q \in Page : \E r \in First(m2) : r <= q /\ q < r + m2.count[r]
  <2>1. \A q \in Page : \E r \in First(m) : r <= q /\ q < r + m.count[r]
    BY DEF Regions
  <2>2. \A r \in First(m) : m2.count[r] = m.count[r]
    BY <1>7, <1>8
  <2> QED BY <1>7, <2>1, <2>2
<1> QED BY <1>7, <1>8, <1>9 DEF Regions

-----------------------------------------------------------------------------
(* The pages and their lists.                                              *)

\* A page of chunks has a size, and its bitmap is in use.
ChunkPages(m) ==
    \A p \in Page : m.mark[p] = "chunks" =>
        /\ m.type[p] \in Slot
        /\ 0 .. Bitmap[m.type[p]] - 1 \subseteq m.used[p]
        /\ m.used[p] \subseteq 0 .. Chunks[m.type[p]] - 1

\* freePages() works on a run that is free and in no list yet; L holds it.
Untyped(m, L) == \A p \in Page \ L : m.mark[p] # "chunks" => m.type[p] = Null

\* No two free runs touch.
Merged(m, L) == \A p, q \in Free(m) \ L : p + m.count[p] # q

\* The last page of a free run, if a page follows it, leads to its first.
Tagged(m, L) ==
    \A p \in Free(m) \ L :
        m.count[p] > 1 /\ p + m.count[p] < Pages => m.prev[p + m.count[p] - 1] = p

\* The pages of chunks that have room: those in the list of the slot s.
Roomy(m, s) ==
    {p \in Page : m.mark[p] = "chunks" /\ m.type[p] = s /\ m.used[p] # 0 .. Chunks[s] - 1}

Members(m, L) == [h \in Lists |-> IF h = FreePage THEN Free(m) \ L ELSE Roomy(m, h)]

\* A page with a link is in a list.
LinkedOn(m, L) == \A p \in Page \ L : m.next[p] # Null <=> p \in On(Members(m, L))

\* The pool is well-formed; L holds the run that is in no list yet, if there is one.
Struct(m, L) ==
    /\ m \in SlabRecord /\ Regions(m) /\ ChunkPages(m)
    /\ Untyped(m, L) /\ Merged(m, L) /\ Tagged(m, L) /\ LinkedOn(m, L)
    /\ AllLists(m.next, m.prev, Members(m, L))

\* The nodes of each list, and of all of them.
LEMMA MembersAre ==
    ASSUME NEW m, NEW L
    PROVE  /\ Members(m, L) \in [Lists -> SUBSET Page]
           /\ FreePage \in Lists /\ Members(m, L)[FreePage] = Free(m) \ L
           /\ \A s \in Slot : s \in Lists /\ s # FreePage /\ Members(m, L)[s] = Roomy(m, s)
           /\ On(Members(m, L)) =
                (Free(m) \ L) \cup
                {p \in Page : m.mark[p] = "chunks" /\ m.type[p] \in Slot
                              /\ m.used[p] # 0 .. Chunks[m.type[p]] - 1}
           /\ On(Members(m, L)) \subseteq First(m)
<1>1. FreePage \in Lists /\ \A s \in Slot : s \in Lists /\ s # FreePage
  BY SlabConstants DEF Lists
<1>2. /\ Members(m, L)[FreePage] = Free(m) \ L
      /\ \A s \in Slot : Members(m, L)[s] = Roomy(m, s)
  BY <1>1 DEF Members
<1>3. Members(m, L) \in [Lists -> SUBSET Page]
  BY DEF Members, Free, Roomy
<1>4. On(Members(m, L)) = (Free(m) \ L) \cup UNION {Roomy(m, s) : s \in Slot}
  <2>1. \A x : x \in On(Members(m, L)) <=> \E h \in Lists : x \in Members(m, L)[h]
    BY DEF On
  <2>2. \A h \in Lists : h = FreePage \/ h \in Slot
    BY DEF Lists
  <2> QED BY <1>1, <1>2, <2>1, <2>2
<1>5. UNION {Roomy(m, s) : s \in Slot} =
         {p \in Page : m.mark[p] = "chunks" /\ m.type[p] \in Slot
                       /\ m.used[p] # 0 .. Chunks[m.type[p]] - 1}
  BY DEF Roomy
<1> QED BY <1>1, <1>2, <1>3, <1>4, <1>5 DEF First

\* What decides the members of the lists.
LEMMA MembersEqual ==
    ASSUME NEW m, NEW L, NEW M,
           M \in [Lists -> SUBSET Page],
           M[FreePage] = Free(m) \ L, \A s \in Slot : M[s] = Roomy(m, s)
    PROVE  Members(m, L) = M
<1> DEFINE N == Members(m, L)
<1>1. N \in [Lists -> SUBSET Page] /\ N[FreePage] = Free(m) \ L
      /\ \A s \in Slot : N[s] = Roomy(m, s)
  BY MembersAre
<1> HIDE DEF N
<1>2. \A h \in Lists : h = FreePage \/ h \in Slot
  BY DEF Lists
<1>3. \A h \in Lists : N[h] = M[h]
  BY <1>1, <1>2
<1>4. N = [h \in Lists |-> N[h]] /\ M = [h \in Lists |-> M[h]]
  BY <1>1
<1>5. N = M
  BY <1>3, <1>4
<1> QED BY <1>5 DEF N

-----------------------------------------------------------------------------
(* freePages(): the runs that touch it are taken in.                       *)

\* What freePages() leaves as it was while it merges runs around p.
SameUse(m, m2, p) ==
    /\ m2.mark = m.mark /\ m2.used = m.used
    /\ \A q \in Page \ {p} : m2.type[q] = m.type[q]
    /\ \A q \in Page : m.mark[q] # "free" => m2.count[q] = m.count[q]
    /\ m2.mFreePageCount = m.mFreePageCount /\ m2.mTotal = m.mTotal /\ m2.mUsed = m.mUsed

\* A free run that is in its list.
LEMMA FreeMember ==
    ASSUME NEW m, NEW L, Struct(m, L), NEW e \in Page \ L
    PROVE  /\ IsFreeRun(m, e) <=> e \in Free(m)
           /\ e \in Free(m) => /\ m.next[e] \in Node /\ m.prev[e] \in Node
                               /\ m.next[e] # e /\ m.prev[e] # e
                               /\ m.next[e] \in On(Members(m, L)) \cup Lists
                               /\ m.prev[e] \in On(Members(m, L)) \cup Lists
                               /\ e \in Members(m, L)[FreePage]
<1> DEFINE M == Members(m, L)
<1>1. /\ m \in SlabRecord /\ ChunkPages(m) /\ Untyped(m, L) /\ LinkedOn(m, L)
      /\ AllLists(m.next, m.prev, M)
  BY DEF Struct
<1>2. /\ M \in [Lists -> SUBSET Page] /\ FreePage \in Lists /\ M[FreePage] = Free(m) \ L
      /\ On(M) = (Free(m) \ L) \cup
                {p \in Page : m.mark[p] = "chunks" /\ m.type[p] \in Slot
                              /\ m.used[p] # 0 .. Chunks[m.type[p]] - 1}
  BY MembersAre
<1> HIDE DEF M
<1>3. ASSUME e \in Free(m) PROVE IsFreeRun(m, e)
  <2>1. e \in On(M)
    BY <1>2, <1>3
  <2>2. m.next[e] # Null
    BY <1>1, <2>1 DEF LinkedOn, M
  <2>3. m.type[e] = Null
    BY <1>1, <1>3 DEF Untyped, Free
  <2> QED BY <2>2, <2>3 DEF IsFreeRun, WholePages
<1>4. ASSUME IsFreeRun(m, e) PROVE e \in Free(m)
  <2>1. e \in On(M)
    BY <1>1, <1>4 DEF LinkedOn, M, IsFreeRun
  <2>2. m.type[e] \notin Slot
    BY <1>4, SlabConstants DEF IsFreeRun, WholePages
  <2> QED BY <1>2, <2>1, <2>2
<1>5. ASSUME e \in Free(m)
      PROVE  /\ m.next[e] \in Node /\ m.prev[e] \in Node
             /\ m.next[e] # e /\ m.prev[e] # e
             /\ m.next[e] \in On(M) \cup Lists /\ m.prev[e] \in On(M) \cup Lists
             /\ e \in M[FreePage]
  <2>1. e \in M[FreePage]
    BY <1>2, <1>5
  <2>2. /\ m.next[e] \in M[FreePage] \cup {FreePage} /\ m.next[e] # e
        /\ m.prev[e] \in M[FreePage] \cup {FreePage} /\ m.prev[e] # e
        /\ m.next[e] \in Node /\ m.prev[e] \in Node
    BY <1>1, <1>2, <2>1, MemberLinks
  <2>3. M[FreePage] \subseteq On(M)
    BY <1>2 DEF On
  <2> QED BY <1>2, <2>1, <2>2, <2>3
<1> QED BY <1>3, <1>4, <1>5 DEF M

\* Two links are changed by it, and nothing else.
LEMMA UnlinkFields ==
    ASSUME NEW m \in SlabRecord, NEW p \in Page, m.prev[p] \in Node, m.next[p] \in Node,
           NEW u, u = Unlink(m, p)
    PROVE  /\ u \in SlabRecord
           /\ u.next = [m.next EXCEPT ![m.prev[p]] = m.next[p]]
           /\ u.prev = [m.prev EXCEPT ![m.next[p]] = m.prev[p]]
           /\ u.type = m.type /\ u.mark = m.mark /\ u.count = m.count /\ u.used = m.used
           /\ u.mFreePageCount = m.mFreePageCount /\ u.mTotal = m.mTotal /\ u.mUsed = m.mUsed
  BY DEF Unlink, SlabRecord

\* freePages(): the run behind is taken in.
LEMMA JoinNextFields ==
    ASSUME NEW m \in SlabRecord, NEW p \in Page, NEW e \in Page, e = p + m.count[p], e # p,
           IsFreeRun(m, e), m.prev[e] \in Node, m.next[e] \in Node,
           NEW m2, m2 = JoinNext(m, p)
    PROVE  /\ m2 \in SlabRecord
           /\ \A x \in Node : m2.next[x] = IF x = e THEN Null
                                           ELSE IF x = m.prev[e] THEN m.next[e] ELSE m.next[x]
           /\ \A x \in Node : m2.prev[x] = IF x = e THEN Null
                                           ELSE IF x = m.next[e] THEN m.prev[e] ELSE m.prev[x]
           /\ \A q \in Page : m2.count[q] = IF q = p THEN m.count[p] + m.count[e]
                                            ELSE IF q = e THEN 0 ELSE m.count[q]
           /\ m2.type = m.type /\ m2.mark = m.mark /\ m2.used = m.used
           /\ m2.mFreePageCount = m.mFreePageCount /\ m2.mTotal = m.mTotal /\ m2.mUsed = m.mUsed
<1> DEFINE u == Unlink(m, e)
<1>1. e < Pages
  BY SlabConstants DEF Page
<1>2. m2 = [u EXCEPT !.count[p] = @ + m.count[e], !.count[e] = 0, !.next[e] = Null, !.prev[e] = Null]
  BY <1>1 DEF JoinNext
<1>3. /\ u \in SlabRecord
      /\ u.next = [m.next EXCEPT ![m.prev[e]] = m.next[e]]
      /\ u.prev = [m.prev EXCEPT ![m.next[e]] = m.prev[e]]
      /\ u.type = m.type /\ u.mark = m.mark /\ u.count = m.count /\ u.used = m.used
      /\ u.mFreePageCount = m.mFreePageCount /\ u.mTotal = m.mTotal /\ u.mUsed = m.mUsed
  BY UnlinkFields
<1> HIDE DEF u
<1>4. e \in Node
  BY NodeFacts
<1>5. m2 = [u EXCEPT !.count = [[u.count EXCEPT ![p] = u.count[p] + m.count[e]] EXCEPT ![e] = 0],
                     !.next = [u.next EXCEPT ![e] = Null], !.prev = [u.prev EXCEPT ![e] = Null]]
  BY <1>2, <1>3 DEF SlabRecord
<1>6. /\ m2.next = [u.next EXCEPT ![e] = Null] /\ m2.prev = [u.prev EXCEPT ![e] = Null]
      /\ m2.count = [[m.count EXCEPT ![p] = m.count[p] + m.count[e]] EXCEPT ![e] = 0]
      /\ m2.type = m.type /\ m2.mark = m.mark /\ m2.used = m.used
      /\ m2.mFreePageCount = m.mFreePageCount /\ m2.mTotal = m.mTotal /\ m2.mUsed = m.mUsed
  BY <1>3, <1>5 DEF SlabRecord
<1>7. /\ m.next \in [Node -> Node \cup {Null}] /\ m.prev \in [Node -> Node \cup {Null}]
      /\ m.count \in [Page -> Nat]
  BY RecordFields
<1>8. m2.count \in [Page -> Nat]
  BY <1>6, <1>7
<1>9. m2.next \in [Node -> Node \cup {Null}] /\ m2.prev \in [Node -> Node \cup {Null}]
  BY <1>3, <1>4, <1>6, <1>7
<1>10. m2 \in SlabRecord
  BY <1>3, <1>5, <1>6, <1>8, <1>9 DEF SlabRecord
<1>11. \A q \in Page : m2.count[q] = IF q = p THEN m.count[p] + m.count[e]
                                            ELSE IF q = e THEN 0 ELSE m.count[q]
  BY <1>6, <1>7
<1>12. /\ \A x \in Node : m2.next[x] = IF x = e THEN Null
                                           ELSE IF x = m.prev[e] THEN m.next[e] ELSE m.next[x]
       /\ \A x \in Node : m2.prev[x] = IF x = e THEN Null
                                           ELSE IF x = m.next[e] THEN m.prev[e] ELSE m.prev[x]
  BY <1>3, <1>4, <1>6, <1>7
<1> QED BY <1>6, <1>10, <1>11, <1>12

\* A member of a list begins a run, and so does what its links lead to.
LEMMA FirstOrHead ==
    ASSUME NEW m, NEW L, NEW x \in On(Members(m, L)) \cup Lists
    PROVE  x \in First(m) \/ x \notin Page
  BY MembersAre, NodeFacts

\* freePages() stays well-formed when the run behind is taken in: none follows p then.
LEMMA JoinNextStruct ==
    ASSUME NEW m, NEW p \in Free(m), Struct(m, {p}), NEW m2, m2 = JoinNext(m, p)
    PROVE  /\ Struct(m2, {p}) /\ SameUse(m, m2, p)
           /\ p \in Free(m2) /\ p + m2.count[p] \notin Free(m2)
<1> DEFINE e == p + m.count[p]
           M == Members(m, {p})
<1>1. /\ m \in SlabRecord /\ Regions(m) /\ ChunkPages(m)
      /\ Untyped(m, {p}) /\ Merged(m, {p}) /\ Tagged(m, {p}) /\ LinkedOn(m, {p})
      /\ AllLists(m.next, m.prev, M)
  BY DEF Struct
<1>2. /\ \A r \in First(m) : /\ r \in Page /\ m.count[r] \in Nat
                             /\ m.count[r] > 0 /\ r + m.count[r] <= Pages
      /\ \A r \in First(m), q \in Page : r < q /\ q < r + m.count[r] => q \notin First(m)
      /\ \A r \in First(m) : r + m.count[r] < Pages => r + m.count[r] \in First(m)
  BY <1>1, RegionFacts
<1>3. /\ Pages \in Nat /\ (\A q \in Page : q \in Nat /\ q < Pages)
      /\ \A q \in Nat : q < Pages => q \in Page
  BY SlabConstants DEF Page
<1>4. /\ p \in First(m) /\ p \in Page /\ p \in Nat /\ p \in Free(m)
      /\ m.count[p] \in Nat /\ m.count[p] > 0 /\ e \in Nat /\ p < e /\ e # p
  BY <1>2, <1>3 DEF First
<1>5. CASE e < Pages /\ IsFreeRun(m, e)
  <2>1. e \in Page /\ e \in Page \ {p}
    BY <1>3, <1>4, <1>5
  <2>2. /\ e \in Free(m) /\ m.next[e] \in Node /\ m.prev[e] \in Node
        /\ m.next[e] # e /\ m.prev[e] # e
        /\ m.next[e] \in On(M) \cup Lists /\ m.prev[e] \in On(M) \cup Lists
        /\ e \in M[FreePage]
    BY <1>5, <2>1, FreeMember
  <2>3. /\ m2 \in SlabRecord
        /\ \A x \in Node : m2.next[x] = IF x = e THEN Null
                                        ELSE IF x = m.prev[e] THEN m.next[e] ELSE m.next[x]
        /\ \A x \in Node : m2.prev[x] = IF x = e THEN Null
                                        ELSE IF x = m.next[e] THEN m.prev[e] ELSE m.prev[x]
        /\ \A q \in Page : m2.count[q] = IF q = p THEN m.count[p] + m.count[e]
                                         ELSE IF q = e THEN 0 ELSE m.count[q]
        /\ m2.type = m.type /\ m2.mark = m.mark /\ m2.used = m.used
        /\ m2.mFreePageCount = m.mFreePageCount /\ m2.mTotal = m.mTotal /\ m2.mUsed = m.mUsed
    BY <1>1, <1>4, <1>5, <2>1, <2>2, JoinNextFields
  <2>4. Regions(m2) /\ Free(m2) = Free(m) \ {e} /\ First(m2) = First(m) \ {e}
    BY <1>1, <1>4, <2>2, <2>3, RegionsMerge
  <2> HIDE DEF e, M
  <2>5. \A s \in Slot : Roomy(m2, s) = Roomy(m, s)
    BY <2>3 DEF Roomy
  <2>6. /\ M \in [Lists -> SUBSET Page] /\ FreePage \in Lists /\ M[FreePage] = Free(m) \ {p}
        /\ \A s \in Slot : s \in Lists /\ s # FreePage /\ M[s] = Roomy(m, s)
        /\ On(M) \subseteq First(m)
    BY MembersAre DEF M
  <2>7. Members(m2, {p}) = Drop(M, FreePage, e)
    <3> DEFINE M2 == Drop(M, FreePage, e)
    <3>1. M2 \in [Lists -> SUBSET Page] /\ M2[FreePage] = Free(m2) \ {p}
          /\ \A s \in Slot : M2[s] = Roomy(m2, s)
      BY <2>4, <2>5, <2>6 DEF Drop
    <3> HIDE DEF M2
    <3>2. Members(m2, {p}) = M2
      BY <3>1, MembersEqual
    <3> QED BY <3>2 DEF M2
  <2>8. /\ AllLists(m2.next, m2.prev, Members(m2, {p}))
        /\ On(Members(m2, {p})) = On(M) \ {e}
    <3>1. \A x \in On(M) \cup Lists : x \in Node
      BY <1>2, <2>6, NodeFacts
    <3>2. \A x \in Lists : x # e
      BY <2>1, NodeFacts
    <3>3. \A x \in (On(M) \ {e}) \cup Lists :
             m2.next[x] = IF x = m.prev[e] THEN m.next[e] ELSE m.next[x]
      BY <2>3, <3>1, <3>2
    <3>4. \A x \in On(M) \ {e} : m2.prev[x] = IF x = m.next[e] THEN m.prev[e] ELSE m.prev[x]
      BY <2>3, <3>1
    <3>5. /\ AllLists(m2.next, m2.prev, Drop(M, FreePage, e))
          /\ On(Drop(M, FreePage, e)) = On(M) \ {e}
      <4>1. Unlinked(m.next, m.prev, m2.next, m2.prev, M, e)
        BY <3>3, <3>4 DEF Unlinked
      <4> QED BY <1>1, <2>2, <2>6, <4>1, AllUnlink
    <3> QED BY <2>7, <3>5
  <2>9. ChunkPages(m2) /\ Untyped(m2, {p})
    BY <1>1, <2>3 DEF ChunkPages, Untyped
  <2>10. Merged(m2, {p})
    <3>1. ASSUME NEW r \in Free(m2) \ {p}, NEW q \in Free(m2) \ {p} PROVE r + m2.count[r] # q
      <4>1. r \in Free(m) \ {p} /\ q \in Free(m) \ {p} /\ r # e /\ r \in Page
        BY <2>4, <3>1 DEF Free
      <4>2. m2.count[r] = m.count[r]
        BY <2>3, <4>1
      <4> QED BY <1>1, <4>1, <4>2 DEF Merged
    <3> QED BY <3>1 DEF Merged
  <2>11. LinkedOn(m2, {p})
    <3>1. ASSUME NEW q \in Page \ {p}
          PROVE  m2.next[q] # Null <=> q \in On(M) \ {e}
      <4>1. q \in Node /\ Null \notin Node
        BY NodeFacts
      <4>2. m.next[q] # Null <=> q \in On(M)
        BY <1>1 DEF LinkedOn, M
      <4>3. q = m.prev[e] => q \in On(M)
        BY <2>2, NodeFacts
      <4> QED BY <2>2, <2>3, <4>1, <4>2, <4>3
    <3> QED BY <2>8, <3>1 DEF LinkedOn
  <2>12. Tagged(m2, {p})
    <3>1. ASSUME NEW r \in Free(m2) \ {p}, m2.count[r] > 1, r + m2.count[r] < Pages
          PROVE  m2.prev[r + m2.count[r] - 1] = r
      <4>1. r \in Free(m) \ {p} /\ r # e /\ r \in Page /\ r \in First(m)
        BY <2>4, <3>1 DEF Free, First
      <4>2. PICK c \in Nat : c = m.count[r]
        BY <1>2, <4>1
      <4>3. m2.count[r] = c
        BY <2>3, <4>1, <4>2
      <4>4. PICK l \in Nat : l = r + c - 1
        BY <1>3, <3>1, <4>1, <4>3
      <4>5. r < l /\ l < r + c /\ l \in Page
        BY <1>3, <3>1, <4>1, <4>3, <4>4
      <4>6. l \notin First(m)
        BY <1>2, <4>1, <4>2, <4>5
      <4>7. l # e /\ l # m.next[e] /\ l \in Node
        BY <2>2, <4>5, <4>6, FirstOrHead, NodeFacts DEF First, M
      <4>8. m2.prev[l] = m.prev[l]
        BY <2>3, <4>7
      <4>9. m.prev[r + m.count[r] - 1] = r
        BY <1>1, <3>1, <4>1, <4>2, <4>3 DEF Tagged
      <4> QED BY <4>2, <4>3, <4>4, <4>8, <4>9
    <3> QED BY <3>1 DEF Tagged
  <2>13. p \in Free(m2)
    BY <1>4, <2>4
  <2>14. p + m2.count[p] \notin Free(m2)
    <3>1. e \in Free(m) \ {p}
      BY <2>1, <2>2
    <3>2. m2.count[p] = m.count[p] + m.count[e]
      BY <1>4, <2>3
    <3>3. e \in Nat /\ m.count[e] \in Nat /\ m.count[e] > 0 /\ m.count[p] \in Nat /\ p \in Nat
      BY <1>2, <1>3, <1>4, <2>1, <2>2 DEF First
    <3>4. p + m2.count[p] = e + m.count[e] /\ e + m.count[e] # p
      BY <1>4, <3>2, <3>3 DEF e
    <3>5. \A q \in Free(m) \ {p} : e + m.count[e] # q
      BY <1>1, <3>1 DEF Merged
    <3> QED BY <2>4, <3>4, <3>5
  <2>15. SameUse(m, m2, p)
    <3>1. m.mark[p] = "free" /\ m.mark[e] = "free"
      BY <2>2 DEF Free
    <3> HIDE DEF e
    <3> QED BY <2>3, <3>1 DEF SameUse
  <2> QED BY <2>3, <2>4, <2>8, <2>9, <2>10, <2>11, <2>12, <2>13, <2>14, <2>15 DEF Struct
<1>6. CASE ~(e < Pages /\ IsFreeRun(m, e))
  <2>1. m2 = m
    BY <1>6 DEF JoinNext
  <2>2. e \notin Free(m)
    <3>1. SUFFICES ASSUME e \in Free(m) PROVE FALSE
      OBVIOUS
    <3>2. e \in Page \ {p} /\ e < Pages
      BY <1>3, <1>4, <3>1 DEF Free
    <3> QED BY <1>6, <3>1, <3>2, FreeMember
  <2> QED BY <2>1, <2>2 DEF SameUse
<1> QED BY <1>5, <1>6

-----------------------------------------------------------------------------
\* freePages(): the last page of the run before leads to its first.
LEMMA BeforeIs ==
    ASSUME NEW m, NEW p \in Free(m), Struct(m, {p}), p > 0,
           NEW r \in First(m), r + m.count[r] = p
    PROVE  /\ r \in Free(m) => Before(m, p) = r /\ JoinsPrevious(m, p)
           /\ r \notin Free(m) => ~JoinsPrevious(m, p)
<1>1. /\ m \in SlabRecord /\ Regions(m) /\ ChunkPages(m)
      /\ Untyped(m, {p}) /\ Tagged(m, {p}) /\ LinkedOn(m, {p})
  BY DEF Struct
<1>2. /\ \A x \in First(m) : /\ x \in Page /\ m.count[x] \in Nat
                             /\ m.count[x] > 0 /\ x + m.count[x] <= Pages
      /\ \A x \in First(m), q \in Page : x < q /\ q < x + m.count[x] =>
                /\ q \notin First(m)
                /\ m.mark[q] = IF m.mark[x] = "free" THEN "free" ELSE "busy"
                /\ m.count[q] = IF m.mark[x] = "free" THEN 0 ELSE Pages
  BY <1>1, RegionFacts
<1>3. /\ Pages \in Nat /\ (\A q \in Page : q \in Nat /\ q < Pages)
      /\ \A q \in Nat : q < Pages => q \in Page
  BY SlabConstants DEF Page
<1>4. p \in Page /\ p \in Nat /\ r \in Page /\ r \in Nat
  BY <1>2, <1>3 DEF Free
<1>5. PICK c \in Nat : c = m.count[r] /\ c > 0 /\ r + c = p
  BY <1>2
<1>6. PICK l \in Nat : l = p - 1
  BY <1>4
<1>7. l \in Page /\ l \in Page \ {p} /\ r \in Page \ {p} /\ l < p
  BY <1>3, <1>4, <1>5, <1>6
<1>8. JoinsPrevious(m, p) <=> m.type[l] = Null /\ IsFreeRun(m, Before(m, p))
  BY <1>6 DEF JoinsPrevious, WholePages
<1>9. Before(m, p) = IF m.type[l] = Null /\ m.mark[l] = "free" /\ m.count[l] = 0
                     THEN m.prev[l] ELSE l
  BY <1>6 DEF Before, WholePages
<1>10. IsFreeRun(m, r) <=> r \in Free(m)
  BY <1>7, FreeMember
<1>11. CASE c = 1
  <2>1. l = r /\ m.count[l] # 0
    <3>1. l = r
      BY <1>4, <1>5, <1>6, <1>11
    <3> QED BY <1>5, <3>1
  <2>2. Before(m, p) = r
    BY <1>9, <2>1
  <2>3. r \in Free(m) => m.type[l] = Null
    BY <1>1, <1>7, <2>1 DEF Untyped, Free
  <2> QED BY <1>8, <1>10, <2>2, <2>3
<1>12. CASE c > 1
  <2>1. r < l /\ l < r + m.count[r]
    BY <1>4, <1>5, <1>6, <1>12
  <2>2. /\ l \notin First(m)
        /\ m.mark[l] = IF m.mark[r] = "free" THEN "free" ELSE "busy"
        /\ m.count[l] = IF m.mark[r] = "free" THEN 0 ELSE Pages
    BY <1>2, <1>7, <2>1
  <2>3. m.type[l] = Null
    BY <1>1, <1>7, <2>2 DEF Untyped
  <2>4. CASE r \in Free(m)
    <3>1. m.mark[l] = "free" /\ m.count[l] = 0
      BY <2>2, <2>4 DEF Free
    <3>2. r \in Free(m) \ {p} /\ m.count[r] > 1 /\ r + m.count[r] < Pages
      BY <1>3, <1>4, <1>5, <1>7, <1>12, <2>4
    <3>3. m.prev[r + m.count[r] - 1] = r
      BY <1>1, <3>2 DEF Tagged
    <3>4. m.prev[l] = r
      <4>1. r + m.count[r] - 1 = l
        <5>1. \A x, y, z, w \in Nat : x + y = z /\ w = z - 1 => x + y - 1 = w
          OBVIOUS
        <5>2. r \in Nat /\ m.count[r] \in Nat /\ p \in Nat
          BY <1>4, <1>5
        <5> QED BY <1>6, <5>1, <5>2
      <4> QED BY <3>3, <4>1
    <3>5. Before(m, p) = r
      BY <1>9, <2>3, <3>1, <3>4
    <3> QED BY <1>8, <1>10, <2>3, <2>4, <3>5
  <2>5. CASE r \notin Free(m)
    <3>1. m.mark[r] # "free"
      BY <1>2, <1>4, <2>5 DEF Free
    <3>2. Before(m, p) = l
      BY <1>9, <2>2, <3>1
    <3>3. l \notin Free(m)
      BY <2>2 DEF First
    <3>4. ~IsFreeRun(m, l)
      BY <1>7, <3>3, FreeMember
    <3> QED BY <1>8, <2>5, <3>2, <3>4
  <2> QED BY <2>4, <2>5
<1> QED BY <1>5, <1>11, <1>12

\* freePages(): the run before takes p in.
LEMMA JoinPreviousFields ==
    ASSUME NEW m \in SlabRecord, NEW p \in Page, NEW r \in Page, r # p,
           Before(m, p) = r, m.prev[r] \in Node, m.next[r] \in Node,
           NEW m2, m2 = JoinPrevious(m, p)
    PROVE  /\ m2 \in SlabRecord
           /\ \A x \in Node : m2.next[x] = IF x = p THEN Null
                                           ELSE IF x = m.prev[r] THEN m.next[r] ELSE m.next[x]
           /\ \A x \in Node : m2.prev[x] = IF x = p THEN Null
                                           ELSE IF x = m.next[r] THEN m.prev[r] ELSE m.prev[x]
           /\ \A q \in Page : m2.count[q] = IF q = r THEN m.count[r] + m.count[p]
                                            ELSE IF q = p THEN 0 ELSE m.count[q]
           /\ \A q \in Page : m2.type[q] = IF q = p THEN Null ELSE m.type[q]
           /\ m2.mark = m.mark /\ m2.used = m.used
           /\ m2.mFreePageCount = m.mFreePageCount /\ m2.mTotal = m.mTotal /\ m2.mUsed = m.mUsed
<1> DEFINE u == Unlink(m, r)
<1>2. m2 = [u EXCEPT !.count[r] = @ + m.count[p], !.count[p] = 0,
                     !.next[p] = Null, !.prev[p] = Null, !.type[p] = Null]
  BY DEF JoinPrevious, WholePages
<1>3. /\ u \in SlabRecord
      /\ u.next = [m.next EXCEPT ![m.prev[r]] = m.next[r]]
      /\ u.prev = [m.prev EXCEPT ![m.next[r]] = m.prev[r]]
      /\ u.type = m.type /\ u.mark = m.mark /\ u.count = m.count /\ u.used = m.used
      /\ u.mFreePageCount = m.mFreePageCount /\ u.mTotal = m.mTotal /\ u.mUsed = m.mUsed
  BY UnlinkFields
<1> HIDE DEF u
<1>4. p \in Node
  BY NodeFacts
<1>5. m2 = [u EXCEPT !.count = [[u.count EXCEPT ![r] = u.count[r] + m.count[p]] EXCEPT ![p] = 0],
                     !.next = [u.next EXCEPT ![p] = Null], !.prev = [u.prev EXCEPT ![p] = Null],
                     !.type = [u.type EXCEPT ![p] = Null]]
  BY <1>2, <1>3 DEF SlabRecord
<1>6. /\ m2.next = [u.next EXCEPT ![p] = Null] /\ m2.prev = [u.prev EXCEPT ![p] = Null]
      /\ m2.count = [[m.count EXCEPT ![r] = m.count[r] + m.count[p]] EXCEPT ![p] = 0]
      /\ m2.type = [m.type EXCEPT ![p] = Null] /\ m2.mark = m.mark /\ m2.used = m.used
      /\ m2.mFreePageCount = m.mFreePageCount /\ m2.mTotal = m.mTotal /\ m2.mUsed = m.mUsed
  BY <1>3, <1>5 DEF SlabRecord
<1>7. /\ m.next \in [Node -> Node \cup {Null}] /\ m.prev \in [Node -> Node \cup {Null}]
      /\ m.count \in [Page -> Nat] /\ m.type \in [Page -> Slot \cup {Null}]
  BY RecordFields
<1>8. m2.count \in [Page -> Nat]
  BY <1>6, <1>7
<1>9. m2.next \in [Node -> Node \cup {Null}] /\ m2.prev \in [Node -> Node \cup {Null}]
      /\ m2.type \in [Page -> Slot \cup {Null}]
  BY <1>3, <1>4, <1>6, <1>7
<1>10. m2 \in SlabRecord
  BY <1>3, <1>5, <1>6, <1>8, <1>9 DEF SlabRecord
<1>11. \A q \in Page : m2.count[q] = IF q = r THEN m.count[r] + m.count[p]
                                            ELSE IF q = p THEN 0 ELSE m.count[q]
  BY <1>6, <1>7
<1>12. /\ \A x \in Node : m2.next[x] = IF x = p THEN Null
                                           ELSE IF x = m.prev[r] THEN m.next[r] ELSE m.next[x]
       /\ \A x \in Node : m2.prev[x] = IF x = p THEN Null
                                           ELSE IF x = m.next[r] THEN m.prev[r] ELSE m.prev[x]
  BY <1>3, <1>4, <1>6, <1>7
<1>13. \A q \in Page : m2.type[q] = IF q = p THEN Null ELSE m.type[q]
  BY <1>6, <1>7
<1> QED BY <1>6, <1>10, <1>11, <1>12, <1>13

\* The pool stays well-formed, with r the run that is in no list now.
LEMMA JoinPreviousStruct ==
    ASSUME NEW m, NEW p \in Free(m), Struct(m, {p}), p + m.count[p] \notin Free(m),
           NEW r \in Free(m), r + m.count[r] = p, Before(m, p) = r,
           NEW m2, m2 = JoinPrevious(m, p)
    PROVE  /\ Struct(m2, {r}) /\ SameUse(m, m2, p) /\ m2.type[p] = Null
           /\ r \in Free(m2) /\ r + m2.count[r] \notin Free(m2)
           /\ \A x \in Free(m2) : x + m2.count[x] # r
<1> DEFINE M == Members(m, {p})
<1>1. /\ m \in SlabRecord /\ Regions(m) /\ ChunkPages(m)
      /\ Untyped(m, {p}) /\ Merged(m, {p}) /\ Tagged(m, {p}) /\ LinkedOn(m, {p})
      /\ AllLists(m.next, m.prev, M)
  BY DEF Struct
<1>2. /\ \A x \in First(m) : /\ x \in Page /\ m.count[x] \in Nat
                             /\ m.count[x] > 0 /\ x + m.count[x] <= Pages
      /\ \A x \in First(m), q \in Page : x < q /\ q < x + m.count[x] => q \notin First(m)
  BY <1>1, RegionFacts
<1>3. /\ Pages \in Nat /\ (\A q \in Page : q \in Nat /\ q < Pages)
      /\ \A q \in Nat : q < Pages => q \in Page
  BY SlabConstants DEF Page
<1>4. p \in First(m) /\ p \in Page /\ p \in Nat /\ r \in First(m) /\ r \in Page /\ r \in Nat
  BY <1>2, <1>3 DEF First
<1>5. PICK c \in Nat, d \in Nat : c = m.count[r] /\ d = m.count[p] /\ c > 0 /\ d > 0
  BY <1>2, <1>4
<1>5a. r + c = p /\ r # p
  BY <1>4, <1>5
<1>6. /\ m.next[r] \in Node /\ m.prev[r] \in Node
      /\ m.next[r] # r /\ m.prev[r] # r
      /\ m.next[r] \in On(M) \cup Lists /\ m.prev[r] \in On(M) \cup Lists
      /\ r \in M[FreePage]
  <2>1. r \in Page \ {p}
    BY <1>4, <1>5a
  <2> QED BY <2>1, FreeMember
<1>7. /\ m2 \in SlabRecord
      /\ \A x \in Node : m2.next[x] = IF x = p THEN Null
                                      ELSE IF x = m.prev[r] THEN m.next[r] ELSE m.next[x]
      /\ \A x \in Node : m2.prev[x] = IF x = p THEN Null
                                      ELSE IF x = m.next[r] THEN m.prev[r] ELSE m.prev[x]
      /\ \A q \in Page : m2.count[q] = IF q = r THEN m.count[r] + m.count[p]
                                       ELSE IF q = p THEN 0 ELSE m.count[q]
      /\ \A q \in Page : m2.type[q] = IF q = p THEN Null ELSE m.type[q]
      /\ m2.mark = m.mark /\ m2.used = m.used
      /\ m2.mFreePageCount = m.mFreePageCount /\ m2.mTotal = m.mTotal /\ m2.mUsed = m.mUsed
  BY <1>1, <1>4, <1>5a, <1>6, JoinPreviousFields
<1>8. Regions(m2) /\ Free(m2) = Free(m) \ {p} /\ First(m2) = First(m) \ {p}
  BY <1>1, <1>7, RegionsMerge
<1> HIDE DEF M
<1>9. m.mark[p] = "free"
  BY DEF Free
<1>10. \A s \in Slot : Roomy(m2, s) = Roomy(m, s)
  <2>1. \A s \in Slot, q \in Page : q \in Roomy(m2, s) <=> q \in Roomy(m, s)
    BY <1>7, <1>9 DEF Roomy
  <2>2. \A s \in Slot : Roomy(m2, s) \subseteq Page /\ Roomy(m, s) \subseteq Page
    BY DEF Roomy
  <2> QED BY <2>1, <2>2
<1>11. /\ M \in [Lists -> SUBSET Page] /\ FreePage \in Lists /\ M[FreePage] = Free(m) \ {p}
       /\ \A s \in Slot : s \in Lists /\ s # FreePage /\ M[s] = Roomy(m, s)
       /\ On(M) \subseteq First(m)
       /\ p \notin On(M)
  BY <1>9, MembersAre DEF M
<1>12. Members(m2, {r}) = Drop(M, FreePage, r)
  <2> DEFINE M2 == Drop(M, FreePage, r)
  <2>1. M2 \in [Lists -> SUBSET Page] /\ M2[FreePage] = Free(m2) \ {r}
        /\ \A s \in Slot : M2[s] = Roomy(m2, s)
    BY <1>8, <1>10, <1>11 DEF Drop
  <2> HIDE DEF M2
  <2>2. Members(m2, {r}) = M2
    BY <2>1, MembersEqual
  <2> QED BY <2>2 DEF M2
<1>13. /\ AllLists(m2.next, m2.prev, Members(m2, {r}))
       /\ On(Members(m2, {r})) = On(M) \ {r}
  <2>1. \A x \in On(M) \cup Lists : x \in Node /\ x # p
    BY <1>2, <1>4, <1>11, NodeFacts
  <2>2. \A x \in (On(M) \ {r}) \cup Lists :
           m2.next[x] = IF x = m.prev[r] THEN m.next[r] ELSE m.next[x]
    BY <1>7, <2>1
  <2>3. \A x \in On(M) \ {r} : m2.prev[x] = IF x = m.next[r] THEN m.prev[r] ELSE m.prev[x]
    BY <1>7, <2>1
  <2>4. Unlinked(m.next, m.prev, m2.next, m2.prev, M, r)
    BY <2>2, <2>3 DEF Unlinked
  <2>5. /\ AllLists(m2.next, m2.prev, Drop(M, FreePage, r))
        /\ On(Drop(M, FreePage, r)) = On(M) \ {r}
    BY <1>1, <1>6, <1>11, <2>4, AllUnlink
  <2> QED BY <1>12, <2>5
<1>14. ChunkPages(m2)
  BY <1>1, <1>7, <1>9 DEF ChunkPages
<1>15. Untyped(m2, {r})
  BY <1>1, <1>7 DEF Untyped
<1>16. Merged(m2, {r})
  <2>1. ASSUME NEW x \in Free(m2) \ {r}, NEW q \in Free(m2) \ {r} PROVE x + m2.count[x] # q
    <3>1. x \in Free(m) \ {p} /\ q \in Free(m) \ {p} /\ x # r /\ x # p /\ x \in Page
      BY <1>8, <2>1 DEF Free
    <3>2. m2.count[x] = m.count[x]
      BY <1>7, <3>1
    <3> QED BY <1>1, <3>1, <3>2 DEF Merged
  <2> QED BY <2>1 DEF Merged
<1>17. LinkedOn(m2, {r})
  <2>1. ASSUME NEW q \in Page \ {r}
        PROVE  m2.next[q] # Null <=> q \in On(M) \ {r}
    <3>1. q \in Node /\ Null \notin Node
      BY NodeFacts
    <3>2. CASE q = p
      BY <1>7, <1>11, <3>1, <3>2
    <3>3. CASE q # p
      <4>1. m.next[q] # Null <=> q \in On(M)
        BY <1>1, <3>3 DEF LinkedOn, M
      <4>2. q = m.prev[r] => q \in On(M)
        BY <1>6, NodeFacts
      <4> QED BY <1>6, <1>7, <3>1, <3>3, <4>1, <4>2
    <3> QED BY <3>2, <3>3
  <2> QED BY <1>13, <2>1 DEF LinkedOn
<1>18. Tagged(m2, {r})
  <2>1. ASSUME NEW x \in Free(m2) \ {r}, m2.count[x] > 1, x + m2.count[x] < Pages
        PROVE  m2.prev[x + m2.count[x] - 1] = x
    <3>1. x \in Free(m) \ {p} /\ x # r /\ x # p /\ x \in Page /\ x \in First(m)
      BY <1>8, <2>1 DEF Free, First
    <3>2. PICK k \in Nat : k = m.count[x]
      BY <1>2, <3>1
    <3>3. m2.count[x] = k
      BY <1>7, <3>1, <3>2
    <3>4. PICK l \in Nat : l = x + k - 1
      BY <1>3, <2>1, <3>1, <3>3
    <3>5. x < l /\ l < x + k /\ l \in Page
      BY <1>3, <2>1, <3>1, <3>3, <3>4
    <3>6. l \notin First(m)
      BY <1>2, <3>1, <3>2, <3>5
    <3>7. l # p /\ l # m.next[r] /\ l \in Node
      BY <1>4, <1>6, <3>5, <3>6, FirstOrHead, NodeFacts DEF M
    <3>8. m2.prev[l] = m.prev[l]
      BY <1>7, <3>7
    <3>9. m.prev[x + m.count[x] - 1] = x
      BY <1>1, <2>1, <3>1, <3>2, <3>3 DEF Tagged
    <3> QED BY <3>2, <3>3, <3>4, <3>8, <3>9
  <2> QED BY <2>1 DEF Tagged
<1>19. r \in Free(m2)
  BY <1>5a, <1>8
<1>20. r + m2.count[r] \notin Free(m2)
  <2>1. m2.count[r] = c + d
    BY <1>4, <1>5, <1>7
  <2>2. r + (c + d) = p + d
    BY <1>4, <1>5a
  <2> QED BY <1>5, <1>8, <2>1, <2>2
<1>21. ASSUME NEW x \in Free(m2) PROVE x + m2.count[x] # r
  <2>1. x \in Free(m) \ {p} /\ r \in Free(m) \ {p} /\ x # p /\ x \in Page
    BY <1>5a, <1>8 DEF Free
  <2>2. CASE x = r
    <3>1. m2.count[r] = c + d
      BY <1>4, <1>5, <1>7
    <3>2. r + (c + d) # r
      BY <1>4, <1>5
    <3> QED BY <2>2, <3>1, <3>2
  <2>3. CASE x # r
    <3>1. m2.count[x] = m.count[x]
      BY <1>7, <2>1, <2>3
    <3> QED BY <1>1, <2>1, <3>1 DEF Merged
  <2> QED BY <2>2, <2>3
<1>22. SameUse(m, m2, p) /\ m2.type[p] = Null
  <2>1. m.mark[p] = "free" /\ m.mark[r] = "free"
    BY DEF Free
  <2> QED BY <1>4, <1>7, <2>1 DEF SameUse
<1> QED BY <1>7, <1>8, <1>13, <1>14, <1>15, <1>16, <1>17, <1>18, <1>19, <1>20, <1>21, <1>22 DEF Struct

\* What a head leads to: the first member, or itself when there is none.
LEMMA HeadNext ==
    ASSUME NEW nx, NEW pv, NEW M, AllLists(nx, pv, M), NEW h \in Lists
    PROVE  /\ nx[h] \in M[h] \cup {h} /\ nx[h] \in Node /\ nx[h] # Null
           /\ nx[h] = h <=> M[h] = {}
           /\ nx[h] \in On(M) \cup Lists
<1>1. M[h] \in SUBSET Page /\ ListOf(nx, pv, h, M[h])
  BY DEF AllLists
<1>2. nx[h] \in M[h] \cup {h} /\ (nx[h] = h <=> M[h] = {})
  BY <1>1, ChainNext
<1>3. M[h] \subseteq On(M)
  BY DEF On
<1> QED BY <1>1, <1>2, <1>3, NodeFacts

\* A node becomes the first: three links and the head change.
LEMMA LinkFirstFields ==
    ASSUME NEW m \in SlabRecord, NEW h \in Lists, NEW p \in Page,
           m.next[h] \in Node, m.next[h] # p,
           NEW m2, m2 = LinkFirst(m, h, p)
    PROVE  /\ m2 \in SlabRecord
           /\ \A x \in Node : m2.next[x] = IF x = h THEN p ELSE IF x = p THEN m.next[h] ELSE m.next[x]
           /\ \A x \in Node : m2.prev[x] = IF x = m.next[h] THEN p ELSE IF x = p THEN h ELSE m.prev[x]
           /\ m2.type = m.type /\ m2.mark = m.mark /\ m2.count = m.count /\ m2.used = m.used
           /\ m2.mFreePageCount = m.mFreePageCount /\ m2.mTotal = m.mTotal /\ m2.mUsed = m.mUsed
<1>1. p \in Node /\ h \in Node /\ p # h
  BY NodeFacts
<1>2. /\ m.next \in [Node -> Node \cup {Null}] /\ m.prev \in [Node -> Node \cup {Null}]
  BY RecordFields
<1>3. m2 = [m EXCEPT !.next = [[m.next EXCEPT ![p] = m.next[h]] EXCEPT ![h] = p],
                     !.prev = [[m.prev EXCEPT ![p] = h] EXCEPT ![m.next[h]] = p]]
  BY DEF LinkFirst, SlabRecord
<1>4. /\ m2.next = [[m.next EXCEPT ![p] = m.next[h]] EXCEPT ![h] = p]
      /\ m2.prev = [[m.prev EXCEPT ![p] = h] EXCEPT ![m.next[h]] = p]
      /\ m2.type = m.type /\ m2.mark = m.mark /\ m2.count = m.count /\ m2.used = m.used
      /\ m2.mFreePageCount = m.mFreePageCount /\ m2.mTotal = m.mTotal /\ m2.mUsed = m.mUsed
  BY <1>3 DEF SlabRecord
<1>5. m2.next \in [Node -> Node \cup {Null}] /\ m2.prev \in [Node -> Node \cup {Null}]
  BY <1>1, <1>2, <1>4
<1>6. m2 \in SlabRecord
  BY <1>3, <1>4, <1>5 DEF SlabRecord
<1>7. /\ \A x \in Node : m2.next[x] = IF x = h THEN p ELSE IF x = p THEN m.next[h] ELSE m.next[x]
      /\ \A x \in Node : m2.prev[x] = IF x = m.next[h] THEN p ELSE IF x = p THEN h ELSE m.prev[x]
  BY <1>1, <1>2, <1>4
<1> QED BY <1>4, <1>6, <1>7

\* freePages(): the last page of the run is told where it begins.
LEMMA AddRunFields ==
    ASSUME NEW m \in SlabRecord, NEW p \in Page, m.count[p] > 0, p + m.count[p] <= Pages,
           m.next[FreePage] \in Node, m.next[FreePage] # p,
           NEW m2, m2 = AddRun(m, p)
    PROVE  /\ m2 \in SlabRecord
           /\ \A x \in Node : m2.next[x] = IF x = FreePage THEN p
                                           ELSE IF x = p THEN m.next[FreePage] ELSE m.next[x]
           /\ \A x \in Node : m2.prev[x] = IF x = m.next[FreePage] THEN p
                                           ELSE IF x = p THEN FreePage
                                           ELSE IF m.count[p] > 1 /\ x = p + m.count[p] - 1 THEN p
                                           ELSE m.prev[x]
           /\ \A q \in Page : m2.type[q] = IF q = p THEN Null ELSE m.type[q]
           /\ m2.mark = m.mark /\ m2.count = m.count /\ m2.used = m.used
           /\ m2.mFreePageCount = m.mFreePageCount /\ m2.mTotal = m.mTotal /\ m2.mUsed = m.mUsed
<1> DEFINE l == p + m.count[p] - 1
           tagged == IF m.count[p] > 1 THEN [m EXCEPT !.prev[l] = p] ELSE m
           t == [tagged EXCEPT !.type[p] = Null]
<1>1. p \in Node /\ FreePage \in Lists /\ FreePage \in Node
  BY NodeFacts DEF Lists
<1>2. l \in Node
  <2>1. p \in Nat /\ m.count[p] \in Nat /\ Pages \in Nat
    BY RecordFields, SlabConstants DEF Page
  <2>2. l \in 0 .. Pages - 1
    BY <2>1
  <2> QED BY <2>2 DEF Node, Page
<1>3. m2 = LinkFirst(t, FreePage, p)
  BY DEF AddRun, WholePages
<1>4. /\ tagged \in SlabRecord
      /\ \A x \in Node : tagged.prev[x] = IF m.count[p] > 1 /\ x = l THEN p ELSE m.prev[x]
      /\ tagged.next = m.next /\ tagged.type = m.type
      /\ tagged.mark = m.mark /\ tagged.count = m.count /\ tagged.used = m.used
      /\ tagged.mFreePageCount = m.mFreePageCount
      /\ tagged.mTotal = m.mTotal /\ tagged.mUsed = m.mUsed
  <2> HIDE DEF l
  <2>1. CASE m.count[p] > 1
    <3>1. tagged = [m EXCEPT !.prev = [m.prev EXCEPT ![l] = p]]
      BY <2>1 DEF SlabRecord
    <3>2. m.prev \in [Node -> Node \cup {Null}]
      BY RecordFields
    <3>3. tagged.prev = [m.prev EXCEPT ![l] = p] /\ tagged.next = m.next /\ tagged.type = m.type
          /\ tagged.mark = m.mark /\ tagged.count = m.count /\ tagged.used = m.used
          /\ tagged.mFreePageCount = m.mFreePageCount
          /\ tagged.mTotal = m.mTotal /\ tagged.mUsed = m.mUsed
      BY <3>1 DEF SlabRecord
    <3> HIDE DEF tagged
    <3>4. tagged.prev \in [Node -> Node \cup {Null}]
      BY <1>1, <3>2, <3>3
    <3>5. tagged \in SlabRecord
      BY <3>1, <3>3, <3>4 DEF SlabRecord
    <3> QED BY <1>2, <2>1, <3>2, <3>3, <3>5
  <2>2. CASE ~(m.count[p] > 1)
    BY <2>2
  <2> QED BY <2>1, <2>2
<1> HIDE DEF tagged, l
<1>5. /\ t \in SlabRecord
      /\ \A q \in Page : t.type[q] = IF q = p THEN Null ELSE m.type[q]
      /\ t.next = m.next /\ t.prev = tagged.prev
      /\ t.mark = m.mark /\ t.count = m.count /\ t.used = m.used
      /\ t.mFreePageCount = m.mFreePageCount /\ t.mTotal = m.mTotal /\ t.mUsed = m.mUsed
  <2>1. t = [tagged EXCEPT !.type = [tagged.type EXCEPT ![p] = Null]]
    BY <1>4 DEF SlabRecord
  <2>2. tagged.type \in [Page -> Slot \cup {Null}]
    BY <1>4, RecordFields
  <2>3. t.type = [m.type EXCEPT ![p] = Null] /\ t.next = m.next /\ t.prev = tagged.prev
        /\ t.mark = m.mark /\ t.count = m.count /\ t.used = m.used
        /\ t.mFreePageCount = m.mFreePageCount /\ t.mTotal = m.mTotal /\ t.mUsed = m.mUsed
    BY <1>4, <2>1 DEF SlabRecord
  <2> HIDE DEF t
  <2>4. t.type \in [Page -> Slot \cup {Null}]
    BY <1>4, <2>2, <2>3
  <2>5. t \in SlabRecord
    BY <1>4, <2>1, <2>3, <2>4 DEF SlabRecord
  <2> QED BY <1>4, <2>2, <2>3, <2>5
<1> HIDE DEF t
<1>6. t.next[FreePage] \in Node /\ t.next[FreePage] # p /\ t.next[FreePage] = m.next[FreePage]
  BY <1>5
<1>7. /\ m2 \in SlabRecord
      /\ \A x \in Node : m2.next[x] = IF x = FreePage THEN p ELSE IF x = p THEN t.next[FreePage] ELSE t.next[x]
      /\ \A x \in Node : m2.prev[x] = IF x = t.next[FreePage] THEN p ELSE IF x = p THEN FreePage ELSE t.prev[x]
      /\ m2.type = t.type /\ m2.mark = t.mark /\ m2.count = t.count /\ m2.used = t.used
      /\ m2.mFreePageCount = t.mFreePageCount /\ m2.mTotal = t.mTotal /\ m2.mUsed = t.mUsed
  BY <1>1, <1>3, <1>5, <1>6, LinkFirstFields
<1>8. \A x \in Node : m2.next[x] = IF x = FreePage THEN p
                                           ELSE IF x = p THEN m.next[FreePage] ELSE m.next[x]
  BY <1>5, <1>7
<1>9. \A x \in Node : m2.prev[x] = IF x = m.next[FreePage] THEN p
                                           ELSE IF x = p THEN FreePage
                                           ELSE IF m.count[p] > 1 /\ x = l THEN p
                                           ELSE m.prev[x]
  BY <1>4, <1>5, <1>6, <1>7
<1> QED BY <1>5, <1>7, <1>8, <1>9 DEF l

\* freePages(): the run that neither touches another is put in the list.
LEMMA AddRunStruct ==
    ASSUME NEW m, NEW p \in Free(m), Struct(m, {p}),
           p + m.count[p] \notin Free(m), \A x \in Free(m) : x + m.count[x] # p,
           NEW m2, m2 = AddRun(m, p)
    PROVE  Struct(m2, {}) /\ SameUse(m, m2, p) /\ m2.type[p] = Null
<1> DEFINE M == Members(m, {p})
<1>1. /\ m \in SlabRecord /\ Regions(m) /\ ChunkPages(m)
      /\ Untyped(m, {p}) /\ Merged(m, {p}) /\ Tagged(m, {p}) /\ LinkedOn(m, {p})
      /\ AllLists(m.next, m.prev, M)
  BY DEF Struct
<1>2. /\ \A x \in First(m) : /\ x \in Page /\ m.count[x] \in Nat
                             /\ m.count[x] > 0 /\ x + m.count[x] <= Pages
      /\ \A x \in First(m), q \in Page : x < q /\ q < x + m.count[x] => q \notin First(m)
      /\ \A x, y \in First(m) : x # y => x + m.count[x] <= y \/ y + m.count[y] <= x
  BY <1>1, RegionFacts
<1>3. /\ Pages \in Nat /\ (\A q \in Page : q \in Nat /\ q < Pages)
      /\ \A q \in Nat : q < Pages => q \in Page
  BY SlabConstants DEF Page
<1>4. p \in First(m) /\ p \in Page /\ p \in Nat /\ m.mark[p] = "free"
  BY <1>3 DEF First, Free
<1> HIDE DEF M
<1>5. /\ M \in [Lists -> SUBSET Page] /\ FreePage \in Lists /\ M[FreePage] = Free(m) \ {p}
      /\ \A s \in Slot : s \in Lists /\ s # FreePage /\ M[s] = Roomy(m, s)
      /\ On(M) \subseteq First(m)
      /\ p \notin On(M)
  BY <1>4, MembersAre DEF M
<1>6. /\ m.next[FreePage] \in M[FreePage] \cup {FreePage}
      /\ m.next[FreePage] \in Node /\ m.next[FreePage] # p
      /\ m.next[FreePage] \in On(M) \cup Lists
  <2>1. /\ m.next[FreePage] \in M[FreePage] \cup {FreePage}
        /\ m.next[FreePage] \in Node
        /\ m.next[FreePage] \in On(M) \cup Lists
    BY <1>1, <1>5, HeadNext
  <2>2. p \notin Lists
    BY <1>4, NodeFacts
  <2> QED BY <1>5, <2>1, <2>2
<1>7. /\ m2 \in SlabRecord
      /\ \A x \in Node : m2.next[x] = IF x = FreePage THEN p
                                      ELSE IF x = p THEN m.next[FreePage] ELSE m.next[x]
      /\ \A x \in Node : m2.prev[x] = IF x = m.next[FreePage] THEN p
                                      ELSE IF x = p THEN FreePage
                                      ELSE IF m.count[p] > 1 /\ x = p + m.count[p] - 1 THEN p
                                      ELSE m.prev[x]
      /\ \A q \in Page : m2.type[q] = IF q = p THEN Null ELSE m.type[q]
      /\ m2.mark = m.mark /\ m2.count = m.count /\ m2.used = m.used
      /\ m2.mFreePageCount = m.mFreePageCount /\ m2.mTotal = m.mTotal /\ m2.mUsed = m.mUsed
  BY <1>1, <1>2, <1>4, <1>6, AddRunFields
<1>8. Regions(m2) /\ Free(m2) = Free(m) /\ First(m2) = First(m)
  BY <1>1, <1>7, RegionsSame
<1>10. \A s \in Slot : Roomy(m2, s) = Roomy(m, s)
  <2>1. \A s \in Slot, q \in Page : q \in Roomy(m2, s) <=> q \in Roomy(m, s)
    BY <1>4, <1>7 DEF Roomy
  <2>2. \A s \in Slot : Roomy(m2, s) \subseteq Page /\ Roomy(m, s) \subseteq Page
    BY DEF Roomy
  <2> QED BY <2>1, <2>2
<1>12. Members(m2, {}) = Add(M, FreePage, p)
  <2> DEFINE M2 == Add(M, FreePage, p)
  <2>1. M2 \in [Lists -> SUBSET Page] /\ M2[FreePage] = Free(m2) \ {}
        /\ \A s \in Slot : M2[s] = Roomy(m2, s)
    BY <1>4, <1>5, <1>8, <1>10 DEF Add
  <2> HIDE DEF M2
  <2>2. Members(m2, {}) = M2
    BY <2>1, MembersEqual
  <2> QED BY <2>2 DEF M2
<1>13. /\ AllLists(m2.next, m2.prev, Members(m2, {}))
       /\ On(Members(m2, {})) = On(M) \cup {p}
  <2>1. \A x \in On(M) \cup Lists : x \in Node /\ x # p
    BY <1>2, <1>4, <1>5, NodeFacts
  <2>1a. p \in Node /\ p # FreePage
    BY <1>4, <1>5, NodeFacts
  <2>2. \A x \in On(M) \cup Lists : m2.next[x] = IF x = FreePage THEN p ELSE m.next[x]
    BY <1>7, <2>1
  <2>3. \A x \in On(M) : m2.prev[x] = IF x = m.next[FreePage] THEN p ELSE m.prev[x]
    <3>1. TAKE x \in On(M)
    <3>2. x \in First(m) /\ x \in Page /\ x \in Nat
      BY <1>2, <1>3, <1>5
    <3>3. PICK c \in Nat : c = m.count[p] /\ p + c <= Pages
      BY <1>2, <1>4
    <3>4. ~(m.count[p] > 1 /\ x = p + m.count[p] - 1)
      <4>1. ~(p < x /\ x < p + c)
        BY <1>2, <1>4, <3>2, <3>3
      <4> QED BY <1>4, <3>2, <3>3, <4>1
    <3> QED BY <1>7, <2>1, <3>4
  <2>4. m2.next[p] = m.next[FreePage] /\ m2.prev[p] = FreePage
    BY <1>6, <1>7, <2>1a
  <2>5. LinkedFirst(m.next, m.prev, m2.next, m2.prev, M, FreePage, p)
    BY <2>2, <2>3, <2>4 DEF LinkedFirst
  <2>6. p \in Page \ On(M)
    BY <1>4, <1>5
  <2>7. /\ AllLists(m2.next, m2.prev, Add(M, FreePage, p))
        /\ On(Add(M, FreePage, p)) = On(M) \cup {p}
    BY <1>1, <1>5, <2>5, <2>6, AllLink
  <2> QED BY <1>12, <2>7
<1>14. ChunkPages(m2)
  BY <1>1, <1>4, <1>7 DEF ChunkPages
<1>15. Untyped(m2, {})
  BY <1>1, <1>7 DEF Untyped
<1>16. Merged(m2, {})
  <2>1. ASSUME NEW x \in Free(m), NEW q \in Free(m) PROVE x + m.count[x] # q
    <3>1. CASE x = p
      BY <3>1
    <3>2. CASE q = p
      BY <3>2
    <3>3. CASE x # p /\ q # p
      BY <1>1, <3>3 DEF Merged
    <3> QED BY <3>1, <3>2, <3>3
  <2> QED BY <1>7, <1>8, <2>1 DEF Merged
<1>17. LinkedOn(m2, {})
  <2>1. ASSUME NEW q \in Page
        PROVE  m2.next[q] # Null <=> q \in On(M) \cup {p}
    <3>1. q \in Node /\ q # FreePage /\ Null \notin Node
      BY <1>5, NodeFacts
    <3>2. CASE q = p
      BY <1>6, <1>7, <3>1, <3>2
    <3>3. CASE q # p
      <4>1. m.next[q] # Null <=> q \in On(M)
        BY <1>1, <3>3 DEF LinkedOn, M
      <4> QED BY <1>7, <3>1, <3>3, <4>1
    <3> QED BY <3>2, <3>3
  <2> QED BY <1>13, <2>1 DEF LinkedOn
<1>18. Tagged(m2, {})
  <2>1. ASSUME NEW x \in Free(m2), m2.count[x] > 1, x + m2.count[x] < Pages
        PROVE  m2.prev[x + m2.count[x] - 1] = x
    <3>1. x \in Free(m) /\ x \in Page /\ x \in First(m)
      BY <1>8, <2>1 DEF Free, First
    <3>2. PICK k \in Nat : k = m.count[x]
      BY <1>2, <3>1
    <3>3. m2.count[x] = k
      BY <1>7, <3>1, <3>2
    <3>4. PICK l \in Nat : l = x + k - 1
      BY <1>3, <2>1, <3>1, <3>3
    <3>5. x < l /\ l < x + k /\ l \in Page
      BY <1>3, <2>1, <3>1, <3>3, <3>4
    <3>6. l \notin First(m)
      BY <1>2, <3>1, <3>2, <3>5
    <3>7. l # p /\ l # m.next[FreePage] /\ l \in Node
      BY <1>4, <1>6, <3>5, <3>6, FirstOrHead, NodeFacts DEF M
    <3>8. CASE x = p
      <4>1. m.count[p] > 1 /\ l = p + m.count[p] - 1
        BY <2>1, <3>2, <3>3, <3>4, <3>8
      <4> QED BY <1>7, <3>2, <3>3, <3>4, <3>7, <3>8, <4>1
    <3>9. CASE x # p
      <4>1. PICK c \in Nat : c = m.count[p] /\ c > 0
        BY <1>2, <1>4
      <4>2. x + k <= p \/ p + c <= x
        BY <1>2, <1>4, <3>1, <3>2, <3>9, <4>1
      <4>3. x \in Nat
        BY <1>3, <3>1
      <4>4. l # p + c - 1
        BY <1>4, <3>5, <4>1, <4>2, <4>3
      <4>5. m2.prev[l] = m.prev[l]
        BY <1>7, <3>7, <4>1, <4>4
      <4>6. m.prev[x + m.count[x] - 1] = x
        BY <1>1, <2>1, <3>1, <3>2, <3>3, <3>9 DEF Tagged
      <4> QED BY <3>2, <3>3, <3>4, <4>5, <4>6
    <3> QED BY <3>8, <3>9
  <2> QED BY <2>1 DEF Tagged
<1>22. SameUse(m, m2, p) /\ m2.type[p] = Null
  BY <1>4, <1>7 DEF SameUse
<1> QED BY <1>7, <1>8, <1>13, <1>14, <1>15, <1>16, <1>17, <1>18, <1>22 DEF Struct

\* The links of the members and of the heads decide the lists.
LEMMA AllFrame ==
    ASSUME NEW nx, NEW pv, NEW M, AllLists(nx, pv, M), NEW nx2, NEW pv2,
           \A x \in On(M) \cup Lists : nx2[x] = nx[x],
           \A x \in On(M) : pv2[x] = pv[x]
    PROVE  AllLists(nx2, pv2, M)
<1>1. ASSUME NEW g \in Lists PROVE ListOf(nx2, pv2, g, M[g])
  <2>1. M[g] \in SUBSET Page /\ ListOf(nx, pv, g, M[g])
    BY DEF AllLists
  <2>2. M[g] \subseteq On(M)
    BY DEF On
  <2>3. (\A x \in M[g] \cup {g} : nx2[x] = nx[x]) /\ \A x \in M[g] : pv2[x] = pv[x]
    BY <2>2
  <2> QED BY <2>1, <2>3, ChainFrame
<1> QED BY <1>1 DEF AllLists

-----------------------------------------------------------------------------
(* freePages() as a whole.                                                 *)

\* The pages of a block behind its first.
Rest(p, n) == p + 1 .. p + n - 1

\* freePages(): the pages of the block are marked.
Released(m, p, n) ==
    LET rest == Rest(p, n)
    IN  [m EXCEPT
            !.mFreePageCount = @ + n,
            !.count = [q \in Page |-> IF q = p THEN n ELSE IF q \in rest THEN 0 ELSE @[q]],
            !.mark = [q \in Page |-> IF q \in {p} \cup rest THEN "free" ELSE @[q]],
            !.type = [q \in Page |-> IF q \in rest THEN WholePages ELSE @[q]],
            !.next = [q \in Node |-> IF q \in rest THEN Null ELSE @[q]],
            !.prev = [q \in Node |-> IF q \in rest THEN Null ELSE @[q]]]

\* The fields of the pages of the block, and those of the others.
LEMMA ReleasedFields ==
    ASSUME NEW m \in SlabRecord, NEW p \in Page, NEW n \in Nat, NEW rest, rest = Rest(p, n),
           NEW m1, m1 = Released(m, p, n)
    PROVE  /\ m1 \in SlabRecord
           /\ \A x \in Node : m1.next[x] = IF x \in rest THEN Null ELSE m.next[x]
           /\ \A x \in Node : m1.prev[x] = IF x \in rest THEN Null ELSE m.prev[x]
           /\ \A q \in Page : m1.count[q] = IF q = p THEN n ELSE IF q \in rest THEN 0 ELSE m.count[q]
           /\ \A q \in Page : m1.mark[q] = IF q = p \/ q \in rest THEN "free" ELSE m.mark[q]
           /\ \A q \in Page : m1.type[q] = IF q \in rest THEN Null ELSE m.type[q]
           /\ m1.used = m.used /\ m1.mFreePageCount = m.mFreePageCount + n
           /\ m1.mTotal = m.mTotal /\ m1.mUsed = m.mUsed
<1> DEFINE ct == [q \in Page |-> IF q = p THEN n ELSE IF q \in rest THEN 0 ELSE m.count[q]]
           mk == [q \in Page |-> IF q \in {p} \cup rest THEN "free" ELSE m.mark[q]]
           ty == [q \in Page |-> IF q \in rest THEN Null ELSE m.type[q]]
           nx == [q \in Node |-> IF q \in rest THEN Null ELSE m.next[q]]
           pv == [q \in Node |-> IF q \in rest THEN Null ELSE m.prev[q]]
<1>1. m1 = [m EXCEPT !.mFreePageCount = m.mFreePageCount + n, !.count = ct, !.mark = mk,
                     !.type = ty, !.next = nx, !.prev = pv]
  BY DEF Released, WholePages, SlabRecord
<1>2. /\ m.next \in [Node -> Node \cup {Null}] /\ m.prev \in [Node -> Node \cup {Null}]
      /\ m.type \in [Page -> Slot \cup {Null}] /\ m.mark \in [Page -> Marks]
      /\ m.count \in [Page -> Nat] /\ m.mFreePageCount \in Int
  BY RecordFields
<1>3. ct \in [Page -> Nat] /\ mk \in [Page -> Marks] /\ ty \in [Page -> Slot \cup {Null}]
  BY <1>2 DEF Marks
<1>4. nx \in [Node -> Node \cup {Null}] /\ pv \in [Node -> Node \cup {Null}]
  BY <1>2
<1>5. m.mFreePageCount + n \in Int
  BY <1>2
<1>6. /\ \A q \in Page : ct[q] = IF q = p THEN n ELSE IF q \in rest THEN 0 ELSE m.count[q]
      /\ \A q \in Page : mk[q] = IF q \in {p} \cup rest THEN "free" ELSE m.mark[q]
      /\ \A q \in Page : ty[q] = IF q \in rest THEN Null ELSE m.type[q]
      /\ \A q \in Node : nx[q] = IF q \in rest THEN Null ELSE m.next[q]
      /\ \A q \in Node : pv[q] = IF q \in rest THEN Null ELSE m.prev[q]
  OBVIOUS
<1> HIDE DEF ct, mk, ty, nx, pv
<1>7. /\ m1.next = nx /\ m1.prev = pv /\ m1.count = ct /\ m1.mark = mk /\ m1.type = ty
      /\ m1.used = m.used /\ m1.mFreePageCount = m.mFreePageCount + n
      /\ m1.mTotal = m.mTotal /\ m1.mUsed = m.mUsed
  BY <1>1 DEF SlabRecord
<1>8. m1 \in SlabRecord
  BY <1>1, <1>3, <1>4, <1>5 DEF SlabRecord
<1> QED BY <1>6, <1>7, <1>8

\* Then the page leaves the list it was in, if it was in one.
Stage1(m, p, n) ==
    IF m.next[p] # Null THEN Unlink(Released(m, p, n), p) ELSE Released(m, p, n)

\* The same when the page has left its list.
LEMMA Stage1Fields ==
    ASSUME NEW m \in SlabRecord, NEW p \in Page, NEW n \in Nat, NEW rest, rest = Rest(p, n),
           m.next[p] # Null => m.next[p] \in Node /\ m.prev[p] \in Node
                               /\ m.next[p] \notin rest /\ m.prev[p] \notin rest,
           NEW m1, m1 = Stage1(m, p, n)
    PROVE  /\ m1 \in SlabRecord
           /\ \A x \in Node : m1.next[x] = IF x \in rest THEN Null
                                           ELSE IF m.next[p] # Null /\ x = m.prev[p] THEN m.next[p]
                                           ELSE m.next[x]
           /\ \A x \in Node : m1.prev[x] = IF x \in rest THEN Null
                                           ELSE IF m.next[p] # Null /\ x = m.next[p] THEN m.prev[p]
                                           ELSE m.prev[x]
           /\ \A q \in Page : m1.count[q] = IF q = p THEN n ELSE IF q \in rest THEN 0 ELSE m.count[q]
           /\ \A q \in Page : m1.mark[q] = IF q = p \/ q \in rest THEN "free" ELSE m.mark[q]
           /\ \A q \in Page : m1.type[q] = IF q \in rest THEN Null ELSE m.type[q]
           /\ m1.used = m.used /\ m1.mFreePageCount = m.mFreePageCount + n
           /\ m1.mTotal = m.mTotal /\ m1.mUsed = m.mUsed
<1>0. PICK r : r = Released(m, p, n)
  OBVIOUS
<1>1. /\ r \in SlabRecord
      /\ \A x \in Node : r.next[x] = IF x \in rest THEN Null ELSE m.next[x]
      /\ \A x \in Node : r.prev[x] = IF x \in rest THEN Null ELSE m.prev[x]
      /\ \A q \in Page : r.count[q] = IF q = p THEN n ELSE IF q \in rest THEN 0 ELSE m.count[q]
      /\ \A q \in Page : r.mark[q] = IF q = p \/ q \in rest THEN "free" ELSE m.mark[q]
      /\ \A q \in Page : r.type[q] = IF q \in rest THEN Null ELSE m.type[q]
      /\ r.used = m.used /\ r.mFreePageCount = m.mFreePageCount + n
      /\ r.mTotal = m.mTotal /\ r.mUsed = m.mUsed
  BY <1>0, ReleasedFields
<1>2. m1 = IF m.next[p] # Null THEN Unlink(r, p) ELSE r
  BY <1>0 DEF Stage1
<1>3. CASE m.next[p] = Null
  <2>1. m1 = r
    BY <1>2, <1>3
  <2> QED BY <1>1, <1>3, <2>1
<1>4. CASE m.next[p] # Null
  <2>1. p \in Node /\ p \notin rest
    <3>1. p \in Nat
      BY SlabConstants DEF Page
    <3>2. p \notin rest
      BY <3>1 DEF Rest
    <3> QED BY <3>2, NodeFacts
  <2>2. r.next[p] = m.next[p] /\ r.prev[p] = m.prev[p]
    BY <1>1, <2>1
  <2>3. r.next[p] \in Node /\ r.prev[p] \in Node /\ m1 = Unlink(r, p)
    BY <1>2, <1>4, <2>2
  <2>4. /\ m1 \in SlabRecord
        /\ m1.next = [r.next EXCEPT ![r.prev[p]] = r.next[p]]
        /\ m1.prev = [r.prev EXCEPT ![r.next[p]] = r.prev[p]]
        /\ m1.type = r.type /\ m1.mark = r.mark /\ m1.count = r.count /\ m1.used = r.used
        /\ m1.mFreePageCount = r.mFreePageCount /\ m1.mTotal = r.mTotal /\ m1.mUsed = r.mUsed
    BY <1>1, <2>3, UnlinkFields
  <2>5. r.next \in [Node -> Node \cup {Null}] /\ r.prev \in [Node -> Node \cup {Null}]
    BY <1>1, RecordFields
  <2>6. \A x \in Node : m1.next[x] = IF x = m.prev[p] THEN m.next[p] ELSE r.next[x]
    BY <2>2, <2>4, <2>5
  <2>7. \A x \in Node : m1.prev[x] = IF x = m.next[p] THEN m.prev[p] ELSE r.prev[x]
    BY <2>2, <2>4, <2>5
  <2> QED BY <1>1, <1>4, <2>4, <2>6, <2>7
<1> QED BY <1>3, <1>4

\* What it did to the pages, which are p .. p + n - 1.
Stage1Is(m, m1, p, n) ==
    /\ \A q \in Page : m1.mark[q] = IF p <= q /\ q < p + n THEN "free" ELSE m.mark[q]
    /\ \A q \in Page : m1.type[q] = IF p < q /\ q < p + n THEN Null ELSE m.type[q]
    /\ \A q \in Page : ~(p <= q /\ q < p + n) => m1.count[q] = m.count[q]
    /\ m1.used = m.used /\ m1.mFreePageCount = m.mFreePageCount + n
    /\ m1.mTotal = m.mTotal /\ m1.mUsed = m.mUsed

\* The pool is well-formed then, with p a free run that is in no list.
LEMMA Stage1Struct ==
    ASSUME NEW m, Struct(m, {}), NEW p \in First(m), p \notin Free(m), NEW n, n = m.count[p],
           NEW m1, m1 = Stage1(m, p, n)
    PROVE  Struct(m1, {p}) /\ p \in Free(m1) /\ Stage1Is(m, m1, p, n)
<1>0. PICK M, rest : M = Members(m, {}) /\ rest = Rest(p, n)
  OBVIOUS
<1>1. /\ m \in SlabRecord /\ Regions(m) /\ ChunkPages(m)
      /\ Untyped(m, {}) /\ Merged(m, {}) /\ Tagged(m, {}) /\ LinkedOn(m, {})
      /\ AllLists(m.next, m.prev, M)
  BY <1>0 DEF Struct
<1>2. /\ \A x \in First(m) : /\ x \in Page /\ m.count[x] \in Nat
                             /\ m.count[x] > 0 /\ x + m.count[x] <= Pages
      /\ \A x \in First(m), q \in Page : x < q /\ q < x + m.count[x] =>
                /\ q \notin First(m)
                /\ m.mark[q] = IF m.mark[x] = "free" THEN "free" ELSE "busy"
                /\ m.count[q] = IF m.mark[x] = "free" THEN 0 ELSE Pages
      /\ \A x, y \in First(m) : x # y => x + m.count[x] <= y \/ y + m.count[y] <= x
  BY <1>1, RegionFacts
<1>3. /\ Pages \in Nat /\ (\A q \in Page : q \in Nat /\ q < Pages)
      /\ \A q \in Nat : q < Pages => q \in Page
  BY SlabConstants DEF Page
<1>4. p \in Page /\ p \in Nat /\ n \in Nat /\ n > 0 /\ p + n <= Pages /\ m.mark[p] # "free"
  <2>1. p \in Page /\ p \in Nat /\ n \in Nat /\ n > 0 /\ p + n <= Pages
    BY <1>2, <1>3
  <2> QED BY <2>1 DEF Free
<1>5. \A q \in Page : /\ q \in rest <=> p < q /\ q < p + n
                      /\ q = p \/ q \in rest <=> p <= q /\ q < p + n
  BY <1>0, <1>3, <1>4 DEF Rest
<1>6. \A q \in rest : q \in Page /\ q \notin First(m) /\ m.mark[q] = "busy" /\ q # p
  <2>1. TAKE q \in rest
  <2>2. q \in Page
    BY <1>0, <1>3, <1>4 DEF Rest
  <2> QED BY <1>2, <1>4, <1>5, <2>2
<1>7. /\ M \in [Lists -> SUBSET Page] /\ FreePage \in Lists /\ M[FreePage] = Free(m)
      /\ \A s \in Slot : s \in Lists /\ s # FreePage /\ M[s] = Roomy(m, s)
      /\ On(M) = Free(m) \cup {q \in Page : m.mark[q] = "chunks" /\ m.type[q] \in Slot
                                            /\ m.used[q] # 0 .. Chunks[m.type[q]] - 1}
      /\ On(M) \subseteq First(m)
  <2>1. Free(m) \ {} = Free(m)
    OBVIOUS
  <2> QED BY <1>0, <2>1, MembersAre
<1>8. m.next[p] # Null <=> p \in On(M)
  BY <1>0, <1>1, <1>4 DEF LinkedOn
<1>9. ASSUME p \in On(M)
      PROVE  /\ m.type[p] \in Slot /\ p \in M[m.type[p]]
             /\ m.next[p] \in Node /\ m.prev[p] \in Node
             /\ m.next[p] \in On(M) \cup Lists /\ m.prev[p] \in On(M) \cup Lists
             /\ m.next[p] \notin rest /\ m.prev[p] \notin rest
             /\ m.next[p] # p /\ m.prev[p] # p
  <2>1. m.type[p] \in Slot /\ p \in M[m.type[p]]
    BY <1>4, <1>7, <1>9 DEF Roomy
  <2>2. PICK s \in Lists : s = m.type[p] /\ p \in M[s]
    BY <1>7, <2>1
  <2>3. /\ m.next[p] \in M[s] \cup {s} /\ m.next[p] # p
        /\ m.prev[p] \in M[s] \cup {s} /\ m.prev[p] # p
        /\ m.next[p] \in Node /\ m.prev[p] \in Node
    BY <1>1, <2>2, MemberLinks
  <2>4. M[s] \subseteq On(M)
    BY DEF On
  <2>5. \A x \in On(M) \cup Lists : x \notin rest
    BY <1>6, <1>7, NodeFacts
  <2> QED BY <2>1, <2>3, <2>4, <2>5
<1>10. /\ m1 \in SlabRecord
       /\ \A x \in Node : m1.next[x] = IF x \in rest THEN Null
                                       ELSE IF m.next[p] # Null /\ x = m.prev[p] THEN m.next[p]
                                       ELSE m.next[x]
       /\ \A x \in Node : m1.prev[x] = IF x \in rest THEN Null
                                       ELSE IF m.next[p] # Null /\ x = m.next[p] THEN m.prev[p]
                                       ELSE m.prev[x]
       /\ \A q \in Page : m1.count[q] = IF q = p THEN n ELSE IF q \in rest THEN 0 ELSE m.count[q]
       /\ \A q \in Page : m1.mark[q] = IF q = p \/ q \in rest THEN "free" ELSE m.mark[q]
       /\ \A q \in Page : m1.type[q] = IF q \in rest THEN Null ELSE m.type[q]
       /\ m1.used = m.used /\ m1.mFreePageCount = m.mFreePageCount + n
       /\ m1.mTotal = m.mTotal /\ m1.mUsed = m.mUsed
  BY <1>0, <1>1, <1>4, <1>8, <1>9, Stage1Fields
<1>11. Regions(m1) /\ Free(m1) = Free(m) \cup {p} /\ First(m1) = First(m)
  <2>1. \A q \in Page : m1.mark[q] = IF q \in p .. p + n - 1 THEN "free" ELSE m.mark[q]
    <3>1. \A q \in Page : q \in p .. p + n - 1 <=> q = p \/ q \in rest
      BY <1>0, <1>3, <1>4 DEF Rest
    <3> QED BY <1>10, <3>1
  <2>2. \A q \in Page : m1.count[q] = IF q = p THEN n
                                      ELSE IF q \in p + 1 .. p + n - 1 THEN 0 ELSE m.count[q]
    BY <1>0, <1>10 DEF Rest
  <2> QED BY <1>1, <1>10, <2>1, <2>2, RegionsRelease
<1>12. ASSUME NEW q \in Page
       PROVE  /\ m1.mark[q] = "chunks" <=> m.mark[q] = "chunks" /\ q # p
              /\ m1.mark[q] = "chunks" => m1.type[q] = m.type[q]
  BY <1>4, <1>6, <1>10
<1>13. \A s \in Slot : Roomy(m1, s) = Roomy(m, s) \ {p}
  <2>1. \A s \in Slot, q \in Page : q \in Roomy(m1, s) <=> q \in Roomy(m, s) /\ q # p
    BY <1>10, <1>12 DEF Roomy
  <2>2. \A s \in Slot : Roomy(m1, s) \subseteq Page /\ Roomy(m, s) \subseteq Page
    BY DEF Roomy
  <2> QED BY <2>1, <2>2
<1>14. Free(m1) \ {p} = Free(m)
  BY <1>11
<1>15. \A x \in On(M) \cup Lists : x \in Node /\ x \notin rest
  BY <1>2, <1>6, <1>7, NodeFacts
<1>16. /\ AllLists(m1.next, m1.prev, Members(m1, {p}))
       /\ On(Members(m1, {p})) = On(M) \ {p}
  <2>1. CASE p \in On(M)
    <3>1. PICK s \in Slot : s = m.type[p] /\ p \in M[s]
      BY <1>9, <2>1
    <3>2. Members(m1, {p}) = Drop(M, s, p)
      <4>1. PICK M2 : M2 = Drop(M, s, p)
        OBVIOUS
      <4>2. \A t \in Slot : t # s => p \notin Roomy(m, t)
        BY <3>1 DEF Roomy
      <4>3. M2 \in [Lists -> SUBSET Page] /\ M2[FreePage] = Free(m1) \ {p}
            /\ \A t \in Slot : M2[t] = Roomy(m1, t)
        <5>1. /\ M2 \in [Lists -> SUBSET Page] /\ M2[s] = M[s] \ {p}
              /\ \A h \in Lists : h # s => M2[h] = M[h]
          BY <1>7, <4>1 DEF Drop
        <5>2. M2[FreePage] = Free(m1) \ {p}
          BY <1>7, <1>14, <5>1
        <5>3. \A t \in Slot : t # s => Roomy(m, t) \ {p} = Roomy(m, t)
          BY <4>2
        <5>4. \A t \in Slot : t # s => M2[t] = Roomy(m1, t)
          BY <1>7, <1>13, <5>1, <5>3
        <5>5. M2[s] = Roomy(m1, s)
          BY <1>7, <1>13, <5>1
        <5> QED BY <5>1, <5>2, <5>4, <5>5
      <4>4. Members(m1, {p}) = M2
        BY <4>3, MembersEqual
      <4> QED BY <4>1, <4>4
    <3>3. \A x \in (On(M) \ {p}) \cup Lists :
             m1.next[x] = IF x = m.prev[p] THEN m.next[p] ELSE m.next[x]
      BY <1>8, <1>10, <1>15, <2>1
    <3>4. \A x \in On(M) \ {p} : m1.prev[x] = IF x = m.next[p] THEN m.prev[p] ELSE m.prev[x]
      BY <1>8, <1>10, <1>15, <2>1
    <3>5. Unlinked(m.next, m.prev, m1.next, m1.prev, M, p)
      BY <3>3, <3>4 DEF Unlinked
    <3>6. s \in Lists
      BY <1>7
    <3>7. /\ AllLists(m1.next, m1.prev, Drop(M, s, p))
          /\ On(Drop(M, s, p)) = On(M) \ {p}
      BY <1>1, <3>1, <3>5, <3>6, AllUnlink
    <3> QED BY <3>2, <3>7
  <2>2. CASE p \notin On(M)
    <3>1. Members(m1, {p}) = M
      <4>1. \A t \in Slot : p \notin M[t]
        BY <1>7, <2>2 DEF On
      <4>2. M \in [Lists -> SUBSET Page] /\ M[FreePage] = Free(m1) \ {p}
            /\ \A t \in Slot : M[t] = Roomy(m1, t)
        BY <1>7, <1>13, <1>14, <4>1
      <4> QED BY <4>2, MembersEqual
    <3>2. /\ \A x \in On(M) \cup Lists : m1.next[x] = m.next[x]
          /\ \A x \in On(M) : m1.prev[x] = m.prev[x]
      BY <1>8, <1>10, <1>15, <2>2
    <3>3. AllLists(m1.next, m1.prev, M)
      BY <1>1, <3>2, AllFrame
    <3> QED BY <2>2, <3>1, <3>3
  <2> QED BY <2>1, <2>2
<1>17. ChunkPages(m1)
  BY <1>1, <1>10, <1>12 DEF ChunkPages
<1>18. Untyped(m1, {p})
  <2>1. ASSUME NEW q \in Page \ {p}, m1.mark[q] # "chunks" PROVE m1.type[q] = Null
    <3>1. CASE q \in rest
      BY <1>10, <3>1
    <3>2. CASE q \notin rest
      <4>1. m1.mark[q] = m.mark[q] /\ m1.type[q] = m.type[q]
        BY <1>10, <3>2
      <4> QED BY <1>1, <2>1, <4>1 DEF Untyped
    <3> QED BY <3>1, <3>2
  <2> QED BY <2>1 DEF Untyped
<1>19. \A x \in Free(m) : x \in First(m) /\ x \in Page /\ x # p /\ m1.count[x] = m.count[x]
  <2>1. TAKE x \in Free(m)
  <2>2. x \in First(m) /\ x \in Page /\ x # p
    BY DEF First, Free
  <2>3. x \notin rest
    BY <1>6, <2>2
  <2> QED BY <1>10, <2>2, <2>3
<1>20. Merged(m1, {p})
  BY <1>1, <1>14, <1>19 DEF Merged
<1>21. LinkedOn(m1, {p})
  <2>1. ASSUME NEW q \in Page \ {p}
        PROVE  m1.next[q] # Null <=> q \in On(M) \ {p}
    <3>1. q \in Node /\ Null \notin Node
      BY NodeFacts
    <3>2. CASE q \in rest
      <4>1. q \notin On(M)
        BY <1>15, <3>2
      <4> QED BY <1>10, <3>1, <3>2, <4>1
    <3>3. CASE q \notin rest
      <4>1. m.next[q] # Null <=> q \in On(M)
        BY <1>0, <1>1 DEF LinkedOn
      <4>2. m.next[p] # Null /\ q = m.prev[p] => q \in On(M)
        BY <1>8, <1>9, NodeFacts
      <4> QED BY <1>10, <3>1, <3>3, <4>1, <4>2
    <3> QED BY <3>2, <3>3
  <2> QED BY <1>16, <2>1 DEF LinkedOn
<1>22. Tagged(m1, {p})
  <2>1. ASSUME NEW x \in Free(m1) \ {p}, m1.count[x] > 1, x + m1.count[x] < Pages
        PROVE  m1.prev[x + m1.count[x] - 1] = x
    <3>1. x \in Free(m) /\ x \in Page /\ x \in First(m) /\ x # p /\ x \in Nat
      BY <1>3, <1>14, <1>19
    <3>2. PICK k \in Nat : k = m.count[x]
      BY <1>2, <3>1
    <3>3. m1.count[x] = k
      BY <1>19, <3>1, <3>2
    <3>4. PICK l \in Nat : l = x + k - 1
      BY <2>1, <3>1, <3>3
    <3>5. x < l /\ l < x + k /\ l \in Page
      BY <1>3, <2>1, <3>1, <3>3, <3>4
    <3>6. l \notin First(m)
      BY <1>2, <3>1, <3>2, <3>5
    <3>7. l \notin rest
      <4>1. x + k <= p \/ p + n <= x
        BY <1>2, <3>1, <3>2
      <4>2. ~(p < l /\ l < p + n)
        BY <1>4, <3>1, <3>5, <4>1
      <4> QED BY <1>5, <3>5, <4>2
    <3>8. m.next[p] # Null => l # m.next[p]
      BY <1>7, <1>8, <1>9, <3>5, <3>6, NodeFacts
    <3>9. m1.prev[l] = m.prev[l]
      <4>1. l \in Node
        BY <3>5, NodeFacts
      <4> QED BY <1>10, <3>7, <3>8, <4>1
    <3>10. m.prev[x + m.count[x] - 1] = x
      BY <1>1, <2>1, <3>1, <3>2, <3>3 DEF Tagged
    <3> QED BY <3>2, <3>3, <3>4, <3>9, <3>10
  <2> QED BY <2>1 DEF Tagged
<1>23. p \in Free(m1)
  BY <1>11
<1>24. Stage1Is(m, m1, p, n)
  BY <1>5, <1>10 DEF Stage1Is
<1> QED BY <1>10, <1>11, <1>16, <1>17, <1>18, <1>20, <1>21, <1>22, <1>23, <1>24 DEF Struct

\* What freePages() did to the pages.
FreePagesIs(m, m2, p, n) ==
    /\ \A q \in Page : m2.mark[q] = IF p <= q /\ q < p + n THEN "free" ELSE m.mark[q]
    /\ \A q \in Page : m2.type[q] = IF p <= q /\ q < p + n THEN Null ELSE m.type[q]
    /\ \A q \in Page : m.mark[q] # "free" /\ ~(p <= q /\ q < p + n) => m2.count[q] = m.count[q]
    /\ m2.used = m.used /\ m2.mFreePageCount = m.mFreePageCount + n
    /\ m2.mTotal = m.mTotal /\ m2.mUsed = m.mUsed

\* freePages(): after it the pages of the block belong to a free run.
LEMMA FreePagesStruct ==
    ASSUME NEW m, Struct(m, {}), NEW p \in First(m), p \notin Free(m), NEW n, n = m.count[p],
           NEW m4, m4 = FreePages(m, p, n)
    PROVE  Struct(m4, {}) /\ FreePagesIs(m, m4, p, n)
<1>1. PICK m1, m2 : m1 = Stage1(m, p, n) /\ m2 = JoinNext(m1, p)
  OBVIOUS
<1>2. m4 = IF JoinsPrevious(m2, p) THEN AddRun(JoinPrevious(m2, p), Before(m2, p)) ELSE AddRun(m2, p)
  BY <1>1 DEF FreePages, Stage1, Released, Rest
<1>3a. Struct(m1, {p}) /\ p \in Free(m1) /\ Stage1Is(m, m1, p, n)
  BY <1>1, Stage1Struct
<1>3. /\ Struct(m1, {p}) /\ p \in Free(m1)
      /\ \A q \in Page : m1.mark[q] = IF p <= q /\ q < p + n THEN "free" ELSE m.mark[q]
      /\ \A q \in Page : m1.type[q] = IF p < q /\ q < p + n THEN Null ELSE m.type[q]
      /\ \A q \in Page : ~(p <= q /\ q < p + n) => m1.count[q] = m.count[q]
      /\ m1.used = m.used /\ m1.mFreePageCount = m.mFreePageCount + n
      /\ m1.mTotal = m.mTotal /\ m1.mUsed = m.mUsed
  BY <1>3a DEF Stage1Is
<1>4. /\ Struct(m2, {p}) /\ SameUse(m1, m2, p)
      /\ p \in Free(m2) /\ p + m2.count[p] \notin Free(m2)
  BY <1>1, <1>3, JoinNextStruct
<1>5. /\ m2 \in SlabRecord /\ Regions(m2) /\ Untyped(m2, {p}) /\ m \in SlabRecord /\ Regions(m)
  BY <1>4 DEF Struct
<1>6. /\ \A x \in First(m2) : /\ x \in Page /\ m2.count[x] \in Nat
                              /\ m2.count[x] > 0 /\ x + m2.count[x] <= Pages
      /\ \A x, y \in First(m2) : x # y => x + m2.count[x] <= y \/ y + m2.count[y] <= x
      /\ \A x \in First(m2) : x > 0 => \E r \in First(m2) : r + m2.count[r] = x
  BY <1>5, RegionFacts
<1>6a. m.count[p] \in Nat /\ m.count[p] > 0 /\ p \in Page /\ p + m.count[p] <= Pages
  BY <1>5, RegionFacts
<1>7. \A q \in Page : q \in Nat
  BY SlabConstants DEF Page
<1>8. p \in First(m2) /\ p \in Page /\ p \in Nat /\ n \in Nat /\ n > 0
  BY <1>4, <1>6a, <1>7 DEF First
<1>9. CASE JoinsPrevious(m2, p)
  <2>1. p > 0
    BY <1>9 DEF JoinsPrevious
  <2>2. PICK r \in First(m2) : r + m2.count[r] = p
    BY <1>6, <1>8, <2>1
  <2>3. r \in Free(m2) /\ Before(m2, p) = r
    BY <1>4, <1>9, <2>1, <2>2, BeforeIs
  <2>4. PICK m3 : m3 = JoinPrevious(m2, p)
    OBVIOUS
  <2>5. /\ Struct(m3, {r}) /\ SameUse(m2, m3, p) /\ m3.type[p] = Null
        /\ r \in Free(m3) /\ r + m3.count[r] \notin Free(m3)
        /\ \A x \in Free(m3) : x + m3.count[x] # r
    BY <1>4, <2>2, <2>3, <2>4, JoinPreviousStruct
  <2>6. m4 = AddRun(m3, r)
    BY <1>2, <1>9, <2>3, <2>4
  <2>7. Struct(m4, {}) /\ SameUse(m3, m4, r) /\ m4.type[r] = Null
    BY <2>5, <2>6, AddRunStruct
  <2>8. r \in Page /\ r \in Nat /\ r < p /\ r # p
    <3>1. r \in Page /\ r \in Nat /\ m2.count[r] \in Nat /\ m2.count[r] > 0
      BY <1>6, <1>7, <2>2
    <3> QED BY <2>2, <3>1
  <2>9. m2.mark[r] = "free"
    BY <2>3 DEF Free
  <2>10. m2.type[r] = Null
    BY <1>5, <2>8, <2>9 DEF Untyped
  <2>11. \A q \in Page : m4.type[q] = IF p <= q /\ q < p + n THEN Null ELSE m.type[q]
    <3>1. TAKE q \in Page
    <3>2. q \in Nat
      BY <1>7
    <3>3. CASE q = p
      <4>1. m4.type[q] = m3.type[q]
        BY <2>7, <2>8, <3>3 DEF SameUse
      <4>2. p <= q /\ q < p + n
        BY <1>8, <3>3
      <4> QED BY <2>5, <3>3, <4>1, <4>2
    <3>4. CASE q = r
      <4>1. m2.type[q] = m1.type[q]
        BY <1>4, <2>8, <3>4 DEF SameUse
      <4>2. m1.type[q] = m.type[q] /\ ~(p <= q)
        BY <1>3, <1>8, <2>8, <3>4
      <4> QED BY <2>7, <2>10, <3>4, <4>1, <4>2
    <3>5. CASE q # p /\ q # r
      <4>1. m4.type[q] = m1.type[q]
        BY <1>4, <2>5, <2>7, <3>5 DEF SameUse
      <4>2. p < q /\ q < p + n <=> p <= q /\ q < p + n
        BY <1>8, <3>2, <3>5
      <4> QED BY <1>3, <4>1, <4>2
    <3> QED BY <3>3, <3>4, <3>5
  <2>12. /\ m4.mark = m1.mark /\ m4.used = m1.used
         /\ m4.mFreePageCount = m1.mFreePageCount /\ m4.mTotal = m1.mTotal /\ m4.mUsed = m1.mUsed
    BY <1>4, <2>5, <2>7 DEF SameUse
  <2>13. \A q \in Page : m.mark[q] # "free" /\ ~(p <= q /\ q < p + n) => m4.count[q] = m.count[q]
    BY <1>3, <1>4, <2>5, <2>7 DEF SameUse
  <2> QED BY <1>3, <2>7, <2>11, <2>12, <2>13 DEF FreePagesIs
<1>10. CASE ~JoinsPrevious(m2, p)
  <2>1. \A x \in Free(m2) : x + m2.count[x] # p
    <3>1. SUFFICES ASSUME NEW x \in Free(m2), x + m2.count[x] = p PROVE FALSE
      OBVIOUS
    <3>2. x \in First(m2) /\ x \in Nat
      BY <1>6, <1>7, <3>1 DEF First
    <3>3. m2.count[x] \in Nat /\ m2.count[x] > 0
      BY <1>6, <3>2
    <3>4. p > 0
      BY <3>1, <3>2, <3>3
    <3> QED BY <1>4, <1>10, <3>1, <3>2, <3>4, BeforeIs
  <2>2. m4 = AddRun(m2, p)
    BY <1>2, <1>10
  <2>3. Struct(m4, {}) /\ SameUse(m2, m4, p) /\ m4.type[p] = Null
    BY <1>4, <2>1, <2>2, AddRunStruct
  <2>4. \A q \in Page : m4.type[q] = IF p <= q /\ q < p + n THEN Null ELSE m.type[q]
    <3>1. TAKE q \in Page
    <3>2. q \in Nat
      BY <1>7
    <3>3. CASE q = p
      <4>1. p <= q /\ q < p + n
        BY <1>8, <3>3
      <4> QED BY <2>3, <3>3, <4>1
    <3>4. CASE q # p
      <4>1. m4.type[q] = m1.type[q]
        BY <1>4, <2>3, <3>4 DEF SameUse
      <4>2. p < q /\ q < p + n <=> p <= q /\ q < p + n
        BY <1>8, <3>2, <3>4
      <4> QED BY <1>3, <4>1, <4>2
    <3> QED BY <3>3, <3>4
  <2>5. /\ m4.mark = m1.mark /\ m4.used = m1.used
        /\ m4.mFreePageCount = m1.mFreePageCount /\ m4.mTotal = m1.mTotal /\ m4.mUsed = m1.mUsed
    BY <1>4, <2>3 DEF SameUse
  <2>6. \A q \in Page : m.mark[q] # "free" /\ ~(p <= q /\ q < p + n) => m4.count[q] = m.count[q]
    BY <1>3, <1>4, <2>3 DEF SameUse
  <2> QED BY <1>3, <2>3, <2>4, <2>5, <2>6 DEF FreePagesIs
<1> QED BY <1>9, <1>10

-----------------------------------------------------------------------------
(* allocPages().                                                           *)

\* The pages of a block.
Run(p, n) == p .. p + n - 1

\* allocPages(): the pages of the block are marked.
Taken(m, p, n) ==
    LET run == Run(p, n)
    IN  [m EXCEPT
            !.count = [q \in Page |-> IF q = p THEN n ELSE IF q \in run THEN Pages ELSE @[q]],
            !.mark = [q \in Page |-> IF q = p THEN "start" ELSE IF q \in run THEN "busy" ELSE @[q]],
            !.next = [q \in Node |-> IF q \in run THEN Null ELSE @[q]],
            !.prev = [q \in Node |-> IF q \in run THEN Null ELSE @[q]],
            !.type = [q \in Page |-> IF q \in run THEN WholePages ELSE @[q]],
            !.mFreePageCount = @ - n]

\* What that does to the fields.
TakenIs(m, m1, p, n, run) ==
    /\ m1 \in SlabRecord
    /\ \A x \in Node : m1.next[x] = IF x \in run THEN Null ELSE m.next[x]
    /\ \A x \in Node : m1.prev[x] = IF x \in run THEN Null ELSE m.prev[x]
    /\ \A q \in Page : m1.count[q] = IF q = p THEN n ELSE IF q \in run THEN Pages ELSE m.count[q]
    /\ \A q \in Page : m1.mark[q] = IF q = p THEN "start" ELSE IF q \in run THEN "busy" ELSE m.mark[q]
    /\ \A q \in Page : m1.type[q] = IF q \in run THEN Null ELSE m.type[q]
    /\ m1.used = m.used /\ m1.mFreePageCount = m.mFreePageCount - n
    /\ m1.mTotal = m.mTotal /\ m1.mUsed = m.mUsed

\* The fields of the pages of the block, and those of the others.
LEMMA TakenFields ==
    ASSUME NEW m \in SlabRecord, NEW p \in Page, NEW n \in Nat, NEW run, run = Run(p, n),
           NEW m1, m1 = Taken(m, p, n)
    PROVE  TakenIs(m, m1, p, n, run)
<1> DEFINE ct == [q \in Page |-> IF q = p THEN n ELSE IF q \in run THEN Pages ELSE m.count[q]]
           mk == [q \in Page |-> IF q = p THEN "start" ELSE IF q \in run THEN "busy" ELSE m.mark[q]]
           ty == [q \in Page |-> IF q \in run THEN Null ELSE m.type[q]]
           nx == [q \in Node |-> IF q \in run THEN Null ELSE m.next[q]]
           pv == [q \in Node |-> IF q \in run THEN Null ELSE m.prev[q]]
<1>1. m1 = [m EXCEPT !.mFreePageCount = m.mFreePageCount - n, !.count = ct, !.mark = mk,
                     !.type = ty, !.next = nx, !.prev = pv]
  BY DEF Taken, WholePages, SlabRecord
<1>2. /\ m.next \in [Node -> Node \cup {Null}] /\ m.prev \in [Node -> Node \cup {Null}]
      /\ m.type \in [Page -> Slot \cup {Null}] /\ m.mark \in [Page -> Marks]
      /\ m.count \in [Page -> Nat] /\ m.mFreePageCount \in Int /\ Pages \in Nat
  BY RecordFields, SlabConstants
<1>3. ct \in [Page -> Nat] /\ mk \in [Page -> Marks] /\ ty \in [Page -> Slot \cup {Null}]
  BY <1>2 DEF Marks
<1>4. nx \in [Node -> Node \cup {Null}] /\ pv \in [Node -> Node \cup {Null}]
  BY <1>2
<1>5. m.mFreePageCount - n \in Int
  BY <1>2
<1>6. /\ \A q \in Page : ct[q] = IF q = p THEN n ELSE IF q \in run THEN Pages ELSE m.count[q]
      /\ \A q \in Page : mk[q] = IF q = p THEN "start" ELSE IF q \in run THEN "busy" ELSE m.mark[q]
      /\ \A q \in Page : ty[q] = IF q \in run THEN Null ELSE m.type[q]
      /\ \A q \in Node : nx[q] = IF q \in run THEN Null ELSE m.next[q]
      /\ \A q \in Node : pv[q] = IF q \in run THEN Null ELSE m.prev[q]
  OBVIOUS
<1> HIDE DEF ct, mk, ty, nx, pv
<1>7. /\ m1.next = nx /\ m1.prev = pv /\ m1.count = ct /\ m1.mark = mk /\ m1.type = ty
      /\ m1.used = m.used /\ m1.mFreePageCount = m.mFreePageCount - n
      /\ m1.mTotal = m.mTotal /\ m1.mUsed = m.mUsed
  BY <1>1 DEF SlabRecord
<1>8. m1 \in SlabRecord
  BY <1>1, <1>3, <1>4, <1>5 DEF SlabRecord
<1> QED BY <1>6, <1>7, <1>8 DEF TakenIs

\* What SplitRun does to the fields.
SplitIs(m, m1, p, n, e, l) ==
    /\ m1 \in SlabRecord
    /\ \A x \in Node : m1.next[x] = IF x = m.prev[p] THEN e
                                    ELSE IF x = e THEN m.next[p] ELSE m.next[x]
    /\ \A x \in Node : m1.prev[x] = IF x = m.next[p] THEN e
                                    ELSE IF x = e THEN m.prev[p]
                                    ELSE IF x = l THEN e ELSE m.prev[x]
    /\ \A q \in Page : m1.count[q] = IF q = e THEN m.count[p] - n ELSE m.count[q]
    /\ m1.type = m.type /\ m1.mark = m.mark /\ m1.used = m.used
    /\ m1.mFreePageCount = m.mFreePageCount /\ m1.mTotal = m.mTotal /\ m1.mUsed = m.mUsed

\* allocPages(): the rest of a run that is split, at page e, takes the links of p.
LEMMA SplitFields ==
    ASSUME NEW m \in SlabRecord, NEW p \in Page, NEW n \in Nat, n < m.count[p],
           m.next[p] \in Node, m.prev[p] \in Node,
           NEW e \in Page, e = p + n, m.prev[p] # e, m.next[p] # e,
           NEW l \in Page, l = p + m.count[p] - 1,
           NEW m1, m1 = SplitRun(m, p, n)
    PROVE  SplitIs(m, m1, p, n, e, l)
<1> DEFINE ct == [m.count EXCEPT ![e] = m.count[p] - n]
           nx == [[m.next EXCEPT ![e] = m.next[p]] EXCEPT ![m.prev[p]] = e]
           pv == [[[m.prev EXCEPT ![l] = e] EXCEPT ![e] = m.prev[p]] EXCEPT ![m.next[p]] = e]
<1>1. m1 = [m EXCEPT !.count = ct, !.next = nx, !.prev = pv]
  BY DEF SplitRun, SlabRecord
<1>2. /\ m.next \in [Node -> Node \cup {Null}] /\ m.prev \in [Node -> Node \cup {Null}]
      /\ m.count \in [Page -> Nat] /\ e \in Node /\ l \in Node
  BY RecordFields, NodeFacts
<1>3. ct \in [Page -> Nat]
  <2>1. m.count[p] - n \in Nat
    BY <1>2
  <2> QED BY <1>2, <2>1
<1>4. nx \in [Node -> Node \cup {Null}] /\ pv \in [Node -> Node \cup {Null}]
  BY <1>2
<1>5. /\ \A q \in Page : ct[q] = IF q = e THEN m.count[p] - n ELSE m.count[q]
      /\ \A x \in Node : nx[x] = IF x = m.prev[p] THEN e ELSE IF x = e THEN m.next[p] ELSE m.next[x]
      /\ \A x \in Node : pv[x] = IF x = m.next[p] THEN e
                                 ELSE IF x = e THEN m.prev[p]
                                 ELSE IF x = l THEN e ELSE m.prev[x]
  BY <1>2
<1> HIDE DEF ct, nx, pv
<1>7. /\ m1.next = nx /\ m1.prev = pv /\ m1.count = ct /\ m1.mark = m.mark /\ m1.type = m.type
      /\ m1.used = m.used /\ m1.mFreePageCount = m.mFreePageCount
      /\ m1.mTotal = m.mTotal /\ m1.mUsed = m.mUsed
  BY <1>1 DEF SlabRecord
<1>8. m1 \in SlabRecord
  BY <1>1, <1>3, <1>4 DEF SlabRecord
<1> QED BY <1>5, <1>7, <1>8 DEF SplitIs

\* What allocPages() did to the pages.
AllocPagesIs(m, m2, p, n) ==
    /\ \A q \in Page : m2.mark[q] = IF q = p THEN "start"
                                    ELSE IF p < q /\ q < p + n THEN "busy" ELSE m.mark[q]
    /\ \A q \in Page : m2.type[q] = m.type[q]
    /\ m2.count[p] = n /\ \A q \in First(m) \ {p} : m2.count[q] = m.count[q]
    /\ m2.next[p] = Null
    /\ m2.used = m.used /\ m2.mFreePageCount = m.mFreePageCount - n
    /\ m2.mTotal = m.mTotal /\ m2.mUsed = m.mUsed

\* What both cases of allocPages() start from.
FreeRunIs(m, M, p, n, run) ==
    /\ M = Members(m, {}) /\ run = Run(p, n)
    /\ m \in SlabRecord /\ Regions(m) /\ ChunkPages(m)
    /\ Untyped(m, {}) /\ Merged(m, {}) /\ Tagged(m, {}) /\ LinkedOn(m, {})
    /\ AllLists(m.next, m.prev, M)
    /\ M \in [Lists -> SUBSET Page] /\ FreePage \in Lists /\ M[FreePage] = Free(m)
    /\ \A s \in Slot : s \in Lists /\ s # FreePage /\ M[s] = Roomy(m, s)
    /\ On(M) \subseteq First(m)
    /\ p \in First(m) /\ p \in Page /\ p \in Nat /\ m.mark[p] = "free" /\ p \in M[FreePage]
    /\ m.count[p] \in Nat /\ p + m.count[p] <= Pages
    /\ m.next[p] \in Node /\ m.prev[p] \in Node
    /\ m.next[p] \in On(M) \cup Lists /\ m.prev[p] \in On(M) \cup Lists
    /\ m.next[p] # p /\ m.prev[p] # p
    /\ \A q \in run : q \in Page /\ m.mark[q] = "free" /\ m.type[q] = Null
                      /\ (q # p => q \notin First(m))
    /\ \A q \in Page : q \in run <=> p <= q /\ q < p + n
    /\ \A x \in (On(M) \ {p}) \cup Lists : x \in Node /\ x \notin run

\* It holds of every free run that is large enough.
LEMMA FreeRunFacts ==
    ASSUME NEW m, Struct(m, {}), NEW p \in Free(m), NEW n \in Nat, n > 0, n <= m.count[p],
           NEW M, M = Members(m, {}), NEW run, run = Run(p, n)
    PROVE  FreeRunIs(m, M, p, n, run)
<1>1. /\ m \in SlabRecord /\ Regions(m) /\ ChunkPages(m)
      /\ Untyped(m, {}) /\ Merged(m, {}) /\ Tagged(m, {}) /\ LinkedOn(m, {})
      /\ AllLists(m.next, m.prev, M)
  BY DEF Struct
<1>2. /\ \A x \in First(m) : /\ x \in Page /\ m.count[x] \in Nat
                             /\ m.count[x] > 0 /\ x + m.count[x] <= Pages
      /\ \A x \in First(m), q \in Page : x < q /\ q < x + m.count[x] =>
                /\ q \notin First(m)
                /\ m.mark[q] = IF m.mark[x] = "free" THEN "free" ELSE "busy"
  BY <1>1, RegionFacts
<1>3. /\ Pages \in Nat /\ (\A q \in Page : q \in Nat /\ q < Pages)
      /\ \A q \in Nat : q < Pages => q \in Page
  BY SlabConstants DEF Page
<1>4. p \in First(m) /\ p \in Page /\ p \in Nat /\ m.mark[p] = "free"
  BY <1>3 DEF First, Free
<1>5. PICK c \in Nat : c = m.count[p] /\ p + c <= Pages
  BY <1>2, <1>4
<1>6. /\ M \in [Lists -> SUBSET Page] /\ FreePage \in Lists /\ M[FreePage] = Free(m)
      /\ \A s \in Slot : s \in Lists /\ s # FreePage /\ M[s] = Roomy(m, s)
      /\ On(M) \subseteq First(m)
  <2>1. Free(m) \ {} = Free(m)
    OBVIOUS
  <2> QED BY <2>1, MembersAre
<1>7. /\ m.next[p] \in Node /\ m.prev[p] \in Node
      /\ m.next[p] # p /\ m.prev[p] # p
      /\ m.next[p] \in On(M) \cup Lists /\ m.prev[p] \in On(M) \cup Lists
      /\ p \in M[FreePage]
  <2>1. p \in Page \ {}
    BY <1>4
  <2> QED BY <2>1, FreeMember
<1>8. \A q \in Page : q \in run <=> p <= q /\ q < p + n
  BY <1>3, <1>4 DEF Run
<1>9. ASSUME NEW q \in run
      PROVE  q \in Page /\ m.mark[q] = "free" /\ m.type[q] = Null /\ (q # p => q \notin First(m))
  <2>1. q \in Page /\ q \in Nat /\ p <= q /\ q < p + n
    BY <1>3, <1>4, <1>5 DEF Run
  <2>2. q # p => p < q /\ q < p + m.count[p]
    BY <1>4, <1>5, <2>1
  <2>3. m.mark[q] = "free" /\ (q # p => q \notin First(m))
    BY <1>2, <1>4, <2>1, <2>2
  <2>4. m.type[q] = Null
    BY <1>1, <2>1, <2>3 DEF Untyped
  <2> QED BY <2>1, <2>3, <2>4
<1>10. \A x \in (On(M) \ {p}) \cup Lists : x \in Node /\ x \notin run
  BY <1>2, <1>6, <1>9, NodeFacts
<1> QED BY <1>1, <1>2, <1>4, <1>6, <1>7, <1>8, <1>9, <1>10 DEF FreeRunIs

\* allocPages(): the whole run is taken.
LEMMA TakeWhole ==
    ASSUME NEW m, Struct(m, {}), NEW p \in Free(m), NEW n \in Nat, n > 0, n = m.count[p],
           NEW m2, m2 = Taken(Unlink(m, p), p, n)
    PROVE  Struct(m2, {}) /\ AllocPagesIs(m, m2, p, n)
<1>0. PICK M, run : M = Members(m, {}) /\ run = Run(p, n)
  OBVIOUS
<1>1. FreeRunIs(m, M, p, n, run)
  BY <1>0, FreeRunFacts
<1>2. /\ \A x \in First(m) : /\ x \in Page /\ m.count[x] \in Nat
                             /\ m.count[x] > 0 /\ x + m.count[x] <= Pages
      /\ \A x \in First(m), q \in Page : x < q /\ q < x + m.count[x] => q \notin First(m)
      /\ \A x, y \in First(m) : x # y => x + m.count[x] <= y \/ y + m.count[y] <= x
  BY <1>1, RegionFacts DEF FreeRunIs
<1>3. /\ Pages \in Nat /\ (\A q \in Page : q \in Nat /\ q < Pages)
      /\ \A q \in Nat : q < Pages => q \in Page
  BY SlabConstants DEF Page
<1>4. PICK u : u = Unlink(m, p)
  OBVIOUS
<1>5. /\ u \in SlabRecord
      /\ u.next = [m.next EXCEPT ![m.prev[p]] = m.next[p]]
      /\ u.prev = [m.prev EXCEPT ![m.next[p]] = m.prev[p]]
      /\ u.type = m.type /\ u.mark = m.mark /\ u.count = m.count /\ u.used = m.used
      /\ u.mFreePageCount = m.mFreePageCount /\ u.mTotal = m.mTotal /\ u.mUsed = m.mUsed
  BY <1>1, <1>4, UnlinkFields DEF FreeRunIs
<1>6. /\ m2 \in SlabRecord
      /\ \A x \in Node : m2.next[x] = IF x \in run THEN Null ELSE u.next[x]
      /\ \A x \in Node : m2.prev[x] = IF x \in run THEN Null ELSE u.prev[x]
      /\ \A q \in Page : m2.count[q] = IF q = p THEN n ELSE IF q \in run THEN Pages ELSE u.count[q]
      /\ \A q \in Page : m2.mark[q] = IF q = p THEN "start" ELSE IF q \in run THEN "busy" ELSE u.mark[q]
      /\ \A q \in Page : m2.type[q] = IF q \in run THEN Null ELSE u.type[q]
      /\ m2.used = u.used /\ m2.mFreePageCount = u.mFreePageCount - n
      /\ m2.mTotal = u.mTotal /\ m2.mUsed = u.mUsed
  <2>1. m2 = Taken(u, p, n) /\ p \in Page
    BY <1>1, <1>4 DEF FreeRunIs
  <2>2. TakenIs(u, m2, p, n, run)
    BY <1>0, <1>5, <2>1, TakenFields
  <2> QED BY <2>2 DEF TakenIs
<1>7. /\ m.next \in [Node -> Node \cup {Null}] /\ m.prev \in [Node -> Node \cup {Null}]
  BY <1>1, RecordFields DEF FreeRunIs
<1>8. /\ \A x \in Node : m2.next[x] = IF x \in run THEN Null
                                      ELSE IF x = m.prev[p] THEN m.next[p] ELSE m.next[x]
      /\ \A x \in Node : m2.prev[x] = IF x \in run THEN Null
                                      ELSE IF x = m.next[p] THEN m.prev[p] ELSE m.prev[x]
  BY <1>5, <1>6, <1>7
<1>9. /\ \A q \in Page : m2.count[q] = IF q = p THEN n ELSE IF q \in run THEN Pages ELSE m.count[q]
      /\ \A q \in Page : m2.mark[q] = IF q = p THEN "start" ELSE IF q \in run THEN "busy" ELSE m.mark[q]
      /\ \A q \in Page : m2.type[q] = IF q \in run THEN Null ELSE m.type[q]
      /\ m2.used = m.used
  BY <1>5, <1>6
<1>10. Regions(m2) /\ Free(m2) = Free(m) \ {p} /\ First(m2) = First(m)
  <2>1. \A q \in Page : m2.mark[q] = IF q = p THEN "start"
                                     ELSE IF q \in p .. p + n - 1 THEN "busy" ELSE m.mark[q]
    BY <1>0, <1>9 DEF Run
  <2>2. ~(n < m.count[p]) /\ n <= m.count[p]
    OBVIOUS
  <2>3. \A q \in Page : m2.count[q] = IF q = p THEN n
                                      ELSE IF q \in p .. p + n - 1 THEN Pages
                                      ELSE IF q = p + n /\ n < m.count[p] THEN m.count[p] - n
                                      ELSE m.count[q]
    BY <1>0, <1>9, <2>2 DEF Run
  <2>4. m \in SlabRecord /\ Regions(m)
    BY <1>1 DEF FreeRunIs
  <2> QED BY <1>6, <2>1, <2>2, <2>3, <2>4, RegionsTake
<1>11. \A q \in Page : /\ m2.mark[q] = "chunks" <=> m.mark[q] = "chunks"
                       /\ m2.type[q] = m.type[q]
  BY <1>1, <1>9 DEF FreeRunIs
<1>12. \A s \in Slot : Roomy(m2, s) = Roomy(m, s)
  <2>1. \A s \in Slot, q \in Page : q \in Roomy(m2, s) <=> q \in Roomy(m, s)
    BY <1>9, <1>11 DEF Roomy
  <2>2. \A s \in Slot : Roomy(m2, s) \subseteq Page /\ Roomy(m, s) \subseteq Page
    BY DEF Roomy
  <2> QED BY <2>1, <2>2
<1>13. /\ AllLists(m2.next, m2.prev, Members(m2, {}))
       /\ On(Members(m2, {})) = On(M) \ {p}
  <2>1. Members(m2, {}) = Drop(M, FreePage, p)
    <3>1. PICK M2 : M2 = Drop(M, FreePage, p)
      OBVIOUS
    <3>2. M2 \in [Lists -> SUBSET Page] /\ M2[FreePage] = Free(m2) \ {}
          /\ \A s \in Slot : M2[s] = Roomy(m2, s)
      BY <1>1, <1>10, <1>12, <3>1 DEF Drop, FreeRunIs
    <3>3. Members(m2, {}) = M2
      BY <3>2, MembersEqual
    <3> QED BY <3>1, <3>3
  <2>2. \A x \in (On(M) \ {p}) \cup Lists :
           m2.next[x] = IF x = m.prev[p] THEN m.next[p] ELSE m.next[x]
    BY <1>1, <1>8 DEF FreeRunIs
  <2>3. \A x \in On(M) \ {p} : m2.prev[x] = IF x = m.next[p] THEN m.prev[p] ELSE m.prev[x]
    BY <1>1, <1>8 DEF FreeRunIs
  <2>4. Unlinked(m.next, m.prev, m2.next, m2.prev, M, p)
    BY <2>2, <2>3 DEF Unlinked
  <2>5. AllLists(m.next, m.prev, M) /\ FreePage \in Lists /\ p \in M[FreePage]
    BY <1>1 DEF FreeRunIs
  <2>6. /\ AllLists(m2.next, m2.prev, Drop(M, FreePage, p))
        /\ On(Drop(M, FreePage, p)) = On(M) \ {p}
    BY <2>4, <2>5, AllUnlink
  <2> QED BY <2>1, <2>6
<1>14. ChunkPages(m2)
  BY <1>1, <1>9, <1>11 DEF ChunkPages, FreeRunIs
<1>15. Untyped(m2, {})
  BY <1>1, <1>11 DEF Untyped, FreeRunIs
<1>16. \A x \in Free(m2) : x \in Free(m) /\ x \in First(m) /\ x # p /\ x \in Page /\ x \in Nat
                           /\ m2.count[x] = m.count[x]
  <2>1. TAKE x \in Free(m2)
  <2>2. x \in Free(m) /\ x \in First(m) /\ x # p /\ x \in Page /\ x \in Nat
    BY <1>3, <1>10 DEF First, Free
  <2>3. x \notin run
    BY <1>1, <2>2 DEF FreeRunIs
  <2> QED BY <1>9, <2>2, <2>3
<1>17. Merged(m2, {})
  BY <1>1, <1>16 DEF Merged, FreeRunIs
<1>18. LinkedOn(m2, {})
  <2>1. ASSUME NEW q \in Page
        PROVE  m2.next[q] # Null <=> q \in On(M) \ {p}
    <3>1. q \in Node /\ Null \notin Node
      BY NodeFacts
    <3>2. CASE q \in run
      BY <1>1, <1>8, <3>1, <3>2 DEF FreeRunIs
    <3>3. CASE q \notin run
      <4>1. m.next[q] # Null <=> q \in On(M)
        BY <1>0, <1>1 DEF LinkedOn, FreeRunIs
      <4>2. q = m.prev[p] => q \in On(M)
        BY <1>1, NodeFacts DEF FreeRunIs
      <4>3. q # p /\ m.next[p] \in Node
        <5>1. n \in Nat /\ n > 0 /\ p \in Nat /\ m.next[p] \in Node
          BY <1>1 DEF FreeRunIs
        <5>2. p \in run
          BY <1>0, <5>1 DEF Run
        <5> QED BY <3>3, <5>1, <5>2
      <4> QED BY <1>8, <3>1, <3>3, <4>1, <4>2, <4>3
    <3> QED BY <3>2, <3>3
  <2> QED BY <1>13, <2>1 DEF LinkedOn
<1>19. Tagged(m2, {})
  <2>1. ASSUME NEW x \in Free(m2), m2.count[x] > 1, x + m2.count[x] < Pages
        PROVE  m2.prev[x + m2.count[x] - 1] = x
    <3>2. PICK k \in Nat : k = m.count[x]
      BY <1>2, <1>16
    <3>3. m2.count[x] = k
      BY <1>16, <3>2
    <3>4. PICK l \in Nat : l = x + k - 1
      BY <1>16, <2>1, <3>3
    <3>5. x < l /\ l < x + k /\ l \in Page
      BY <1>3, <1>16, <2>1, <3>3, <3>4
    <3>6. l \notin First(m)
      BY <1>2, <1>16, <3>2, <3>5
    <3>7. l \notin run
      <4>1. x + k <= p \/ p + n <= x
        BY <1>1, <1>2, <1>16, <3>2 DEF FreeRunIs
      <4>2. ~(p <= l /\ l < p + n)
        BY <1>1, <1>16, <3>5, <4>1 DEF FreeRunIs
      <4> QED BY <1>1, <3>5, <4>2 DEF FreeRunIs
    <3>8. l # m.next[p]
      BY <1>1, <3>5, <3>6, NodeFacts DEF FreeRunIs
    <3>9. m2.prev[l] = m.prev[l]
      <4>1. l \in Node
        BY <3>5, NodeFacts
      <4> QED BY <1>8, <3>7, <3>8, <4>1
    <3>10. m.prev[x + m.count[x] - 1] = x
      BY <1>1, <1>16, <2>1, <3>2, <3>3 DEF Tagged, FreeRunIs
    <3> QED BY <3>2, <3>3, <3>4, <3>9, <3>10
  <2> QED BY <2>1 DEF Tagged
<1>20. AllocPagesIs(m, m2, p, n)
  <2>1. p \in Page /\ p \in Nat /\ \A q \in Page : q \in run <=> p <= q /\ q < p + n
    BY <1>1 DEF FreeRunIs
  <2>2. \A q \in Page : q # p => (q \in run <=> p < q /\ q < p + n)
    BY <1>3, <2>1
  <2>3. \A q \in Page : m2.mark[q] = IF q = p THEN "start"
                                     ELSE IF p < q /\ q < p + n THEN "busy" ELSE m.mark[q]
    BY <1>9, <2>2
  <2>4. m2.count[p] = n /\ \A q \in First(m) \ {p} : m2.count[q] = m.count[q]
    BY <1>1, <1>2, <1>9 DEF FreeRunIs
  <2>5. m2.next[p] = Null
    <3>1. p \in run /\ p \in Node
      BY <2>1, NodeFacts
    <3> QED BY <1>8, <3>1
  <2> QED BY <1>5, <1>6, <1>11, <2>3, <2>4, <2>5 DEF AllocPagesIs
<1> QED BY <1>6, <1>10, <1>13, <1>14, <1>15, <1>17, <1>18, <1>19, <1>20 DEF Struct

\* allocPages(): the rest of the run takes its place in the list.
LEMMA TakeSplit ==
    ASSUME NEW m, Struct(m, {}), NEW p \in Free(m), NEW n \in Nat, n > 0, n < m.count[p],
           NEW m2, m2 = Taken(SplitRun(m, p, n), p, n)
    PROVE  Struct(m2, {}) /\ AllocPagesIs(m, m2, p, n)
<1>0. PICK M, run : M = Members(m, {}) /\ run = Run(p, n)
  OBVIOUS
<1>2. /\ \A x \in First(m) : /\ x \in Page /\ m.count[x] \in Nat
                             /\ m.count[x] > 0 /\ x + m.count[x] <= Pages
      /\ \A x \in First(m), q \in Page : x < q /\ q < x + m.count[x] => q \notin First(m)
      /\ \A x, y \in First(m) : x # y => x + m.count[x] <= y \/ y + m.count[y] <= x
      /\ \A x \in First(m) : x + m.count[x] < Pages => x + m.count[x] \in First(m)
  <2>1. m \in SlabRecord /\ Regions(m)
    BY DEF Struct
  <2> QED BY <2>1, RegionFacts
<1>3. /\ Pages \in Nat /\ (\A q \in Page : q \in Nat /\ q < Pages)
      /\ \A q \in Nat : q < Pages => q \in Page
  BY SlabConstants DEF Page
<1>1. FreeRunIs(m, M, p, n, run)
  <2>1. n <= m.count[p]
    <3>1. p \in First(m)
      BY DEF First
    <3>2. m.count[p] \in Nat
      BY <1>2, <3>1
    <3> QED BY <3>2
  <2> QED BY <1>0, <2>1, FreeRunFacts
<1>4. PICK c \in Nat : c = m.count[p] /\ n < c /\ p + c <= Pages /\ p \in Nat /\ p \in Page
                       /\ p \in First(m)
  BY <1>1 DEF FreeRunIs
<1>5. PICK e \in Nat, l \in Nat : e = p + n /\ l = p + c - 1
  BY <1>4
<1>6. /\ e \in Page /\ l \in Page /\ p < e /\ e < p + c /\ p < l /\ l < p + c /\ e <= l
      /\ e \in Node /\ l \in Node
  <2>1. p < e /\ e < p + c /\ p < l /\ l < p + c /\ e <= l
    BY <1>4, <1>5
  <2>2. e \in Page /\ l \in Page
    BY <1>3, <1>4, <1>5, <2>1
  <2> QED BY <2>1, <2>2, NodeFacts
<1>7. e \notin First(m) /\ l \notin First(m)
  BY <1>2, <1>4, <1>6
<1>8. \A x \in On(M) \cup Lists : x # e /\ x # l
  BY <1>1, <1>6, <1>7, NodeFacts DEF FreeRunIs
<1>9. PICK u : u = SplitRun(m, p, n)
  OBVIOUS
<1>10. /\ u \in SlabRecord
       /\ \A x \in Node : u.next[x] = IF x = m.prev[p] THEN e
                                      ELSE IF x = e THEN m.next[p] ELSE m.next[x]
       /\ \A x \in Node : u.prev[x] = IF x = m.next[p] THEN e
                                      ELSE IF x = e THEN m.prev[p]
                                      ELSE IF x = l THEN e ELSE m.prev[x]
       /\ \A q \in Page : u.count[q] = IF q = e THEN m.count[p] - n ELSE m.count[q]
       /\ u.type = m.type /\ u.mark = m.mark /\ u.used = m.used
       /\ u.mFreePageCount = m.mFreePageCount /\ u.mTotal = m.mTotal /\ u.mUsed = m.mUsed
  <2>1. /\ m \in SlabRecord /\ p + m.count[p] <= Pages /\ m.next[p] \in Node /\ m.prev[p] \in Node
        /\ m.next[p] \in On(M) \cup Lists /\ m.prev[p] \in On(M) \cup Lists
    BY <1>1 DEF FreeRunIs
  <2>2. m.prev[p] # e /\ m.next[p] # e
    BY <1>8, <2>1
  <2>3. n < m.count[p] /\ l = p + m.count[p] - 1
    BY <1>4, <1>5
  <2>4. SplitIs(m, u, p, n, e, l)
    BY <1>4, <1>5, <1>6, <1>9, <2>1, <2>2, <2>3, SplitFields
  <2> QED BY <2>4 DEF SplitIs
<1>11. /\ m2 \in SlabRecord
       /\ \A x \in Node : m2.next[x] = IF x \in run THEN Null ELSE u.next[x]
       /\ \A x \in Node : m2.prev[x] = IF x \in run THEN Null ELSE u.prev[x]
       /\ \A q \in Page : m2.count[q] = IF q = p THEN n ELSE IF q \in run THEN Pages ELSE u.count[q]
       /\ \A q \in Page : m2.mark[q] = IF q = p THEN "start" ELSE IF q \in run THEN "busy" ELSE u.mark[q]
       /\ \A q \in Page : m2.type[q] = IF q \in run THEN Null ELSE u.type[q]
       /\ m2.used = u.used /\ m2.mFreePageCount = u.mFreePageCount - n
       /\ m2.mTotal = u.mTotal /\ m2.mUsed = u.mUsed
  <2>1. m2 = Taken(u, p, n)
    BY <1>9
  <2>2. TakenIs(u, m2, p, n, run)
    BY <1>0, <1>4, <1>10, <2>1, TakenFields
  <2> QED BY <2>2 DEF TakenIs
<1>12. \A x \in Page : x \in run <=> p <= x /\ x < e
  BY <1>1, <1>5 DEF FreeRunIs
<1>13. e \notin run /\ l \notin run /\ p \in run
  BY <1>4, <1>6, <1>12
<1>14. /\ \A x \in Node : m2.next[x] = IF x \in run THEN Null
                                       ELSE IF x = m.prev[p] THEN e
                                       ELSE IF x = e THEN m.next[p] ELSE m.next[x]
       /\ \A x \in Node : m2.prev[x] = IF x \in run THEN Null
                                       ELSE IF x = m.next[p] THEN e
                                       ELSE IF x = e THEN m.prev[p]
                                       ELSE IF x = l THEN e ELSE m.prev[x]
  BY <1>10, <1>11
<1>15. /\ \A q \in Page : m2.count[q] = IF q = p THEN n ELSE IF q \in run THEN Pages
                                        ELSE IF q = e THEN m.count[p] - n ELSE m.count[q]
       /\ \A q \in Page : m2.mark[q] = IF q = p THEN "start" ELSE IF q \in run THEN "busy" ELSE m.mark[q]
       /\ \A q \in Page : m2.type[q] = IF q \in run THEN Null ELSE m.type[q]
       /\ m2.used = m.used
  BY <1>10, <1>11
<1>16. Regions(m2) /\ Free(m2) = (Free(m) \ {p}) \cup {e} /\ First(m2) = First(m) \cup {e}
  <2>1. \A q \in Page : m2.mark[q] = IF q = p THEN "start"
                                     ELSE IF q \in p .. p + n - 1 THEN "busy" ELSE m.mark[q]
    BY <1>0, <1>15 DEF Run
  <2>2. n < m.count[p] /\ n <= m.count[p]
    BY <1>4
  <2>3. \A q \in Page : m2.count[q] = IF q = p THEN n
                                      ELSE IF q \in p .. p + n - 1 THEN Pages
                                      ELSE IF q = p + n /\ n < m.count[p] THEN m.count[p] - n
                                      ELSE m.count[q]
    BY <1>0, <1>5, <1>15, <2>2 DEF Run
  <2>4. m \in SlabRecord /\ Regions(m)
    BY <1>1 DEF FreeRunIs
  <2> QED BY <1>5, <1>11, <2>1, <2>2, <2>3, <2>4, RegionsTake
<1>17. \A q \in Page : /\ m2.mark[q] = "chunks" <=> m.mark[q] = "chunks"
                       /\ m2.type[q] = m.type[q]
  BY <1>1, <1>15 DEF FreeRunIs
<1>18. \A s \in Slot : Roomy(m2, s) = Roomy(m, s)
  <2>1. \A s \in Slot, q \in Page : q \in Roomy(m2, s) <=> q \in Roomy(m, s)
    BY <1>15, <1>17 DEF Roomy
  <2>2. \A s \in Slot : Roomy(m2, s) \subseteq Page /\ Roomy(m, s) \subseteq Page
    BY DEF Roomy
  <2> QED BY <2>1, <2>2
<1>19. /\ AllLists(m2.next, m2.prev, Members(m2, {}))
       /\ On(Members(m2, {})) = (On(M) \ {p}) \cup {e}
  <2>1. Members(m2, {}) = Swap(M, FreePage, p, e)
    <3>1. PICK M2 : M2 = Swap(M, FreePage, p, e)
      OBVIOUS
    <3>2. M2 \in [Lists -> SUBSET Page] /\ M2[FreePage] = Free(m2) \ {}
          /\ \A s \in Slot : M2[s] = Roomy(m2, s)
      BY <1>1, <1>6, <1>16, <1>18, <3>1 DEF Swap, FreeRunIs
    <3>3. Members(m2, {}) = M2
      BY <3>2, MembersEqual
    <3> QED BY <3>1, <3>3
  <2>2. \A x \in (On(M) \ {p}) \cup Lists :
           m2.next[x] = IF x = m.prev[p] THEN e ELSE m.next[x]
    BY <1>1, <1>8, <1>14 DEF FreeRunIs
  <2>3. \A x \in On(M) \ {p} : m2.prev[x] = IF x = m.next[p] THEN e ELSE m.prev[x]
    BY <1>1, <1>8, <1>14 DEF FreeRunIs
  <2>4. m2.next[e] = m.next[p] /\ m2.prev[e] = m.prev[p]
    <3>1. m.next[p] # e /\ m.prev[p] # e
      BY <1>1, <1>8 DEF FreeRunIs
    <3> QED BY <1>6, <1>13, <1>14, <3>1
  <2>5. Replaced(m.next, m.prev, m2.next, m2.prev, M, p, e)
    BY <2>2, <2>3, <2>4 DEF Replaced
  <2>6. AllLists(m.next, m.prev, M) /\ FreePage \in Lists /\ p \in M[FreePage] /\ e \in Page \ On(M)
    BY <1>1, <1>6, <1>8 DEF FreeRunIs
  <2>7. /\ AllLists(m2.next, m2.prev, Swap(M, FreePage, p, e))
        /\ On(Swap(M, FreePage, p, e)) = (On(M) \ {p}) \cup {e}
    BY <2>5, <2>6, AllReplace
  <2> QED BY <2>1, <2>7
<1>20. ChunkPages(m2)
  BY <1>1, <1>15, <1>17 DEF ChunkPages, FreeRunIs
<1>21. Untyped(m2, {})
  BY <1>1, <1>17 DEF Untyped, FreeRunIs
<1>22. \A x \in Free(m2) : x # e => /\ x \in Free(m) /\ x \in First(m) /\ x # p
                                    /\ x \in Page /\ x \in Nat /\ m2.count[x] = m.count[x]
  <2>1. TAKE x \in Free(m2)
  <2>2. HAVE x # e
  <2>3. x \in Free(m) /\ x \in First(m) /\ x # p /\ x \in Page /\ x \in Nat
    BY <1>3, <1>16, <2>2 DEF First, Free
  <2>4. x \notin run
    BY <1>1, <2>3 DEF FreeRunIs
  <2> QED BY <1>15, <2>2, <2>3, <2>4
<1>23. m2.count[e] = c - n /\ e + (c - n) = p + c /\ e + (c - n) - 1 = l
  <2>1. e # p
    BY <1>4, <1>6
  <2> QED BY <1>4, <1>5, <1>6, <1>13, <1>15, <2>1
<1>24. Merged(m2, {})
  <2>0. Merged(m, {}) /\ p \in Free(m) \ {}
    BY <1>1 DEF FreeRunIs
  <2>1. ASSUME NEW x \in Free(m2), NEW q \in Free(m2) PROVE x + m2.count[x] # q
    <3>1. CASE x = e /\ q = e
      BY <1>4, <1>5, <1>23, <3>1
    <3>2. CASE x = e /\ q # e
      <4>1. p + m.count[p] # q
        BY <1>22, <2>0, <3>2 DEF Merged
      <4> QED BY <1>4, <1>23, <3>2, <4>1
    <3>3. CASE x # e /\ q = e
      <4>1. x + m.count[x] < Pages => x + m.count[x] \in First(m)
        BY <1>2, <1>22, <3>3
      <4>2. e < Pages
        BY <1>3, <1>6
      <4> QED BY <1>7, <1>22, <3>3, <4>1, <4>2
    <3>4. CASE x # e /\ q # e
      BY <1>22, <2>0, <3>4 DEF Merged
    <3> QED BY <3>1, <3>2, <3>3, <3>4
  <2> QED BY <2>1 DEF Merged
<1>25. LinkedOn(m2, {})
  <2>1. ASSUME NEW q \in Page
        PROVE  m2.next[q] # Null <=> q \in (On(M) \ {p}) \cup {e}
    <3>1. q \in Node /\ Null \notin Node /\ m.next[p] \in Node
      BY <1>1, NodeFacts DEF FreeRunIs
    <3>2. CASE q \in run
      BY <1>1, <1>13, <1>14, <3>1, <3>2 DEF FreeRunIs
    <3>3. CASE q = e
      BY <1>6, <1>13, <1>14, <3>1, <3>3
    <3>4. CASE q \notin run /\ q # e
      <4>1. m.next[q] # Null <=> q \in On(M)
        BY <1>0, <1>1 DEF LinkedOn, FreeRunIs
      <4>2. q = m.prev[p] => q \in On(M)
        BY <1>1, NodeFacts DEF FreeRunIs
      <4>3. q # p
        BY <1>13, <3>4
      <4> QED BY <1>6, <1>14, <3>1, <3>4, <4>1, <4>2, <4>3
    <3> QED BY <3>2, <3>3, <3>4
  <2> QED BY <1>19, <2>1 DEF LinkedOn
<1>26. Tagged(m2, {})
  <2>1. ASSUME NEW x \in Free(m2), x # e, m2.count[x] > 1, x + m2.count[x] < Pages
        PROVE  m2.prev[x + m2.count[x] - 1] = x
    <3>2. PICK k \in Nat : k = m.count[x]
      BY <1>2, <1>22, <2>1
    <3>2a. x \in Nat /\ x \in First(m) /\ x \in Free(m) /\ x # p
      BY <1>22, <2>1
    <3>3. m2.count[x] = k
      BY <1>22, <2>1, <3>2
    <3>4. PICK j \in Nat : j = x + k - 1
      BY <2>1, <3>2a, <3>3
    <3>5. x < j /\ j < x + k /\ j \in Page
      BY <1>3, <2>1, <3>2a, <3>3, <3>4
    <3>6. j \notin First(m)
      BY <1>2, <3>2, <3>2a, <3>5
    <3>7. j \notin run /\ j # e /\ j # l
      <4>1. x + k <= p \/ p + c <= x
        BY <1>2, <1>4, <3>2, <3>2a
      <4>2. ~(p <= j /\ j < e) /\ j # e /\ j # l
        BY <1>4, <1>6, <3>2a, <3>5, <4>1
      <4> QED BY <1>12, <3>5, <4>2
    <3>8. j # m.next[p]
      BY <1>1, <3>5, <3>6, NodeFacts DEF FreeRunIs
    <3>9. m2.prev[j] = m.prev[j]
      <4>1. j \in Node
        BY <3>5, NodeFacts
      <4> QED BY <1>14, <3>7, <3>8, <4>1
    <3>10. m.prev[x + m.count[x] - 1] = x
      BY <1>1, <2>1, <3>2, <3>2a, <3>3 DEF Tagged, FreeRunIs
    <3> QED BY <3>2, <3>3, <3>4, <3>9, <3>10
  <2>2. ASSUME m2.count[e] > 1, e + m2.count[e] < Pages
        PROVE  m2.prev[e + m2.count[e] - 1] = e
    <3>1. l # e
      BY <1>4, <1>5, <1>23, <2>2
    <3>2. l # m.next[p]
      BY <1>1, <1>8 DEF FreeRunIs
    <3>3. m2.prev[l] = e
      BY <1>6, <1>13, <1>14, <3>1, <3>2
    <3> QED BY <1>23, <3>3
  <2> QED BY <2>1, <2>2 DEF Tagged
<1>27. AllocPagesIs(m, m2, p, n)
  <2>2. \A q \in Page : q # p => (q \in run <=> p < q /\ q < p + n)
    <3>1. TAKE q \in Page
    <3>2. q \in Nat /\ p \in Nat
      BY <1>3, <1>4
    <3> QED BY <1>5, <1>12, <3>2
  <2>3. \A q \in Page : m2.mark[q] = IF q = p THEN "start"
                                     ELSE IF p < q /\ q < p + n THEN "busy" ELSE m.mark[q]
    BY <1>15, <2>2
  <2>4. m2.count[p] = n /\ \A q \in First(m) \ {p} : m2.count[q] = m.count[q]
    BY <1>1, <1>2, <1>7, <1>15 DEF FreeRunIs
  <2>5. m2.next[p] = Null
    <3>1. p \in Node
      BY <1>4, NodeFacts
    <3> QED BY <1>13, <1>14, <3>1
  <2> QED BY <1>10, <1>11, <1>17, <2>3, <2>4, <2>5 DEF AllocPagesIs
<1> QED BY <1>11, <1>16, <1>19, <1>20, <1>21, <1>24, <1>25, <1>26, <1>27 DEF Struct

\* allocPages(): after it the pool is well-formed, whether the run was split or not.
LEMMA AllocPagesStruct ==
    ASSUME NEW m, Struct(m, {}), NEW p \in Free(m), NEW n \in Nat, n > 0, n <= m.count[p],
           NEW m2, m2 = AllocPages(m, p, n)
    PROVE  Struct(m2, {}) /\ AllocPagesIs(m, m2, p, n)
<1>1. m2 = Taken(IF m.count[p] > n THEN SplitRun(m, p, n) ELSE Unlink(m, p), p, n)
  BY DEF AllocPages, Taken, Run
<1>2. m.count[p] \in Nat
  BY RecordFields DEF Struct, Free
<1>3. CASE n < m.count[p]
  <2>1. m2 = Taken(SplitRun(m, p, n), p, n)
    BY <1>1, <1>2, <1>3
  <2> QED BY <1>3, <2>1, TakeSplit
<1>4. CASE n = m.count[p]
  <2>1. m2 = Taken(Unlink(m, p), p, n)
    BY <1>1, <1>2, <1>4
  <2> QED BY <1>4, <2>1, TakeWhole
<1> QED BY <1>2, <1>3, <1>4

\* The numbers of a slot.
LEMMA SlotFacts ==
    ASSUME NEW s \in Slot
    PROVE  /\ Chunks[s] \in Nat /\ Bitmap[s] \in Nat /\ Bitmap[s] + 2 <= Chunks[s]
           /\ Capacity(s) \in Int
           /\ s \in Lists /\ s # FreePage /\ s # Null /\ s \in Node /\ s \notin Page
           /\ \A c : c \in 0 .. Chunks[s] - 1 <=> c \in Nat /\ c < Chunks[s]
           /\ \A c : c \in 0 .. Bitmap[s] - 1 <=> c \in Nat /\ c < Bitmap[s]
           /\ \A c : c \in 0 .. Bitmap[s] <=> c \in Nat /\ c <= Bitmap[s]
<1>1. Chunks[s] \in Nat /\ Bitmap[s] \in 0 .. Chunks[s] - 2
  BY SlabConstants
<1>2. PICK x \in Nat, y \in Nat : x = Chunks[s] /\ y = Bitmap[s] /\ y + 2 <= x
  BY <1>1
<1>3. x - y \in Int
  BY <1>2
<1>4. s \in Lists /\ s # FreePage /\ s # Null
  BY SlabConstants DEF Lists
<1> QED BY <1>2, <1>3, <1>4, NodeFacts DEF Capacity

-----------------------------------------------------------------------------
(* allocMem() and freeMem() of chunks: the pages and their lists.          *)

\* A page has room for another chunk.
HasRoom(m, q) == m.used[q] # 0 .. Chunks[m.type[q]] - 1

\* What does not matter to the runs and the lists.
LEMMA AllMembersAre ==
    ASSUME NEW m, NEW M, M = Members(m, {})
    PROVE  /\ M \in [Lists -> SUBSET Page] /\ FreePage \in Lists /\ M[FreePage] = Free(m)
           /\ \A t \in Slot : t \in Lists /\ t # FreePage /\ M[t] = Roomy(m, t)
           /\ On(M) = Free(m) \cup {q \in Page : m.mark[q] = "chunks" /\ m.type[q] \in Slot
                                                 /\ m.used[q] # 0 .. Chunks[m.type[q]] - 1}
           /\ On(M) \subseteq First(m)
<1>1. Free(m) \ {} = Free(m)
  OBVIOUS
<1>2. /\ M \in [Lists -> SUBSET Page] /\ FreePage \in Lists /\ M[FreePage] = Free(m) \ {}
      /\ \A t \in Slot : t \in Lists /\ t # FreePage /\ M[t] = Roomy(m, t)
  BY MembersAre
<1>3. On(Members(m, {})) = (Free(m) \ {}) \cup
           {q \in Page : m.mark[q] = "chunks" /\ m.type[q] \in Slot
                         /\ m.used[q] # 0 .. Chunks[m.type[q]] - 1}
  BY MembersAre, Zenon
<1>4. On(Members(m, {})) \subseteq First(m)
  BY MembersAre
<1> QED BY <1>1, <1>2, <1>3, <1>4, Zenon

\* A pool in which only the chunks in use differ is as well-formed, if the same pages have room.
LEMMA SameStruct ==
    ASSUME NEW m, Struct(m, {}), NEW m2 \in SlabRecord,
           m2.next = m.next, m2.prev = m.prev, m2.type = m.type, m2.mark = m.mark,
           m2.count = m.count, ChunkPages(m2),
           \A q \in Page : m.mark[q] = "chunks" => (HasRoom(m2, q) <=> HasRoom(m, q))
    PROVE  Struct(m2, {}) /\ First(m2) = First(m) /\ Free(m2) = Free(m)
<1>1. /\ m \in SlabRecord /\ Regions(m) /\ ChunkPages(m)
      /\ Untyped(m, {}) /\ Merged(m, {}) /\ Tagged(m, {}) /\ LinkedOn(m, {})
      /\ AllLists(m.next, m.prev, Members(m, {}))
  BY DEF Struct
<1>2. Regions(m2) /\ Free(m2) = Free(m) /\ First(m2) = First(m)
  BY <1>1, RegionsSame
<1>3. \A s \in Slot : Roomy(m2, s) = Roomy(m, s)
  <2>1. \A s \in Slot, q \in Page : q \in Roomy(m2, s) <=> q \in Roomy(m, s)
    BY DEF Roomy, HasRoom
  <2>2. \A s \in Slot : Roomy(m2, s) \subseteq Page /\ Roomy(m, s) \subseteq Page
    BY DEF Roomy
  <2> QED BY <2>1, <2>2
<1>4. Members(m2, {}) = Members(m, {})
  <2>1. PICK M : M = Members(m, {})
    OBVIOUS
  <2>2. /\ M \in [Lists -> SUBSET Page] /\ M[FreePage] = Free(m2) \ {}
        /\ \A s \in Slot : M[s] = Roomy(m2, s)
    <3>1. /\ M \in [Lists -> SUBSET Page] /\ M[FreePage] = Free(m)
          /\ \A s \in Slot : M[s] = Roomy(m, s)
      BY <2>1, AllMembersAre
    <3> QED BY <1>2, <1>3, <3>1
  <2>3. Members(m2, {}) = M
    BY <2>2, MembersEqual
  <2> QED BY <2>1, <2>3
<1>5. Untyped(m2, {}) /\ Merged(m2, {}) /\ Tagged(m2, {}) /\ LinkedOn(m2, {})
  BY <1>1, <1>2, <1>4 DEF Untyped, Merged, Tagged, LinkedOn
<1> QED BY <1>1, <1>2, <1>4, <1>5 DEF Struct

\* allocMem(): a new page becomes the only one of its slot's list.
NewChunks(m, s, p) ==
    [m EXCEPT !.mark[p] = "chunks", !.type[p] = s, !.used[p] = 0 .. Bitmap[s],
              !.next[p] = s, !.prev[p] = s, !.next[s] = p,
              !.mTotal[s] = @ + Capacity(s), !.mUsed[s] = @ + 1]

\* What that does to the fields.
NewChunksIs(m, m2, s, p) ==
    /\ m2 \in SlabRecord
    /\ \A x \in Node : m2.next[x] = IF x = s THEN p ELSE IF x = p THEN s ELSE m.next[x]
    /\ \A x \in Node : m2.prev[x] = IF x = p THEN s ELSE m.prev[x]
    /\ \A q \in Page : m2.mark[q] = IF q = p THEN "chunks" ELSE m.mark[q]
    /\ \A q \in Page : m2.type[q] = IF q = p THEN s ELSE m.type[q]
    /\ \A q \in Page : m2.used[q] = IF q = p THEN 0 .. Bitmap[s] ELSE m.used[q]
    /\ m2.count = m.count /\ m2.mFreePageCount = m.mFreePageCount
    /\ \A t \in Slot : m2.mTotal[t] = IF t = s THEN m.mTotal[s] + Capacity(s) ELSE m.mTotal[t]
    /\ \A t \in Slot : m2.mUsed[t] = IF t = s THEN m.mUsed[s] + 1 ELSE m.mUsed[t]

\* Its fields.
LEMMA NewChunksFields ==
    ASSUME NEW m \in SlabRecord, NEW s \in Slot, NEW p \in Page, NEW m2, m2 = NewChunks(m, s, p)
    PROVE  NewChunksIs(m, m2, s, p)
<1> DEFINE mk == [m.mark EXCEPT ![p] = "chunks"]
           ty == [m.type EXCEPT ![p] = s]
           us == [m.used EXCEPT ![p] = 0 .. Bitmap[s]]
           nx == [[m.next EXCEPT ![p] = s] EXCEPT ![s] = p]
           pv == [m.prev EXCEPT ![p] = s]
           tt == [m.mTotal EXCEPT ![s] = m.mTotal[s] + Capacity(s)]
           ud == [m.mUsed EXCEPT ![s] = m.mUsed[s] + 1]
<1>1. m2 = [m EXCEPT !.mark = mk, !.type = ty, !.used = us, !.next = nx, !.prev = pv,
                     !.mTotal = tt, !.mUsed = ud]
  BY DEF NewChunks, SlabRecord
<1>2. /\ m.next \in [Node -> Node \cup {Null}] /\ m.prev \in [Node -> Node \cup {Null}]
      /\ m.type \in [Page -> Slot \cup {Null}] /\ m.mark \in [Page -> Marks]
      /\ m.used \in [Page -> SUBSET Nat]
      /\ m.mTotal \in [Slot -> Int] /\ m.mUsed \in [Slot -> Int]
  BY RecordFields
<1>3. s \in Node /\ p \in Node /\ s # p /\ Capacity(s) \in Int /\ 0 .. Bitmap[s] \in SUBSET Nat
  BY NodeFacts, SlotFacts
<1>4. mk \in [Page -> Marks] /\ ty \in [Page -> Slot \cup {Null}] /\ us \in [Page -> SUBSET Nat]
  BY <1>2, <1>3 DEF Marks
<1>5. nx \in [Node -> Node \cup {Null}] /\ pv \in [Node -> Node \cup {Null}]
  BY <1>2, <1>3
<1>6. tt \in [Slot -> Int] /\ ud \in [Slot -> Int]
  <2>1. m.mTotal[s] + Capacity(s) \in Int /\ m.mUsed[s] + 1 \in Int
    BY <1>2, <1>3
  <2> QED BY <1>2, <2>1
<1>7. /\ \A x \in Node : nx[x] = IF x = s THEN p ELSE IF x = p THEN s ELSE m.next[x]
      /\ \A x \in Node : pv[x] = IF x = p THEN s ELSE m.prev[x]
      /\ \A q \in Page : mk[q] = IF q = p THEN "chunks" ELSE m.mark[q]
      /\ \A q \in Page : ty[q] = IF q = p THEN s ELSE m.type[q]
      /\ \A q \in Page : us[q] = IF q = p THEN 0 .. Bitmap[s] ELSE m.used[q]
      /\ \A t \in Slot : tt[t] = IF t = s THEN m.mTotal[s] + Capacity(s) ELSE m.mTotal[t]
      /\ \A t \in Slot : ud[t] = IF t = s THEN m.mUsed[s] + 1 ELSE m.mUsed[t]
  BY <1>2, <1>3
<1> HIDE DEF mk, ty, us, nx, pv, tt, ud
<1>8. /\ m2.mark = mk /\ m2.type = ty /\ m2.used = us /\ m2.next = nx /\ m2.prev = pv
      /\ m2.mTotal = tt /\ m2.mUsed = ud /\ m2.count = m.count
      /\ m2.mFreePageCount = m.mFreePageCount
  BY <1>1 DEF SlabRecord
<1>9. m2 \in SlabRecord
  BY <1>1, <1>4, <1>5, <1>6 DEF SlabRecord
<1> QED BY <1>7, <1>8, <1>9 DEF NewChunksIs

\* The pool is well-formed after it, if the list of the slot was empty.
LEMMA NewChunksStruct ==
    ASSUME NEW m, Struct(m, {}), NEW s \in Slot, NEW p \in Page,
           m.mark[p] = "start", m.count[p] = 1, m.next[s] = s,
           NEW m2, m2 = NewChunks(m, s, p)
    PROVE  Struct(m2, {})
<1>0. PICK M : M = Members(m, {})
  OBVIOUS
<1>1. /\ m \in SlabRecord /\ Regions(m) /\ ChunkPages(m)
      /\ Untyped(m, {}) /\ Merged(m, {}) /\ Tagged(m, {}) /\ LinkedOn(m, {})
      /\ AllLists(m.next, m.prev, M)
  BY <1>0 DEF Struct
<1>2. NewChunksIs(m, m2, s, p)
  BY <1>1, NewChunksFields
<1>3. /\ m2 \in SlabRecord
      /\ \A x \in Node : m2.next[x] = IF x = s THEN p ELSE IF x = p THEN s ELSE m.next[x]
      /\ \A x \in Node : m2.prev[x] = IF x = p THEN s ELSE m.prev[x]
      /\ \A q \in Page : m2.mark[q] = IF q = p THEN "chunks" ELSE m.mark[q]
      /\ \A q \in Page : m2.type[q] = IF q = p THEN s ELSE m.type[q]
      /\ \A q \in Page : m2.used[q] = IF q = p THEN 0 .. Bitmap[s] ELSE m.used[q]
      /\ m2.count = m.count
  BY <1>2 DEF NewChunksIs
<1>4. Regions(m2) /\ Free(m2) = Free(m) /\ First(m2) = First(m)
  BY <1>1, <1>3, RegionsChunks
<1>5. /\ M \in [Lists -> SUBSET Page] /\ FreePage \in Lists /\ M[FreePage] = Free(m)
      /\ \A t \in Slot : t \in Lists /\ t # FreePage /\ M[t] = Roomy(m, t)
      /\ On(M) = Free(m) \cup {q \in Page : m.mark[q] = "chunks" /\ m.type[q] \in Slot
                                            /\ m.used[q] # 0 .. Chunks[m.type[q]] - 1}
      /\ On(M) \subseteq First(m)
  BY <1>0, AllMembersAre
<1>6. p \notin On(M) /\ p \in First(m) /\ p \notin Free(m)
  BY <1>5 DEF Free, First
<1>7. 0 .. Bitmap[s] # 0 .. Chunks[s] - 1
  <2>1. Chunks[s] - 1 \in 0 .. Chunks[s] - 1 /\ Chunks[s] - 1 \notin 0 .. Bitmap[s]
    BY SlotFacts
  <2> QED BY <2>1
<1>8. \A t \in Slot : Roomy(m2, t) = IF t = s THEN Roomy(m, s) \cup {p} ELSE Roomy(m, t)
  <2>1. \A t \in Slot, q \in Page : q # p => (q \in Roomy(m2, t) <=> q \in Roomy(m, t))
    BY <1>3 DEF Roomy
  <2>2. \A t \in Slot : p \in Roomy(m2, t) <=> t = s
    BY <1>3, <1>7 DEF Roomy
  <2>3. \A t \in Slot : p \notin Roomy(m, t)
    BY DEF Roomy
  <2>4. \A t \in Slot : Roomy(m2, t) \subseteq Page /\ Roomy(m, t) \subseteq Page
    BY DEF Roomy
  <2>5. Roomy(m2, s) = Roomy(m, s) \cup {p}
    BY <2>1, <2>2, <2>4
  <2>6. \A t \in Slot : t # s => Roomy(m2, t) = Roomy(m, t)
    BY <2>1, <2>2, <2>3, <2>4
  <2> QED BY <2>5, <2>6
<1>9. /\ AllLists(m2.next, m2.prev, Members(m2, {}))
      /\ On(Members(m2, {})) = On(M) \cup {p}
  <2>1. Members(m2, {}) = Add(M, s, p)
    <3>1. PICK M2 : M2 = Add(M, s, p)
      OBVIOUS
    <3>2. M2 \in [Lists -> SUBSET Page] /\ M2[FreePage] = Free(m2) \ {}
          /\ \A t \in Slot : M2[t] = Roomy(m2, t)
      BY <1>4, <1>5, <1>8, <3>1 DEF Add
    <3>3. Members(m2, {}) = M2
      BY <3>2, MembersEqual
    <3> QED BY <3>1, <3>3
  <2>2. p \in Node /\ s \in Node /\ p # s /\ s \in Lists /\ s \notin On(M)
        /\ (\A x \in On(M) \cup Lists : x \in Node /\ x # p)
    BY <1>5, <1>6, NodeFacts DEF First, Free
  <2>3. LinkedFirst(m.next, m.prev, m2.next, m2.prev, M, s, p)
    BY <1>3, <2>2 DEF LinkedFirst
  <2>4. p \in Page \ On(M)
    BY <1>6
  <2>5. /\ AllLists(m2.next, m2.prev, Add(M, s, p))
        /\ On(Add(M, s, p)) = On(M) \cup {p}
    BY <1>1, <2>2, <2>3, <2>4, AllLink
  <2> QED BY <2>1, <2>5
<1>10. ChunkPages(m2)
  <2>1. ASSUME NEW q \in Page, m2.mark[q] = "chunks"
        PROVE  /\ m2.type[q] \in Slot
               /\ 0 .. Bitmap[m2.type[q]] - 1 \subseteq m2.used[q]
               /\ m2.used[q] \subseteq 0 .. Chunks[m2.type[q]] - 1
    <3>1. CASE q = p
      <4>1. m2.type[q] = s /\ m2.used[q] = 0 .. Bitmap[s]
        BY <1>3, <3>1
      <4>2. 0 .. Bitmap[s] - 1 \subseteq 0 .. Bitmap[s] /\ 0 .. Bitmap[s] \subseteq 0 .. Chunks[s] - 1
        BY SlotFacts
      <4> QED BY <4>1, <4>2
    <3>2. CASE q # p
      <4>1. m2.mark[q] = m.mark[q] /\ m2.type[q] = m.type[q] /\ m2.used[q] = m.used[q]
        BY <1>3, <3>2
      <4> QED BY <1>1, <2>1, <4>1 DEF ChunkPages
    <3> QED BY <3>1, <3>2
  <2> QED BY <2>1 DEF ChunkPages
<1>11. Untyped(m2, {}) /\ Merged(m2, {})
  BY <1>1, <1>3, <1>4 DEF Untyped, Merged
<1>12. LinkedOn(m2, {})
  <2>1. ASSUME NEW q \in Page
        PROVE  m2.next[q] # Null <=> q \in On(M) \cup {p}
    <3>1. q \in Node /\ q # s /\ s # Null
      BY NodeFacts, SlotFacts
    <3>2. m.next[q] # Null <=> q \in On(M)
      BY <1>0, <1>1 DEF LinkedOn
    <3> QED BY <1>3, <3>1, <3>2
  <2> QED BY <1>9, <2>1 DEF LinkedOn
<1>13. Tagged(m2, {})
  <2>1. ASSUME NEW x \in Free(m2), m2.count[x] > 1, x + m2.count[x] < Pages
        PROVE  m2.prev[x + m2.count[x] - 1] = x
    <3>1. /\ x \in First(m) /\ x \in Page /\ x \in Nat /\ x \in Free(m) /\ Pages \in Nat
      BY <1>4, SlabConstants DEF First, Free, Page
    <3>2. PICK k \in Nat : k = m.count[x] /\ k > 1 /\ x + k < Pages
      BY <1>1, <1>3, <2>1, <3>1, RegionFacts
    <3>3. PICK l \in Nat : l = x + k - 1
      BY <3>1, <3>2
    <3>4. x < l /\ l < x + k /\ l \in Page
      BY <3>1, <3>2, <3>3 DEF Page
    <3>5. l \notin First(m)
      BY <1>1, <3>1, <3>2, <3>4, RegionFacts
    <3>6. l # p /\ l \in Node
      BY <1>6, <3>4, <3>5, NodeFacts
    <3>7. m.prev[x + m.count[x] - 1] = x
      BY <1>1, <3>1, <3>2 DEF Tagged
    <3> QED BY <1>3, <3>2, <3>3, <3>6, <3>7
  <2> QED BY <2>1 DEF Tagged
<1> QED BY <1>3, <1>4, <1>9, <1>10, <1>11, <1>12, <1>13 DEF Struct

\* The chunks in use of a page, and their number in mStats.
UsedSet(m, p, U, s, v) == [m EXCEPT !.used[p] = U, !.mUsed[s] = v]

\* What that does to the fields.
UsedIs(m, m2, p, U, s, v) ==
    /\ m2 \in SlabRecord
    /\ m2.next = m.next /\ m2.prev = m.prev /\ m2.type = m.type /\ m2.mark = m.mark
    /\ m2.count = m.count /\ m2.mFreePageCount = m.mFreePageCount /\ m2.mTotal = m.mTotal
    /\ \A q \in Page : m2.used[q] = IF q = p THEN U ELSE m.used[q]
    /\ \A t \in Slot : m2.mUsed[t] = IF t = s THEN v ELSE m.mUsed[t]

\* Its fields.
LEMMA UsedFields ==
    ASSUME NEW m \in SlabRecord, NEW p \in Page, NEW U \in SUBSET Nat, NEW s \in Slot, NEW v \in Int,
           NEW m2, m2 = UsedSet(m, p, U, s, v)
    PROVE  UsedIs(m, m2, p, U, s, v)
<1> DEFINE us == [m.used EXCEPT ![p] = U]
           ud == [m.mUsed EXCEPT ![s] = v]
<1>1. m2 = [m EXCEPT !.used = us, !.mUsed = ud]
  BY DEF UsedSet, SlabRecord
<1>2. m.used \in [Page -> SUBSET Nat] /\ m.mUsed \in [Slot -> Int]
  BY RecordFields
<1>3. us \in [Page -> SUBSET Nat] /\ ud \in [Slot -> Int]
  BY <1>2
<1>4. /\ \A q \in Page : us[q] = IF q = p THEN U ELSE m.used[q]
      /\ \A t \in Slot : ud[t] = IF t = s THEN v ELSE m.mUsed[t]
  BY <1>2
<1> HIDE DEF us, ud
<1>5. /\ m2.used = us /\ m2.mUsed = ud
      /\ m2.next = m.next /\ m2.prev = m.prev /\ m2.type = m.type /\ m2.mark = m.mark
      /\ m2.count = m.count /\ m2.mFreePageCount = m.mFreePageCount /\ m2.mTotal = m.mTotal
  BY <1>1 DEF SlabRecord
<1>6. m2 \in SlabRecord
  BY <1>1, <1>3 DEF SlabRecord
<1> QED BY <1>4, <1>5, <1>6 DEF UsedIs

\* The chunks in use of p are U, and those of the others as they were.
UsedBy(m, m2, p, U) ==
    /\ m2.mark = m.mark /\ m2.type = m.type
    /\ \A q \in Page : m2.used[q] = IF q = p THEN U ELSE m.used[q]

\* A page p of the slot s has room if not all its chunks are in U.
RoomIs(m, m2, s, p, U) ==
    /\ U # 0 .. Chunks[s] - 1 =>
          \A t \in Slot : Roomy(m2, t) = IF t = s THEN Roomy(m, s) \cup {p} ELSE Roomy(m, t)
    /\ U = 0 .. Chunks[s] - 1 =>
          \A t \in Slot : Roomy(m2, t) = IF t = s THEN Roomy(m, s) \ {p} ELSE Roomy(m, t)

\* What the chunks in use of one page do to the pages.
LEMMA UsedChunkPages ==
    ASSUME NEW m, NEW m2, ChunkPages(m), NEW p \in Page, NEW s \in Slot, NEW U,
           m.mark[p] = "chunks", m.type[p] = s,
           UsedBy(m, m2, p, U), 0 .. Bitmap[s] - 1 \subseteq U, U \subseteq 0 .. Chunks[s] - 1
    PROVE  ChunkPages(m2) /\ RoomIs(m, m2, s, p, U)
<1>1. ChunkPages(m2)
  BY DEF ChunkPages, UsedBy
<1>2. /\ \A t \in Slot, q \in Page : q # p => (q \in Roomy(m2, t) <=> q \in Roomy(m, t))
      /\ \A t \in Slot : p \in Roomy(m2, t) <=> t = s /\ U # 0 .. Chunks[s] - 1
      /\ \A t \in Slot : t # s => p \notin Roomy(m, t)
  BY DEF Roomy, UsedBy
<1>3. \A t \in Slot : Roomy(m2, t) \subseteq Page /\ Roomy(m, t) \subseteq Page
  BY DEF Roomy
<1>4. ASSUME NEW t \in Slot, t # s PROVE Roomy(m2, t) = Roomy(m, t)
  <2>1. \A q \in Page : q \in Roomy(m2, t) <=> q \in Roomy(m, t)
    BY <1>2, <1>4
  <2> QED BY <1>3, <2>1
<1>5. U # 0 .. Chunks[s] - 1 => Roomy(m2, s) = Roomy(m, s) \cup {p}
  BY <1>2, <1>3
<1>6. U = 0 .. Chunks[s] - 1 => Roomy(m2, s) = Roomy(m, s) \ {p}
  BY <1>2, <1>3
<1> QED BY <1>1, <1>4, <1>5, <1>6 DEF RoomIs

\* The page has room before and after.
LEMMA UsedStruct ==
    ASSUME NEW m, Struct(m, {}), NEW p \in Page, NEW s \in Slot, NEW U, NEW v \in Int,
           m.mark[p] = "chunks", m.type[p] = s, p \in Roomy(m, s),
           0 .. Bitmap[s] - 1 \subseteq U, U \subseteq 0 .. Chunks[s] - 1, U # 0 .. Chunks[s] - 1,
           NEW m2, m2 = UsedSet(m, p, U, s, v)
    PROVE  Struct(m2, {}) /\ UsedIs(m, m2, p, U, s, v)
<1>1. m \in SlabRecord /\ ChunkPages(m)
  BY DEF Struct
<1>2. U \in SUBSET Nat
  BY SlotFacts
<1>3. UsedIs(m, m2, p, U, s, v)
  BY <1>1, <1>2, UsedFields
<1>4. /\ m2 \in SlabRecord
      /\ m2.next = m.next /\ m2.prev = m.prev /\ m2.type = m.type /\ m2.mark = m.mark
      /\ m2.count = m.count
      /\ \A q \in Page : m2.used[q] = IF q = p THEN U ELSE m.used[q]
  BY <1>3 DEF UsedIs
<1>5. ChunkPages(m2)
  <2>1. UsedBy(m, m2, p, U)
    BY <1>4 DEF UsedBy
  <2> QED BY <1>1, <2>1, UsedChunkPages
<1>6. \A q \in Page : HasRoom(m2, q) <=> HasRoom(m, q)
  <2>1. HasRoom(m2, p) /\ HasRoom(m, p)
    BY <1>4 DEF HasRoom, Roomy
  <2> QED BY <1>4, <2>1 DEF HasRoom
<1>7. Struct(m2, {})
  BY <1>4, <1>5, <1>6, SameStruct
<1> QED BY <1>3, <1>7

\* allocMem(): a page that is full leaves its list.
Filled(m, p) == [Unlink(m, p) EXCEPT !.next[p] = Null, !.prev[p] = Null]

\* What that does to the fields.
FilledIs(m, m2, p) ==
    /\ m2 \in SlabRecord
    /\ \A x \in Node : m2.next[x] = IF x = p THEN Null
                                    ELSE IF x = m.prev[p] THEN m.next[p] ELSE m.next[x]
    /\ \A x \in Node : m2.prev[x] = IF x = p THEN Null
                                    ELSE IF x = m.next[p] THEN m.prev[p] ELSE m.prev[x]
    /\ m2.type = m.type /\ m2.mark = m.mark /\ m2.count = m.count /\ m2.used = m.used
    /\ m2.mFreePageCount = m.mFreePageCount /\ m2.mTotal = m.mTotal /\ m2.mUsed = m.mUsed

\* Its fields.
LEMMA FilledFields ==
    ASSUME NEW m \in SlabRecord, NEW p \in Page, m.prev[p] \in Node, m.next[p] \in Node,
           NEW m2, m2 = Filled(m, p)
    PROVE  FilledIs(m, m2, p)
<1>1. PICK u : u = Unlink(m, p)
  OBVIOUS
<1>2. /\ u \in SlabRecord
      /\ u.next = [m.next EXCEPT ![m.prev[p]] = m.next[p]]
      /\ u.prev = [m.prev EXCEPT ![m.next[p]] = m.prev[p]]
      /\ u.type = m.type /\ u.mark = m.mark /\ u.count = m.count /\ u.used = m.used
      /\ u.mFreePageCount = m.mFreePageCount /\ u.mTotal = m.mTotal /\ u.mUsed = m.mUsed
  BY <1>1, UnlinkFields
<1>3. m2 = [u EXCEPT !.next = [u.next EXCEPT ![p] = Null], !.prev = [u.prev EXCEPT ![p] = Null]]
  BY <1>1, <1>2 DEF Filled, SlabRecord
<1>4. /\ m2.next = [u.next EXCEPT ![p] = Null] /\ m2.prev = [u.prev EXCEPT ![p] = Null]
      /\ m2.type = m.type /\ m2.mark = m.mark /\ m2.count = m.count /\ m2.used = m.used
      /\ m2.mFreePageCount = m.mFreePageCount /\ m2.mTotal = m.mTotal /\ m2.mUsed = m.mUsed
  BY <1>2, <1>3 DEF SlabRecord
<1>5. /\ m.next \in [Node -> Node \cup {Null}] /\ m.prev \in [Node -> Node \cup {Null}] /\ p \in Node
  BY RecordFields, NodeFacts
<1>6. m2.next \in [Node -> Node \cup {Null}] /\ m2.prev \in [Node -> Node \cup {Null}]
  BY <1>2, <1>4, <1>5
<1>7. m2 \in SlabRecord
  BY <1>2, <1>3, <1>4, <1>6 DEF SlabRecord
<1>8. /\ \A x \in Node : m2.next[x] = IF x = p THEN Null
                                      ELSE IF x = m.prev[p] THEN m.next[p] ELSE m.next[x]
      /\ \A x \in Node : m2.prev[x] = IF x = p THEN Null
                                      ELSE IF x = m.next[p] THEN m.prev[p] ELSE m.prev[x]
  BY <1>2, <1>4, <1>5
<1> QED BY <1>4, <1>7, <1>8 DEF FilledIs

\* A page that is in no list, or in one, keeps or loses no tag of a free run.
LEMMA TagKept ==
    ASSUME NEW m, Struct(m, {}), NEW m2, Free(m2) = Free(m), m2.count = m.count,
           \A l \in Page : l \notin First(m) => m2.prev[l] = m.prev[l]
    PROVE  Tagged(m2, {})
<1>1. m \in SlabRecord /\ Regions(m) /\ Tagged(m, {})
  BY DEF Struct
<1>2. ASSUME NEW x \in Free(m), m.count[x] > 1, x + m.count[x] < Pages
      PROVE  m2.prev[x + m.count[x] - 1] = x
  <2>1. /\ x \in First(m) /\ x \in Page /\ x \in Nat /\ Pages \in Nat
    BY SlabConstants DEF First, Free, Page
  <2>2. PICK k \in Nat : k = m.count[x] /\ k > 1 /\ x + k < Pages
    BY <1>1, <1>2, <2>1, RegionFacts
  <2>3. PICK l \in Nat : l = x + k - 1
    BY <2>1, <2>2
  <2>4. x < l /\ l < x + k /\ l \in Page
    BY <2>1, <2>2, <2>3 DEF Page
  <2>5. l \notin First(m)
    BY <1>1, <2>1, <2>2, <2>4, RegionFacts
  <2>6. m.prev[x + m.count[x] - 1] = x
    BY <1>1, <2>1, <2>2 DEF Tagged
  <2> QED BY <2>2, <2>3, <2>4, <2>5, <2>6
<1> QED BY <1>2 DEF Tagged

\* The last chunk of a page is handed out, and the page leaves its list.
LEMMA FillStruct ==
    ASSUME NEW m, Struct(m, {}), NEW p \in Page, NEW s \in Slot, NEW v \in Int,
           m.mark[p] = "chunks", m.type[p] = s, p \in Roomy(m, s),
           NEW U, U = 0 .. Chunks[s] - 1,
           NEW m2, m2 = Filled(UsedSet(m, p, U, s, v), p)
    PROVE  /\ Struct(m2, {})
           /\ m2.type = m.type /\ m2.mark = m.mark /\ m2.count = m.count
           /\ m2.mFreePageCount = m.mFreePageCount /\ m2.mTotal = m.mTotal
           /\ \A q \in Page : m2.used[q] = IF q = p THEN U ELSE m.used[q]
           /\ \A t \in Slot : m2.mUsed[t] = IF t = s THEN v ELSE m.mUsed[t]
<1>0. PICK M, u : M = Members(m, {}) /\ u = UsedSet(m, p, U, s, v)
  OBVIOUS
<1>1. /\ m \in SlabRecord /\ Regions(m) /\ ChunkPages(m)
      /\ Untyped(m, {}) /\ Merged(m, {}) /\ Tagged(m, {}) /\ LinkedOn(m, {})
      /\ AllLists(m.next, m.prev, M)
  BY <1>0 DEF Struct
<1>2. /\ M \in [Lists -> SUBSET Page] /\ FreePage \in Lists /\ M[FreePage] = Free(m)
      /\ \A t \in Slot : t \in Lists /\ t # FreePage /\ M[t] = Roomy(m, t)
      /\ On(M) \subseteq First(m)
  BY <1>0, AllMembersAre
<1>3. U \in SUBSET Nat /\ 0 .. Bitmap[s] - 1 \subseteq U
  BY SlotFacts
<1>4. UsedIs(m, u, p, U, s, v)
  BY <1>0, <1>1, <1>3, UsedFields
<1>5. /\ u \in SlabRecord
      /\ u.next = m.next /\ u.prev = m.prev /\ u.type = m.type /\ u.mark = m.mark
      /\ u.count = m.count /\ u.mFreePageCount = m.mFreePageCount /\ u.mTotal = m.mTotal
      /\ \A q \in Page : u.used[q] = IF q = p THEN U ELSE m.used[q]
      /\ \A t \in Slot : u.mUsed[t] = IF t = s THEN v ELSE m.mUsed[t]
  BY <1>4 DEF UsedIs
<1>6. /\ s \in Lists /\ p \in M[s] /\ p \in On(M)
      /\ m.next[p] \in M[s] \cup {s} /\ m.next[p] # p
      /\ m.prev[p] \in M[s] \cup {s} /\ m.prev[p] # p
      /\ m.next[p] \in Node /\ m.prev[p] \in Node
  <2>1. s \in Lists /\ p \in M[s]
    BY <1>2
  <2> QED BY <1>1, <2>1, MemberLinks
<1>6a. m.next[p] \in On(M) \cup Lists /\ m.prev[p] \in On(M) \cup Lists
  <2>1. M[s] \subseteq On(M)
    BY <1>6 DEF On
  <2> QED BY <1>6, <2>1
<1>7. FilledIs(u, m2, p)
  <2>1. m2 = Filled(u, p) /\ u.next[p] \in Node /\ u.prev[p] \in Node
    BY <1>0, <1>5, <1>6
  <2> QED BY <1>5, <2>1, FilledFields
<1>8. /\ m2 \in SlabRecord
      /\ \A x \in Node : m2.next[x] = IF x = p THEN Null
                                      ELSE IF x = m.prev[p] THEN m.next[p] ELSE m.next[x]
      /\ \A x \in Node : m2.prev[x] = IF x = p THEN Null
                                      ELSE IF x = m.next[p] THEN m.prev[p] ELSE m.prev[x]
      /\ m2.type = m.type /\ m2.mark = m.mark /\ m2.count = m.count
      /\ m2.used = u.used
      /\ m2.mFreePageCount = m.mFreePageCount /\ m2.mTotal = m.mTotal /\ m2.mUsed = u.mUsed
  BY <1>5, <1>7 DEF FilledIs
<1>9. Regions(m2) /\ Free(m2) = Free(m) /\ First(m2) = First(m)
  BY <1>1, <1>8, RegionsSame
<1>10. \A q \in Page : m2.used[q] = IF q = p THEN U ELSE m.used[q]
  BY <1>5, <1>8
<1>11. /\ ChunkPages(m2)
       /\ \A t \in Slot : Roomy(m2, t) = IF t = s THEN Roomy(m, s) \ {p} ELSE Roomy(m, t)
  <2>1. U \subseteq 0 .. Chunks[s] - 1
    OBVIOUS
  <2>2. /\ ChunkPages(m2)
        /\ U = 0 .. Chunks[s] - 1 =>
              \A t \in Slot : Roomy(m2, t) = IF t = s THEN Roomy(m, s) \ {p} ELSE Roomy(m, t)
    <3>1. UsedBy(m, m2, p, U)
      BY <1>8, <1>10 DEF UsedBy
    <3>2. ChunkPages(m) /\ 0 .. Bitmap[s] - 1 \subseteq U
      BY <1>1, <1>3
    <3>3. ChunkPages(m2) /\ RoomIs(m, m2, s, p, U)
      BY <2>1, <3>1, <3>2, UsedChunkPages
    <3> QED BY <3>3 DEF RoomIs
  <2> QED BY <2>2
<1>12. /\ AllLists(m2.next, m2.prev, Members(m2, {}))
       /\ On(Members(m2, {})) = On(M) \ {p}
  <2>1. Members(m2, {}) = Drop(M, s, p)
    <3>1. PICK M2 : M2 = Drop(M, s, p)
      OBVIOUS
    <3>2. M2 \in [Lists -> SUBSET Page] /\ M2[s] = M[s] \ {p}
          /\ \A h \in Lists : h # s => M2[h] = M[h]
      BY <1>2, <3>1 DEF Drop
    <3>3. M2[FreePage] = Free(m2) \ {} /\ \A t \in Slot : M2[t] = Roomy(m2, t)
      BY <1>2, <1>9, <1>11, <3>2
    <3>4. Members(m2, {}) = M2
      BY <3>2, <3>3, MembersEqual
    <3> QED BY <3>1, <3>4
  <2>2. \A x \in On(M) \cup Lists : x \in Node
    BY <1>2, NodeFacts DEF First, Free
  <2>2a. \A x \in Lists : x # p
    BY NodeFacts
  <2>3. Unlinked(m.next, m.prev, m2.next, m2.prev, M, p)
    BY <1>8, <2>2, <2>2a DEF Unlinked
  <2>4. /\ AllLists(m2.next, m2.prev, Drop(M, s, p))
        /\ On(Drop(M, s, p)) = On(M) \ {p}
    BY <1>1, <1>6, <2>3, AllUnlink
  <2> QED BY <2>1, <2>4
<1>13. Untyped(m2, {}) /\ Merged(m2, {})
  BY <1>1, <1>8, <1>9 DEF Untyped, Merged
<1>14. LinkedOn(m2, {})
  <2>1. ASSUME NEW q \in Page
        PROVE  m2.next[q] # Null <=> q \in On(M) \ {p}
    <3>1. q \in Node /\ Null \notin Node
      BY NodeFacts
    <3>2. m.next[q] # Null <=> q \in On(M)
      BY <1>0, <1>1 DEF LinkedOn
    <3>3. q = m.prev[p] => q \in On(M)
      BY <1>6a, NodeFacts
    <3> QED BY <1>6, <1>8, <3>1, <3>2, <3>3
  <2> QED BY <1>12, <2>1 DEF LinkedOn
<1>15. Tagged(m2, {})
  <2>1. ASSUME NEW l \in Page, l \notin First(m) PROVE m2.prev[l] = m.prev[l]
    <3>1. l \in Node /\ l # p /\ l # m.next[p]
      BY <1>2, <1>6, <1>6a, <2>1, NodeFacts
    <3> QED BY <1>8, <3>1
  <2> QED BY <1>8, <1>9, <2>1, TagKept
<1>16. Struct(m2, {})
  BY <1>8, <1>9, <1>11, <1>12, <1>13, <1>14, <1>15 DEF Struct
<1> QED BY <1>5, <1>8, <1>10, <1>16

\* What freeMem() of a chunk leaves as it is, and what it changes.
FreedIs(m, m2, p, U, s, v) ==
    /\ m2.type = m.type /\ m2.mark = m.mark /\ m2.count = m.count
    /\ m2.mFreePageCount = m.mFreePageCount /\ m2.mTotal = m.mTotal
    /\ \A q \in Page : m2.used[q] = IF q = p THEN U ELSE m.used[q]
    /\ \A t \in Slot : m2.mUsed[t] = IF t = s THEN v ELSE m.mUsed[t]

\* What LinkFirst does to the fields.
LinkFirstIs(m, m2, h, p) ==
    /\ m2 \in SlabRecord
    /\ \A x \in Node : m2.next[x] = IF x = h THEN p ELSE IF x = p THEN m.next[h] ELSE m.next[x]
    /\ \A x \in Node : m2.prev[x] = IF x = m.next[h] THEN p ELSE IF x = p THEN h ELSE m.prev[x]
    /\ m2.type = m.type /\ m2.mark = m.mark /\ m2.count = m.count /\ m2.used = m.used
    /\ m2.mFreePageCount = m.mFreePageCount /\ m2.mTotal = m.mTotal /\ m2.mUsed = m.mUsed

\* freeMem(): a page that was full comes back to its list.
LEMMA RelistStruct ==
    ASSUME NEW m, Struct(m, {}), NEW p \in Page, NEW s \in Slot, NEW U, NEW v \in Int,
           m.mark[p] = "chunks", m.type[p] = s, m.used[p] = 0 .. Chunks[s] - 1,
           0 .. Bitmap[s] - 1 \subseteq U, U \subseteq 0 .. Chunks[s] - 1, U # 0 .. Chunks[s] - 1,
           NEW m2, m2 = UsedSet(LinkFirst(m, s, p), p, U, s, v)
    PROVE  Struct(m2, {}) /\ FreedIs(m, m2, p, U, s, v)
<1>0. PICK M, u : M = Members(m, {}) /\ u = LinkFirst(m, s, p)
  OBVIOUS
<1>1. /\ m \in SlabRecord /\ Regions(m) /\ ChunkPages(m)
      /\ Untyped(m, {}) /\ Merged(m, {}) /\ Tagged(m, {}) /\ LinkedOn(m, {})
      /\ AllLists(m.next, m.prev, M)
  BY <1>0 DEF Struct
<1>2. /\ M \in [Lists -> SUBSET Page] /\ FreePage \in Lists /\ M[FreePage] = Free(m)
      /\ \A t \in Slot : t \in Lists /\ t # FreePage /\ M[t] = Roomy(m, t)
      /\ On(M) \subseteq First(m)
      /\ p \notin On(M)
  <2>1. /\ M \in [Lists -> SUBSET Page] /\ FreePage \in Lists /\ M[FreePage] = Free(m)
        /\ \A t \in Slot : t \in Lists /\ t # FreePage /\ M[t] = Roomy(m, t)
        /\ On(M) = Free(m) \cup {q \in Page : m.mark[q] = "chunks" /\ m.type[q] \in Slot
                                              /\ m.used[q] # 0 .. Chunks[m.type[q]] - 1}
        /\ On(M) \subseteq First(m)
    BY <1>0, AllMembersAre
  <2>2. p \notin Free(m)
    BY DEF Free
  <2> QED BY <2>1, <2>2
<1>3. U \in SUBSET Nat
  BY SlotFacts
<1>4. /\ m.next[s] \in M[s] \cup {s} /\ m.next[s] \in Node /\ m.next[s] # Null
      /\ m.next[s] \in On(M) \cup Lists /\ s \in Lists /\ s \in Node /\ p \in Node /\ s # p
  BY <1>1, <1>2, HeadNext, NodeFacts
<1>5. m.next[s] # p
  BY <1>2, <1>4, NodeFacts
<1>6. LinkFirstIs(m, u, s, p)
  BY <1>0, <1>1, <1>4, <1>5, LinkFirstFields DEF LinkFirstIs
<1>7. u \in SlabRecord
  BY <1>6 DEF LinkFirstIs
<1>8. UsedIs(u, m2, p, U, s, v)
  BY <1>0, <1>3, <1>7, UsedFields
<1>9. /\ m2 \in SlabRecord
      /\ \A x \in Node : m2.next[x] = IF x = s THEN p ELSE IF x = p THEN m.next[s] ELSE m.next[x]
      /\ \A x \in Node : m2.prev[x] = IF x = m.next[s] THEN p ELSE IF x = p THEN s ELSE m.prev[x]
      /\ m2.type = m.type /\ m2.mark = m.mark /\ m2.count = m.count
      /\ m2.mFreePageCount = m.mFreePageCount /\ m2.mTotal = m.mTotal
      /\ \A q \in Page : m2.used[q] = IF q = p THEN U ELSE m.used[q]
      /\ \A t \in Slot : m2.mUsed[t] = IF t = s THEN v ELSE m.mUsed[t]
  BY <1>6, <1>8 DEF LinkFirstIs, UsedIs
<1>10. Regions(m2) /\ Free(m2) = Free(m) /\ First(m2) = First(m)
  BY <1>1, <1>9, RegionsSame
<1>11. /\ ChunkPages(m2)
       /\ \A t \in Slot : Roomy(m2, t) = IF t = s THEN Roomy(m, s) \cup {p} ELSE Roomy(m, t)
  <2>1. UsedBy(m, m2, p, U)
    BY <1>9 DEF UsedBy
  <2>2. ChunkPages(m)
    BY <1>1
  <2>3. ChunkPages(m2) /\ RoomIs(m, m2, s, p, U)
    BY <2>1, <2>2, UsedChunkPages
  <2> QED BY <2>3 DEF RoomIs
<1>12. /\ AllLists(m2.next, m2.prev, Members(m2, {}))
       /\ On(Members(m2, {})) = On(M) \cup {p}
  <2>1. Members(m2, {}) = Add(M, s, p)
    <3>1. PICK M2 : M2 = Add(M, s, p)
      OBVIOUS
    <3>2. M2 \in [Lists -> SUBSET Page] /\ M2[s] = M[s] \cup {p}
          /\ \A h \in Lists : h # s => M2[h] = M[h]
      BY <1>2, <3>1 DEF Add
    <3>3. M2[FreePage] = Free(m2) \ {} /\ \A t \in Slot : M2[t] = Roomy(m2, t)
      BY <1>2, <1>10, <1>11, <3>2
    <3>4. Members(m2, {}) = M2
      BY <3>2, <3>3, MembersEqual
    <3> QED BY <3>1, <3>4
  <2>2. \A x \in On(M) \cup Lists : x \in Node /\ x # p
    BY <1>2, NodeFacts DEF First, Free
  <2>2a. \A x \in On(M) : x # s
    BY <1>2, NodeFacts DEF First, Free
  <2>3. LinkedFirst(m.next, m.prev, m2.next, m2.prev, M, s, p)
    BY <1>4, <1>5, <1>9, <2>2, <2>2a DEF LinkedFirst
  <2>4. p \in Page \ On(M)
    BY <1>2
  <2>5. /\ AllLists(m2.next, m2.prev, Add(M, s, p))
        /\ On(Add(M, s, p)) = On(M) \cup {p}
    BY <1>1, <1>4, <2>3, <2>4, AllLink
  <2> QED BY <2>1, <2>5
<1>13. Untyped(m2, {}) /\ Merged(m2, {})
  BY <1>1, <1>9, <1>10 DEF Untyped, Merged
<1>14. LinkedOn(m2, {})
  <2>1. ASSUME NEW q \in Page
        PROVE  m2.next[q] # Null <=> q \in On(M) \cup {p}
    <3>1. q \in Node /\ q # s
      BY NodeFacts, SlotFacts
    <3>2. m.next[q] # Null <=> q \in On(M)
      BY <1>0, <1>1 DEF LinkedOn
    <3> QED BY <1>4, <1>9, <3>1, <3>2
  <2> QED BY <1>12, <2>1 DEF LinkedOn
<1>15. Tagged(m2, {})
  <2>1. ASSUME NEW l \in Page, l \notin First(m) PROVE m2.prev[l] = m.prev[l]
    <3>1. p \in First(m)
      BY DEF First
    <3>2. l \in Node /\ l # p /\ l # m.next[s]
      BY <1>2, <1>4, <2>1, <3>1, NodeFacts
    <3> QED BY <1>9, <3>2
  <2> QED BY <1>9, <1>10, <2>1, TagKept
<1>16. Struct(m2, {})
  BY <1>9, <1>10, <1>11, <1>12, <1>13, <1>14, <1>15 DEF Struct
<1> QED BY <1>9, <1>16 DEF FreedIs

\* freeMem() of a chunk up to the test whether its page is empty.
LEMMA ChunkFreedStruct ==
    ASSUME NEW m, Struct(m, {}), NEW p \in Page, NEW s \in Slot, NEW c, NEW v \in Int,
           m.mark[p] = "chunks", m.type[p] = s, c \in m.used[p], c \notin 0 .. Bitmap[s] - 1,
           NEW m2, m2 = UsedSet(Relist(m, p), p, m.used[p] \ {c}, s, v)
    PROVE  Struct(m2, {}) /\ FreedIs(m, m2, p, m.used[p] \ {c}, s, v)
<1>0. PICK U : U = m.used[p] \ {c}
  OBVIOUS
<1>1. m \in SlabRecord /\ ChunkPages(m) /\ LinkedOn(m, {})
  BY DEF Struct
<1>2. 0 .. Bitmap[s] - 1 \subseteq m.used[p] /\ m.used[p] \subseteq 0 .. Chunks[s] - 1
  BY <1>1 DEF ChunkPages
<1>3. 0 .. Bitmap[s] - 1 \subseteq U /\ U \subseteq 0 .. Chunks[s] - 1 /\ U # 0 .. Chunks[s] - 1
  <2>1. 0 .. Bitmap[s] - 1 \subseteq U
    BY <1>0, <1>2
  <2>2. U \subseteq 0 .. Chunks[s] - 1
    BY <1>0, <1>2
  <2>3. c \in 0 .. Chunks[s] - 1 /\ c \notin U
    BY <1>0, <1>2
  <2> QED BY <2>1, <2>2, <2>3
<1>4. m.next[p] # Null <=> m.used[p] # 0 .. Chunks[s] - 1
  <2>1. PICK M : M = Members(m, {})
    OBVIOUS
  <2>2. m.next[p] # Null <=> p \in On(M)
    BY <1>1, <2>1 DEF LinkedOn
  <2>3. On(M) = Free(m) \cup {q \in Page : m.mark[q] = "chunks" /\ m.type[q] \in Slot
                                           /\ m.used[q] # 0 .. Chunks[m.type[q]] - 1}
    BY <2>1, AllMembersAre
  <2>4. p \notin Free(m)
    BY DEF Free
  <2> QED BY <2>2, <2>3, <2>4
<1>5. CASE m.next[p] = Null
  <2>1. m2 = UsedSet(LinkFirst(m, s, p), p, U, s, v)
    BY <1>0, <1>5 DEF Relist
  <2> QED BY <1>0, <1>3, <1>4, <1>5, <2>1, RelistStruct
<1>6. CASE m.next[p] # Null
  <2>1. m2 = UsedSet(m, p, U, s, v)
    BY <1>0, <1>6 DEF Relist
  <2>2. p \in Roomy(m, s)
    BY <1>4, <1>6 DEF Roomy
  <2>3. Struct(m2, {}) /\ UsedIs(m, m2, p, U, s, v)
    BY <1>3, <2>1, <2>2, UsedStruct
  <2> QED BY <1>0, <2>3 DEF UsedIs, FreedIs
<1> QED BY <1>5, <1>6

\* freeMem(): an empty page of chunks has become a free page.
Emptied(m, p, s) == [m EXCEPT !.used[p] = {}, !.mTotal[s] = @ - Capacity(s)]

\* What that does to the fields.
EmptiedIs(m, m2, p, s) ==
    /\ m2.type = m.type /\ m2.mark = m.mark /\ m2.count = m.count
    /\ m2.mFreePageCount = m.mFreePageCount /\ m2.mUsed = m.mUsed
    /\ \A q \in Page : m2.used[q] = IF q = p THEN {} ELSE m.used[q]
    /\ \A t \in Slot : m2.mTotal[t] = IF t = s THEN m.mTotal[s] - Capacity(s) ELSE m.mTotal[t]

\* The pool stays well-formed, for no list asks about a page that is free.
LEMMA EmptiedStruct ==
    ASSUME NEW m, Struct(m, {}), NEW p \in Page, NEW s \in Slot, m.mark[p] = "free",
           NEW m2, m2 = Emptied(m, p, s)
    PROVE  Struct(m2, {}) /\ EmptiedIs(m, m2, p, s)
<1>0. m \in SlabRecord /\ ChunkPages(m)
  BY DEF Struct
<1> DEFINE us == [m.used EXCEPT ![p] = {}]
           tt == [m.mTotal EXCEPT ![s] = m.mTotal[s] - Capacity(s)]
<1>1. m2 = [m EXCEPT !.used = us, !.mTotal = tt]
  BY <1>0 DEF Emptied, SlabRecord
<1>2. m.used \in [Page -> SUBSET Nat] /\ m.mTotal \in [Slot -> Int] /\ Capacity(s) \in Int
  BY <1>0, RecordFields, SlotFacts
<1>3. us \in [Page -> SUBSET Nat] /\ tt \in [Slot -> Int]
  <2>1. m.mTotal[s] - Capacity(s) \in Int
    BY <1>2
  <2> QED BY <1>2, <2>1
<1>4. /\ \A q \in Page : us[q] = IF q = p THEN {} ELSE m.used[q]
      /\ \A t \in Slot : tt[t] = IF t = s THEN m.mTotal[s] - Capacity(s) ELSE m.mTotal[t]
  BY <1>2
<1> HIDE DEF us, tt
<1>5. /\ m2.used = us /\ m2.mTotal = tt
      /\ m2.next = m.next /\ m2.prev = m.prev /\ m2.type = m.type /\ m2.mark = m.mark
      /\ m2.count = m.count /\ m2.mFreePageCount = m.mFreePageCount /\ m2.mUsed = m.mUsed
  BY <1>0, <1>1 DEF SlabRecord
<1>6. m2 \in SlabRecord
  BY <1>0, <1>1, <1>3 DEF SlabRecord
<1>7. ChunkPages(m2)
  BY <1>0, <1>4, <1>5 DEF ChunkPages
<1>8. \A q \in Page : m.mark[q] = "chunks" => (HasRoom(m2, q) <=> HasRoom(m, q))
  BY <1>4, <1>5 DEF HasRoom
<1>9. Struct(m2, {})
  BY <1>5, <1>6, <1>7, <1>8, SameStruct
<1> QED BY <1>4, <1>5, <1>9 DEF EmptiedIs

-----------------------------------------------------------------------------
(* The blocks handed out, and what mStats counts.                          *)

\* The blocks are those the pages tell of.
LiveIs(m, l) ==
    /\ IsFiniteSet(l)
    /\ \A b \in l : \/ \E p \in Page : m.mark[p] = "start" /\ b = <<p, m.count[p], Null>>
                    \/ \E p \in Page : \E c \in m.used[p] :
                          /\ m.mark[p] = "chunks" /\ c \notin 0 .. Bitmap[m.type[p]] - 1
                          /\ b = <<p, 1, c>>
    /\ \A p \in Page : m.mark[p] = "start" => <<p, m.count[p], Null>> \in l
    /\ \A p \in Page : m.mark[p] = "chunks" =>
          \A c \in m.used[p] : c \notin 0 .. Bitmap[m.type[p]] - 1 => <<p, 1, c>> \in l

\* A page of chunks holds one that is in use, but for the pages of E.
NoneEmpty(m, E) ==
    \A p \in Page \ E : m.mark[p] = "chunks" => m.used[p] # 0 .. Bitmap[m.type[p]] - 1

FreeMarked(m) == {p \in Page : m.mark[p] = "free"}

\* mFreePageCount, mUsed and mTotal count what they should.
FreeCounted(m) == m.mFreePageCount = Cardinality(FreeMarked(m))

OfSize(m, l, s) == {b \in l : m.type[b[1]] = s}
UsedCounted(m, l) == \A s \in Slot : m.mUsed[s] = Cardinality(OfSize(m, l, s))

PagesOfSize(m, s) == {p \in Page : m.type[p] = s}
TotalCounted(m) == \A s \in Slot : m.mTotal[s] = Capacity(s) * Cardinality(PagesOfSize(m, s))

\* Sets of pages have a cardinality.
LEMMA PagesFinite ==
    /\ IsFiniteSet(Page)
    /\ \A S \in SUBSET Page : IsFiniteSet(S) /\ Cardinality(S) \in Nat
<1>1. Pages \in Nat
  BY SlabConstants
<1>2. 0 \in Int /\ Pages - 1 \in Int
  BY <1>1
<1>3. IsFiniteSet(Page)
  BY <1>2, FS_Interval DEF Page
<1> QED BY <1>3, FS_Subset, FS_CardinalityType

\* All pages of a run have the mark of its kind.
LEMMA RunMarks ==
    ASSUME NEW m \in SlabRecord, Regions(m), NEW p \in First(m), NEW q \in Page,
           p <= q, q < p + m.count[p]
    PROVE  /\ m.mark[p] = "free" => m.mark[q] = "free"
           /\ q # p => q \notin First(m)
           /\ m.mark[p] # "free" /\ q # p => m.mark[q] = "busy"
<1>1. p \in Page /\ p \in Nat /\ q \in Nat
  BY SlabConstants DEF First, Free, Page
<1>2. CASE q = p
  BY <1>2
<1>3. CASE q # p
  <2>1. p < q
    BY <1>1, <1>3
  <2> QED BY <2>1, RegionFacts
<1> QED BY <1>2, <1>3

\* What a block says of its first page.
LEMMA LiveFacts ==
    ASSUME NEW m, NEW l, LiveIs(m, l), NEW b \in l
    PROVE  /\ b[1] \in Page
           /\ m.mark[b[1]] \in {"start", "chunks"}
           /\ m.mark[b[1]] = "start" => b = <<b[1], m.count[b[1]], Null>> /\ b[2] = m.count[b[1]]
           /\ m.mark[b[1]] = "chunks" => /\ b = <<b[1], 1, b[3]>> /\ b[2] = 1
                                         /\ b[3] \in m.used[b[1]]
                                         /\ b[3] \notin 0 .. Bitmap[m.type[b[1]]] - 1
<1>1. CASE \E p \in Page : m.mark[p] = "start" /\ b = <<p, m.count[p], Null>>
  <2>1. PICK p \in Page : m.mark[p] = "start" /\ b = <<p, m.count[p], Null>>
    BY <1>1
  <2>2. b[1] = p /\ b[2] = m.count[p]
    BY <2>1
  <2> QED BY <2>1, <2>2
<1>2. CASE \E p \in Page : \E c \in m.used[p] :
              /\ m.mark[p] = "chunks" /\ c \notin 0 .. Bitmap[m.type[p]] - 1
              /\ b = <<p, 1, c>>
  <2>1. PICK p \in Page : \E c \in m.used[p] :
              /\ m.mark[p] = "chunks" /\ c \notin 0 .. Bitmap[m.type[p]] - 1
              /\ b = <<p, 1, c>>
    BY <1>2
  <2>2. PICK c \in m.used[p] : c \notin 0 .. Bitmap[m.type[p]] - 1 /\ b = <<p, 1, c>>
    BY <2>1
  <2>3. b[1] = p /\ b[2] = 1 /\ b[3] = c
    BY <2>2
  <2> QED BY <2>1, <2>2, <2>3
<1> QED BY <1>1, <1>2 DEF LiveIs

\* allocPages(): what becomes of the marks.
LEMMA AllocMarks ==
    ASSUME NEW m \in SlabRecord, Regions(m), NEW p \in Free(m), NEW n \in Nat, n > 0,
           n <= m.count[p], NEW m2, AllocPagesIs(m, m2, p, n)
    PROVE  /\ p \in Page /\ p \in Nat /\ p + n <= Pages
           /\ \A q \in Page : p <= q /\ q < p + n => m.mark[q] = "free"
           /\ \A q \in Page : m2.mark[q] = "free" <=> m.mark[q] = "free" /\ ~(p <= q /\ q < p + n)
           /\ \A q \in Page : m2.mark[q] = "chunks" <=> m.mark[q] = "chunks"
           /\ \A q \in Page : m2.mark[q] = "start" <=> q = p \/ m.mark[q] = "start"
           /\ \A q \in Page : m.mark[q] \in {"start", "chunks"} =>
                                m2.count[q] = m.count[q] /\ q # p
<1>1. p \in First(m) /\ m.mark[p] = "free" /\ p \in Page /\ p \in Nat
  BY SlabConstants DEF First, Free, Page
<1>2. m.count[p] \in Nat /\ p + m.count[p] <= Pages /\ Pages \in Nat
  BY <1>1, RegionFacts, SlabConstants
<1>3. p + n <= Pages
  <2>1. PICK c \in Nat : c = m.count[p]
    BY <1>2
  <2> QED BY <1>1, <1>2, <2>1
<1>4. ASSUME NEW q \in Page, p <= q, q < p + n PROVE m.mark[q] = "free"
  <2>1. q \in Nat
    BY SlabConstants DEF Page
  <2>2. PICK c \in Nat : c = m.count[p]
    BY <1>2
  <2>3. q < p + m.count[p]
    BY <1>1, <1>4, <2>1, <2>2
  <2> QED BY <1>1, <1>4, <2>3, RunMarks
<1>5. \A q \in Page : q \in Nat
  BY SlabConstants DEF Page
<1>6. \A q \in Page : m2.mark[q] = IF q = p THEN "start"
                                   ELSE IF p < q /\ q < p + n THEN "busy" ELSE m.mark[q]
  BY DEF AllocPagesIs
<1>7. ASSUME NEW q \in Page
      PROVE  /\ m2.mark[q] = "free" <=> m.mark[q] = "free" /\ ~(p <= q /\ q < p + n)
             /\ m2.mark[q] = "chunks" <=> m.mark[q] = "chunks"
             /\ m2.mark[q] = "start" <=> q = p \/ m.mark[q] = "start"
  <2>1. q \in Nat
    BY <1>5
  <2>2. CASE q = p
    <3>1. p <= q /\ q < p + n
      BY <1>1, <2>2
    <3> QED BY <1>1, <1>6, <2>2, <3>1
  <2>3. CASE q # p /\ p < q /\ q < p + n
    <3>1. p <= q
      BY <1>1, <2>1, <2>3
    <3>2. m.mark[q] = "free"
      BY <1>4, <2>3, <3>1
    <3> QED BY <1>6, <2>3, <3>1, <3>2
  <2>4. CASE q # p /\ ~(p < q /\ q < p + n)
    <3>1. ~(p <= q /\ q < p + n)
      BY <1>1, <2>1, <2>4
    <3> QED BY <1>6, <2>4, <3>1
  <2> QED BY <2>2, <2>3, <2>4
<1>8. ASSUME NEW q \in Page, m.mark[q] \in {"start", "chunks"}
      PROVE  m2.count[q] = m.count[q] /\ q # p
  <2>1. q \in First(m) \ {p}
    BY <1>1, <1>8 DEF First
  <2> QED BY <2>1 DEF AllocPagesIs
<1> QED BY <1>1, <1>3, <1>4, <1>7, <1>8

\* A block of whole pages is one more that is handed out.
LEMMA AllocLive ==
    ASSUME NEW m \in SlabRecord, Regions(m), NEW p \in Free(m), NEW n \in Nat, n > 0,
           n <= m.count[p], NEW m2, AllocPagesIs(m, m2, p, n),
           NEW l, LiveIs(m, l), NoneEmpty(m, {})
    PROVE  LiveIs(m2, l \cup {<<p, n, Null>>}) /\ NoneEmpty(m2, {})
<1>1. /\ p \in Page
      /\ \A q \in Page : m2.mark[q] = "chunks" <=> m.mark[q] = "chunks"
      /\ \A q \in Page : m2.mark[q] = "start" <=> q = p \/ m.mark[q] = "start"
      /\ \A q \in Page : m.mark[q] \in {"start", "chunks"} => m2.count[q] = m.count[q] /\ q # p
  BY AllocMarks
<1>2. m2.used = m.used /\ m2.count[p] = n /\ \A q \in Page : m2.type[q] = m.type[q]
  BY DEF AllocPagesIs
<1>3. IsFiniteSet(l \cup {<<p, n, Null>>})
  BY FS_AddElement DEF LiveIs
<1>4. ASSUME NEW b \in l \cup {<<p, n, Null>>}
      PROVE  \/ \E q \in Page : m2.mark[q] = "start" /\ b = <<q, m2.count[q], Null>>
             \/ \E q \in Page : \E c \in m2.used[q] :
                   /\ m2.mark[q] = "chunks" /\ c \notin 0 .. Bitmap[m2.type[q]] - 1
                   /\ b = <<q, 1, c>>
  <2>1. CASE b = <<p, n, Null>>
    BY <1>1, <1>2, <2>1
  <2>2. CASE b \in l
    <3>1. CASE m.mark[b[1]] = "start"
      <4>1. b[1] \in Page /\ b = <<b[1], m.count[b[1]], Null>>
        BY <2>2, <3>1, LiveFacts
      <4>2. m2.mark[b[1]] = "start" /\ m2.count[b[1]] = m.count[b[1]]
        BY <1>1, <3>1, <4>1
      <4> QED BY <4>1, <4>2
    <3>2. CASE m.mark[b[1]] = "chunks"
      <4>1. /\ b[1] \in Page /\ b = <<b[1], 1, b[3]>> /\ b[3] \in m.used[b[1]]
            /\ b[3] \notin 0 .. Bitmap[m.type[b[1]]] - 1
        BY <2>2, <3>2, LiveFacts
      <4>2. m2.mark[b[1]] = "chunks" /\ m2.type[b[1]] = m.type[b[1]] /\ m2.used[b[1]] = m.used[b[1]]
        BY <1>1, <1>2, <3>2, <4>1
      <4> QED BY <4>1, <4>2
    <3> QED BY <2>2, <3>1, <3>2, LiveFacts
  <2> QED BY <2>1, <2>2
<1>5. \A q \in Page : m2.mark[q] = "start" => <<q, m2.count[q], Null>> \in l \cup {<<p, n, Null>>}
  BY <1>1, <1>2 DEF LiveIs
<1>6. ASSUME NEW q \in Page, m2.mark[q] = "chunks", NEW c \in m2.used[q],
             c \notin 0 .. Bitmap[m2.type[q]] - 1
      PROVE  <<q, 1, c>> \in l \cup {<<p, n, Null>>}
  <2>1. m.mark[q] = "chunks" /\ c \in m.used[q] /\ c \notin 0 .. Bitmap[m.type[q]] - 1
    BY <1>1, <1>2, <1>6
  <2> QED BY <2>1 DEF LiveIs
<1>7. NoneEmpty(m2, {})
  BY <1>1, <1>2 DEF NoneEmpty
<1>8. LiveIs(m2, l \cup {<<p, n, Null>>})
  BY <1>3, <1>4, <1>5, <1>6 DEF LiveIs
<1> QED BY <1>7, <1>8

\* The pages of a run, counted.
LEMMA RunCounted ==
    ASSUME NEW p \in Page, NEW n \in Nat, p + n <= Pages
    PROVE  /\ IsFiniteSet(Run(p, n)) /\ Cardinality(Run(p, n)) = n
           /\ Run(p, n) \in SUBSET Page
           /\ \A q \in Page : q \in Run(p, n) <=> p <= q /\ q < p + n
<1>1. Pages \in Nat /\ p \in Nat
  BY SlabConstants DEF Page
<1>2. p \in Int /\ p + n - 1 \in Int
  BY <1>1
<1>3. IsFiniteSet(p .. p + n - 1)
      /\ Cardinality(p .. p + n - 1) = IF p > p + n - 1 THEN 0 ELSE (p + n - 1) - p + 1
  BY <1>2, FS_Interval
<1>4. (IF p > p + n - 1 THEN 0 ELSE (p + n - 1) - p + 1) = n
  BY <1>1
<1>5. \A q \in p .. p + n - 1 : q \in 0 .. Pages - 1
  BY <1>1
<1>6. \A q \in Page : q \in p .. p + n - 1 <=> p <= q /\ q < p + n
  BY <1>1 DEF Page
<1> QED BY <1>3, <1>4, <1>5, <1>6 DEF Run, Page

\* Pages that leave a set of pages, or join it.
LEMMA PagesTaken ==
    ASSUME NEW S \in SUBSET Page, NEW R \in SUBSET S
    PROVE  Cardinality(S \ R) = Cardinality(S) - Cardinality(R)
<1>1. /\ IsFiniteSet(S \ R) /\ IsFiniteSet(R)
      /\ Cardinality(S \ R) \in Nat /\ Cardinality(R) \in Nat /\ Cardinality(S) \in Nat
  BY PagesFinite
<1>2. (S \ R) \cup R = S /\ (S \ R) \cap R = {}
  OBVIOUS
<1>3. Cardinality((S \ R) \cup R)
        = Cardinality(S \ R) + Cardinality(R) - Cardinality((S \ R) \cap R)
  BY <1>1, FS_Union
<1>3a. Cardinality({}) = 0
  BY FS_EmptySet
<1>3b. Cardinality(S) = Cardinality(S \ R) + Cardinality(R) - Cardinality({})
  BY <1>2, <1>3, Zenon
<1>4. Cardinality(S) = Cardinality(S \ R) + Cardinality(R)
  BY <1>1, <1>3a, <1>3b
<1> QED BY <1>1, <1>4

\* Pages that join a set of others.
LEMMA PagesAdded ==
    ASSUME NEW S \in SUBSET Page, NEW R \in SUBSET Page, S \cap R = {}
    PROVE  Cardinality(S \cup R) = Cardinality(S) + Cardinality(R)
<1>1. /\ IsFiniteSet(S) /\ IsFiniteSet(R)
      /\ Cardinality(S) \in Nat /\ Cardinality(R) \in Nat
  BY PagesFinite
<1>2. Cardinality(S \cup R) = Cardinality(S) + Cardinality(R) - Cardinality(S \cap R)
  BY <1>1, FS_Union
<1>3. Cardinality({}) = 0
  BY FS_EmptySet
<1>4. Cardinality(S \cup R) = Cardinality(S) + Cardinality(R) - Cardinality({})
  BY <1>2, Zenon
<1> QED BY <1>1, <1>3, <1>4

\* All of mStats.
Counted(m, l) == FreeCounted(m) /\ UsedCounted(m, l) /\ TotalCounted(m)

\* The inductive invariant, of a pool m and the blocks l that are handed out.
PoolInv(m, l) ==
    Struct(m, {}) /\ LiveIs(m, l) /\ NoneEmpty(m, {}) /\ Counted(m, l)

\* allocPages() keeps the invariant: a block of whole pages is handed out.
LEMMA AllocKeeps ==
    ASSUME NEW m, NEW l, PoolInv(m, l), NEW p \in Free(m), NEW n \in Nat, n > 0,
           n <= m.count[p], NEW m2, m2 = AllocPages(m, p, n)
    PROVE  /\ PoolInv(m2, l \cup {<<p, n, Null>>})
           /\ <<p, n, Null>> \notin l
           /\ p \in Page /\ m2.mark[p] = "start" /\ m2.count[p] = n
           /\ \A q \in Page : m2.mark[q] = "chunks" <=> m.mark[q] = "chunks"
           /\ m2.used = m.used /\ \A q \in Page : m2.type[q] = m.type[q]
<1>1. Struct(m2, {}) /\ AllocPagesIs(m, m2, p, n)
  BY AllocPagesStruct DEF PoolInv
<1>2. /\ m \in SlabRecord /\ Regions(m) /\ Untyped(m, {})
      /\ LiveIs(m, l) /\ NoneEmpty(m, {})
  BY DEF PoolInv, Struct
<1>3. /\ p \in Page /\ p \in Nat /\ p + n <= Pages
      /\ \A q \in Page : p <= q /\ q < p + n => m.mark[q] = "free"
      /\ \A q \in Page : m2.mark[q] = "free" <=> m.mark[q] = "free" /\ ~(p <= q /\ q < p + n)
      /\ \A q \in Page : m2.mark[q] = "chunks" <=> m.mark[q] = "chunks"
      /\ \A q \in Page : m2.mark[q] = "start" <=> q = p \/ m.mark[q] = "start"
  BY <1>1, <1>2, AllocMarks
<1>4. LiveIs(m2, l \cup {<<p, n, Null>>}) /\ NoneEmpty(m2, {})
  BY <1>1, <1>2, AllocLive
<1>5. /\ \A q \in Page : m2.type[q] = m.type[q]
      /\ m2.count[p] = n /\ m2.used = m.used /\ m2.mFreePageCount = m.mFreePageCount - n
      /\ m2.mTotal = m.mTotal /\ m2.mUsed = m.mUsed
  BY <1>1 DEF AllocPagesIs
<1>6. m.mark[p] = "free" /\ m.type[p] = Null
  BY <1>2 DEF Free, Untyped
<1>7. FreeCounted(m2)
  <2>1. /\ Cardinality(Run(p, n)) = n /\ Run(p, n) \in SUBSET Page
        /\ \A q \in Page : q \in Run(p, n) <=> p <= q /\ q < p + n
    BY <1>3, RunCounted
  <2>2. Run(p, n) \in SUBSET FreeMarked(m) /\ FreeMarked(m) \in SUBSET Page
    BY <1>3, <2>1 DEF FreeMarked
  <2>3. FreeMarked(m2) = FreeMarked(m) \ Run(p, n)
    BY <1>3, <2>1 DEF FreeMarked
  <2>4. Cardinality(FreeMarked(m) \ Run(p, n)) = Cardinality(FreeMarked(m)) - Cardinality(Run(p, n))
    BY <2>2, PagesTaken
  <2>5. m.mFreePageCount = Cardinality(FreeMarked(m))
    BY DEF PoolInv, Counted, FreeCounted
  <2>6. Cardinality(FreeMarked(m2)) = Cardinality(FreeMarked(m)) - Cardinality(Run(p, n))
    BY <2>3, <2>4, Zenon
  <2> QED BY <1>5, <2>1, <2>5, <2>6 DEF FreeCounted
<1>8. UsedCounted(m2, l \cup {<<p, n, Null>>})
  <2>1. ASSUME NEW s \in Slot PROVE OfSize(m2, l \cup {<<p, n, Null>>}, s) = OfSize(m, l, s)
    <3>1. s # Null
      BY SlabConstants
    <3>2. ASSUME NEW b \in l PROVE m2.type[b[1]] = m.type[b[1]]
      BY <1>2, <1>5, LiveFacts
    <3>3. m2.type[(<<p, n, Null>>)[1]] # s
      BY <1>3, <1>5, <1>6, <3>1
    <3> QED BY <3>2, <3>3 DEF OfSize
  <2>2. ASSUME NEW s \in Slot
        PROVE  m2.mUsed[s] = Cardinality(OfSize(m2, l \cup {<<p, n, Null>>}, s))
    <3>1. m.mUsed[s] = Cardinality(OfSize(m, l, s))
      BY DEF PoolInv, Counted, UsedCounted
    <3> QED BY <1>5, <2>1, <3>1, Zenon
  <2> QED BY <2>2 DEF UsedCounted
<1>9. TotalCounted(m2)
  <2>1. ASSUME NEW s \in Slot PROVE PagesOfSize(m2, s) = PagesOfSize(m, s)
    BY <1>5 DEF PagesOfSize
  <2>2. ASSUME NEW s \in Slot PROVE m2.mTotal[s] = Capacity(s) * Cardinality(PagesOfSize(m2, s))
    <3>1. m.mTotal[s] = Capacity(s) * Cardinality(PagesOfSize(m, s))
      BY DEF PoolInv, Counted, TotalCounted
    <3> QED BY <1>5, <2>1, <3>1, Zenon
  <2> QED BY <2>2 DEF TotalCounted
<1>10. <<p, n, Null>> \notin l
  <2>1. SUFFICES ASSUME <<p, n, Null>> \in l PROVE FALSE
    OBVIOUS
  <2>2. m.mark[(<<p, n, Null>>)[1]] \in {"start", "chunks"}
    BY <1>2, <2>1, LiveFacts
  <2> QED BY <1>6, <2>2
<1>11. PoolInv(m2, l \cup {<<p, n, Null>>})
  BY <1>1, <1>4, <1>7, <1>8, <1>9 DEF PoolInv, Counted
<1> QED BY <1>3, <1>5, <1>10, <1>11

\* What LiveFacts says of a page: its block, or its chunks.
LEMMA LiveAt ==
    ASSUME NEW m, NEW l, LiveIs(m, l), NEW b \in l, NEW p, b[1] = p
    PROVE  /\ m.mark[p] = "start" => b = <<p, m.count[p], Null>>
           /\ m.mark[p] = "chunks" => /\ b = <<p, 1, b[3]>> /\ b[3] \in m.used[p]
                                      /\ b[3] \notin 0 .. Bitmap[m.type[p]] - 1
  BY LiveFacts

\* allocMem(): a block of one page is made a page of chunks, the first in use.
LEMMA NewChunksKeeps ==
    ASSUME NEW m, NEW l, PoolInv(m, l), NEW s \in Slot, NEW p \in Page,
           m.mark[p] = "start", m.count[p] = 1, m.next[s] = s,
           NEW m2, m2 = NewChunks(m, s, p),
           NEW l2, l2 = (l \ {<<p, 1, Null>>}) \cup {<<p, 1, Bitmap[s]>>}
    PROVE  PoolInv(m2, l2)
<1>1. m \in SlabRecord /\ Struct(m, {}) /\ Untyped(m, {}) /\ LiveIs(m, l) /\ NoneEmpty(m, {})
  BY DEF PoolInv, Struct
<1>2. Struct(m2, {})
  BY <1>1, NewChunksStruct
<1>3. NewChunksIs(m, m2, s, p)
  BY <1>1, NewChunksFields
<1>4. /\ \A q \in Page : m2.mark[q] = IF q = p THEN "chunks" ELSE m.mark[q]
      /\ \A q \in Page : m2.type[q] = IF q = p THEN s ELSE m.type[q]
      /\ \A q \in Page : m2.used[q] = IF q = p THEN 0 .. Bitmap[s] ELSE m.used[q]
      /\ m2.count = m.count /\ m2.mFreePageCount = m.mFreePageCount
      /\ \A t \in Slot : m2.mTotal[t] = IF t = s THEN m.mTotal[s] + Capacity(s) ELSE m.mTotal[t]
      /\ \A t \in Slot : m2.mUsed[t] = IF t = s THEN m.mUsed[s] + 1 ELSE m.mUsed[t]
  BY <1>3 DEF NewChunksIs
<1>5. m.type[p] = Null /\ s # Null
  BY <1>1, SlabConstants DEF Untyped
<1>6. /\ Bitmap[s] \in Nat /\ Bitmap[s] \in 0 .. Bitmap[s] /\ Bitmap[s] \notin 0 .. Bitmap[s] - 1
      /\ \A c \in 0 .. Bitmap[s] : c \notin 0 .. Bitmap[s] - 1 => c = Bitmap[s]
  <2>1. PICK k \in Nat : k = Bitmap[s]
    BY SlotFacts
  <2>2. k \in 0 .. k /\ k \notin 0 .. k - 1 /\ \A c \in 0 .. k : c \notin 0 .. k - 1 => c = k
    BY <2>1
  <2> QED BY <2>1, <2>2
<1>7. \A b \in l : b[1] = p <=> b = <<p, 1, Null>>
  BY <1>1, LiveAt
<1>8. ASSUME NEW b \in l2, b # <<p, 1, Bitmap[s]>>
      PROVE  b \in l /\ b[1] # p /\ b[1] \in Page
  <2>1. b \in l /\ b # <<p, 1, Null>>
    BY <1>8
  <2> QED BY <1>1, <1>7, <2>1, LiveFacts
<1>9. (<<p, 1, Bitmap[s]>>)[1] = p /\ <<p, 1, Bitmap[s]>> \in l2
  OBVIOUS
<1>10. IsFiniteSet(l2)
  <2>1. IsFiniteSet(l \ {<<p, 1, Null>>})
    BY <1>1, FS_RemoveElement DEF LiveIs
  <2> QED BY <2>1, FS_AddElement
<1>11. ASSUME NEW b \in l2
       PROVE  \/ \E q \in Page : m2.mark[q] = "start" /\ b = <<q, m2.count[q], Null>>
              \/ \E q \in Page : \E c \in m2.used[q] :
                   /\ m2.mark[q] = "chunks" /\ c \notin 0 .. Bitmap[m2.type[q]] - 1
                   /\ b = <<q, 1, c>>
  <2>1. CASE b = <<p, 1, Bitmap[s]>>
    <3>1. m2.mark[p] = "chunks" /\ m2.type[p] = s /\ m2.used[p] = 0 .. Bitmap[s]
      BY <1>4
    <3> QED BY <1>6, <2>1, <3>1
  <2>2. CASE b # <<p, 1, Bitmap[s]>>
    <3>1. b \in l /\ b[1] # p /\ b[1] \in Page
      BY <1>8, <2>2
    <3>2. /\ m2.mark[b[1]] = m.mark[b[1]] /\ m2.type[b[1]] = m.type[b[1]]
          /\ m2.used[b[1]] = m.used[b[1]] /\ m2.count[b[1]] = m.count[b[1]]
      BY <1>4, <3>1
    <3>3. CASE m.mark[b[1]] = "start"
      <4>1. b = <<b[1], m.count[b[1]], Null>>
        BY <1>1, <3>1, <3>3, LiveFacts
      <4> QED BY <3>1, <3>2, <3>3, <4>1
    <3>4. CASE m.mark[b[1]] = "chunks"
      <4>1. /\ b = <<b[1], 1, b[3]>> /\ b[3] \in m.used[b[1]]
            /\ b[3] \notin 0 .. Bitmap[m.type[b[1]]] - 1
        BY <1>1, <3>1, <3>4, LiveFacts
      <4> QED BY <3>1, <3>2, <3>4, <4>1
    <3> QED BY <1>1, <3>1, <3>3, <3>4, LiveFacts
  <2> QED BY <2>1, <2>2
<1>12. ASSUME NEW q \in Page, m2.mark[q] = "start" PROVE <<q, m2.count[q], Null>> \in l2
  <2>1. q # p /\ m.mark[q] = "start" /\ m2.count[q] = m.count[q]
    BY <1>4, <1>12
  <2>2. <<q, m.count[q], Null>> \in l
    BY <1>1, <2>1 DEF LiveIs
  <2>3. <<q, m.count[q], Null>> # <<p, 1, Null>>
    BY <2>1
  <2> QED BY <2>1, <2>2, <2>3
<1>13. ASSUME NEW q \in Page, m2.mark[q] = "chunks", NEW c \in m2.used[q],
              c \notin 0 .. Bitmap[m2.type[q]] - 1
       PROVE  <<q, 1, c>> \in l2
  <2>1. CASE q = p
    <3>1. m2.type[p] = s /\ m2.used[p] = 0 .. Bitmap[s]
      BY <1>4
    <3>2. c = Bitmap[s]
      BY <1>6, <1>13, <2>1, <3>1
    <3> QED BY <1>9, <2>1, <3>2
  <2>2. CASE q # p
    <3>1. m.mark[q] = "chunks" /\ c \in m.used[q] /\ c \notin 0 .. Bitmap[m.type[q]] - 1
      BY <1>4, <1>13, <2>2
    <3>2. <<q, 1, c>> \in l
      BY <1>1, <3>1 DEF LiveIs
    <3>3. <<q, 1, c>> # <<p, 1, Null>>
      BY <2>2
    <3> QED BY <3>2, <3>3
  <2> QED BY <2>1, <2>2
<1>14. LiveIs(m2, l2)
  BY <1>10, <1>11, <1>12, <1>13 DEF LiveIs
<1>15. NoneEmpty(m2, {})
  <2>1. 0 .. Bitmap[s] # 0 .. Bitmap[s] - 1
    BY <1>6
  <2> QED BY <1>1, <1>4, <2>1 DEF NoneEmpty
<1>16. FreeCounted(m2)
  <2>1. FreeMarked(m2) = FreeMarked(m)
    BY <1>4 DEF FreeMarked
  <2>2. m.mFreePageCount = Cardinality(FreeMarked(m))
    BY DEF PoolInv, Counted, FreeCounted
  <2> QED BY <1>4, <2>1, <2>2, Zenon DEF FreeCounted
<1>17. UsedCounted(m2, l2)
  <2>1. ASSUME NEW t \in Slot, t # s PROVE OfSize(m2, l2, t) = OfSize(m, l, t)
    <3>1. ASSUME NEW b \in OfSize(m2, l2, t) PROVE b \in OfSize(m, l, t)
      <4>1. b \in l2 /\ m2.type[b[1]] = t
        BY <3>1 DEF OfSize
      <4>2. b # <<p, 1, Bitmap[s]>>
        BY <1>4, <1>9, <2>1, <4>1
      <4>3. b \in l /\ b[1] # p /\ b[1] \in Page
        BY <1>8, <4>1, <4>2
      <4> QED BY <1>4, <4>1, <4>3 DEF OfSize
    <3>2. ASSUME NEW b \in OfSize(m, l, t) PROVE b \in OfSize(m2, l2, t)
      <4>1. b \in l /\ m.type[b[1]] = t /\ b[1] \in Page
        BY <1>1, <3>2, LiveFacts DEF OfSize
      <4>2. b[1] # p
        BY <1>5, <4>1, SlabConstants
      <4>3. b \in l2
        BY <4>1, <4>2
      <4> QED BY <1>4, <4>1, <4>2, <4>3 DEF OfSize
    <3> QED BY <3>1, <3>2
  <2>2. OfSize(m2, l2, s) = OfSize(m, l, s) \cup {<<p, 1, Bitmap[s]>>}
    <3>1. ASSUME NEW b \in OfSize(m2, l2, s), b # <<p, 1, Bitmap[s]>> PROVE b \in OfSize(m, l, s)
      <4>1. b \in l2 /\ m2.type[b[1]] = s
        BY <3>1 DEF OfSize
      <4>2. b \in l /\ b[1] # p /\ b[1] \in Page
        BY <1>8, <3>1, <4>1
      <4> QED BY <1>4, <4>1, <4>2 DEF OfSize
    <3>2. ASSUME NEW b \in OfSize(m, l, s) PROVE b \in OfSize(m2, l2, s)
      <4>1. b \in l /\ m.type[b[1]] = s /\ b[1] \in Page
        BY <1>1, <3>2, LiveFacts DEF OfSize
      <4>2. b[1] # p
        BY <1>5, <4>1
      <4>3. b \in l2
        BY <4>1, <4>2
      <4> QED BY <1>4, <4>1, <4>2, <4>3 DEF OfSize
    <3>3. <<p, 1, Bitmap[s]>> \in OfSize(m2, l2, s)
      BY <1>4, <1>9 DEF OfSize
    <3> QED BY <3>1, <3>2, <3>3
  <2>3. <<p, 1, Bitmap[s]>> \notin OfSize(m, l, s)
    BY <1>5, <1>9 DEF OfSize
  <2>4. \A t \in Slot : m.mUsed[t] = Cardinality(OfSize(m, l, t))
    BY DEF PoolInv, Counted, UsedCounted
  <2>5. m2.mUsed[s] = Cardinality(OfSize(m2, l2, s))
    <3>1. IsFiniteSet(OfSize(m, l, s))
      <4>1. OfSize(m, l, s) \in SUBSET l
        BY DEF OfSize
      <4> QED BY <1>1, <4>1, FS_Subset DEF LiveIs
    <3>2. Cardinality(OfSize(m, l, s) \cup {<<p, 1, Bitmap[s]>>}) = Cardinality(OfSize(m, l, s)) + 1
      BY <2>3, <3>1, FS_AddElement
    <3> QED BY <1>4, <2>2, <2>4, <3>2, Zenon
  <2>6. ASSUME NEW t \in Slot, t # s PROVE m2.mUsed[t] = Cardinality(OfSize(m2, l2, t))
    BY <1>4, <2>1, <2>4, <2>6, Zenon
  <2> QED BY <2>5, <2>6 DEF UsedCounted
<1>18. TotalCounted(m2)
  <2>1. ASSUME NEW t \in Slot, t # s PROVE PagesOfSize(m2, t) = PagesOfSize(m, t)
    <3>1. t # Null
      BY SlabConstants
    <3> QED BY <1>4, <1>5, <2>1, <3>1 DEF PagesOfSize
  <2>2. PagesOfSize(m2, s) = PagesOfSize(m, s) \cup {p}
    BY <1>4 DEF PagesOfSize
  <2>3. p \notin PagesOfSize(m, s) /\ PagesOfSize(m, s) \in SUBSET Page
    BY <1>5 DEF PagesOfSize
  <2>4. \A t \in Slot : m.mTotal[t] = Capacity(t) * Cardinality(PagesOfSize(m, t))
    BY DEF PoolInv, Counted, TotalCounted
  <2>5. m2.mTotal[s] = Capacity(s) * Cardinality(PagesOfSize(m2, s))
    <3>1. IsFiniteSet(PagesOfSize(m, s)) /\ Cardinality(PagesOfSize(m, s)) \in Nat
      BY <2>3, PagesFinite
    <3>2. Cardinality(PagesOfSize(m, s) \cup {p}) = Cardinality(PagesOfSize(m, s)) + 1
      BY <2>3, <3>1, FS_AddElement
    <3>3. Cardinality(PagesOfSize(m2, s)) = Cardinality(PagesOfSize(m, s)) + 1
      BY <2>2, <3>2, Zenon
    <3>4. m2.mTotal[s] = Capacity(s) * Cardinality(PagesOfSize(m, s)) + Capacity(s)
      BY <1>4, <2>4, Zenon
    <3>5. \A c \in Int, k \in Nat : c * k + c = c * (k + 1)
      OBVIOUS
    <3>6. Capacity(s) \in Int
      BY SlotFacts
    <3> QED BY <3>1, <3>3, <3>4, <3>5, <3>6
  <2>6. ASSUME NEW t \in Slot, t # s PROVE m2.mTotal[t] = Capacity(t) * Cardinality(PagesOfSize(m2, t))
    <3>1. m2.mTotal[t] = m.mTotal[t]
      BY <1>4, <2>6
    <3> QED BY <2>1, <2>4, <2>6, <3>1, Zenon
  <2> QED BY <2>5, <2>6 DEF TotalCounted
<1> QED BY <1>2, <1>14, <1>15, <1>16, <1>17, <1>18 DEF PoolInv, Counted

\* What the chunks in use of one page leave as it was.
LEMMA OthersKeep ==
    ASSUME NEW m, NEW l, LiveIs(m, l), NEW p \in Page, NEW s \in Slot,
           m.mark[p] = "chunks", m.type[p] = s,
           NEW U, NEW v, NEW m2, FreedIs(m, m2, p, U, s, v),
           FreeCounted(m), TotalCounted(m)
    PROVE  FreeCounted(m2) /\ TotalCounted(m2)
<1>1. /\ m2.type = m.type /\ m2.mark = m.mark /\ m2.count = m.count
      /\ m2.mFreePageCount = m.mFreePageCount /\ m2.mTotal = m.mTotal
  BY DEF FreedIs
<1>2. FreeMarked(m2) = FreeMarked(m) /\ \A t : PagesOfSize(m2, t) = PagesOfSize(m, t)
  BY <1>1 DEF FreeMarked, PagesOfSize
<1>3. FreeCounted(m2)
  BY <1>1, <1>2, Zenon DEF FreeCounted
<1>4. TotalCounted(m2)
  BY <1>1, <1>2, Zenon DEF TotalCounted
<1> QED BY <1>3, <1>4

\* A block of the pages is one of the page p or one of another.
LiveBlock(m, b) ==
    \/ \E q \in Page : m.mark[q] = "start" /\ b = <<q, m.count[q], Null>>
    \/ \E q \in Page : \E c \in m.used[q] :
          /\ m.mark[q] = "chunks" /\ c \notin 0 .. Bitmap[m.type[q]] - 1
          /\ b = <<q, 1, c>>

\* LiveIs in terms of LiveBlock.
LEMMA LiveBlocks ==
    ASSUME NEW m, NEW l
    PROVE  LiveIs(m, l) <=>
             /\ IsFiniteSet(l) /\ \A b \in l : LiveBlock(m, b)
             /\ \A p \in Page : m.mark[p] = "start" => <<p, m.count[p], Null>> \in l
             /\ \A p \in Page : m.mark[p] = "chunks" =>
                   \A c \in m.used[p] : c \notin 0 .. Bitmap[m.type[p]] - 1 => <<p, 1, c>> \in l
  BY DEF LiveIs, LiveBlock

\* What is known of the first page of a block makes it a block of m2.
LEMMA LiveBlockFrom ==
    ASSUME NEW m, NEW m2, NEW b, NEW p \in Page, b[1] = p,
           \/ m.mark[p] = "start" /\ b = <<p, m.count[p], Null>>
              /\ m2.mark[p] = "start" /\ m2.count[p] = m.count[p]
           \/ m2.mark[p] = "chunks" /\ b = <<p, 1, b[3]>> /\ b[3] \in m2.used[p]
              /\ b[3] \notin 0 .. Bitmap[m2.type[p]] - 1
    PROVE  LiveBlock(m2, b)
  BY DEF LiveBlock

\* allocMem(): a chunk of a page is handed out.
LEMMA ChunkTakenKeeps ==
    ASSUME NEW m, NEW l, PoolInv(m, l), NEW p \in Page, NEW s \in Slot,
           m.mark[p] = "chunks", m.type[p] = s,
           NEW c, c \notin m.used[p],
           NEW m2, FreedIs(m, m2, p, m.used[p] \cup {c}, s, m.mUsed[s] + 1), Struct(m2, {})
    PROVE  PoolInv(m2, l \cup {<<p, 1, c>>})
<1>1. /\ m \in SlabRecord /\ ChunkPages(m) /\ LiveIs(m, l) /\ NoneEmpty(m, {})
      /\ FreeCounted(m) /\ UsedCounted(m, l) /\ TotalCounted(m)
  BY DEF PoolInv, Struct, Counted
<1>2. /\ m2.type = m.type /\ m2.mark = m.mark /\ m2.count = m.count
      /\ \A q \in Page : m2.used[q] = IF q = p THEN m.used[p] \cup {c} ELSE m.used[q]
      /\ \A t \in Slot : m2.mUsed[t] = IF t = s THEN m.mUsed[s] + 1 ELSE m.mUsed[t]
  BY DEF FreedIs
<1>3. c \notin 0 .. Bitmap[s] - 1
  BY <1>1 DEF ChunkPages
<1>4a. FreeCounted(m2) /\ TotalCounted(m2)
  BY <1>1, OthersKeep
<1>4. /\ FreeCounted(m2) /\ TotalCounted(m2)
      /\ \A t, l2 : OfSize(m2, l2, t) = OfSize(m, l2, t)
  BY <1>2, <1>4a DEF OfSize
<1>5. (<<p, 1, c>>)[1] = p /\ (<<p, 1, c>>)[3] = c
  OBVIOUS
<1>6. <<p, 1, c>> \notin l
  BY <1>1, <1>5, LiveAt
<1>7. LiveIs(m2, l \cup {<<p, 1, c>>})
  <2>1. IsFiniteSet(l \cup {<<p, 1, c>>})
    BY <1>1, FS_AddElement DEF LiveIs
  <2>2. ASSUME NEW b \in l \cup {<<p, 1, c>>} PROVE LiveBlock(m2, b)
    <3>1. CASE b = <<p, 1, c>>
      BY <1>2, <1>3, <3>1 DEF LiveBlock
    <3>2. CASE b \in l
      <4>1. PICK q : q = b[1]
        OBVIOUS
      <4>2. q \in Page /\ m.mark[q] \in {"start", "chunks"}
        BY <1>1, <3>2, <4>1, LiveFacts
      <4>3. m.used[q] \subseteq m2.used[q]
        BY <1>2, <4>2
      <4>4. /\ m.mark[q] = "start" => b = <<q, m.count[q], Null>>
            /\ m.mark[q] = "chunks" => /\ b = <<q, 1, b[3]>> /\ b[3] \in m.used[q]
                                       /\ b[3] \notin 0 .. Bitmap[m.type[q]] - 1
        BY <1>1, <3>2, <4>1, LiveAt
      <4> QED BY <1>2, <4>1, <4>2, <4>3, <4>4, LiveBlockFrom
    <3> QED BY <3>1, <3>2
  <2>3. ASSUME NEW q \in Page, m2.mark[q] = "start"
        PROVE  <<q, m2.count[q], Null>> \in l \cup {<<p, 1, c>>}
    BY <1>1, <1>2, <2>3 DEF LiveIs
  <2>4. ASSUME NEW q \in Page, m2.mark[q] = "chunks", NEW d \in m2.used[q],
               d \notin 0 .. Bitmap[m2.type[q]] - 1
        PROVE  <<q, 1, d>> \in l \cup {<<p, 1, c>>}
    <3>1. CASE q = p /\ d = c
      BY <3>1
    <3>2. CASE ~(q = p /\ d = c)
      <4>1. d \in m.used[q] /\ m.mark[q] = "chunks" /\ d \notin 0 .. Bitmap[m.type[q]] - 1
        BY <1>2, <2>4, <3>2
      <4> QED BY <1>1, <4>1 DEF LiveIs
    <3> QED BY <3>1, <3>2
  <2> QED BY <2>1, <2>2, <2>3, <2>4, LiveBlocks
<1>8. NoneEmpty(m2, {})
  BY <1>1, <1>2, <1>3 DEF NoneEmpty
<1>9. UsedCounted(m2, l \cup {<<p, 1, c>>})
  <2>1. \A t \in Slot : m.mUsed[t] = Cardinality(OfSize(m, l, t))
    BY <1>1 DEF UsedCounted
  <2>2. ASSUME NEW t \in Slot, t # s PROVE OfSize(m, l \cup {<<p, 1, c>>}, t) = OfSize(m, l, t)
    BY <1>5, <2>2 DEF OfSize
  <2>3. OfSize(m, l \cup {<<p, 1, c>>}, s) = OfSize(m, l, s) \cup {<<p, 1, c>>}
    BY <1>5 DEF OfSize
  <2>4. <<p, 1, c>> \notin OfSize(m, l, s) /\ OfSize(m, l, s) \in SUBSET l
    BY <1>6 DEF OfSize
  <2>5. IsFiniteSet(OfSize(m, l, s))
    BY <1>1, <2>4, FS_Subset DEF LiveIs
  <2>6. Cardinality(OfSize(m, l, s) \cup {<<p, 1, c>>}) = Cardinality(OfSize(m, l, s)) + 1
    BY <2>4, <2>5, FS_AddElement
  <2>7. m2.mUsed[s] = Cardinality(OfSize(m2, l \cup {<<p, 1, c>>}, s))
    BY <1>2, <1>4, <2>1, <2>3, <2>6, Zenon
  <2>8. ASSUME NEW t \in Slot, t # s
        PROVE  m2.mUsed[t] = Cardinality(OfSize(m2, l \cup {<<p, 1, c>>}, t))
    <3>1. m2.mUsed[t] = m.mUsed[t]
      BY <1>2, <2>8
    <3> QED BY <1>4, <2>1, <2>2, <2>8, <3>1, Zenon
  <2> QED BY <2>7, <2>8 DEF UsedCounted
<1> QED BY <1>4, <1>7, <1>8, <1>9 DEF PoolInv, Counted

\* freeMem(): a chunk is given back; its page may hold none that is in use now.
LEMMA ChunkFreedKeeps ==
    ASSUME NEW m, NEW l, PoolInv(m, l), NEW p \in Page, NEW s \in Slot,
           m.mark[p] = "chunks", m.type[p] = s,
           NEW c, c \in m.used[p], c \notin 0 .. Bitmap[s] - 1,
           NEW m2, FreedIs(m, m2, p, m.used[p] \ {c}, s, m.mUsed[s] - 1)
    PROVE  /\ LiveIs(m2, l \ {<<p, 1, c>>}) /\ NoneEmpty(m2, {p})
           /\ Counted(m2, l \ {<<p, 1, c>>})
<1>1. /\ m \in SlabRecord /\ ChunkPages(m) /\ LiveIs(m, l) /\ NoneEmpty(m, {})
      /\ FreeCounted(m) /\ UsedCounted(m, l) /\ TotalCounted(m)
  BY DEF PoolInv, Struct, Counted
<1>2. /\ m2.type = m.type /\ m2.mark = m.mark /\ m2.count = m.count
      /\ \A q \in Page : m2.used[q] = IF q = p THEN m.used[p] \ {c} ELSE m.used[q]
      /\ \A t \in Slot : m2.mUsed[t] = IF t = s THEN m.mUsed[s] - 1 ELSE m.mUsed[t]
  BY DEF FreedIs
<1>4a. FreeCounted(m2) /\ TotalCounted(m2)
  BY <1>1, OthersKeep
<1>4. /\ FreeCounted(m2) /\ TotalCounted(m2)
      /\ \A t, l2 : OfSize(m2, l2, t) = OfSize(m, l2, t)
  BY <1>2, <1>4a DEF OfSize
<1>5. (<<p, 1, c>>)[1] = p /\ (<<p, 1, c>>)[3] = c
  OBVIOUS
<1>6. <<p, 1, c>> \in l
  BY <1>1 DEF LiveIs
<1>7. LiveIs(m2, l \ {<<p, 1, c>>})
  <2>1. IsFiniteSet(l \ {<<p, 1, c>>})
    BY <1>1, FS_RemoveElement DEF LiveIs
  <2>2. ASSUME NEW b \in l \ {<<p, 1, c>>} PROVE LiveBlock(m2, b)
    <3>1. PICK q : q = b[1]
      OBVIOUS
    <3>2. q \in Page /\ m.mark[q] \in {"start", "chunks"}
      BY <1>1, <3>1, LiveFacts
    <3>3. /\ m.mark[q] = "start" => b = <<q, m.count[q], Null>>
          /\ m.mark[q] = "chunks" => /\ b = <<q, 1, b[3]>> /\ b[3] \in m.used[q]
                                     /\ b[3] \notin 0 .. Bitmap[m.type[q]] - 1
      BY <1>1, <3>1, LiveAt
    <3>4. m.mark[q] = "chunks" => b[3] \in m2.used[q]
      <4>1. ASSUME m.mark[q] = "chunks", q = p PROVE b[3] # c
        BY <3>3, <4>1
      <4> QED BY <1>2, <3>2, <3>3, <4>1
    <3> QED BY <1>2, <3>1, <3>2, <3>3, <3>4, LiveBlockFrom
  <2>3. ASSUME NEW q \in Page, m2.mark[q] = "start"
        PROVE  <<q, m2.count[q], Null>> \in l \ {<<p, 1, c>>}
    <3>1. q # p
      BY <1>2, <2>3
    <3>2. <<q, m2.count[q], Null>> # <<p, 1, c>>
      BY <3>1
    <3> QED BY <1>1, <1>2, <2>3, <3>2 DEF LiveIs
  <2>4. ASSUME NEW q \in Page, m2.mark[q] = "chunks", NEW d \in m2.used[q],
               d \notin 0 .. Bitmap[m2.type[q]] - 1
        PROVE  <<q, 1, d>> \in l \ {<<p, 1, c>>}
    <3>1. d \in m.used[q] /\ m.mark[q] = "chunks" /\ d \notin 0 .. Bitmap[m.type[q]] - 1
      BY <1>2, <2>4
    <3>2. ~(q = p /\ d = c)
      BY <1>2, <2>4
    <3>3. <<q, 1, d>> # <<p, 1, c>>
      BY <3>2
    <3> QED BY <1>1, <3>1, <3>3 DEF LiveIs
  <2> QED BY <2>1, <2>2, <2>3, <2>4, LiveBlocks
<1>8. NoneEmpty(m2, {p})
  BY <1>1, <1>2 DEF NoneEmpty
<1>9. UsedCounted(m2, l \ {<<p, 1, c>>})
  <2>1. \A t \in Slot : m.mUsed[t] = Cardinality(OfSize(m, l, t))
    BY <1>1 DEF UsedCounted
  <2>2. ASSUME NEW t \in Slot, t # s PROVE OfSize(m, l \ {<<p, 1, c>>}, t) = OfSize(m, l, t)
    BY <1>5, <2>2 DEF OfSize
  <2>3. OfSize(m, l \ {<<p, 1, c>>}, s) = OfSize(m, l, s) \ {<<p, 1, c>>}
    BY <1>5 DEF OfSize
  <2>4. <<p, 1, c>> \in OfSize(m, l, s) /\ OfSize(m, l, s) \in SUBSET l
    BY <1>5, <1>6 DEF OfSize
  <2>5. IsFiniteSet(OfSize(m, l, s))
    BY <1>1, <2>4, FS_Subset DEF LiveIs
  <2>6. Cardinality(OfSize(m, l, s) \ {<<p, 1, c>>}) = Cardinality(OfSize(m, l, s)) - 1
    <3>1. PICK S, x : S = OfSize(m, l, s) /\ x = <<p, 1, c>>
      OBVIOUS
    <3>2. IsFiniteSet(S) /\ x \in S
      BY <2>4, <2>5, <3>1
    <3>3. Cardinality(S \ {x}) = Cardinality(S) - 1
      BY <3>2, FS_RemoveElement
    <3> QED BY <3>1, <3>3, Zenon
  <2>7. m2.mUsed[s] = Cardinality(OfSize(m2, l \ {<<p, 1, c>>}, s))
    BY <1>2, <1>4, <2>1, <2>3, <2>6, Zenon
  <2>8. ASSUME NEW t \in Slot, t # s
        PROVE  m2.mUsed[t] = Cardinality(OfSize(m2, l \ {<<p, 1, c>>}, t))
    <3>1. m2.mUsed[t] = m.mUsed[t]
      BY <1>2, <2>8
    <3> QED BY <1>4, <2>1, <2>2, <2>8, <3>1, Zenon
  <2> QED BY <2>7, <2>8 DEF UsedCounted
<1> QED BY <1>4, <1>7, <1>8, <1>9 DEF Counted

\* freePages(): what becomes of the marks.
ReleasedMarks(m, m2, p, n) ==
    /\ \A q \in Page : m2.mark[q] = "start" <=> q # p /\ m.mark[q] = "start"
    /\ \A q \in Page : m2.mark[q] = "chunks" <=> q # p /\ m.mark[q] = "chunks"
    /\ \A q \in Page : m2.mark[q] = "free" <=> m.mark[q] = "free" \/ q \in Run(p, n)
    /\ \A q \in Page : m.mark[q] \in {"start", "chunks"} /\ q # p => m2.count[q] = m.count[q]
    /\ \A q \in Page : m2.type[q] = IF q = p THEN Null ELSE m.type[q]
    /\ \A q \in Run(p, n) : q \in Page /\ m.mark[q] # "free"
    /\ Run(p, n) \in SUBSET Page /\ Cardinality(Run(p, n)) = n
    /\ m2.mark[p] = "free" /\ n \in Nat
    /\ m2.used = m.used /\ m2.mFreePageCount = m.mFreePageCount + n
    /\ m2.mTotal = m.mTotal /\ m2.mUsed = m.mUsed

\* freePages(): only the pages of the block change their marks.
LEMMA ReleaseMarks ==
    ASSUME NEW m \in SlabRecord, Regions(m), Untyped(m, {}), NEW p \in First(m), p \notin Free(m),
           NEW n, n = m.count[p], NEW m2, FreePagesIs(m, m2, p, n)
    PROVE  ReleasedMarks(m, m2, p, n)
<1>1. /\ p \in Page /\ p \in Nat /\ m.mark[p] # "free"
      /\ m.mark \in [Page -> Marks]
  BY RecordFields, SlabConstants DEF First, Free, Page
<1>2. n \in Nat /\ n > 0 /\ p + n <= Pages
  BY RegionFacts
<1>3. /\ \A q \in Page : m2.mark[q] = IF p <= q /\ q < p + n THEN "free" ELSE m.mark[q]
      /\ \A q \in Page : m2.type[q] = IF p <= q /\ q < p + n THEN Null ELSE m.type[q]
      /\ \A q \in Page : m.mark[q] # "free" /\ ~(p <= q /\ q < p + n) => m2.count[q] = m.count[q]
      /\ m2.used = m.used /\ m2.mFreePageCount = m.mFreePageCount + n
      /\ m2.mTotal = m.mTotal /\ m2.mUsed = m.mUsed
  BY DEF FreePagesIs
<1>4. /\ Cardinality(Run(p, n)) = n /\ Run(p, n) \in SUBSET Page
      /\ \A q \in Page : q \in Run(p, n) <=> p <= q /\ q < p + n
  BY <1>1, <1>2, RunCounted
<1>5. p \in Run(p, n)
  BY <1>1, <1>2, <1>4
<1>6. ASSUME NEW q \in Run(p, n), q # p PROVE m.mark[q] = "busy"
  <2>1. q \in Page /\ p <= q /\ q < p + m.count[p]
    BY <1>4
  <2> QED BY <1>1, <1>6, <2>1, RunMarks
<1>7. ASSUME NEW q \in Page
      PROVE  /\ m2.mark[q] = IF q \in Run(p, n) THEN "free" ELSE m.mark[q]
             /\ m2.type[q] = IF q \in Run(p, n) THEN Null ELSE m.type[q]
             /\ m.mark[q] # "free" /\ q \notin Run(p, n) => m2.count[q] = m.count[q]
  BY <1>3, <1>4
<1>8. ASSUME NEW q \in Page
      PROVE  /\ m2.mark[q] = "start" <=> q # p /\ m.mark[q] = "start"
             /\ m2.mark[q] = "chunks" <=> q # p /\ m.mark[q] = "chunks"
             /\ m2.mark[q] = "free" <=> m.mark[q] = "free" \/ q \in Run(p, n)
             /\ m2.type[q] = IF q = p THEN Null ELSE m.type[q]
  <2>1. CASE q = p
    BY <1>5, <1>7, <2>1
  <2>2. CASE q # p /\ q \in Run(p, n)
    <3>1. m.mark[q] = "busy"
      BY <1>6, <2>2
    <3>2. m.type[q] = Null
      BY <3>1 DEF Untyped
    <3> QED BY <1>7, <2>2, <3>1, <3>2
  <2>3. CASE q # p /\ q \notin Run(p, n)
    BY <1>7, <2>3
  <2> QED BY <2>1, <2>2, <2>3
<1>9. ASSUME NEW q \in Page, m.mark[q] \in {"start", "chunks"}, q # p PROVE m2.count[q] = m.count[q]
  <2>1. q \notin Run(p, n)
    BY <1>6, <1>9
  <2> QED BY <1>7, <1>9, <2>1
<1>10. \A q \in Run(p, n) : q \in Page /\ m.mark[q] # "free"
  BY <1>1, <1>4, <1>6
<1>11. m2.mark[p] = "free"
  BY <1>1, <1>5, <1>7
<1> QED BY <1>2, <1>3, <1>4, <1>8, <1>9, <1>10, <1>11 DEF ReleasedMarks

\* freePages(): the pages are no longer handed out, and l2 has the others.
LEMMA ReleaseKeeps ==
    ASSUME NEW m, NEW l, LiveIs(m, l), FreeCounted(m), NEW p \in Page, NoneEmpty(m, {p}),
           NEW n, NEW m2, ReleasedMarks(m, m2, p, n),
           NEW l2 \in SUBSET l, \A b \in l : b \in l2 <=> b[1] # p
    PROVE  LiveIs(m2, l2) /\ FreeCounted(m2) /\ NoneEmpty(m2, {})
<1>1. /\ \A q \in Page : m2.mark[q] = "start" <=> q # p /\ m.mark[q] = "start"
      /\ \A q \in Page : m2.mark[q] = "chunks" <=> q # p /\ m.mark[q] = "chunks"
      /\ \A q \in Page : m2.mark[q] = "free" <=> m.mark[q] = "free" \/ q \in Run(p, n)
      /\ \A q \in Page : m.mark[q] \in {"start", "chunks"} /\ q # p => m2.count[q] = m.count[q]
      /\ \A q \in Page : m2.type[q] = IF q = p THEN Null ELSE m.type[q]
      /\ \A q \in Run(p, n) : q \in Page /\ m.mark[q] # "free"
      /\ Run(p, n) \in SUBSET Page /\ Cardinality(Run(p, n)) = n
      /\ m2.used = m.used /\ m2.mFreePageCount = m.mFreePageCount + n
  BY DEF ReleasedMarks
<1>2. FreeCounted(m2)
  <2>1. FreeMarked(m2) = FreeMarked(m) \cup Run(p, n)
    BY <1>1 DEF FreeMarked
  <2>2. FreeMarked(m) \in SUBSET Page /\ FreeMarked(m) \cap Run(p, n) = {}
    BY <1>1 DEF FreeMarked
  <2>3. Cardinality(FreeMarked(m) \cup Run(p, n)) = Cardinality(FreeMarked(m)) + Cardinality(Run(p, n))
    BY <1>1, <2>2, PagesAdded
  <2> QED BY <1>1, <2>1, <2>3, Zenon DEF FreeCounted
<1>3. IsFiniteSet(l2)
  BY FS_Subset DEF LiveIs
<1>4. ASSUME NEW b \in l2 PROVE LiveBlock(m2, b)
  <2>1. PICK q : q = b[1]
    OBVIOUS
  <2>2. b \in l /\ q # p
    BY <2>1
  <2>3. q \in Page /\ m.mark[q] \in {"start", "chunks"}
    BY <2>1, <2>2, LiveFacts
  <2>4. /\ m.mark[q] = "start" => b = <<q, m.count[q], Null>>
        /\ m.mark[q] = "chunks" => /\ b = <<q, 1, b[3]>> /\ b[3] \in m.used[q]
                                   /\ b[3] \notin 0 .. Bitmap[m.type[q]] - 1
    BY <2>1, <2>2, LiveAt
  <2>5. /\ m2.mark[q] = "start" <=> m.mark[q] = "start"
        /\ m2.mark[q] = "chunks" <=> m.mark[q] = "chunks"
        /\ m2.count[q] = m.count[q] /\ m2.type[q] = m.type[q] /\ m2.used[q] = m.used[q]
    BY <1>1, <2>2, <2>3
  <2> QED BY <2>1, <2>3, <2>4, <2>5, LiveBlockFrom
<1>5. ASSUME NEW q \in Page, m2.mark[q] = "start" PROVE <<q, m2.count[q], Null>> \in l2
  <2>1. q # p /\ m.mark[q] = "start" /\ m2.count[q] = m.count[q]
    BY <1>1, <1>5
  <2>2. <<q, m.count[q], Null>> \in l
    BY <2>1 DEF LiveIs
  <2>3. (<<q, m.count[q], Null>>)[1] # p
    BY <2>1
  <2> QED BY <2>1, <2>2, <2>3
<1>6. ASSUME NEW q \in Page, m2.mark[q] = "chunks", NEW d \in m2.used[q],
             d \notin 0 .. Bitmap[m2.type[q]] - 1
      PROVE  <<q, 1, d>> \in l2
  <2>1. q # p /\ m.mark[q] = "chunks" /\ d \in m.used[q] /\ d \notin 0 .. Bitmap[m.type[q]] - 1
    BY <1>1, <1>6
  <2>2. <<q, 1, d>> \in l
    BY <2>1 DEF LiveIs
  <2>3. (<<q, 1, d>>)[1] # p
    BY <2>1
  <2> QED BY <2>2, <2>3
<1>7. LiveIs(m2, l2)
  BY <1>3, <1>4, <1>5, <1>6, LiveBlocks
<1>8. NoneEmpty(m2, {})
  BY <1>1 DEF NoneEmpty
<1> QED BY <1>2, <1>7, <1>8

\* freeMem() of a block of whole pages.
LEMMA FreeLargeKeeps ==
    ASSUME NEW m, NEW l, PoolInv(m, l), NEW b \in l, m.mark[b[1]] = "start",
           NEW m2, m2 = FreePages(m, b[1], m.count[b[1]])
    PROVE  PoolInv(m2, l \ {b})
<1>1. /\ Struct(m, {}) /\ m \in SlabRecord /\ Regions(m) /\ Untyped(m, {})
      /\ LiveIs(m, l) /\ NoneEmpty(m, {}) /\ FreeCounted(m) /\ UsedCounted(m, l) /\ TotalCounted(m)
  BY DEF PoolInv, Struct, Counted
<1>2. PICK p, n : p = b[1] /\ n = m.count[p]
  OBVIOUS
<1>3. p \in Page /\ m.mark[p] = "start"
  BY <1>1, <1>2, LiveFacts
<1>4. p \in First(m) /\ p \notin Free(m)
  BY <1>3 DEF First, Free
<1>5. m2 = FreePages(m, p, n)
  BY <1>2
<1>6. Struct(m2, {}) /\ FreePagesIs(m, m2, p, n)
  BY <1>1, <1>2, <1>4, <1>5, FreePagesStruct
<1>7. ReleasedMarks(m, m2, p, n)
  BY <1>1, <1>2, <1>4, <1>6, ReleaseMarks
<1>8. b = <<p, n, Null>> /\ \A d \in l : d[1] = p => d = <<p, n, Null>>
  BY <1>1, <1>2, <1>3, LiveAt
<1>9. \A d \in l : d \in l \ {b} <=> d[1] # p
  BY <1>2, <1>8
<1>10. NoneEmpty(m, {p})
  BY <1>1 DEF NoneEmpty
<1>11. l \ {b} \in SUBSET l
  OBVIOUS
<1>12. LiveIs(m2, l \ {b}) /\ FreeCounted(m2) /\ NoneEmpty(m2, {})
  BY <1>1, <1>3, <1>7, <1>9, <1>10, <1>11, ReleaseKeeps
<1>13. m.type[p] = Null
  BY <1>1, <1>3 DEF Untyped
<1>14. m2.mTotal = m.mTotal /\ m2.mUsed = m.mUsed /\ \A q \in Page : m2.type[q] = m.type[q]
  BY <1>7, <1>13 DEF ReleasedMarks
<1>15. ASSUME NEW s \in Slot
       PROVE  PagesOfSize(m2, s) = PagesOfSize(m, s) /\ OfSize(m2, l \ {b}, s) = OfSize(m, l, s)
  <2>1. s # Null
    BY SlabConstants
  <2>2. \A d \in l : m2.type[d[1]] = m.type[d[1]]
    BY <1>1, <1>14, LiveFacts
  <2>3. m.type[b[1]] # s
    BY <1>2, <1>13, <2>1
  <2> QED BY <1>14, <2>2, <2>3 DEF PagesOfSize, OfSize
<1>16. UsedCounted(m2, l \ {b})
  <2>1. ASSUME NEW s \in Slot PROVE m2.mUsed[s] = Cardinality(OfSize(m2, l \ {b}, s))
    <3>1. m.mUsed[s] = Cardinality(OfSize(m, l, s))
      BY <1>1 DEF UsedCounted
    <3> QED BY <1>14, <1>15, <3>1, Zenon
  <2> QED BY <2>1 DEF UsedCounted
<1>17. TotalCounted(m2)
  <2>1. ASSUME NEW s \in Slot PROVE m2.mTotal[s] = Capacity(s) * Cardinality(PagesOfSize(m2, s))
    <3>1. m.mTotal[s] = Capacity(s) * Cardinality(PagesOfSize(m, s))
      BY <1>1 DEF TotalCounted
    <3> QED BY <1>14, <1>15, <3>1, Zenon
  <2> QED BY <2>1 DEF TotalCounted
<1> QED BY <1>6, <1>12, <1>16, <1>17 DEF PoolInv, Counted

\* freeMem() of the last chunk of a page: the page is free.
LEMMA EmptyKeeps ==
    ASSUME NEW m, NEW l, Struct(m, {}), LiveIs(m, l), Counted(m, l),
           NEW p \in Page, NoneEmpty(m, {p}), NEW s \in Slot,
           m.mark[p] = "chunks", m.type[p] = s, m.used[p] = 0 .. Bitmap[s] - 1,
           NEW m2, m2 = Emptied(FreePages(m, p, 1), p, s)
    PROVE  PoolInv(m2, l)
<1>1. /\ m \in SlabRecord /\ Regions(m) /\ Untyped(m, {})
      /\ FreeCounted(m) /\ UsedCounted(m, l) /\ TotalCounted(m)
  BY DEF Struct, Counted
<1>2. p \in First(m) /\ p \notin Free(m)
  BY DEF First, Free
<1>3. m.count[p] = 1
  BY <1>1, <1>2 DEF Regions
<1>4. PICK m1 : m1 = FreePages(m, p, 1)
  OBVIOUS
<1>5. PICK n : n = 1
  OBVIOUS
<1>6. Struct(m1, {}) /\ FreePagesIs(m, m1, p, n)
  BY <1>2, <1>3, <1>4, <1>5, FreePagesStruct
<1>7. ReleasedMarks(m, m1, p, n)
  BY <1>1, <1>2, <1>3, <1>5, <1>6, ReleaseMarks
<1>8. \A d \in l : d[1] # p
  BY LiveAt
<1>9. LiveIs(m1, l) /\ FreeCounted(m1) /\ NoneEmpty(m1, {})
  <2>1. l \in SUBSET l /\ \A d \in l : d \in l <=> d[1] # p
    BY <1>8
  <2> QED BY <1>1, <1>7, <2>1, ReleaseKeeps
<1>10. /\ m1.mark[p] = "free" /\ m1.mTotal = m.mTotal /\ m1.mUsed = m.mUsed
       /\ \A q \in Page : m1.type[q] = IF q = p THEN Null ELSE m.type[q]
  BY <1>7 DEF ReleasedMarks
<1>11. Struct(m2, {}) /\ EmptiedIs(m1, m2, p, s)
  BY <1>4, <1>6, <1>10, EmptiedStruct
<1>12. /\ m2.type = m1.type /\ m2.mark = m1.mark /\ m2.count = m1.count
       /\ m2.mFreePageCount = m1.mFreePageCount /\ m2.mUsed = m1.mUsed
       /\ \A q \in Page : m2.used[q] = IF q = p THEN {} ELSE m1.used[q]
       /\ \A t \in Slot : m2.mTotal[t] = IF t = s THEN m1.mTotal[s] - Capacity(s) ELSE m1.mTotal[t]
  BY <1>11 DEF EmptiedIs
<1>13. LiveIs(m2, l)
  <2>1. \A q \in Page : m1.mark[q] = "chunks" => m2.used[q] = m1.used[q]
    BY <1>10, <1>12
  <2>2. ASSUME NEW b \in l PROVE LiveBlock(m2, b)
    <3>1. LiveBlock(m1, b)
      BY <1>9, LiveBlocks
    <3> QED BY <1>12, <2>1, <3>1 DEF LiveBlock
  <2> QED BY <1>9, <1>12, <2>1, <2>2, LiveBlocks
<1>14. NoneEmpty(m2, {})
  BY <1>9, <1>10, <1>12 DEF NoneEmpty
<1>15. FreeCounted(m2)
  <2>1. FreeMarked(m2) = FreeMarked(m1)
    BY <1>12 DEF FreeMarked
  <2> QED BY <1>9, <1>12, <2>1, Zenon DEF FreeCounted
<1>16. UsedCounted(m2, l)
  <2>1. ASSUME NEW t \in Slot PROVE OfSize(m2, l, t) = OfSize(m, l, t)
    <3>1. \A d \in l : m2.type[d[1]] = m.type[d[1]]
      BY <1>8, <1>10, <1>12, LiveFacts
    <3> QED BY <3>1 DEF OfSize
  <2>2. ASSUME NEW t \in Slot PROVE m2.mUsed[t] = Cardinality(OfSize(m2, l, t))
    <3>1. m.mUsed[t] = Cardinality(OfSize(m, l, t))
      BY <1>1 DEF UsedCounted
    <3> QED BY <1>10, <1>12, <2>1, <3>1, Zenon
  <2> QED BY <2>2 DEF UsedCounted
<1>17. TotalCounted(m2)
  <2>1. \A t \in Slot : m.mTotal[t] = Capacity(t) * Cardinality(PagesOfSize(m, t))
    BY <1>1 DEF TotalCounted
  <2>2. ASSUME NEW t \in Slot, t # s PROVE PagesOfSize(m2, t) = PagesOfSize(m, t)
    <3>1. t # Null
      BY SlabConstants
    <3> QED BY <1>10, <1>12, <2>2, <3>1 DEF PagesOfSize
  <2>3. PagesOfSize(m2, s) = PagesOfSize(m, s) \ {p}
    <3>1. s # Null
      BY SlabConstants
    <3> QED BY <1>10, <1>12, <3>1 DEF PagesOfSize
  <2>4. {p} \in SUBSET PagesOfSize(m, s) /\ PagesOfSize(m, s) \in SUBSET Page
    BY DEF PagesOfSize
  <2>5. Cardinality(PagesOfSize(m, s) \ {p}) = Cardinality(PagesOfSize(m, s)) - 1
    <3>1. Cardinality(PagesOfSize(m, s) \ {p}) = Cardinality(PagesOfSize(m, s)) - Cardinality({p})
      BY <2>4, PagesTaken
    <3>2. Cardinality({p}) = 1
      BY FS_Singleton
    <3> QED BY <3>1, <3>2
  <2>6. Cardinality(PagesOfSize(m2, s)) = Cardinality(PagesOfSize(m, s)) - 1
    BY <2>3, <2>5, Zenon
  <2>7. m2.mTotal[s] = Capacity(s) * Cardinality(PagesOfSize(m2, s))
    <3>1. Cardinality(PagesOfSize(m, s)) \in Nat
      BY <2>4, PagesFinite
    <3>2. m2.mTotal[s] = Capacity(s) * Cardinality(PagesOfSize(m, s)) - Capacity(s)
      <4>1. m2.mTotal[s] = m.mTotal[s] - Capacity(s)
        BY <1>10, <1>12
      <4>2. m.mTotal[s] = Capacity(s) * Cardinality(PagesOfSize(m, s))
        BY <2>1
      <4> QED BY <4>1, <4>2, Zenon
    <3>3. \A c \in Int, k \in Nat : c * k - c = c * (k - 1)
      OBVIOUS
    <3>4. Capacity(s) \in Int
      BY SlotFacts
    <3> QED BY <2>6, <3>1, <3>2, <3>3, <3>4
  <2>8. ASSUME NEW t \in Slot, t # s PROVE m2.mTotal[t] = Capacity(t) * Cardinality(PagesOfSize(m2, t))
    <3>1. m2.mTotal[t] = m.mTotal[t]
      BY <1>10, <1>12, <2>8
    <3> QED BY <2>1, <2>2, <2>8, <3>1, Zenon
  <2> QED BY <2>7, <2>8 DEF TotalCounted
<1> QED BY <1>11, <1>13, <1>14, <1>15, <1>16, <1>17 DEF PoolInv, Counted

-----------------------------------------------------------------------------
(* The actions.                                                            *)

\* Of the allocator.
SlabInv == PoolInv(slab, live)

\* The parts of Struct that the actions need.
LEMMA StructFacts ==
    ASSUME NEW m, Struct(m, {})
    PROVE  /\ m \in SlabRecord /\ Regions(m) /\ ChunkPages(m) /\ Untyped(m, {})
           /\ AllLists(m.next, m.prev, Members(m, {}))
           /\ Members(m, {})[FreePage] = Free(m)
           /\ \A s \in Slot : s \in Lists /\ Members(m, {})[s] = Roomy(m, s)
  BY AllMembersAre DEF Struct

\* allocPages(): what FirstFit finds is a free run that is large enough.
LEMMA FitFree ==
    ASSUME NEW m, Struct(m, {}), NEW n, FirstFit(m, n) # FreePage
    PROVE  FirstFit(m, n) \in Free(m) /\ m.count[FirstFit(m, n)] >= n
<1>1. PICK N : N = Free(m)
  OBVIOUS
<1>2. m \in SlabRecord /\ AllLists(m.next, m.prev, Members(m, {})) /\ Members(m, {})[FreePage] = N
  BY <1>1, StructFacts
<1>3. N \in SUBSET Page /\ FreePage \in Lists
  BY <1>1 DEF Free, Lists
<1>4. ListOf(m.next, m.prev, FreePage, N)
  BY <1>2, <1>3 DEF AllLists
<1> QED BY <1>1, <1>2, <1>3, <1>4, FitFound

\* allocMem() of more than half a page.
LEMMA AllocLargeKeeps == ASSUME SlabInv, NEW n \in Runs, AllocLarge(n) PROVE SlabInv'
<1>1. PICK p : p = FirstFit(slab, n)
  OBVIOUS
<1>2. p # FreePage /\ slab' = AllocPages(slab, p, n) /\ live' = live \cup {<<p, n, Null>>}
  BY <1>1 DEF AllocLarge, WholePages
<1>3. PoolInv(slab, live) /\ Struct(slab, {})
  BY DEF SlabInv, PoolInv
<1>4. p \in Free(slab) /\ slab.count[p] >= n
  BY <1>1, <1>2, <1>3, FitFree
<1>5. n \in Nat /\ n > 0
  BY SlabConstants
<1>6. n <= slab.count[p]
  <2>1. slab.count[p] \in Nat
    BY <1>3, <1>4, StructFacts, RecordFields DEF Free
  <2> QED BY <1>4, <1>5, <2>1
<1>7. PICK m2 : m2 = AllocPages(slab, p, n)
  OBVIOUS
<1>8. PoolInv(m2, live \cup {<<p, n, Null>>})
  <2>1. p \in Free(slab) /\ n \in Nat /\ n > 0 /\ n <= slab.count[p] /\ PoolInv(slab, live)
    BY <1>3, <1>4, <1>5, <1>6
  <2>2. PICK k \in Nat : k = n
    BY <1>5
  <2>3. p \in Free(slab) /\ k > 0 /\ k <= slab.count[p] /\ m2 = AllocPages(slab, p, k)
    BY <1>7, <2>1, <2>2
  <2>4. /\ PoolInv(m2, live \cup {<<p, k, Null>>})
        /\ <<p, k, Null>> \notin live
        /\ p \in Page /\ m2.mark[p] = "start" /\ m2.count[p] = k
        /\ \A q \in Page : m2.mark[q] = "chunks" <=> slab.mark[q] = "chunks"
        /\ m2.used = slab.used /\ \A q \in Page : m2.type[q] = slab.type[q]
    BY <1>3, <2>3, AllocKeeps
  <2> QED BY <2>2, <2>4
<1> QED BY <1>2, <1>7, <1>8 DEF SlabInv

\* allocMem(): the first page of the list has room.
LEMMA FirstChunk ==
    ASSUME NEW m, Struct(m, {}), NEW s \in Slot, NEW p, p = m.next[s], m.next[p] # p
    PROVE  p \in Roomy(m, s) /\ p \in Page /\ m.mark[p] = "chunks" /\ m.type[p] = s
<1>1. s \in Lists /\ AllLists(m.next, m.prev, Members(m, {})) /\ Members(m, {})[s] = Roomy(m, s)
  BY StructFacts
<1>2. m.next[s] \in Members(m, {})[s] \cup {s}
  BY <1>1, HeadNext
<1>3. p \in Roomy(m, s)
  BY <1>1, <1>2
<1> QED BY <1>3 DEF Roomy

\* A list of chunk pages whose first node leads to itself is empty.
LEMMA NoChunkPage ==
    ASSUME NEW m, Struct(m, {}), NEW s \in Slot, m.next[m.next[s]] = m.next[s]
    PROVE  Roomy(m, s) = {}
<1>1. /\ s \in Lists /\ AllLists(m.next, m.prev, Members(m, {}))
      /\ Members(m, {})[s] = Roomy(m, s)
  BY StructFacts
<1>2. PICK x : x = m.next[s]
  OBVIOUS
<1>3. x \in Members(m, {})[s] \cup {s}
  BY <1>1, <1>2, HeadNext
<1>4. x \notin Members(m, {})[s]
  <2>1. SUFFICES ASSUME x \in Members(m, {})[s] PROVE FALSE
    OBVIOUS
  <2>2. m.next[x] # x
    BY <1>1, <2>1, MemberLinks
  <2> QED BY <1>2, <2>2
<1>5. m.next[s] = s
  BY <1>2, <1>3, <1>4
<1> QED BY <1>1, <1>5, HeadNext

\* allocMem(): a page with room has a first chunk that is not in use.
LEMMA FreeChunkIs ==
    ASSUME NEW s \in Slot, NEW T \in SUBSET (0 .. Chunks[s] - 1), T # 0 .. Chunks[s] - 1,
           NEW c, c = CHOOSE i \in 0 .. Chunks[s] - 1 : i \notin T /\ \A j \in 0 .. i - 1 : j \in T
    PROVE  c \in 0 .. Chunks[s] - 1 /\ c \notin T
<1>1. PICK k \in Nat : k = Chunks[s]
  BY SlotFacts
<1>2. (0 .. k - 1) \ T \in SUBSET Nat /\ (0 .. k - 1) \ T # {}
  <2>1. T \in SUBSET (0 .. k - 1) /\ T # 0 .. k - 1
    BY <1>1
  <2>2. PICK x : x \in 0 .. k - 1 /\ x \notin T
    BY <2>1
  <2>3. 0 .. k - 1 \in SUBSET Nat
    OBVIOUS
  <2> QED BY <2>2, <2>3
<1>3. PICK x \in (0 .. k - 1) \ T : \A y \in (0 .. k - 1) \ T : x <= y
  BY <1>2, LeastNat
<1>4. x \in Nat /\ x < k
  BY <1>1, <1>3
<1>5. ASSUME NEW j \in 0 .. x - 1 PROVE j \in T
  <2>1. j \in Nat /\ j < x /\ j \in 0 .. k - 1
    BY <1>1, <1>4
  <2> QED BY <1>3, <1>4, <2>1
<1>6. \E i \in 0 .. Chunks[s] - 1 : i \notin T /\ \A j \in 0 .. i - 1 : j \in T
  BY <1>1, <1>3, <1>5
<1> QED BY <1>6

\* allocMem() of a chunk of a page that is in the list.
LEMMA AllocChunkKeeps == ASSUME SlabInv, NEW s \in Slot, AllocChunk(s) PROVE SlabInv'
<1>1. PICK p : p = slab.next[s]
  OBVIOUS
<1>2. PICK c : c = CHOOSE i \in 0 .. Chunks[s] - 1 :
                       i \notin slab.used[p] /\ \A j \in 0 .. i - 1 : j \in slab.used[p]
  OBVIOUS
<1>3. PICK m : m = [slab EXCEPT !.used[p] = @ \cup {c}, !.mUsed[s] = @ + 1]
  OBVIOUS
<1>4. /\ slab.next[p] # p
      /\ slab' = IF m.used[p] = 0 .. Chunks[s] - 1
                 THEN [Unlink(m, p) EXCEPT !.next[p] = Null, !.prev[p] = Null] ELSE m
      /\ live' = live \cup {<<p, 1, c>>}
  BY <1>1, <1>2, <1>3 DEF AllocChunk
<1>5. PoolInv(slab, live) /\ Struct(slab, {})
  BY DEF SlabInv, PoolInv
<1>6. p \in Roomy(slab, s) /\ p \in Page /\ slab.mark[p] = "chunks" /\ slab.type[p] = s
  BY <1>1, <1>4, <1>5, FirstChunk
<1>7. /\ slab \in SlabRecord /\ ChunkPages(slab) /\ slab.used \in [Page -> SUBSET Nat]
      /\ slab.mUsed \in [Slot -> Int]
  BY <1>5, StructFacts, RecordFields
<1>8. /\ 0 .. Bitmap[s] - 1 \subseteq slab.used[p]
      /\ slab.used[p] \subseteq 0 .. Chunks[s] - 1 /\ slab.used[p] # 0 .. Chunks[s] - 1
  BY <1>6, <1>7 DEF ChunkPages, Roomy
<1>9. c \in 0 .. Chunks[s] - 1 /\ c \notin slab.used[p]
  BY <1>2, <1>8, FreeChunkIs
<1>10. PICK U, v : U = slab.used[p] \cup {c} /\ v = slab.mUsed[s] + 1
  OBVIOUS
<1>11. m = UsedSet(slab, p, U, s, v)
  BY <1>3, <1>6, <1>7, <1>10 DEF UsedSet, SlabRecord
<1>12. /\ 0 .. Bitmap[s] - 1 \subseteq U /\ U \subseteq 0 .. Chunks[s] - 1 /\ v \in Int
  BY <1>7, <1>8, <1>9, <1>10
<1>13. U \in SUBSET Nat
  BY <1>12, SlotFacts
<1>14. m.used[p] = U
  <2>1. UsedIs(slab, m, p, U, s, v)
    BY <1>6, <1>7, <1>11, <1>12, <1>13, UsedFields
  <2> QED BY <1>6, <2>1 DEF UsedIs
<1>15. Struct(slab', {}) /\ FreedIs(slab, slab', p, U, s, v)
  <2>1. CASE U = 0 .. Chunks[s] - 1
    <3>1. slab' = Filled(UsedSet(slab, p, U, s, v), p)
      BY <1>4, <1>11, <1>14, <2>1 DEF Filled
    <3> QED BY <1>5, <1>6, <1>12, <2>1, <3>1, FillStruct DEF FreedIs
  <2>2. CASE U # 0 .. Chunks[s] - 1
    <3>1. slab' = UsedSet(slab, p, U, s, v)
      BY <1>4, <1>11, <1>14, <2>2
    <3>2. Struct(slab', {}) /\ UsedIs(slab, slab', p, U, s, v)
      BY <1>5, <1>6, <1>12, <2>2, <3>1, UsedStruct
    <3> QED BY <3>2 DEF UsedIs, FreedIs
  <2> QED BY <2>1, <2>2
<1>16. FreedIs(slab, slab', p, slab.used[p] \cup {c}, s, slab.mUsed[s] + 1)
  BY <1>10, <1>15
<1>17. PoolInv(slab', live \cup {<<p, 1, c>>})
  BY <1>5, <1>6, <1>9, <1>15, <1>16, ChunkTakenKeeps
<1> QED BY <1>4, <1>17 DEF SlabInv

\* allocMem() of a chunk when no page of that size has room.
LEMMA AllocFirstKeeps == ASSUME SlabInv, NEW s \in Slot, AllocFirst(s) PROVE SlabInv'
<1>1. PICK p : p = FirstFit(slab, 1)
  OBVIOUS
<1>2. PICK m : m = AllocPages(slab, p, 1)
  OBVIOUS
<1>3. /\ slab.next[slab.next[s]] = slab.next[s] /\ p # FreePage
      /\ slab' = NewChunks(m, s, p)
      /\ live' = live \cup {<<p, 1, Bitmap[s]>>}
  BY <1>1, <1>2 DEF AllocFirst, NewChunks
<1>4. PoolInv(slab, live) /\ Struct(slab, {})
  BY DEF SlabInv, PoolInv
<1>5. p \in Free(slab)
  BY <1>1, <1>3, <1>4, FitFree
<1>6. 1 \in Nat /\ 1 > 0 /\ 1 <= slab.count[p]
  <2>1. slab.count[p] \in Nat /\ slab.count[p] > 0
    BY <1>4, <1>5, StructFacts, RecordFields DEF Free
  <2> QED BY <2>1
<1>7. /\ PoolInv(m, live \cup {<<p, 1, Null>>})
      /\ <<p, 1, Null>> \notin live
      /\ p \in Page /\ m.mark[p] = "start" /\ m.count[p] = 1
      /\ \A q \in Page : m.mark[q] = "chunks" <=> slab.mark[q] = "chunks"
      /\ m.used = slab.used /\ \A q \in Page : m.type[q] = slab.type[q]
  BY <1>2, <1>4, <1>5, <1>6, AllocKeeps
<1>8. Roomy(slab, s) = {}
  BY <1>3, <1>4, NoChunkPage
<1>9. Roomy(m, s) = {}
  BY <1>7, <1>8 DEF Roomy
<1>10. m.next[s] = s
  <2>1. Struct(m, {})
    BY <1>7 DEF PoolInv
  <2>2. s \in Lists /\ AllLists(m.next, m.prev, Members(m, {})) /\ Members(m, {})[s] = {}
    BY <1>9, <2>1, StructFacts
  <2> QED BY <2>2, HeadNext
<1>11. PICK l, l2 : l = live \cup {<<p, 1, Null>>} /\ l2 = (l \ {<<p, 1, Null>>}) \cup {<<p, 1, Bitmap[s]>>}
  OBVIOUS
<1>12. l2 = live \cup {<<p, 1, Bitmap[s]>>}
  BY <1>7, <1>11
<1>13. PoolInv(slab', l2)
  <2>1. PoolInv(m, l)
    BY <1>7, <1>11
  <2> QED BY <1>3, <1>7, <1>10, <1>11, <2>1, NewChunksKeeps
<1> QED BY <1>3, <1>12, <1>13 DEF SlabInv

\* freeMem() of a block of whole pages.
LEMMA FreeLargeStep == ASSUME SlabInv, NEW b \in live, FreeLarge(b) PROVE SlabInv'
<1>1. /\ slab.mark[b[1]] = "start" /\ slab' = FreePages(slab, b[1], slab.count[b[1]])
      /\ live' = live \ {b} /\ PoolInv(slab, live)
  BY DEF FreeLarge, SlabInv
<1>2. PoolInv(slab', live \ {b})
  BY <1>1, FreeLargeKeeps
<1> QED BY <1>1, <1>2 DEF SlabInv

\* freeMem() of a chunk.
LEMMA FreeChunkStep == ASSUME SlabInv, NEW b \in live, FreeChunk(b) PROVE SlabInv'
<1>1. PICK p, s, c : p = b[1] /\ s = slab.type[p] /\ c = b[3]
  OBVIOUS
<1>2. PICK m : m = [Relist(slab, p) EXCEPT !.used[p] = @ \ {c}, !.mUsed[s] = @ - 1]
  OBVIOUS
<1>3. /\ s # Null /\ c \in slab.used[p]
      /\ slab' = IF Empty(m, p) THEN Emptied(FreePages(m, p, 1), p, s) ELSE m
      /\ live' = live \ {b}
  BY <1>1, <1>2 DEF FreeChunk, Emptied, WholePages
<1>4. PoolInv(slab, live) /\ Struct(slab, {}) /\ LiveIs(slab, live)
  BY DEF SlabInv, PoolInv
<1>5. slab \in SlabRecord /\ ChunkPages(slab) /\ Untyped(slab, {})
  BY <1>4, StructFacts
<1>6. p \in Page /\ slab.mark[p] \in {"start", "chunks"}
  BY <1>1, <1>4, LiveFacts
<1>7. slab.mark[p] = "chunks" /\ s \in Slot
  BY <1>1, <1>3, <1>5, <1>6 DEF Untyped, ChunkPages
<1>8. b = <<p, 1, c>> /\ c \notin 0 .. Bitmap[s] - 1
  BY <1>1, <1>4, <1>7, LiveAt
<1>9. PICK v : v = slab.mUsed[s] - 1
  OBVIOUS
<1>10. slab.used \in [Page -> SUBSET Nat] /\ slab.mUsed \in [Slot -> Int] /\ v \in Int
  BY <1>5, <1>7, <1>9, RecordFields
<1>11. Relist(slab, p).used = slab.used /\ Relist(slab, p).mUsed = slab.mUsed
  BY <1>5 DEF Relist, LinkFirst, SlabRecord
<1>12. m = UsedSet(Relist(slab, p), p, slab.used[p] \ {c}, s, v)
  <2>1. PICK r : r = Relist(slab, p)
    OBVIOUS
  <2>2. m = [r EXCEPT !.used = [r.used EXCEPT ![p] = r.used[p] \ {c}],
                      !.mUsed = [r.mUsed EXCEPT ![s] = r.mUsed[s] - 1]]
    BY <1>2, <1>6, <1>7, <1>10, <1>11, <2>1
  <2> QED BY <1>9, <1>11, <2>1, <2>2 DEF UsedSet
<1>13. Struct(m, {}) /\ FreedIs(slab, m, p, slab.used[p] \ {c}, s, v)
  BY <1>1, <1>3, <1>4, <1>6, <1>7, <1>8, <1>10, <1>12, ChunkFreedStruct
<1>14. /\ LiveIs(m, live \ {<<p, 1, c>>}) /\ NoneEmpty(m, {p})
       /\ Counted(m, live \ {<<p, 1, c>>})
  BY <1>1, <1>3, <1>4, <1>6, <1>7, <1>8, <1>9, <1>13, ChunkFreedKeeps
<1>15. m.mark[p] = "chunks" /\ m.type[p] = s
  BY <1>1, <1>7, <1>13 DEF FreedIs
<1>16. Empty(m, p) <=> m.used[p] = 0 .. Bitmap[s] - 1
  BY <1>15 DEF Empty
<1>17. CASE Empty(m, p)
  <2>1. slab' = Emptied(FreePages(m, p, 1), p, s)
    BY <1>3, <1>17
  <2>2. PoolInv(slab', live \ {<<p, 1, c>>})
    BY <1>6, <1>7, <1>13, <1>14, <1>15, <1>16, <1>17, <2>1, EmptyKeeps
  <2> QED BY <1>3, <1>8, <2>2 DEF SlabInv
<1>18. CASE ~Empty(m, p)
  <2>1. NoneEmpty(m, {})
    BY <1>14, <1>15, <1>16, <1>18 DEF NoneEmpty
  <2>2. PoolInv(m, live \ {<<p, 1, c>>})
    BY <1>13, <1>14, <2>1 DEF PoolInv
  <2> QED BY <1>3, <1>8, <1>18, <2>2 DEF SlabInv
<1> QED BY <1>17, <1>18

\* Every call keeps the invariant.
LEMMA SlabStep == SlabInv /\ [SlabNext]_slabVars => SlabInv'
<1> SUFFICES ASSUME SlabInv, [SlabNext]_slabVars PROVE SlabInv'
  OBVIOUS
<1>1. ASSUME NEW n \in Runs, AllocLarge(n) PROVE SlabInv'
  BY <1>1, AllocLargeKeeps
<1>2. ASSUME NEW s \in Slot, AllocChunk(s) PROVE SlabInv'
  BY <1>2, AllocChunkKeeps
<1>3. ASSUME NEW s \in Slot, AllocFirst(s) PROVE SlabInv'
  BY <1>3, AllocFirstKeeps
<1>4. ASSUME NEW b \in live, FreeLarge(b) PROVE SlabInv'
  BY <1>4, FreeLargeStep
<1>5. ASSUME NEW b \in live, FreeChunk(b) PROVE SlabInv'
  BY <1>5, FreeChunkStep
<1>6. CASE UNCHANGED slabVars
  BY <1>6 DEF SlabInv, slabVars
<1> QED BY <1>1, <1>2, <1>3, <1>4, <1>5, <1>6 DEF SlabNext

\* The pool begins as one run of free pages.
LEMMA SlabStarts == SlabInit => SlabInv
<1> SUFFICES ASSUME SlabInit PROVE SlabInv
  OBVIOUS
<1>1. PICK m : m = slab
  OBVIOUS
<1>2. /\ Pages \in Nat /\ Pages > 0 /\ 0 \in Page
      /\ \A q \in Page : q \in Nat /\ q < Pages
      /\ \A q \in Nat : q < Pages => q \in Page
  BY SlabConstants DEF Page
<1>3. /\ m = [next |-> [q \in Node |-> IF q \in Slot THEN q ELSE IF q = FreePage THEN 0
                                       ELSE IF q = 0 THEN FreePage ELSE Null],
              prev |-> [q \in Node |-> IF q = 0 THEN FreePage ELSE Null],
              type |-> [q \in Page |-> Null],
              mark |-> [q \in Page |-> "free"],
              count |-> [q \in Page |-> IF q = 0 THEN Pages ELSE 0],
              used |-> [q \in Page |-> {}],
              mFreePageCount |-> Pages,
              mTotal |-> [s \in Slot |-> 0], mUsed |-> [s \in Slot |-> 0]]
      /\ live = {}
  BY <1>1 DEF SlabInit, WholePages
<1>4. /\ m.next = [q \in Node |-> IF q \in Slot THEN q ELSE IF q = FreePage THEN 0
                                  ELSE IF q = 0 THEN FreePage ELSE Null]
      /\ m.prev = [q \in Node |-> IF q = 0 THEN FreePage ELSE Null]
      /\ m.type = [q \in Page |-> Null]
      /\ m.mark = [q \in Page |-> "free"]
      /\ m.count = [q \in Page |-> IF q = 0 THEN Pages ELSE 0]
      /\ m.used = [q \in Page |-> {}]
      /\ m.mFreePageCount = Pages
      /\ m.mTotal = [s \in Slot |-> 0] /\ m.mUsed = [s \in Slot |-> 0]
  BY <1>3
<1>5. /\ Slot \subseteq Node /\ FreePage \in Node /\ FreePage \notin Slot /\ Page \subseteq Node
      /\ \A s \in Slot : s \notin Page /\ s # FreePage /\ s # Null
      /\ FreePage \notin Page /\ FreePage # Null
  BY SlabConstants DEF Node, Page
<1>6. m \in SlabRecord
  <2>1. m.next \in [Node -> Node \cup {Null}] /\ m.prev \in [Node -> Node \cup {Null}]
    BY <1>2, <1>4, <1>5
  <2>2. m.type \in [Page -> Slot \cup {Null}] /\ m.mark \in [Page -> Marks]
    BY <1>4 DEF Marks
  <2>3. m.count \in [Page -> Nat] /\ m.used \in [Page -> SUBSET Nat]
    BY <1>2, <1>4
  <2>4. m.mFreePageCount \in Int /\ m.mTotal \in [Slot -> Int] /\ m.mUsed \in [Slot -> Int]
    BY <1>2, <1>4
  <2> HIDE <1>4
  <2>5. \E a, b, c, d, e, f, g, h, i :
           m = [next |-> a, prev |-> b, type |-> c, mark |-> d, count |-> e, used |-> f,
                mFreePageCount |-> g, mTotal |-> h, mUsed |-> i]
    BY <1>3
  <2>6. PICK a, b, c, d, e, f, g, h, i :
           m = [next |-> a, prev |-> b, type |-> c, mark |-> d, count |-> e, used |-> f,
                mFreePageCount |-> g, mTotal |-> h, mUsed |-> i]
    BY <2>5
  <2> HIDE <1>3
  <2> QED BY <2>1, <2>2, <2>3, <2>4, <2>6 DEF SlabRecord
<1>7. Free(m) = {0} /\ First(m) = {0}
  BY <1>2, <1>4 DEF Free, First
<1>8. Regions(m)
  <2>1. m.count[0] = Pages /\ m.mark[0] = "free"
    BY <1>2, <1>4
  <2>2. \A q \in Inner(m, 0) : q \in Page /\ q # 0
    BY <1>2, <2>1 DEF Inner
  <2>3. \A q \in Inner(m, 0) : m.mark[q] = "free" /\ m.count[q] = 0
    BY <1>4, <2>2
  <2>4. m.count[0] \in 1 .. Pages - 0
    BY <1>2, <2>1
  <2>5. \A q \in Page : 0 <= q /\ q < 0 + m.count[0]
    BY <1>2, <2>1
  <2> QED BY <1>7, <2>1, <2>3, <2>4, <2>5 DEF Regions
<1>9. ChunkPages(m) /\ Untyped(m, {})
  BY <1>4 DEF ChunkPages, Untyped
<1>10. Merged(m, {}) /\ Tagged(m, {})
  BY <1>2, <1>4, <1>7 DEF Merged, Tagged
<1>11. \A s \in Slot : Roomy(m, s) = {}
  BY <1>4 DEF Roomy
<1>12. PICK M : M = Members(m, {})
  OBVIOUS
<1>13. /\ M \in [Lists -> SUBSET Page] /\ FreePage \in Lists /\ M[FreePage] = {0}
       /\ \A s \in Slot : s \in Lists /\ M[s] = {}
  <2>1. /\ M \in [Lists -> SUBSET Page] /\ FreePage \in Lists /\ M[FreePage] = Free(m)
        /\ \A t \in Slot : t \in Lists /\ t # FreePage /\ M[t] = Roomy(m, t)
    BY <1>12, AllMembersAre
  <2> QED BY <1>7, <1>11, <2>1
<1>14. On(M) = {0}
  BY <1>13 DEF On, Lists
<1>15. LinkedOn(m, {})
  BY <1>2, <1>4, <1>5, <1>12, <1>14 DEF LinkedOn
<1>16. AllLists(m.next, m.prev, M)
  <2>1. \A g, h \in Lists : g # h => M[g] \cap M[h] = {}
    BY <1>13 DEF Lists
  <2>2. ListOf(m.next, m.prev, FreePage, {0})
    <3>1. PICK q : q = [i \in Nat |-> IF i = 1 THEN 0 ELSE FreePage]
      OBVIOUS
    <3>2. q \in [Nat -> Node] /\ q[0] = FreePage /\ q[1] = 0 /\ q[1 + 1] = FreePage
      BY <1>2, <1>5, <3>1
    <3>3. m.next[FreePage] = 0 /\ m.next[0] = FreePage /\ m.prev[0] = FreePage
      BY <1>2, <1>4, <1>5
    <3>4. \A i \in 1 .. 1 : i = 1
      OBVIOUS
    <3>5. \A i \in 0 .. 1 : i = 0 \/ i = 1
      OBVIOUS
    <3>6. \A i \in 1 .. 1 : q[i] \in {0} /\ m.prev[q[i]] = q[i - 1]
      BY <3>2, <3>3, <3>4
    <3>7. \A i \in 0 .. 1 : m.next[q[i]] = q[i + 1]
      BY <3>2, <3>3, <3>5
    <3>8. \A x \in {0} : \E i \in 1 .. 1 : q[i] = x
      BY <3>2
    <3>9. Chain(m.next, m.prev, FreePage, {0}, 1, q)
      BY <3>2, <3>4, <3>6, <3>7, <3>8 DEF Chain
    <3> QED BY <3>2, <3>9 DEF ListOf
  <2>3. ASSUME NEW s \in Slot PROVE ListOf(m.next, m.prev, s, {})
    <3>1. PICK q : q = [i \in Nat |-> s]
      OBVIOUS
    <3>2. q \in [Nat -> Node] /\ q[0] = s /\ q[0 + 1] = s
      BY <1>5, <3>1
    <3>3. m.next[s] = s
      BY <1>4, <1>5
    <3>4. \A i \in 1 .. 0 : FALSE
      OBVIOUS
    <3>5. \A i \in 0 .. 0 : m.next[q[i]] = q[i + 1]
      BY <3>2, <3>3
    <3>6. Chain(m.next, m.prev, s, {}, 0, q)
      BY <3>2, <3>4, <3>5 DEF Chain
    <3> QED BY <3>2, <3>6 DEF ListOf
  <2> QED BY <1>13, <2>1, <2>2, <2>3 DEF AllLists, Lists
<1>17. Struct(m, {})
  BY <1>6, <1>8, <1>9, <1>10, <1>12, <1>15, <1>16 DEF Struct
<1>18. LiveIs(m, {}) /\ NoneEmpty(m, {})
  <2>1. IsFiniteSet({})
    BY FS_EmptySet
  <2> QED BY <1>4, <2>1 DEF LiveIs, NoneEmpty
<1>19. FreeCounted(m)
  <2>1. FreeMarked(m) = 0 .. Pages - 1
    BY <1>4 DEF FreeMarked, Page
  <2>2. 0 \in Int /\ Pages - 1 \in Int
    BY <1>2
  <2>3. Cardinality(0 .. Pages - 1) = IF 0 > Pages - 1 THEN 0 ELSE (Pages - 1) - 0 + 1
    BY <2>2, FS_Interval
  <2>4. Cardinality(0 .. Pages - 1) = Pages
    BY <1>2, <2>3
  <2> QED BY <1>4, <2>1, <2>4, Zenon DEF FreeCounted
<1>20. Cardinality({}) = 0
  BY FS_EmptySet
<1>21. UsedCounted(m, {})
  <2>1. \A s \in Slot : OfSize(m, {}, s) = {} /\ m.mUsed[s] = 0
    BY <1>4 DEF OfSize
  <2> QED BY <1>20, <2>1, Zenon DEF UsedCounted
<1>22. TotalCounted(m)
  <2>1. ASSUME NEW s \in Slot PROVE m.mTotal[s] = Capacity(s) * Cardinality(PagesOfSize(m, s))
    <3>1. PagesOfSize(m, s) = {}
      BY <1>4, <1>5 DEF PagesOfSize
    <3>2. Cardinality(PagesOfSize(m, s)) = 0
      BY <1>20, <3>1, Zenon
    <3>3. Capacity(s) \in Int
      BY SlotFacts
    <3>4. \A k \in Int : k * 0 = 0
      OBVIOUS
    <3>5. m.mTotal[s] = 0
      BY <1>4
    <3> QED BY <3>2, <3>3, <3>4, <3>5
  <2> QED BY <2>1 DEF TotalCounted
<1> QED BY <1>1, <1>3, <1>17, <1>18, <1>19, <1>21, <1>22 DEF SlabInv, PoolInv, Counted

\* The structure of the pages and of their lists, for pools of any size.
THEOREM SlabInvariance == SlabSpec => []SlabInv
<1> QED BY SlabStarts, SlabStep, PTL DEF SlabSpec

-----------------------------------------------------------------------------
(* What the properties say.                                                *)

\* The first pages of the free runs, and all their pages.
LEMMA FreeRunsAre ==
    ASSUME SlabInv
    PROVE  /\ FreeRuns = Free(slab)
           /\ FreeRunPages = FreeMarked(slab)
<1>1. Struct(slab, {}) /\ slab \in SlabRecord /\ Regions(slab)
  BY StructFacts DEF SlabInv, PoolInv
<1>2. FreeRuns = Free(slab)
  <2>1. ASSUME NEW p \in Page PROVE IsFreeRun(slab, p) <=> p \in Free(slab)
    <3>1. p \in Page \ {}
      OBVIOUS
    <3> QED BY <1>1, <3>1, FreeMember
  <2> QED BY <2>1 DEF FreeRuns, Free
<1>3. \A q \in Page : q \in Nat
  BY SlabConstants DEF Page
<1>4. ASSUME NEW q \in FreeRunPages PROVE q \in FreeMarked(slab)
  <2>1. PICK p \in Free(slab) : q \in p .. p + slab.count[p] - 1
    BY <1>2, <1>4 DEF FreeRunPages, RunOf
  <2>2. p \in First(slab) /\ p \in Page /\ slab.mark[p] = "free"
    BY DEF Free, First
  <2>3. PICK n \in Nat : n = slab.count[p]
    BY <1>1, <2>2, RegionFacts
  <2>4. p + n <= Pages /\ p \in Nat /\ Pages \in Nat
    BY <1>1, <1>3, <2>2, <2>3, RegionFacts, SlabConstants
  <2>5. q \in p .. p + n - 1
    BY <2>1, <2>3
  <2>6. q \in Page /\ p <= q /\ q < p + n
    BY <2>4, <2>5 DEF Page
  <2>7. slab.mark[q] = "free"
    BY <1>1, <2>2, <2>3, <2>6, RunMarks
  <2> QED BY <2>6, <2>7 DEF FreeMarked
<1>5. ASSUME NEW q \in FreeMarked(slab) PROVE q \in FreeRunPages
  <2>1. q \in Page /\ slab.mark[q] = "free"
    BY DEF FreeMarked
  <2>2. PICK p \in First(slab) : p <= q /\ q < p + slab.count[p]
    BY <1>1, <2>1 DEF Regions
  <2>3. slab.mark[p] = "free"
    BY <1>1, <2>1, <2>2, RunMarks
  <2>4. p \in Free(slab)
    BY <2>2, <2>3 DEF First
  <2>5. PICK n \in Nat : n = slab.count[p]
    BY <1>1, <2>2, RegionFacts
  <2>6. p \in Nat /\ q \in Nat /\ p <= q /\ q < p + n
    BY <1>3, <2>1, <2>2, <2>4, <2>5 DEF Free
  <2>7. q \in p .. p + slab.count[p] - 1
    BY <2>5, <2>6
  <2> QED BY <1>2, <2>4, <2>7 DEF FreeRunPages, RunOf
<1> QED BY <1>2, <1>4, <1>5

\* The pages of a block are those of a run that is not free.
LEMMA BlockRun ==
    ASSUME SlabInv, NEW b \in live
    PROVE  /\ b[1] \in First(slab) /\ slab.mark[b[1]] # "free"
           /\ b[2] = slab.count[b[1]] /\ b[1] \in Nat /\ b[2] \in Nat
           /\ PagesOf(b) \in SUBSET Page
           /\ \A q \in Page : q \in PagesOf(b) <=> b[1] <= q /\ q < b[1] + b[2]
           /\ \A q \in PagesOf(b) : slab.mark[q] # "free"
<1>1. slab \in SlabRecord /\ Regions(slab) /\ LiveIs(slab, live)
  BY StructFacts DEF SlabInv, PoolInv
<1>2. PICK p, n : p = b[1] /\ n = b[2]
  OBVIOUS
<1>3. p \in Page /\ slab.mark[p] \in {"start", "chunks"}
  BY <1>1, <1>2, LiveFacts
<1>4. p \in First(slab) /\ slab.mark[p] # "free"
  BY <1>3 DEF First
<1>5. n = slab.count[p]
  <2>1. CASE slab.mark[p] = "start"
    BY <1>1, <1>2, <2>1, LiveFacts
  <2>2. CASE slab.mark[p] = "chunks"
    <3>1. n = 1
      BY <1>1, <1>2, <2>2, LiveFacts
    <3>2. slab.count[p] = 1
      BY <1>1, <1>4, <2>2 DEF Regions
    <3> QED BY <3>1, <3>2
  <2> QED BY <1>3, <2>1, <2>2
<1>6. p \in Nat /\ n \in Nat /\ p + n <= Pages
  <2>1. p \in Nat
    BY <1>3, SlabConstants DEF Page
  <2> QED BY <1>1, <1>4, <1>5, <2>1, RegionFacts
<1>7. PagesOf(b) = Run(p, n)
  BY <1>2 DEF PagesOf, Run
<1>8. Run(p, n) \in SUBSET Page /\ \A q \in Page : q \in Run(p, n) <=> p <= q /\ q < p + n
  BY <1>3, <1>6, RunCounted
<1>9. ASSUME NEW q \in Run(p, n) PROVE slab.mark[q] # "free"
  <2>1. q \in Page /\ p <= q /\ q < p + slab.count[p]
    BY <1>5, <1>8
  <2> QED BY <1>1, <1>4, <2>1, RunMarks
<1> QED BY <1>2, <1>4, <1>5, <1>6, <1>7, <1>8, <1>9

\* Two blocks of one page are two of its chunks; those of two runs share no page.
LEMMA SlabDisjoint == SlabInv => BlocksDisjoint
<1> SUFFICES ASSUME SlabInv PROVE BlocksDisjoint
  OBVIOUS
<1>1. /\ slab \in SlabRecord /\ Regions(slab) /\ LiveIs(slab, live) /\ ChunkPages(slab)
  BY StructFacts DEF SlabInv, PoolInv
<1>2. ASSUME NEW b \in live, NEW c \in live, b # c
      PROVE  \/ PagesOf(b) \cap PagesOf(c) = {}
             \/ b[1] = c[1] /\ b[3] # c[3] /\ Null \notin {b[3], c[3]}
  <2>1. CASE b[1] = c[1]
    <3>1. PICK p : p = b[1] /\ p = c[1]
      BY <2>1
    <3>2. p \in Page /\ slab.mark[p] \in {"start", "chunks"}
      BY <1>1, <3>1, LiveFacts
    <3>3. CASE slab.mark[p] = "start"
      <4>1. \A d \in live : d[1] = p => d = <<p, slab.count[p], Null>>
        BY <1>1, <3>3, LiveAt
      <4>2. b = <<p, slab.count[p], Null>>
        BY <3>1, <4>1
      <4>3. c = <<p, slab.count[p], Null>>
        BY <3>1, <4>1
      <4> QED BY <1>2, <4>2, <4>3
    <3>4. CASE slab.mark[p] = "chunks"
      <4>0. \A d \in live : d[1] = p => d = <<p, 1, d[3]>> /\ d[3] \in slab.used[p]
        BY <1>1, <3>4, LiveAt
      <4>1. b = <<p, 1, b[3]>> /\ b[3] \in slab.used[p]
        BY <3>1, <4>0
      <4>2. c = <<p, 1, c[3]>> /\ c[3] \in slab.used[p]
        BY <3>1, <4>0
      <4>3. Null \notin slab.used[p]
        BY <1>1, <3>2, <3>4, SlabConstants DEF ChunkPages
      <4> QED BY <1>2, <2>1, <4>1, <4>2, <4>3
    <3> QED BY <3>2, <3>3, <3>4
  <2>2. CASE b[1] # c[1]
    <3>1. PICK p, r, n, k : p = b[1] /\ r = c[1] /\ n = b[2] /\ k = c[2]
      OBVIOUS
    <3>2. /\ p \in First(slab) /\ n = slab.count[p] /\ p \in Nat /\ n \in Nat
          /\ \A q \in PagesOf(b) : q \in Page /\ p <= q /\ q < p + n
      BY <3>1, BlockRun
    <3>3. /\ r \in First(slab) /\ k = slab.count[r] /\ r \in Nat /\ k \in Nat
          /\ \A q \in PagesOf(c) : q \in Page /\ r <= q /\ q < r + k
      BY <3>1, BlockRun
    <3>4. p + n <= r \/ r + k <= p
      BY <1>1, <2>2, <3>1, <3>2, <3>3, RegionFacts
    <3>5. ASSUME NEW q \in PagesOf(b), q \in PagesOf(c) PROVE FALSE
      <4>1. q \in Nat /\ p <= q /\ q < p + n /\ r <= q /\ q < r + k
        BY <3>2, <3>3, <3>5, SlabConstants DEF Page
      <4> QED BY <3>2, <3>3, <3>4, <4>1
    <3> QED BY <3>5
  <2> QED BY <2>1, <2>2
<1>3. ASSUME NEW b \in live
      PROVE  /\ PagesOf(b) \subseteq Page \ FreeRunPages
             /\ b[3] # Null => b[3] >= Bitmap[slab.type[b[1]]]
  <2>1. PagesOf(b) \subseteq Page \ FreeRunPages
    BY BlockRun, FreeRunsAre DEF FreeMarked
  <2>2. PICK p, s : p = b[1] /\ s = slab.type[p]
    OBVIOUS
  <2>3. p \in Page /\ slab.mark[p] \in {"start", "chunks"}
    BY <1>1, <2>2, LiveFacts
  <2>4. CASE slab.mark[p] = "start"
    BY <1>1, <2>1, <2>2, <2>4, LiveAt
  <2>5. CASE slab.mark[p] = "chunks"
    <3>1. b[3] \in slab.used[p] /\ b[3] \notin 0 .. Bitmap[s] - 1
      BY <1>1, <2>2, <2>5, LiveAt
    <3>2. s \in Slot /\ b[3] \in Nat
      BY <1>1, <2>2, <2>3, <2>5, <3>1, SlotFacts DEF ChunkPages
    <3>3. Bitmap[s] \in Nat
      BY <3>2, SlotFacts
    <3>4. b[3] >= Bitmap[s]
      BY <3>1, <3>2, <3>3
    <3> QED BY <2>1, <2>2, <3>4
  <2> QED BY <2>3, <2>4, <2>5
<1> QED BY <1>2, <1>3 DEF BlocksDisjoint, WholePages

\* A page that is not free belongs to a block.
LEMMA CoveredByBlock ==
    ASSUME SlabInv, NEW q \in Page, slab.mark[q] # "free"
    PROVE  \E b \in live : q \in PagesOf(b)
<1>1. /\ slab \in SlabRecord /\ Regions(slab) /\ ChunkPages(slab)
      /\ LiveIs(slab, live) /\ NoneEmpty(slab, {})
  BY StructFacts DEF SlabInv, PoolInv
<1>2. PICK p \in First(slab) : p <= q /\ q < p + slab.count[p]
  BY <1>1 DEF Regions
<1>3. p \in Page /\ slab.mark[p] # "free" /\ slab.mark[p] \in {"free", "start", "chunks"}
  <2>1. slab.mark[p] # "free"
    BY <1>1, <1>2, RunMarks
  <2> QED BY <2>1 DEF First, Free
<1>4. ASSUME NEW b \in live, b[1] = p PROVE q \in PagesOf(b)
  <2>1. b[2] = slab.count[p]
    BY <1>4, BlockRun
  <2> QED BY <1>2, <1>4, <2>1, BlockRun
<1>5. CASE slab.mark[p] = "start"
  <2>1. PICK b : b = <<p, slab.count[p], Null>>
    OBVIOUS
  <2>2. b \in live /\ b[1] = p
    BY <1>1, <1>3, <1>5, <2>1 DEF LiveIs
  <2> QED BY <1>4, <2>2
<1>6. CASE slab.mark[p] = "chunks"
  <2>1. 0 .. Bitmap[slab.type[p]] - 1 \subseteq slab.used[p] /\ slab.used[p] # 0 .. Bitmap[slab.type[p]] - 1
    BY <1>1, <1>3, <1>6 DEF ChunkPages, NoneEmpty
  <2>2. PICK c \in slab.used[p] : c \notin 0 .. Bitmap[slab.type[p]] - 1
    BY <2>1
  <2>3. PICK b : b = <<p, 1, c>>
    OBVIOUS
  <2>4. b \in live /\ b[1] = p
    BY <1>1, <1>3, <1>6, <2>2, <2>3 DEF LiveIs
  <2> QED BY <1>4, <2>4
<1> QED BY <1>3, <1>5, <1>6

\* The lists hold the free runs, and the pages of chunks that have room; mStats counts them.
LEMMA SlabLists == SlabInv => ListsExact
<1> SUFFICES ASSUME SlabInv PROVE ListsExact
  OBVIOUS
<1>1. /\ Struct(slab, {}) /\ slab \in SlabRecord /\ Regions(slab) /\ Untyped(slab, {})
      /\ LiveIs(slab, live) /\ FreeCounted(slab) /\ UsedCounted(slab, live) /\ TotalCounted(slab)
  BY StructFacts DEF SlabInv, PoolInv, Counted
<1>2. Merged(slab, {}) /\ Tagged(slab, {})
  BY <1>1 DEF Struct
<1>3. /\ AllLists(slab.next, slab.prev, Members(slab, {}))
      /\ Members(slab, {})[FreePage] = Free(slab)
      /\ \A s \in Slot : s \in Lists /\ Members(slab, {})[s] = Roomy(slab, s)
  BY <1>1, StructFacts
<1>4. FreeRuns = Free(slab) /\ FreeRunPages = FreeMarked(slab)
  BY FreeRunsAre
<1>5. ASSUME NEW h \in Lists PROVE IsList(slab, h, Members(slab, {})[h])
  <2>1. PICK N : N = Members(slab, {})[h]
    OBVIOUS
  <2>2. N \in SUBSET Page /\ ListOf(slab.next, slab.prev, h, N)
    BY <1>3, <2>1 DEF AllLists
  <2> QED BY <1>1, <2>1, <2>2, ChainIsList
<1>6. IsList(slab, FreePage, FreeRuns)
  <2>1. FreePage \in Lists
    BY DEF Lists
  <2> QED BY <1>3, <1>4, <1>5, <2>1
<1>7. FreeRunPages = Page \ UNION {PagesOf(b) : b \in live}
  <2>1. ASSUME NEW q \in FreeRunPages PROVE q \in Page /\ \A b \in live : q \notin PagesOf(b)
    <3>1. q \in Page /\ slab.mark[q] = "free"
      BY <1>4, <2>1 DEF FreeMarked
    <3> QED BY <3>1, BlockRun
  <2>2. ASSUME NEW q \in Page, \A b \in live : q \notin PagesOf(b) PROVE q \in FreeRunPages
    <3>1. slab.mark[q] = "free"
      BY <2>2, CoveredByBlock
    <3> QED BY <1>4, <3>1 DEF FreeMarked
  <2> QED BY <2>1, <2>2
<1>8. slab.mFreePageCount = Cardinality(FreeRunPages)
  BY <1>1, <1>4, Zenon DEF FreeCounted
<1>9. \A p, q \in FreeRuns : p + slab.count[p] # q
  BY <1>2, <1>4 DEF Merged
<1>10. ASSUME NEW p \in FreeRuns, NEW last, last = p + slab.count[p] - 1,
              p < last, last < Pages - 1
       PROVE  slab.prev[last] = p
  <2>1. p \in Free(slab) \ {} /\ p \in Nat
    BY <1>4, SlabConstants DEF Free, Page
  <2>2. PICK n \in Nat : n = slab.count[p]
    BY <1>1, <2>1, RecordFields DEF Free
  <2>3. Pages \in Nat
    BY SlabConstants
  <2>4. n > 1 /\ p + n < Pages
    BY <1>10, <2>1, <2>2, <2>3
  <2> QED BY <1>2, <1>10, <2>1, <2>2, <2>4 DEF Tagged
<1>11. FreeRunsWhole
  BY <1>6, <1>7, <1>8, <1>9, <1>10 DEF FreeRunsWhole
<1>12. ASSUME NEW s \in Slot
       PROVE  /\ IsList(slab, s, PagesWithRoom(s))
              /\ slab.mUsed[s] = Cardinality({b \in live : slab.type[b[1]] = s})
              /\ slab.mTotal[s] = Capacity(s) * Cardinality({p \in Page : slab.type[p] = s})
  <2>1. s # Null
    BY SlabConstants
  <2>2. PagesWithRoom(s) = Roomy(slab, s)
    BY <1>1, <2>1 DEF PagesWithRoom, Roomy, Untyped
  <2>3. IsList(slab, s, PagesWithRoom(s))
    BY <1>3, <1>5, <2>2
  <2>4. slab.mUsed[s] = Cardinality({b \in live : slab.type[b[1]] = s})
    BY <1>1, Zenon DEF UsedCounted, OfSize
  <2>5. slab.mTotal[s] = Capacity(s) * Cardinality({p \in Page : slab.type[p] = s})
    BY <1>1, Zenon DEF TotalCounted, PagesOfSize
  <2> QED BY <2>3, <2>4, <2>5
<1>13. SlotsExact
  BY <1>12 DEF SlotsExact
<1> QED BY <1>11, <1>13 DEF ListsExact

\* BlocksDisjoint in every state of the allocator, for a pool of any size, any
\* sizes of chunks and bitmaps and any sequence of calls: allocMem() gives no
\* memory to two owners, nor a bitmap, nor what freePages() holds to be free.
THEOREM BlocksDisjointCorrect == SlabSpec => []BlocksDisjoint
<1> QED BY SlabInvariance, SlabDisjoint, PTL

\* ListsExact in every state of the allocator: the list of free runs and that of
\* each slot hold exactly the pages they should, no two free runs touch, and
\* mStats counts what is there and what is in use.
THEOREM ListsExactCorrect == SlabSpec => []ListsExact
<1> QED BY SlabInvariance, SlabLists, PTL
=============================================================================
