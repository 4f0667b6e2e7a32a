------------------------------ MODULE HashDict ------------------------------
(***************************************************************************)
(* The hash table that is rehashed a bucket at a time, with the scan that  *)
(* keeps no state in the table and the iterator that stops the rehashing:  *)
(* Source/HashDict.cpp.                                                    *)
(*                                                                         *)
(* A table is a function from bucket numbers to chains; one that was not   *)
(* allocated has no buckets.  An operator takes a dictionary d, a record   *)
(* of its two tables, mRehashIndex and mIterators, and returns one.        *)
(***************************************************************************)
EXTENDS Integers, Sequences, SequencesExt, FiniteSets

CONSTANTS Key, Hash,    \* the keys, and the hash of each
          MinSize,      \* G_DICT_MIN_SIZE
          Bits,         \* width of a cursor
          EmptyVisits,  \* empty buckets a step of rehashing looks at: 10
          ForceRatio,   \* G_DICT_FORCE_RESIZE_RATIO
          NoKey

\* The powers of 2, which all sizes are.
Power[b \in 0 .. Bits] == IF b = 0 THEN 1 ELSE 2 * Power[b - 1]
Powers == {Power[b] : b \in 0 .. Bits}
Cursor == 0 .. Power[Bits] - 1

ASSUME DictConstants ==
    /\ IsFiniteSet(Key) /\ NoKey \notin Key /\ Hash \in [Key -> Nat]
    /\ Bits \in Nat \ {0} /\ MinSize \in {Power[b] : b \in 1 .. Bits}
    /\ EmptyVisits \in Nat \ {0} /\ ForceRatio \in Nat \ {0}
    /\ 2 * Cardinality(Key) <= Power[Bits]

VARIABLES dict,       \* the dictionary
          keys,       \* what was added and not removed
          scan,       \* a scan: its cursor, keys it must return and has
          iter        \* a safe iterator, and what it must return and has

dictVars == <<dict, keys, scan, iter>>

NoTable == <<>>
Table(size) == [i \in 0 .. size - 1 |-> <<>>]
Size(t) == Cardinality(DOMAIN t)
Used(t) == Cardinality(UNION {{b} \X DOMAIN t[b] : b \in DOMAIN t})
Bucket(t, k) == Hash[k] % Size(t)
In(t, k) == Size(t) > 0 /\ Contains(t[Bucket(t, k)], k)

Rehashing(d) == d.index # -1
Tables(d) == IF Rehashing(d) THEN {1, 2} ELSE {1}
Holds(d, k) == \E i \in Tables(d) : In(d.table[i], k)
Entries(d) == Used(d.table[1]) + Used(d.table[2])

\* AppGetNextPower()
NextPower(size) ==
    LET enough == {p \in Powers : p >= MinSize /\ p >= size}
    IN  CHOOSE p \in enough : \A q \in enough : p <= q

-----------------------------------------------------------------------------
(* Rehashing.                                                              *)

Reallocate(d, size) ==
    LET real == NextPower(size)
    IN  IF Rehashing(d) \/ Used(d.table[1]) > size \/ real = Size(d.table[1]) THEN d
        ELSE IF d.table[1] = NoTable THEN [d EXCEPT !.table[1] = Table(real)]
        ELSE [d EXCEPT !.table[2] = Table(real), !.index = 0]

\* Each entry of the chain, in turn, is put at the head of its new chain.
PutFirst(t, k) == [t EXCEPT ![Bucket(t, k)] = <<k>> \o @]
MoveBucket(d, b) ==
    LET chain == d.table[1][b]
        to[i \in 0 .. Len(chain)] ==
            IF i = 0 THEN d.table[2] ELSE PutFirst(to[i - 1], chain[i])
    IN  [d EXCEPT !.table = << [d.table[1] EXCEPT ![b] = <<>>], to[Len(chain)] >>,
                  !.index = b + 1]

\* Broken: done when the last bucket is, though chains may be left before it.
DoneAtEnd(d) == d.index >= Size(d.table[1]) - 1

Done(d) == Used(d.table[1]) = 0

Finish(d) ==
    IF Done(d) THEN [d EXCEPT !.table = << d.table[2], NoTable >>, !.index = -1] ELSE d

\* rehashBatch(1): moves the next chain there is, or gives up after so many
\* empty buckets.
RehashBatch(d) ==
    LET full == {b \in DOMAIN d.table[1] : b >= d.index /\ d.table[1][b] # <<>>}
        next == CHOOSE b \in full : \A c \in full : b <= c
    IN  IF ~Rehashing(d) THEN d
        ELSE IF Used(d.table[1]) = 0 THEN Finish(d)
        ELSE IF next - d.index >= EmptyVisits THEN [d EXCEPT !.index = @ + EmptyVisits]
        ELSE Finish(MoveBucket(d, next))

\* Broken: an iterator does not stop the rehashing.
RehashAlways(d) == RehashBatch(d)

\* rehashStep(), where the caller is rehashing.
RehashStep(d) == IF d.iters = 0 THEN RehashBatch(d) ELSE d

ExpandIfNeeded(d) ==
    LET t == d.table[1]
    IN  IF Rehashing(d) THEN d
        ELSE IF t = NoTable THEN Reallocate(d, MinSize)
        ELSE IF Used(t) >= Size(t) /\ (d.may \/ Used(t) \div Size(t) > ForceRatio)
        THEN Reallocate(d, Used(t) * 2)
        ELSE d

-----------------------------------------------------------------------------
(* add(), remove(), find(), resize(), clear().                             *)

AddKey(k) ==
    LET d == ExpandIfNeeded(RehashStep(dict))
        i == IF Rehashing(d) THEN 2 ELSE 1
    IN  IF Holds(d, k)
        THEN dict' = d /\ UNCHANGED <<keys, scan, iter>>
        ELSE /\ dict' = [d EXCEPT !.table[i] = PutFirst(@, k)]
             /\ keys' = keys \cup {k}
             /\ UNCHANGED <<scan, iter>>

Forget(r, k) == [r EXCEPT !.must = @ \ {k}, !.got = @ \ {k}]

TakeOut(t, k) ==
    LET chain == t[Bucket(t, k)]
    IN  [t EXCEPT ![Bucket(t, k)] = RemoveAt(@, CHOOSE i \in DOMAIN chain : chain[i] = k)]

\* genericRemove().  The entry after the one an iterator has returned must
\* stay: the iterator holds its address.
RemoveKey(k) ==
    LET d == RehashStep(dict)
        i == IF In(d.table[1], k) THEN 1 ELSE 2
    IN  /\ iter.next # k
        /\ Entries(dict) > 0
        /\ IF Holds(d, k)
           THEN /\ dict' = [d EXCEPT !.table[i] = TakeOut(@, k)]
                /\ keys' = keys \ {k}
                /\ scan' = Forget(scan, k) /\ iter' = Forget(iter, k)
           ELSE dict' = d /\ UNCHANGED <<keys, scan, iter>>

\* find(), and all else that only takes a step of rehashing.
Find ==
    /\ Entries(dict) > 0
    /\ dict' = RehashStep(dict)
    /\ UNCHANGED <<keys, scan, iter>>

\* resize(): to what the entries need.
Resize ==
    /\ dict.may /\ ~Rehashing(dict)
    /\ LET used == Used(dict.table[1])
       IN  dict' = Reallocate(dict, IF used < MinSize THEN MinSize ELSE used)
    /\ UNCHANGED <<keys, scan, iter>>

\* enableResize(), disableResize()
MayResize(b) ==
    /\ dict' = [dict EXCEPT !.may = b]
    /\ UNCHANGED <<keys, scan, iter>>

\* clear(), which an iterator would not survive.
Clear ==
    /\ dict.iters = 0
    /\ dict' = [dict EXCEPT !.table = << NoTable, NoTable >>, !.index = -1]
    /\ keys' = {}
    /\ scan' = [scan EXCEPT !.must = {}]
    /\ UNCHANGED iter

-----------------------------------------------------------------------------
(* scanAll().                                                              *)

Bit(v, i) == (v \div Power[i]) % 2
ReverseBits(v) ==       \* AppReverseBits()
    LET rev[n \in 0 .. Bits] == IF n = 0 THEN 0 ELSE 2 * rev[n - 1] + Bit(v, n - 1)
    IN  rev[Bits]

\* Broken: the low bits are counted first.
NextUpwards(v, size) == IF (v % size) + 1 = size THEN 0 ELSE (v % size) + 1

\* Sets the bits above the mask and counts from the highest bit below it.
NextCursor(v, size) ==
    ReverseBits((ReverseBits((v % size) + Power[Bits] - size) + 1) % Power[Bits])

ChainAt(t, v) == ToSet(t[v % Size(t)])

\* Of two tables: a chain of the smaller, and all those of the larger that
\* the cursor stands for; the cursor goes on until their bits are 0 again.
ScanBoth(small, big, v) ==
    LET at[i \in 0 .. Size(big)] ==
            IF i = 0 THEN v ELSE NextCursor(at[i - 1], Size(big))
        ends == {i \in 1 .. Size(big) : (at[i] % Size(big)) \div Size(small) = 0}
        n == CHOOSE i \in ends : \A j \in ends : i <= j
    IN  [v |-> at[n],
         got |-> ChainAt(small, v) \cup UNION {ChainAt(big, at[i]) : i \in 0 .. n - 1}]

ScanAll(d, v) ==
    LET t == d.table[1]
        u == d.table[2]
    IN  IF Entries(d) = 0 THEN [v |-> 0, got |-> {}]
        ELSE IF ~Rehashing(d) THEN [v |-> NextCursor(v, Size(t)), got |-> ChainAt(t, v)]
        ELSE IF Size(t) > Size(u) THEN ScanBoth(u, t, v) ELSE ScanBoth(t, u, v)

NoScan == [on |-> FALSE, v |-> 0, must |-> {}, got |-> {}, missed |-> {}]

\* A scan starts with cursor 0 and has ended when it gets 0 back.
Scan ==
    LET from == IF scan.on THEN scan ELSE [NoScan EXCEPT !.on = TRUE, !.must = keys]
        step == ScanAll(dict, from.v)
        got == from.got \cup step.got
    IN  /\ ~iter.on
        /\ scan' = IF step.v = 0
                   THEN [NoScan EXCEPT !.missed = from.must \ got]
                   ELSE [from EXCEPT !.v = step.v, !.got = got \cap from.must]
        /\ UNCHANGED <<dict, keys, iter>>

-----------------------------------------------------------------------------
(* A safe iterator.                                                        *)

NoIter == [on |-> FALSE, table |-> 1, index |-> -1, node |-> NoKey, next |-> NoKey,
           must |-> {}, got |-> {}, wrong |-> FALSE]

\* mNext of an entry.
After(d, k) ==
    LET t == IF In(d.table[1], k) THEN d.table[1] ELSE d.table[2]
        chain == t[Bucket(t, k)]
        i == CHOOSE j \in DOMAIN chain : chain[j] = k
    IN  IF i = Len(chain) THEN NoKey ELSE chain[i + 1]

\* The buckets that are still to come, in order, of both tables while the
\* dictionary is rehashed.
ToCome(d, it) ==
    {x \in UNION {{i} \X DOMAIN d.table[i] : i \in Tables(d)} :
        x[1] > it.table \/ (x[1] = it.table /\ x[2] > it.index)}
NotAfter(x, y) == x[1] < y[1] \/ (x[1] = y[1] /\ x[2] <= y[2])

\* getNext(): the rest of the chain, then the next chain that is not empty.
Return(it, d, k, at) ==
    [it EXCEPT !.table = at[1], !.index = at[2], !.node = k, !.next = After(d, k),
               !.got = @ \cup {k}, !.wrong = @ \/ k \in it.got]

GetNext ==
    LET first == ~iter.on
        it == IF first THEN [NoIter EXCEPT !.on = TRUE, !.must = keys] ELSE iter
        d == IF first THEN [dict EXCEPT !.iters = @ + 1] ELSE dict
        full == {x \in ToCome(d, it) : d.table[x[1]][x[2]] # <<>>}
        at == CHOOSE x \in full : \A y \in full : NotAfter(x, y)
    IN  /\ ~scan.on
        /\ IF it.next # NoKey
           THEN iter' = Return(it, d, it.next, <<it.table, it.index>>) /\ dict' = d
           ELSE IF full # {}
           THEN iter' = Return(it, d, Head(d.table[at[1]][at[2]]), at) /\ dict' = d
           ELSE \* the end, and releaseIterator()
                /\ iter' = [NoIter EXCEPT !.wrong = it.wrong \/ ~(it.must \subseteq it.got)]
                /\ dict' = [d EXCEPT !.iters = @ - 1]
        /\ UNCHANGED <<keys, scan>>

-----------------------------------------------------------------------------
DictInit ==
    /\ dict = [table |-> << NoTable, NoTable >>, index |-> -1, iters |-> 0, may |-> TRUE]
    /\ keys = {}
    /\ scan = NoScan
    /\ iter = NoIter

DictNext ==
    \/ \E k \in Key : AddKey(k) \/ RemoveKey(k)
    \/ Find \/ Resize \/ Clear
    \/ \E b \in BOOLEAN : MayResize(b)
    \/ Scan \/ GetNext

DictSpec == DictInit /\ [][DictNext]_dictVars

(* HashDict.h: the function guarantees all elements present in the         *)
(* dictionary get returned between the start and end of the iteration,     *)
(* while the table grows, shrinks and is rehashed between the calls.       *)
ScanComplete == scan.missed = {}

(* A safe iterator returns what was there all the time, and nothing twice, *)
(* while entries are added, looked up and removed.                         *)
IterateOnce == ~iter.wrong
=============================================================================
