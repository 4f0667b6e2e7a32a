----------------------------- MODULE PartsProof -----------------------------
(***************************************************************************)
(* Proofs about four of the parts, which share no name and no variable:    *)
(* the block ring, the TCP proxy with its acceptor, the main process with  *)
(* its children, and the pools of redis clients.                           *)
(***************************************************************************)
EXTENDS RingBlocks, Proxy, Processes, Redis, FiniteSetTheorems, SequenceTheorems, TLAPS

-----------------------------------------------------------------------------
(* The block ring, for a ring of any size and writes of any sizes below    *)
(* that of a block: what one thread writes is what the other reads.        *)
(*                                                                         *)
(* A write that fills a block is left out, for there the last cell of the  *)
(* data is the head of the next block (Ring_full.cfg shows what happens).  *)
(* A block is named by its place b in the ring and a cell by its place j   *)
(* in the block: place 0 is the head, 1 .. BlockSize - 1 hold data.        *)

ShortWrites == \A n \in Writes : n < BlockSize

Blk == 0 .. Blocks - 1
Plc == 0 .. BlockSize - 1
Of(m, b, j) == m[b * BlockSize + j]

Nx(b) == IF b = Blocks - 1 THEN 0 ELSE b + 1

\* The blocks from h up to t, round the ring.
Between(h, t, b) == IF h <= t THEN h <= b /\ b < t ELSE h <= b \/ b < t

InUse(m, b) == Of(m, b, 0)[1]
Offset(m, b) == Of(m, b, 0)[2]

\* The units written before those of the block.
Prior(m, b) == Of(m, b, 1)[1] - 1

Filled(m, b, f, n) == \A j \in 1 .. n : Of(m, b, j) = <<f + j>>

BlockInv(m, b) ==
    /\ InUse(m, b) \in 1 .. BlockSize - 1 /\ Offset(m, b) \in 0 .. InUse(m, b) - 1
    /\ Prior(m, b) \in Nat
    /\ Filled(m, b, Prior(m, b), InUse(m, b))

\* The blocks between head and tail hold consecutive units up to unit n, and
\* only the first of them may have been read in part.
ChainInv(m, h, t, n) ==
    \A b \in Blk : Between(h, t, b) =>
        /\ BlockInv(m, b)
        /\ Prior(m, b) + InUse(m, b) <= n
        /\ b # h => Offset(m, b) = 0
        /\ IF Nx(b) = t THEN Prior(m, b) + InUse(m, b) = n
                        ELSE Prior(m, Nx(b)) = Prior(m, b) + InUse(m, b)

\* write() fills a block that getHeadBlock() does not show.
WriterInv(m, h, t, w, n) ==
    /\ w.pc = "get" => w.left \in 1 .. BlockSize - 1 /\ n + w.left <= Total
    /\ w.pc \in {"copy", "commit"} =>
         /\ w.left \in 1 .. BlockSize - 1 /\ n - w.at + w.left <= Total
         /\ w.at <= n
         /\ IF w.pc = "copy" THEN w.at < w.left ELSE w.at = w.left
         /\ Nx(t) # h
         /\ Of(m, t, 0) = <<w.left, 0>>
         /\ Filled(m, t, n - w.at, w.at)

\* read() copies what has been committed, from where it stopped.
ReaderInv(m, h, t, r) ==
    /\ r.pc = "get" => r.room > 0
    /\ r.pc \in {"copy", "offset"} =>
         /\ h # t
         /\ Offset(m, h) + r.step <= InUse(m, h)
         /\ r.step \in 1 .. r.room
         /\ IF r.pc = "copy" THEN r.at < r.step ELSE r.at = r.step

\* The units read() has copied.
ReadTo(m, h, t, r, n) ==
    IF h = t THEN n
    ELSE Prior(m, h) + Offset(m, h) + (IF r.pc \in {"copy", "offset"} THEN r.at ELSE 0)

\* The units committed.
Committed == IF writer.pc \in {"copy", "commit"} THEN written - writer.at ELSE written

Caches == [0 .. Blocks * (BlockSize + 1) - 1 -> Seq(Nat)]

RingTypeOK ==
    /\ mCache \in Caches
    /\ mHead \in 0 .. IndexMod - 1 /\ mTail \in 0 .. IndexMod - 1
    /\ writer \in [pc : {"idle", "get", "copy", "commit"}, left : Nat, at : Nat]
    /\ reader \in [pc : {"idle", "get", "copy", "offset"}, room : Nat, step : Nat, at : Nat]
    /\ written \in 0 .. Total
    /\ read \in Seq(Seq(Nat))

RingInv ==
    /\ RingTypeOK
    /\ ChainInv(mCache, mHead % Blocks, mTail % Blocks, Committed)
    /\ WriterInv(mCache, mHead % Blocks, mTail % Blocks, writer, written)
    /\ ReaderInv(mCache, mHead % Blocks, mTail % Blocks, reader)
    /\ Len(read) = ReadTo(mCache, mHead % Blocks, mTail % Blocks, reader, Committed)
    /\ \A n \in 1 .. Len(read) : read[n] = <<n>>

-----------------------------------------------------------------------------
(* Remainders.                                                             *)

LEMMA Quotient ==
    ASSUME NEW x \in Nat, NEW m \in Nat \ {0}
    PROVE  \E q \in Nat : x = q * m + (x % m) /\ x % m \in 0 .. m - 1
<1>1. x \div m \in Nat
  OBVIOUS
<1>2. x % m \in 0 .. m - 1
  OBVIOUS
<1>3. x = (x \div m) * m + (x % m)
  OBVIOUS
<1> QED BY <1>1, <1>2, <1>3

LEMMA Remainder ==
    ASSUME NEW q \in Nat, NEW m \in Nat \ {0}, NEW r \in 0 .. m - 1
    PROVE  (q * m + r) % m = r
OBVIOUS

LEMMA NextRemainder ==
    ASSUME NEW x \in Nat, NEW m \in Nat \ {0}
    PROVE  /\ x % m \in 0 .. m - 1
           /\ (x + 1) % m = IF x % m = m - 1 THEN 0 ELSE (x % m) + 1
<1>1. PICK q \in Nat : x = q * m + (x % m) /\ x % m \in 0 .. m - 1
  BY Quotient
<1>2. PICK r \in 0 .. m - 1 : r = x % m
  BY <1>1
<1>a. x = q * m + r
  BY <1>1, <1>2
<1>b. (q + 1) * m = q * m + m /\ q * m \in Nat
  OBVIOUS
<1>3. CASE r = m - 1
  <2>1. x + 1 = (q + 1) * m + 0
    BY <1>a, <1>b, <1>3
  <2>2. q + 1 \in Nat /\ 0 \in 0 .. m - 1
    OBVIOUS
  <2>3. ((q + 1) * m + 0) % m = 0
    BY <2>2, Remainder
  <2> QED BY <1>2, <1>3, <2>1, <2>3
<1>4. CASE r # m - 1
  <2>1. x + 1 = q * m + (r + 1) /\ r + 1 \in 0 .. m - 1
    BY <1>a, <1>b, <1>4
  <2>2. (q * m + (r + 1)) % m = r + 1
    BY <2>1, Remainder
  <2> QED BY <1>2, <1>4, <2>1, <2>2
<1> QED BY <1>1, <1>2, <1>3, <1>4

-----------------------------------------------------------------------------
(* Cells and blocks.                                                       *)

LEMMA Sizes == /\ Blocks \in Nat /\ Blocks > 1 /\ BlockSize \in Nat \ {0}
               /\ Total \in Nat /\ IndexMod \in Nat \ {0} /\ IndexMod % Blocks = 0
BY RingConstants

LEMMA PlaceApart ==
    ASSUME NEW b \in Blk, NEW c \in Blk, NEW j \in Plc, NEW k \in Plc
    PROVE  /\ b * BlockSize + j \in 0 .. Blocks * (BlockSize + 1) - 1
           /\ b * BlockSize + j = c * BlockSize + k => b = c /\ j = k
<1>1. PICK B \in Nat, S \in Nat \ {0} : B = Blocks /\ S = BlockSize
  BY Sizes
<1>2. b \in 0 .. B - 1 /\ c \in 0 .. B - 1 /\ j \in 0 .. S - 1 /\ k \in 0 .. S - 1
  BY <1>1 DEF Blk, Plc
<1>3. b * S + j \in 0 .. B * (S + 1) - 1
  <2>1. b * S + j >= 0
    BY <1>2
  <2>2. (B - 1 - b) * S >= 0
    BY <1>2
  <2>3. (B - 1 - b) * S = B * S - S - b * S
    BY <1>2
  <2>4. B * (S + 1) = B * S + B /\ B * S \in Nat /\ b * S \in Nat
    BY <1>2
  <2>5. b * S + j <= B * (S + 1) - 1
    BY <1>2, <2>2, <2>3, <2>4
  <2> QED BY <1>2, <2>1, <2>4, <2>5
<1>4. ASSUME b * S + j = c * S + k PROVE b = c /\ j = k
  <2>1. (b * S + j) % S = j /\ (c * S + k) % S = k
    BY <1>2, Remainder
  <2>2. j = k
    BY <1>4, <2>1
  <2>3. b * S = c * S /\ b * S \in Nat /\ c * S \in Nat
    BY <1>2, <1>4, <2>2
  <2>4. (b * S) - (c * S) = (b - c) * S
    BY <1>2
  <2>5. (b - c) * S = 0
    BY <2>3, <2>4
  <2>6. b - c = 0
    BY <1>2, <2>5
  <2> QED BY <1>2, <2>2, <2>6
<1> QED BY <1>1, <1>3, <1>4

Store(m, i, v) == [m EXCEPT ![i] = v]

\* One cell is stored.
LEMMA StoreCell ==
    ASSUME NEW m \in Caches,
           NEW b \in Blk, NEW j \in Plc, NEW v \in Seq(Nat), NEW i, NEW m2,
           i = b * BlockSize + j, m2 = Store(m, i, v)
    PROVE  /\ m2 \in Caches
           /\ Of(m2, b, j) = v
           /\ \A c \in Blk, k \in Plc : c # b \/ k # j => Of(m2, c, k) = Of(m, c, k)
<1>1. b * BlockSize + j \in 0 .. Blocks * (BlockSize + 1) - 1
  BY PlaceApart
<1>2. m2 \in Caches /\ Of(m2, b, j) = v
  BY <1>1 DEF Of, Caches, Store
<1>3. ASSUME NEW c \in Blk, NEW k \in Plc, c # b \/ k # j PROVE Of(m2, c, k) = Of(m, c, k)
  <2>1. /\ c * BlockSize + k \in 0 .. Blocks * (BlockSize + 1) - 1
        /\ c * BlockSize + k # b * BlockSize + j
    BY <1>3, PlaceApart
  <2> QED BY <2>1 DEF Of, Caches, Store
<1> QED BY <1>2, <1>3

LEMMA Around ==
    ASSUME NEW h \in Blk, NEW t \in Blk
    PROVE  /\ Nx(t) \in Blk /\ Nx(t) # t
           /\ ~Between(h, t, t) /\ (h # t => Between(h, t, h))
           /\ \A b \in Blk : Between(h, t, b) /\ Nx(b) # t => Between(h, t, Nx(b))
           /\ \A b \in Blk : Between(h, t, b) => Nx(b) # h
           /\ \A b, c \in Blk : Nx(b) = Nx(c) => b = c
           /\ h # t => \A b \in Blk : Between(Nx(h), t, b) <=> Between(h, t, b) /\ b # h
           /\ Nx(t) # h => \A b \in Blk : Between(h, Nx(t), b) <=> Between(h, t, b) \/ b = t
           /\ h # t => Nx(t) # Nx(h)
BY Sizes DEF Blk, Nx, Between

-----------------------------------------------------------------------------
(* The chain of the blocks in use.                                         *)

LEMMA SameBlock ==
    ASSUME NEW m, NEW m2, NEW b \in Blk, BlockInv(m, b),
           \A j \in Plc : Of(m2, b, j) = Of(m, b, j)
    PROVE  /\ BlockInv(m2, b) /\ InUse(m2, b) = InUse(m, b) /\ Offset(m2, b) = Offset(m, b)
           /\ Prior(m2, b) = Prior(m, b)
<1>1. PICK u, f : u = InUse(m, b) /\ f = Prior(m, b)
  OBVIOUS
<1>2. u \in 1 .. BlockSize - 1 /\ 0 \in Plc /\ \A j \in 1 .. u : j \in Plc
  BY <1>1, Sizes DEF BlockInv, Plc
<1>3. Of(m2, b, 0) = Of(m, b, 0) /\ \A j \in 1 .. u : Of(m2, b, j) = Of(m, b, j)
  BY <1>2
<1>4. 1 \in 1 .. u
  BY <1>2, Sizes
<1>5. InUse(m2, b) = u /\ Offset(m2, b) = Offset(m, b) /\ Prior(m2, b) = f
  BY <1>1, <1>3, <1>4 DEF InUse, Offset, Prior
<1>6. Filled(m, b, f, u)
  BY <1>1 DEF BlockInv
<1>7. Filled(m2, b, f, u)
  BY <1>3, <1>6 DEF Filled
<1> QED BY <1>1, <1>5, <1>7 DEF BlockInv

\* Nothing stored in a block that is not in use concerns it.
LEMMA SameChain ==
    ASSUME NEW m, NEW m2, NEW h \in Blk, NEW t \in Blk, NEW n \in Nat,
           \A b \in Blk, j \in Plc : Between(h, t, b) => Of(m2, b, j) = Of(m, b, j),
           ChainInv(m, h, t, n)
    PROVE  /\ ChainInv(m2, h, t, n)
           /\ h # t => /\ InUse(m2, h) = InUse(m, h) /\ Offset(m2, h) = Offset(m, h)
                       /\ Prior(m2, h) = Prior(m, h)
<1>1. ASSUME NEW b \in Blk, Between(h, t, b)
      PROVE  /\ BlockInv(m2, b) /\ InUse(m2, b) = InUse(m, b) /\ Offset(m2, b) = Offset(m, b)
             /\ Prior(m2, b) = Prior(m, b)
  BY <1>1, SameBlock DEF ChainInv
<1>2. \A b \in Blk : Between(h, t, b) /\ Nx(b) # t => Nx(b) \in Blk /\ Between(h, t, Nx(b))
  BY Around
<1>3. h # t => Between(h, t, h)
  BY Around
<1>4. ASSUME NEW b \in Blk, Between(h, t, b)
      PROVE  /\ BlockInv(m2, b)
             /\ Prior(m2, b) + InUse(m2, b) <= n
             /\ b # h => Offset(m2, b) = 0
             /\ IF Nx(b) = t THEN Prior(m2, b) + InUse(m2, b) = n
                             ELSE Prior(m2, Nx(b)) = Prior(m2, b) + InUse(m2, b)
  BY <1>1, <1>2, <1>4 DEF ChainInv
<1> QED BY <1>1, <1>3, <1>4 DEF ChainInv

\* A block is committed behind them.
LEMMA GrowChain ==
    ASSUME NEW m, NEW h \in Blk, NEW t \in Blk, NEW n \in Nat, ChainInv(m, h, t, n),
           NEW u \in 1 .. BlockSize - 1, Of(m, t, 0) = <<u, 0>>, Filled(m, t, n, u), Nx(t) # h
    PROVE  /\ ChainInv(m, h, Nx(t), n + u)
           /\ h = t => Prior(m, h) = n /\ Offset(m, h) = 0
<1>1. InUse(m, t) = u /\ Offset(m, t) = 0
  BY DEF InUse, Offset
<1>2. Prior(m, t) = n
  <2>1. 1 \in 1 .. u
    BY Sizes
  <2>2. Of(m, t, 1) = <<n + 1>>
    BY <2>1 DEF Filled
  <2> QED BY <2>2 DEF Prior
<1>3. BlockInv(m, t)
  BY <1>1, <1>2, Sizes DEF BlockInv
<1>4. PICK t2 \in Blk : t2 = Nx(t) /\ t2 # t
  BY Around
<1>5. ASSUME NEW b \in Blk, Between(h, t2, b)
      PROVE  /\ BlockInv(m, b)
             /\ Prior(m, b) + InUse(m, b) <= n + u
             /\ b # h => Offset(m, b) = 0
             /\ IF Nx(b) = t2 THEN Prior(m, b) + InUse(m, b) = n + u
                              ELSE Prior(m, Nx(b)) = Prior(m, b) + InUse(m, b)
  <2>1. CASE b = t
    BY <1>1, <1>2, <1>3, <1>4, <2>1
  <2>2. CASE b # t
    <3>1. Between(h, t, b) /\ Nx(b) # t2
      BY <1>4, <1>5, <2>2, Around
    <3>2. /\ BlockInv(m, b) /\ Prior(m, b) + InUse(m, b) <= n
          /\ b # h => Offset(m, b) = 0
          /\ IF Nx(b) = t THEN Prior(m, b) + InUse(m, b) = n
                          ELSE Prior(m, Nx(b)) = Prior(m, b) + InUse(m, b)
      BY <3>1 DEF ChainInv
    <3>3. PICK x \in Nat, y \in Nat : x = Prior(m, b) /\ y = InUse(m, b)
      BY <3>2, Sizes DEF BlockInv
    <3>4. x + y <= n + u
      BY <3>2, <3>3
    <3>5. Prior(m, Nx(b)) = x + y
      BY <1>2, <3>2, <3>3
    <3> QED BY <3>1, <3>2, <3>3, <3>4, <3>5
  <2> QED BY <2>1, <2>2
<1> QED BY <1>1, <1>2, <1>4, <1>5 DEF ChainInv

\* The first block is used up and leaves.
LEMMA ShrinkChain ==
    ASSUME NEW m, NEW h \in Blk, NEW t \in Blk, NEW n \in Nat, ChainInv(m, h, t, n), h # t
    PROVE  /\ ChainInv(m, Nx(h), t, n)
           /\ IF Nx(h) = t THEN Prior(m, h) + InUse(m, h) = n
              ELSE /\ Prior(m, Nx(h)) = Prior(m, h) + InUse(m, h)
                   /\ Offset(m, Nx(h)) = 0
<1>1. PICK h2 \in Blk : h2 = Nx(h) /\ h2 # h
  BY Around
<1>2. \A b \in Blk : Between(h2, t, b) => Between(h, t, b) /\ b # h
  BY <1>1, Around
<1>3. ChainInv(m, h2, t, n)
  BY <1>2 DEF ChainInv
<1>4. Between(h, t, h)
  BY Around
<1>5. h2 # t => Between(h, t, h2)
  BY <1>1, <1>4, Around
<1> QED BY <1>1, <1>3, <1>4, <1>5 DEF ChainInv

\* A part of the first block has been read.
LEMMA ReadPart ==
    ASSUME NEW m, NEW m2, NEW h \in Blk, NEW t \in Blk, NEW n \in Nat, ChainInv(m, h, t, n),
           h # t, NEW o \in Nat, o < InUse(m, h), InUse(m2, h) = InUse(m, h), Offset(m2, h) = o,
           \A b \in Blk, j \in Plc : b # h \/ j # 0 => Of(m2, b, j) = Of(m, b, j)
    PROVE  ChainInv(m2, h, t, n) /\ Prior(m2, h) = Prior(m, h)
<1>1. Between(h, t, h)
  BY Around
<1>2. PICK u, f : u = InUse(m, h) /\ f = Prior(m, h)
  OBVIOUS
<1>3. u \in 1 .. BlockSize - 1 /\ f \in Nat /\ Filled(m, h, f, u)
  BY <1>1, <1>2 DEF ChainInv, BlockInv
<1>4. \A j \in 1 .. u : j \in Plc /\ j # 0
  BY <1>3, Sizes DEF Plc
<1>5. 1 \in 1 .. u
  BY <1>3, Sizes
<1>6. InUse(m2, h) = u /\ Offset(m2, h) = o /\ Prior(m2, h) = f
  <2>1. Of(m2, h, 1) = Of(m, h, 1)
    BY <1>4, <1>5
  <2> QED BY <1>2, <2>1 DEF Prior
<1>7. Filled(m2, h, f, u)
  BY <1>3, <1>4 DEF Filled
<1>8. BlockInv(m2, h)
  BY <1>2, <1>3, <1>6, <1>7, Sizes DEF BlockInv
<1>9. ASSUME NEW b \in Blk, Between(h, t, b), b # h
      PROVE  /\ BlockInv(m2, b) /\ InUse(m2, b) = InUse(m, b) /\ Offset(m2, b) = Offset(m, b)
             /\ Prior(m2, b) = Prior(m, b)
  BY <1>9, SameBlock DEF ChainInv
<1>10. \A b \in Blk : Between(h, t, b) /\ Nx(b) # t => Nx(b) \in Blk /\ Between(h, t, Nx(b))
  BY Around
<1>11. ASSUME NEW b \in Blk, Between(h, t, b)
       PROVE  /\ BlockInv(m2, b) /\ InUse(m2, b) = InUse(m, b) /\ Prior(m2, b) = Prior(m, b)
              /\ b # h => Offset(m2, b) = Offset(m, b)
  BY <1>2, <1>6, <1>8, <1>9, <1>11
<1>12. ASSUME NEW b \in Blk, Between(h, t, b)
       PROVE  /\ BlockInv(m2, b)
              /\ Prior(m2, b) + InUse(m2, b) <= n
              /\ b # h => Offset(m2, b) = 0
              /\ IF Nx(b) = t THEN Prior(m2, b) + InUse(m2, b) = n
                              ELSE Prior(m2, Nx(b)) = Prior(m2, b) + InUse(m2, b)
  BY <1>10, <1>11, <1>12 DEF ChainInv
<1> QED BY <1>2, <1>6, <1>12 DEF ChainInv

-----------------------------------------------------------------------------
(* The steps.                                                              *)

LEMMA Turn ==
    ASSUME NEW x \in 0 .. IndexMod - 1
    PROVE  /\ x % Blocks \in Blk /\ (x + 1) % Blocks = Nx(x % Blocks)
           /\ (x + 1) % IndexMod \in 0 .. IndexMod - 1
           /\ ((x + 1) % IndexMod) % Blocks = Nx(x % Blocks)
<1>1. x \in Nat /\ Blocks \in Nat \ {0} /\ IndexMod \in Nat \ {0}
  BY Sizes
<1>2. x % Blocks \in Blk /\ (x + 1) % Blocks = Nx(x % Blocks)
  BY <1>1, NextRemainder DEF Blk, Nx
<1>3. CASE x + 1 = IndexMod
  <2>1. (x + 1) % IndexMod = 0
    <3>1. 1 * IndexMod + 0 = x + 1 /\ 0 \in 0 .. IndexMod - 1
      BY <1>1, <1>3
    <3>2. (1 * IndexMod + 0) % IndexMod = 0
      BY <1>1, <3>1, Remainder
    <3> QED BY <3>1, <3>2
  <2>2. 0 % Blocks = 0
    BY <1>1
  <2>3. (x + 1) % Blocks = 0
    BY <1>3, Sizes
  <2> QED BY <1>1, <1>2, <2>1, <2>2, <2>3
<1>4. CASE x + 1 # IndexMod
  <2>1. x + 1 \in 0 .. IndexMod - 1
    BY <1>1, <1>4
  <2>2. (x + 1) % IndexMod = x + 1
    <3>1. 0 * IndexMod + (x + 1) = x + 1
      BY <1>1
    <3>2. (0 * IndexMod + (x + 1)) % IndexMod = x + 1
      BY <1>1, <2>1, Remainder
    <3> QED BY <3>1, <3>2
  <2> QED BY <1>2, <2>1, <2>2
<1> QED BY <1>2, <1>3, <1>4

\* Where write() and read() are.
LEMMA Indices ==
    ASSUME RingTypeOK
    PROVE  /\ mHead % Blocks \in Blk /\ mTail % Blocks \in Blk
           /\ IsFull <=> Nx(mTail % Blocks) = mHead % Blocks
           /\ IsEmpty <=> mHead % Blocks = mTail % Blocks
           /\ ((mTail + 1) % IndexMod) % Blocks = Nx(mTail % Blocks)
           /\ ((mHead + 1) % IndexMod) % Blocks = Nx(mHead % Blocks)
           /\ (mTail + 1) % IndexMod \in 0 .. IndexMod - 1
           /\ (mHead + 1) % IndexMod \in 0 .. IndexMod - 1
           /\ Cell(mTail) = (mTail % Blocks) * BlockSize + 0
           /\ Cell(mHead) = (mHead % Blocks) * BlockSize + 0
           /\ Block(mHead) = Of(mCache, mHead % Blocks, 0)
           /\ 0 \in Plc
<1>1. mHead \in 0 .. IndexMod - 1 /\ mTail \in 0 .. IndexMod - 1
  BY DEF RingTypeOK
<1>2. PICK h \in Blk, t \in Blk : h = mHead % Blocks /\ t = mTail % Blocks
  BY <1>1, Turn
<1>3. h * BlockSize + 0 = h * BlockSize /\ t * BlockSize + 0 = t * BlockSize /\ 0 \in Plc
  BY Sizes DEF Blk, Plc
<1>4. /\ Cell(mTail) = t * BlockSize + 0 /\ Cell(mHead) = h * BlockSize + 0
      /\ Block(mHead) = Of(mCache, h, 0)
  BY <1>2, <1>3 DEF Cell, Block, Of
<1>5. IsFull <=> Nx(t) = h
  BY <1>1, <1>2, Turn DEF IsFull
<1>6. IsEmpty <=> h = t
  BY <1>2 DEF IsEmpty
<1> QED BY <1>1, <1>2, <1>3, <1>4, <1>5, <1>6, Turn

\* The invariant at given places of head and tail.
InvAt(h, t, n) ==
    /\ h = mHead % Blocks /\ t = mTail % Blocks /\ n = Committed /\ n <= written
    /\ ChainInv(mCache, h, t, n) /\ WriterInv(mCache, h, t, writer, written)
    /\ ReaderInv(mCache, h, t, reader)
    /\ Len(read) = ReadTo(mCache, h, t, reader, n)

LEMMA Places == ASSUME RingInv PROVE \E h, t \in Blk, n \in Nat : InvAt(h, t, n)
<1>1. mHead % Blocks \in Blk /\ mTail % Blocks \in Blk
  BY Indices DEF RingInv
<1>2. Committed \in Nat /\ Committed <= written
  BY Sizes DEF RingInv, RingTypeOK, WriterInv, Committed
<1> QED BY <1>1, <1>2 DEF RingInv, InvAt

\* A block the writer fills stays what it is while others are read.
LEMMA SameWriter ==
    ASSUME NEW m, NEW m2, NEW h, NEW h2, NEW t \in Blk, NEW w, NEW n,
           w.at \in Nat, \A j \in Plc : Of(m2, t, j) = Of(m, t, j),
           w.pc \in {"copy", "commit"} /\ Nx(t) # h => Nx(t) # h2,
           WriterInv(m, h, t, w, n)
    PROVE  WriterInv(m2, h2, t, w, n)
<1>1. CASE w.pc \in {"copy", "commit"}
  <2>1. w.left \in 1 .. BlockSize - 1 /\ w.at <= w.left /\ Nx(t) # h
        /\ Filled(m, t, n - w.at, w.at) /\ Of(m, t, 0) = <<w.left, 0>>
    BY <1>1 DEF WriterInv
  <2>2. 0 \in Plc /\ \A j \in 1 .. w.at : j \in Plc
    BY <2>1, Sizes DEF Plc
  <2>3. Filled(m2, t, n - w.at, w.at) /\ Of(m2, t, 0) = <<w.left, 0>>
    BY <2>1, <2>2 DEF Filled
  <2> QED BY <1>1, <2>1, <2>3 DEF WriterInv
<1>2. CASE w.pc \notin {"copy", "commit"}
  BY <1>2 DEF WriterInv
<1> QED BY <1>1, <1>2

LEMMA WriteKeeps == ASSUME RingInv, ShortWrites, NEW k \in Writes, Write(k) PROVE RingInv'
<1>0. /\ UNCHANGED <<mCache, mHead, mTail, reader, written, read>>
      /\ writer.pc = "idle" /\ written + k <= Total
      /\ writer' = [pc |-> "get", left |-> k, at |-> 0]
  BY DEF Write
<1>a. PICK h, t \in Blk, n \in Nat : InvAt(h, t, n)
  BY Places
<1>1. /\ h = mHead % Blocks /\ t = mTail % Blocks /\ n = Committed /\ n <= written
      /\ ChainInv(mCache, h, t, n) /\ WriterInv(mCache, h, t, writer, written)
      /\ ReaderInv(mCache, h, t, reader)
      /\ Len(read) = ReadTo(mCache, h, t, reader, n)
  BY <1>a DEF InvAt
<1>2. k \in 1 .. BlockSize - 1
  BY RingConstants DEF ShortWrites
<1>3. RingTypeOK'
  BY <1>0, <1>2 DEF RingInv, RingTypeOK
<1>4. Committed' = n
  BY <1>0, <1>1 DEF Committed
<1>5. WriterInv(mCache', h, t, writer', written')
  BY <1>0, <1>2 DEF WriterInv
<1> QED BY <1>0, <1>1, <1>3, <1>4, <1>5 DEF RingInv

LEMMA GetTailKeeps == ASSUME RingInv, GetTailBlock PROVE RingInv'
<1>0. /\ UNCHANGED <<mHead, mTail, reader, written, read>> /\ writer.pc = "get"
  BY DEF GetTailBlock
<1>a. PICK h, t \in Blk, n \in Nat : InvAt(h, t, n)
  BY Places
<1>1. /\ h = mHead % Blocks /\ t = mTail % Blocks /\ n = Committed /\ n <= written
      /\ ChainInv(mCache, h, t, n) /\ WriterInv(mCache, h, t, writer, written)
      /\ ReaderInv(mCache, h, t, reader)
      /\ Len(read) = ReadTo(mCache, h, t, reader, n)
  BY <1>a DEF InvAt
<1>2. n = written /\ writer.left \in 1 .. BlockSize - 1 /\ written + writer.left <= Total
  BY <1>0, <1>1 DEF Committed, WriterInv
<1>3. CASE IsFull
  <2>1. writer' = [writer EXCEPT !.pc = "idle"] /\ mCache' = mCache
    BY <1>3 DEF GetTailBlock
  <2>2. writer' \in [pc : {"idle", "get", "copy", "commit"}, left : Nat, at : Nat] /\ writer'.pc = "idle"
    BY <2>1 DEF RingInv, RingTypeOK
  <2>3. RingTypeOK'
    BY <1>0, <2>1, <2>2 DEF RingInv, RingTypeOK
  <2>4. Committed' = n
    BY <1>0, <1>2, <2>2 DEF Committed
  <2>5. WriterInv(mCache', h, t, writer', written')
    BY <2>2 DEF WriterInv
  <2> QED BY <1>0, <1>1, <2>1, <2>3, <2>4, <2>5 DEF RingInv
<1>4. CASE ~IsFull
  <2>0. PICK v \in Seq(Nat) : v = <<writer.left, 0>>
    <3>1. writer.left \in Nat
      BY <1>2, Sizes
    <3>2. <<writer.left, 0>> \in Seq(Nat)
      BY <3>1
    <3> QED BY <3>2
  <2>1. PICK i : /\ i = t * BlockSize + 0
                 /\ writer' = [writer EXCEPT !.pc = "copy", !.at = 0]
                 /\ mCache' = Store(mCache, i, v)
    <3>1. Lesser(BlockSize, writer.left) = writer.left
      BY <1>2, Sizes DEF Lesser
    <3>2. Cell(mTail) = t * BlockSize + 0
      BY <1>1, Indices DEF RingInv
    <3> QED BY <1>4, <2>0, <3>1, <3>2 DEF GetTailBlock, Store
  <2>2. /\ mCache' \in Caches
        /\ Of(mCache', t, 0) = v
        /\ \A c \in Blk, j \in Plc : c # t \/ j # 0 => Of(mCache', c, j) = Of(mCache, c, j)
    <3>1. mCache \in Caches /\ 0 \in Plc
      BY Indices DEF RingInv, RingTypeOK
    <3> QED BY <2>1, <3>1, StoreCell
  <2>3. /\ writer' \in [pc : {"idle", "get", "copy", "commit"}, left : Nat, at : Nat]
        /\ writer'.pc = "copy" /\ writer'.at = 0 /\ writer'.left = writer.left
    BY <2>1 DEF RingInv, RingTypeOK
  <2>4. RingTypeOK'
    BY <1>0, <2>2, <2>3 DEF RingInv, RingTypeOK
  <2>5. Committed' = n
    <3>1. written \in Nat
      BY Sizes DEF RingInv, RingTypeOK
    <3> QED BY <1>0, <1>2, <2>3, <3>1 DEF Committed
  <2>6. \A b \in Blk, j \in Plc : Between(h, t, b) => Of(mCache', b, j) = Of(mCache, b, j)
    BY <2>2, Around
  <2>7. /\ ChainInv(mCache', h, t, n)
        /\ h # t => /\ InUse(mCache', h) = InUse(mCache, h) /\ Offset(mCache', h) = Offset(mCache, h)
                    /\ Prior(mCache', h) = Prior(mCache, h)
    BY <1>1, <2>6, SameChain
  <2>8. ReaderInv(mCache', h, t, reader) /\ ReadTo(mCache', h, t, reader, n) = ReadTo(mCache, h, t, reader, n)
    BY <1>1, <2>7 DEF ReaderInv, ReadTo
  <2>9. WriterInv(mCache', h, t, writer', written')
    <3>1. Nx(t) # h
      BY <1>1, <1>4, Indices DEF RingInv
    <3>2. written \in Nat /\ written - 0 + writer.left <= Total /\ 0 <= written
      BY <1>2, Sizes DEF RingInv, RingTypeOK
    <3>3. Filled(mCache', t, written - 0, 0)
      BY DEF Filled
    <3> QED BY <1>0, <1>2, <2>0, <2>2, <2>3, <3>1, <3>2, <3>3 DEF WriterInv
  <2> QED BY <1>0, <1>1, <2>4, <2>5, <2>7, <2>8, <2>9 DEF RingInv
<1> QED BY <1>3, <1>4

LEMMA CopyInKeeps == ASSUME RingInv, CopyIn PROVE RingInv'
<1>0. /\ UNCHANGED <<mHead, mTail, reader, read>> /\ writer.pc = "copy"
      /\ written' = written + 1
  BY DEF CopyIn
<1>a. PICK h, t \in Blk, n \in Nat : InvAt(h, t, n)
  BY Places
<1>1. /\ h = mHead % Blocks /\ t = mTail % Blocks /\ n = Committed /\ n <= written
      /\ ChainInv(mCache, h, t, n) /\ WriterInv(mCache, h, t, writer, written)
      /\ ReaderInv(mCache, h, t, reader)
      /\ Len(read) = ReadTo(mCache, h, t, reader, n)
  BY <1>a DEF InvAt
<1>2. PICK a \in Nat, l \in 1 .. BlockSize - 1, f \in Nat :
         /\ a = writer.at /\ l = writer.left /\ a < l /\ n = f /\ written = f + a
         /\ f + l <= Total
  <2>1. written \in Nat /\ writer.at \in Nat /\ Total \in Nat
    BY Sizes DEF RingInv, RingTypeOK
  <2>2. /\ writer.left \in 1 .. BlockSize - 1 /\ writer.at < writer.left
        /\ n = written - writer.at /\ written - writer.at + writer.left <= Total
    BY <1>0, <1>1 DEF Committed, WriterInv
  <2> QED BY <2>1, <2>2
<1>3. Nx(t) # h /\ Of(mCache, t, 0) = <<l, 0>> /\ Filled(mCache, t, f, a)
  <2>1. Filled(mCache, t, written - writer.at, writer.at) /\ written - writer.at = f
    BY <1>0, <1>1, <1>2 DEF WriterInv
  <2> QED BY <1>0, <1>1, <1>2, <2>1 DEF WriterInv
<1>4. PICK j \in Plc : j = 1 + a /\ j \in 1 .. l
  BY <1>2, Sizes DEF Plc
<1>5. PICK v \in Seq(Nat) : v = <<written + 1>>
  <2>1. <<written + 1>> \in Seq(Nat)
    BY <1>2
  <2> QED BY <2>1
<1>6. PICK i : i = t * BlockSize + j /\ mCache' = Store(mCache, i, v)
  <2>1. Cell(mTail) = t * BlockSize + 0
    BY <1>1, Indices DEF RingInv
  <2>2. PICK p \in Nat : p = t * BlockSize
    <3>1. t * BlockSize \in Nat
      BY Sizes DEF Blk
    <3> QED BY <3>1
  <2>3. p + 0 + 1 + a = p + j
    BY <1>4
  <2>4. Cell(mTail) + 1 + writer.at = t * BlockSize + j
    BY <1>2, <2>1, <2>2, <2>3
  <2> QED BY <1>0, <1>5, <2>4 DEF CopyIn, Store
<1>7. /\ mCache' \in Caches /\ Of(mCache', t, j) = v
      /\ \A c \in Blk, k \in Plc : c # t \/ k # j => Of(mCache', c, k) = Of(mCache, c, k)
  <2>1. mCache \in Caches
    BY DEF RingInv, RingTypeOK
  <2> QED BY <1>6, <2>1, StoreCell
<1>8. /\ writer' \in [pc : {"idle", "get", "copy", "commit"}, left : Nat, at : Nat]
      /\ writer'.pc = (IF a + 1 = l THEN "commit" ELSE "copy")
      /\ writer'.at = a + 1 /\ writer'.left = l
  <2>1. Lesser(BlockSize, writer.left) = l
    BY <1>2, Sizes DEF Lesser
  <2>2. writer' = [writer EXCEPT !.at = a + 1, !.pc = IF a + 1 = l THEN "commit" ELSE "copy"]
    BY <1>2, <2>1 DEF CopyIn
  <2>3. writer \in [pc : {"idle", "get", "copy", "commit"}, left : Nat, at : Nat]
    BY DEF RingInv, RingTypeOK
  <2>4. a + 1 \in Nat /\ writer.left = l
    BY <1>2
  <2> QED BY <2>2, <2>3, <2>4
<1>9. RingTypeOK'
  <2>1. written' \in 0 .. Total
    BY <1>0, <1>2, Sizes
  <2> QED BY <1>0, <1>7, <1>8, <2>1 DEF RingInv, RingTypeOK
<1>10. Committed' = n
  <2>1. written' - (a + 1) = f
    BY <1>0, <1>2
  <2> QED BY <1>2, <1>8, <2>1 DEF Committed
<1>11. \A b \in Blk, k \in Plc : Between(h, t, b) => Of(mCache', b, k) = Of(mCache, b, k)
  BY <1>7, Around
<1>12. /\ ChainInv(mCache', h, t, n)
       /\ h # t => /\ InUse(mCache', h) = InUse(mCache, h) /\ Offset(mCache', h) = Offset(mCache, h)
                   /\ Prior(mCache', h) = Prior(mCache, h)
  BY <1>1, <1>11, SameChain
<1>13. ReaderInv(mCache', h, t, reader) /\ ReadTo(mCache', h, t, reader, n) = ReadTo(mCache, h, t, reader, n)
  BY <1>1, <1>12 DEF ReaderInv, ReadTo
<1>14. Filled(mCache', t, f, a + 1)
  <2> SUFFICES ASSUME NEW k \in 1 .. a + 1 PROVE Of(mCache', t, k) = <<f + k>>
    BY DEF Filled
  <2>1. CASE k = j
    BY <1>2, <1>4, <1>5, <1>7, <2>1
  <2>2. CASE k # j
    <3>1. k \in 1 .. a /\ k \in Plc
      BY <1>2, <1>4, <2>2, Sizes DEF Plc
    <3> QED BY <1>3, <1>7, <2>2, <3>1 DEF Filled
  <2> QED BY <2>1, <2>2
<1>15. Of(mCache', t, 0) = <<l, 0>>
  BY <1>3, <1>4, <1>7, Indices DEF RingInv
<1>16. WriterInv(mCache', h, t, writer', written')
  <2>1. written' - (a + 1) = f /\ a + 1 <= written' /\ (a + 1 = l \/ a + 1 < l)
    <3>1. written' = f + (a + 1) /\ l \in Nat
      BY <1>0, <1>2, Sizes
    <3>2. a + 1 = l \/ a + 1 < l
      BY <1>2, <3>1
    <3> QED BY <3>1, <3>2
  <2>2. f + l <= Total /\ l \in 1 .. BlockSize - 1
    BY <1>2
  <2> QED BY <1>2, <1>3, <1>8, <1>14, <1>15, <2>1, <2>2 DEF WriterInv
<1> QED BY <1>0, <1>1, <1>9, <1>10, <1>12, <1>13, <1>16 DEF RingInv

LEMMA CommitTailKeeps == ASSUME RingInv, CommitTail PROVE RingInv'
<1>0. /\ UNCHANGED <<mCache, mHead, reader, written, read>> /\ writer.pc = "commit"
      /\ mTail' = (mTail + 1) % IndexMod
  BY DEF CommitTail
<1>a. PICK h, t \in Blk, n \in Nat : InvAt(h, t, n)
  BY Places
<1>1. /\ h = mHead % Blocks /\ t = mTail % Blocks /\ n = Committed /\ n <= written
      /\ ChainInv(mCache, h, t, n) /\ WriterInv(mCache, h, t, writer, written)
      /\ ReaderInv(mCache, h, t, reader)
      /\ Len(read) = ReadTo(mCache, h, t, reader, n)
  BY <1>a DEF InvAt
<1>2. PICK l \in 1 .. BlockSize - 1 :
         /\ writer.at = l /\ writer.left = l /\ written = n + l
         /\ Nx(t) # h /\ Of(mCache, t, 0) = <<l, 0>> /\ Filled(mCache, t, n, l)
  <2>1. written \in Nat /\ writer.at \in Nat
    BY Sizes DEF RingInv, RingTypeOK
  <2>2. n = written - writer.at
    BY <1>0, <1>1 DEF Committed
  <2>3. /\ writer.left \in 1 .. BlockSize - 1 /\ writer.at = writer.left
        /\ Nx(t) # h /\ Of(mCache, t, 0) = <<writer.left, 0>>
        /\ Filled(mCache, t, written - writer.at, writer.at)
    BY <1>0, <1>1 DEF WriterInv
  <2> QED BY <2>1, <2>2, <2>3
<1>3. /\ writer' \in [pc : {"idle", "get", "copy", "commit"}, left : Nat, at : Nat]
      /\ writer'.pc = "idle"
  <2>1. writer' = [writer EXCEPT !.left = l - l, !.pc = "idle"] /\ l - l \in Nat
    BY <1>2, Sizes DEF CommitTail
  <2> QED BY <2>1 DEF RingInv, RingTypeOK
<1>4. PICK t2 \in Blk : t2 = Nx(t) /\ t2 = mTail' % Blocks /\ mTail' \in 0 .. IndexMod - 1
  BY <1>0, <1>1, Indices, Around DEF RingInv
<1>5. RingTypeOK'
  BY <1>0, <1>3, <1>4 DEF RingInv, RingTypeOK
<1>6. Committed' = written
  BY <1>0, <1>3 DEF Committed
<1>7. /\ ChainInv(mCache, h, t2, written)
      /\ h = t => Prior(mCache, h) = n /\ Offset(mCache, h) = 0
  <2>1. /\ ChainInv(mCache, h, Nx(t), n + l)
        /\ h = t => Prior(mCache, h) = n /\ Offset(mCache, h) = 0
    BY <1>1, <1>2, GrowChain
  <2> QED BY <1>2, <1>4, <2>1
<1>8. ReaderInv(mCache, h, t2, reader)
  BY <1>1, <1>2, <1>4 DEF ReaderInv
<1>9. ReadTo(mCache, h, t2, reader, written) = ReadTo(mCache, h, t, reader, n)
  <2>1. CASE h = t
    BY <1>1, <1>2, <1>4, <1>7, <2>1 DEF ReaderInv, ReadTo
  <2>2. CASE h # t
    BY <1>2, <1>4, <2>2 DEF ReadTo
  <2> QED BY <2>1, <2>2
<1>10. WriterInv(mCache, h, t2, writer', written)
  BY <1>3 DEF WriterInv
<1> QED BY <1>0, <1>1, <1>4, <1>5, <1>6, <1>7, <1>8, <1>9, <1>10 DEF RingInv

LEMMA ReadKeeps == ASSUME RingInv, NEW k \in Reads, Read(k) PROVE RingInv'
<1>0. /\ UNCHANGED <<mCache, mHead, mTail, writer, written, read>>
      /\ reader.pc = "idle"
      /\ reader' = [pc |-> "get", room |-> k, step |-> 0, at |-> 0]
  BY DEF Read
<1>a. PICK h, t \in Blk, n \in Nat : InvAt(h, t, n)
  BY Places
<1>1. /\ h = mHead % Blocks /\ t = mTail % Blocks /\ n = Committed /\ n <= written
      /\ ChainInv(mCache, h, t, n) /\ WriterInv(mCache, h, t, writer, written)
      /\ ReaderInv(mCache, h, t, reader)
      /\ Len(read) = ReadTo(mCache, h, t, reader, n)
  BY <1>a DEF InvAt
<1>2. k \in Nat \ {0}
  BY RingConstants
<1>3. RingTypeOK'
  BY <1>0, <1>2 DEF RingInv, RingTypeOK
<1>4. ReaderInv(mCache, h, t, reader') /\ ReadTo(mCache, h, t, reader', n) = ReadTo(mCache, h, t, reader, n)
  BY <1>0, <1>2 DEF ReaderInv, ReadTo
<1>5. Committed' = Committed
  BY <1>0 DEF Committed
<1> QED BY <1>0, <1>1, <1>3, <1>4, <1>5 DEF RingInv

\* What the chain says of the first block.
LEMMA FirstBlock ==
    ASSUME NEW m, NEW h \in Blk, NEW t \in Blk, NEW n \in Nat, ChainInv(m, h, t, n), h # t
    PROVE  \E u \in 1 .. BlockSize - 1, o \in Nat, f \in Nat :
              /\ u = InUse(m, h) /\ o = Offset(m, h) /\ f = Prior(m, h)
              /\ o < u /\ f + u <= n /\ Filled(m, h, f, u)
<1>1. Between(h, t, h)
  BY Around
<1>2. BlockInv(m, h) /\ Prior(m, h) + InUse(m, h) <= n
  BY <1>1 DEF ChainInv
<1>3. InUse(m, h) \in 1 .. BlockSize - 1 /\ Offset(m, h) \in 0 .. InUse(m, h) - 1
  BY <1>2 DEF BlockInv
<1>4. Offset(m, h) \in Nat /\ Offset(m, h) < InUse(m, h)
  BY <1>3, Sizes
<1> QED BY <1>2, <1>3, <1>4 DEF BlockInv

LEMMA GetHeadKeeps == ASSUME RingInv, GetHeadBlock PROVE RingInv'
<1>0. /\ UNCHANGED <<mCache, mHead, mTail, writer, written, read>> /\ reader.pc = "get"
  BY DEF GetHeadBlock
<1>a. PICK h, t \in Blk, n \in Nat : InvAt(h, t, n)
  BY Places
<1>1. /\ h = mHead % Blocks /\ t = mTail % Blocks /\ n = Committed /\ n <= written
      /\ ChainInv(mCache, h, t, n) /\ WriterInv(mCache, h, t, writer, written)
      /\ ReaderInv(mCache, h, t, reader)
      /\ Len(read) = ReadTo(mCache, h, t, reader, n)
  BY <1>a DEF InvAt
<1>2. Committed' = Committed
  BY <1>0 DEF Committed
<1>3. ASSUME /\ reader' \in [pc : {"idle", "get", "copy", "offset"}, room : Nat, step : Nat, at : Nat]
             /\ ReaderInv(mCache, h, t, reader')
             /\ ReadTo(mCache, h, t, reader', n) = ReadTo(mCache, h, t, reader, n)
      PROVE  RingInv'
  <2>1. RingTypeOK'
    BY <1>0, <1>3 DEF RingInv, RingTypeOK
  <2> QED BY <1>0, <1>1, <1>2, <1>3, <2>1 DEF RingInv
<1>4. CASE IsEmpty
  <2>1. reader' = [reader EXCEPT !.pc = "idle"]
    BY <1>4 DEF GetHeadBlock
  <2>2. reader' \in [pc : {"idle", "get", "copy", "offset"}, room : Nat, step : Nat, at : Nat]
        /\ reader'.pc = "idle"
    BY <2>1 DEF RingInv, RingTypeOK
  <2>3. ReaderInv(mCache, h, t, reader') /\ ReadTo(mCache, h, t, reader', n) = ReadTo(mCache, h, t, reader, n)
    BY <1>0, <2>2 DEF ReaderInv, ReadTo
  <2> QED BY <1>3, <2>2, <2>3
<1>5. CASE ~IsEmpty
  <2>1. h # t /\ Block(mHead) = Of(mCache, h, 0)
    BY <1>1, <1>5, Indices DEF RingInv
  <2>2. PICK u \in 1 .. BlockSize - 1, o \in Nat, f \in Nat :
           /\ u = InUse(mCache, h) /\ o = Offset(mCache, h) /\ f = Prior(mCache, h)
           /\ o < u /\ f + u <= n /\ Filled(mCache, h, f, u)
    BY <1>1, <2>1, FirstBlock
  <2>3. PICK r \in Nat : r = reader.room /\ r > 0
    BY <1>0, <1>1 DEF ReaderInv, RingInv, RingTypeOK
  <2>4. PICK k \in Nat : k = Lesser(u - o, r)
    BY <2>2, <2>3, Sizes DEF Lesser
  <2>5. k \in 1 .. r /\ o + k <= u
    BY <2>2, <2>3, <2>4, Sizes DEF Lesser
  <2>6. reader' = [reader EXCEPT !.pc = "copy", !.at = 0, !.step = k]
    <3>1. Block(mHead)[1] = u /\ Block(mHead)[2] = o
      BY <2>1, <2>2 DEF InUse, Offset
    <3> QED BY <1>5, <2>3, <2>4, <3>1 DEF GetHeadBlock
  <2>7. /\ reader' \in [pc : {"idle", "get", "copy", "offset"}, room : Nat, step : Nat, at : Nat]
        /\ reader'.pc = "copy" /\ reader'.at = 0 /\ reader'.step = k /\ reader'.room = r
    BY <2>3, <2>6 DEF RingInv, RingTypeOK
  <2>8. ReaderInv(mCache, h, t, reader')
    BY <2>1, <2>2, <2>5, <2>7 DEF ReaderInv
  <2>9. ReadTo(mCache, h, t, reader', n) = ReadTo(mCache, h, t, reader, n)
    BY <1>0, <2>7 DEF ReadTo
  <2> QED BY <1>3, <2>7, <2>8, <2>9
<1> QED BY <1>4, <1>5

\* What is copied out is the unit after those read before.
LEMMA NextUnit ==
    ASSUME RingInv, CopyOut
    PROVE  /\ read' = Append(read, <<Len(read) + 1>>) /\ Len(read) < written
           /\ Len(read) \in Nat
<1>0. reader.pc = "copy"
  BY DEF CopyOut
<1>a. PICK h, t \in Blk, n \in Nat : InvAt(h, t, n)
  BY Places
<1>1. /\ h = mHead % Blocks /\ t = mTail % Blocks /\ n = Committed /\ n <= written
      /\ ChainInv(mCache, h, t, n) /\ WriterInv(mCache, h, t, writer, written)
      /\ ReaderInv(mCache, h, t, reader)
      /\ Len(read) = ReadTo(mCache, h, t, reader, n)
  BY <1>a DEF InvAt
<1>2. h # t /\ Offset(mCache, h) + reader.step <= InUse(mCache, h) /\ reader.at < reader.step
  BY <1>0, <1>1 DEF ReaderInv
<1>3. PICK u \in 1 .. BlockSize - 1, o \in Nat, f \in Nat :
         /\ u = InUse(mCache, h) /\ o = Offset(mCache, h) /\ f = Prior(mCache, h)
         /\ o < u /\ f + u <= n /\ Filled(mCache, h, f, u)
  BY <1>1, <1>2, FirstBlock
<1>4. PICK a \in Nat, k \in Nat : a = reader.at /\ k = reader.step /\ a < k /\ o + k <= u
  BY <1>2, <1>3 DEF RingInv, RingTypeOK
<1>5. Len(read) = f + o + a
  BY <1>0, <1>1, <1>2, <1>3, <1>4 DEF ReadTo
<1>6. PICK j \in 1 .. u : j = 1 + o + a
  BY <1>3, <1>4, Sizes
<1>7. Of(mCache, h, j) = <<f + j>>
  BY <1>3, <1>6 DEF Filled
<1>8. Cell(mHead) + 1 + Block(mHead)[2] + reader.at = h * BlockSize + j
  <2>1. Block(mHead)[2] = o /\ Cell(mHead) = h * BlockSize + 0
    BY <1>1, <1>3, Indices DEF RingInv, Offset
  <2>2. PICK p \in Nat : p = h * BlockSize
    <3>1. h * BlockSize \in Nat
      BY Sizes DEF Blk
    <3> QED BY <3>1
  <2>3. p + 0 + 1 + o + a = p + j
    BY <1>6
  <2> QED BY <1>4, <2>1, <2>2, <2>3
<1>9. f + j = Len(read) + 1 /\ Len(read) \in Nat /\ Len(read) < written
  <2>1. written \in Nat /\ n <= written
    BY <1>1, Sizes DEF RingInv, RingTypeOK
  <2>2. u \in Nat
    BY <1>3, Sizes
  <2>3. PICK l \in Nat : l = f + o + a
    OBVIOUS
  <2>4. f + j = l + 1
    BY <1>6, <2>3
  <2>5. l < f + u
    BY <1>4, <2>2, <2>3
  <2>6. f + u <= written
    BY <1>3, <2>1, <2>2
  <2>7. l < written
    BY <2>1, <2>2, <2>5, <2>6
  <2> QED BY <1>5, <2>3, <2>4, <2>7
<1>10. mCache[Cell(mHead) + 1 + Block(mHead)[2] + reader.at] = <<Len(read) + 1>>
  BY <1>7, <1>8, <1>9 DEF Of
<1> QED BY <1>9, <1>10 DEF CopyOut

LEMMA CopyOutKeeps == ASSUME RingInv, CopyOut PROVE RingInv'
<1>0. /\ UNCHANGED <<mCache, mHead, mTail, writer, written>> /\ reader.pc = "copy"
  BY DEF CopyOut
<1>a. PICK h, t \in Blk, n \in Nat : InvAt(h, t, n)
  BY Places
<1>1. /\ h = mHead % Blocks /\ t = mTail % Blocks /\ n = Committed /\ n <= written
      /\ ChainInv(mCache, h, t, n) /\ WriterInv(mCache, h, t, writer, written)
      /\ ReaderInv(mCache, h, t, reader)
      /\ Len(read) = ReadTo(mCache, h, t, reader, n)
  BY <1>a DEF InvAt
<1>2. PICK a \in Nat, k \in Nat : a = reader.at /\ k = reader.step /\ a < k
  BY <1>0, <1>1 DEF ReaderInv, RingInv, RingTypeOK
<1>3. PICK l \in Nat : /\ l = Len(read) /\ read' = Append(read, <<l + 1>>)
  BY NextUnit
<1>4. read' \in Seq(Seq(Nat)) /\ Len(read') = l + 1 /\ \A i \in 1 .. l + 1 : read'[i] = <<i>>
  <2>1. <<l + 1>> \in Seq(Nat) /\ read \in Seq(Seq(Nat))
    BY DEF RingInv, RingTypeOK
  <2>2. \A i \in 1 .. l : read[i] = <<i>>
    BY <1>3 DEF RingInv
  <2>3. PICK v \in Seq(Nat) : v = <<l + 1>>
    BY <2>1
  <2>4. /\ read' \in Seq(Seq(Nat)) /\ Len(read') = l + 1 /\ read'[l + 1] = v
        /\ \A i \in 1 .. l : read'[i] = read[i]
    BY <1>3, <2>1, <2>3
  <2>5. \A i \in 1 .. l + 1 : i \in 1 .. l \/ i = l + 1
    OBVIOUS
  <2> QED BY <2>2, <2>3, <2>4, <2>5
<1>5. /\ reader' \in [pc : {"idle", "get", "copy", "offset"}, room : Nat, step : Nat, at : Nat]
      /\ reader'.pc = (IF a + 1 = k THEN "offset" ELSE "copy")
      /\ reader'.at = a + 1 /\ reader'.step = k /\ reader'.room = reader.room
  <2>1. reader' = [reader EXCEPT !.at = a + 1, !.pc = IF a + 1 = k THEN "offset" ELSE "copy"]
    BY <1>2 DEF CopyOut
  <2>2. reader \in [pc : {"idle", "get", "copy", "offset"}, room : Nat, step : Nat, at : Nat]
    BY DEF RingInv, RingTypeOK
  <2>3. a + 1 \in Nat
    OBVIOUS
  <2> QED BY <1>2, <2>1, <2>2, <2>3
<1>6. RingTypeOK'
  BY <1>0, <1>4, <1>5 DEF RingInv, RingTypeOK
<1>7. Committed' = Committed
  BY <1>0 DEF Committed
<1>8. ReaderInv(mCache, h, t, reader')
  <2>1. /\ h # t /\ Offset(mCache, h) + k <= InUse(mCache, h) /\ k \in 1 .. reader.room
    BY <1>0, <1>1, <1>2 DEF ReaderInv
  <2>2. a + 1 = k \/ a + 1 < k
    BY <1>2
  <2> QED BY <1>5, <2>1, <2>2 DEF ReaderInv
<1>9. ReadTo(mCache, h, t, reader', n) = Len(read')
  <2>1. h # t
    BY <1>0, <1>1 DEF ReaderInv
  <2>2. PICK u \in 1 .. BlockSize - 1, o \in Nat, f \in Nat :
           /\ u = InUse(mCache, h) /\ o = Offset(mCache, h) /\ f = Prior(mCache, h)
           /\ o < u /\ f + u <= n /\ Filled(mCache, h, f, u)
    BY <1>1, <2>1, FirstBlock
  <2>3. l = f + o + a
    BY <1>0, <1>1, <1>2, <1>3, <2>1, <2>2 DEF ReadTo
  <2>4. ReadTo(mCache, h, t, reader', n) = f + o + (a + 1)
    BY <1>5, <2>1, <2>2 DEF ReadTo
  <2> QED BY <1>4, <2>3, <2>4
<1> QED BY <1>0, <1>1, <1>4, <1>6, <1>7, <1>8, <1>9, <1>3 DEF RingInv

LEMMA MoveOffsetKeeps == ASSUME RingInv, MoveOffset PROVE RingInv'
<1>0. /\ UNCHANGED <<mTail, writer, written, read>> /\ reader.pc = "offset"
  BY DEF MoveOffset
<1>a. PICK h, t \in Blk, n \in Nat : InvAt(h, t, n)
  BY Places
<1>1. /\ h = mHead % Blocks /\ t = mTail % Blocks /\ n = Committed /\ n <= written
      /\ ChainInv(mCache, h, t, n) /\ WriterInv(mCache, h, t, writer, written)
      /\ ReaderInv(mCache, h, t, reader)
      /\ Len(read) = ReadTo(mCache, h, t, reader, n)
  BY <1>a DEF InvAt
<1>2. /\ h # t /\ Offset(mCache, h) + reader.step <= InUse(mCache, h)
      /\ reader.step \in 1 .. reader.room /\ reader.at = reader.step
  BY <1>0, <1>1 DEF ReaderInv
<1>3. PICK u \in 1 .. BlockSize - 1, o \in Nat, f \in Nat :
         /\ u = InUse(mCache, h) /\ o = Offset(mCache, h) /\ f = Prior(mCache, h)
         /\ o < u /\ f + u <= n /\ Filled(mCache, h, f, u)
  BY <1>1, <1>2, FirstBlock
<1>4. PICK k \in Nat, r \in Nat :
         /\ k = reader.step /\ k = reader.at /\ r = reader.room - k /\ o + k <= u
         /\ u \in Nat
  <2>1. /\ reader.step \in Nat /\ reader.at \in Nat /\ reader.room \in Nat
    BY DEF RingInv, RingTypeOK
  <2>2. u \in Nat
    BY Sizes
  <2> QED BY <1>2, <1>3, <2>1, <2>2
<1>5. Len(read) = f + o + k
  BY <1>0, <1>1, <1>2, <1>3, <1>4 DEF ReadTo
<1>6. /\ reader' \in [pc : {"idle", "get", "copy", "offset"}, room : Nat, step : Nat, at : Nat]
      /\ reader'.pc \in {"idle", "get"} /\ (reader'.pc = "get" => reader'.room > 0)
  <2>1. reader' = [reader EXCEPT !.room = r, !.pc = IF r = 0 THEN "idle" ELSE "get"]
    <3>1. reader.room \in Nat /\ reader.room - reader.step = r
      BY <1>4 DEF RingInv, RingTypeOK
    <3>2. reader.room = reader.step <=> r = 0
      BY <1>4, <3>1
    <3> QED BY <3>1, <3>2 DEF MoveOffset
  <2>2. reader \in [pc : {"idle", "get", "copy", "offset"}, room : Nat, step : Nat, at : Nat]
    BY DEF RingInv, RingTypeOK
  <2>3. CASE r = 0
    BY <2>1, <2>2, <2>3
  <2>4. CASE r > 0
    BY <2>1, <2>2, <2>4
  <2> QED BY <2>3, <2>4
<1>b. PICK v \in Seq(Nat) : v = <<u, o + k>>
  <2>1. <<u, o + k>> \in Seq(Nat)
    BY <1>4
  <2> QED BY <2>1
<1>7. PICK i : i = h * BlockSize + 0 /\ mCache' = Store(mCache, i, v)
  <2>1. mCache[Cell(mHead)][1] = u /\ mCache[Cell(mHead)][2] = o /\ Cell(mHead) = h * BlockSize + 0
    BY <1>1, <1>3, Indices DEF RingInv, InUse, Offset, Of, Block
  <2>3. mCache' = [mCache EXCEPT ![Cell(mHead)] = <<u, o + k>>]
    <3>1. mCache' = [mCache EXCEPT ![Cell(mHead)]
                       = <<mCache[Cell(mHead)][1], mCache[Cell(mHead)][2] + reader.step>>]
      BY DEF MoveOffset
    <3> QED BY <1>4, <2>1, <3>1
  <2> QED BY <1>b, <2>1, <2>3 DEF Store
<1>8. /\ mCache' \in Caches /\ Of(mCache', h, 0) = v
      /\ \A c \in Blk, j \in Plc : c # h \/ j # 0 => Of(mCache', c, j) = Of(mCache, c, j)
  <2>1. mCache \in Caches /\ 0 \in Plc
    BY Indices DEF RingInv, RingTypeOK
  <2> QED BY <1>7, <2>1, StoreCell
<1>9. Committed' = Committed
  BY <1>0 DEF Committed
<1>10. \A j \in Plc : Of(mCache', t, j) = Of(mCache, t, j)
  BY <1>2, <1>8
<1>11. PICK h2 \in Blk :
          /\ h2 = mHead' % Blocks /\ mHead' \in 0 .. IndexMod - 1
          /\ h2 = (IF o + k = u THEN Nx(h) ELSE h)
  <2>1. mHead' = IF o + k = u THEN (mHead + 1) % IndexMod ELSE mHead
    <3>1. Block(mHead)[1] = u /\ Block(mHead)[2] = o
      BY <1>1, <1>3, Indices DEF RingInv, InUse, Offset
    <3> QED BY <1>4, <3>1 DEF MoveOffset
  <2>2. CASE o + k = u
    <3>1. mHead' % Blocks = Nx(h) /\ mHead' \in 0 .. IndexMod - 1
      BY <1>1, <2>1, <2>2, Indices DEF RingInv
    <3> QED BY <2>2, <3>1, Around
  <2>3. CASE o + k # u
    <3>1. mHead' % Blocks = h /\ mHead' \in 0 .. IndexMod - 1
      BY <1>1, <2>1, <2>3 DEF RingInv, RingTypeOK
    <3> QED BY <2>3, <3>1
  <2> QED BY <2>2, <2>3
<1>12. RingTypeOK'
  BY <1>0, <1>6, <1>8, <1>11 DEF RingInv, RingTypeOK
<1>13. WriterInv(mCache', h2, t, writer, written)
  <2>1. Nx(t) # h => Nx(t) # h2
    BY <1>2, <1>11, Around
  <2>2. writer.at \in Nat
    BY DEF RingInv, RingTypeOK
  <2> QED BY <1>1, <1>10, <2>1, <2>2, SameWriter
<1>14. ReaderInv(mCache', h2, t, reader')
  BY <1>6 DEF ReaderInv
<1>15. ChainInv(mCache', h2, t, n) /\ ReadTo(mCache', h2, t, reader', n) = Len(read)
  <2>1. CASE o + k # u
    <3>1. o + k \in Nat /\ o + k < u
      BY <1>4, <2>1
    <3>2. /\ ChainInv(mCache', h, t, n) /\ Offset(mCache', h) = o + k
          /\ Prior(mCache', h) = f
      <4>1. PICK x \in Nat : x = o + k /\ x < InUse(mCache, h)
        BY <1>3, <3>1
      <4>2. InUse(mCache', h) = InUse(mCache, h) /\ Offset(mCache', h) = x
        BY <1>3, <1>b, <1>8, <4>1 DEF InUse, Offset
      <4>3. ChainInv(mCache', h, t, n) /\ Prior(mCache', h) = Prior(mCache, h)
        BY <1>1, <1>2, <1>8, <4>1, <4>2, ReadPart
      <4> QED BY <1>3, <4>1, <4>2, <4>3
    <3>3. ReadTo(mCache', h, t, reader', n) = f + (o + k) + 0
      BY <1>2, <1>6, <3>2 DEF ReadTo
    <3> QED BY <1>5, <1>11, <2>1, <3>2, <3>3
  <2>2. CASE o + k = u
    <3>0. h2 = Nx(h)
      BY <1>11, <2>2
    <3>1. /\ ChainInv(mCache, h2, t, n)
          /\ IF h2 = t THEN f + u = n
             ELSE Prior(mCache, h2) = f + u /\ Offset(mCache, h2) = 0
      BY <1>1, <1>2, <1>3, <3>0, ShrinkChain
    <3>2. \A b \in Blk, j \in Plc : Between(h2, t, b) => Of(mCache', b, j) = Of(mCache, b, j)
      BY <1>2, <1>8, <3>0, Around
    <3>3. /\ ChainInv(mCache', h2, t, n)
          /\ h2 # t => /\ Offset(mCache', h2) = Offset(mCache, h2)
                       /\ Prior(mCache', h2) = Prior(mCache, h2)
      BY <3>1, <3>2, SameChain
    <3>4. ReadTo(mCache', h2, t, reader', n) = f + u
      BY <1>4, <1>6, <3>1, <3>3 DEF ReadTo
    <3>5. f + u = Len(read)
      <4>1. f + u = f + o + k
        BY <2>2
      <4> QED BY <1>5, <4>1
    <3> QED BY <3>3, <3>4, <3>5
  <2> QED BY <2>1, <2>2
<1> QED BY <1>0, <1>1, <1>9, <1>11, <1>12, <1>13, <1>14, <1>15 DEF RingInv

-----------------------------------------------------------------------------
LEMMA RingStarts == RingInit => RingInv
<1> SUFFICES ASSUME RingInit PROVE RingInv
  OBVIOUS
<1>1. mHead % Blocks = 0 /\ mTail % Blocks = 0 /\ mHead = 0 /\ mTail = 0
  BY Sizes DEF RingInit
<1>2. RingTypeOK
  <2>1. <<0, 0>> \in Seq(Nat)
    OBVIOUS
  <2>2. mCache \in Caches
    BY <2>1 DEF RingInit, Caches
  <2> QED BY <1>1, <2>2, Sizes DEF RingInit, RingTypeOK
<1>3. Committed = 0 /\ Len(read) = 0
  BY DEF RingInit, Committed
<1>4. \A b \in Blk : ~Between(0, 0, b)
  BY DEF Between, Blk
<1>5. ChainInv(mCache, 0, 0, 0)
  BY <1>4 DEF ChainInv
<1>6. /\ WriterInv(mCache, 0, 0, writer, written) /\ ReaderInv(mCache, 0, 0, reader)
      /\ ReadTo(mCache, 0, 0, reader, 0) = 0
  BY DEF RingInit, WriterInv, ReaderInv, ReadTo
<1> QED BY <1>1, <1>2, <1>3, <1>5, <1>6 DEF RingInv

LEMMA RingInductive == ASSUME ShortWrites, RingInv, [RingNext]_ringVars PROVE RingInv'
<1>1. CASE UNCHANGED ringVars
  BY <1>1 DEF ringVars, RingInv, RingTypeOK, Committed
<1>2. CASE WriterStep
  BY <1>2, WriteKeeps, GetTailKeeps, CopyInKeeps, CommitTailKeeps DEF WriterStep
<1>3. CASE ReaderStep
  BY <1>3, ReadKeeps, GetHeadKeeps, CopyOutKeeps, MoveOffsetKeeps DEF ReaderStep
<1> QED BY <1>1, <1>2, <1>3 DEF RingNext

THEOREM RingInvariance == ASSUME ShortWrites PROVE RingSpec => []RingInv
<1>1. RingInit => RingInv
  BY RingStarts
<1>2. RingInv /\ [RingNext]_ringVars => RingInv'
  BY RingInductive
<1> QED BY <1>1, <1>2, PTL DEF RingSpec

-----------------------------------------------------------------------------
(* The abstract stream.                                                    *)

PutSoFar(n) == [i \in 1 .. n |-> <<i>>]

LEMMA PutSoFarNext ==
    ASSUME NEW n \in Nat
    PROVE  PutSoFar(n) \in Seq(Seq(Nat)) /\ Len(PutSoFar(n)) = n /\ PutSoFar(n + 1) = Append(PutSoFar(n), <<n + 1>>)
BY DEF PutSoFar

\* A step of the ring puts the next unit, gets the next one, or is none of
\* the stream.
LEMMA StreamStep ==
    ASSUME RingInv, [RingNext]_ringVars
    PROVE  [Stream!Next]_<<PutSoFar(written), read>>
<1>0. written \in Nat /\ Total \in Nat
  BY Sizes DEF RingInv, RingTypeOK
<1>1. ASSUME UNCHANGED <<written, read>> PROVE [Stream!Next]_<<PutSoFar(written), read>>
  BY <1>1
<1>2. CASE CopyIn
  <2>1. written' = written + 1 /\ read' = read
    BY <1>2 DEF CopyIn
  <2>2. written + 1 \in 1 .. Total
    <3>1. written' \in 0 .. Total
      BY <1>2, CopyInKeeps DEF RingInv, RingTypeOK
    <3> QED BY <1>0, <2>1, <3>1
  <2>3. PutSoFar(written)' = Append(PutSoFar(written), <<written + 1>>)
    BY <1>0, <2>1, PutSoFarNext
  <2>4. PICK x \in {<<n>> : n \in 1 .. Total} : x = <<written + 1>>
    BY <2>2
  <2>5. PutSoFar(written)' = Append(PutSoFar(written), x) /\ read' = read
    BY <2>1, <2>3, <2>4
  <2>6. Stream!Put(x)
    BY <2>5 DEF Stream!Put, PutSoFar
  <2> QED BY <2>6 DEF Stream!Next
<1>3. CASE CopyOut
  <2>1. read' = Append(read, <<Len(read) + 1>>) /\ Len(read) < written /\ Len(read) \in Nat
    BY <1>3, NextUnit
  <2>2. written' = written
    BY <1>3 DEF CopyOut
  <2>3. Len(PutSoFar(written)) = written /\ PutSoFar(written)[Len(read) + 1] = <<Len(read) + 1>>
    BY <1>0, <2>1, PutSoFarNext DEF PutSoFar
  <2>4. PutSoFar(written)' = PutSoFar(written)
    BY <2>2 DEF PutSoFar
  <2>5. Stream!Get
    BY <2>1, <2>2, <2>3, <2>4 DEF Stream!Get, PutSoFar
  <2> QED BY <2>5 DEF Stream!Next
<1>4. ASSUME WriterStep, ~CopyIn PROVE UNCHANGED <<written, read>>
  BY <1>4 DEF WriterStep, Write, GetTailBlock, CommitTail
<1>5. ASSUME ReaderStep, ~CopyOut PROVE UNCHANGED <<written, read>>
  BY <1>5 DEF ReaderStep, Read, GetHeadBlock, MoveOffset
<1>6. CASE UNCHANGED ringVars
  BY <1>1, <1>6 DEF ringVars
<1> QED BY <1>1, <1>2, <1>3, <1>4, <1>5, <1>6 DEF RingNext

\* What one thread writes is what the other reads, in order, each unit once,
\* in a ring of any size, for reads of any sizes and writes of any sizes that
\* leave a cell of the block free.
THEOREM StreamCorrect == ASSUME ShortWrites PROVE RingSpec => StreamKept
<1>1. RingInit => Stream!Init
  BY DEF RingInit, Stream!Init
<1>2. RingInv /\ [RingNext]_ringVars => [Stream!Next]_<<PutSoFar(written), read>>
  BY StreamStep
<1>3. [RingNext]_ringVars /\ RingInv => [Stream!Next]_<<[n \in 1 .. written |-> <<n>>], read>>
  BY <1>2 DEF PutSoFar
<1> QED BY <1>1, <1>3, RingInvariance, PTL DEF RingSpec, StreamKept, Stream!Spec

-----------------------------------------------------------------------------
(* The proxy, for every number of connections, of requests of the acceptor *)
(* and of parts that are sent: a TcpProxy is deleted only when nothing of  *)
(* it is in flight, and the hub is dropped once for each.                  *)

HalfRecord == [tcp : {"none", "connecting", "open", "closing", "closed"},
               read : BOOLEAN, writes : Nat, sent : Nat]
PairRecord == [life : {"none", "bound", "gone"}, conn : BOOLEAN,
               front : HalfRecord, back : HalfRecord]
AcceptorRecord == [tcp : {"open", "closing", "closed"},
                   req : [Request -> {"fly", "kept", "deleted"}]]

ProxyTypeOK ==
    /\ acceptor \in AcceptorRecord
    /\ pair \in [Link -> PairRecord]
    /\ hub \in Nat

Over(p, h) == p[h].tcp \in {"closed", "none"}

\* What a pair always is.  A half that was never opened, or has had its close
\* callback, has nothing in flight: the loop hands everything back before it
\* closes a handle, and the halves look at each other before they post.
PairOK(p) ==
    /\ \A h \in Half : Over(p, h) => Idle(p, h)
    /\ p.life = "none" => p.front.tcp = "none" /\ p.back.tcp = "none"
    /\ p.life = "gone" => Over(p, "front") /\ Over(p, "back")

Bound == {l \in Link : pair[l].life = "bound"}
HubCounted == hub = Cardinality(Bound) + IF acceptor.tcp = "closed" THEN 0 ELSE 1

PInv == ProxyTypeOK /\ (\A l \in Link : PairOK(pair[l])) /\ HubCounted

\* The pair of a connection that TcpProxy::onLink has just taken.
LEMMA LinkedPair ==
    ASSUME NEW p \in PairRecord
    PROVE  LET q == [p EXCEPT !.life = "bound", !.conn = TRUE,
                              !.front.tcp = "open", !.back.tcp = "connecting"] IN
           /\ q \in PairRecord /\ q.life = "bound"
           /\ q.front.tcp = "open" /\ q.back.tcp = "connecting"
  BY DEF PairRecord, HalfRecord

\* closeHandle() of a half: it is closing then, or what it was.
LEMMA CloseHalfKeeps ==
    ASSUME NEW p \in PairRecord, PairOK(p), NEW h \in Half
    PROVE  /\ CloseHalf(p, h) \in PairRecord /\ PairOK(CloseHalf(p, h))
           /\ CloseHalf(p, h).life = p.life /\ CloseHalf(p, h).conn = p.conn
           /\ \A g \in Half : /\ CloseHalf(p, h)[g].read = p[g].read
                              /\ CloseHalf(p, h)[g].writes = p[g].writes
                              /\ Over(CloseHalf(p, h), g) <=> Over(p, g)
  BY DEF CloseHalf, Live, PairRecord, HalfRecord, PairOK, Over, Idle, Half

\* The same of both halves.
LEMMA CloseBothKeeps ==
    ASSUME NEW p \in PairRecord, PairOK(p)
    PROVE  /\ CloseBoth(p) \in PairRecord /\ PairOK(CloseBoth(p))
           /\ CloseBoth(p).life = p.life
<1> DEFINE q == CloseHalf(p, "front")
<1>1. "front" \in Half /\ "back" \in Half
  BY DEF Half
<1>2. q \in PairRecord /\ PairOK(q) /\ q.life = p.life
  BY <1>1, CloseHalfKeeps
<1> HIDE DEF q
<1>3. CloseHalf(q, "back") \in PairRecord /\ PairOK(CloseHalf(q, "back"))
        /\ CloseHalf(q, "back").life = q.life
  BY <1>1, <1>2, CloseHalfKeeps
<1> QED BY <1>2, <1>3 DEF CloseBoth, q

\* A step that changes one pair, and not whether it is bound.
LEMMA OnePairKept ==
    ASSUME PInv, NEW l \in Link, NEW p \in PairRecord, PairOK(p),
           p.life = "bound" <=> pair[l].life = "bound",
           Put(l, p), hub' = hub,
           acceptor' \in AcceptorRecord,
           acceptor'.tcp = "closed" <=> acceptor.tcp = "closed"
    PROVE  PInv'
<1>1. pair' \in [Link -> PairRecord] /\ \A k \in Link : PairOK(pair'[k])
  BY DEF PInv, ProxyTypeOK, Put
<1>2. Bound' = Bound
  BY DEF PInv, ProxyTypeOK, Put, Bound
<1> QED BY <1>1, <1>2 DEF PInv, ProxyTypeOK, HubCounted

\* The hub's references are counted.
LEMMA BoundFinite == IsFiniteSet(Bound) /\ Cardinality(Bound) \in Nat
  BY ProxyConstants, FS_Subset, FS_CardinalityType DEF ProxyConstants, Bound

\* The object is created: it holds the hub.
LEMMA BindKeeps ==
    ASSUME PInv, NEW l \in Link, NEW p \in PairRecord, PairOK(p),
           p.life = "bound", pair[l].life # "bound",
           Put(l, p), hub' = hub + 1,
           acceptor' \in AcceptorRecord,
           acceptor'.tcp = "closed" <=> acceptor.tcp = "closed"
    PROVE  PInv'
<1>1. pair' \in [Link -> PairRecord] /\ \A k \in Link : PairOK(pair'[k])
  BY DEF PInv, ProxyTypeOK, Put
<1>2. Bound' = Bound \cup {l} /\ l \notin Bound
  BY DEF PInv, ProxyTypeOK, Put, Bound
<1>3. Cardinality(Bound') = Cardinality(Bound) + 1
  BY <1>2, BoundFinite, FS_AddElement
<1> QED BY <1>1, <1>3, BoundFinite DEF PInv, ProxyTypeOK, HubCounted

\* It is deleted: it drops the hub.
LEMMA FreeKeeps ==
    ASSUME PInv, NEW l \in Link, NEW p \in PairRecord, PairOK(p),
           p.life # "bound", pair[l].life = "bound",
           Put(l, p), hub' = hub - 1, acceptor' = acceptor
    PROVE  PInv'
<1>1. pair' \in [Link -> PairRecord] /\ \A k \in Link : PairOK(pair'[k])
  BY DEF PInv, ProxyTypeOK, Put
<1>2. Bound' = Bound \ {l} /\ l \in Bound
  BY DEF PInv, ProxyTypeOK, Put, Bound
<1>3. Cardinality(Bound') = Cardinality(Bound) - 1 /\ Cardinality(Bound) # 0
  BY <1>2, BoundFinite, FS_RemoveElement, FS_EmptySet
<1>4. hub' \in Nat
  BY <1>3, BoundFinite DEF PInv, ProxyTypeOK, HubCounted
<1> QED BY <1>1, <1>3, <1>4, BoundFinite DEF PInv, ProxyTypeOK, HubCounted

\* Acceptor::open() and no connection yet.
LEMMA PInit == ProxyInit => PInv
<1> SUFFICES ASSUME ProxyInit PROVE PInv
  OBVIOUS
<1>1. ProxyTypeOK
  BY DEF ProxyInit, ProxyTypeOK, AcceptorRecord, PairRecord, HalfRecord, NewHalf
<1>2. \A l \in Link : PairOK(pair[l])
  BY DEF ProxyInit, PairOK, Over, Idle, Half, NewHalf
<1>3. Bound = {}
  BY DEF ProxyInit, Bound
<1>4. HubCounted
  BY <1>3, FS_EmptySet DEF HubCounted, ProxyInit
<1> QED BY <1>1, <1>2, <1>4 DEF PInv

\* One step per handler of the acceptor and of the pair.
LEMMA PStep == PInv /\ [ProxyNext]_proxyVars => PInv'
<1> SUFFICES ASSUME PInv, [ProxyNext]_proxyVars PROVE PInv'
  OBVIOUS
<1> USE DEF PInv, ProxyTypeOK
<1>a. \A l \in Link : pair[l] \in PairRecord /\ PairOK(pair[l])
  OBVIOUS
<1>1. ASSUME NEW r \in Request, NEW l \in Link,
             FrontFails(r, l) \/ Linked(r, l) \/ BackFails(r, l)
      PROVE  PInv'
  <2>1. pair[l].life = "none" /\ pair[l].front.tcp = "none" /\ pair[l].back.tcp = "none"
    BY <1>1, <1>a DEF FrontFails, Linked, BackFails, CanLink, PairOK
  <2>2. CASE FrontFails(r, l)
    <3> DEFINE p == [pair[l] EXCEPT !.life = "gone"]
    <3>1. p \in PairRecord /\ p.life = "gone" /\ PairOK(p)
      BY <1>a, <2>1 DEF PairRecord, PairOK, Over, Idle, Half
    <3>2. Put(l, p) /\ UNCHANGED <<acceptor, hub>>
      BY <2>2 DEF FrontFails
    <3> HIDE DEF p
    <3> QED BY <2>1, <3>1, <3>2, OnePairKept
  <2>3. CASE Linked(r, l)
    <3> DEFINE p == [pair[l] EXCEPT !.life = "bound", !.conn = TRUE,
                                    !.front.tcp = "open", !.back.tcp = "connecting"]
    <3>1. p \in PairRecord /\ p.life = "bound" /\ PairOK(p)
      <4>1. /\ p \in PairRecord /\ p.life = "bound"
            /\ p.front.tcp = "open" /\ p.back.tcp = "connecting"
        BY <1>a, LinkedPair
      <4> HIDE DEF p
      <4> QED BY <4>1 DEF PairOK, Over, Half
    <3>2. Put(l, p) /\ hub' = hub + 1 /\ acceptor' = acceptor
      BY <2>3 DEF Linked
    <3> HIDE DEF p
    <3> QED BY <2>1, <3>1, <3>2, BindKeeps
  <2>4. CASE BackFails(r, l)
    <3> DEFINE p == [pair[l] EXCEPT !.life = "bound", !.front.tcp = "closing"]
    <3>1. p \in PairRecord /\ p.life = "bound" /\ PairOK(p)
      BY <1>a, <2>1 DEF PairRecord, HalfRecord, PairOK, Over, Idle, Half
    <3>2. Put(l, p) /\ hub' = hub + 1
            /\ acceptor' = [acceptor EXCEPT !.req[r] = "deleted"]
      BY <2>4 DEF BackFails
    <3>3. acceptor' \in AcceptorRecord /\ acceptor'.tcp = acceptor.tcp
      BY <3>2 DEF AcceptorRecord
    <3> HIDE DEF p
    <3> QED BY <2>1, <3>1, <3>2, <3>3, BindKeeps
  <2> QED BY <1>1, <2>2, <2>3, <2>4
<1>2. ASSUME NEW r \in Request, LinkError(r) PROVE PInv'
  <2>1. acceptor' \in AcceptorRecord /\ acceptor'.tcp = acceptor.tcp
    BY <1>2 DEF LinkError, AcceptorRecord
  <2> QED BY <1>2, <2>1 DEF LinkError, HubCounted, Bound
<1>3. CASE CloseAcceptor
  <2>1. acceptor' \in AcceptorRecord /\ acceptor.tcp # "closed" /\ acceptor'.tcp # "closed"
    BY <1>3 DEF CloseAcceptor, AcceptorRecord
  <2> QED BY <1>3, <2>1 DEF CloseAcceptor, HubCounted, Bound
<1>4. CASE AcceptorClosed
  <2>1. /\ acceptor' \in AcceptorRecord /\ acceptor.tcp # "closed" /\ acceptor'.tcp = "closed"
        /\ pair' = pair /\ hub' = hub - 1
    BY <1>4 DEF AcceptorClosed, AcceptorRecord
  <2>2. Bound' = Bound
    BY <2>1 DEF Bound
  <2> QED BY <2>1, <2>2, BoundFinite DEF HubCounted
<1>5. ASSUME NEW l \in Link, NEW p \in PairRecord, PairOK(p),
             p.life = pair[l].life, Pair(l, p)
      PROVE  PInv'
  BY <1>5, OnePairKept DEF Pair
<1>6. ASSUME NEW l \in Link, Connects(l) PROVE PInv'
  <2> DEFINE p == [pair[l] EXCEPT !.conn = FALSE, !.back.tcp = "open", !.back.read = TRUE]
             q == [p EXCEPT !.front.read = TRUE]
  <2>0. /\ p \in PairRecord /\ p.life = pair[l].life /\ p.front = pair[l].front
        /\ p.back.tcp = "open" /\ pair[l].life \notin {"none", "gone"}
    BY <1>6, <1>a DEF Connects, PairRecord, HalfRecord, PairOK, Over
  <2>1. p \in PairRecord /\ p.life = pair[l].life /\ PairOK(p)
    <3> HIDE DEF p
    <3> QED BY <1>a, <2>0 DEF PairOK, Over, Idle, Half
  <2>2. Live(p, "front") => q \in PairRecord /\ q.life = pair[l].life /\ PairOK(q)
    <3> HIDE DEF p
    <3> SUFFICES ASSUME Live(p, "front")
                 PROVE  q \in PairRecord /\ q.life = pair[l].life /\ PairOK(q)
      OBVIOUS
    <3>1. /\ q \in PairRecord /\ q.life = p.life /\ q.back = p.back
          /\ q.front.tcp \in {"connecting", "open"}
      BY <2>0 DEF Live, PairRecord, HalfRecord
    <3> HIDE DEF q
    <3> QED BY <2>0, <3>1 DEF PairOK, Over, Half
  <2>3. Pair(l, IF Live(p, "front") THEN q ELSE CloseBoth(p))
    BY <1>6 DEF Connects
  <2> HIDE DEF p, q
  <2> QED BY <1>5, <2>1, <2>2, <2>3, CloseBothKeeps
<1>7. ASSUME NEW l \in Link, ConnectEnds(l) PROVE PInv'
  <2> DEFINE p == CloseHalf(pair[l], "back")
             q == [p EXCEPT !.conn = FALSE]
  <2>1. p \in PairRecord /\ PairOK(p) /\ p.life = pair[l].life
    BY <1>a, CloseHalfKeeps DEF Half
  <2>2. q \in PairRecord /\ PairOK(q) /\ q.life = p.life
    <3> HIDE DEF p
    <3> QED BY <2>1 DEF PairRecord, HalfRecord, PairOK, Over, Idle, Half
  <2>3. Pair(l, CloseHalf(q, "front"))
    BY <1>7 DEF ConnectEnds
  <2> HIDE DEF p, q
  <2>4. CloseHalf(q, "front") \in PairRecord /\ PairOK(CloseHalf(q, "front"))
          /\ CloseHalf(q, "front").life = q.life
    BY <2>2, CloseHalfKeeps DEF Half
  <2> QED BY <1>5, <2>1, <2>2, <2>3, <2>4
<1>8. ASSUME NEW l \in Link, NEW h \in Half, Relay(l, h) PROVE PInv'
  <2> DEFINE p == [pair[l] EXCEPT ![h].sent = @ + 1]
             o == Other(h)
             q == [p EXCEPT ![o].writes = @ + 1]
  <2>1. p \in PairRecord /\ p.life = pair[l].life /\ PairOK(p)
    BY <1>a DEF PairRecord, HalfRecord, PairOK, Over, Idle, Half
  <2>2. o \in Half
    BY DEF Other, Half
  <2>3. p[o].tcp = "open" => q \in PairRecord /\ q.life = p.life /\ PairOK(q)
    <3> HIDE DEF p, o
    <3> QED BY <2>1, <2>2 DEF PairRecord, HalfRecord, PairOK, Over, Idle, Half
  <2>4. Pair(l, IF p[o].tcp = "open" THEN q ELSE p)
    BY <1>8 DEF Relay
  <2> HIDE DEF p, q, o
  <2> QED BY <1>5, <2>1, <2>3, <2>4
<1>9. ASSUME NEW l \in Link, NEW h \in Half, Written(l, h) \/ ReadEnds(l, h) PROVE PInv'
  <2>1. PICK p : /\ Pair(l, p)
                 /\ \/ pair[l][h].writes > 0 /\ p = [pair[l] EXCEPT ![h].writes = @ - 1]
                    \/ p = [pair[l] EXCEPT ![h].read = FALSE]
    BY <1>9 DEF Written, ReadEnds
  <2>2. p \in PairRecord /\ p.life = pair[l].life /\ PairOK(p)
    <3>1. /\ p \in PairRecord /\ p.life = pair[l].life /\ p.conn = pair[l].conn
          /\ \A g \in Half : /\ p[g].tcp = pair[l][g].tcp
                             /\ p[g].read => pair[l][g].read
                             /\ pair[l][g].writes = 0 => p[g].writes = 0
      <4>1. CASE p = [pair[l] EXCEPT ![h].read = FALSE]
        BY <1>a, <4>1 DEF PairRecord, HalfRecord, Half
      <4>2. CASE pair[l][h].writes > 0 /\ p = [pair[l] EXCEPT ![h].writes = @ - 1]
        <5> DEFINE f == [pair[l][h] EXCEPT !.writes = @ - 1]
        <5>1. pair[l][h] \in HalfRecord /\ pair[l][h].writes - 1 \in Nat
          BY <1>a, <4>2 DEF PairRecord, HalfRecord, Half
        <5>2. /\ f \in HalfRecord /\ f.tcp = pair[l][h].tcp
              /\ f.read = pair[l][h].read /\ pair[l][h].writes # 0
          BY <4>2, <5>1 DEF HalfRecord
        <5>3. p = [pair[l] EXCEPT ![h] = f]
          BY <4>2
        <5> HIDE DEF f
        <5>4. /\ p \in PairRecord /\ p.life = pair[l].life /\ p.conn = pair[l].conn
              /\ p[h] = f /\ \A g \in Half : g # h => p[g] = pair[l][g]
          <6>1. pair[l] \in PairRecord
            BY <1>a
          <6> QED BY <5>2, <5>3, <6>1 DEF PairRecord, Half
        <5> QED BY <5>2, <5>4
      <4> QED BY <2>1, <4>1, <4>2
    <3> QED BY <1>a, <3>1 DEF PairOK, Over, Idle, Half
  <2> QED BY <1>5, <2>1, <2>2
<1>10. ASSUME NEW l \in Link, NEW h \in Half, Lost(l, h) \/ Timeout(l, h) PROVE PInv'
  <2>1. Pair(l, CloseHalf(pair[l], h)) \/ Pair(l, CloseBoth(pair[l]))
    BY <1>10 DEF Lost, Timeout
  <2> QED BY <1>5, <1>a, <2>1, CloseHalfKeeps, CloseBothKeeps
<1>11. ASSUME NEW l \in Link, NEW h \in Half, HalfClosed(l, h) PROVE PInv'
  <2> DEFINE p == [pair[l] EXCEPT ![h].tcp = "closed"]
             q == [p EXCEPT !.life = "gone"]
  <2>1. p \in PairRecord /\ p.life = "bound" /\ pair[l].life = "bound" /\ PairOK(p)
          /\ Over(p, h)
    <3>1. pair[l].life = "bound" /\ Idle(pair[l], h)
      <4>1. p.life = "bound" /\ Idle(pair[l], h)
        BY <1>11 DEF HalfClosed
      <4>2. p.life = pair[l].life
        BY <1>a DEF PairRecord, Half
      <4> QED BY <4>1, <4>2
    <3>2. /\ p \in PairRecord /\ p.life = pair[l].life /\ p.conn = pair[l].conn
          /\ p[h].tcp = "closed"
          /\ \A g \in Half : /\ g # h => p[g].tcp = pair[l][g].tcp
                             /\ p[g].read <=> pair[l][g].read
                             /\ p[g].writes = pair[l][g].writes
      <4> DEFINE f == [pair[l][h] EXCEPT !.tcp = "closed"]
      <4>1. /\ f \in HalfRecord /\ f.tcp = "closed"
            /\ f.read <=> pair[l][h].read
            /\ f.writes = pair[l][h].writes
        BY <1>a DEF PairRecord, HalfRecord, Half
      <4>2. p = [pair[l] EXCEPT ![h] = f]
        OBVIOUS
      <4> HIDE DEF f, p
      <4>3. /\ p \in PairRecord /\ p.life = pair[l].life /\ p.conn = pair[l].conn
            /\ p[h] = f /\ \A g \in Half : g # h => p[g] = pair[l][g]
        <5>1. pair[l] \in PairRecord
          BY <1>a
        <5> QED BY <4>1, <4>2, <5>1 DEF PairRecord, Half
      <4> QED BY <4>1, <4>3
    <3> HIDE DEF p
    <3> QED BY <1>a, <3>1, <3>2 DEF PairOK, Over, Idle, Half
  <2>2. CASE OtherClosed(p, h)
    <3>1. q \in PairRecord /\ q.life = "gone" /\ PairOK(q)
      <4> HIDE DEF p
      <4> QED BY <2>1, <2>2
              DEF OtherClosed, Other, PairRecord, HalfRecord, PairOK, Over, Idle, Half
    <3>2. Put(l, q) /\ hub' = hub - 1 /\ acceptor' = acceptor
      BY <1>11, <2>2 DEF HalfClosed
    <3> HIDE DEF p, q
    <3> QED BY <2>1, <3>1, <3>2, FreeKeeps
  <2>3. CASE ~OtherClosed(p, h)
    <3>1. Pair(l, CloseHalf(p, Other(h)))
      BY <1>11, <2>3 DEF HalfClosed, CloseOther, Pair
    <3>2. Other(h) \in Half
      BY DEF Other, Half
    <3> HIDE DEF p
    <3>3. CloseHalf(p, Other(h)) \in PairRecord /\ PairOK(CloseHalf(p, Other(h)))
            /\ CloseHalf(p, Other(h)).life = p.life
      BY <2>1, <3>2, CloseHalfKeeps
    <3> QED BY <1>5, <2>1, <3>1, <3>3
  <2> QED BY <2>2, <2>3
<1>12. CASE UNCHANGED proxyVars
  BY <1>12 DEF proxyVars, HubCounted, Bound
<1> QED
  BY <1>1, <1>2, <1>3, <1>4, <1>6, <1>7, <1>8, <1>9, <1>10, <1>11, <1>12
  DEF ProxyNext

\* The strengthened invariant holds of every behaviour.
THEOREM ProxyInvariance == ProxySpec => []PInv
  BY PInit, PStep, PTL DEF ProxySpec

\* ~Handle() finds nothing in flight when a TcpProxy is deleted, and the hub
\* has one reference for each that lives and one for the acceptor, whichever
\* half ends first and whatever is being relayed or connected then.
THEOREM FreedCorrect == ProxySpec => []FreedLast
<1>1. PInv => FreedLast
  BY DEF PInv, HubCounted, Bound, FreedLast, PairOK, Over, Half
<1> QED BY <1>1, ProxyInvariance, PTL

-----------------------------------------------------------------------------
(* The main process: no slot to be respawned is forgotten and every child  *)
(* that runs is known to a slot, for every number of children, of deaths   *)
(* and of signals.                                                         *)


\* What the proof needs beside the property: a slot that is to be respawned is
\* marked dead, or the scan would pass over it; the loop begins after the
\* start; createProcess() works on a slot and has opened a pair.
DeadIfRespawn == \A i \in Slots : mStatus[i] = "respawn" => ~mAlive[i]
LoopAfterStart == pc = "check" => ~starting
InSlot == pc \in {"fork", "store", "log"} => idx \in Slots /\ pairs \in Pids

IInv == TypeOK /\ DeadIfRespawn /\ LoopAfterStart /\ InSlot /\ NoRespawnForgotten

\* Zombies that may be respawned are counted.
LEMMA SomeRespawn ==
    ASSUME NEW p \in Zombies, code[p] # Fatal
    PROVE  Respawns \in Nat /\ Respawns > 0
<1> DEFINE S == {q \in Zombies : code[q] # Fatal}
<1>1. IsFiniteSet(S)
  <2>1. IsFiniteSet(Pids)
    BY ProcessConstants, FS_Interval DEF ProcessConstants, Pids
  <2> QED BY <2>1, FS_Subset DEF Zombies
<1>2. S # {} OBVIOUS
<1>3. Cardinality(S) \in Nat /\ Cardinality(S) # 0
  BY <1>1, <1>2, FS_CardinalityType, FS_EmptySet
<1> QED BY <1>3 DEF Respawns

\* The count is a number, whoever is dead.
LEMMA RespawnsNat == Respawns \in Nat
<1> DEFINE S == {q \in Zombies : code[q] # Fatal}
<1>1. IsFiniteSet(Pids)
  BY ProcessConstants, FS_Interval DEF ProcessConstants, Pids
<1>2. IsFiniteSet(S)
  BY <1>1, FS_Subset DEF Zombies
<1> QED BY <1>2, FS_CardinalityType DEF Respawns

LEMMA InitHolds == Init => IInv
<1> SUFFICES ASSUME Init PROVE IInv
  OBVIOUS
<1> USE ProcessConstants DEF ProcessConstants, Init, Slots, Pids, None
<1>1. TypeOK
  <2>1. mID \in [Slots -> Pids \cup {None}] /\ mSocket \in [Slots -> Pids \cup {None}]
    OBVIOUS
  <2>2. /\ mStatus \in [Slots -> {"init", "running", "respawn", "exited"}]
        /\ mAlive \in [Slots -> BOOLEAN]
    OBVIOUS
  <2>3. /\ proc \in [Pids -> {"none", "up", "zombie", "waited"}]
        /\ code \in [Pids -> 0 .. 255]
    OBVIOUS
  <2>4. /\ mProcResponCount \in Nat /\ idx \in 1 .. MaxProcess + 1
        /\ pairs \in 0 .. Pairs /\ terms \in Nat
    OBVIOUS
  <2>5. /\ mProcStatus \in {"init", "running", "exiting"}
        /\ pc \in {"slot", "fork", "store", "log", "check", "gone"}
        /\ starting \in BOOLEAN /\ stuck \in BOOLEAN
        /\ told \subseteq Pids /\ sig \subseteq {"CHLD", "TERM"}
    OBVIOUS
  <2> QED BY <2>1, <2>2, <2>3, <2>4, <2>5 DEF TypeOK
<1>2. DeadIfRespawn /\ LoopAfterStart /\ InSlot /\ NoRespawnForgotten
  BY DEF Init, DeadIfRespawn, LoopAfterStart, InSlot, NoRespawnForgotten
<1> QED BY <1>1, <1>2 DEF IInv

\* One step per action; those of the main process first.
LEMMA StepHolds == IInv /\ [Next]_vars => IInv'
<1> SUFFICES ASSUME IInv, [Next]_vars PROVE IInv'
  OBVIOUS
<1> USE ProcessConstants
<1> USE DEF IInv, DeadIfRespawn, LoopAfterStart, InSlot,
            NoRespawnForgotten, TypeOK, ProcessConstants, Slots, Pids, None, Running, At, NextSlot,
            slotVars, mainVars, kernVars
<1>1. CASE SkipSlot
  BY <1>1 DEF SkipSlot, MustCreate
<1>2. CASE OpenPair
  BY <1>2 DEF OpenPair
<1>3. CASE OpenPairFails
  BY <1>3 DEF OpenPairFails, GiveUp
<1>4. CASE ForkFails
  BY <1>4 DEF ForkFails, GiveUp
<1>5. CASE Fork
  BY <1>5 DEF Fork
<1>6. CASE StoreID
  BY <1>6 DEF StoreID
<1>7. CASE Created
  BY <1>7 DEF Created
<1>8. CASE Started
  BY <1>8 DEF Started
<1>9. CASE BeginScan
  BY <1>9 DEF BeginScan, IsAsked
<1>10. CASE EndScan
  BY <1>10 DEF EndScan, CountAfterScan
<1>11. CASE Leave
  BY <1>11 DEF Leave
<1>12. CASE OnSignalChild
  <2>1. mProcResponCount' \in Nat /\ mProcResponCount' >= mProcResponCount
    BY <1>12, RespawnsNat DEF OnSignalChild
  <2>2. TypeOK'
    BY <1>12, <2>1 DEF OnSignalChild, NewStatus
  <2>3. DeadIfRespawn' /\ LoopAfterStart' /\ InSlot'
    BY <1>12 DEF OnSignalChild
  <2>4. ASSUME NEW i \in Slots, mStatus'[i] = "respawn"
        PROVE  \/ mProcResponCount' > 0
               \/ pc' = "slot" /\ ~starting' /\ idx' <= i
               \/ pc' \in {"fork", "store", "log"} /\ ~starting' /\ idx' < i
    <3>1. CASE Known(i)
      <4>1. code[mID[i]] # Fatal /\ mID[i] \in Zombies
        BY <1>12, <2>4, <3>1 DEF OnSignalChild, NewStatus, Known
      <4>2. Respawns \in Nat /\ Respawns > 0
        BY <4>1, SomeRespawn
      <4> QED BY <1>12, <4>2 DEF OnSignalChild
    <3>2. CASE ~Known(i)
      <4>1. mStatus[i] = "respawn"
        BY <1>12, <2>4, <3>2 DEF OnSignalChild
      <4> QED BY <1>12, <2>1, <4>1 DEF OnSignalChild
    <3> QED BY <3>1, <3>2
  <2> QED BY <2>2, <2>3, <2>4
<1>13. CASE OnSignalTerm
  <2>1. told' \subseteq Pids
    <3>1. told \subseteq Pids
      OBVIOUS
    <3>2. {mSocket[i] : i \in Slots} \ {None} \subseteq Pids
      <4> SUFFICES ASSUME NEW i \in Slots, mSocket[i] # None PROVE mSocket[i] \in Pids
        OBVIOUS
      <4> QED OBVIOUS
    <3>3. told' = told \cup ({mSocket[i] : i \in Slots} \ {None})
      BY <1>13 DEF OnSignalTerm
    <3> QED BY <3>1, <3>2, <3>3
  <2>2. "exiting" \in {"init", "running", "exiting"}
    OBVIOUS
  <2> QED BY <1>13, <2>1, <2>2 DEF OnSignalTerm
<1>14. CASE SelfDeadlock
  BY <1>14 DEF SelfDeadlock
<1>15. ASSUME NEW p \in Pids, ChildDies(p) \/ ChildExits(p) PROVE IInv'
  <2>1. \E c \in 0 .. 255 : Ends(p, c)
    <3>1. CASE ChildDies(p)
      BY <3>1 DEF ChildDies
    <3>2. CASE ChildExits(p)
      <4>1. 0 \in 0 .. 255 /\ Ends(p, 0)
        BY <3>2 DEF ChildExits
      <4> QED BY <4>1
    <3> QED BY <1>15, <3>1, <3>2
  <2>2. PICK c \in 0 .. 255 : Ends(p, c)
    BY <2>1
  <2> QED BY <2>2 DEF Ends
<1>16. CASE Terminate
  BY <1>16 DEF Terminate
<1>17. CASE UNCHANGED vars
  BY <1>17 DEF vars
<1> QED
  BY <1>1, <1>2, <1>3, <1>4, <1>5, <1>6, <1>7, <1>8, <1>9, <1>10, <1>11,
     <1>12, <1>13, <1>14, <1>15, <1>16, <1>17 DEF Next, MainStep

-----------------------------------------------------------------------------
(* Every running child is known.                                           *)

\* Pairs that are opened later have no process, and the one that is open while
\* createProcess() forks has none yet.
FreshPairs ==
    \A p \in Pids : p > pairs \/ (p = pairs /\ pc = "fork") => proc[p] = "none"

\* A process id in a slot is that of the child the slot talks to, or of one
\* that has been waited for: mID lags behind the socket while createProcess()
\* works on the slot.
IdOfSocket ==
    \A i \in Slots : mID[i] # None =>
        \/ mAlive[i] /\ mSocket[i] = mID[i] /\ proc[mID[i]] # "none"
        \/ proc[mID[i]] = "waited"

\* The slot that createProcess() works on is marked alive, and no SIGCHLD takes
\* that mark away: its id is not that of a zombie.
InCreate ==
    pc \in {"fork", "store"} =>
        /\ mAlive[idx] /\ mSocket[idx] = pairs
        /\ mID[idx] = None \/ proc[mID[idx]] = "waited"
        /\ pc = "store" => proc[pairs] # "none"

\* At the start the slots to come are unused.
UnusedAtStart ==
    starting => \A i \in Slots : i > idx \/ (i = idx /\ pc = "slot") => ~mAlive[i]

KnownInv == FreshPairs /\ IdOfSocket /\ InCreate /\ UnusedAtStart /\ ChildKnown

\* The slot a new pair is opened for is not alive.
LEMMA CreateDead ==
    ASSUME IInv, KnownInv, At("slot"), idx \in Slots, MustCreate(idx)
    PROVE  ~mAlive[idx] /\ (mID[idx] # None => proc[mID[idx]] = "waited")
  BY DEF KnownInv, UnusedAtStart, IdOfSocket, At, MustCreate

\* Every step keeps KnownInv: one step per action of the main process.
LEMMA KnownInductive ==
    ASSUME IInv, KnownInv, [Next]_vars
    PROVE  KnownInv'
<1> USE ProcessConstants
    DEF IInv, TypeOK, InSlot, ProcessConstants, Slots, Pids, None, Up, Running, At,
        NextSlot, slotVars, mainVars, kernVars
<1>a. FreshPairs /\ IdOfSocket /\ InCreate /\ UnusedAtStart /\ ChildKnown
  BY DEF KnownInv
<1>1. CASE SkipSlot
  BY <1>1, <1>a
  DEF SkipSlot, MustCreate, KnownInv, FreshPairs, IdOfSocket, InCreate, UnusedAtStart,
      ChildKnown
<1>2. CASE OpenPair
  <2>1. ~mAlive[idx] /\ (mID[idx] # None => proc[mID[idx]] = "waited")
    BY <1>2, CreateDead DEF OpenPair
  <2>2. FreshPairs' /\ IdOfSocket'
    BY <1>2, <1>a, <2>1 DEF OpenPair, FreshPairs, IdOfSocket
  <2>3. InCreate' /\ UnusedAtStart'
    BY <1>2, <1>a, <2>1 DEF OpenPair, InCreate, UnusedAtStart
  <2>4. ChildKnown'
    BY <1>2, <1>a, <2>1 DEF OpenPair, ChildKnown
  <2> QED BY <2>2, <2>3, <2>4 DEF KnownInv
<1>3. CASE OpenPairFails
  <2>1. ~mAlive[idx]
    BY <1>3, CreateDead DEF OpenPairFails
  <2>2. FreshPairs' /\ IdOfSocket'
    BY <1>3, <1>a DEF OpenPairFails, GiveUp, FreshPairs, IdOfSocket
  <2>3. InCreate' /\ UnusedAtStart'
    BY <1>3, <1>a DEF OpenPairFails, GiveUp, InCreate, UnusedAtStart
  <2>4. ChildKnown'
    BY <1>3, <1>a, <2>1 DEF OpenPairFails, GiveUp, ChildKnown
  <2> QED BY <2>2, <2>3, <2>4 DEF KnownInv
<1>4. CASE ForkFails
  <2>1. mSocket[idx] = pairs /\ proc[pairs] = "none"
    BY <1>4, <1>a DEF ForkFails, InCreate, FreshPairs
  <2>2. FreshPairs' /\ IdOfSocket'
    BY <1>4, <1>a DEF ForkFails, GiveUp, FreshPairs, IdOfSocket
  <2>3. InCreate' /\ UnusedAtStart'
    BY <1>4, <1>a DEF ForkFails, GiveUp, InCreate, UnusedAtStart
  <2>4. ChildKnown'
    BY <1>4, <1>a, <2>1 DEF ForkFails, GiveUp, ChildKnown
  <2> QED BY <2>2, <2>3, <2>4 DEF KnownInv
<1>5. CASE Fork
  <2>1. /\ proc[pairs] = "none" /\ mAlive[idx] /\ mSocket[idx] = pairs
        /\ proc' = [proc EXCEPT ![pairs] = "up"]
    BY <1>5, <1>a DEF Fork, InCreate, FreshPairs
  <2>2. FreshPairs' /\ IdOfSocket'
    BY <1>5, <1>a, <2>1 DEF Fork, FreshPairs, IdOfSocket
  <2>3. InCreate' /\ UnusedAtStart'
    BY <1>5, <1>a, <2>1 DEF Fork, InCreate, UnusedAtStart
  <2>4. ChildKnown'
    BY <1>5, <1>a, <2>1 DEF Fork, ChildKnown
  <2> QED BY <2>2, <2>3, <2>4 DEF KnownInv
<1>6. CASE StoreID
  BY <1>6, <1>a
  DEF StoreID, KnownInv, FreshPairs, IdOfSocket, InCreate, UnusedAtStart, ChildKnown
<1>7. CASE Created \/ Started \/ BeginScan \/ EndScan \/ Leave
  <2>1. UNCHANGED <<slotVars, kernVars, pairs>> /\ pc' \notin {"fork", "store"}
    BY <1>7 DEF Created, Started, BeginScan, EndScan, Leave
  <2>2. FreshPairs' /\ IdOfSocket' /\ InCreate' /\ ChildKnown'
    BY <1>a, <2>1 DEF FreshPairs, IdOfSocket, InCreate, ChildKnown
  <2>3. UnusedAtStart'
    <3>1. CASE Created
      BY <1>a, <3>1 DEF Created, UnusedAtStart
    <3>2. CASE Started \/ BeginScan \/ EndScan
      <4>1. ~starting'
        BY <3>2 DEF Started, BeginScan, EndScan, LoopAfterStart
      <4> QED BY <4>1 DEF UnusedAtStart
    <3>3. CASE Leave
      BY <1>a, <3>3 DEF Leave, UnusedAtStart
    <3> QED BY <1>7, <3>1, <3>2, <3>3
  <2> QED BY <2>2, <2>3 DEF KnownInv
<1>8. CASE OnSignalChild
  <2>1. /\ mAlive' = [i \in Slots |-> mAlive[i] /\ ~Known(i)]
        /\ mSocket' = [i \in Slots |-> IF Known(i) THEN None ELSE mSocket[i]]
        /\ proc' = [p \in Pids |-> IF proc[p] = "zombie" THEN "waited" ELSE proc[p]]
        /\ UNCHANGED <<mID, mainVars>>
    BY <1>8 DEF OnSignalChild, Zombies
  <2>2. \A i \in Slots : Known(i) => /\ mID[i] \in Pids /\ proc[mID[i]] = "zombie"
                                   /\ mSocket[i] = mID[i] /\ mAlive[i]
    BY <1>a DEF Known, Zombies, IdOfSocket
  <2>3. FreshPairs' /\ UnusedAtStart'
    BY <1>a, <2>1 DEF FreshPairs, UnusedAtStart
  <2>4. IdOfSocket'
    BY <1>a, <2>1, <2>2 DEF IdOfSocket, Known, Zombies
  <2>5. InCreate'
    <3> SUFFICES ASSUME pc \in {"fork", "store"}
                 PROVE  /\ mAlive'[idx] /\ mSocket'[idx] = pairs
                        /\ mID[idx] = None \/ proc'[mID[idx]] = "waited"
                        /\ pc = "store" => proc'[pairs] # "none"
      BY <2>1 DEF InCreate
    <3>1. idx \in Slots /\ pairs \in Pids
      OBVIOUS
    <3>2. ~Known(idx)
      BY <1>a, <2>2, <3>1 DEF InCreate
    <3>3. mAlive[idx] /\ mSocket[idx] = pairs
      BY <1>a DEF InCreate
    <3>4. mAlive'[idx] /\ mSocket'[idx] = pairs
      BY <2>1, <3>1, <3>2, <3>3
    <3>5. mID[idx] = None \/ proc'[mID[idx]] = "waited"
      BY <1>a, <2>1, <3>1 DEF InCreate
    <3>6. pc = "store" => proc'[pairs] # "none"
      <4>1. pc = "store" => proc[pairs] # "none"
        BY <1>a DEF InCreate
      <4> QED BY <2>1, <3>1, <4>1
    <3> QED BY <3>4, <3>5, <3>6
  <2>6. ChildKnown'
    <3> SUFFICES ASSUME NEW p \in Pids, proc'[p] = "up"
                 PROVE  \E i \in Slots : mAlive'[i] /\ mSocket'[i] = p
      BY DEF ChildKnown
    <3>1. proc[p] = "up"
      BY <2>1
    <3>2. PICK i \in Slots : mAlive[i] /\ mSocket[i] = p
      BY <1>a, <3>1 DEF ChildKnown
    <3>3. ~Known(i)
      BY <2>2, <3>1, <3>2
    <3> QED BY <2>1, <3>2, <3>3
  <2> QED BY <2>3, <2>4, <2>5, <2>6 DEF KnownInv
<1>9. ASSUME NEW p \in Pids, ChildDies(p) \/ ChildExits(p) PROVE KnownInv'
  <2>1. /\ proc[p] = "up" /\ proc' = [proc EXCEPT ![p] = "zombie"]
        /\ UNCHANGED <<slotVars, mainVars>>
    BY <1>9 DEF ChildDies, ChildExits, Ends
  <2>2. FreshPairs' /\ IdOfSocket' /\ InCreate' /\ UnusedAtStart'
    BY <1>a, <2>1 DEF FreshPairs, IdOfSocket, InCreate, UnusedAtStart
  <2>3. ChildKnown'
    BY <1>a, <2>1 DEF ChildKnown
  <2> QED BY <2>2, <2>3 DEF KnownInv
<1>10. CASE OnSignalTerm \/ SelfDeadlock \/ Terminate \/ UNCHANGED vars
  <2>1. UNCHANGED <<slotVars, mainVars, kernVars>>
    BY <1>10 DEF OnSignalTerm, SelfDeadlock, Terminate, vars
  <2> QED
    BY <1>a, <2>1
    DEF KnownInv, FreshPairs, IdOfSocket, InCreate, UnusedAtStart, ChildKnown
<1> QED
  BY <1>1, <1>2, <1>3, <1>4, <1>5, <1>6, <1>7, <1>8, <1>9, <1>10 DEF Next, MainStep

\* A slot that is given up is not alive, so that neither createProcess() nor a
\* SIGCHLD changes it after the start.
DeadIfExited == \A i \in Slots : mStatus[i] = "exited" => ~mAlive[i]

FinalStep ==
    \A i \in Slots : mStatus[i] = "exited" /\ ~starting =>
        mStatus'[i] = "exited" /\ mID'[i] = mID[i]

\* Every step keeps DeadIfExited and the slots that were given up.
LEMMA ExitedKept ==
    ASSUME IInv, KnownInv, DeadIfExited, [Next]_vars
    PROVE  DeadIfExited' /\ FinalStep
<1> USE DEF IInv, TypeOK, InSlot, DeadIfExited, FinalStep, slotVars, At, NextSlot
<1>1. CASE OpenPair
  BY <1>1 DEF OpenPair, MustCreate
<1>2. CASE OpenPairFails
  <2>1. idx \in Slots /\ (starting \/ mStatus[idx] # "exited")
    BY <1>2 DEF OpenPairFails, MustCreate
  <2> QED BY <1>2, <2>1 DEF OpenPairFails, GiveUp
<1>3. CASE ForkFails
  <2>1. idx \in Slots /\ mAlive[idx]
    BY <1>3 DEF ForkFails, KnownInv, InCreate
  <2> QED BY <1>3, <2>1 DEF ForkFails, GiveUp
<1>4. CASE StoreID
  <2>1. idx \in Slots /\ mAlive[idx]
    BY <1>4 DEF StoreID, KnownInv, InCreate
  <2> QED BY <1>4, <2>1 DEF StoreID
<1>5. CASE OnSignalChild
  <2>1. \A i \in Slots : Known(i) => mAlive[i]
    BY DEF Known, Zombies, KnownInv, IdOfSocket, None, Pids
  <2> QED BY <1>5, <2>1 DEF OnSignalChild
<1>6. CASE UNCHANGED slotVars
  BY <1>6
<1> QED
  BY <1>1, <1>2, <1>3, <1>4, <1>5, <1>6
  DEF Next, MainStep, SkipSlot, Fork, Created, Started, BeginScan, EndScan, Leave,
      OnSignalTerm, SelfDeadlock, ChildDies, ChildExits, Ends, Terminate, vars

-----------------------------------------------------------------------------
(* The theorems.                                                           *)

\* The strengthened invariant holds of every behaviour.
THEOREM Invariance == Spec => []IInv
  BY InitHolds, StepHolds, PTL DEF Spec

\* Every variable of the main process keeps its type.
THEOREM TypeCorrect == Spec => []TypeOK
<1>1. IInv => TypeOK BY DEF IInv
<1> QED BY <1>1, Invariance, PTL

\* A slot that is to be respawned is not forgotten (Engine::run), whenever the
\* signals come.
THEOREM RespawnCorrect == Spec => []NoRespawnForgotten
<1>1. IInv => NoRespawnForgotten BY DEF IInv
<1> QED BY <1>1, Invariance, PTL

\* KnownInv holds of every behaviour.
LEMMA KnownInvariant == Spec => []KnownInv
<1>1. Init => KnownInv
  BY ProcessConstants
  DEF ProcessConstants, Init, KnownInv, FreshPairs, IdOfSocket, InCreate, UnusedAtStart,
      ChildKnown, Slots, Pids, None, Up
<1>2. IInv /\ KnownInv /\ [Next]_vars => KnownInv'
  BY KnownInductive
<1> QED BY <1>1, <1>2, Invariance, PTL DEF Spec

\* A slot that was given up for good is not used again: no scan and no signal
\* gives it a new child.
THEOREM FatalCorrect == Spec => FatalIsFinal
<1>1. Init => DeadIfExited
  BY DEF Init, DeadIfExited
<1>2. IInv /\ KnownInv /\ DeadIfExited /\ [Next]_vars =>
        DeadIfExited' /\ [FinalStep]_vars
  BY ExitedKept
<1>3. Spec => []DeadIfExited
  BY <1>1, <1>2, Invariance, KnownInvariant, PTL DEF Spec
<1> QED BY <1>2, <1>3, Invariance, KnownInvariant, PTL DEF Spec, FatalIsFinal, FinalStep

\* Every child that runs has a slot that is alive and holds its socket, from
\* fork() on and whenever SIGCHLD comes: the window in which mID is not stored
\* yet loses the exit code of a child, never the child.
THEOREM KnownCorrect == Spec => []ChildKnown
<1>1. KnownInv => ChildKnown
  BY DEF KnownInv
<1> QED BY <1>1, KnownInvariant, PTL

-----------------------------------------------------------------------------
(* The pools of redis clients and their cluster, for any numbers of pools, *)
(* connections and commands.                                               *)
(*                                                                         *)
(* The operators of Redis take a world and return one, and call one        *)
(* another in the middle of a callback.  So there are two kinds of lemma:  *)
(* that a world stays Good, where one connection may be in hand (h) or     *)
(* about to end (x); and how far the books of a command have moved (Shift) *)
(* by what it owes (Debt) and by its references (Slack).  A step is a      *)
(* chain of them, at whose end nothing is in hand and the books are Even.  *)

PoolRecord == [state : {"new", "open", "shut", "deleted"}, fly : Int, fail : Int,
               alive : Seq(Client), idle : Seq(Client), task : Seq(Commands)]
ClientRecord == [conn : {"shut", "connecting", "open", "closing"}, fly : BOOLEAN,
                 said : Int, cmd : Commands \cup {Null}]
CommandRecord == [refs : Int, tries : Int, asked : Int, answers : Int]
ClusterRecord == [status : Int, slot : Pool \cup {Null}, failed : Int, torn : BOOLEAN]
Worlds == [pool : [Pool -> PoolRecord], client : [Client -> ClientRecord],
           command : [Commands -> CommandRecord], cluster : ClusterRecord]

\* What the queues say of a connection k: alive, put aside, and the state of its
\* pool.  One in hand (h) is about to be pushed, one that ends (x) is about to
\* be opened again or put aside.
Rule(k, alive, idle, state, h, x) ==
    /\ k.cmd # Null => k.fly /\ k.conn \in {"open", "closing"}
    /\ k.conn = "connecting" => k.fly
    /\ alive => ~k.fly /\ k.cmd = Null /\ ~h
    /\ k.conn = "open" /\ ~k.fly => alive \/ h
    /\ k.conn = "shut" => state = "new" \/ idle \/ x
    /\ state = "new" => k.conn = "shut" /\ ~k.fly /\ k.cmd = Null /\ ~alive
    /\ h => ~k.fly /\ k.cmd = Null /\ state # "new"
    /\ x => k.conn \in {"shut", "closing"} /\ k.cmd = Null /\ state # "new"

\* A queue has its own pool's connections, each once.
Once(s, p) ==
    /\ \A i \in DOMAIN s : PoolOf[s[i]] = p
    /\ \A i, j \in DOMAIN s : s[i] = s[j] => i = j
Follows(w, c, h, x) ==
    LET r == w.pool[PoolOf[c]]
    IN  Rule(w.client[c], Contains(r.alive, c), Contains(r.idle, c), r.state, c = h, c = x)
Good(w, h, x) ==
    /\ w \in Worlds
    /\ \A p \in Pool : Once(w.pool[p].alive, p)
    /\ \A c \in Client : Follows(w, c, h, x)

\* Where a command is.
HeldBy(w, q) == {c \in Client : w.client[c].cmd = q}
PosOf(s, q) == {i \in DOMAIN s : s[i] = q}
WaitsIn(w, q) == UNION {{p} \X PosOf(w.pool[p].task, q) : p \in Pool}
Uses(w, q) == Cardinality(HeldBy(w, q)) + Cardinality(WaitsIn(w, q))
Debt(w, q) == w.command[q].asked - w.command[q].answers - Uses(w, q)
Slack(w, q) == w.command[q].refs - Uses(w, q)
Gone(w) == \E p \in Pool : w.pool[p].state = "deleted"
Even(w) == \A q \in Commands : Debt(w, q) = 0 /\ (Gone(w) \/ Slack(w, q) = 0)

\* r is what is left of s behind place n, the two sequences joined, and s without
\* its place i.
IsRest(r, s, n, l) ==
    /\ r = SubSeq(s, n + 1, l) /\ Len(r) = l - n /\ DOMAIN r = 1 .. l - n
    /\ \A i \in 1 .. l - n : r[i] = s[n + i] /\ n + i \in 1 .. l

IsJoin(r, s, t, l, n) ==
    /\ r = s \o t /\ Len(r) = l + n /\ DOMAIN r = 1 .. l + n
    /\ \A i \in 1 .. l : r[i] = s[i]
    /\ \A i \in 1 .. n : r[l + i] = t[i]

\* The elements of the rest of a sequence.
LEMMA RestIs ==
    ASSUME NEW X, NEW s \in Seq(X), NEW l \in Nat, l = Len(s), NEW n \in 0 .. l
    PROVE  \E r \in Seq(X) : IsRest(r, s, n, l)
<1>1. n + 1 \in Int /\ l \in Int
  OBVIOUS
<1>2. \A i \in n + 1 .. l : s[i] \in X
  OBVIOUS
<1>3. /\ SubSeq(s, n + 1, l) \in Seq(X)
      /\ Len(SubSeq(s, n + 1, l)) = IF n + 1 <= l THEN l - (n + 1) + 1 ELSE 0
      /\ \A i \in 1 .. l - (n + 1) + 1 : SubSeq(s, n + 1, l)[i] = s[(n + 1) + i - 1]
  BY <1>1, <1>2, SubSeqProperties
<1>4. PICK r \in Seq(X) : r = SubSeq(s, n + 1, l)
  BY <1>3
<1>5. Len(r) = l - n
  BY <1>3, <1>4
<1>6. \A i \in 1 .. l - n : r[i] = s[n + i]
  <2>1. TAKE i \in 1 .. l - n
  <2>2. i \in 1 .. l - (n + 1) + 1 /\ (n + 1) + i - 1 = n + i
    OBVIOUS
  <2> QED BY <1>3, <1>4, <2>2
<1>7. DOMAIN r = 1 .. l - n
  BY <1>5
<1>8. \A i \in 1 .. l - n : n + i \in 1 .. l
  OBVIOUS
<1>9. IsRest(r, s, n, l)
  BY <1>4, <1>5, <1>6, <1>7, <1>8 DEF IsRest
<1> QED BY <1>9

\* The elements of two sequences that are joined.
LEMMA JoinIs ==
    ASSUME NEW X, NEW s \in Seq(X), NEW t \in Seq(X), NEW l \in Nat, l = Len(s),
           NEW n \in Nat, n = Len(t)
    PROVE  \E r \in Seq(X) : IsJoin(r, s, t, l, n)
<1>1. /\ s \o t \in Seq(X) /\ Len(s \o t) = Len(s) + Len(t)
      /\ \A i \in 1 .. Len(s) + Len(t) :
            (s \o t)[i] = IF i <= Len(s) THEN s[i] ELSE t[i - Len(s)]
  BY ConcatProperties
<1>2. PICK r \in Seq(X) : r = s \o t
  BY <1>1
<1>3. Len(r) = l + n /\ \A i \in 1 .. l + n : r[i] = IF i <= l THEN s[i] ELSE t[i - l]
  BY <1>1, <1>2
<1>4. \A i \in 1 .. l : r[i] = s[i]
  BY <1>3
<1>5. \A i \in 1 .. n : r[l + i] = t[i]
  <2>1. TAKE i \in 1 .. n
  <2>2. l + i \in 1 .. l + n /\ ~(l + i <= l) /\ (l + i) - l = i
    OBVIOUS
  <2> QED BY <1>3, <2>2
<1>6. DOMAIN r = 1 .. l + n
  BY <1>3
<1>7. IsJoin(r, s, t, l, n)
  BY <1>2, <1>3, <1>4, <1>5, <1>6 DEF IsJoin
<1> QED BY <1>7

IsRemove(r, s, i, l) ==
    /\ r = RemoveAt(s, i) /\ Len(r) = l - 1 /\ DOMAIN r = 1 .. l - 1
    /\ \A j \in 1 .. i - 1 : r[j] = s[j]
    /\ \A j \in i .. l - 1 : r[j] = s[j + 1]

\* The elements of a sequence with one taken out.
LEMMA RemoveIs ==
    ASSUME NEW X, NEW s \in Seq(X), NEW l \in Nat, l = Len(s), NEW i \in 1 .. l
    PROVE  \E r \in Seq(X) : IsRemove(r, s, i, l)
<1>1. PICK a \in Seq(X) : a = SubSeq(s, 1, i - 1) /\ Len(a) = i - 1 /\ \A j \in 1 .. i - 1 : a[j] = s[j]
  <2>1. 1 \in Int /\ i - 1 \in Int /\ \A j \in 1 .. i - 1 : s[j] \in X
    OBVIOUS
  <2>2. /\ SubSeq(s, 1, i - 1) \in Seq(X)
        /\ Len(SubSeq(s, 1, i - 1)) = IF 1 <= i - 1 THEN (i - 1) - 1 + 1 ELSE 0
        /\ \A j \in 1 .. (i - 1) - 1 + 1 : SubSeq(s, 1, i - 1)[j] = s[1 + j - 1]
    BY <2>1, SubSeqProperties
  <2>3. PICK a \in Seq(X) : a = SubSeq(s, 1, i - 1)
    BY <2>2
  <2>4. Len(a) = i - 1
    BY <2>2, <2>3
  <2>5. \A j \in 1 .. i - 1 : a[j] = s[j]
    <3>1. TAKE j \in 1 .. i - 1
    <3>2. j \in 1 .. (i - 1) - 1 + 1 /\ 1 + j - 1 = j
      OBVIOUS
    <3> QED BY <2>2, <2>3, <3>2
  <2> QED BY <2>3, <2>4, <2>5
<1>2. PICK c \in Seq(X) : IsRest(c, s, i, l)
  <2>1. i \in 0 .. l
    OBVIOUS
  <2> QED BY <2>1, RestIs
<1>3. PICK r \in Seq(X) : IsJoin(r, a, c, i - 1, l - i)
  <2>1. i - 1 = Len(a) /\ l - i = Len(c) /\ i - 1 \in Nat /\ l - i \in Nat
    BY <1>1, <1>2 DEF IsRest
  <2> QED BY <2>1, JoinIs
<1>4. r = RemoveAt(s, i)
  <2>1. r = SubSeq(s, 1, i - 1) \o SubSeq(s, i + 1, Len(s))
    BY <1>1, <1>2, <1>3 DEF IsJoin, IsRest
  <2> QED BY <2>1 DEF RemoveAt
<1>5. Len(r) = l - 1 /\ DOMAIN r = 1 .. l - 1
  <2>1. (i - 1) + (l - i) = l - 1
    OBVIOUS
  <2> QED BY <1>3, <2>1 DEF IsJoin
<1>6. \A j \in 1 .. i - 1 : r[j] = s[j]
  BY <1>1, <1>3 DEF IsJoin
<1>7. \A j \in i .. l - 1 : r[j] = s[j + 1]
  <2>1. TAKE j \in i .. l - 1
  <2>2. PICK m \in 1 .. l - i : m = j - i + 1
    OBVIOUS
  <2>3. (i - 1) + m = j /\ i + m = j + 1
    BY <2>2
  <2>4. r[(i - 1) + m] = c[m]
    BY <1>3, <2>2 DEF IsJoin
  <2>5. c[m] = s[i + m]
    BY <1>2, <2>2 DEF IsRest
  <2> QED BY <2>3, <2>4, <2>5
<1> QED BY <1>4, <1>5, <1>6, <1>7 DEF IsRemove

-----------------------------------------------------------------------------
(* Queues.                                                                 *)

LEMMA SeqIs ==
    ASSUME NEW X, NEW s \in Seq(X)
    PROVE  /\ Len(s) \in Nat /\ DOMAIN s = 1 .. Len(s) /\ (s = <<>> <=> Len(s) = 0)
           /\ \A i \in DOMAIN s : s[i] \in X
  OBVIOUS

LEMMA ContainsIs ==
    ASSUME NEW X, NEW s \in Seq(X), NEW x
    PROVE  /\ Contains(s, x) <=> \E i \in DOMAIN s : s[i] = x
           /\ Contains(s, x) => x \in X
  BY DEF Contains

LEMMA AppendIs ==
    ASSUME NEW X, NEW s \in Seq(X), NEW x \in X
    PROVE  /\ Append(s, x) \in Seq(X)
           /\ \A y : Contains(Append(s, x), y) <=> Contains(s, y) \/ y = x
           /\ \A p : Once(s, p) /\ ~Contains(s, x) /\ PoolOf[x] = p => Once(Append(s, x), p)
<1>1. PICK n \in Nat, t \in Seq(X) : /\ n = Len(s) /\ t = Append(s, x)
                                     /\ DOMAIN s = 1 .. n /\ DOMAIN t = 1 .. n + 1 /\ Len(t) = n + 1
                                     /\ t[n + 1] = x /\ \A i \in 1 .. n : t[i] = s[i]
  <2>1. Len(s) \in Nat /\ DOMAIN s = 1 .. Len(s)
    OBVIOUS
  <2>2. PICK n \in Nat : n = Len(s)
    BY <2>1
  <2>3. Append(s, x) \in Seq(X) /\ Len(Append(s, x)) = Len(s) + 1
    OBVIOUS
  <2>4. PICK t \in Seq(X) : t = Append(s, x)
    BY <2>3
  <2>5. Len(t) = n + 1 /\ DOMAIN t = 1 .. n + 1
    BY <2>2, <2>3, <2>4
  <2>6. n + 1 = Len(s) + 1 /\ Append(s, x)[Len(s) + 1] = x
    BY <2>2
  <2>7. \A i \in 1 .. n : Append(s, x)[i] = s[i]
    BY <2>2
  <2> QED BY <2>1, <2>2, <2>4, <2>5, <2>6, <2>7
<1>2. ASSUME NEW y PROVE Contains(t, y) <=> Contains(s, y) \/ y = x
  <2>1. ASSUME NEW i \in 1 .. n + 1, t[i] = y, y # x PROVE \E j \in 1 .. n : s[j] = y
    <3>1. i \in 1 .. n
      BY <1>1, <2>1
    <3> QED BY <1>1, <2>1, <3>1
  <2>2. ASSUME NEW i \in 1 .. n, s[i] = y PROVE \E j \in 1 .. n + 1 : t[j] = y
    <3>1. i \in 1 .. n + 1
      OBVIOUS
    <3> QED BY <1>1, <2>2, <3>1
  <2>3. n + 1 \in 1 .. n + 1
    OBVIOUS
  <2>4. (\E i \in 1 .. n + 1 : t[i] = y) <=> (\E i \in 1 .. n : s[i] = y) \/ y = x
    BY <1>1, <2>1, <2>2, <2>3
  <2>5. Contains(t, y) <=> \E i \in DOMAIN t : t[i] = y
    <3>1. DOMAIN t = 1 .. Len(t)
      BY <1>1
    <3> QED BY <3>1 DEF Contains
  <2>6. Contains(s, y) <=> \E i \in DOMAIN s : s[i] = y
    BY ContainsIs
  <2> QED BY <1>1, <2>4, <2>5, <2>6
<1>3. ASSUME NEW p, Once(s, p), ~Contains(s, x), PoolOf[x] = p PROVE Once(t, p)
  <2>1. \A i \in 1 .. n : s[i] # x /\ PoolOf[s[i]] = p
    BY <1>1, <1>3, ContainsIs DEF Once
  <2>2. ASSUME NEW i \in 1 .. n + 1 PROVE PoolOf[t[i]] = p
    BY <1>1, <1>3, <2>1
  <2>3. ASSUME NEW i \in 1 .. n + 1, NEW j \in 1 .. n + 1, t[i] = t[j] PROVE i = j
    <3>1. CASE i \in 1 .. n /\ j \in 1 .. n
      BY <1>1, <1>3, <2>3, <3>1 DEF Once
    <3>2. CASE i = n + 1 /\ j \in 1 .. n
      BY <1>1, <2>1, <2>3, <3>2
    <3>3. CASE i \in 1 .. n /\ j = n + 1
      BY <1>1, <2>1, <2>3, <3>3
    <3> QED BY <3>1, <3>2, <3>3
  <2> QED BY <1>1, <2>2, <2>3 DEF Once
<1> QED BY <1>1, <1>2, <1>3

LEMMA TailIs ==
    ASSUME NEW X, NEW s \in Seq(X), s # <<>>
    PROVE  /\ Head(s) \in X /\ Tail(s) \in Seq(X) /\ Contains(s, Head(s))
           /\ \A p : Once(s, p) => /\ Once(Tail(s), p)
                                   /\ \A y : Contains(Tail(s), y) <=> Contains(s, y) /\ y # Head(s)
<1>1. PICK n \in Nat, t \in Seq(X), h \in X :
         /\ n + 1 = Len(s) /\ t = Tail(s) /\ h = Head(s) /\ s[1] = h
         /\ DOMAIN s = 1 .. n + 1 /\ DOMAIN t = 1 .. n /\ \A i \in 1 .. n : t[i] = s[i + 1]
  <2>1. Len(s) \in Nat /\ Len(s) # 0
    OBVIOUS
  <2>2. PICK n \in Nat : n = Len(s) - 1 /\ n + 1 = Len(s)
    BY <2>1
  <2>3. Head(s) \in X /\ Tail(s) \in Seq(X) /\ Len(Tail(s)) = Len(s) - 1 /\ Head(s) = s[1]
    BY <2>1
  <2>4. \A i \in 1 .. n : Tail(s)[i] = s[i + 1]
    BY <2>1, <2>2, <2>3
  <2>5. DOMAIN s = 1 .. n + 1 /\ DOMAIN Tail(s) = 1 .. n
    BY <2>2, <2>3
  <2> QED BY <2>2, <2>3, <2>4, <2>5
<1>2. Contains(s, h)
  <2>1. 1 \in DOMAIN s
    BY <1>1
  <2> QED BY <1>1, <2>1, ContainsIs
<1>3. ASSUME NEW p, Once(s, p) PROVE Once(t, p)
  <2>1. \A i \in 1 .. n : i + 1 \in 1 .. n + 1
    OBVIOUS
  <2>2. \A i \in 1 .. n : PoolOf[t[i]] = p
    BY <1>1, <1>3, <2>1 DEF Once
  <2>3. ASSUME NEW i \in 1 .. n, NEW j \in 1 .. n, t[i] = t[j] PROVE i = j
    <3>1. s[i + 1] = s[j + 1]
      BY <1>1, <2>3
    <3>2. i + 1 = j + 1
      BY <1>1, <1>3, <2>1, <3>1 DEF Once
    <3> QED BY <3>2
  <2> QED BY <1>1, <2>2, <2>3 DEF Once
<1>4. ASSUME NEW p, Once(s, p), NEW y PROVE Contains(t, y) <=> Contains(s, y) /\ y # h
  <2>1. ASSUME NEW i \in 1 .. n, t[i] = y PROVE (\E j \in 1 .. n + 1 : s[j] = y) /\ y # h
    <3>1. i + 1 \in 1 .. n + 1 /\ 1 \in 1 .. n + 1 /\ i + 1 # 1 /\ s[i + 1] = y
      BY <1>1, <2>1
    <3>2. s[i + 1] # s[1]
      BY <1>1, <1>4, <3>1 DEF Once
    <3> QED BY <1>1, <3>1, <3>2
  <2>2. ASSUME NEW j \in 1 .. n + 1, s[j] = y, y # h PROVE \E i \in 1 .. n : t[i] = y
    <3>1. j # 1
      BY <1>1, <2>2
    <3>2. j - 1 \in 1 .. n /\ (j - 1) + 1 = j
      BY <3>1
    <3> QED BY <1>1, <2>2, <3>2
  <2>3. (\E i \in 1 .. n : t[i] = y) <=> (\E i \in 1 .. n + 1 : s[i] = y) /\ y # h
    BY <2>1, <2>2
  <2>5. Contains(t, y) <=> \E i \in DOMAIN t : t[i] = y
    <3>1. DOMAIN t = 1 .. Len(t)
      BY <1>1
    <3> QED BY <3>1 DEF Contains
  <2>6. Contains(s, y) <=> \E i \in DOMAIN s : s[i] = y
    BY ContainsIs
  <2> QED BY <1>1, <2>3, <2>5, <2>6
<1> QED BY <1>1, <1>2, <1>3, <1>4

LEMMA FirstIs ==
    ASSUME NEW s \in Seq(Client), NEW c \in Client
    PROVE  /\ <<c>> \o s \in Seq(Client)
           /\ \A y : Contains(<<c>> \o s, y) <=> Contains(s, y) \/ y = c
<1>1. PICK n \in Nat, t \in Seq(Client) :
         /\ n = Len(s) /\ t = <<c>> \o s /\ DOMAIN s = 1 .. n /\ DOMAIN t = 1 .. n + 1
         /\ t[1] = c /\ \A i \in 1 .. n : t[i + 1] = s[i]
  <2>1. <<c>> \in Seq(Client) /\ Len(<<c>>) = 1 /\ <<c>>[1] = c
    OBVIOUS
  <2>2. PICK n \in Nat : n = Len(s) /\ DOMAIN s = 1 .. n
    BY SeqIs
  <2>3. PICK t \in Seq(Client) : IsJoin(t, <<c>>, s, 1, n)
    BY <2>1, <2>2, JoinIs
  <2>4. DOMAIN t = 1 .. n + 1 /\ t = <<c>> \o s /\ t[1] = c
    BY <2>1, <2>3 DEF IsJoin
  <2>5. \A i \in 1 .. n : t[i + 1] = s[i]
    BY <2>3 DEF IsJoin
  <2> QED BY <2>2, <2>4, <2>5
<1>2. ASSUME NEW y PROVE Contains(t, y) <=> Contains(s, y) \/ y = c
  <2>1. ASSUME NEW i \in 1 .. n + 1, t[i] = y, y # c PROVE \E j \in 1 .. n : s[j] = y
    <3>1. i - 1 \in 1 .. n /\ (i - 1) + 1 = i
      BY <1>1, <2>1
    <3> QED BY <1>1, <2>1, <3>1
  <2>2. ASSUME NEW i \in 1 .. n, s[i] = y PROVE \E j \in 1 .. n + 1 : t[j] = y
    <3>1. i + 1 \in 1 .. n + 1
      OBVIOUS
    <3> QED BY <1>1, <2>2, <3>1
  <2>3. 1 \in 1 .. n + 1
    OBVIOUS
  <2>4. (\E i \in 1 .. n + 1 : t[i] = y) <=> (\E i \in 1 .. n : s[i] = y) \/ y = c
    BY <1>1, <2>1, <2>2, <2>3
  <2>5. Contains(t, y) <=> \E i \in DOMAIN t : t[i] = y
    <3>1. DOMAIN t = 1 .. Len(t)
      BY <1>1
    <3> QED BY <3>1 DEF Contains
  <2>6. Contains(s, y) <=> \E i \in DOMAIN s : s[i] = y
    BY ContainsIs
  <2> QED BY <1>1, <2>4, <2>5, <2>6
<1> QED BY <1>1, <1>2

LEMMA WithoutIs ==
    ASSUME NEW s \in Seq(Client), NEW x
    PROVE  /\ Without(s, x) \in Seq(Client)
           /\ \A y : y # x => (Contains(Without(s, x), y) <=> Contains(s, y))
           /\ \A p : Once(s, p) => Once(Without(s, x), p) /\ ~Contains(Without(s, x), x)
<1>1. CASE ~Contains(s, x)
  BY <1>1 DEF Without
<1>2. CASE Contains(s, x)
  <2>1. PICK l \in Nat : l = Len(s) /\ DOMAIN s = 1 .. l
    BY SeqIs
  <2>2. PICK i \in 1 .. l : i = (CHOOSE j \in DOMAIN s : s[j] = x) /\ s[i] = x
    <3>1. \E j \in DOMAIN s : s[j] = x
      BY <1>2, ContainsIs
    <3> QED BY <2>1, <3>1
  <2>3. PICK r \in Seq(Client) : IsRemove(r, s, i, l)
    BY <2>1, RemoveIs
  <2>4. Without(s, x) = r
    BY <1>2, <2>2, <2>3 DEF Without, IsRemove
  <2>5. DOMAIN r = 1 .. l - 1 /\ \A j \in 1 .. l - 1 : r[j] = IF j < i THEN s[j] ELSE s[j + 1]
    <3>1. DOMAIN r = 1 .. l - 1
      BY <2>3 DEF IsRemove
    <3>2. ASSUME NEW j \in 1 .. l - 1 PROVE r[j] = IF j < i THEN s[j] ELSE s[j + 1]
      <4>1. CASE j < i
        <5>1. j \in 1 .. i - 1
          BY <4>1
        <5> QED BY <2>3, <4>1, <5>1 DEF IsRemove
      <4>2. CASE ~(j < i)
        <5>1. j \in i .. l - 1
          BY <4>2
        <5> QED BY <2>3, <4>2, <5>1 DEF IsRemove
      <4> QED BY <4>1, <4>2
    <3> QED BY <3>1, <3>2
  <2>6. ASSUME NEW y, y # x PROVE Contains(r, y) <=> Contains(s, y)
    <3>1. ASSUME NEW j \in 1 .. l - 1, r[j] = y PROVE \E m \in 1 .. l : s[m] = y
      <4>1. j \in 1 .. l /\ j + 1 \in 1 .. l
        OBVIOUS
      <4> QED BY <2>5, <3>1, <4>1
    <3>2. ASSUME NEW m \in 1 .. l, s[m] = y PROVE \E j \in 1 .. l - 1 : r[j] = y
      <4>1. m # i
        BY <2>2, <2>6, <3>2
      <4>2. CASE m < i
        <5>1. m \in 1 .. l - 1
          BY <4>2
        <5> QED BY <2>5, <3>2, <4>2, <5>1
      <4>3. CASE m > i
        <5>1. m - 1 \in 1 .. l - 1 /\ ~(m - 1 < i) /\ (m - 1) + 1 = m
          BY <4>3
        <5>2. r[m - 1] = s[(m - 1) + 1]
          BY <2>5, <5>1
        <5> QED BY <3>2, <5>1, <5>2
      <4> QED BY <4>1, <4>2, <4>3
    <3>3. Contains(r, y) <=> \E j \in DOMAIN r : r[j] = y
      BY <2>3, ContainsIs
    <3>4. Contains(s, y) <=> \E j \in DOMAIN s : s[j] = y
      BY ContainsIs
    <3> QED BY <2>1, <2>5, <3>1, <3>2, <3>3, <3>4
  <2>7. ASSUME NEW p, Once(s, p) PROVE Once(r, p) /\ ~Contains(r, x)
    <3>1. /\ \A j \in 1 .. l : PoolOf[s[j]] = p
          /\ \A j, m \in 1 .. l : s[j] = s[m] => j = m
      BY <2>1, <2>7 DEF Once
    <3>2. ASSUME NEW j \in 1 .. l - 1
          PROVE  \E m \in 1 .. l : m # i /\ r[j] = s[m] /\ m = IF j < i THEN j ELSE j + 1
      <4>1. CASE j < i
        <5>1. j \in 1 .. l
          OBVIOUS
        <5> QED BY <2>5, <4>1, <5>1
      <4>2. CASE ~(j < i)
        <5>1. j + 1 \in 1 .. l /\ j + 1 # i
          BY <4>2
        <5>2. r[j] = s[j + 1]
          BY <2>5, <4>2
        <5> QED BY <4>2, <5>1, <5>2
      <4> QED BY <4>1, <4>2
    <3>3. \A j \in 1 .. l - 1 : PoolOf[r[j]] = p /\ r[j] # x
      <4>1. TAKE j \in 1 .. l - 1
      <4>2. PICK m \in 1 .. l : m # i /\ r[j] = s[m]
        BY <3>2
      <4> QED BY <2>2, <3>1, <4>2
    <3>4. \A j, k \in 1 .. l - 1 : r[j] = r[k] => j = k
      <4>1. TAKE j, k \in 1 .. l - 1
      <4>2. HAVE r[j] = r[k]
      <4>3. PICK m \in 1 .. l : m # i /\ r[j] = s[m] /\ m = IF j < i THEN j ELSE j + 1
        BY <3>2
      <4>4. PICK n \in 1 .. l : n # i /\ r[k] = s[n] /\ n = IF k < i THEN k ELSE k + 1
        BY <3>2
      <4>5. m = n
        BY <3>1, <4>2, <4>3, <4>4
      <4> QED BY <4>3, <4>4, <4>5
    <3>5. Once(r, p)
      BY <2>5, <3>3, <3>4 DEF Once
    <3>6. ~Contains(r, x)
      BY <2>3, <2>5, <3>3, ContainsIs
    <3> QED BY <3>5, <3>6
  <2> QED BY <2>3, <2>4, <2>6, <2>7
<1> QED BY <1>1, <1>2

LEMMA ToSeqIs ==
    ASSUME NEW S \in SUBSET Client
    PROVE  SetToSeq(S) \in Seq(Client) /\ \A c \in S : Contains(SetToSeq(S), c)
<1>1. PICK n \in Nat : n = Cardinality(S) /\ ExistsBijection(1 .. n, S)
  <2>1. IsFiniteSet(Client)
    BY RedisConstants
  <2>2. IsFiniteSet(S)
    BY <2>1, FS_Subset
  <2> QED BY <2>2, FS_CardinalityType
<1>2. PICK g \in [1 .. n -> S] : IsInjective(g) /\ \A c \in S : \E i \in 1 .. n : g[i] = c
  <2>1. PICK g : g \in Injection(1 .. n, S) /\ g \in Surjection(1 .. n, S)
    BY <1>1 DEF ExistsBijection, Bijection
  <2>2. g \in [1 .. n -> S] /\ IsInjective(g)
    BY <2>1 DEF Injection
  <2>3. \A c \in S : \E i \in 1 .. n : g[i] = c
    BY <2>1 DEF Surjection
  <2> QED BY <2>2, <2>3
<1>3. PICK f \in [1 .. n -> S] : f = SetToSeq(S) /\ IsInjective(f)
  <2>1. SetToSeq(S) = CHOOSE f \in [1 .. n -> S] : IsInjective(f)
    BY <1>1 DEF SetToSeq
  <2> QED BY <1>2, <2>1
<1>4. f \in Injection(1 .. n, S)
  BY <1>3 DEF Injection
<1>5. f \in Surjection(1 .. n, S)
  <2>1. IsFiniteSet(S) /\ Cardinality(S) = n
    <3>1. IsFiniteSet(Client)
      BY RedisConstants
    <3>2. IsFiniteSet(S)
      BY <3>1, FS_Subset
    <3> QED BY <1>1, <3>2
  <2>2. IsFiniteSet(1 .. n) /\ Cardinality(1 .. n) = n
    <3>1. IsFiniteSet(1 .. n) /\ Cardinality(1 .. n) = IF 1 > n THEN 0 ELSE n - 1 + 1
      BY FS_Interval
    <3> QED BY <3>1
  <2>3. Cardinality(1 .. n) = Cardinality(S)
    BY <2>1, <2>2
  <2> QED BY <1>4, <2>1, <2>3, FS_Injection
<1>6. \A c \in S : \E i \in 1 .. n : f[i] = c
  BY <1>5 DEF Surjection
<1>7. f \in Seq(Client) /\ Len(f) = n
  <2>1. f \in [1 .. n -> Client]
    BY <1>3
  <2> QED BY <2>1
<1>8. \A c \in S : Contains(f, c)
  BY <1>6, <1>7 DEF Contains
<1> QED BY <1>3, <1>7, <1>8

-----------------------------------------------------------------------------
(* Counting.                                                               *)

LEMMA TimesIs ==
    ASSUME NEW X, NEW s \in Seq(X), NEW q
    PROVE  /\ IsFiniteSet(PosOf(s, q)) /\ Times(s, q) = Cardinality(PosOf(s, q))
           /\ Times(s, q) \in Nat
           /\ s = <<>> => Times(s, q) = 0
<1>1. IsFiniteSet(PosOf(s, q))
  <2>1. Len(s) \in Nat /\ DOMAIN s = 1 .. Len(s)
    BY SeqIs
  <2>2. IsFiniteSet(1 .. Len(s))
    BY <2>1, FS_Interval
  <2>3. PosOf(s, q) \subseteq 1 .. Len(s)
    BY <2>1 DEF PosOf
  <2> QED BY <2>2, <2>3, FS_Subset
<1>2. Times(s, q) = Cardinality(PosOf(s, q))
  BY DEF Times, PosOf
<1>3. Times(s, q) \in Nat
  BY <1>1, <1>2, FS_CardinalityType
<1>4. ASSUME s = <<>> PROVE Times(s, q) = 0
  <2>1. PosOf(s, q) = {}
    BY <1>4 DEF PosOf
  <2> QED BY <1>2, <2>1, FS_EmptySet
<1> QED BY <1>1, <1>2, <1>3, <1>4

LEMMA TimesAppend ==
    ASSUME NEW X, NEW s \in Seq(X), NEW x \in X, NEW q
    PROVE  Times(Append(s, x), q) = Times(s, q) + (IF x = q THEN 1 ELSE 0)
<1>1. PICK n \in Nat : n = Len(s) /\ DOMAIN s = 1 .. n
  BY SeqIs
<1>2. PICK t \in Seq(X) : t = Append(s, x) /\ DOMAIN t = 1 .. n + 1
                          /\ t[n + 1] = x /\ \A i \in 1 .. n : t[i] = s[i]
  <2>1. Append(s, x) \in Seq(X) /\ Len(Append(s, x)) = Len(s) + 1
    OBVIOUS
  <2>2. PICK t \in Seq(X) : t = Append(s, x)
    BY <2>1
  <2>3. DOMAIN t = 1 .. n + 1
    BY <1>1, <2>1, <2>2
  <2>4. Append(s, x)[Len(s) + 1] = x
    BY <1>1
  <2>5. \A i \in 1 .. n : Append(s, x)[i] = s[i]
    BY <1>1
  <2> QED BY <1>1, <2>2, <2>3, <2>4, <2>5
<1>3. PosOf(t, q) = IF x = q THEN PosOf(s, q) \cup {n + 1} ELSE PosOf(s, q)
  <2>1. ASSUME NEW i PROVE i \in 1 .. n + 1 <=> i \in 1 .. n \/ i = n + 1
    OBVIOUS
  <2>2. ASSUME NEW i PROVE i \in PosOf(t, q) <=> i \in PosOf(s, q) \/ (i = n + 1 /\ x = q)
    <3>1. i \in 1 .. n => i # n + 1
      OBVIOUS
    <3> QED BY <1>1, <1>2, <2>1, <3>1 DEF PosOf
  <2> QED BY <2>2
<1>4. n + 1 \notin PosOf(s, q)
  BY <1>1 DEF PosOf
<1>5. IsFiniteSet(PosOf(s, q)) /\ Times(s, q) = Cardinality(PosOf(s, q)) /\ Times(s, q) \in Nat
  BY TimesIs
<1>6. Times(t, q) = Cardinality(PosOf(t, q))
  BY TimesIs
<1>7. Cardinality(PosOf(s, q) \cup {n + 1}) = Cardinality(PosOf(s, q)) + 1
  BY <1>4, <1>5, FS_AddElement
<1> QED BY <1>2, <1>3, <1>5, <1>6, <1>7

LEMMA TimesTail ==
    ASSUME NEW X, NEW s \in Seq(X), s # <<>>, NEW q
    PROVE  Times(Tail(s), q) = Times(s, q) - (IF Head(s) = q THEN 1 ELSE 0)
<1>1. PICK n \in Nat, t \in Seq(X) :
         /\ t = Tail(s) /\ s[1] = Head(s)
         /\ DOMAIN s = 1 .. n + 1 /\ DOMAIN t = 1 .. n /\ \A i \in 1 .. n : t[i] = s[i + 1]
  <2>1. Len(s) \in Nat /\ Len(s) # 0
    OBVIOUS
  <2>2. PICK n \in Nat : n = Len(s) - 1 /\ n + 1 = Len(s)
    BY <2>1
  <2>3. Tail(s) \in Seq(X) /\ Len(Tail(s)) = Len(s) - 1 /\ Head(s) = s[1]
    BY <2>1
  <2>4. \A i \in 1 .. n : Tail(s)[i] = s[i + 1]
    BY <2>1, <2>2, <2>3
  <2>5. DOMAIN s = 1 .. n + 1 /\ DOMAIN Tail(s) = 1 .. n
    BY <2>2, <2>3
  <2> QED BY <2>2, <2>3, <2>4, <2>5
<1> DEFINE R == PosOf(s, q) \ {1}
<1>2. IsFiniteSet(PosOf(s, q)) /\ Times(s, q) = Cardinality(PosOf(s, q)) /\ Times(s, q) \in Nat
  BY TimesIs
<1>3. IsFiniteSet(PosOf(t, q)) /\ Times(t, q) = Cardinality(PosOf(t, q))
  BY TimesIs
<1>4. IsFiniteSet(R) /\ Cardinality(R) = IF 1 \in PosOf(s, q) THEN Times(s, q) - 1 ELSE Times(s, q)
  BY <1>2, FS_RemoveElement
<1>5. 1 \in PosOf(s, q) <=> Head(s) = q
  <2>1. 1 \in 1 .. n + 1
    OBVIOUS
  <2> QED BY <1>1, <2>1 DEF PosOf
<1>6. Cardinality(PosOf(t, q)) = Cardinality(R)
  <2> DEFINE f == [i \in PosOf(t, q) |-> i + 1]
  <2>1. \A i \in PosOf(t, q) : i \in 1 .. n /\ i + 1 \in R
    <3>1. TAKE i \in PosOf(t, q)
    <3>2. i \in 1 .. n /\ t[i] = q
      BY <1>1, <3>1 DEF PosOf
    <3>3. i + 1 \in 1 .. n + 1 /\ i + 1 # 1 /\ s[i + 1] = q
      BY <1>1, <3>2
    <3>4. i + 1 \in PosOf(s, q)
      BY <1>1, <3>3 DEF PosOf
    <3> QED BY <3>2, <3>3, <3>4
  <2>2. \A j \in R : \E i \in PosOf(t, q) : f[i] = j
    <3>1. TAKE j \in R
    <3>2. j \in 1 .. n + 1 /\ j # 1 /\ s[j] = q
      BY <1>1, <3>1 DEF PosOf
    <3>3. j - 1 \in 1 .. n /\ (j - 1) + 1 = j
      BY <3>2
    <3>4. t[j - 1] = q
      BY <1>1, <3>2, <3>3
    <3>5. j - 1 \in PosOf(t, q)
      BY <1>1, <3>3, <3>4 DEF PosOf
    <3> QED BY <3>3, <3>5
  <2>3. f \in [PosOf(t, q) -> R]
    BY <2>1
  <2>4. \A i, j \in PosOf(t, q) : f[i] = f[j] => i = j
    BY <2>1
  <2>5. f \in Bijection(PosOf(t, q), R)
    <3>1. f \in Injection(PosOf(t, q), R)
      BY <2>3, <2>4 DEF Injection, IsInjective
    <3>2. f \in Surjection(PosOf(t, q), R)
      BY <2>2, <2>3 DEF Surjection
    <3> QED BY <3>1, <3>2 DEF Bijection
  <2>6. ExistsBijection(PosOf(t, q), R)
    BY <2>5 DEF ExistsBijection
  <2> HIDE DEF f, R
  <2> QED BY <1>3, <2>6, FS_Bijection
<1> HIDE DEF R
<1> QED BY <1>1, <1>2, <1>3, <1>4, <1>5, <1>6

LEMMA TimesPutBack ==
    ASSUME NEW s \in Seq(Commands), s # <<>>
    PROVE  PutBack(s) \in Seq(Commands) /\ \A q : Times(PutBack(s), q) = Times(s, q)
<1>1. Head(s) \in Commands /\ Tail(s) \in Seq(Commands)
  OBVIOUS
<1>2. PICK t \in Seq(Commands), h \in Commands : t = Tail(s) /\ h = Head(s)
  BY <1>1
<1>3. Append(t, h) \in Seq(Commands)
  OBVIOUS
<1>4. ASSUME NEW q PROVE Times(Append(t, h), q) = Times(s, q)
  <2>1. Times(t, q) = Times(s, q) - (IF h = q THEN 1 ELSE 0)
    BY <1>2, TimesTail
  <2>2. Times(Append(t, h), q) = Times(t, q) + (IF h = q THEN 1 ELSE 0)
    BY TimesAppend
  <2>3. Times(s, q) \in Nat
    BY TimesIs
  <2> QED BY <2>1, <2>2, <2>3
<1> QED BY <1>2, <1>3, <1>4 DEF PutBack

LEMMA PoolsFinite == IsFiniteSet(Pool)
<1>1. PoolOf \in Surjection(Client, Pool)
  BY RedisConstants DEF Surjection, ClientsOf
<1> QED BY <1>1, RedisConstants, FS_Surjection

LEMMA HeldIs ==
    ASSUME NEW w \in Worlds, NEW q
    PROVE  IsFiniteSet(HeldBy(w, q)) /\ Cardinality(HeldBy(w, q)) \in Nat
<1>1. IsFiniteSet(HeldBy(w, q))
  <2>1. HeldBy(w, q) \subseteq Client
    BY DEF HeldBy
  <2> QED BY <2>1, RedisConstants, FS_Subset
<1> QED BY <1>1, FS_CardinalityType

LEMMA TaskIs ==
    ASSUME NEW w \in Worlds, NEW p \in Pool
    PROVE  w.pool[p].task \in Seq(Commands) /\ w.pool[p].alive \in Seq(Client)
           /\ w.pool[p].idle \in Seq(Client)
  BY DEF Worlds, PoolRecord

LEMMA WaitsIs ==
    ASSUME NEW w \in Worlds, NEW q
    PROVE  IsFiniteSet(WaitsIn(w, q)) /\ Cardinality(WaitsIn(w, q)) \in Nat
<1> DEFINE F == {{p} \X PosOf(w.pool[p].task, q) : p \in Pool}
           g == [p \in Pool |-> {p} \X PosOf(w.pool[p].task, q)]
<1>1. IsFiniteSet(F)
  <2>1. g \in Surjection(Pool, F)
    BY DEF Surjection
  <2> HIDE DEF F, g
  <2> QED BY <2>1, PoolsFinite, FS_Surjection
<1>2. \A S \in F : IsFiniteSet(S)
  <2>1. ASSUME NEW p \in Pool PROVE IsFiniteSet({p} \X PosOf(w.pool[p].task, q))
    <3>1. IsFiniteSet({p})
      BY FS_Singleton
    <3>2. IsFiniteSet(PosOf(w.pool[p].task, q))
      BY TaskIs, TimesIs
    <3> QED BY <3>1, <3>2, FS_Product
  <2> QED BY <2>1
<1>3. WaitsIn(w, q) = UNION F
  BY DEF WaitsIn
<1>4. IsFiniteSet(UNION F)
  <2> HIDE DEF F
  <2> QED BY <1>1, <1>2, FS_UNION
<1>5. IsFiniteSet(WaitsIn(w, q))
  BY <1>3, <1>4
<1> QED BY <1>5, FS_CardinalityType

\* Only the queue of p may differ.
LEMMA WaitsOther ==
    ASSUME NEW w \in Worlds, NEW v \in Worlds, NEW p \in Pool, NEW q,
           \A o \in Pool \ {p} : v.pool[o].task = w.pool[o].task
    PROVE  Cardinality(WaitsIn(v, q))
              = Cardinality(WaitsIn(w, q)) - Times(w.pool[p].task, q) + Times(v.pool[p].task, q)
<1> DEFINE Rest(u) == UNION {{o} \X PosOf(u.pool[o].task, q) : o \in Pool \ {p}}
           Here(u) == {p} \X PosOf(u.pool[p].task, q)
<1>1. Rest(v) = Rest(w)
  OBVIOUS
<1>2. ASSUME NEW u \in Worlds
      PROVE  /\ Cardinality(WaitsIn(u, q)) = Cardinality(Rest(u)) + Times(u.pool[p].task, q)
             /\ Cardinality(Rest(u)) \in Nat /\ Times(u.pool[p].task, q) \in Nat
  <2>1. WaitsIn(u, q) = Rest(u) \cup Here(u)
    BY DEF WaitsIn
  <2>2. Rest(u) \cap Here(u) = {}
    OBVIOUS
  <2>3. IsFiniteSet(PosOf(u.pool[p].task, q)) /\ Times(u.pool[p].task, q) \in Nat
        /\ Times(u.pool[p].task, q) = Cardinality(PosOf(u.pool[p].task, q))
    BY TaskIs, TimesIs
  <2>4. IsFiniteSet({p}) /\ Cardinality({p}) = 1
    BY FS_Singleton
  <2>5. IsFiniteSet(Here(u)) /\ Cardinality(Here(u)) = 1 * Cardinality(PosOf(u.pool[p].task, q))
    BY <2>3, <2>4, FS_Product
  <2>6. Cardinality(Here(u)) = Times(u.pool[p].task, q)
    BY <2>3, <2>5
  <2>7. IsFiniteSet(WaitsIn(u, q))
    BY WaitsIs
  <2>8. IsFiniteSet(Rest(u))
    <3>1. Rest(u) \subseteq WaitsIn(u, q)
      BY <2>1
    <3> HIDE DEF Rest
    <3> QED BY <2>7, <3>1, FS_Subset
  <2> HIDE DEF Rest, Here
  <2>9. Cardinality(Rest(u)) \in Nat
    BY <2>8, FS_CardinalityType
  <2>10. Cardinality(Rest(u) \cup Here(u))
            = Cardinality(Rest(u)) + Cardinality(Here(u)) - Cardinality(Rest(u) \cap Here(u))
    BY <2>5, <2>8, FS_Union
  <2>11. Cardinality({}) = 0
    BY FS_EmptySet
  <2>12. Cardinality(WaitsIn(u, q)) = Cardinality(Rest(u) \cup Here(u))
    BY <2>1
  <2>13. Cardinality(Rest(u) \cap Here(u)) = 0
    BY <2>2, <2>11
  <2>14. Cardinality(WaitsIn(u, q)) = Cardinality(Rest(u)) + Times(u.pool[p].task, q)
    BY <2>3, <2>6, <2>9, <2>10, <2>12, <2>13
  <2> QED BY <2>3, <2>9, <2>14
<1>3. Cardinality(Rest(v)) = Cardinality(Rest(w))
  BY <1>1
<1> HIDE DEF Rest, Here
<1> QED BY <1>2, <1>3

\* Only one entry differs, which is r.
PoolIs(w, v, p, r) ==
    /\ v \in Worlds /\ v.client = w.client /\ v.command = w.command
    /\ v.pool = [w.pool EXCEPT ![p] = r]
ClientIs(w, v, c, r) ==
    /\ v \in Worlds /\ v.pool = w.pool /\ v.command = w.command
    /\ v.client = [w.client EXCEPT ![c] = r]
CommandIs(w, v, q, r) ==
    /\ v \in Worlds /\ v.pool = w.pool /\ v.client = w.client
    /\ v.command = [w.command EXCEPT ![q] = r]

\* From w to v the books of q move by d and s, and those of no other command.
By(r, q, d) == IF r = q THEN d ELSE 0
Shift(w, v, q, d, s) ==
    /\ Gone(w) => Gone(v)
    /\ \A r \in Commands :
          /\ Debt(v, r) = Debt(w, r) + By(r, q, d)
          /\ Gone(v) \/ Slack(v, r) = Slack(w, r) + By(r, q, s)

-----------------------------------------------------------------------------
(* Books.                                                                  *)

LEMMA BooksInt ==
    ASSUME NEW w \in Worlds, NEW q \in Commands
    PROVE  /\ Uses(w, q) \in Int /\ Debt(w, q) \in Int /\ Slack(w, q) \in Int
           /\ w.command[q].asked \in Int /\ w.command[q].answers \in Int
           /\ w.command[q].refs \in Int
<1>1. Uses(w, q) \in Int
  BY HeldIs, WaitsIs DEF Uses
<1>2. w.command[q] \in CommandRecord
  BY DEF Worlds
<1> QED BY <1>1, <1>2 DEF CommandRecord, Debt, Slack

LEMMA ShiftJoin ==
    ASSUME NEW u \in Worlds, NEW v \in Worlds, NEW w \in Worlds, NEW q,
           NEW d \in Int, NEW s \in Int, NEW e \in Int, NEW t \in Int,
           Shift(u, v, q, d, s), Shift(v, w, q, e, t)
    PROVE  Shift(u, w, q, d + e, s + t)
<1>1. ASSUME NEW r \in Commands
      PROVE  /\ Debt(w, r) = Debt(u, r) + By(r, q, d + e)
             /\ Gone(w) \/ Slack(w, r) = Slack(u, r) + By(r, q, s + t)
  <2>1. /\ Debt(u, r) \in Int /\ Debt(v, r) \in Int /\ Debt(w, r) \in Int
        /\ Slack(u, r) \in Int /\ Slack(v, r) \in Int /\ Slack(w, r) \in Int
    BY BooksInt
  <2>2. /\ Debt(v, r) = Debt(u, r) + By(r, q, d) /\ Debt(w, r) = Debt(v, r) + By(r, q, e)
        /\ Gone(v) \/ Slack(v, r) = Slack(u, r) + By(r, q, s)
        /\ Gone(w) \/ Slack(w, r) = Slack(v, r) + By(r, q, t)
        /\ Gone(v) => Gone(w)
    BY DEF Shift
  <2> QED BY <2>1, <2>2 DEF By
<1> QED BY <1>1 DEF Shift

\* A move by nothing is one for every command.
LEMMA ShiftNone ==
    ASSUME NEW v \in Worlds, NEW w \in Worlds, NEW q, NEW r, Shift(v, w, q, 0, 0)
    PROVE  Shift(v, w, r, 0, 0)
  BY DEF Shift, By

LEMMA ShiftSelf == ASSUME NEW w \in Worlds, NEW q PROVE Shift(w, w, q, 0, 0)
<1>1. \A r \in Commands : Debt(w, r) = Debt(w, r) + 0 /\ Slack(w, r) = Slack(w, r) + 0
  BY BooksInt
<1> QED BY <1>1 DEF Shift, By

Alone(w, v) == \A p \in Pool : w.pool[p].state = "deleted" => v.pool[p].state = "deleted"

\* The uses of a command tell how its books move.
LEMMA ShiftBy ==
    ASSUME NEW w \in Worlds, NEW v \in Worlds, NEW q, NEW n \in Int, NEW a \in Int, NEW f \in Int,
           Alone(w, v),
           \A r \in Commands :
              /\ Uses(v, r) = Uses(w, r) + By(r, q, n)
              /\ v.command[r].asked - v.command[r].answers
                    = w.command[r].asked - w.command[r].answers + By(r, q, a)
              /\ v.command[r].refs = w.command[r].refs + By(r, q, f)
    PROVE  Shift(w, v, q, a - n, f - n)
<1>1. Gone(w) => Gone(v)
  BY DEF Gone, Alone
<1>2. ASSUME NEW r \in Commands
      PROVE  /\ Debt(v, r) = Debt(w, r) + By(r, q, a - n)
             /\ Slack(v, r) = Slack(w, r) + By(r, q, f - n)
  <2>1. /\ Uses(w, r) \in Int /\ w.command[r].asked \in Int /\ w.command[r].answers \in Int
        /\ w.command[r].refs \in Int
    BY BooksInt
  <2>2. /\ Uses(v, r) \in Int /\ v.command[r].asked \in Int /\ v.command[r].answers \in Int
        /\ v.command[r].refs \in Int
    BY BooksInt
  <2>3. /\ By(r, q, n) \in Int /\ By(r, q, a) \in Int /\ By(r, q, f) \in Int
        /\ By(r, q, a - n) = By(r, q, a) - By(r, q, n)
        /\ By(r, q, f - n) = By(r, q, f) - By(r, q, n)
    BY DEF By
  <2> QED BY <2>1, <2>2, <2>3 DEF Debt, Slack
<1> QED BY <1>1, <1>2 DEF Shift

LEMMA SameCommand ==
    ASSUME NEW w \in Worlds, NEW v \in Worlds, v.command = w.command, NEW q, NEW r \in Commands
    PROVE  /\ v.command[r].asked - v.command[r].answers
                 = w.command[r].asked - w.command[r].answers + By(r, q, 0)
           /\ v.command[r].refs = w.command[r].refs + By(r, q, 0)
  BY BooksInt DEF By

\* Tasks, connections' commands and books as they were.
LEMMA ShiftSame ==
    ASSUME NEW w \in Worlds, NEW v \in Worlds, NEW q, Alone(w, v), v.command = w.command,
           \A c \in Client : v.client[c].cmd = w.client[c].cmd,
           \A p \in Pool : v.pool[p].task = w.pool[p].task
    PROVE  Shift(w, v, q, 0, 0)
<1>1. \A r \in Commands : Uses(v, r) = Uses(w, r) + By(r, q, 0)
  <2>1. TAKE r \in Commands
  <2>2. HeldBy(v, r) = HeldBy(w, r) /\ WaitsIn(v, r) = WaitsIn(w, r)
    BY DEF HeldBy, WaitsIn
  <2> QED BY <2>2, BooksInt DEF Uses, By
<1>2. Shift(w, v, q, 0 - 0, 0 - 0)
  BY <1>1, SameCommand, ShiftBy
<1> QED BY <1>2

\* The queue of p is another.
LEMMA ShiftTask ==
    ASSUME NEW w \in Worlds, NEW v \in Worlds, NEW p \in Pool, NEW r \in PoolRecord, PoolIs(w, v, p, r),
           r.state = w.pool[p].state, NEW q, NEW n \in Int,
           \A o \in Commands : Times(r.task, o) = Times(w.pool[p].task, o) + By(o, q, n)
    PROVE  Shift(w, v, q, 0 - n, 0 - n)
<1>1. v.pool[p] = r /\ \A o \in Pool \ {p} : v.pool[o] = w.pool[o]
  BY DEF PoolIs, Worlds
<1>2. Alone(w, v)
  BY <1>1 DEF Alone
<1>3. ASSUME NEW o \in Commands PROVE Uses(v, o) = Uses(w, o) + By(o, q, n)
  <2>1. HeldBy(v, o) = HeldBy(w, o)
    BY DEF HeldBy, PoolIs
  <2>2. Cardinality(WaitsIn(v, o))
           = Cardinality(WaitsIn(w, o)) - Times(w.pool[p].task, o) + Times(r.task, o)
    BY <1>1, WaitsOther
  <2>3. Cardinality(WaitsIn(w, o)) \in Nat /\ Cardinality(HeldBy(w, o)) \in Nat
        /\ Times(w.pool[p].task, o) \in Nat
    BY WaitsIs, HeldIs, TaskIs, TimesIs
  <2>4. By(o, q, n) \in Int
    BY DEF By
  <2> QED BY <2>1, <2>2, <2>3, <2>4 DEF Uses
<1>4. v.command = w.command
  BY DEF PoolIs
<1>5. \A o \in Commands :
         /\ v.command[o].asked - v.command[o].answers
               = w.command[o].asked - w.command[o].answers + By(o, q, 0)
         /\ v.command[o].refs = w.command[o].refs + By(o, q, 0)
  BY <1>4, SameCommand
<1>6. v \in Worlds
  BY DEF PoolIs
<1> QED BY <1>2, <1>3, <1>5, <1>6, ShiftBy

\* A connection takes a command, or gives it back.
LEMMA ShiftTake ==
    ASSUME NEW w \in Worlds, NEW v \in Worlds, NEW c \in Client, NEW r \in ClientRecord,
           ClientIs(w, v, c, r), w.client[c].cmd = Null, NEW q \in Commands, r.cmd = q
    PROVE  Shift(w, v, q, -1, -1)
<1>1. v.client[c] = r /\ \A e \in Client \ {c} : v.client[e] = w.client[e]
  BY DEF ClientIs, Worlds
<1>2. Alone(w, v) /\ v.command = w.command
  BY DEF Alone, ClientIs
<1>3. ASSUME NEW o \in Commands PROVE Uses(v, o) = Uses(w, o) + By(o, q, 1)
  <2>1. WaitsIn(v, o) = WaitsIn(w, o)
    BY DEF WaitsIn, ClientIs
  <2>2. o # Null
    BY RedisConstants
  <2>3. HeldBy(v, o) = IF o = q THEN HeldBy(w, o) \cup {c} ELSE HeldBy(w, o)
    BY <1>1, <2>2 DEF HeldBy
  <2>4. c \notin HeldBy(w, o)
    BY <2>2 DEF HeldBy
  <2>5. IsFiniteSet(HeldBy(w, o)) /\ Cardinality(HeldBy(w, o)) \in Nat
        /\ Cardinality(WaitsIn(w, o)) \in Nat
    BY HeldIs, WaitsIs
  <2>6. Cardinality(HeldBy(w, o) \cup {c}) = Cardinality(HeldBy(w, o)) + 1
    BY <2>4, <2>5, FS_AddElement
  <2>7. CASE o = q
    <3>1. HeldBy(v, o) = HeldBy(w, o) \cup {c}
      BY <2>3, <2>7
    <3> QED BY <2>1, <2>5, <2>6, <2>7, <3>1 DEF Uses, By
  <2>8. CASE o # q
    <3>1. HeldBy(v, o) = HeldBy(w, o)
      BY <2>3, <2>8
    <3> QED BY <2>1, <2>5, <2>8, <3>1 DEF Uses, By
  <2> QED BY <2>7, <2>8
<1>4. Shift(w, v, q, 0 - 1, 0 - 1)
  BY <1>2, <1>3, SameCommand, ShiftBy
<1> QED BY <1>4

LEMMA ShiftBack ==
    ASSUME NEW w \in Worlds, NEW v \in Worlds, NEW c \in Client, NEW r \in ClientRecord,
           ClientIs(w, v, c, r), r.cmd = Null, NEW q \in Commands, w.client[c].cmd = q
    PROVE  Shift(w, v, q, 1, 1)
<1>1. v.client[c] = r /\ \A e \in Client \ {c} : v.client[e] = w.client[e]
  BY DEF ClientIs, Worlds
<1>2. Alone(w, v) /\ v.command = w.command
  BY DEF Alone, ClientIs
<1>3. ASSUME NEW o \in Commands PROVE Uses(v, o) = Uses(w, o) + By(o, q, -1)
  <2>1. WaitsIn(v, o) = WaitsIn(w, o)
    BY DEF WaitsIn, ClientIs
  <2>2. o # Null
    BY RedisConstants
  <2>3. HeldBy(v, o) = IF o = q THEN HeldBy(w, o) \ {c} ELSE HeldBy(w, o)
    BY <1>1, <2>2 DEF HeldBy
  <2>4. o = q => c \in HeldBy(w, o)
    BY DEF HeldBy
  <2>5. IsFiniteSet(HeldBy(w, o)) /\ Cardinality(HeldBy(w, o)) \in Nat
        /\ Cardinality(WaitsIn(w, o)) \in Nat
    BY HeldIs, WaitsIs
  <2>6. o = q => Cardinality(HeldBy(w, o) \ {c}) = Cardinality(HeldBy(w, o)) - 1
    BY <2>4, <2>5, FS_RemoveElement
  <2>7. CASE o = q
    <3>1. HeldBy(v, o) = HeldBy(w, o) \ {c}
      BY <2>3, <2>7
    <3> QED BY <2>1, <2>5, <2>6, <2>7, <3>1 DEF Uses, By
  <2>8. CASE o # q
    <3>1. HeldBy(v, o) = HeldBy(w, o)
      BY <2>3, <2>8
    <3> QED BY <2>1, <2>5, <2>8, <3>1 DEF Uses, By
  <2> QED BY <2>7, <2>8
<1>4. Shift(w, v, q, 0 - (-1), 0 - (-1))
  BY <1>2, <1>3, SameCommand, ShiftBy
<1> QED BY <1>4

\* Another count of references or of questions and answers.
LEMMA ShiftCommand ==
    ASSUME NEW w \in Worlds, NEW v \in Worlds, NEW q \in Commands, NEW r \in CommandRecord,
           CommandIs(w, v, q, r), NEW a \in Int, NEW f \in Int,
           r.asked - r.answers = w.command[q].asked - w.command[q].answers + a,
           r.refs = w.command[q].refs + f
    PROVE  Shift(w, v, q, a, f)
<1>1. v.command[q] = r /\ \A e \in Commands \ {q} : v.command[e] = w.command[e]
  BY DEF CommandIs, Worlds
<1>2. Alone(w, v)
  BY DEF Alone, CommandIs
<1>3. \A o \in Commands : Uses(v, o) = Uses(w, o) + By(o, q, 0)
  <2>1. TAKE o \in Commands
  <2>2. HeldBy(v, o) = HeldBy(w, o) /\ WaitsIn(v, o) = WaitsIn(w, o)
    BY DEF HeldBy, WaitsIn, CommandIs
  <2> QED BY <2>2, BooksInt DEF Uses, By
<1>4. ASSUME NEW o \in Commands
      PROVE  /\ v.command[o].asked - v.command[o].answers
                    = w.command[o].asked - w.command[o].answers + By(o, q, a)
             /\ v.command[o].refs = w.command[o].refs + By(o, q, f)
  <2>1. CASE o = q
    BY <1>1, <2>1 DEF By
  <2>2. CASE o # q
    <3>1. v.command[o] = w.command[o] /\ By(o, q, a) = 0 /\ By(o, q, f) = 0
      BY <1>1, <2>2 DEF By
    <3> QED BY <3>1, BooksInt
  <2> QED BY <2>1, <2>2
<1>5. Shift(w, v, q, a - 0, f - 0)
  BY <1>2, <1>3, <1>4, ShiftBy
<1> QED BY <1>5

-----------------------------------------------------------------------------
(* Connections and their queues.                                           *)

LEMMA GoodClient ==
    ASSUME NEW w, NEW h, NEW x, NEW g, NEW y, Good(w, h, x),
           NEW v, NEW c \in Client, NEW r, ClientIs(w, v, c, r),
           \A e \in Client \ {c} : (e = g <=> e = h) /\ (e = y <=> e = x),
           LET o == w.pool[PoolOf[c]]
           IN  Rule(r, Contains(o.alive, c), Contains(o.idle, c), o.state, c = g, c = y)
    PROVE  Good(v, g, y)
<1>1. v \in Worlds /\ v.pool = w.pool /\ v.client = [w.client EXCEPT ![c] = r] /\ w \in Worlds
  BY DEF ClientIs, Good
<1>2. ASSUME NEW e \in Client PROVE Follows(v, e, g, y)
  <2>1. CASE e = c
    <3>1. v.client[e] = r
      BY <1>1, <2>1 DEF Worlds
    <3> QED BY <1>1, <2>1, <3>1 DEF Follows
  <2>2. CASE e # c
    <3>1. v.client[e] = w.client[e]
      BY <1>1, <2>2 DEF Worlds
    <3>2. Follows(w, e, h, x)
      BY DEF Good
    <3>3. (e = g) = (e = h) /\ (e = y) = (e = x)
      BY <2>2
    <3> QED BY <1>1, <3>1, <3>2, <3>3 DEF Follows
  <2> QED BY <2>1, <2>2
<1>3. \A p \in Pool : Once(v.pool[p].alive, p)
  BY <1>1 DEF Good
<1> QED BY <1>1, <1>2, <1>3 DEF Good

LEMMA GoodPool ==
    ASSUME NEW w, NEW h, NEW x, NEW g, NEW y, Good(w, h, x),
           NEW v, NEW p \in Pool, NEW r, PoolIs(w, v, p, r), Once(r.alive, p),
           \A e \in Client : IF PoolOf[e] = p
                             THEN Rule(w.client[e], Contains(r.alive, e), Contains(r.idle, e), r.state,
                                       e = g, e = y)
                             ELSE (e = g <=> e = h) /\ (e = y <=> e = x)
    PROVE  Good(v, g, y)
<1>1. v \in Worlds /\ v.client = w.client /\ v.pool = [w.pool EXCEPT ![p] = r] /\ w \in Worlds
  BY DEF PoolIs, Good
<1>2. v.pool[p] = r /\ \A o \in Pool \ {p} : v.pool[o] = w.pool[o]
  BY <1>1 DEF Worlds
<1>3. ASSUME NEW e \in Client PROVE Follows(v, e, g, y)
  <2>1. CASE PoolOf[e] = p
    BY <1>1, <1>2, <2>1 DEF Follows
  <2>2. CASE PoolOf[e] # p
    <3>1. v.pool[PoolOf[e]] = w.pool[PoolOf[e]]
      BY <1>2, <2>2, RedisConstants
    <3>2. Follows(w, e, h, x)
      BY DEF Good
    <3>3. (e = g) = (e = h) /\ (e = y) = (e = x)
      BY <2>2
    <3> QED BY <1>1, <3>1, <3>2, <3>3 DEF Follows
  <2> QED BY <2>1, <2>2
<1>4. \A o \in Pool : Once(v.pool[o].alive, o)
  <2>1. TAKE o \in Pool
  <2>2. CASE o = p
    BY <1>2, <2>2
  <2>3. CASE o # p
    BY <1>2, <2>3 DEF Good
  <2> QED BY <2>2, <2>3
<1> QED BY <1>1, <1>3, <1>4 DEF Good

LEMMA GoodSame ==
    ASSUME NEW w, NEW h, NEW x, Good(w, h, x), NEW v \in Worlds, v.client = w.client,
           \A p \in Pool : /\ v.pool[p].alive = w.pool[p].alive
                           /\ v.pool[p].idle = w.pool[p].idle /\ v.pool[p].state = w.pool[p].state
    PROVE  Good(v, h, x)
<1>1. ASSUME NEW e \in Client PROVE Follows(v, e, h, x)
  <2>1. PoolOf[e] \in Pool
    BY RedisConstants
  <2>2. Follows(w, e, h, x)
    BY DEF Good
  <2> QED BY <2>1, <2>2 DEF Follows
<1>2. \A p \in Pool : Once(v.pool[p].alive, p)
  BY DEF Good
<1> QED BY <1>1, <1>2 DEF Good

\* The same, of one pool.
LEMMA GoodTask ==
    ASSUME NEW w, NEW h, NEW x, Good(w, h, x), NEW v, NEW p \in Pool, NEW r, PoolIs(w, v, p, r),
           r.alive = w.pool[p].alive, r.idle = w.pool[p].idle, r.state = w.pool[p].state
    PROVE  Good(v, h, x)
<1>1. v \in Worlds /\ v.client = w.client /\ v.pool = [w.pool EXCEPT ![p] = r] /\ w \in Worlds
  BY DEF PoolIs, Good
<1>2. v.pool[p] = r /\ \A o \in Pool \ {p} : v.pool[o] = w.pool[o]
  BY <1>1 DEF Worlds
<1>3. \A o \in Pool : /\ v.pool[o].alive = w.pool[o].alive
                      /\ v.pool[o].idle = w.pool[o].idle /\ v.pool[o].state = w.pool[o].state
  BY <1>2
<1> QED BY <1>1, <1>3, GoodSame

LEMMA GoodCommand ==
    ASSUME NEW w, NEW h, NEW x, Good(w, h, x), NEW v, NEW q, NEW r, CommandIs(w, v, q, r)
    PROVE  Good(v, h, x)
<1>1. v \in Worlds /\ v.client = w.client /\ v.pool = w.pool
  BY DEF CommandIs
<1> QED BY <1>1, GoodSame

-----------------------------------------------------------------------------
(* What the operators change.                                              *)

LEMMA SetPool ==
    ASSUME NEW w \in Worlds, NEW p \in Pool, NEW r \in PoolRecord
    PROVE  PoolIs(w, [w EXCEPT !.pool[p] = r], p, r)
  BY DEF PoolIs, Worlds

LEMMA SetClient ==
    ASSUME NEW w \in Worlds, NEW c \in Client, NEW r \in ClientRecord
    PROVE  ClientIs(w, [w EXCEPT !.client[c] = r], c, r)
  BY DEF ClientIs, Worlds

LEMMA SetCommand ==
    ASSUME NEW w \in Worlds, NEW q \in Commands, NEW r \in CommandRecord
    PROVE  CommandIs(w, [w EXCEPT !.command[q] = r], q, r)
  BY DEF CommandIs, Worlds

LEMMA GrabIs ==
    ASSUME NEW w \in Worlds, NEW q \in Commands
    PROVE  \E r \in CommandRecord : CommandIs(w, Grab(w, q), q, r) /\ r = [w.command[q] EXCEPT !.refs = @ + 1]
<1>1. PICK r \in CommandRecord : r = [w.command[q] EXCEPT !.refs = @ + 1]
  <2>1. PICK k \in CommandRecord : k = w.command[q]
    BY DEF Worlds
  <2>2. [k EXCEPT !.refs = @ + 1] \in CommandRecord
    BY DEF CommandRecord
  <2> QED BY <2>1, <2>2
<1>2. Grab(w, q) = [w EXCEPT !.command[q] = r]
  BY <1>1 DEF Grab, Worlds
<1> QED BY <1>1, <1>2, SetCommand

LEMMA DropIs ==
    ASSUME NEW w \in Worlds, NEW q \in Commands
    PROVE  \E r \in CommandRecord : CommandIs(w, Drop(w, q), q, r) /\ r = [w.command[q] EXCEPT !.refs = @ - 1]
<1>1. PICK r \in CommandRecord : r = [w.command[q] EXCEPT !.refs = @ - 1]
  <2>1. PICK k \in CommandRecord : k = w.command[q]
    BY DEF Worlds
  <2>2. [k EXCEPT !.refs = @ - 1] \in CommandRecord
    BY DEF CommandRecord
  <2> QED BY <2>1, <2>2
<1>2. Drop(w, q) = [w EXCEPT !.command[q] = r]
  BY <1>1 DEF Drop, Worlds
<1> QED BY <1>1, <1>2, SetCommand

LEMMA AnswerIs ==
    ASSUME NEW w \in Worlds, NEW q \in Commands
    PROVE  \E r \in CommandRecord : CommandIs(w, Answer(w, q), q, r)
              /\ r = [w.command[q] EXCEPT !.answers = @ + 1, !.tries = 0]
<1>1. PICK r \in CommandRecord : r = [w.command[q] EXCEPT !.answers = @ + 1, !.tries = 0]
  <2>1. PICK k \in CommandRecord : k = w.command[q]
    BY DEF Worlds
  <2>2. [k EXCEPT !.answers = @ + 1, !.tries = 0] \in CommandRecord
    <3>1. PICK l \in CommandRecord : l = [k EXCEPT !.answers = @ + 1]
      <4>1. k.answers + 1 \in Int
        BY DEF CommandRecord
      <4>2. [k EXCEPT !.answers = k.answers + 1] \in CommandRecord
        BY <4>1 DEF CommandRecord
      <4> QED BY <4>2
    <3>2. [l EXCEPT !.tries = 0] \in CommandRecord
      BY DEF CommandRecord
    <3>3. [k EXCEPT !.answers = @ + 1, !.tries = 0] = [l EXCEPT !.tries = 0]
      BY <3>1 DEF CommandRecord
    <3> QED BY <3>2, <3>3
  <2> QED BY <2>1, <2>2
<1>2. Answer(w, q) = [w EXCEPT !.command[q] = r]
  BY <1>1 DEF Answer, Worlds
<1> QED BY <1>1, <1>2, SetCommand

\* References and answers.
LEMMA GrabMoves ==
    ASSUME NEW w, NEW h, NEW x, Good(w, h, x), NEW q \in Commands
    PROVE  Good(Grab(w, q), h, x) /\ Shift(w, Grab(w, q), q, 0, 1)
           /\ Grab(w, q).client = w.client /\ Grab(w, q).pool = w.pool
<1>1. w \in Worlds
  BY DEF Good
<1>2. PICK r \in CommandRecord : CommandIs(w, Grab(w, q), q, r) /\ r = [w.command[q] EXCEPT !.refs = @ + 1]
  BY <1>1, GrabIs
<1>3. w.command[q] \in CommandRecord
  BY <1>1 DEF Worlds
<1>4. /\ r.asked - r.answers = w.command[q].asked - w.command[q].answers + 0
      /\ r.refs = w.command[q].refs + 1
  BY <1>2, <1>3 DEF CommandRecord
<1>5. Shift(w, Grab(w, q), q, 0, 1)
  <2>1. PICK v \in Worlds : v = Grab(w, q) /\ CommandIs(w, v, q, r)
    BY <1>2 DEF CommandIs
  <2>2. PICK a \in Int, f \in Int : a = 0 /\ f = 1
    OBVIOUS
  <2>3. /\ r.asked - r.answers = w.command[q].asked - w.command[q].answers + a
        /\ r.refs = w.command[q].refs + f
    BY <1>4, <2>2
  <2>4. Shift(w, v, q, a, f)
    BY <1>1, <2>1, <2>3, ShiftCommand
  <2> QED BY <2>1, <2>2, <2>4
<1> QED BY <1>2, <1>5, GoodCommand DEF CommandIs

LEMMA DropMoves ==
    ASSUME NEW w, NEW h, NEW x, Good(w, h, x), NEW q \in Commands
    PROVE  Good(Drop(w, q), h, x) /\ Shift(w, Drop(w, q), q, 0, -1)
           /\ Drop(w, q).client = w.client /\ Drop(w, q).pool = w.pool
<1>1. w \in Worlds
  BY DEF Good
<1>2. PICK r \in CommandRecord : CommandIs(w, Drop(w, q), q, r) /\ r = [w.command[q] EXCEPT !.refs = @ - 1]
  BY <1>1, DropIs
<1>3. w.command[q] \in CommandRecord
  BY <1>1 DEF Worlds
<1>4. /\ r.asked - r.answers = w.command[q].asked - w.command[q].answers + 0
      /\ r.refs = w.command[q].refs + (-1)
  BY <1>2, <1>3 DEF CommandRecord
<1>5. Shift(w, Drop(w, q), q, 0, -1)
  <2>1. PICK v \in Worlds : v = Drop(w, q) /\ CommandIs(w, v, q, r)
    BY <1>2 DEF CommandIs
  <2>2. PICK a \in Int, f \in Int : a = 0 /\ f = -1
    OBVIOUS
  <2>3. /\ r.asked - r.answers = w.command[q].asked - w.command[q].answers + a
        /\ r.refs = w.command[q].refs + f
    BY <1>4, <2>2
  <2>4. Shift(w, v, q, a, f)
    BY <1>1, <2>1, <2>3, ShiftCommand
  <2> QED BY <2>1, <2>2, <2>4
<1> QED BY <1>2, <1>5, GoodCommand DEF CommandIs

LEMMA AnswerMoves ==
    ASSUME NEW w, NEW h, NEW x, Good(w, h, x), NEW q \in Commands
    PROVE  Good(Answer(w, q), h, x) /\ Shift(w, Answer(w, q), q, -1, 0)
           /\ Answer(w, q).client = w.client /\ Answer(w, q).pool = w.pool
<1>1. w \in Worlds
  BY DEF Good
<1>2. PICK r \in CommandRecord : CommandIs(w, Answer(w, q), q, r)
                                 /\ r = [w.command[q] EXCEPT !.answers = @ + 1, !.tries = 0]
  BY <1>1, AnswerIs
<1>3. w.command[q] \in CommandRecord
  BY <1>1 DEF Worlds
<1>4. /\ r.asked - r.answers = w.command[q].asked - w.command[q].answers + (-1)
      /\ r.refs = w.command[q].refs + 0
  BY <1>2, <1>3 DEF CommandRecord
<1>5. Shift(w, Answer(w, q), q, -1, 0)
  <2>1. PICK v \in Worlds : v = Answer(w, q) /\ CommandIs(w, v, q, r)
    BY <1>2 DEF CommandIs
  <2>2. PICK a \in Int, f \in Int : a = -1 /\ f = 0
    OBVIOUS
  <2>3. /\ r.asked - r.answers = w.command[q].asked - w.command[q].answers + a
        /\ r.refs = w.command[q].refs + f
    BY <1>4, <2>2
  <2>4. Shift(w, v, q, a, f)
    BY <1>1, <2>1, <2>3, ShiftCommand
  <2> QED BY <2>1, <2>2, <2>4
<1> QED BY <1>2, <1>5, GoodCommand DEF CommandIs

LEMMA RecordOf ==
    ASSUME NEW w, NEW h, NEW x, Good(w, h, x), NEW c \in Client
    PROVE  /\ w \in Worlds /\ w.client[c] \in ClientRecord /\ PoolOf[c] \in Pool
           /\ w.pool[PoolOf[c]] \in PoolRecord
           /\ Rule(w.client[c], Contains(w.pool[PoolOf[c]].alive, c), Contains(w.pool[PoolOf[c]].idle, c),
                   w.pool[PoolOf[c]].state, c = h, c = x)
<1>1. w \in Worlds /\ PoolOf[c] \in Pool
  BY RedisConstants DEF Good
<1>2. w.client[c] \in ClientRecord /\ w.pool[PoolOf[c]] \in PoolRecord
  BY <1>1 DEF Worlds
<1> QED BY <1>1, <1>2 DEF Good, Follows

LEMMA SameClientCmd ==
    ASSUME NEW w \in Worlds, NEW v, NEW c \in Client, NEW r \in ClientRecord, ClientIs(w, v, c, r),
           r.cmd = w.client[c].cmd, NEW q
    PROVE  Shift(w, v, q, 0, 0)
<1>1. v \in Worlds /\ v.pool = w.pool /\ v.command = w.command
      /\ v.client = [w.client EXCEPT ![c] = r]
  BY DEF ClientIs
<1>2. \A e \in Client : v.client[e].cmd = w.client[e].cmd
  BY <1>1 DEF Worlds
<1>3. Alone(w, v) /\ \A p \in Pool : v.pool[p].task = w.pool[p].task
  BY <1>1 DEF Alone
<1> QED BY <1>1, <1>2, <1>3, ShiftSame

LEMMA CloseMoves ==
    ASSUME NEW w, NEW h, NEW x, Good(w, h, x), NEW c \in Client, NEW q
    PROVE  /\ Good(CloseClient(w, c), h, x) /\ Shift(w, CloseClient(w, c), q, 0, 0)
           /\ CloseClient(w, c).pool = w.pool
<1>1. /\ w \in Worlds /\ w.client[c] \in ClientRecord
      /\ Rule(w.client[c], Contains(w.pool[PoolOf[c]].alive, c), Contains(w.pool[PoolOf[c]].idle, c),
              w.pool[PoolOf[c]].state, c = h, c = x)
  BY RecordOf
<1>2. CASE w.client[c].conn \in {"connecting", "open"}
  <2>1. PICK r \in ClientRecord : r = [w.client[c] EXCEPT !.conn = "closing"]
    <3>1. [w.client[c] EXCEPT !.conn = "closing"] \in ClientRecord
      BY <1>1 DEF ClientRecord
    <3> QED BY <3>1
  <2>2. r.conn = "closing" /\ r.fly = w.client[c].fly /\ r.cmd = w.client[c].cmd
    BY <1>1, <2>1 DEF ClientRecord
  <2>3. CloseClient(w, c) = [w EXCEPT !.client[c] = r]
    BY <1>1, <1>2, <2>1 DEF CloseClient, Worlds
  <2>4. ClientIs(w, CloseClient(w, c), c, r)
    BY <1>1, <2>3, SetClient
  <2>5. Rule(r, Contains(w.pool[PoolOf[c]].alive, c), Contains(w.pool[PoolOf[c]].idle, c),
             w.pool[PoolOf[c]].state, c = h, c = x)
    BY <1>1, <1>2, <2>2 DEF Rule
  <2>6. Good(CloseClient(w, c), h, x)
    BY <2>4, <2>5, GoodClient
  <2>7. Shift(w, CloseClient(w, c), q, 0, 0)
    BY <1>1, <2>2, <2>4, SameClientCmd
  <2> QED BY <2>4, <2>6, <2>7 DEF ClientIs
<1>3. CASE ~(w.client[c].conn \in {"connecting", "open"})
  <2>1. CloseClient(w, c) = w
    BY <1>3 DEF CloseClient
  <2> QED BY <1>1, <2>1, ShiftSelf
<1> QED BY <1>2, <1>3

\* The connection in hand, or one that is taken out of the queue, works.
LEMMA PostMoves ==
    ASSUME NEW w, NEW x, NEW c \in Client, Good(w, c, x), NEW q \in Commands,
           CanWrite(w, c)
    PROVE  Good(ClientPost(w, c, q), Null, x) /\ Shift(w, ClientPost(w, c, q), q, -1, 0)
           /\ ClientPost(w, c, q).pool = w.pool
<1>1. /\ w \in Worlds /\ w.client[c] \in ClientRecord
      /\ Rule(w.client[c], Contains(w.pool[PoolOf[c]].alive, c), Contains(w.pool[PoolOf[c]].idle, c),
              w.pool[PoolOf[c]].state, c = c, c = x)
  BY RecordOf
<1>2. PICK r \in ClientRecord : r = [w.client[c] EXCEPT !.cmd = q, !.fly = TRUE]
  <2>1. [w.client[c] EXCEPT !.cmd = q, !.fly = TRUE] \in ClientRecord
    BY <1>1 DEF ClientRecord
  <2> QED BY <2>1
<1>3. r.conn = "open" /\ r.fly = TRUE /\ r.cmd = q /\ w.client[c].conn = "open"
      /\ w.client[c].cmd = Null
  BY <1>1, <1>2 DEF ClientRecord, CanWrite, Rule
<1>4. PICK u : u = [w EXCEPT !.client[c] = r] /\ ClientIs(w, u, c, r)
  BY <1>1, SetClient
<1>5. ClientPost(w, c, q) = Grab(u, q)
  <2>1. [w EXCEPT !.client[c].cmd = q, !.client[c].fly = TRUE] = u
    BY <1>1, <1>2, <1>4 DEF Worlds
  <2> QED BY <2>1 DEF ClientPost
<1>6. q # Null /\ c # Null
  BY RedisConstants
<1>7. Rule(r, Contains(w.pool[PoolOf[c]].alive, c), Contains(w.pool[PoolOf[c]].idle, c),
           w.pool[PoolOf[c]].state, c = Null, c = x)
  BY <1>1, <1>3, <1>6 DEF Rule
<1>8. Good(u, Null, x)
  <2>1. \A e \in Client \ {c} : (e = Null <=> e = c) /\ (e = x <=> e = x)
    BY RedisConstants
  <2> QED BY <1>4, <1>7, <2>1, GoodClient
<1>9. u \in Worlds /\ Shift(w, u, q, -1, -1)
  BY <1>1, <1>3, <1>4, ShiftTake DEF ClientIs
<1>10. Good(Grab(u, q), Null, x) /\ Shift(u, Grab(u, q), q, 0, 1) /\ Grab(u, q).pool = u.pool
  BY <1>8, GrabMoves
<1>11. Shift(w, Grab(u, q), q, -1, 0)
  <2>1. Grab(u, q) \in Worlds
    BY <1>10 DEF Good
  <2>2. Shift(w, Grab(u, q), q, (-1) + 0, (-1) + 1)
    BY <1>1, <1>9, <1>10, <2>1, ShiftJoin
  <2>3. (-1) + 0 = -1 /\ (-1) + 1 = 0
    OBVIOUS
  <2> QED BY <2>2, <2>3
<1> QED BY <1>4, <1>5, <1>10, <1>11 DEF ClientIs

\* A connection that has ended, or failed, is opened again.
LEMMA OpenMoves ==
    ASSUME NEW w, NEW c \in Client, Good(w, Null, c), ~Contains(w.pool[PoolOf[c]].alive, c), NEW q
    PROVE  Good(OpenClient(w, c), Null, Null) /\ Shift(w, OpenClient(w, c), q, 0, 0)
<1>1. /\ w \in Worlds /\ w.client[c] \in ClientRecord
      /\ Rule(w.client[c], Contains(w.pool[PoolOf[c]].alive, c), Contains(w.pool[PoolOf[c]].idle, c),
              w.pool[PoolOf[c]].state, c = Null, c = c)
  BY RecordOf
<1>2. PICK r \in ClientRecord :
         r = [w.client[c] EXCEPT !.conn = "connecting", !.fly = TRUE, !.said = 0]
  <2>1. PICK k \in ClientRecord : k = [w.client[c] EXCEPT !.conn = "connecting", !.fly = TRUE]
    <3>1. [w.client[c] EXCEPT !.conn = "connecting", !.fly = TRUE] \in ClientRecord
      BY <1>1 DEF ClientRecord
    <3> QED BY <3>1
  <2>2. [k EXCEPT !.said = 0] \in ClientRecord
    BY DEF ClientRecord
  <2>3. [k EXCEPT !.said = 0]
           = [w.client[c] EXCEPT !.conn = "connecting", !.fly = TRUE, !.said = 0]
    BY <1>1, <2>1 DEF ClientRecord
  <2> QED BY <2>2, <2>3
<1>3. r.conn = "connecting" /\ r.fly = TRUE /\ r.cmd = w.client[c].cmd /\ r.cmd = Null
  BY <1>1, <1>2 DEF ClientRecord, Rule
<1>4. OpenClient(w, c) = [w EXCEPT !.client[c] = r]
  BY <1>1, <1>2 DEF OpenClient, Worlds
<1>5. ClientIs(w, OpenClient(w, c), c, r)
  BY <1>1, <1>4, SetClient
<1>6. c # Null
  BY RedisConstants
<1>7. Rule(r, Contains(w.pool[PoolOf[c]].alive, c), Contains(w.pool[PoolOf[c]].idle, c),
           w.pool[PoolOf[c]].state, c = Null, c = Null)
  BY <1>1, <1>3, <1>6 DEF Rule
<1>8. Good(OpenClient(w, c), Null, Null)
  <2>1. \A e \in Client \ {c} : (e = Null <=> e = Null) /\ (e = Null <=> e = c)
    BY RedisConstants
  <2> QED BY <1>5, <1>7, <2>1, GoodClient
<1> QED BY <1>1, <1>3, <1>5, <1>8, SameClientCmd

\* A command waits.
LEMMA WaitMoves ==
    ASSUME NEW w, NEW h, NEW x, Good(w, h, x), NEW p \in Pool, NEW q \in Commands
    PROVE  Good(PushTask(w, p, q), h, x) /\ Shift(w, PushTask(w, p, q), q, -1, 0)
<1>1. PICK u : u = Grab(w, q) /\ Good(u, h, x) /\ Shift(w, u, q, 0, 1)
  BY GrabMoves
<1>2. u \in Worlds /\ w \in Worlds
  BY <1>1 DEF Good
<1>3. u.pool[p] \in PoolRecord /\ u.pool[p].task \in Seq(Commands)
  BY <1>2 DEF Worlds, PoolRecord
<1>4. PICK t \in Seq(Commands) : t = Append(u.pool[p].task, q)
  <2>1. Append(u.pool[p].task, q) \in Seq(Commands)
    BY <1>3, AppendIs
  <2> QED BY <2>1
<1>5. PICK r \in PoolRecord : r = [u.pool[p] EXCEPT !.task = t]
  <2>1. [u.pool[p] EXCEPT !.task = t] \in PoolRecord
    BY <1>3 DEF PoolRecord
  <2> QED BY <2>1
<1>6. /\ r.task = t /\ r.alive = u.pool[p].alive /\ r.idle = u.pool[p].idle
      /\ r.state = u.pool[p].state
  BY <1>3, <1>5 DEF PoolRecord
<1>7. PICK v : v = [u EXCEPT !.pool[p] = r] /\ PoolIs(u, v, p, r)
  BY <1>2, SetPool
<1>8. PushTask(w, p, q) = v
  BY <1>1, <1>2, <1>4, <1>5, <1>7 DEF PushTask, Worlds
<1>9. Good(v, h, x)
  BY <1>1, <1>6, <1>7, GoodTask
<1>10. v \in Worlds
  BY <1>9 DEF Good
<1>11. Shift(u, v, q, 0 - 1, 0 - 1)
  <2>1. ASSUME NEW o \in Commands PROVE Times(r.task, o) = Times(u.pool[p].task, o) + By(o, q, 1)
    <3>1. Times(t, o) = Times(u.pool[p].task, o) + (IF q = o THEN 1 ELSE 0)
      BY <1>3, <1>4, TimesAppend
    <3>2. By(o, q, 1) = IF q = o THEN 1 ELSE 0
      BY DEF By
    <3> QED BY <1>6, <3>1, <3>2
  <2>2. PICK n \in Int : n = 1
    OBVIOUS
  <2>3. \A o \in Commands : Times(r.task, o) = Times(u.pool[p].task, o) + By(o, q, n)
    BY <2>1, <2>2
  <2>4. Shift(u, v, q, 0 - n, 0 - n)
    BY <1>2, <1>6, <1>7, <1>10, <2>3, ShiftTask
  <2> QED BY <2>2, <2>4
<1>12. Shift(w, v, q, -1, 0)
  <2>1. Shift(u, v, q, -1, -1)
    BY <1>11
  <2>2. Shift(w, v, q, 0 + (-1), 1 + (-1))
    BY <1>1, <1>2, <1>10, <2>1, ShiftJoin
  <2>3. 0 + (-1) = -1 /\ 1 + (-1) = 0
    OBVIOUS
  <2> QED BY <2>2, <2>3
<1> QED BY <1>8, <1>9, <1>12

-----------------------------------------------------------------------------
(* A pool.                                                                 *)

LEMMA SamePoolTask ==
    ASSUME NEW w \in Worlds, NEW v, NEW p \in Pool, NEW r \in PoolRecord, PoolIs(w, v, p, r),
           r.task = w.pool[p].task, w.pool[p].state = "deleted" => r.state = "deleted", NEW q
    PROVE  Shift(w, v, q, 0, 0)
<1>1. v \in Worlds /\ v.client = w.client /\ v.command = w.command
      /\ v.pool = [w.pool EXCEPT ![p] = r]
  BY DEF PoolIs
<1>2. v.pool[p] = r /\ \A o \in Pool \ {p} : v.pool[o] = w.pool[o]
  BY <1>1 DEF Worlds
<1>3. Alone(w, v) /\ \A o \in Pool : v.pool[o].task = w.pool[o].task
  BY <1>2 DEF Alone
<1> QED BY <1>1, <1>3, ShiftSame

LEMMA FlyLessMoves ==
    ASSUME NEW w, NEW h, NEW x, Good(w, h, x), NEW p \in Pool, NEW q
    PROVE  Good(FlyLess(w, p), h, x) /\ Shift(w, FlyLess(w, p), q, 0, 0)
           /\ FlyLess(w, p).client = w.client
           /\ FlyLess(w, p).pool[p].alive = w.pool[p].alive
           /\ FlyLess(w, p).pool[p].idle = w.pool[p].idle
           /\ FlyLess(w, p).pool[p].state = w.pool[p].state
<1>1. w \in Worlds /\ w.pool[p] \in PoolRecord
  BY DEF Good, Worlds
<1>2. PICK n \in Int : n = IF w.pool[p].fly > -FlyDebt THEN w.pool[p].fly - 1 ELSE w.pool[p].fly
  BY <1>1 DEF PoolRecord
<1>3. PICK r \in PoolRecord : r = [w.pool[p] EXCEPT !.fly = n]
  <2>1. [w.pool[p] EXCEPT !.fly = n] \in PoolRecord
    BY <1>1 DEF PoolRecord
  <2> QED BY <2>1
<1>4. /\ r.task = w.pool[p].task /\ r.alive = w.pool[p].alive /\ r.idle = w.pool[p].idle
      /\ r.state = w.pool[p].state
  BY <1>1, <1>3 DEF PoolRecord
<1>5. PICK v : v = [w EXCEPT !.pool[p] = r] /\ PoolIs(w, v, p, r)
  BY <1>1, SetPool
<1>6. FlyLess(w, p) = v
  BY <1>1, <1>2, <1>3, <1>5 DEF FlyLess, Worlds
<1>7. Good(v, h, x) /\ Shift(w, v, q, 0, 0)
  BY <1>1, <1>4, <1>5, GoodTask, SamePoolTask
<1>8. v.client = w.client /\ v.pool[p] = r
  BY <1>1, <1>5 DEF PoolIs, Worlds
<1> QED BY <1>4, <1>6, <1>7, <1>8

\* The oldest command goes to the connection in hand.
LEMMA PushNext ==
    ASSUME NEW w, NEW x, NEW c \in Client, Good(w, c, x), CanWrite(w, c), NEW q,
           w.pool[PoolOf[c]].task # <<>>
    PROVE  Good(Push(w, c), Null, x) /\ Shift(w, Push(w, c), q, 0, 0)
<1>1. PICK p \in Pool : p = PoolOf[c]
  BY RedisConstants
<1>2. w \in Worlds /\ w.pool[p] \in PoolRecord /\ w.pool[p].task \in Seq(Commands)
      /\ w.pool[p].task # <<>>
  BY <1>1 DEF Good, Worlds, PoolRecord
<1>3. PICK t \in Seq(Commands), k \in Commands : t = Tail(w.pool[p].task) /\ k = Head(w.pool[p].task)
  BY <1>2, TailIs
<1>4. PICK r \in PoolRecord : r = [w.pool[p] EXCEPT !.task = t]
  <2>1. [w.pool[p] EXCEPT !.task = t] \in PoolRecord
    BY <1>2 DEF PoolRecord
  <2> QED BY <2>1
<1>5. /\ r.task = t /\ r.alive = w.pool[p].alive /\ r.idle = w.pool[p].idle
      /\ r.state = w.pool[p].state
  BY <1>2, <1>4 DEF PoolRecord
<1>6. PICK u : u = [w EXCEPT !.pool[p] = r] /\ PoolIs(w, u, p, r)
  BY <1>2, SetPool
<1>7. Push(w, c) = Drop(ClientPost(u, c, k), k)
  <2>1. [w EXCEPT !.pool[p].task = Tail(@)] = u
    BY <1>2, <1>3, <1>4, <1>6 DEF Worlds
  <2> QED BY <1>1, <1>2, <1>3, <2>1 DEF Push
<1>8. Good(u, c, x) /\ u \in Worlds
  BY <1>5, <1>6, GoodTask DEF PoolIs
<1>9. Shift(w, u, k, 1, 1)
  <2>1. ASSUME NEW o \in Commands PROVE Times(r.task, o) = Times(w.pool[p].task, o) + By(o, k, -1)
    <3>1. Times(t, o) = Times(w.pool[p].task, o) - (IF k = o THEN 1 ELSE 0)
      BY <1>2, <1>3, TimesTail
    <3>2. By(o, k, -1) = IF k = o THEN -1 ELSE 0
      BY DEF By
    <3>3. Times(w.pool[p].task, o) \in Nat
      BY <1>2, TimesIs
    <3> QED BY <1>5, <3>1, <3>2, <3>3
  <2>2. PICK n \in Int : n = -1
    OBVIOUS
  <2>3. \A o \in Commands : Times(r.task, o) = Times(w.pool[p].task, o) + By(o, k, n)
    BY <2>1, <2>2
  <2>4. Shift(w, u, k, 0 - n, 0 - n)
    BY <1>2, <1>5, <1>6, <1>8, <2>3, ShiftTask
  <2>5. 0 - n = 1
    BY <2>2
  <2> QED BY <2>4, <2>5
<1>10. CanWrite(u, c)
  BY <1>6 DEF CanWrite, PoolIs
<1>11. PICK v : v = ClientPost(u, c, k) /\ Good(v, Null, x) /\ Shift(u, v, k, -1, 0)
  BY <1>8, <1>10, PostMoves
<1>12. PICK z : z = Drop(v, k) /\ Good(z, Null, x) /\ Shift(v, z, k, 0, -1)
  BY <1>11, DropMoves
<1>13. v \in Worlds /\ z \in Worlds
  BY <1>11, <1>12 DEF Good
<1>14. Shift(w, z, k, 0, 0)
  <2>1. Shift(w, v, k, 1 + (-1), 1 + 0)
    BY <1>2, <1>8, <1>9, <1>11, <1>13, ShiftJoin
  <2>2. Shift(w, v, k, 0, 1)
    BY <2>1
  <2>3. Shift(w, z, k, 0 + 0, 1 + (-1))
    BY <1>2, <1>12, <1>13, <2>2, ShiftJoin
  <2>4. 0 + 0 = 0 /\ 1 + (-1) = 0
    OBVIOUS
  <2> QED BY <2>3, <2>4
<1>15. Shift(w, z, q, 0, 0)
  BY <1>2, <1>13, <1>14, ShiftNone
<1> QED BY <1>7, <1>11, <1>12, <1>15

\* Moves by nothing one after another.
LEMMA StillTwice ==
    ASSUME NEW u \in Worlds, NEW v \in Worlds, NEW w \in Worlds, NEW q,
           Shift(u, v, q, 0, 0), Shift(v, w, q, 0, 0)
    PROVE  Shift(u, w, q, 0, 0)
<1>1. Shift(u, w, q, 0 + 0, 0 + 0)
  BY ShiftJoin
<1> QED BY <1>1

\* The connection in hand is one of those that are alive again.
LEMMA PushAlive ==
    ASSUME NEW w, NEW x, NEW c \in Client, Good(w, c, x), NEW q,
           NEW v, v = [w EXCEPT !.pool[PoolOf[c]].alive = Append(@, c)]
    PROVE  Good(v, Null, x) /\ Shift(w, v, q, 0, 0)
<1>1. PICK p \in Pool : p = PoolOf[c]
  BY RedisConstants
<1>2. w \in Worlds /\ w.pool[p] \in PoolRecord /\ w.pool[p].alive \in Seq(Client)
      /\ Once(w.pool[p].alive, p)
  BY <1>1 DEF Good, Worlds, PoolRecord
<1>3. /\ Rule(w.client[c], Contains(w.pool[p].alive, c), Contains(w.pool[p].idle, c),
              w.pool[p].state, c = c, c = x)
  BY <1>1, RecordOf
<1>4. ~Contains(w.pool[p].alive, c) /\ ~w.client[c].fly /\ w.client[c].cmd = Null
      /\ w.pool[p].state # "new"
  BY <1>3 DEF Rule
<1>5. PICK a \in Seq(Client) : /\ a = Append(w.pool[p].alive, c) /\ Once(a, p)
                               /\ \A e : Contains(a, e) <=> Contains(w.pool[p].alive, e) \/ e = c
  <2>1. PICK s \in Seq(Client) : s = w.pool[p].alive
    BY <1>2
  <2>2. Append(s, c) \in Seq(Client)
    BY AppendIs
  <2>3. \A e : Contains(Append(s, c), e) <=> Contains(s, e) \/ e = c
    BY AppendIs
  <2>4. Once(s, p) /\ ~Contains(s, c) /\ PoolOf[c] = p
    BY <1>1, <1>2, <1>4, <2>1
  <2>5. Once(Append(s, c), p)
    BY <2>4, AppendIs
  <2>6. PICK a \in Seq(Client) : a = Append(s, c)
    BY <2>2
  <2> QED BY <2>1, <2>3, <2>5, <2>6
<1>6. PICK r \in PoolRecord : r = [w.pool[p] EXCEPT !.alive = a]
  <2>1. [w.pool[p] EXCEPT !.alive = a] \in PoolRecord
    BY <1>2 DEF PoolRecord
  <2> QED BY <2>1
<1>7. /\ r.alive = a /\ r.task = w.pool[p].task /\ r.idle = w.pool[p].idle
      /\ r.state = w.pool[p].state
  BY <1>2, <1>6 DEF PoolRecord
<1>8. PICK u : u = [w EXCEPT !.pool[p] = r] /\ PoolIs(w, u, p, r)
  BY <1>2, SetPool
<1>9. v = u
  BY <1>1, <1>2, <1>5, <1>6, <1>8 DEF Worlds
<1>10. ASSUME NEW e \in Client
       PROVE  IF PoolOf[e] = p
              THEN Rule(w.client[e], Contains(r.alive, e), Contains(r.idle, e), r.state,
                        e = Null, e = x)
              ELSE (e = Null <=> e = c) /\ (e = x <=> e = x)
  <2>1. e # Null
    BY RedisConstants
  <2>2. CASE PoolOf[e] = p /\ e = c
    <3>1. Contains(r.alive, c)
      BY <1>5, <1>7
    <3>2. Rule(w.client[c], TRUE, Contains(r.idle, c), r.state, FALSE, c = x)
      BY <1>3, <1>4, <1>7 DEF Rule
    <3>3. Contains(r.alive, c) = TRUE /\ (e = Null) = FALSE
      BY <2>1, <3>1 DEF Contains
    <3> QED BY <2>2, <3>2, <3>3
  <2>3. CASE PoolOf[e] = p /\ e # c
    <3>1. Rule(w.client[e], Contains(w.pool[p].alive, e), Contains(w.pool[p].idle, e),
               w.pool[p].state, e = c, e = x)
      BY <2>3, RecordOf
    <3>2. Contains(r.alive, e) <=> Contains(w.pool[p].alive, e)
      BY <1>5, <1>7, <2>3
    <3>3. (e = c) = (e = Null) /\ Contains(r.alive, e) = Contains(w.pool[p].alive, e)
      BY <2>1, <2>3, <3>2 DEF Contains
    <3> QED BY <1>7, <2>3, <3>1, <3>3
  <2>4. CASE PoolOf[e] # p
    BY <1>1, <2>1, <2>4
  <2> QED BY <2>2, <2>3, <2>4
<1>11. Good(u, Null, x)
  <2>1. Once(r.alive, p)
    BY <1>5, <1>7
  <2>2. \A e \in Client :
           IF PoolOf[e] = p
           THEN Rule(w.client[e], Contains(r.alive, e), Contains(r.idle, e), r.state,
                     e = Null, e = x)
           ELSE (e = Null <=> e = c) /\ (e = x <=> e = x)
    BY <1>10
  <2>3. PoolIs(w, u, p, r)
    BY <1>8
  <2> QED BY <2>1, <2>2, <2>3, GoodPool
<1>12. Shift(w, u, q, 0, 0)
  BY <1>2, <1>7, <1>8, SamePoolTask
<1> QED BY <1>9, <1>11, <1>12

LEMMA PushMoves ==
    ASSUME NEW w, NEW x, NEW c \in Client, Good(w, c, x), NEW q
    PROVE  Good(Push(w, c), Null, x) /\ Shift(w, Push(w, c), q, 0, 0)
<1>1. PICK p \in Pool : p = PoolOf[c]
  BY RedisConstants
<1>2. w \in Worlds /\ w.pool[p] \in PoolRecord /\ w.pool[p].task \in Seq(Commands)
  BY <1>1 DEF Good, Worlds, PoolRecord
<1>3. CASE w.pool[p].task # <<>> /\ CanWrite(w, c)
  BY <1>1, <1>3, PushNext
<1>4. CASE ~(w.pool[p].task # <<>> /\ CanWrite(w, c))
  <2>1. PICK u : /\ u = IF w.pool[p].task = <<>> THEN w ELSE [w EXCEPT !.pool[p].task = PutBack(@)]
                 /\ Good(u, c, x) /\ Shift(w, u, q, 0, 0)
    <3>1. CASE w.pool[p].task = <<>>
      BY <1>2, <3>1, ShiftSelf
    <3>2. CASE w.pool[p].task # <<>>
      <4>1. PICK t \in Seq(Commands) : /\ t = PutBack(w.pool[p].task)
                                       /\ \A o : Times(t, o) = Times(w.pool[p].task, o)
        BY <1>2, <3>2, TimesPutBack
      <4>2. PICK r \in PoolRecord : r = [w.pool[p] EXCEPT !.task = t]
        <5>1. [w.pool[p] EXCEPT !.task = t] \in PoolRecord
          BY <1>2 DEF PoolRecord
        <5> QED BY <5>1
      <4>3. /\ r.task = t /\ r.alive = w.pool[p].alive /\ r.idle = w.pool[p].idle
            /\ r.state = w.pool[p].state
        BY <1>2, <4>2 DEF PoolRecord
      <4>4. PICK v : v = [w EXCEPT !.pool[p] = r] /\ PoolIs(w, v, p, r)
        BY <1>2, SetPool
      <4>5. [w EXCEPT !.pool[p].task = PutBack(@)] = v
        BY <1>2, <4>1, <4>2, <4>4 DEF Worlds
      <4>6. Good(v, c, x) /\ v \in Worlds
        <5>1. Good(v, c, x)
          BY <4>3, <4>4, GoodTask
        <5> QED BY <5>1 DEF Good
      <4>7. Shift(w, v, q, 0, 0)
        <5>1. PICK n \in Int : n = 0
          OBVIOUS
        <5>2. \A o \in Commands : Times(r.task, o) = Times(w.pool[p].task, o) + By(o, q, n)
          <6>1. TAKE o \in Commands
          <6>2. Times(w.pool[p].task, o) \in Nat /\ By(o, q, n) = 0
            BY <1>2, <5>1, TimesIs DEF By
          <6> QED BY <4>1, <4>3, <6>2
        <5>3. Shift(w, v, q, 0 - n, 0 - n)
          BY <1>2, <4>3, <4>4, <4>6, <5>2, ShiftTask
        <5> QED BY <5>1, <5>3
      <4> QED BY <3>2, <4>5, <4>6, <4>7
    <3> QED BY <3>1, <3>2
  <2>2. PICK t : /\ t = IF IsRunning(w, p) THEN u ELSE CloseClient(u, c)
                 /\ Good(t, c, x) /\ Shift(u, t, q, 0, 0)
    <3>1. u \in Worlds
      BY <2>1 DEF Good
    <3> QED BY <2>1, <3>1, CloseMoves, ShiftSelf
  <2>3. PICK a : /\ a = [t EXCEPT !.pool[p].alive = Append(@, c)]
                 /\ Good(a, Null, x) /\ Shift(t, a, q, 0, 0)
    BY <1>1, <2>2, PushAlive
  <2>4. Push(w, c) = FlyLess(a, p)
    BY <1>1, <1>4, <2>1, <2>2, <2>3 DEF Push
  <2>5. PICK f : f = FlyLess(a, p) /\ Good(f, Null, x) /\ Shift(a, f, q, 0, 0)
    BY <2>3, FlyLessMoves
  <2>6. u \in Worlds /\ t \in Worlds /\ a \in Worlds /\ f \in Worlds
    BY <2>1, <2>2, <2>3, <2>5 DEF Good
  <2>7. Shift(w, t, q, 0, 0)
    BY <1>2, <2>1, <2>2, <2>6, StillTwice
  <2>8. Shift(w, a, q, 0, 0)
    BY <1>2, <2>3, <2>6, <2>7, StillTwice
  <2>9. Shift(w, f, q, 0, 0)
    BY <1>2, <2>5, <2>6, <2>8, StillTwice
  <2> QED BY <2>4, <2>5, <2>9
<1> QED BY <1>3, <1>4

\* The first of the connections that are alive is taken in hand.
Taken(w, p) == [w EXCEPT !.pool[p].alive = Tail(@), !.pool[p].fly = @ + 1]

LEMMA TakeMoves ==
    ASSUME NEW w, NEW x, Good(w, Null, x), NEW p \in Pool, w.pool[p].alive # <<>>, NEW q,
           NEW v, v = Taken(w, p), NEW c, c = Head(w.pool[p].alive)
    PROVE  /\ c \in Client /\ PoolOf[c] = p /\ Good(v, c, x) /\ Shift(w, v, q, 0, 0)
           /\ v.client = w.client
<1>1. w \in Worlds /\ w.pool[p] \in PoolRecord /\ Once(w.pool[p].alive, p)
  BY DEF Good, Worlds
<1>2. PICK s \in Seq(Client) : s = w.pool[p].alive /\ s # <<>> /\ Once(s, p) /\ c = Head(s)
  BY <1>1 DEF PoolRecord
<1>3. PICK t \in Seq(Client) : t = Tail(s)
  BY <1>2, TailIs
<1>4. c \in Client /\ Contains(s, c)
  BY <1>2, TailIs
<1>5. Once(t, p) /\ \A y : Contains(t, y) <=> Contains(s, y) /\ y # c
  BY <1>2, <1>3, TailIs
<1>6. PoolOf[c] = p
  BY <1>2, <1>4, ContainsIs DEF Once
<1>7. PICK n \in Int : n = w.pool[p].fly + 1
  BY <1>1 DEF PoolRecord
<1>8. PICK r \in PoolRecord : r = [w.pool[p] EXCEPT !.alive = t, !.fly = n]
  <2>1. PICK o \in PoolRecord : o = [w.pool[p] EXCEPT !.alive = t]
    <3>1. [w.pool[p] EXCEPT !.alive = t] \in PoolRecord
      BY <1>1 DEF PoolRecord
    <3> QED BY <3>1
  <2>2. [o EXCEPT !.fly = n] \in PoolRecord
    BY DEF PoolRecord
  <2>3. [o EXCEPT !.fly = n] = [w.pool[p] EXCEPT !.alive = t, !.fly = n]
    BY <2>1
  <2> QED BY <2>2, <2>3
<1>9. /\ r.alive = t /\ r.task = w.pool[p].task /\ r.idle = w.pool[p].idle
      /\ r.state = w.pool[p].state
  BY <1>1, <1>8 DEF PoolRecord
<1>10. PICK u : u = [w EXCEPT !.pool[p] = r] /\ PoolIs(w, u, p, r)
  BY <1>1, SetPool
<1>11. v = u
  <2>1. v.pool = [w.pool EXCEPT ![p] = r]
    BY <1>1, <1>2, <1>3, <1>7, <1>8 DEF Worlds, PoolRecord, Taken
  <2>2. v = [w EXCEPT !.pool = [w.pool EXCEPT ![p] = r]]
    BY <1>1, <1>2, <1>3, <1>7, <1>8, <2>1 DEF Worlds, PoolRecord, Taken
  <2> QED BY <1>10, <2>2
<1>12. ASSUME NEW e \in Client
       PROVE  IF PoolOf[e] = p
              THEN Rule(w.client[e], Contains(r.alive, e), Contains(r.idle, e), r.state,
                        e = c, e = x)
              ELSE (e = c <=> e = Null) /\ (e = x <=> e = x)
  <2>1. e # Null
    BY RedisConstants
  <2>2. CASE PoolOf[e] = p
    <3>1. Rule(w.client[e], Contains(w.pool[p].alive, e), Contains(w.pool[p].idle, e),
               w.pool[p].state, e = Null, e = x)
      BY <2>2, RecordOf
    <3>2. CASE e = c
      <4>1. ~Contains(r.alive, e) /\ Contains(w.pool[p].alive, e)
        BY <1>2, <1>4, <1>5, <1>9, <3>2
      <4> QED BY <1>9, <2>2, <3>1, <3>2, <4>1 DEF Rule
    <3>3. CASE e # c
      <4>1. Contains(r.alive, e) <=> Contains(w.pool[p].alive, e)
        BY <1>2, <1>5, <1>9, <3>3
      <4>2. (e = c) = (e = Null) /\ Contains(r.alive, e) = Contains(w.pool[p].alive, e)
        BY <2>1, <3>3, <4>1 DEF Contains
      <4> QED BY <1>9, <2>2, <3>1, <4>2
    <3> QED BY <3>2, <3>3
  <2>3. CASE PoolOf[e] # p
    BY <1>6, <2>1, <2>3
  <2> QED BY <2>2, <2>3
<1>13. Good(u, c, x)
  <2>1. Once(r.alive, p)
    BY <1>5, <1>9
  <2>2. \A e \in Client :
           IF PoolOf[e] = p
           THEN Rule(w.client[e], Contains(r.alive, e), Contains(r.idle, e), r.state,
                     e = c, e = x)
           ELSE (e = c <=> e = Null) /\ (e = x <=> e = x)
    BY <1>12
  <2>3. PoolIs(w, u, p, r)
    BY <1>10
  <2> QED BY <2>1, <2>2, <2>3, GoodPool
<1>14. Shift(w, u, q, 0, 0)
  BY <1>1, <1>9, <1>10, SamePoolTask
<1>15. u.client = w.client
  BY <1>10 DEF PoolIs
<1> QED BY <1>4, <1>6, <1>11, <1>13, <1>14, <1>15

\* A still move and one by d and s.
LEMMA StillThen ==
    ASSUME NEW u \in Worlds, NEW v \in Worlds, NEW w \in Worlds, NEW q, NEW d \in Int, NEW s \in Int,
           Shift(u, v, q, 0, 0), Shift(v, w, q, d, s)
    PROVE  Shift(u, w, q, d, s)
<1>1. PICK z \in Int : z = 0
  OBVIOUS
<1>2. Shift(u, w, q, z + d, z + s)
  BY <1>1, ShiftJoin
<1> QED BY <1>1, <1>2

LEMMA ThenStill ==
    ASSUME NEW u \in Worlds, NEW v \in Worlds, NEW w \in Worlds, NEW q, NEW d \in Int, NEW s \in Int,
           Shift(u, v, q, d, s), Shift(v, w, q, 0, 0)
    PROVE  Shift(u, w, q, d, s)
<1>1. PICK z \in Int : z = 0
  OBVIOUS
<1>2. Shift(u, w, q, d + z, s + z)
  BY <1>1, ShiftJoin
<1> QED BY <1>1, <1>2

LEMMA PostTaskMoves ==
    ASSUME NEW w, NEW x, Good(w, Null, x), NEW p \in Pool, NEW q \in Commands
    PROVE  Good(PostTask(w, p, q), Null, x) /\ Shift(w, PostTask(w, p, q), q, -1, 0)
<1>1. w \in Worlds /\ -1 \in Int
  BY DEF Good
<1>2. CASE w.pool[p].alive = <<>>
  BY <1>2, WaitMoves DEF PostTask
<1>3. CASE w.pool[p].alive # <<>>
  <2>1. PICK c : c = Head(w.pool[p].alive)
    OBVIOUS
  <2>2. PICK t : t = Taken(w, p)
    OBVIOUS
  <2>3. c \in Client /\ PoolOf[c] = p /\ Good(t, c, x) /\ Shift(w, t, q, 0, 0) /\ t.client = w.client
    BY <1>3, <2>1, <2>2, TakeMoves
  <2>4. t \in Worlds
    BY <2>3 DEF Good
  <2>5. CASE CanWrite(w, c)
    <3>1. CanWrite(t, c)
      BY <2>3, <2>5 DEF CanWrite
    <3>2. PICK v : v = ClientPost(t, c, q) /\ Good(v, Null, x) /\ Shift(t, v, q, -1, 0)
      BY <2>3, <3>1, PostMoves
    <3>3. v \in Worlds
      BY <3>2 DEF Good
    <3>4. Shift(w, v, q, -1, 0)
      BY <1>1, <2>3, <2>4, <3>2, <3>3, StillThen
    <3>5. PostTask(w, p, q) = v
      BY <1>3, <2>1, <2>2, <2>5, <3>2 DEF PostTask, Taken
    <3> QED BY <3>2, <3>4, <3>5
  <2>6. CASE ~CanWrite(w, c)
    <3>1. PICK b : b = Push(t, c) /\ Good(b, Null, x) /\ Shift(t, b, q, 0, 0)
      BY <2>3, PushMoves
    <3>2. PICK v : v = PushTask(b, p, q) /\ Good(v, Null, x) /\ Shift(b, v, q, -1, 0)
      BY <3>1, WaitMoves
    <3>3. b \in Worlds /\ v \in Worlds
      BY <3>1, <3>2 DEF Good
    <3>4. Shift(w, b, q, 0, 0)
      BY <1>1, <2>3, <2>4, <3>1, <3>3, StillTwice
    <3>5. Shift(w, v, q, -1, 0)
      BY <1>1, <3>2, <3>3, <3>4, StillThen
    <3>6. PostTask(w, p, q) = v
      BY <1>3, <2>1, <2>2, <2>6, <3>1, <3>2 DEF PostTask, Taken
    <3> QED BY <3>2, <3>5, <3>6
  <2> QED BY <2>5, <2>6
<1> QED BY <1>2, <1>3

\* Nothing but the cluster's own books.
LEMMA ClusterMoves ==
    ASSUME NEW w, NEW h, NEW x, Good(w, h, x), NEW k \in ClusterRecord, NEW v,
           v = [w EXCEPT !.cluster = k], NEW q
    PROVE  Good(v, h, x) /\ Shift(w, v, q, 0, 0) /\ v.cluster = k
<1>1. w \in Worlds
  BY DEF Good
<1>2. v \in Worlds /\ v.pool = w.pool /\ v.client = w.client /\ v.command = w.command /\ v.cluster = k
  BY <1>1 DEF Worlds
<1>3. Good(v, h, x)
  BY <1>2, GoodSame
<1>4. Alone(w, v)
  BY <1>2 DEF Alone
<1> QED BY <1>1, <1>2, <1>3, <1>4, ShiftSame

LEMMA AnsweredByIs ==
    ASSUME NEW k \in CommandRecord, NEW n \in Nat
    PROVE  /\ AnsweredBy(k, n) \in CommandRecord
           /\ AnsweredBy(k, n).asked = k.asked /\ AnsweredBy(k, n).answers = k.answers + n
<1>1. CASE n = 0
  BY <1>1 DEF AnsweredBy, CommandRecord
<1>2. CASE n # 0
  <2>1. PICK m \in Int : m = k.answers + n
    BY DEF CommandRecord
  <2>2. PICK l \in CommandRecord : l = [k EXCEPT !.answers = m]
    <3>1. [k EXCEPT !.answers = m] \in CommandRecord
      BY DEF CommandRecord
    <3> QED BY <3>1
  <2>3. PICK a \in CommandRecord : a = [l EXCEPT !.tries = 0]
    <3>1. [l EXCEPT !.tries = 0] \in CommandRecord
      BY DEF CommandRecord
    <3> QED BY <3>1
  <2>4. AnsweredBy(k, n) = a
    BY <1>2, <2>1, <2>2, <2>3 DEF AnsweredBy, CommandRecord
  <2>5. a.asked = k.asked /\ a.answers = m
    BY <2>2, <2>3 DEF CommandRecord
  <2> QED BY <2>1, <2>4, <2>5
<1> QED BY <1>1, <1>2

\* The state of a pool that was opened changes, and its queue perhaps.
LEMMA GoodState ==
    ASSUME NEW w, NEW h, NEW x, Good(w, h, x), NEW v, NEW p \in Pool, NEW r, PoolIs(w, v, p, r),
           r.alive = w.pool[p].alive, r.idle = w.pool[p].idle,
           w.pool[p].state # "new", r.state # "new"
    PROVE  Good(v, h, x)
<1>1. Once(r.alive, p)
  BY DEF Good
<1>2. ASSUME NEW e \in Client
      PROVE  IF PoolOf[e] = p
             THEN Rule(w.client[e], Contains(r.alive, e), Contains(r.idle, e), r.state, e = h, e = x)
             ELSE (e = h <=> e = h) /\ (e = x <=> e = x)
  <2>1. CASE PoolOf[e] = p
    <3>1. Rule(w.client[e], Contains(w.pool[p].alive, e), Contains(w.pool[p].idle, e),
               w.pool[p].state, e = h, e = x)
      BY <2>1, RecordOf
    <3> QED BY <2>1, <3>1 DEF Rule
  <2> QED BY <2>1
<1>3. \A e \in Client :
         IF PoolOf[e] = p
         THEN Rule(w.client[e], Contains(r.alive, e), Contains(r.idle, e), r.state, e = h, e = x)
         ELSE (e = h <=> e = h) /\ (e = x <=> e = x)
  BY <1>2
<1> QED BY <1>1, <1>3, GoodPool

LEMMA DestroyMoves ==
    ASSUME NEW w, NEW x, Good(w, Null, x), NEW p \in Pool, w.pool[p].state # "new", NEW q
    PROVE  /\ Good(Destroy(w, p), Null, x) /\ Shift(w, Destroy(w, p), q, 0, 0)
           /\ Destroy(w, p).pool[p].state = "deleted"
           /\ \A o \in Pool \ {p} : Destroy(w, p).pool[o] = w.pool[o]
           /\ Destroy(w, p).client = w.client
<1>1. w \in Worlds /\ w.pool[p] \in PoolRecord /\ w.pool[p].task \in Seq(Commands)
      /\ w.cluster \in ClusterRecord
  BY DEF Good, Worlds, PoolRecord
<1>2. PICK r \in PoolRecord : r = [w.pool[p] EXCEPT !.task = <<>>, !.state = "deleted"]
  <2>1. PICK o \in PoolRecord : o = [w.pool[p] EXCEPT !.task = <<>>]
    <3>1. PICK e \in Seq(Commands) : e = <<>>
      <4>1. <<>> \in Seq(Commands)
        OBVIOUS
      <4> QED BY <4>1
    <3>2. [w.pool[p] EXCEPT !.task = e] \in PoolRecord
      BY <1>1 DEF PoolRecord
    <3> QED BY <3>1, <3>2
  <2>2. [o EXCEPT !.state = "deleted"] \in PoolRecord
    BY DEF PoolRecord
  <2>3. [o EXCEPT !.state = "deleted"] = [w.pool[p] EXCEPT !.task = <<>>, !.state = "deleted"]
    BY <2>1
  <2> QED BY <2>2, <2>3
<1>3. /\ r.alive = w.pool[p].alive /\ r.idle = w.pool[p].idle /\ r.task = <<>>
      /\ r.state = "deleted"
  BY <1>1, <1>2 DEF PoolRecord
<1>4. PICK u : u = [w EXCEPT !.pool[p] = r] /\ PoolIs(w, u, p, r)
  BY <1>1, SetPool
<1>5. Good(u, Null, x)
  BY <1>3, <1>4, GoodState
<1>6. PICK k \in [Commands -> CommandRecord] :
         /\ k = [o \in Commands |-> AnsweredBy(w.command[o], Times(w.pool[p].task, o))]
         /\ \A o \in Commands : /\ k[o].asked = w.command[o].asked
                                /\ k[o].answers = w.command[o].answers + Times(w.pool[p].task, o)
  <2>1. ASSUME NEW o \in Commands
        PROVE  /\ AnsweredBy(w.command[o], Times(w.pool[p].task, o)) \in CommandRecord
               /\ AnsweredBy(w.command[o], Times(w.pool[p].task, o)).asked = w.command[o].asked
               /\ AnsweredBy(w.command[o], Times(w.pool[p].task, o)).answers
                     = w.command[o].answers + Times(w.pool[p].task, o)
    <3>1. PICK c \in CommandRecord, n \in Nat :
             c = w.command[o] /\ n = Times(w.pool[p].task, o)
      BY <1>1, TimesIs DEF Worlds
    <3>2. /\ AnsweredBy(c, n) \in CommandRecord
          /\ AnsweredBy(c, n).asked = c.asked /\ AnsweredBy(c, n).answers = c.answers + n
      BY AnsweredByIs
    <3>3. AnsweredBy(w.command[o], Times(w.pool[p].task, o)) = AnsweredBy(c, n)
      BY <3>1
    <3> QED BY <3>1, <3>2, <3>3
  <2>2. [o \in Commands |-> AnsweredBy(w.command[o], Times(w.pool[p].task, o))]
           \in [Commands -> CommandRecord]
    BY <2>1
  <2>3. PICK k \in [Commands -> CommandRecord] :
           k = [o \in Commands |-> AnsweredBy(w.command[o], Times(w.pool[p].task, o))]
    BY <2>2
  <2>4. \A o \in Commands : k[o] = AnsweredBy(w.command[o], Times(w.pool[p].task, o))
    BY <2>3
  <2> QED BY <2>1, <2>3, <2>4
<1>7. PICK a \in Pool \cup {Null} : a = IF w.cluster.slot = p THEN Null ELSE w.cluster.slot
  BY <1>1 DEF ClusterRecord
<1>8. PICK b \in Int : b = IF Times(w.pool[p].task, SlotsCommand) > 0 THEN 2 ELSE w.cluster.status
  BY <1>1 DEF ClusterRecord
<1>9. PICK m \in ClusterRecord : m = [w.cluster EXCEPT !.slot = a, !.status = b]
  <2>1. [w.cluster EXCEPT !.slot = a, !.status = b] \in ClusterRecord
    BY <1>1 DEF ClusterRecord
  <2> QED BY <2>1
<1>10. PICK v \in Worlds : v = [w EXCEPT !.pool = u.pool, !.command = k, !.cluster = m]
                           /\ v.pool = u.pool /\ v.client = u.client /\ v.command = k
  <2>1. u.pool \in [Pool -> PoolRecord] /\ u.client = w.client
    BY <1>4 DEF PoolIs, Worlds
  <2>2. [w EXCEPT !.pool = u.pool, !.command = k, !.cluster = m] \in Worlds
    BY <1>1, <2>1 DEF Worlds
  <2>3. PICK v \in Worlds : v = [w EXCEPT !.pool = u.pool, !.command = k, !.cluster = m]
    BY <2>2
  <2>4. v.pool = u.pool /\ v.client = w.client /\ v.command = k
    BY <1>1, <2>3 DEF Worlds
  <2> QED BY <2>1, <2>3, <2>4
<1>11. Destroy(w, p) = v
  <2>1. u.pool = [w.pool EXCEPT ![p].task = <<>>, ![p].state = "deleted"]
    BY <1>1, <1>2, <1>4 DEF Worlds, PoolRecord
  <2>2. m = [w.cluster EXCEPT !.slot = IF @ = p THEN Null ELSE @,
                              !.status = IF Times(w.pool[p].task, SlotsCommand) > 0 THEN 2 ELSE @]
    BY <1>1, <1>7, <1>8, <1>9 DEF ClusterRecord
  <2> QED BY <1>1, <1>6, <1>10, <2>1, <2>2 DEF Destroy, Worlds, ClusterRecord, PoolRecord
<1>12. Good(v, Null, x)
  BY <1>5, <1>10, GoodSame
<1>13. v.pool[p] = r /\ \A o \in Pool \ {p} : v.pool[o] = w.pool[o]
  BY <1>1, <1>4, <1>10 DEF PoolIs, Worlds
<1>14. v.client = w.client
  BY <1>4, <1>10 DEF PoolIs
<1>15. Gone(v)
  BY <1>3, <1>13 DEF Gone
<1>16. ASSUME NEW o \in Commands PROVE Debt(v, o) = Debt(w, o) + By(o, q, 0)
  <2>1. HeldBy(v, o) = HeldBy(w, o)
    BY <1>14 DEF HeldBy
  <2>2. Cardinality(WaitsIn(v, o))
           = Cardinality(WaitsIn(w, o)) - Times(w.pool[p].task, o) + Times(v.pool[p].task, o)
    BY <1>1, <1>13, WaitsOther
  <2>3. Times(v.pool[p].task, o) = 0 /\ Times(w.pool[p].task, o) \in Nat
    BY <1>1, <1>3, <1>13, TimesIs DEF PoolRecord
  <2>4. /\ Cardinality(HeldBy(w, o)) \in Nat /\ Cardinality(WaitsIn(w, o)) \in Nat
        /\ w.command[o].asked \in Int /\ w.command[o].answers \in Int
    BY <1>1, HeldIs, WaitsIs, BooksInt
  <2>5. /\ v.command[o].asked = w.command[o].asked
        /\ v.command[o].answers = w.command[o].answers + Times(w.pool[p].task, o)
    BY <1>6, <1>10
  <2>6. By(o, q, 0) = 0
    BY DEF By
  <2> QED BY <2>1, <2>2, <2>3, <2>4, <2>5, <2>6 DEF Debt, Uses
<1>17. Shift(w, v, q, 0, 0)
  BY <1>15, <1>16 DEF Shift
<1> QED BY <1>3, <1>11, <1>12, <1>13, <1>14, <1>17

LEMMA PutFirstIs ==
    ASSUME NEW s \in Seq(Client), NEW c \in Client
    PROVE  /\ <<c>> \o s \in Seq(Client)
           /\ \A y : Contains(<<c>> \o s, y) <=> y = c \/ Contains(s, y)
<1>1. PICK f \in Seq(Client) : f = <<c>> /\ Len(f) = 1 /\ f[1] = c
  <2>1. <<c>> \in Seq(Client) /\ Len(<<c>>) = 1 /\ <<c>>[1] = c
    OBVIOUS
  <2> QED BY <2>1
<1>2. PICK n \in Nat : n = Len(s) /\ DOMAIN s = 1 .. n
  BY SeqIs
<1>3. PICK l \in Nat : l = 1
  OBVIOUS
<1>4. PICK r \in Seq(Client) : IsJoin(r, f, s, l, n)
  BY <1>1, <1>2, <1>3, JoinIs
<1>5. /\ r = <<c>> \o s /\ DOMAIN r = 1 .. 1 + n /\ r[1] = c
      /\ \A i \in 1 .. n : r[1 + i] = s[i]
  BY <1>1, <1>3, <1>4 DEF IsJoin
<1>6. ASSUME NEW y PROVE Contains(r, y) <=> y = c \/ Contains(s, y)
  <2>1. ASSUME NEW i \in 1 .. 1 + n, r[i] = y, y # c PROVE \E j \in 1 .. n : s[j] = y
    <3>1. i # 1
      BY <1>5, <2>1
    <3>2. PICK j \in 1 .. n : 1 + j = i
      <4>1. i - 1 \in 1 .. n /\ 1 + (i - 1) = i
        BY <3>1
      <4> QED BY <4>1
    <3> QED BY <1>5, <2>1, <3>2
  <2>2. ASSUME NEW j \in 1 .. n, s[j] = y PROVE \E i \in 1 .. 1 + n : r[i] = y
    <3>1. 1 + j \in 1 .. 1 + n
      OBVIOUS
    <3> QED BY <1>5, <2>2, <3>1
  <2>3. 1 \in 1 .. 1 + n
    OBVIOUS
  <2>4. Contains(r, y) <=> \E i \in 1 .. 1 + n : r[i] = y
    <3>1. Contains(r, y) <=> \E i \in DOMAIN r : r[i] = y
      BY ContainsIs
    <3> QED BY <1>5, <3>1
  <2>5. Contains(s, y) <=> \E i \in 1 .. n : s[i] = y
    BY <1>2, ContainsIs
  <2> QED BY <1>5, <2>1, <2>2, <2>3, <2>4, <2>5
<1> QED BY <1>5, <1>6

LEMMA PushIdleMoves ==
    ASSUME NEW w, NEW c \in Client, Good(w, Null, c), NEW q
    PROVE  Good(PushIdle(w, c), Null, Null) /\ Shift(w, PushIdle(w, c), q, 0, 0)
<1>1. PICK p \in Pool : p = PoolOf[c]
  BY RedisConstants
<1>2. w \in Worlds /\ w.pool[p] \in PoolRecord /\ Once(w.pool[p].alive, p)
  BY <1>1 DEF Good, Worlds
<1>3. PICK i \in Seq(Client) : /\ i = <<c>> \o w.pool[p].idle
                               /\ \A y : Contains(i, y) <=> y = c \/ Contains(w.pool[p].idle, y)
  <2>1. PICK s \in Seq(Client) : s = w.pool[p].idle
    BY <1>2 DEF PoolRecord
  <2>2. <<c>> \o s \in Seq(Client) /\ \A y : Contains(<<c>> \o s, y) <=> y = c \/ Contains(s, y)
    BY PutFirstIs
  <2>3. PICK i \in Seq(Client) : i = <<c>> \o s
    BY <2>2
  <2> QED BY <2>1, <2>2, <2>3
<1>4. PICK n \in Int : n = w.pool[p].fail + 1
  BY <1>2 DEF PoolRecord
<1>5. PICK r \in PoolRecord : r = [w.pool[p] EXCEPT !.idle = i, !.fail = n]
  <2>1. PICK o \in PoolRecord : o = [w.pool[p] EXCEPT !.idle = i]
    <3>1. [w.pool[p] EXCEPT !.idle = i] \in PoolRecord
      BY <1>2 DEF PoolRecord
    <3> QED BY <3>1
  <2>2. [o EXCEPT !.fail = n] \in PoolRecord
    BY DEF PoolRecord
  <2>3. [o EXCEPT !.fail = n] = [w.pool[p] EXCEPT !.idle = i, !.fail = n]
    BY <2>1
  <2> QED BY <2>2, <2>3
<1>6. /\ r.idle = i /\ r.alive = w.pool[p].alive /\ r.task = w.pool[p].task
      /\ r.state = w.pool[p].state
  BY <1>2, <1>5 DEF PoolRecord
<1>7. PICK u : u = [w EXCEPT !.pool[p] = r] /\ PoolIs(w, u, p, r)
  BY <1>2, SetPool
<1>8. u = [w EXCEPT !.pool[p].idle = <<c>> \o @, !.pool[p].fail = @ + 1]
  <2>1. [w.pool EXCEPT ![p] = r] = [w.pool EXCEPT ![p].idle = <<c>> \o @, ![p].fail = @ + 1]
    BY <1>2, <1>3, <1>4, <1>5 DEF Worlds, PoolRecord
  <2> QED BY <1>2, <1>7, <2>1 DEF Worlds, PoolRecord
<1>9. ASSUME NEW e \in Client
      PROVE  IF PoolOf[e] = p
             THEN Rule(w.client[e], Contains(r.alive, e), Contains(r.idle, e), r.state,
                       e = Null, e = Null)
             ELSE (e = Null <=> e = Null) /\ (e = Null <=> e = c)
  <2>1. e # Null
    BY RedisConstants
  <2>2. CASE PoolOf[e] = p
    <3>1. Rule(w.client[e], Contains(w.pool[p].alive, e), Contains(w.pool[p].idle, e),
               w.pool[p].state, e = Null, e = c)
      BY <2>2, RecordOf
    <3>2. Contains(r.idle, e) <=> e = c \/ Contains(w.pool[p].idle, e)
      BY <1>3, <1>6
    <3> QED BY <1>6, <2>1, <2>2, <3>1, <3>2 DEF Rule
  <2>3. CASE PoolOf[e] # p
    BY <1>1, <2>1, <2>3
  <2> QED BY <2>2, <2>3
<1>10. Good(u, Null, Null)
  <2>1. Once(r.alive, p)
    BY <1>2, <1>6
  <2>2. \A e \in Client :
           IF PoolOf[e] = p
           THEN Rule(w.client[e], Contains(r.alive, e), Contains(r.idle, e), r.state,
                     e = Null, e = Null)
           ELSE (e = Null <=> e = Null) /\ (e = Null <=> e = c)
    BY <1>9
  <2>3. PoolIs(w, u, p, r)
    BY <1>7
  <2> QED BY <2>1, <2>2, <2>3, GoodPool
<1>11. Shift(w, u, q, 0, 0)
  BY <1>2, <1>6, <1>7, SamePoolTask
<1>12. PushIdle(w, c) = IF u.pool[p].fail = Cardinality(ClientsOf(p)) THEN Destroy(u, p) ELSE u
  BY <1>1, <1>8 DEF PushIdle
<1>13. u.pool[p].state # "new"
  <2>1. u.pool[p] = r
    BY <1>2, <1>7 DEF PoolIs, Worlds
  <2>2. w.pool[p].state # "new"
    BY <1>1, RecordOf DEF Rule
  <2> QED BY <1>6, <2>1, <2>2
<1>14. PICK d : d = Destroy(u, p) /\ Good(d, Null, Null) /\ Shift(u, d, q, 0, 0)
  BY <1>10, <1>13, DestroyMoves
<1>15. Shift(w, d, q, 0, 0)
  <2>1. u \in Worlds /\ d \in Worlds
    BY <1>10, <1>14 DEF Good
  <2> QED BY <1>2, <1>11, <1>14, <2>1, StillTwice
<1> QED BY <1>10, <1>11, <1>12, <1>14, <1>15

\* The connection that ends is taken out of the queues.
Delinked(w, c) ==
    [w EXCEPT !.pool[PoolOf[c]].alive = Without(@, c), !.pool[PoolOf[c]].idle = Without(@, c)]

LEMMA DelinkMoves ==
    ASSUME NEW w, NEW c \in Client, Good(w, Null, c), NEW q, NEW v, v = Delinked(w, c)
    PROVE  /\ Good(v, Null, c) /\ Shift(w, v, q, 0, 0) /\ ~Contains(v.pool[PoolOf[c]].alive, c)
<1>1. PICK p \in Pool : p = PoolOf[c]
  BY RedisConstants
<1>2. w \in Worlds /\ w.pool[p] \in PoolRecord /\ Once(w.pool[p].alive, p)
  BY <1>1 DEF Good, Worlds
<1>3. PICK a \in Seq(Client) : /\ a = Without(w.pool[p].alive, c) /\ Once(a, p) /\ ~Contains(a, c)
                               /\ \A y : y # c => (Contains(a, y) <=> Contains(w.pool[p].alive, y))
  <2>1. PICK s \in Seq(Client) : s = w.pool[p].alive /\ Once(s, p)
    BY <1>2 DEF PoolRecord
  <2>2. PICK a \in Seq(Client) : a = Without(s, c)
    BY WithoutIs
  <2>3. Once(a, p) /\ ~Contains(a, c) /\ \A y : y # c => (Contains(a, y) <=> Contains(s, y))
    BY <2>1, <2>2, WithoutIs
  <2> QED BY <2>1, <2>2, <2>3
<1>4. PICK i \in Seq(Client) : /\ i = Without(w.pool[p].idle, c)
                               /\ \A y : y # c => (Contains(i, y) <=> Contains(w.pool[p].idle, y))
  <2>1. PICK s \in Seq(Client) : s = w.pool[p].idle
    BY <1>2 DEF PoolRecord
  <2>2. PICK i \in Seq(Client) : i = Without(s, c)
    BY WithoutIs
  <2>3. \A y : y # c => (Contains(i, y) <=> Contains(s, y))
    BY <2>2, WithoutIs
  <2> QED BY <2>1, <2>2, <2>3
<1>5. PICK r \in PoolRecord : r = [w.pool[p] EXCEPT !.alive = a, !.idle = i]
  <2>1. PICK o \in PoolRecord : o = [w.pool[p] EXCEPT !.alive = a]
    <3>1. [w.pool[p] EXCEPT !.alive = a] \in PoolRecord
      BY <1>2 DEF PoolRecord
    <3> QED BY <3>1
  <2>2. [o EXCEPT !.idle = i] \in PoolRecord
    BY DEF PoolRecord
  <2>3. [o EXCEPT !.idle = i] = [w.pool[p] EXCEPT !.alive = a, !.idle = i]
    BY <2>1
  <2> QED BY <2>2, <2>3
<1>6. r.idle = i /\ r.alive = a /\ r.task = w.pool[p].task /\ r.state = w.pool[p].state
  BY <1>2, <1>5 DEF PoolRecord
<1>7. PICK u : u = [w EXCEPT !.pool[p] = r] /\ PoolIs(w, u, p, r)
  BY <1>2, SetPool
<1>8. u = v
  <2>1. [w.pool EXCEPT ![p] = r] = [w.pool EXCEPT ![p].alive = Without(@, c), ![p].idle = Without(@, c)]
    BY <1>2, <1>3, <1>4, <1>5 DEF Worlds, PoolRecord
  <2> QED BY <1>1, <1>2, <1>7, <2>1 DEF Worlds, PoolRecord, Delinked
<1>9. ASSUME NEW e \in Client
      PROVE  IF PoolOf[e] = p
             THEN Rule(w.client[e], Contains(r.alive, e), Contains(r.idle, e), r.state,
                       e = Null, e = c)
             ELSE (e = Null <=> e = Null) /\ (e = c <=> e = c)
  <2>1. e # Null
    BY RedisConstants
  <2>2. CASE PoolOf[e] = p
    <3>1. Rule(w.client[e], Contains(w.pool[p].alive, e), Contains(w.pool[p].idle, e),
               w.pool[p].state, e = Null, e = c)
      BY <2>2, RecordOf
    <3>2. CASE e = c
      <4>1. ~Contains(r.alive, e)
        BY <1>3, <1>6, <3>2
      <4> QED BY <1>6, <2>1, <2>2, <3>1, <3>2, <4>1 DEF Rule
    <3>3. CASE e # c
      <4>1. /\ Contains(r.alive, e) <=> Contains(w.pool[p].alive, e)
            /\ Contains(r.idle, e) <=> Contains(w.pool[p].idle, e)
        BY <1>3, <1>4, <1>6, <3>3
      <4> QED BY <1>6, <2>1, <2>2, <3>1, <3>3, <4>1 DEF Rule
    <3> QED BY <3>2, <3>3
  <2>3. CASE PoolOf[e] # p
    BY <2>3
  <2> QED BY <2>2, <2>3
<1>10. Good(u, Null, c)
  <2>1. Once(r.alive, p)
    BY <1>3, <1>6
  <2>2. \A e \in Client :
           IF PoolOf[e] = p
           THEN Rule(w.client[e], Contains(r.alive, e), Contains(r.idle, e), r.state,
                     e = Null, e = c)
           ELSE (e = Null <=> e = Null) /\ (e = c <=> e = c)
    BY <1>9
  <2>3. PoolIs(w, u, p, r)
    BY <1>7
  <2> QED BY <2>1, <2>2, <2>3, GoodPool
<1>11. Shift(w, u, q, 0, 0)
  BY <1>2, <1>6, <1>7, SamePoolTask
<1>12. ~Contains(u.pool[p].alive, c)
  <2>1. u.pool[p] = r
    BY <1>2, <1>7 DEF PoolIs, Worlds
  <2> QED BY <1>3, <1>6, <2>1
<1> QED BY <1>1, <1>8, <1>10, <1>11, <1>12

LEMMA OnCloseMoves ==
    ASSUME NEW w, NEW c \in Client, Good(w, Null, c), NEW ok, NEW q
    PROVE  Good(OnClose(w, c, ok), Null, Null) /\ Shift(w, OnClose(w, c, ok), q, 0, 0)
<1>1. PICK p \in Pool : p = PoolOf[c]
  BY RedisConstants
<1>2. w \in Worlds
  BY DEF Good
<1>3. CASE w.client[c].fly
  <2>1. ~Contains(w.pool[p].alive, c)
    BY <1>1, <1>3, RecordOf DEF Rule
  <2>2. PICK f : f = FlyLess(w, p) /\ Good(f, Null, c) /\ Shift(w, f, q, 0, 0)
    BY FlyLessMoves
  <2>3. PICK v : v = PushIdle(f, c) /\ Good(v, Null, Null) /\ Shift(f, v, q, 0, 0)
    BY <2>2, PushIdleMoves
  <2>4. f \in Worlds /\ v \in Worlds
    BY <2>2, <2>3 DEF Good
  <2>5. Shift(w, v, q, 0, 0)
    BY <1>2, <2>2, <2>3, <2>4, StillTwice
  <2>6. Good(OpenClient(w, c), Null, Null) /\ Shift(w, OpenClient(w, c), q, 0, 0)
    BY <1>1, <2>1, OpenMoves
  <2>7. OnClose(w, c, ok) = IF IsRunning(w, p) /\ ok THEN OpenClient(w, c) ELSE v
    BY <1>1, <1>3, <2>2, <2>3 DEF OnClose
  <2> QED BY <2>3, <2>5, <2>6, <2>7
<1>4. CASE ~w.client[c].fly
  <2>1. PICK d : d = Delinked(w, c)
    OBVIOUS
  <2>2. Good(d, Null, c) /\ Shift(w, d, q, 0, 0) /\ ~Contains(d.pool[p].alive, c)
    BY <1>1, <2>1, DelinkMoves
  <2>3. PICK v : v = PushIdle(d, c) /\ Good(v, Null, Null) /\ Shift(d, v, q, 0, 0)
    BY <2>2, PushIdleMoves
  <2>4. PICK o : o = OpenClient(d, c) /\ Good(o, Null, Null) /\ Shift(d, o, q, 0, 0)
    BY <1>1, <2>2, OpenMoves
  <2>5. d \in Worlds /\ v \in Worlds /\ o \in Worlds
    BY <2>2, <2>3, <2>4 DEF Good
  <2>6. Shift(w, v, q, 0, 0) /\ Shift(w, o, q, 0, 0)
    BY <1>2, <2>2, <2>3, <2>4, <2>5, StillTwice
  <2>7. OnClose(w, c, ok) = IF IsRunning(w, p) /\ ok THEN o ELSE v
    BY <1>1, <1>4, <2>1, <2>3, <2>4 DEF OnClose, Delinked
  <2> QED BY <2>3, <2>4, <2>6, <2>7
<1> QED BY <1>3, <1>4

-----------------------------------------------------------------------------
(* Pools are closed and opened.                                            *)

ClosedOf(k) == IF k.conn \in {"connecting", "open"} THEN [k EXCEPT !.conn = "closing"] ELSE k

LEMMA ClosedOfIs ==
    ASSUME NEW w \in Worlds, NEW c \in Client
    PROVE  /\ CloseClient(w, c).client[c] = ClosedOf(w.client[c]) /\ ClosedOf(w.client[c]) \in ClientRecord
           /\ ClosedOf(w.client[c]).cmd = w.client[c].cmd /\ ClosedOf(w.client[c]).fly = w.client[c].fly
           /\ ClosedOf(w.client[c]).conn = IF w.client[c].conn \in {"connecting", "open"}
                                           THEN "closing" ELSE w.client[c].conn
<1>1. PICK k \in ClientRecord : k = w.client[c]
  BY DEF Worlds
<1>2. ClosedOf(k) \in ClientRecord
  BY DEF ClosedOf, ClientRecord
<1>3. ClosedOf(k).cmd = k.cmd /\ ClosedOf(k).fly = k.fly
  BY DEF ClosedOf, ClientRecord
<1>4. ClosedOf(k).conn = IF k.conn \in {"connecting", "open"} THEN "closing" ELSE k.conn
  BY DEF ClosedOf, ClientRecord
<1>5. CloseClient(w, c).client[c] = ClosedOf(k)
  BY <1>1 DEF ClosedOf, CloseClient, Worlds
<1> QED BY <1>1, <1>2, <1>3, <1>4, <1>5

\* Pools that run stop, and those of their connections that are alive end.
LEMMA StopMoves ==
    ASSUME NEW w, NEW x, Good(w, Null, x), NEW P, NEW q
    PROVE  Good(ClosePools(w, P), Null, x) /\ Shift(w, ClosePools(w, P), q, 0, 0)
<1> DEFINE Stopped == {p \in P : IsRunning(w, p)}
           LetGo(c) == PoolOf[c] \in Stopped /\ Contains(w.pool[PoolOf[c]].alive, c)
           Ps == [p \in Pool |-> IF p \in Stopped THEN [w.pool[p] EXCEPT !.state = "shut"] ELSE w.pool[p]]
           Cs == [c \in Client |-> IF LetGo(c) THEN CloseClient(w, c).client[c] ELSE w.client[c]]
<1>1. w \in Worlds
  BY DEF Good
<1>2. ASSUME NEW p \in Pool
      PROVE  /\ Ps[p] \in PoolRecord /\ Ps[p].alive = w.pool[p].alive /\ Ps[p].idle = w.pool[p].idle
             /\ Ps[p].task = w.pool[p].task
             /\ \/ Ps[p].state = w.pool[p].state
                \/ Ps[p].state = "shut" /\ w.pool[p].state = "open"
  <2>1. PICK r \in PoolRecord : r = w.pool[p]
    BY <1>1 DEF Worlds
  <2>2. CASE p \in Stopped
    <3>1. r.state = "open"
      BY <2>1, <2>2 DEF IsRunning
    <3>2. Ps[p] = [r EXCEPT !.state = "shut"]
      BY <2>1, <2>2
    <3>3. PICK s \in PoolRecord : s = [r EXCEPT !.state = "shut"]
      <4>1. [r EXCEPT !.state = "shut"] \in PoolRecord
        BY DEF PoolRecord
      <4> QED BY <4>1
    <3>4. s.alive = r.alive /\ s.idle = r.idle /\ s.task = r.task /\ s.state = "shut"
      BY <3>3 DEF PoolRecord
    <3> QED BY <2>1, <3>1, <3>2, <3>3, <3>4
  <2>3. CASE p \notin Stopped
    BY <2>1, <2>3
  <2> QED BY <2>2, <2>3
<1>3. ASSUME NEW c \in Client
      PROVE  /\ Cs[c] \in ClientRecord /\ Cs[c].cmd = w.client[c].cmd /\ Cs[c].fly = w.client[c].fly
             /\ \/ Cs[c].conn = w.client[c].conn
                \/ Cs[c].conn = "closing" /\ w.client[c].conn \in {"connecting", "open"}
                   /\ w.pool[PoolOf[c]].state # "new"
  <2>1. w.client[c] \in ClientRecord
    BY <1>1 DEF Worlds
  <2>2. CASE LetGo(c)
    <3>1. Cs[c] = ClosedOf(w.client[c])
      BY <1>1, <2>2, ClosedOfIs
    <3>2. w.pool[PoolOf[c]].state # "new"
      BY <2>2 DEF IsRunning
    <3> QED BY <1>1, <3>1, <3>2, ClosedOfIs
  <2>3. CASE ~LetGo(c)
    BY <2>1, <2>3
  <2> QED BY <2>2, <2>3
<1>4. Ps \in [Pool -> PoolRecord] /\ Cs \in [Client -> ClientRecord]
  BY <1>2, <1>3
<1> HIDE DEF Ps, Cs, LetGo
<1>5. PICK v \in Worlds : v = [w EXCEPT !.pool = Ps, !.client = Cs]
                          /\ v.pool = Ps /\ v.client = Cs /\ v.command = w.command
  <2>1. [w EXCEPT !.pool = Ps, !.client = Cs] \in Worlds
    BY <1>1, <1>4 DEF Worlds
  <2>2. PICK v \in Worlds : v = [w EXCEPT !.pool = Ps, !.client = Cs]
    BY <2>1
  <2>3. v.pool = Ps /\ v.client = Cs /\ v.command = w.command
    BY <1>1, <2>2 DEF Worlds
  <2> QED BY <2>2, <2>3
<1>6. v = ClosePools(w, P)
  BY <1>5 DEF ClosePools, Ps, Cs, LetGo
<1>7. ASSUME NEW e \in Client PROVE Follows(v, e, Null, x)
  <2>1. PICK p \in Pool : p = PoolOf[e]
    BY RedisConstants
  <2>2. Rule(w.client[e], Contains(w.pool[p].alive, e), Contains(w.pool[p].idle, e),
             w.pool[p].state, e = Null, e = x)
    BY <2>1, RecordOf
  <2>3. e # Null
    BY RedisConstants
  <2>4. v.client[e] = Cs[e] /\ v.pool[p] = Ps[p]
    BY <1>5
  <2>5. Rule(Cs[e], Contains(w.pool[p].alive, e), Contains(w.pool[p].idle, e),
             Ps[p].state, e = Null, e = x)
    <3>1. CASE Cs[e].conn = w.client[e].conn
      BY <1>2, <1>3, <2>2, <3>1 DEF Rule
    <3>2. CASE Cs[e].conn = "closing" /\ w.client[e].conn \in {"connecting", "open"}
               /\ w.pool[p].state # "new"
      BY <1>2, <1>3, <2>2, <3>2 DEF Rule
    <3> QED BY <1>3, <2>1, <3>1, <3>2
  <2> QED BY <1>2, <2>1, <2>4, <2>5 DEF Follows
<1>8. \A p \in Pool : Once(v.pool[p].alive, p)
  BY <1>2, <1>5 DEF Good
<1>9. Good(v, Null, x)
  BY <1>7, <1>8 DEF Good
<1>10. Alone(w, v)
  BY <1>2, <1>5 DEF Alone
<1>11. \A c \in Client : v.client[c].cmd = w.client[c].cmd
  BY <1>3, <1>5
<1>12. \A p \in Pool : v.pool[p].task = w.pool[p].task
  BY <1>2, <1>5
<1>13. Shift(w, v, q, 0, 0)
  BY <1>1, <1>5, <1>10, <1>11, <1>12, ShiftSame
<1> QED BY <1>6, <1>9, <1>13

LEMMA ClusterCloseMoves ==
    ASSUME NEW w, NEW x, Good(w, Null, x), NEW q
    PROVE  Good(ClusterClose(w), Null, x) /\ Shift(w, ClusterClose(w), q, 0, 0)
<1>1. w \in Worlds /\ w.cluster \in ClusterRecord
  BY DEF Good, Worlds
<1>2. PICK k \in ClusterRecord : k = [w.cluster EXCEPT !.status = 0]
  <2>1. [w.cluster EXCEPT !.status = 0] \in ClusterRecord
    BY <1>1 DEF ClusterRecord
  <2> QED BY <2>1
<1>3. PICK u : u = [w EXCEPT !.cluster = k]
  OBVIOUS
<1>4. u = [w EXCEPT !.cluster.status = 0]
  BY <1>1, <1>2, <1>3 DEF Worlds
<1>5. Good(u, Null, x) /\ Shift(w, u, q, 0, 0)
  BY <1>3, ClusterMoves
<1>6. PICK v : v = ClosePools(u, Pool) /\ Good(v, Null, x) /\ Shift(u, v, q, 0, 0)
  BY <1>5, StopMoves
<1>7. Shift(w, v, q, 0, 0)
  <2>1. u \in Worlds /\ v \in Worlds
    BY <1>5, <1>6 DEF Good
  <2> QED BY <1>1, <1>5, <1>6, <2>1, StillTwice
<1>8. ClusterClose(w) = IF w.cluster.status = 0 THEN w ELSE v
  BY <1>4, <1>6 DEF ClusterClose
<1>9. Shift(w, w, q, 0, 0)
  BY <1>1, ShiftSelf
<1> QED BY <1>6, <1>7, <1>8, <1>9

\* A connection that works is left alone.
Keeps(w, v) == \A c \in Client : w.client[c].fly => v.client[c] = w.client[c]

LEMMA OpenedIs ==
    ASSUME NEW w \in Worlds, NEW c \in Client
    PROVE  /\ OpenClient(w, c).client[c] \in ClientRecord
           /\ OpenClient(w, c).client[c].cmd = w.client[c].cmd
           /\ OpenClient(w, c).client[c].fly = TRUE
           /\ OpenClient(w, c).client[c].conn = "connecting"
<1>1. PICK k \in ClientRecord : k = w.client[c]
  BY DEF Worlds
<1>2. PICK l \in ClientRecord : l = [k EXCEPT !.conn = "connecting"]
  <2>1. [k EXCEPT !.conn = "connecting"] \in ClientRecord
    BY DEF ClientRecord
  <2> QED BY <2>1
<1>3. PICK m \in ClientRecord : m = [l EXCEPT !.fly = TRUE]
  <2>1. [l EXCEPT !.fly = TRUE] \in ClientRecord
    BY DEF ClientRecord
  <2> QED BY <2>1
<1>4. PICK r \in ClientRecord : r = [m EXCEPT !.said = 0]
  <2>1. [m EXCEPT !.said = 0] \in ClientRecord
    BY DEF ClientRecord
  <2> QED BY <2>1
<1>5. r.cmd = k.cmd /\ r.fly = TRUE /\ r.conn = "connecting"
  BY <1>2, <1>3, <1>4 DEF ClientRecord
<1>6. OpenClient(w, c).client[c] = r
  BY <1>1, <1>2, <1>3, <1>4 DEF OpenClient, Worlds, ClientRecord
<1> QED BY <1>1, <1>5, <1>6

\* A pool nobody used yet: all its connections are opened.
LEMMA BeginMoves ==
    ASSUME NEW w, NEW x, Good(w, Null, x), NEW p \in Pool, w.pool[p].state = "new", NEW q
    PROVE  /\ Good(OpenPool(w, p, TRUE), Null, x) /\ Shift(w, OpenPool(w, p, TRUE), q, 0, 0)
           /\ Keeps(w, OpenPool(w, p, TRUE))
           /\ OpenPool(w, p, TRUE).cluster = w.cluster
<1> DEFINE Cs == [c \in Client |-> IF c \in ClientsOf(p) THEN OpenClient(w, c).client[c] ELSE w.client[c]]
<1>1. w \in Worlds /\ w.pool[p] \in PoolRecord
  BY DEF Good, Worlds
<1>2. PICK n \in Int : n = w.pool[p].fly + Cardinality(ClientsOf(p))
  <2>1. IsFiniteSet(ClientsOf(p))
    <3>1. ClientsOf(p) \subseteq Client
      BY DEF ClientsOf
    <3> QED BY <3>1, RedisConstants, FS_Subset
  <2>2. Cardinality(ClientsOf(p)) \in Nat
    BY <2>1, FS_CardinalityType
  <2>3. w.pool[p].fly \in Int
    BY <1>1 DEF PoolRecord
  <2> QED BY <2>2, <2>3
<1>3. PICK r \in PoolRecord : r = [w.pool[p] EXCEPT !.state = "open", !.fly = n]
  <2>1. PICK o \in PoolRecord : o = [w.pool[p] EXCEPT !.state = "open"]
    <3>1. [w.pool[p] EXCEPT !.state = "open"] \in PoolRecord
      BY <1>1 DEF PoolRecord
    <3> QED BY <3>1
  <2>2. [o EXCEPT !.fly = n] \in PoolRecord
    BY DEF PoolRecord
  <2>3. [o EXCEPT !.fly = n] = [w.pool[p] EXCEPT !.state = "open", !.fly = n]
    BY <2>1
  <2> QED BY <2>2, <2>3
<1>4. /\ r.idle = w.pool[p].idle /\ r.alive = w.pool[p].alive /\ r.task = w.pool[p].task
      /\ r.state = "open"
  BY <1>1, <1>3 DEF PoolRecord
<1>5. PICK u : u = [w EXCEPT !.pool[p] = r] /\ PoolIs(w, u, p, r)
  BY <1>1, SetPool
<1>6. u \in Worlds /\ u.client = w.client /\ u.command = w.command
      /\ u.pool[p] = r /\ \A o \in Pool \ {p} : u.pool[o] = w.pool[o]
  BY <1>1, <1>5 DEF PoolIs, Worlds
<1>7. ASSUME NEW c \in Client
      PROVE  /\ Cs[c] \in ClientRecord /\ Cs[c].cmd = w.client[c].cmd
             /\ IF PoolOf[c] = p THEN Cs[c].fly = TRUE /\ Cs[c].conn = "connecting"
                ELSE Cs[c] = w.client[c]
  <2>1. w.client[c] \in ClientRecord
    BY <1>1 DEF Worlds
  <2>2. Cs[c] = IF PoolOf[c] = p THEN OpenClient(w, c).client[c] ELSE w.client[c]
    BY DEF ClientsOf
  <2> QED BY <1>1, <2>1, <2>2, OpenedIs
<1>8. Cs \in [Client -> ClientRecord]
  BY <1>7
<1> HIDE DEF Cs
<1>9. PICK v \in Worlds : v = [u EXCEPT !.client = Cs]
                          /\ v.pool = u.pool /\ v.client = Cs /\ v.command = w.command
  <2>1. [u EXCEPT !.client = Cs] \in Worlds
    BY <1>6, <1>8 DEF Worlds
  <2>2. PICK v \in Worlds : v = [u EXCEPT !.client = Cs]
    BY <2>1
  <2>3. v.pool = u.pool /\ v.client = Cs /\ v.command = w.command
    BY <1>6, <2>2 DEF Worlds
  <2> QED BY <2>2, <2>3
<1>10. OpenPool(w, p, TRUE) = v
  <2>1. u.pool = [w.pool EXCEPT ![p].state = "open", ![p].fly = @ + Cardinality(ClientsOf(p))]
    BY <1>1, <1>2, <1>3, <1>5 DEF Worlds, PoolRecord
  <2>2. v = [w EXCEPT !.pool = u.pool, !.client = Cs]
    BY <1>1, <1>5, <1>6, <1>9 DEF Worlds
  <2> QED BY <1>1, <2>1, <2>2 DEF OpenPool, Cs, Worlds, PoolRecord
<1>11. ASSUME NEW e \in Client PROVE Follows(v, e, Null, x)
  <2>1. PICK o \in Pool : o = PoolOf[e]
    BY RedisConstants
  <2>2. Rule(w.client[e], Contains(w.pool[o].alive, e), Contains(w.pool[o].idle, e),
             w.pool[o].state, e = Null, e = x)
    BY <2>1, RecordOf
  <2>3. e # Null
    BY RedisConstants
  <2>4. v.client[e] = Cs[e] /\ v.pool[o] = u.pool[o]
    BY <1>9
  <2>5. CASE o = p
    <3>1. Rule(Cs[e], Contains(r.alive, e), Contains(r.idle, e), r.state, e = Null, e = x)
      BY <1>4, <1>7, <2>1, <2>2, <2>3, <2>5 DEF Rule
    <3> QED BY <1>6, <2>1, <2>4, <2>5, <3>1 DEF Follows
  <2>6. CASE o # p
    BY <1>6, <1>7, <2>1, <2>2, <2>4, <2>6 DEF Follows
  <2> QED BY <2>5, <2>6
<1>12. \A o \in Pool : Once(v.pool[o].alive, o)
  BY <1>4, <1>6, <1>9 DEF Good
<1>13. Good(v, Null, x)
  BY <1>11, <1>12 DEF Good
<1>14. Alone(w, v) /\ \A o \in Pool : v.pool[o].task = w.pool[o].task
  BY <1>4, <1>6, <1>9 DEF Alone
<1>15. \A c \in Client : v.client[c].cmd = w.client[c].cmd
  BY <1>7, <1>9
<1>16. Shift(w, v, q, 0, 0)
  BY <1>1, <1>9, <1>14, <1>15, ShiftSame
<1>17. ASSUME NEW c \in Client, w.client[c].fly PROVE v.client[c] = w.client[c]
  <2>1. PoolOf[c] # p
    BY <1>17, RecordOf DEF Rule
  <2> QED BY <1>7, <1>9, <2>1
<1>18. v.cluster = w.cluster
  BY <1>1, <1>5, <1>9 DEF Worlds
<1> QED BY <1>10, <1>13, <1>16, <1>17, <1>18 DEF Keeps

\* None of them can be opened: the pool is destroyed at once.
LEMMA GiveUpMoves ==
    ASSUME NEW w, NEW x, Good(w, Null, x), NEW p \in Pool, w.pool[p].state = "new", NEW q
    PROVE  /\ Good(OpenPool(w, p, FALSE), Null, x) /\ Shift(w, OpenPool(w, p, FALSE), q, 0, 0)
           /\ Keeps(w, OpenPool(w, p, FALSE)) /\ ~IsRunning(OpenPool(w, p, FALSE), p)
<1>1. w \in Worlds /\ w.pool[p] \in PoolRecord
  BY DEF Good, Worlds
<1>2. PICK n \in Int : n = Cardinality(ClientsOf(p))
  <2>1. IsFiniteSet(ClientsOf(p))
    <3>1. ClientsOf(p) \subseteq Client
      BY DEF ClientsOf
    <3> QED BY <3>1, RedisConstants, FS_Subset
  <2>2. Cardinality(ClientsOf(p)) \in Nat
    BY <2>1, FS_CardinalityType
  <2> QED BY <2>2
<1>3. PICK i \in Seq(Client) : /\ i = SetToSeq(ClientsOf(p))
                               /\ \A c \in Client : PoolOf[c] = p => Contains(i, c)
  <2>1. PICK S \in SUBSET Client : S = ClientsOf(p)
    BY DEF ClientsOf
  <2>2. SetToSeq(S) \in Seq(Client) /\ \A c \in S : Contains(SetToSeq(S), c)
    BY ToSeqIs
  <2>3. PICK i \in Seq(Client) : i = SetToSeq(S)
    BY <2>2
  <2> QED BY <2>1, <2>2, <2>3 DEF ClientsOf
<1>4. PICK r \in PoolRecord : r = [w.pool[p] EXCEPT !.state = "open", !.idle = i, !.fail = n]
  <2>1. PICK o \in PoolRecord : o = [w.pool[p] EXCEPT !.state = "open"]
    <3>1. [w.pool[p] EXCEPT !.state = "open"] \in PoolRecord
      BY <1>1 DEF PoolRecord
    <3> QED BY <3>1
  <2>2. PICK m \in PoolRecord : m = [o EXCEPT !.idle = i]
    <3>1. [o EXCEPT !.idle = i] \in PoolRecord
      BY DEF PoolRecord
    <3> QED BY <3>1
  <2>3. [m EXCEPT !.fail = n] \in PoolRecord
    BY DEF PoolRecord
  <2>4. [m EXCEPT !.fail = n] = [w.pool[p] EXCEPT !.state = "open", !.idle = i, !.fail = n]
    BY <2>1, <2>2
  <2> QED BY <2>3, <2>4
<1>5. r.idle = i /\ r.alive = w.pool[p].alive /\ r.task = w.pool[p].task /\ r.state = "open"
  BY <1>1, <1>4 DEF PoolRecord
<1>6. PICK u : u = [w EXCEPT !.pool[p] = r] /\ PoolIs(w, u, p, r)
  BY <1>1, SetPool
<1>7. OpenPool(w, p, FALSE) = Destroy(u, p)
  <2>1. u.pool = [w.pool EXCEPT ![p].state = "open", ![p].idle = SetToSeq(ClientsOf(p)),
                                ![p].fail = Cardinality(ClientsOf(p))]
    BY <1>1, <1>2, <1>3, <1>4, <1>6 DEF Worlds, PoolRecord
  <2>2. u = [[w EXCEPT !.pool[p].state = "open"]
                EXCEPT !.pool[p].idle = SetToSeq(ClientsOf(p)),
                       !.pool[p].fail = Cardinality(ClientsOf(p))]
    BY <1>1, <1>6, <2>1 DEF Worlds, PoolRecord
  <2> QED BY <2>2 DEF OpenPool
<1>8. ASSUME NEW e \in Client
      PROVE  IF PoolOf[e] = p
             THEN Rule(w.client[e], Contains(r.alive, e), Contains(r.idle, e), r.state,
                       e = Null, e = x)
             ELSE (e = Null <=> e = Null) /\ (e = x <=> e = x)
  <2>1. e # Null
    BY RedisConstants
  <2>2. CASE PoolOf[e] = p
    <3>1. Rule(w.client[e], Contains(w.pool[p].alive, e), Contains(w.pool[p].idle, e),
               w.pool[p].state, e = Null, e = x)
      BY <2>2, RecordOf
    <3>2. Contains(r.idle, e)
      BY <1>3, <1>5, <2>2
    <3> QED BY <1>5, <2>1, <2>2, <3>1, <3>2 DEF Rule
  <2>3. CASE PoolOf[e] # p
    BY <2>3
  <2> QED BY <2>2, <2>3
<1>9. Good(u, Null, x)
  <2>1. Once(r.alive, p)
    BY <1>5 DEF Good
  <2>2. \A e \in Client :
           IF PoolOf[e] = p
           THEN Rule(w.client[e], Contains(r.alive, e), Contains(r.idle, e), r.state,
                     e = Null, e = x)
           ELSE (e = Null <=> e = Null) /\ (e = x <=> e = x)
    BY <1>8
  <2>3. PoolIs(w, u, p, r)
    BY <1>6
  <2> QED BY <2>1, <2>2, <2>3, GoodPool
<1>10. u \in Worlds /\ u.client = w.client /\ u.pool[p] = r
  BY <1>1, <1>6 DEF PoolIs, Worlds
<1>11. Alone(w, u) /\ \A o \in Pool : u.pool[o].task = w.pool[o].task
  BY <1>1, <1>5, <1>6 DEF PoolIs, Worlds, Alone
<1>12. Shift(w, u, q, 0, 0)
  BY <1>1, <1>6, <1>10, <1>11, ShiftSame DEF PoolIs
<1>13. PICK v : /\ v = Destroy(u, p) /\ Good(v, Null, x) /\ Shift(u, v, q, 0, 0)
                /\ v.pool[p].state = "deleted" /\ v.client = u.client
  BY <1>5, <1>9, <1>10, DestroyMoves
<1>14. Shift(w, v, q, 0, 0)
  <2>1. v \in Worlds
    BY <1>13 DEF Good
  <2> QED BY <1>1, <1>10, <1>12, <1>13, <2>1, StillTwice
<1> QED BY <1>7, <1>10, <1>13, <1>14 DEF Keeps, IsRunning

\* The slot and the state of the cluster.
WithSlot(w, s) == [w EXCEPT !.cluster.slot = s]
WithStatus(w, s) == [w EXCEPT !.cluster.status = s]

LEMMA SlotMoves ==
    ASSUME NEW w, NEW h, NEW x, Good(w, h, x), NEW s \in Pool \cup {Null}, NEW q
    PROVE  /\ Good(WithSlot(w, s), h, x) /\ Shift(w, WithSlot(w, s), q, 0, 0)
           /\ WithSlot(w, s).client = w.client
           /\ WithSlot(w, s).pool = w.pool
<1>1. w \in Worlds /\ w.cluster \in ClusterRecord
  BY DEF Good, Worlds
<1>2. PICK k \in ClusterRecord : k = [w.cluster EXCEPT !.slot = s]
  <2>1. [w.cluster EXCEPT !.slot = s] \in ClusterRecord
    BY <1>1 DEF ClusterRecord
  <2> QED BY <2>1
<1>3. PICK v : v = [w EXCEPT !.cluster = k]
  OBVIOUS
<1>4. v = WithSlot(w, s) /\ v.client = w.client /\ v.pool = w.pool
  BY <1>1, <1>2, <1>3 DEF Worlds, WithSlot
<1>5. Good(v, h, x) /\ Shift(w, v, q, 0, 0)
  BY <1>3, ClusterMoves
<1> QED BY <1>4, <1>5

LEMMA StatusMoves ==
    ASSUME NEW w, NEW h, NEW x, Good(w, h, x), NEW s \in Int, NEW q
    PROVE  /\ Good(WithStatus(w, s), h, x)
           /\ Shift(w, WithStatus(w, s), q, 0, 0)
           /\ WithStatus(w, s).client = w.client
           /\ WithStatus(w, s).pool = w.pool
<1>1. w \in Worlds /\ w.cluster \in ClusterRecord
  BY DEF Good, Worlds
<1>2. PICK k \in ClusterRecord : k = [w.cluster EXCEPT !.status = s]
  <2>1. [w.cluster EXCEPT !.status = s] \in ClusterRecord
    BY <1>1 DEF ClusterRecord
  <2> QED BY <2>1
<1>3. PICK v : v = [w EXCEPT !.cluster = k]
  OBVIOUS
<1>4. v = WithStatus(w, s) /\ v.client = w.client /\ v.pool = w.pool
  BY <1>1, <1>2, <1>3 DEF Worlds, WithStatus
<1>5. Good(v, h, x) /\ Shift(w, v, q, 0, 0)
  BY <1>3, ClusterMoves
<1> QED BY <1>4, <1>5

LEMMA FailedMoves ==
    ASSUME NEW w, NEW h, NEW x, Good(w, h, x), NEW ok, NEW q
    PROVE  Good(Counted(w, ok), h, x) /\ Shift(w, Counted(w, ok), q, 0, 0)
<1>1. w \in Worlds /\ w.cluster \in ClusterRecord
  BY DEF Good, Worlds
<1>2. PICK n \in Int : n = IF ok THEN w.cluster.failed ELSE w.cluster.failed + 1
  BY <1>1 DEF ClusterRecord
<1>3. PICK k \in ClusterRecord : k = [w.cluster EXCEPT !.failed = n]
  <2>1. [w.cluster EXCEPT !.failed = n] \in ClusterRecord
    BY <1>1 DEF ClusterRecord
  <2> QED BY <2>1
<1>4. PICK v : v = [w EXCEPT !.cluster = k]
  OBVIOUS
<1>5. v = Counted(w, ok)
  BY <1>1, <1>2, <1>3, <1>4 DEF Worlds, Counted
<1>6. Good(v, h, x) /\ Shift(w, v, q, 0, 0)
  BY <1>4, ClusterMoves
<1> QED BY <1>5, <1>6

LEMMA TornMoves ==
    ASSUME NEW w, NEW h, NEW x, Good(w, h, x), NEW c \in Client, NEW q
    PROVE  Good(Reopened(w, c), h, x) /\ Shift(w, Reopened(w, c), q, 0, 0)
<1>1. w \in Worlds /\ w.cluster \in ClusterRecord
  BY DEF Good, Worlds
<1>2. PICK t \in BOOLEAN : t = (w.cluster.torn \/ w.client[c].conn = "connecting")
  BY Zenon
<1>3. PICK k \in ClusterRecord : k = [w.cluster EXCEPT !.torn = t]
  <2>1. [w.cluster EXCEPT !.torn = t] \in ClusterRecord
    BY <1>1 DEF ClusterRecord
  <2> QED BY <2>1
<1>4. PICK v : v = [w EXCEPT !.cluster = k]
  OBVIOUS
<1>5. v = Reopened(w, c)
  BY <1>1, <1>2, <1>3, <1>4 DEF Worlds, Reopened
<1>6. Good(v, h, x) /\ Shift(w, v, q, 0, 0)
  BY <1>4, ClusterMoves
<1> QED BY <1>5, <1>6

\* Only the connection in hand is touched.
LEMMA PushKeeps ==
    ASSUME NEW w \in Worlds, NEW c \in Client, NEW e \in Client \ {c}
    PROVE  Push(w, c).client[e] = w.client[e]
<1>1. PICK p \in Pool : p = PoolOf[c]
  BY RedisConstants
<1>2. CASE w.pool[p].task # <<>> /\ CanWrite(w, c)
  <2>1. Push(w, c).client
           = [w.client EXCEPT ![c].cmd = Head(w.pool[p].task), ![c].fly = TRUE]
    BY <1>1, <1>2 DEF Push, Drop, ClientPost, Grab, Worlds
  <2> QED BY <2>1 DEF Worlds
<1>3. CASE ~(w.pool[p].task # <<>> /\ CanWrite(w, c))
  <2>1. PICK u : u = IF w.pool[p].task = <<>> THEN w ELSE [w EXCEPT !.pool[p].task = PutBack(@)]
    OBVIOUS
  <2>2. u.client = w.client
    BY <2>1 DEF Worlds
  <2>3. u = w \/ u = [w EXCEPT !.pool[p].task = PutBack(@)]
    BY <2>1
  <2>4. PICK t : t = IF IsRunning(w, p) THEN u ELSE CloseClient(u, c)
    OBVIOUS
  <2>5. t.client[e] = w.client[e]
    <3>1. CASE t = u
      BY <2>2, <3>1
    <3>2. CASE t = [u EXCEPT !.client[c].conn = "closing"]
      BY <2>2, <2>3, <3>2 DEF Worlds
    <3> QED BY <2>4, <3>1, <3>2 DEF CloseClient
  <2>6. Push(w, c) = FlyLess([t EXCEPT !.pool[p].alive = Append(@, c)], p)
    BY <1>1, <1>3, <2>1, <2>4 DEF Push
  <2>7. FlyLess([t EXCEPT !.pool[p].alive = Append(@, c)], p).client = t.client
    <3>1. DOMAIN t = DOMAIN w
      BY <2>3, <2>4 DEF CloseClient
    <3> QED BY <3>1 DEF FlyLess, Worlds
  <2> QED BY <2>5, <2>6, <2>7
<1> QED BY <1>2, <1>3

LEMMA PostTaskKeeps ==
    ASSUME NEW w, NEW x, Good(w, Null, x), NEW p \in Pool, NEW q \in Commands
    PROVE  Keeps(w, PostTask(w, p, q))
<1>1. w \in Worlds
  BY DEF Good
<1>2. \A u \in Worlds : PushTask(u, p, q).client = u.client
  BY DEF PushTask, Grab, Worlds
<1>3. CASE w.pool[p].alive = <<>>
  BY <1>1, <1>2, <1>3 DEF PostTask, Keeps
<1>4. CASE w.pool[p].alive # <<>>
  <2>1. PICK c : c = Head(w.pool[p].alive)
    OBVIOUS
  <2>2. PICK t : t = Taken(w, p)
    OBVIOUS
  <2>3. c \in Client /\ PoolOf[c] = p /\ Good(t, c, x) /\ t.client = w.client
    BY <1>4, <2>1, <2>2, TakeMoves
  <2>4. t \in Worlds
    BY <2>3 DEF Good
  <2>5. ~w.client[c].fly
    BY <2>3, RecordOf DEF Rule
  <2>6. ASSUME NEW e \in Client \ {c} PROVE PostTask(w, p, q).client[e] = w.client[e]
    <3>1. CASE CanWrite(w, c)
      <4>1. PostTask(w, p, q) = ClientPost(t, c, q)
        BY <1>4, <2>1, <2>2, <3>1 DEF PostTask, Taken
      <4>2. ClientPost(t, c, q).client = [t.client EXCEPT ![c].cmd = q, ![c].fly = TRUE]
        BY <2>4 DEF ClientPost, Grab, Worlds
      <4> QED BY <2>3, <2>4, <4>1, <4>2 DEF Worlds
    <3>2. CASE ~CanWrite(w, c)
      <4>1. PostTask(w, p, q) = PushTask(Push(t, c), p, q)
        BY <1>4, <2>1, <2>2, <3>2 DEF PostTask, Taken
      <4>2. Push(t, c) \in Worlds
        BY <2>3, PushMoves DEF Good
      <4>3. Push(t, c).client[e] = t.client[e]
        BY <2>3, <2>4, PushKeeps
      <4> QED BY <1>2, <2>3, <4>1, <4>2, <4>3
    <3> QED BY <3>1, <3>2
  <2> QED BY <2>5, <2>6 DEF Keeps
<1> QED BY <1>3, <1>4

LEMMA KeepsTwice ==
    ASSUME NEW u, NEW v, NEW w, Keeps(u, v), Keeps(v, w)
    PROVE  Keeps(u, w)
  BY DEF Keeps

LEMMA LaunchMoves ==
    ASSUME NEW w, NEW x, Good(w, Null, x), NEW p \in Pool, NEW k \in Commands, NEW q
    PROVE  /\ Good(LaunchAt(w, p, k), Null, x) /\ Shift(w, LaunchAt(w, p, k), q, 0, 0)
           /\ Keeps(w, LaunchAt(w, p, k))
<1>1. w \in Worlds /\ w.command[k] \in CommandRecord
  BY DEF Good, Worlds
<1>2. PICK n \in Int : n = w.command[k].asked + 1
  BY <1>1 DEF CommandRecord
<1>3. PICK r \in CommandRecord : r = [w.command[k] EXCEPT !.asked = n]
  <2>1. [w.command[k] EXCEPT !.asked = n] \in CommandRecord
    BY <1>1 DEF CommandRecord
  <2> QED BY <2>1
<1>4. PICK u : u = [w EXCEPT !.command[k] = r] /\ CommandIs(w, u, k, r)
  BY <1>1, SetCommand
<1>5. u = [w EXCEPT !.command[k].asked = @ + 1]
  BY <1>1, <1>2, <1>3, <1>4 DEF Worlds
<1>6. Good(u, Null, x)
  BY <1>4, GoodCommand
<1>7. u \in Worlds /\ u.client = w.client
  BY <1>4 DEF CommandIs
<1>8. Shift(w, u, k, 1, 0)
  <2>1. /\ r.asked - r.answers = w.command[k].asked - w.command[k].answers + 1
        /\ r.refs = w.command[k].refs + 0
    BY <1>1, <1>2, <1>3 DEF CommandRecord
  <2> QED BY <1>1, <1>4, <1>7, <2>1, ShiftCommand
<1>9. PICK v : v = PostTask(u, p, k) /\ Good(v, Null, x) /\ Shift(u, v, k, -1, 0)
  BY <1>6, PostTaskMoves
<1>10. v \in Worlds
  BY <1>9 DEF Good
<1>11. Shift(w, v, k, 0, 0)
  <2>1. PICK m \in Int : m = -1
    OBVIOUS
  <2>2. Shift(w, v, k, 1 + m, 0 + 0)
    BY <1>1, <1>7, <1>8, <1>9, <1>10, <2>1, ShiftJoin
  <2>3. 1 + m = 0 /\ 0 + 0 = 0
    BY <2>1
  <2> QED BY <2>2, <2>3
<1>12. Shift(w, v, q, 0, 0)
  BY <1>1, <1>10, <1>11, ShiftNone
<1>13. LaunchAt(w, p, k) = v
  BY <1>5, <1>9 DEF LaunchAt
<1>14. Keeps(w, v)
  <2>1. Keeps(u, v)
    BY <1>6, <1>9, PostTaskKeeps
  <2> QED BY <1>7, <2>1 DEF Keeps
<1> QED BY <1>9, <1>12, <1>13, <1>14

-----------------------------------------------------------------------------
(* The cluster.                                                            *)

LEMMA OpenPoolMoves ==
    ASSUME NEW w, NEW x, Good(w, Null, x), NEW p \in Pool, w.pool[p].state = "new", NEW ok \in BOOLEAN, NEW q
    PROVE  /\ Good(OpenPool(w, p, ok), Null, x) /\ Shift(w, OpenPool(w, p, ok), q, 0, 0)
           /\ Keeps(w, OpenPool(w, p, ok))
<1>1. CASE ok = TRUE
  BY <1>1, BeginMoves
<1>2. CASE ok = FALSE
  BY <1>2, GiveUpMoves
<1> QED BY <1>1, <1>2

LEMMA ClusterOpenMoves ==
    ASSUME NEW w, NEW x, Good(w, Null, x), NEW p \in Pool, NEW ok \in BOOLEAN, NEW q
    PROVE  /\ Good(ClusterOpen(w, p, ok), Null, x) /\ Shift(w, ClusterOpen(w, p, ok), q, 0, 0)
           /\ Keeps(w, ClusterOpen(w, p, ok))
<1>1. w \in Worlds
  BY DEF Good
<1>2. CASE w.pool[p].state # "new"
  <2>1. ClusterOpen(w, p, ok) = w
    BY <1>2 DEF ClusterOpen
  <2>2. Shift(w, w, q, 0, 0) /\ Keeps(w, w)
    BY <1>1, ShiftSelf DEF Keeps
  <2> QED BY <2>1, <2>2
<1>3. CASE w.pool[p].state = "new"
  <2>1. PICK a : a = OpenPool(w, p, ok) /\ Good(a, Null, x) /\ Shift(w, a, q, 0, 0) /\ Keeps(w, a)
    BY <1>3, OpenPoolMoves
  <2>2. PICK b : /\ b = WithSlot(a, p) /\ Good(b, Null, x) /\ Shift(a, b, q, 0, 0)
                 /\ b.client = a.client
    BY <2>1, SlotMoves
  <2>3. PICK c : /\ c = LaunchAt(b, p, SlotsCommand) /\ Good(c, Null, x) /\ Shift(b, c, q, 0, 0)
                 /\ Keeps(b, c)
    <3>1. SlotsCommand \in Commands
      BY DEF Commands
    <3> QED BY <2>2, <3>1, LaunchMoves
  <2>4. PICK d : /\ d = WithStatus(c, 1) /\ Good(d, Null, x) /\ Shift(c, d, q, 0, 0)
                 /\ d.client = c.client
    BY <2>3, StatusMoves
  <2>5. a \in Worlds /\ b \in Worlds /\ c \in Worlds /\ d \in Worlds
    BY <2>1, <2>2, <2>3, <2>4 DEF Good
  <2>6. Shift(w, b, q, 0, 0)
    BY <1>1, <2>1, <2>2, <2>5, StillTwice
  <2>7. Shift(w, c, q, 0, 0)
    BY <1>1, <2>3, <2>5, <2>6, StillTwice
  <2>8. Shift(w, d, q, 0, 0)
    BY <1>1, <2>4, <2>5, <2>7, StillTwice
  <2>9. Keeps(w, b) /\ Keeps(w, d)
    BY <2>1, <2>2, <2>3, <2>4 DEF Keeps
  <2>10. ClusterOpen(w, p, ok) \in {a, b, d}
    BY <1>3, <2>1, <2>2, <2>3, <2>4 DEF ClusterOpen, WithSlot, WithStatus
  <2> QED BY <2>1, <2>2, <2>4, <2>6, <2>8, <2>9, <2>10
<1> QED BY <1>2, <1>3

\* How often a command was redirected is not in its books.
Tried(w, q) == [w EXCEPT !.command[q].tries = @ + 1]

LEMMA TriesMoves ==
    ASSUME NEW w, NEW h, NEW x, Good(w, h, x), NEW k \in Commands, NEW q
    PROVE  /\ Good(Tried(w, k), h, x)
           /\ Shift(w, Tried(w, k), q, 0, 0)
           /\ Tried(w, k).client = w.client
<1>1. w \in Worlds /\ w.command[k] \in CommandRecord
  BY DEF Good, Worlds
<1>2. PICK n \in Int : n = w.command[k].tries + 1
  BY <1>1 DEF CommandRecord
<1>3. PICK r \in CommandRecord : r = [w.command[k] EXCEPT !.tries = n]
  <2>1. [w.command[k] EXCEPT !.tries = n] \in CommandRecord
    BY <1>1 DEF CommandRecord
  <2> QED BY <2>1
<1>4. PICK u : u = [w EXCEPT !.command[k] = r] /\ CommandIs(w, u, k, r)
  BY <1>1, SetCommand
<1>5. u = Tried(w, k)
  BY <1>1, <1>2, <1>3, <1>4 DEF Worlds, Tried
<1>6. Good(u, h, x)
  BY <1>4, GoodCommand
<1>7. u \in Worlds /\ u.client = w.client
  BY <1>4 DEF CommandIs
<1>8. Shift(w, u, k, 0, 0)
  <2>1. /\ r.asked - r.answers = w.command[k].asked - w.command[k].answers + 0
        /\ r.refs = w.command[k].refs + 0
    BY <1>1, <1>2, <1>3 DEF CommandRecord
  <2> QED BY <1>1, <1>4, <1>7, <2>1, ShiftCommand
<1>9. Shift(w, u, q, 0, 0)
  BY <1>1, <1>7, <1>8, ShiftNone
<1> QED BY <1>5, <1>6, <1>7, <1>9

LEMMA RelaunchMoves ==
    ASSUME NEW w, NEW x, Good(w, Null, x), NEW q \in Commands, NEW to \in Pool,
           NEW moved \in BOOLEAN, NEW ok \in BOOLEAN,
           NEW r, r = Relaunch(w, q, to, moved, ok)
    PROVE  /\ Good(r.world, Null, x) /\ Keeps(w, r.world) /\ r.sent \in BOOLEAN
           /\ r.sent = TRUE => Shift(w, r.world, q, -1, 0)
           /\ r.sent = FALSE => Shift(w, r.world, q, 0, 0)
<1>1. w \in Worlds /\ -1 \in Int
  BY DEF Good
<1>2. PICK a : /\ a = Tried(w, q) /\ Good(a, Null, x) /\ Shift(w, a, q, 0, 0)
               /\ a.client = w.client
  BY TriesMoves
<1>3. PICK b : b = ClusterOpen(a, to, ok) /\ Good(b, Null, x) /\ Shift(a, b, q, 0, 0) /\ Keeps(a, b)
  BY <1>2, ClusterOpenMoves
<1>4. PICK s \in Pool \cup {Null} : s = IF moved THEN to ELSE b.cluster.slot
  BY <1>3 DEF Good, Worlds, ClusterRecord
<1>5. PICK c : /\ c = WithSlot(b, s) /\ Good(c, Null, x) /\ Shift(b, c, q, 0, 0)
               /\ c.client = b.client
  BY <1>3, SlotMoves
<1>6. PICK d : d = PostTask(c, to, q) /\ Good(d, Null, x) /\ Shift(c, d, q, -1, 0) /\ Keeps(c, d)
  BY <1>5, PostTaskMoves, PostTaskKeeps
<1>7. a \in Worlds /\ b \in Worlds /\ c \in Worlds /\ d \in Worlds
  BY <1>2, <1>3, <1>5, <1>6 DEF Good
<1>8. Shift(w, b, q, 0, 0)
  BY <1>1, <1>2, <1>3, <1>7, StillTwice
<1>9. Shift(w, c, q, 0, 0)
  BY <1>1, <1>5, <1>7, <1>8, StillTwice
<1>10. Shift(w, d, q, -1, 0)
  BY <1>1, <1>6, <1>7, <1>9, StillThen
<1>11. Keeps(w, a) /\ Keeps(w, c) /\ Keeps(w, d)
  <2>1. Keeps(w, a) /\ Keeps(b, c)
    BY <1>2, <1>5 DEF Keeps
  <2>2. Keeps(w, b)
    BY <1>3, <2>1, KeepsTwice
  <2>3. Keeps(w, c)
    BY <2>1, <2>2, KeepsTwice
  <2> QED BY <1>6, <2>1, <2>3, KeepsTwice
<1>12. c = [b EXCEPT !.cluster.slot = IF moved THEN to ELSE @]
  BY <1>4, <1>5, <1>7 DEF Worlds, ClusterRecord, WithSlot
<1>13. \/ r = [sent |-> FALSE, world |-> a]
       \/ r = [sent |-> TRUE, world |-> d]
       \/ r = [sent |-> FALSE, world |-> c]
  BY <1>2, <1>3, <1>6, <1>12 DEF Relaunch, Tried
<1>14. CASE r = [sent |-> FALSE, world |-> a]
  BY <1>2, <1>11, <1>14
<1>15. CASE r = [sent |-> TRUE, world |-> d]
  BY <1>6, <1>10, <1>11, <1>15
<1>16. CASE r = [sent |-> FALSE, world |-> c]
  BY <1>5, <1>9, <1>11, <1>16
<1> QED BY <1>13, <1>14, <1>15, <1>16

LEMMA SlotsMoves ==
    ASSUME NEW w, NEW x, Good(w, Null, x), NEW good \in BOOLEAN, NEW to,
           good => to \in Pool, NEW ok \in BOOLEAN, NEW q
    PROVE  Good(UpdateSlots(w, good, to, ok), Null, x) /\ Shift(w, UpdateSlots(w, good, to, ok), q, 0, 0)
<1>1. w \in Worlds
  BY DEF Good
<1>2. CASE good
  <2>1. to \in Pool
    BY <1>2
  <2>2. PICK a : a = ClusterOpen(w, to, ok) /\ Good(a, Null, x) /\ Shift(w, a, q, 0, 0)
    BY <2>1, ClusterOpenMoves
  <2>3. PICK b : b = WithSlot(a, to) /\ Good(b, Null, x) /\ Shift(a, b, q, 0, 0)
    BY <2>1, <2>2, SlotMoves
  <2>4. PICK c : c = WithStatus(b, 3) /\ Good(c, Null, x) /\ Shift(b, c, q, 0, 0)
    BY <2>3, StatusMoves
  <2>5. a \in Worlds /\ b \in Worlds /\ c \in Worlds
    BY <2>2, <2>3, <2>4 DEF Good
  <2>6. Shift(w, b, q, 0, 0)
    BY <1>1, <2>2, <2>3, <2>5, StillTwice
  <2>7. Shift(w, c, q, 0, 0)
    BY <1>1, <2>4, <2>5, <2>6, StillTwice
  <2>8. UpdateSlots(w, good, to, ok) = c
    BY <1>2, <2>2, <2>3, <2>4, <2>5 DEF UpdateSlots, Worlds, WithSlot, WithStatus
  <2> QED BY <2>4, <2>7, <2>8
<1>3. CASE ~good
  <2>1. UpdateSlots(w, good, to, ok) = WithStatus(w, 2)
    BY <1>3 DEF UpdateSlots, WithStatus
  <2> QED BY <2>1, StatusMoves
<1> QED BY <1>2, <1>3

\* What the callback of an answered command does.
LEMMA ThenMoves ==
    ASSUME NEW w, NEW x, Good(w, Null, x), NEW then, NEW q
    PROVE  Good(Then(w, then), Null, x) /\ Shift(w, Then(w, then), q, 0, 0)
<1>1. w \in Worlds
  BY DEF Good
<1>2. CASE then = "close"
  BY <1>2, ClusterCloseMoves DEF Then
<1>3. CASE then # "close" /\ then \in Command /\ MayLaunch(w, then)
  <2>1. w.cluster.slot \in Pool /\ then \in Commands
    BY <1>1, <1>3 DEF MayLaunch, Worlds, ClusterRecord, Commands
  <2>2. Then(w, then) = LaunchAt(w, w.cluster.slot, then)
    BY <1>3 DEF Then
  <2> QED BY <2>1, <2>2, LaunchMoves
<1>4. CASE then # "close" /\ ~(then \in Command /\ MayLaunch(w, then))
  <2>1. Then(w, then) = w
    BY <1>4 DEF Then
  <2> QED BY <1>1, <2>1, ShiftSelf
<1> QED BY <1>2, <1>3, <1>4

-----------------------------------------------------------------------------
(* The answer to a command.                                                *)

\* A connection has nothing to do any more, and is taken in hand.
Landed(w, c) == [w EXCEPT !.client[c].fly = FALSE]

LEMMA LandMoves ==
    ASSUME NEW w, NEW x, Good(w, Null, x), NEW c \in Client, w.client[c].fly, w.client[c].cmd = Null,
           w.client[c].conn # "connecting", NEW q
    PROVE  Good(Landed(w, c), c, x) /\ Shift(w, Landed(w, c), q, 0, 0)
<1>1. /\ w \in Worlds /\ w.client[c] \in ClientRecord
      /\ Rule(w.client[c], Contains(w.pool[PoolOf[c]].alive, c), Contains(w.pool[PoolOf[c]].idle, c),
              w.pool[PoolOf[c]].state, c = Null, c = x)
  BY RecordOf
<1>2. PICK r \in ClientRecord : r = [w.client[c] EXCEPT !.fly = FALSE]
  <2>1. [w.client[c] EXCEPT !.fly = FALSE] \in ClientRecord
    BY <1>1 DEF ClientRecord
  <2> QED BY <2>1
<1>3. r.fly = FALSE /\ r.cmd = Null /\ w.client[c].cmd = Null /\ r.conn = w.client[c].conn
  BY <1>1, <1>2 DEF ClientRecord
<1>4. PICK u : u = [w EXCEPT !.client[c] = r] /\ ClientIs(w, u, c, r)
  BY <1>1, SetClient
<1>5. u = Landed(w, c)
  BY <1>1, <1>2, <1>4 DEF Worlds, Landed
<1>6. Rule(r, Contains(w.pool[PoolOf[c]].alive, c), Contains(w.pool[PoolOf[c]].idle, c),
           w.pool[PoolOf[c]].state, c = c, c = x)
  BY <1>1, <1>3 DEF Rule
<1>7. Good(u, c, x)
  <2>1. \A e \in Client \ {c} : (e = c <=> e = Null) /\ (e = x <=> e = x)
    BY RedisConstants
  <2> QED BY <1>4, <1>6, <2>1, GoodClient
<1>8. Shift(w, u, q, 0, 0)
  BY <1>1, <1>3, <1>4, SameClientCmd
<1> QED BY <1>5, <1>7, <1>8

LEMMA GreetedMoves ==
    ASSUME NEW w, NEW x, Good(w, Null, x), NEW c \in Client, w.client[c].fly, w.client[c].cmd = Null,
           w.client[c].conn # "connecting", NEW q
    PROVE  Good(Greeted(w, c), Null, x) /\ Shift(w, Greeted(w, c), q, 0, 0)
<1>1. PICK u : u = Landed(w, c) /\ Good(u, c, x) /\ Shift(w, u, q, 0, 0)
  BY LandMoves
<1>2. PICK v : v = Push(u, c) /\ Good(v, Null, x) /\ Shift(u, v, q, 0, 0)
  BY <1>1, PushMoves
<1>3. w \in Worlds /\ u \in Worlds /\ v \in Worlds
  BY <1>1, <1>2 DEF Good
<1>4. Greeted(w, c) = v
  BY <1>1, <1>2 DEF Greeted, Landed
<1> QED BY <1>1, <1>2, <1>3, <1>4, StillTwice

\* The connection's command is taken from it.
Freed(w, c) == [w EXCEPT !.client[c].cmd = Null]

LEMMA FreedIs ==
    ASSUME NEW w \in Worlds, NEW c \in Client, NEW q \in Commands, w.client[c].cmd = q
    PROVE  /\ Freed(w, c) \in Worlds /\ Shift(w, Freed(w, c), q, 1, 1)
           /\ \E r \in ClientRecord : /\ ClientIs(w, Freed(w, c), c, r) /\ r.cmd = Null
                                      /\ r.fly = w.client[c].fly /\ r.conn = w.client[c].conn
<1>1. w.client[c] \in ClientRecord
  BY DEF Worlds
<1>2. PICK r \in ClientRecord : r = [w.client[c] EXCEPT !.cmd = Null]
  <2>1. [w.client[c] EXCEPT !.cmd = Null] \in ClientRecord
    BY <1>1 DEF ClientRecord
  <2> QED BY <2>1
<1>3. r.cmd = Null /\ r.fly = w.client[c].fly /\ r.conn = w.client[c].conn
  BY <1>1, <1>2 DEF ClientRecord
<1>4. PICK u : u = [w EXCEPT !.client[c] = r] /\ ClientIs(w, u, c, r)
  BY <1>1, SetClient
<1>5. u = Freed(w, c)
  BY <1>1, <1>2, <1>4 DEF Worlds, Freed
<1>6. u \in Worlds
  BY <1>4 DEF ClientIs
<1>7. Shift(w, u, q, 1, 1)
  BY <1>3, <1>4, <1>6, ShiftBack
<1> QED BY <1>3, <1>4, <1>5, <1>6, <1>7

Redirected == {"moved", "ask"}

LEMMA CallbackMoves ==
    ASSUME NEW w \in Worlds, NEW x, NEW c \in Client, NEW q \in Commands, q = w.client[c].cmd,
           Good(Freed(w, c), Null, x), w.client[c].fly, w.client[c].conn # "connecting",
           NEW reply \in {"ok", "error", "moved", "ask"}, NEW to, reply # "error" => to \in Pool,
           NEW ok \in BOOLEAN
    PROVE  Good(Callback(w, c, reply, to, ok), Null, x) /\ Shift(w, Callback(w, c, reply, to, ok), q, 0, 0)
<1>0. PICK one \in Int, less \in Int : one = 1 /\ less = -1 /\ one + less = 0 /\ one + 0 = 1 /\ 0 + less = -1
  OBVIOUS
<1>1. PICK f \in Worlds, k \in ClientRecord :
         /\ f = Freed(w, c) /\ Good(f, Null, x) /\ Shift(w, f, q, one, one)
         /\ ClientIs(w, f, c, k) /\ k.cmd = Null /\ k.fly = w.client[c].fly /\ k.conn = w.client[c].conn
  BY <1>0, FreedIs
<1>2. f.client[c] = k
  BY <1>1 DEF ClientIs, Worlds
<1>3. PICK a : a = IF reply \in Redirected THEN Relaunch(f, q, to, reply = "moved", ok)
                   ELSE [sent |-> FALSE, world |-> f]
  OBVIOUS
<1>4. /\ Good(a.world, Null, x) /\ Keeps(f, a.world) /\ a.sent \in BOOLEAN
      /\ a.sent = TRUE => Shift(f, a.world, q, less, 0)
      /\ a.sent = FALSE => Shift(f, a.world, q, 0, 0)
  <2>1. CASE reply \in Redirected
    <3>1. PICK m \in BOOLEAN : m = (reply = "moved")
      OBVIOUS
    <3>2. a = Relaunch(f, q, to, m, ok) /\ to \in Pool
      BY <1>3, <2>1, <3>1 DEF Redirected
    <3> QED BY <1>0, <1>1, <3>2, RelaunchMoves
  <2>2. CASE reply \notin Redirected
    <3>1. a = [sent |-> FALSE, world |-> f]
      BY <1>3, <2>2
    <3>2. Keeps(f, f) /\ Shift(f, f, q, 0, 0)
      BY ShiftSelf DEF Keeps
    <3> QED BY <1>1, <3>1, <3>2
  <2> QED BY <2>1, <2>2
<1>5. PICK b : b = a.world
  OBVIOUS
<1>6. b.client[c] = k
  BY <1>1, <1>2, <1>4, <1>5 DEF Keeps
<1>7. PICK l : l = Landed(b, c) /\ Good(l, c, x) /\ Shift(b, l, q, 0, 0)
  BY <1>1, <1>4, <1>5, <1>6, LandMoves
<1>8. PICK p : p = Push(l, c) /\ Good(p, Null, x) /\ Shift(l, p, q, 0, 0)
  BY <1>7, PushMoves
<1>9. b \in Worlds /\ l \in Worlds /\ p \in Worlds
  BY <1>4, <1>5, <1>7, <1>8 DEF Good
<1>10. Shift(b, p, q, 0, 0)
  BY <1>7, <1>8, <1>9, StillTwice
<1>11. CASE a.sent = TRUE
  <2>1. Shift(w, b, q, one + less, one + 0)
    BY <1>0, <1>1, <1>4, <1>5, <1>9, <1>11, ShiftJoin
  <2>2. Shift(w, b, q, 0, one)
    BY <1>0, <2>1
  <2>3. Shift(w, p, q, 0, one)
    BY <1>0, <1>9, <1>10, <2>2, ThenStill
  <2>4. PICK d : d = Drop(p, q) /\ Good(d, Null, x) /\ Shift(p, d, q, 0, less)
    BY <1>0, <1>8, DropMoves
  <2>5. d \in Worlds
    BY <2>4 DEF Good
  <2>6. Shift(w, d, q, 0 + 0, one + less)
    BY <1>0, <1>9, <2>3, <2>4, <2>5, ShiftJoin
  <2>7. Shift(w, d, q, 0, 0)
    BY <1>0, <2>6
  <2>8. Callback(w, c, reply, to, ok) = d
    BY <1>1, <1>3, <1>5, <1>7, <1>8, <1>11, <2>4 DEF Callback, Freed, Landed, Redirected
  <2> QED BY <2>4, <2>7, <2>8
<1>12. CASE a.sent = FALSE
  <2>1. Shift(w, b, q, one, one)
    BY <1>0, <1>1, <1>4, <1>5, <1>9, <1>12, ThenStill
  <2>2. Shift(w, p, q, one, one)
    BY <1>0, <1>9, <1>10, <2>1, ThenStill
  <2>3. PICK t : t = Answer(p, q) /\ Good(t, Null, x) /\ Shift(p, t, q, less, 0)
    BY <1>0, <1>8, AnswerMoves
  <2>4. t \in Worlds
    BY <2>3 DEF Good
  <2>5. Shift(w, t, q, one + less, one + 0)
    BY <1>0, <1>9, <2>2, <2>3, <2>4, ShiftJoin
  <2>6. Shift(w, t, q, 0, one)
    BY <1>0, <2>5
  <2>7. PICK u : /\ u = IF q = SlotsCommand THEN UpdateSlots(t, reply = "ok", to, ok) ELSE t
                 /\ Good(u, Null, x) /\ Shift(t, u, q, 0, 0)
    <3>1. PICK g \in BOOLEAN : g = (reply = "ok")
      OBVIOUS
    <3>2. g => to \in Pool
      BY <3>1
    <3>3. Good(UpdateSlots(t, g, to, ok), Null, x) /\ Shift(t, UpdateSlots(t, g, to, ok), q, 0, 0)
      BY <2>3, <3>2, SlotsMoves
    <3>4. Shift(t, t, q, 0, 0)
      BY <2>4, ShiftSelf
    <3> QED BY <2>3, <3>1, <3>3, <3>4
  <2>8. PICK d : d = Drop(u, q) /\ Good(d, Null, x) /\ Shift(u, d, q, 0, less)
    BY <1>0, <2>7, DropMoves
  <2>9. u \in Worlds /\ d \in Worlds
    BY <2>7, <2>8 DEF Good
  <2>10. Shift(w, u, q, 0, one)
    BY <1>0, <2>4, <2>6, <2>7, <2>9, ThenStill
  <2>11. Shift(w, d, q, 0 + 0, one + less)
    BY <1>0, <2>8, <2>9, <2>10, ShiftJoin
  <2>12. Shift(w, d, q, 0, 0)
    BY <1>0, <2>11
  <2>13. Callback(w, c, reply, to, ok) = d
    <3>1. Callback(w, c, reply, to, ok)
             = Drop(IF q = SlotsCommand THEN UpdateSlots(t, reply = "ok", to, ok) ELSE t, q)
      <4>1. Push([a.world EXCEPT !.client[c].fly = FALSE], c) = p
        BY <1>5, <1>7, <1>8 DEF Landed
      <4>2. a = IF reply \in {"moved", "ask"}
                THEN Relaunch([w EXCEPT !.client[c].cmd = Null], q, to, reply = "moved", ok)
                ELSE [sent |-> FALSE, world |-> [w EXCEPT !.client[c].cmd = Null]]
        BY <1>1, <1>3 DEF Freed, Redirected
      <4>3. Callback(w, c, reply, to, ok)
               = IF a.sent THEN Drop(p, q)
                 ELSE Drop(IF q = SlotsCommand THEN UpdateSlots(Answer(p, q), reply = "ok", to, ok)
                           ELSE Answer(p, q), q)
        BY <4>1, <4>2 DEF Callback
      <4>4. a.sent = FALSE
        BY <1>12
      <4> QED BY <2>3, <4>3, <4>4
    <3> QED BY <2>7, <2>8, <3>1
  <2> QED BY <2>8, <2>12, <2>13
<1> QED BY <1>4, <1>11, <1>12

-----------------------------------------------------------------------------
(* The steps.                                                              *)

\* No command is lost or answered twice, and the queues tell the truth.
RedisInv == Good(World, Null, Null) /\ Even(World)

LEMMA Becomes ==
    ASSUME RedisInv, NEW v, Become(v), Good(v, Null, Null), NEW q, Shift(World, v, q, 0, 0)
    PROVE  RedisInv'
<1>1. World \in Worlds /\ v \in Worlds
  BY DEF RedisInv, Good
<1>2. World' = v
  BY <1>1 DEF Become, World, Worlds
<1>3. Even(v)
  <2>1. ASSUME NEW r \in Commands PROVE Debt(v, r) = 0 /\ (Gone(v) \/ Slack(v, r) = 0)
    <3>1. By(r, q, 0) = 0
      BY DEF By
    <3>2. Debt(v, r) = Debt(World, r) + 0 /\ (Gone(v) \/ Slack(v, r) = Slack(World, r) + 0)
      BY <3>1 DEF Shift
    <3>3. Debt(World, r) = 0 /\ (Gone(World) \/ Slack(World, r) = 0)
      BY DEF RedisInv, Even
    <3>4. Gone(World) => Gone(v)
      BY DEF Shift
    <3> QED BY <3>2, <3>3, <3>4
  <2> QED BY <2>1 DEF Even
<1> QED BY <1>2, <1>3 DEF RedisInv

LEMMA RedisBegins == RedisInit => RedisInv
<1> SUFFICES ASSUME RedisInit PROVE RedisInv
  OBVIOUS
<1>1. PICK w : w = World
  OBVIOUS
<1>2. /\ w.pool = [p \in Pool |-> NewPool] /\ w.client = [c \in Client |-> NewClient]
      /\ w.command = [q \in Commands |-> NewCommand]
      /\ w.cluster = [status |-> 0, slot |-> Null, failed |-> 0, torn |-> FALSE]
      /\ w = [pool |-> w.pool, client |-> w.client, command |-> w.command, cluster |-> w.cluster]
  BY <1>1 DEF World, RedisInit
<1>3. PICK r \in PoolRecord : r = NewPool
  <2>1. <<>> \in Seq(Client) /\ <<>> \in Seq(Commands)
    OBVIOUS
  <2>2. NewPool \in PoolRecord
    BY <2>1 DEF PoolRecord, NewPool
  <2> QED BY <2>2
<1>4. NewClient \in ClientRecord /\ NewCommand \in CommandRecord /\ w.cluster \in ClusterRecord
  BY <1>2 DEF NewClient, NewCommand, ClientRecord, CommandRecord, ClusterRecord
<1>5. w \in Worlds
  <2>1. /\ w.pool \in [Pool -> PoolRecord] /\ w.client \in [Client -> ClientRecord]
        /\ w.command \in [Commands -> CommandRecord]
    BY <1>2, <1>3, <1>4
  <2> QED BY <1>2, <1>4, <2>1 DEF Worlds
<1>6. ASSUME NEW p \in Pool
      PROVE  /\ w.pool[p].state = "new" /\ w.pool[p].alive = <<>> /\ w.pool[p].idle = <<>>
             /\ w.pool[p].task = <<>>
  BY <1>2 DEF NewPool
<1>7. \A x : ~Contains(<<>>, x)
  <2>1. <<>> \in Seq(Client) /\ DOMAIN <<>> = {}
    OBVIOUS
  <2> QED BY <2>1, ContainsIs
<1>8. ASSUME NEW c \in Client PROVE Follows(w, c, Null, Null)
  <2>1. PoolOf[c] \in Pool /\ c # Null
    BY RedisConstants
  <2>2. w.client[c].conn = "shut" /\ w.client[c].fly = FALSE /\ w.client[c].cmd = Null
    BY <1>2 DEF NewClient
  <2> QED BY <1>6, <1>7, <2>1, <2>2 DEF Follows, Rule
<1>9. ASSUME NEW p \in Pool PROVE Once(w.pool[p].alive, p)
  BY <1>6 DEF Once
<1>10. Good(w, Null, Null)
  BY <1>5, <1>8, <1>9 DEF Good
<1>11. ASSUME NEW q \in Commands PROVE Debt(w, q) = 0 /\ Slack(w, q) = 0
  <2>1. HeldBy(w, q) = {}
    <3>1. q # Null
      BY RedisConstants
    <3>2. \A c \in Client : w.client[c].cmd = Null
      BY <1>2 DEF NewClient
    <3> QED BY <3>1, <3>2 DEF HeldBy
  <2>2. WaitsIn(w, q) = {}
    <3>1. \A p \in Pool : PosOf(w.pool[p].task, q) = {}
      BY <1>6 DEF PosOf
    <3> QED BY <3>1 DEF WaitsIn
  <2>3. Uses(w, q) = 0
    BY <2>1, <2>2, FS_EmptySet DEF Uses
  <2>4. w.command[q].asked = 0 /\ w.command[q].answers = 0 /\ w.command[q].refs = 0
    BY <1>2 DEF NewCommand
  <2> QED BY <2>3, <2>4 DEF Debt, Slack
<1> QED BY <1>1, <1>10, <1>11 DEF RedisInv, Even

\* What a step has at its beginning.
LEMMA NowIs ==
    ASSUME RedisInv
    PROVE  /\ Good(World, Null, Null) /\ World \in Worlds
           /\ World.client = client /\ World.pool = pool /\ World.cluster = cluster /\ World.command = command
  BY DEF RedisInv, Good, World

\* The state of a connection changes in the step itself.
WithConn(w, c, s) == [w EXCEPT !.client[c].conn = s]

LEMMA ConnIs ==
    ASSUME NEW w \in Worlds, NEW c \in Client, NEW s \in {"shut", "connecting", "open", "closing"}, NEW q
    PROVE  /\ WithConn(w, c, s) \in Worlds /\ Shift(w, WithConn(w, c, s), q, 0, 0)
           /\ \E r \in ClientRecord : /\ ClientIs(w, WithConn(w, c, s), c, r) /\ r.conn = s
                                      /\ r.fly = w.client[c].fly /\ r.cmd = w.client[c].cmd
<1>1. w.client[c] \in ClientRecord
  BY DEF Worlds
<1>2. PICK r \in ClientRecord : r = [w.client[c] EXCEPT !.conn = s]
  <2>1. [w.client[c] EXCEPT !.conn = s] \in ClientRecord
    BY <1>1 DEF ClientRecord
  <2> QED BY <2>1
<1>3. r.conn = s /\ r.fly = w.client[c].fly /\ r.cmd = w.client[c].cmd
  BY <1>1, <1>2 DEF ClientRecord
<1>4. PICK u : u = [w EXCEPT !.client[c] = r] /\ ClientIs(w, u, c, r)
  BY <1>1, SetClient
<1>5. u = WithConn(w, c, s)
  BY <1>1, <1>2, <1>4 DEF Worlds, WithConn
<1>6. u \in Worlds
  BY <1>4 DEF ClientIs
<1>7. Shift(w, u, q, 0, 0)
  BY <1>3, <1>4, SameClientCmd
<1> QED BY <1>3, <1>4, <1>5, <1>6, <1>7

\* One that works changes its state, or ends (x).
LEMMA ConnMoves ==
    ASSUME NEW w, Good(w, Null, Null), NEW c \in Client, NEW x \in {Null, c},
           NEW s \in {"shut", "open", "closing"}, NEW q,
           \/ s = "open" /\ x = Null /\ w.client[c].fly
           \/ s \in {"shut", "closing"} /\ x = c /\ w.client[c].cmd = Null
              /\ w.client[c].conn \in {"connecting", "open", "closing"}
    PROVE  Good(WithConn(w, c, s), Null, x) /\ Shift(w, WithConn(w, c, s), q, 0, 0)
<1>1. /\ w \in Worlds /\ w.client[c] \in ClientRecord
      /\ Rule(w.client[c], Contains(w.pool[PoolOf[c]].alive, c), Contains(w.pool[PoolOf[c]].idle, c),
              w.pool[PoolOf[c]].state, c = Null, c = Null)
  BY RecordOf
<1>2. PICK r \in ClientRecord : /\ ClientIs(w, WithConn(w, c, s), c, r) /\ r.conn = s
                                /\ r.fly = w.client[c].fly /\ r.cmd = w.client[c].cmd
  BY <1>1, ConnIs
<1>3. c # Null
  BY RedisConstants
<1>4. Rule(r, Contains(w.pool[PoolOf[c]].alive, c), Contains(w.pool[PoolOf[c]].idle, c),
           w.pool[PoolOf[c]].state, c = Null, c = x)
  BY <1>1, <1>2, <1>3 DEF Rule
<1>5. Good(WithConn(w, c, s), Null, x)
  <2>1. \A e \in Client \ {c} : (e = Null <=> e = Null) /\ (e = x <=> e = Null)
    BY RedisConstants
  <2> QED BY <1>2, <1>4, <2>1, GoodClient
<1> QED BY <1>1, <1>5, ConnIs

LEMMA OpenStep == ASSUME RedisInv, NEW p \in Pool, NEW ok \in BOOLEAN, Open(p, ok) PROVE RedisInv'
<1>1. PICK a : a = ClusterOpen(World, p, ok) /\ Good(a, Null, Null) /\ Shift(World, a, Null, 0, 0)
  BY NowIs, ClusterOpenMoves
<1>2. PICK b : b = Counted(a, ok) /\ Good(b, Null, Null) /\ Shift(a, b, Null, 0, 0)
  BY <1>1, FailedMoves
<1>3. World \in Worlds /\ a \in Worlds /\ b \in Worlds
  BY <1>1, <1>2, NowIs DEF Good
<1>4. Shift(World, b, Null, 0, 0)
  BY <1>1, <1>2, <1>3, StillTwice
<1>5. Become(b)
  BY <1>1, <1>2 DEF Open
<1> QED BY <1>2, <1>4, <1>5, Becomes

LEMMA LaunchStep == ASSUME RedisInv, NEW q \in Command, Launch(q) PROVE RedisInv'
<1>1. q \in Commands /\ cluster.slot \in Pool
  BY NowIs DEF Launch, MayLaunch, Commands, Worlds, ClusterRecord
<1>2. PICK a : /\ a = LaunchAt(World, cluster.slot, q) /\ Good(a, Null, Null)
               /\ Shift(World, a, q, 0, 0)
  BY <1>1, NowIs, LaunchMoves
<1>3. Become(a)
  BY <1>2 DEF Launch
<1> QED BY <1>2, <1>3, Becomes

LEMMA CloseStep == ASSUME RedisInv, Close PROVE RedisInv'
<1>1. PICK a : a = ClusterClose(World) /\ Good(a, Null, Null) /\ Shift(World, a, Null, 0, 0)
  BY NowIs, ClusterCloseMoves
<1>2. Become(a)
  BY <1>1 DEF Close
<1> QED BY <1>1, <1>2, Becomes

LEMMA ConnectedStep == ASSUME RedisInv, NEW c \in Client, Connected(c) PROVE RedisInv'
<1>1. client[c].conn = "connecting" /\ client[c].fly /\ client[c].cmd = Null
  <2>1. client[c].conn = "connecting"
    BY DEF Connected
  <2>2. Rule(client[c], Contains(pool[PoolOf[c]].alive, c), Contains(pool[PoolOf[c]].idle, c),
             pool[PoolOf[c]].state, c = Null, c = Null)
    BY NowIs, RecordOf
  <2> QED BY <2>1, <2>2 DEF Rule
<1>2. PICK a : a = WithConn(World, c, "open") /\ Good(a, Null, Null) /\ Shift(World, a, Null, 0, 0)
  BY <1>1, NowIs, ConnMoves
<1>3. a.client[c].conn = "open" /\ a.client[c].fly /\ a.client[c].cmd = Null
  <2>1. a.client = [client EXCEPT ![c].conn = "open"] /\ client \in [Client -> ClientRecord]
    BY <1>2, NowIs DEF WithConn, World, Worlds
  <2> QED BY <1>1, <2>1 DEF ClientRecord
<1>4. PICK b : b = Greeted(a, c) /\ Good(b, Null, Null) /\ Shift(a, b, Null, 0, 0)
  BY <1>2, <1>3, GreetedMoves
<1>5. World \in Worlds /\ a \in Worlds /\ b \in Worlds
  BY <1>2, <1>4, NowIs DEF Good
<1>6. Shift(World, b, Null, 0, 0)
  BY <1>2, <1>4, <1>5, StillTwice
<1>7. Become(a) \/ Become(b)
  BY <1>2, <1>4 DEF Connected, WithConn
<1> QED BY <1>2, <1>4, <1>6, <1>7, Becomes

LEMMA ConnectFailedStep ==
    ASSUME RedisInv, NEW c \in Client, NEW ok \in BOOLEAN, ConnectFailed(c, ok) PROVE RedisInv'
<1>1. client[c].conn = "connecting" /\ client[c].cmd = Null
  <2>1. client[c].conn = "connecting"
    BY DEF ConnectFailed
  <2>2. Rule(client[c], Contains(pool[PoolOf[c]].alive, c), Contains(pool[PoolOf[c]].idle, c),
             pool[PoolOf[c]].state, c = Null, c = Null)
    BY NowIs, RecordOf
  <2> QED BY <2>1, <2>2 DEF Rule
<1>2. PICK a : a = WithConn(World, c, "closing") /\ Good(a, Null, c) /\ Shift(World, a, Null, 0, 0)
  BY <1>1, NowIs, ConnMoves
<1>3. PICK b : b = OnClose(a, c, ok) /\ Good(b, Null, Null) /\ Shift(a, b, Null, 0, 0)
  BY <1>2, OnCloseMoves
<1>4. PICK t : t = Reopened(b, c) /\ Good(t, Null, Null) /\ Shift(b, t, Null, 0, 0)
  BY <1>3, TornMoves
<1>5. PICK d : d = Counted(t, ok) /\ Good(d, Null, Null) /\ Shift(t, d, Null, 0, 0)
  BY <1>4, FailedMoves
<1>6. World \in Worlds /\ a \in Worlds /\ b \in Worlds /\ t \in Worlds /\ d \in Worlds
  BY <1>2, <1>3, <1>4, <1>5, NowIs DEF Good
<1>7. Shift(World, b, Null, 0, 0)
  BY <1>2, <1>3, <1>6, StillTwice
<1>8. Shift(World, t, Null, 0, 0)
  BY <1>4, <1>6, <1>7, StillTwice
<1>9. Shift(World, d, Null, 0, 0)
  BY <1>5, <1>6, <1>8, StillTwice
<1>10. Become(d)
  BY <1>2, <1>3, <1>4, <1>5 DEF ConnectFailed, WithConn
<1> QED BY <1>5, <1>9, <1>10, Becomes

LEMMA SaidMoves ==
    ASSUME NEW w, Good(w, Null, Null), NEW c \in Client, NEW n \in Int,
           NEW v, v = [w EXCEPT !.client[c].said = n], NEW q
    PROVE  /\ Good(v, Null, Null) /\ Shift(w, v, q, 0, 0)
           /\ v.client[c].fly = w.client[c].fly /\ v.client[c].cmd = w.client[c].cmd
           /\ v.client[c].conn = w.client[c].conn
<1>1. /\ w \in Worlds /\ w.client[c] \in ClientRecord
      /\ Rule(w.client[c], Contains(w.pool[PoolOf[c]].alive, c), Contains(w.pool[PoolOf[c]].idle, c),
              w.pool[PoolOf[c]].state, c = Null, c = Null)
  BY RecordOf
<1>2. PICK r \in ClientRecord : r = [w.client[c] EXCEPT !.said = n]
  <2>1. [w.client[c] EXCEPT !.said = n] \in ClientRecord
    BY <1>1 DEF ClientRecord
  <2> QED BY <2>1
<1>3. r.fly = w.client[c].fly /\ r.cmd = w.client[c].cmd /\ r.conn = w.client[c].conn
  BY <1>1, <1>2 DEF ClientRecord
<1>4. PICK u : u = [w EXCEPT !.client[c] = r] /\ ClientIs(w, u, c, r)
  BY <1>1, SetClient
<1>5. u = v
  BY <1>1, <1>2, <1>4 DEF Worlds
<1>6. Rule(r, Contains(w.pool[PoolOf[c]].alive, c), Contains(w.pool[PoolOf[c]].idle, c),
           w.pool[PoolOf[c]].state, c = Null, c = Null)
  BY <1>1, <1>3 DEF Rule
<1>7. Good(u, Null, Null)
  <2>1. \A e \in Client \ {c} : (e = Null <=> e = Null) /\ (e = Null <=> e = Null)
    OBVIOUS
  <2> QED BY <1>4, <1>6, <2>1, GoodClient
<1>8. Shift(w, u, q, 0, 0)
  BY <1>1, <1>3, <1>4, SameClientCmd
<1>9. u.client[c] = r
  BY <1>1, <1>4 DEF ClientIs, Worlds
<1> QED BY <1>3, <1>5, <1>7, <1>8, <1>9

LEMMA GreetingAnsweredStep ==
    ASSUME RedisInv, NEW c \in Client, NEW good \in BOOLEAN, GreetingAnswered(c, good) PROVE RedisInv'
<1>1. client[c].conn = "open" /\ client[c].fly /\ client[c].cmd = Null
  BY DEF GreetingAnswered
<1>2. PICK p : p = PoolOf[c]
  OBVIOUS
<1>3. PICK n \in Int : n = client[c].said + 1
  BY NowIs, RecordOf DEF ClientRecord
<1>4. PICK w : /\ w = [World EXCEPT !.client[c].said = n] /\ Good(w, Null, Null)
               /\ Shift(World, w, Null, 0, 0)
               /\ w.client[c].fly = client[c].fly /\ w.client[c].cmd = client[c].cmd
               /\ w.client[c].conn = client[c].conn
  <2>1. PICK w : w = [World EXCEPT !.client[c].said = n]
    OBVIOUS
  <2>2. /\ Good(w, Null, Null) /\ Shift(World, w, Null, 0, 0)
        /\ w.client[c].fly = World.client[c].fly /\ w.client[c].cmd = World.client[c].cmd
        /\ w.client[c].conn = World.client[c].conn
    BY <2>1, NowIs, SaidMoves
  <2> QED BY <2>1, <2>2, NowIs
<1>5. PICK g : g = Greeted(w, c) /\ Good(g, Null, Null) /\ Shift(w, g, Null, 0, 0)
  BY <1>1, <1>4, GreetedMoves
<1>6. PICK s : s = ClosePools(World, {p}) /\ Good(s, Null, Null) /\ Shift(World, s, Null, 0, 0)
  BY NowIs, StopMoves
<1>7. PICK a : a = CloseClient(s, c) /\ Good(a, Null, Null) /\ Shift(s, a, Null, 0, 0)
  BY <1>6, CloseMoves
<1>8. PICK b : b = CloseClient(World, c) /\ Good(b, Null, Null) /\ Shift(World, b, Null, 0, 0)
  BY NowIs, CloseMoves
<1>9. World \in Worlds /\ w \in Worlds /\ g \in Worlds /\ s \in Worlds /\ a \in Worlds
  BY <1>4, <1>5, <1>6, <1>7, NowIs DEF Good
<1>10. Shift(World, g, Null, 0, 0) /\ Shift(World, a, Null, 0, 0)
  BY <1>4, <1>5, <1>6, <1>7, <1>9, StillTwice
<1>11. Become(a) \/ Become(b) \/ Become(g) \/ Become(w)
  BY <1>2, <1>3, <1>4, <1>5, <1>6, <1>7, <1>8 DEF GreetingAnswered
<1>12. CASE Become(a)
  BY <1>7, <1>10, <1>12, Becomes
<1>13. CASE Become(b)
  BY <1>8, <1>13, Becomes
<1>14. CASE Become(g)
  BY <1>5, <1>10, <1>14, Becomes
<1>15. CASE Become(w)
  BY <1>4, <1>15, Becomes
<1> QED BY <1>11, <1>12, <1>13, <1>14, <1>15

\* A connection that worked on a command, once the command is taken from it.
LEMMA FreedGood ==
    ASSUME NEW w, Good(w, Null, Null), NEW c \in Client, w.client[c].cmd # Null
    PROVE  /\ w.client[c].cmd \in Commands /\ Good(Freed(w, c), Null, Null) /\ w.client[c].fly
           /\ Freed(w, c).client[c].cmd = Null /\ Freed(w, c).client[c].conn = w.client[c].conn
<1>1. /\ w \in Worlds /\ w.client[c] \in ClientRecord
      /\ Rule(w.client[c], Contains(w.pool[PoolOf[c]].alive, c), Contains(w.pool[PoolOf[c]].idle, c),
              w.pool[PoolOf[c]].state, c = Null, c = Null)
  BY RecordOf
<1>2. PICK q \in Commands : q = w.client[c].cmd
  BY <1>1 DEF ClientRecord
<1>3. PICK r \in ClientRecord : /\ ClientIs(w, Freed(w, c), c, r) /\ r.cmd = Null
                                /\ r.fly = w.client[c].fly /\ r.conn = w.client[c].conn
  BY <1>1, <1>2, FreedIs
<1>4. Rule(r, Contains(w.pool[PoolOf[c]].alive, c), Contains(w.pool[PoolOf[c]].idle, c),
           w.pool[PoolOf[c]].state, c = Null, c = Null)
  BY <1>1, <1>3 DEF Rule
<1>5. Good(Freed(w, c), Null, Null)
  <2>1. \A e \in Client \ {c} : (e = Null <=> e = Null) /\ (e = Null <=> e = Null)
    OBVIOUS
  <2> QED BY <1>3, <1>4, <2>1, GoodClient
<1>6. w.client[c].fly
  BY <1>1 DEF Rule
<1>7. Freed(w, c).client[c] = r
  BY <1>1, <1>3 DEF ClientIs, Worlds
<1> QED BY <1>2, <1>3, <1>5, <1>6, <1>7

LEMMA RepliedStep ==
    ASSUME RedisInv, NEW c \in Client, NEW reply \in {"ok", "error", "moved", "ask"}, NEW to \in Pool,
           NEW ok \in BOOLEAN, Replied(c, reply, to, ok)
    PROVE  RedisInv'
<1>1. client[c].conn = "open" /\ client[c].cmd # Null
  BY DEF Replied
<1>2. PICK q \in Commands : q = World.client[c].cmd
  BY <1>1, NowIs, FreedGood
<1>3. Good(Freed(World, c), Null, Null) /\ World.client[c].fly /\ World.client[c].conn = "open"
  BY <1>1, NowIs, FreedGood
<1>4. PICK a : /\ a = Callback(World, c, reply, to, ok) /\ Good(a, Null, Null)
               /\ Shift(World, a, q, 0, 0)
  BY <1>2, <1>3, NowIs, CallbackMoves
<1>5. PICK b : b = Counted(a, ok) /\ Good(b, Null, Null) /\ Shift(a, b, q, 0, 0)
  BY <1>4, FailedMoves
<1>6. World \in Worlds /\ a \in Worlds /\ b \in Worlds
  BY <1>4, <1>5, NowIs DEF Good
<1>7. Shift(World, b, q, 0, 0)
  BY <1>4, <1>5, <1>6, StillTwice
<1>8. Become(b)
  BY <1>4, <1>5 DEF Replied
<1> QED BY <1>5, <1>7, <1>8, Becomes

LEMMA BreaksStep == ASSUME RedisInv, NEW c \in Client, Breaks(c) \/ TimedOut(c) PROVE RedisInv'
<1>1. PICK b : b = CloseClient(World, c) /\ Good(b, Null, Null) /\ Shift(World, b, Null, 0, 0)
  BY NowIs, CloseMoves
<1>2. Become(b)
  BY <1>1 DEF Breaks, TimedOut
<1> QED BY <1>1, <1>2, Becomes

LEMMA ClosedStep ==
    ASSUME RedisInv, NEW c \in Client, NEW then, NEW ok \in BOOLEAN, Closed(c, then, ok)
    PROVE  RedisInv'
<1>1. client[c].conn = "closing" /\ World.client[c].conn = "closing"
  BY NowIs DEF Closed
<1>2. PICK w : w = WithConn(World, c, "shut") /\ w \in Worlds /\ Shift(World, w, Null, 0, 0)
  BY NowIs, ConnIs
<1>3. PICK t : /\ t = IF client[c].cmd = Null THEN w
                      ELSE Then(Callback(w, c, "error", Null, ok), then)
               /\ Good(t, Null, c) /\ Shift(World, t, Null, 0, 0)
  <2>1. CASE client[c].cmd = Null
    <3>1. Good(w, Null, c)
      BY <1>1, <1>2, <2>1, NowIs, ConnMoves
    <3> QED BY <1>2, <2>1, <3>1
  <2>2. CASE client[c].cmd # Null
    <3>1. PICK q \in Commands : q = World.client[c].cmd
      BY <2>2, NowIs, FreedGood
    <3>2. PICK f : /\ f = Freed(World, c) /\ Good(f, Null, Null) /\ World.client[c].fly
                   /\ f.client[c].cmd = Null /\ f.client[c].conn = "closing"
      BY <1>1, <2>2, NowIs, FreedGood
    <3>3. Good(WithConn(f, c, "shut"), Null, c)
      BY <3>2, ConnMoves
    <3>4. WithConn(f, c, "shut") = Freed(w, c)
      <4>1. PICK o \in Worlds, k \in ClientRecord : o = World /\ k = o.client[c]
        BY NowIs DEF Worlds
      <4>2. PICK r : r = [k EXCEPT !.cmd = Null, !.conn = "shut"]
        OBVIOUS
      <4>3. PICK s : s = [k EXCEPT !.conn = "shut", !.cmd = Null]
        OBVIOUS
      <4>4. r = s
        BY <4>2, <4>3 DEF ClientRecord
      <4>5. WithConn(f, c, "shut") = [o EXCEPT !.client[c] = r]
        <5>1. f = [o EXCEPT !.client[c].cmd = Null]
          BY <3>2, <4>1 DEF Freed
        <5> QED BY <4>1, <4>2, <5>1 DEF WithConn, Worlds, ClientRecord
      <4>6. Freed(w, c) = [o EXCEPT !.client[c] = s]
        <5>1. w = [o EXCEPT !.client[c].conn = "shut"]
          BY <1>2, <4>1 DEF WithConn
        <5> QED BY <4>1, <4>3, <5>1 DEF Freed, Worlds, ClientRecord
      <4> QED BY <4>4, <4>5, <4>6
    <3>5. w.client[c].cmd = q /\ w.client[c].fly /\ w.client[c].conn = "shut"
      <4>1. PICK r \in ClientRecord : /\ ClientIs(World, w, c, r) /\ r.conn = "shut"
                                      /\ r.fly = World.client[c].fly /\ r.cmd = World.client[c].cmd
        BY <1>2, NowIs, ConnIs
      <4>2. w.client[c] = r
        BY <4>1, NowIs DEF ClientIs, Worlds
      <4> QED BY <3>1, <3>2, <4>1, <4>2
    <3>6. PICK reply \in {"ok", "error", "moved", "ask"} : reply = "error"
      OBVIOUS
    <3>7. Good(Freed(w, c), Null, c)
      BY <3>3, <3>4
    <3>8. PICK a : /\ a = Callback(w, c, reply, Null, ok) /\ Good(a, Null, c)
                   /\ Shift(w, a, q, 0, 0)
      BY <1>2, <3>5, <3>6, <3>7, CallbackMoves
    <3>9. PICK b : b = Then(a, then) /\ Good(b, Null, c) /\ Shift(a, b, Null, 0, 0)
      BY <3>8, ThenMoves
    <3>10. World \in Worlds /\ a \in Worlds /\ b \in Worlds
      BY <3>8, <3>9, NowIs DEF Good
    <3>11. Shift(w, a, Null, 0, 0)
      BY <1>2, <3>8, <3>10, ShiftNone
    <3>12. Shift(World, a, Null, 0, 0)
      BY <1>2, <3>10, <3>11, StillTwice
    <3>13. Shift(World, b, Null, 0, 0)
      BY <3>9, <3>10, <3>12, StillTwice
    <3> QED BY <2>2, <3>6, <3>8, <3>9, <3>13
  <2> QED BY <2>1, <2>2
<1>4. PICK d : d = OnClose(t, c, ok) /\ Good(d, Null, Null) /\ Shift(t, d, Null, 0, 0)
  BY <1>3, OnCloseMoves
<1>5. PICK e : e = Counted(d, ok) /\ Good(e, Null, Null) /\ Shift(d, e, Null, 0, 0)
  BY <1>4, FailedMoves
<1>6. World \in Worlds /\ t \in Worlds /\ d \in Worlds /\ e \in Worlds
  BY <1>3, <1>4, <1>5, NowIs DEF Good
<1>7. Shift(World, d, Null, 0, 0)
  BY <1>3, <1>4, <1>6, StillTwice
<1>8. Shift(World, e, Null, 0, 0)
  BY <1>5, <1>6, <1>7, StillTwice
<1>9. Become(e)
  BY <1>2, <1>3, <1>4, <1>5 DEF Closed, WithConn
<1> QED BY <1>5, <1>8, <1>9, Becomes

(* The queues of a pool, the states of its connections and the books of    *)
(* the commands agree in every state: RedisClientPool.cpp.                 *)
THEOREM RedisInvariance == RedisSpec => []RedisInv
<1>1. RedisInit => RedisInv
  BY RedisBegins
<1>2. RedisInv /\ [RedisNext]_redisVars => RedisInv'
  <2> SUFFICES ASSUME RedisInv, [RedisNext]_redisVars PROVE RedisInv'
    OBVIOUS
  <2>1. ASSUME NEW p \in Pool, NEW ok \in BOOLEAN, Open(p, ok) PROVE RedisInv'
    BY <2>1, OpenStep
  <2>2. ASSUME NEW q \in Command, Launch(q) PROVE RedisInv'
    BY <2>2, LaunchStep
  <2>3. CASE Close
    BY <2>3, CloseStep
  <2>4. ASSUME NEW c \in Client, Connected(c) PROVE RedisInv'
    BY <2>4, ConnectedStep
  <2>5. ASSUME NEW c \in Client, Breaks(c) \/ TimedOut(c) PROVE RedisInv'
    BY <2>5, BreaksStep
  <2>6. ASSUME NEW c \in Client, NEW good \in BOOLEAN, GreetingAnswered(c, good) PROVE RedisInv'
    BY <2>6, GreetingAnsweredStep
  <2>7. ASSUME NEW c \in Client, NEW ok \in BOOLEAN, ConnectFailed(c, ok) PROVE RedisInv'
    BY <2>7, ConnectFailedStep
  <2>8. ASSUME NEW c \in Client, NEW ok \in BOOLEAN, NEW then \in Callbacks, Closed(c, then, ok)
        PROVE  RedisInv'
    BY <2>8, ClosedStep
  <2>9. ASSUME NEW c \in Client, NEW ok \in BOOLEAN, NEW reply \in {"ok", "error", "moved", "ask"},
               NEW to \in Pool, Replied(c, reply, to, ok)
        PROVE  RedisInv'
    BY <2>9, RepliedStep
  <2>10. CASE UNCHANGED redisVars
    <3>1. World' = World
      BY <2>10 DEF redisVars, World
    <3> QED BY <3>1 DEF RedisInv
  <2> QED BY <2>1, <2>2, <2>3, <2>4, <2>5, <2>6, <2>7, <2>8, <2>9, <2>10 DEF RedisNext
<1> QED BY <1>1, <1>2, PTL DEF RedisSpec

(* A command is never lost and never answered twice, and its references    *)
(* count its users: RedisClientPool.cpp, RedisCommand.cpp.                 *)
THEOREM CommandsKept == RedisSpec => []NothingLost
<1>1. RedisInv => NothingLost
  <2> SUFFICES ASSUME RedisInv, NEW q \in Commands
               PROVE  /\ Holders(q) + command[q].answers = command[q].asked
                      /\ (\A p \in Pool : pool[p].state # "deleted") => command[q].refs = Holders(q)
    BY DEF NothingLost
  <2>1. Holders(q) = Uses(World, q)
    BY NowIs DEF Holders, Uses, HeldBy, WaitsIn, PosOf
  <2>2. Debt(World, q) = 0 /\ (Gone(World) \/ Slack(World, q) = 0)
    BY DEF RedisInv, Even
  <2>3. /\ Uses(World, q) \in Int /\ command[q].asked \in Int /\ command[q].answers \in Int
        /\ command[q].refs \in Int
    BY NowIs, BooksInt
  <2>4. command[q].asked - command[q].answers - Uses(World, q) = 0
    BY <2>2, NowIs DEF Debt
  <2>5. ASSUME \A p \in Pool : pool[p].state # "deleted" PROVE command[q].refs = Uses(World, q)
    <3>1. Slack(World, q) = 0
      BY <2>2, <2>5, NowIs DEF Gone
    <3> QED BY <2>3, <3>1, NowIs DEF Slack
  <2> QED BY <2>1, <2>3, <2>4, <2>5
<1> QED BY <1>1, RedisInvariance, PTL

(* The queue of the connections that are alive has exactly those that have *)
(* nothing to do: RedisClientPool.cpp.                                     *)
THEOREM AliveCorrect == RedisSpec => []AliveExact
<1>1. RedisInv => AliveExact
  <2> SUFFICES ASSUME RedisInv, NEW c \in Client
               PROVE  LET p == PoolOf[c]
                          inAlive == c \in Range(pool[p].alive)
                      IN  Defined(p) =>
                          /\ inAlive => ~client[c].fly /\ client[c].cmd = Null
                          /\ client[c].conn = "open" /\ ~client[c].fly => inAlive
                          /\ client[c].conn = "shut" /\ pool[p].state # "new" =>
                                 c \in Range(pool[p].idle)
    BY DEF AliveExact
  <2>1. PICK p \in Pool : p = PoolOf[c]
    BY RedisConstants
  <2>2. pool[p].alive \in Seq(Client) /\ pool[p].idle \in Seq(Client)
    BY NowIs, TaskIs
  <2>3. \A s \in Seq(Client) : c \in Range(s) <=> Contains(s, c)
    BY ContainsIs DEF Range
  <2>4. Rule(client[c], Contains(pool[p].alive, c), Contains(pool[p].idle, c),
             pool[p].state, c = Null, c = Null)
    BY <2>1, NowIs, RecordOf
  <2>5. c # Null
    BY RedisConstants
  <2> QED BY <2>1, <2>2, <2>3, <2>4, <2>5 DEF Rule
<1> QED BY <1>1, RedisInvariance, PTL
=============================================================================
