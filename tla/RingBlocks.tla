----------------------------- MODULE RingBlocks -----------------------------
(***************************************************************************)
(* The lock-free ring of blocks between one thread that writes and one     *)
(* that reads: Source/RingBlocks.cpp, at the level of memory cells.        *)
(*                                                                         *)
(* Cells are counted in units of a block's head.  open() takes the head    *)
(* off mBlockSize, and what is left is both the room for data in a block   *)
(* and the distance between two blocks: the last cell of a full block is   *)
(* the head of the next one.                                               *)
(***************************************************************************)
EXTENDS Naturals, Sequences

CONSTANTS Blocks,      \* blocks in the ring
          BlockSize,  \* mBlockSize after open()
          Writes,     \* the sizes of the writes
          Reads,      \* the sizes of the reads
          Total,      \* units that are written in all
          IndexMod    \* mHead and mTail wrap there

ASSUME RingConstants ==
    /\ {Blocks, BlockSize, Total, IndexMod} \subseteq Nat \ {0}
    /\ Blocks > 1 /\ IndexMod % Blocks = 0
    /\ Writes \subseteq Nat \ {0} /\ Reads \subseteq Nat \ {0}

VARIABLES mCache,     \* the cells: <<unit>>, or the head <<mUsed, mOffset>> of a block
          mHead, mTail,
          writer,     \* where write() is, what it has left, and its place in the block
          reader,     \* the same for read(): room, units to copy, place
          written,    \* units written so far: they are numbered
          read        \* the cells read() has copied

ringVars == <<mCache, mHead, mTail, writer, reader, written, read>>

Cell(index) == (index % Blocks) * BlockSize
Block(index) == mCache[Cell(index)]
Lesser(x, y) == IF x < y THEN x ELSE y

-----------------------------------------------------------------------------
(* The thread that writes.                                                 *)

Write(n) ==
    /\ writer.pc = "idle"
    /\ written + n <= Total
    /\ writer' = [pc |-> "get", left |-> n, at |-> 0]
    /\ UNCHANGED <<mCache, mHead, mTail, reader, written, read>>

\* Broken: mHead, which wraps later, is compared as it is.
IsFullUnwrapped == (mTail + 1) % Blocks = mHead

\* One block stays empty; a write that finds no block returns short.
IsFull == (mTail + 1) % Blocks = mHead % Blocks

GetTailBlock ==
    /\ writer.pc = "get"
    /\ IF IsFull
       THEN writer' = [writer EXCEPT !.pc = "idle"] /\ UNCHANGED mCache
       ELSE /\ writer' = [writer EXCEPT !.pc = "copy", !.at = 0]
            /\ mCache' = [mCache EXCEPT ![Cell(mTail)] = <<Lesser(BlockSize, writer.left), 0>>]
    /\ UNCHANGED <<mHead, mTail, reader, written, read>>

CopyIn ==
    /\ writer.pc = "copy"
    /\ written' = written + 1
    /\ mCache' = [mCache EXCEPT ![Cell(mTail) + 1 + writer.at] = <<written'>>]
    /\ writer' = [writer EXCEPT !.at = @ + 1,
                                !.pc = IF writer.at + 1 = Lesser(BlockSize, writer.left)
                                       THEN "commit" ELSE "copy"]
    /\ UNCHANGED <<mHead, mTail, reader, read>>

CommitTail ==
    /\ writer.pc = "commit"
    /\ mTail' = (mTail + 1) % IndexMod
    /\ writer' = [writer EXCEPT !.left = @ - writer.at,
                                !.pc = IF writer.at = writer.left THEN "idle" ELSE "get"]
    /\ UNCHANGED <<mCache, mHead, reader, written, read>>

-----------------------------------------------------------------------------
(* The thread that reads.                                                  *)

Read(n) ==
    /\ reader.pc = "idle"
    /\ reader' = [pc |-> "get", room |-> n, step |-> 0, at |-> 0]
    /\ UNCHANGED <<mCache, mHead, mTail, writer, written, read>>

IsEmpty == mHead % Blocks = mTail % Blocks

\* A block may be read in parts: mOffset is where the next one begins.
GetHeadBlock ==
    /\ reader.pc = "get"
    /\ reader' = IF IsEmpty
                 THEN [reader EXCEPT !.pc = "idle"]
                 ELSE [reader EXCEPT !.pc = "copy", !.at = 0,
                          !.step = Lesser(Block(mHead)[1] - Block(mHead)[2], reader.room)]
    /\ UNCHANGED <<mCache, mHead, mTail, writer, written, read>>

CopyOut ==
    /\ reader.pc = "copy"
    /\ read' = Append(read, mCache[Cell(mHead) + 1 + Block(mHead)[2] + reader.at])
    /\ reader' = [reader EXCEPT !.at = @ + 1,
                                !.pc = IF reader.at + 1 = reader.step THEN "offset" ELSE "copy"]
    /\ UNCHANGED <<mCache, mHead, mTail, writer, written>>

\* mOffset += step, and commitHead() once the block is used up.
MoveOffset ==
    /\ reader.pc = "offset"
    /\ mCache' = [mCache EXCEPT ![Cell(mHead)] = <<@[1], @[2] + reader.step>>]
    /\ mHead' = IF Block(mHead)[2] + reader.step = Block(mHead)[1]
                THEN (mHead + 1) % IndexMod ELSE mHead
    /\ reader' = [reader EXCEPT !.room = @ - reader.step,
                                !.pc = IF reader.room = reader.step THEN "idle" ELSE "get"]
    /\ UNCHANGED <<mTail, writer, written, read>>

-----------------------------------------------------------------------------
RingInit ==
    /\ mCache = [c \in 0 .. Blocks * (BlockSize + 1) - 1 |-> <<0, 0>>]
    /\ mHead = 0 /\ mTail = 0
    /\ writer = [pc |-> "idle", left |-> 0, at |-> 0]
    /\ reader = [pc |-> "idle", room |-> 0, step |-> 0, at |-> 0]
    /\ written = 0
    /\ read = <<>>

WriterStep == (\E n \in Writes : Write(n)) \/ GetTailBlock \/ CopyIn \/ CommitTail
ReaderStep == (\E n \in Reads : Read(n)) \/ GetHeadBlock \/ CopyOut \/ MoveOffset
RingNext == WriterStep \/ ReaderStep

RingSpec == RingInit /\ [][RingNext]_ringVars

-----------------------------------------------------------------------------
(* Properties.                                                             *)

Stream == INSTANCE Fifo WITH
    Item <- {<<n>> : n \in 1 .. Total},
    put  <- [n \in 1 .. written |-> <<n>>],
    got  <- read

\* The bytes one thread writes are the bytes the other reads, in order, each
\* once: getHeadBlock never shows a block before its data is in place, and
\* getTailBlock never one that is still being read.
StreamKept == Stream!Spec
=============================================================================
