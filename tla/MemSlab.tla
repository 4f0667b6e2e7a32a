------------------------------ MODULE MemSlab ------------------------------
(***************************************************************************)
(* The slab allocator in the memory that all processes map:                *)
(* Source/MemSlabPool.cpp.  A page belongs to a run of free pages, to a    *)
(* block of whole pages, or holds chunks of one size.  slab is the state   *)
(* of the pool; an operator that takes one and returns one is the method   *)
(* of that name.  All run under the spin lock, so each is one step.        *)
(*                                                                         *)
(* A page's mSlab is a count of pages with a mark, or the set of the       *)
(* chunks in use; its mPrev a link and a type.  Sizes are abstracted to    *)
(* the slot they fall in, with so many chunks to a page, of which the      *)
(* first hold the bitmap if there is no room for it in mSlab.              *)
(***************************************************************************)
EXTENDS Naturals, FiniteSets

CONSTANTS Pages,      \* pages in the pool
          Slot,       \* the sizes of chunks: heads of lists of pages
          Chunks,     \* chunks of that size in a page
          Bitmap,     \* and how many of them the bitmap takes
          Runs,       \* sizes in pages of the large blocks
          FreePage,   \* mFreePage: the head of the list of free runs
          Null

ASSUME SlabConstants ==
    /\ Pages \in Nat \ {0} /\ Runs \subseteq 1 .. Pages
    /\ \A s \in Slot : Chunks[s] \in Nat /\ Bitmap[s] \in 0 .. Chunks[s] - 2
    /\ \A s \in Slot : Null \notin 0 .. Chunks[s] - 1
    /\ FreePage \notin Slot \cup {Null} /\ Null \notin Slot
    /\ (Slot \cup {FreePage, Null}) \cap (0 .. Pages - 1) = {}

VARIABLES slab,       \* next, prev, type, mark, count, used of each page; mStats
          live        \* the blocks handed out: <<first page, pages, chunk>>

slabVars == <<slab, live>>

Page == 0 .. Pages - 1
Node == Page \cup Slot \cup {FreePage}
WholePages == Null      \* the chunk of a block of whole pages: D_SLAB_PAGE

Unlink(m, p) ==
    [m EXCEPT !.next[m.prev[p]] = m.next[p], !.prev[m.next[p]] = m.prev[p]]

LinkFirst(m, head, p) ==
    LET old == m.next[head] IN
    [m EXCEPT !.next[p] = old, !.prev[p] = head, !.prev[old] = p, !.next[head] = p]

\* The nodes of a list in order, the head again after the last.
Walk(m, head) ==
    LET at[i \in 1 .. Pages + 1] ==
            IF i = 1 THEN m.next[head] ELSE IF at[i - 1] = head THEN head ELSE m.next[at[i - 1]]
    IN  at

-----------------------------------------------------------------------------
(* allocPages, freePages.                                                  *)

\* The first run that is large enough, or the head of the list.
FirstFit(m, n) ==
    LET at == Walk(m, FreePage)
        fits(i) == at[i] = FreePage \/ m.count[at[i]] >= n
    IN  at[CHOOSE i \in DOMAIN at : fits(i) /\ \A j \in 1 .. i - 1 : ~fits(j)]

\* Broken: its last page still says the run begins where it did.
SplitRunUntagged(m, p, n) ==
    LET rest == p + n
        m1 == [m EXCEPT !.count[rest] = m.count[p] - n]
    IN  [m1 EXCEPT !.next[rest] = m.next[p], !.prev[rest] = m.prev[p],
                   !.next[m.prev[p]] = rest, !.prev[m.next[p]] = rest]

\* The rest of a run that is split takes its place in the list, and its
\* last page is told where the run begins now.
SplitRun(m, p, n) ==
    LET rest == p + n
        m1 == [m EXCEPT !.prev[p + m.count[p] - 1] = rest,
                        !.count[rest] = m.count[p] - n]
    IN  [m1 EXCEPT !.next[rest] = m.next[p], !.prev[rest] = m.prev[p],
                   !.next[m.prev[p]] = rest, !.prev[m.next[p]] = rest]

AllocPages(m, p, n) ==
    LET m1 == IF m.count[p] > n THEN SplitRun(m, p, n) ELSE Unlink(m, p)
        run == p .. p + n - 1
    IN  [m1 EXCEPT
            !.count = [q \in Page |-> IF q = p THEN n ELSE IF q \in run THEN Pages ELSE @[q]],
            !.mark = [q \in Page |-> IF q = p THEN "start" ELSE IF q \in run THEN "busy" ELSE @[q]],
            !.next = [q \in Node |-> IF q \in run THEN Null ELSE @[q]],
            !.prev = [q \in Node |-> IF q \in run THEN Null ELSE @[q]],
            !.type = [q \in Page |-> IF q \in run THEN WholePages ELSE @[q]],
            !.mFreePageCount = @ - n]

IsFreeRun(m, p) == m.type[p] = WholePages /\ m.next[p] # Null

\* The run after it is taken in.
JoinNext(m, p) ==
    LET join == p + m.count[p] IN
    IF join < Pages /\ IsFreeRun(m, join)
    THEN [Unlink(m, join) EXCEPT !.count[p] = @ + m.count[join], !.count[join] = 0,
                                 !.next[join] = Null, !.prev[join] = Null]
    ELSE m

\* Broken: only a run of one page is found.
BeforeNext(m, p) == p - 1

\* The run before it: its last page says where it begins.
Before(m, p) ==
    IF m.type[p - 1] = WholePages /\ m.mark[p - 1] = "free" /\ m.count[p - 1] = 0
    THEN m.prev[p - 1] ELSE p - 1

JoinsPrevious(m, p) == p > 0 /\ m.type[p - 1] = WholePages /\ IsFreeRun(m, Before(m, p))

JoinPrevious(m, p) ==
    LET join == Before(m, p) IN
    [Unlink(m, join) EXCEPT !.count[join] = @ + m.count[p], !.count[p] = 0,
                            !.next[p] = Null, !.prev[p] = Null, !.type[p] = WholePages]

AddRun(m, p) ==
    LET tagged == IF m.count[p] > 1 THEN [m EXCEPT !.prev[p + m.count[p] - 1] = p] ELSE m
    IN  LinkFirst([tagged EXCEPT !.type[p] = WholePages], FreePage, p)

FreePages(m, p, n) ==
    LET rest == p + 1 .. p + n - 1
        m1 == [m EXCEPT
                  !.mFreePageCount = @ + n,
                  !.count = [q \in Page |-> IF q = p THEN n ELSE IF q \in rest THEN 0 ELSE @[q]],
                  !.mark = [q \in Page |-> IF q \in {p} \cup rest THEN "free" ELSE @[q]],
                  !.type = [q \in Page |-> IF q \in rest THEN WholePages ELSE @[q]],
                  !.next = [q \in Node |-> IF q \in rest THEN Null ELSE @[q]],
                  !.prev = [q \in Node |-> IF q \in rest THEN Null ELSE @[q]]]
        m2 == JoinNext(IF m.next[p] # Null THEN Unlink(m1, p) ELSE m1, p)
    IN  IF JoinsPrevious(m2, p) THEN AddRun(JoinPrevious(m2, p), Before(m2, p)) ELSE AddRun(m2, p)

-----------------------------------------------------------------------------
(* allocMem, freeMem.                                                      *)

\* A block of more than half a page.
AllocLarge(n) ==
    LET p == FirstFit(slab, n) IN
    /\ p # FreePage
    /\ slab' = AllocPages(slab, p, n)
    /\ live' = live \cup {<<p, n, WholePages>>}

Capacity(s) == Chunks[s] - Bitmap[s]

\* A chunk of the first page of its list; a page that is full leaves it.
AllocChunk(s) ==
    LET p == slab.next[s]
        c == CHOOSE i \in 0 .. Chunks[s] - 1 :
                 i \notin slab.used[p] /\ \A j \in 0 .. i - 1 : j \in slab.used[p]
        m == [slab EXCEPT !.used[p] = @ \cup {c}, !.mUsed[s] = @ + 1]
    IN  /\ slab.next[p] # p
        /\ slab' = IF m.used[p] = 0 .. Chunks[s] - 1
                   THEN [Unlink(m, p) EXCEPT !.next[p] = Null, !.prev[p] = Null] ELSE m
        /\ live' = live \cup {<<p, 1, c>>}

\* The first chunk of a new page.
AllocFirst(s) ==
    LET p == FirstFit(slab, 1)
        m == AllocPages(slab, p, 1)
    IN  /\ slab.next[slab.next[s]] = slab.next[s]
        /\ p # FreePage
        /\ slab' = [m EXCEPT !.mark[p] = "chunks", !.type[p] = s, !.used[p] = 0 .. Bitmap[s],
                             !.next[p] = s, !.prev[p] = s, !.next[s] = p,
                             !.mTotal[s] = @ + Capacity(s), !.mUsed[s] = @ + 1]
        /\ live' = live \cup {<<p, 1, Bitmap[s]>>}

FreeLarge(b) ==
    /\ slab.type[b[1]] = WholePages /\ slab.mark[b[1]] = "start"
    /\ slab' = FreePages(slab, b[1], slab.count[b[1]])
    /\ live' = live \ {b}

\* Broken: a page that was full stays out of the list.
RelistNever(m, p) == m

\* A page that was full comes back to the list; one with no chunk in use
\* becomes a free page.
Relist(m, p) == IF m.next[p] = Null THEN LinkFirst(m, m.type[p], p) ELSE m

Empty(m, p) == m.used[p] = 0 .. Bitmap[m.type[p]] - 1

FreeChunk(b) ==
    LET p == b[1]
        s == slab.type[p]
        m == [Relist(slab, p) EXCEPT !.used[p] = @ \ {b[3]}, !.mUsed[s] = @ - 1]
    IN  /\ s # WholePages /\ b[3] \in slab.used[p]
        /\ slab' = IF Empty(m, p)
                   THEN [FreePages(m, p, 1) EXCEPT !.used[p] = {}, !.mTotal[s] = @ - Capacity(s)]
                   ELSE m
        /\ live' = live \ {b}

-----------------------------------------------------------------------------
SlabInit ==
    /\ slab = [next |-> [q \in Node |-> IF q \in Slot THEN q ELSE IF q = FreePage THEN 0
                                        ELSE IF q = 0 THEN FreePage ELSE Null],
               prev |-> [q \in Node |-> IF q = 0 THEN FreePage ELSE Null],
               type |-> [q \in Page |-> WholePages],
               mark |-> [q \in Page |-> "free"],
               count |-> [q \in Page |-> IF q = 0 THEN Pages ELSE 0],
               used |-> [q \in Page |-> {}],
               mFreePageCount |-> Pages,
               mTotal |-> [s \in Slot |-> 0], mUsed |-> [s \in Slot |-> 0]]
    /\ live = {}

SlabNext ==
    \/ \E n \in Runs : AllocLarge(n)
    \/ \E s \in Slot : AllocChunk(s) \/ AllocFirst(s)
    \/ \E b \in live : FreeLarge(b) \/ FreeChunk(b)

SlabSpec == SlabInit /\ [][SlabNext]_slabVars

-----------------------------------------------------------------------------
(* Properties.                                                             *)

PagesOf(b) == b[1] .. b[1] + b[2] - 1
FreeRuns == {p \in Page : IsFreeRun(slab, p)}
RunOf(p) == p .. p + slab.count[p] - 1
FreeRunPages == UNION {RunOf(p) : p \in FreeRuns}

\* allocMem gives no memory to two owners: two blocks share no page, or are
\* different chunks of one page; none lies in a bitmap or in a free run.
BlocksDisjoint ==
    /\ \A b, c \in live : b # c =>
           \/ PagesOf(b) \cap PagesOf(c) = {}
           \/ b[1] = c[1] /\ b[3] # c[3] /\ WholePages \notin {b[3], c[3]}
    /\ \A b \in live : /\ PagesOf(b) \subseteq Page \ FreeRunPages
                       /\ b[3] # WholePages => b[3] >= Bitmap[slab.type[b[1]]]

\* A doubly linked list holds exactly the nodes given.
IsList(m, head, nodes) ==
    LET at == Walk(m, head) IN
    /\ {at[i] : i \in DOMAIN at} \ {head} = nodes
    /\ \A p \in nodes : m.next[m.prev[p]] = p /\ (m.next[p] # head => m.prev[m.next[p]] = p)

\* freePages merges and allocPages splits: the list of free runs holds all
\* pages no block uses, mFreePageCount of them; no two runs touch, and the
\* last page of each, if a page follows it, leads back to the first.  So
\* nothing is lost to fragments: once all blocks are freed the pool is one
\* run again.
FreeRunsWhole ==
    /\ IsList(slab, FreePage, FreeRuns)
    /\ FreeRunPages = Page \ UNION {PagesOf(b) : b \in live}
    /\ slab.mFreePageCount = Cardinality(FreeRunPages)
    /\ \A p, q \in FreeRuns : p + slab.count[p] # q
    /\ \A p \in FreeRuns : LET last == p + slab.count[p] - 1 IN
           p < last /\ last < Pages - 1 => slab.prev[last] = p

\* Each slot's list holds the pages of its size with a chunk to spare, and
\* mStats says how much of that size there is and how much of it is in use.
PagesWithRoom(s) ==
    {p \in Page : slab.type[p] = s /\ slab.used[p] # 0 .. Chunks[s] - 1}
SlotsExact ==
    \A s \in Slot :
        /\ IsList(slab, s, PagesWithRoom(s))
        /\ slab.mUsed[s] = Cardinality({b \in live : slab.type[b[1]] = s})
        /\ slab.mTotal[s] = Capacity(s) * Cardinality({p \in Page : slab.type[p] = s})

\* Both, after any sequence of calls: every page is in the list it belongs to.
ListsExact == FreeRunsWhole /\ SlotsExact
=============================================================================
