------------------------------- MODULE Buddy --------------------------------
(***************************************************************************)
(* The buddy allocator, lab2/kern/mm/buddy_pmm.c.  A block of order k is   *)
(* 2^k pages; free_area[k] lists the free blocks of order k.  A block that *)
(* is freed joins its buddy when the flag and buddy_order of the buddy's   *)
(* first page say that it is a free block of the same order: both may be   *)
(* stale, since alloc clears the flag of a first page only and leaves      *)
(* buddy_order of what it takes alone.  The lists are modelled as          *)
(* sequences: list_add puts a block in front, list_del takes one out.      *)
(***************************************************************************)
EXTENDS Integers, Sequences, FiniteSetsExt, SequencesExt

CONSTANTS NPages, BUDDY_MAX_ORDER

VARIABLES
    free_area,          \* [free_list, nr_free] for every order
    buddy_order,        \* of every page the array has room for
    pg_property         \* pages with the flag PG_property

Orders == 0 .. BUDDY_MAX_ORDER
ArrayPages == 0 .. 2 ^ BUDDY_MAX_ORDER - 1
NULL == -1

get_order(n) == CHOOSE k \in 0 .. n : 2 ^ k >= n /\ \A j \in 0 .. k - 1 : 2 ^ j < n

\* The one block buddy_init_memmap makes: the largest that fits.
max_order == CHOOSE k \in Orders : 2 ^ k <= NPages /\ \A j \in Orders : 2 ^ j <= NPages => j <= k

Block(i, k) == i .. i + 2 ^ k - 1

BuddyType ==
    /\ free_area \in [Orders -> [free_list : Seq(0 .. NPages - 1), nr_free : Nat]]
    /\ buddy_order \in [ArrayPages -> Orders]

BuddyInit ==
    /\ free_area = [k \in Orders |-> IF k = max_order
                                     THEN [free_list |-> <<0>>, nr_free |-> 2 ^ k]
                                     ELSE [free_list |-> <<>>, nr_free |-> 0]]
    /\ buddy_order = [i \in ArrayPages |-> IF i \in Block(0, max_order) THEN max_order ELSE 0]

\* Every page is flagged, the pages no block was made of too.
BuddyFlags == pg_property = 0 .. NPages - 1

-----------------------------------------------------------------------------
(* The lists of free blocks.                                               *)

PutIn(area, k, i) ==
    [free_list |-> <<i>> \o area.free_list, nr_free |-> area.nr_free + 2 ^ k]

TakeOut(area, k, i) ==
    [free_list |-> SelectSeq(area.free_list, LAMBDA j : j # i),
     nr_free |-> area.nr_free - 2 ^ k]

\* Orders with a free block of at least 2^k pages.
Stocked(k) == {j \in k .. BUDDY_MAX_ORDER : free_area[j].free_list # <<>>}

\* The block buddy_alloc_pages takes for n pages.
BuddyFit(n) ==
    IF n > 2 ^ BUDDY_MAX_ORDER \/ Stocked(get_order(n)) = {} THEN NULL
    ELSE Head(free_area[Min(Stocked(get_order(n)))].free_list)

\* Mutant: the orders of the new blocks are not written.
SplitOrderNot(page, low, high, i) == buddy_order[i]

\* The order in buddy_order of page i when the block at page is split from order
\* high down to low: the upper half of every split is a new block.
SplitOrder(page, low, high, i) ==
    IF i \in Block(page, high) \ Block(page, low)
    THEN CHOOSE k \in low .. high - 1 : i \in Block(page + 2 ^ k, k)
    ELSE buddy_order[i]

\* buddy_alloc_pages when it finds a block.
BuddyTake(n) ==
    LET low == get_order(n)
        high == Min(Stocked(low))
        page == BuddyFit(n)
    IN  /\ free_area' = [k \in Orders |->
               IF k = high THEN TakeOut(free_area[k], k, page)
               ELSE IF k \in low .. high - 1 THEN PutIn(free_area[k], k, page + 2 ^ k)
               ELSE free_area[k]]
        /\ buddy_order' = [i \in ArrayPages |-> SplitOrder(page, low, high, i)]
        /\ pg_property' = (pg_property \cup {page + 2 ^ k : k \in low .. high - 1}) \ {page}

\* The block of order k that page i lies in, and its buddy.
Aligned(i, k) == i - (i % (2 ^ k))
BuddyOf(i, k) ==
    LET idx == Aligned(i, k)
    IN  IF (idx \div (2 ^ k)) % 2 = 0 THEN idx + 2 ^ k ELSE idx - 2 ^ k

\* Mutant: a buddy that has been split may still count as one block.
JoinsAnyOrder(i, k) == BuddyOf(i, k) \in pg_property

\* The condition of the merge loop.
Joins(i, k) == BuddyOf(i, k) \in pg_property /\ buddy_order[BuddyOf(i, k)] = k

\* buddy_free_pages: join from order low up to the first order at which the buddy is
\* not free.
BuddyGiveBack(base, n) ==
    LET low == get_order(n)
        high == Min({k \in low .. BUDDY_MAX_ORDER : k = BUDDY_MAX_ORDER \/ ~Joins(base, k)})
    IN  /\ free_area' = [k \in Orders |->
               IF k = high THEN PutIn(free_area[k], k, Aligned(base, k))
               ELSE IF k \in low .. high - 1 THEN TakeOut(free_area[k], k, BuddyOf(base, k))
               ELSE free_area[k]]
        /\ buddy_order' = [i \in ArrayPages |->
               IF i \in Block(Aligned(base, high), high) THEN high ELSE buddy_order[i]]
        /\ pg_property' = pg_property \cup {base}

-----------------------------------------------------------------------------
\* The blocks of the lists, as <<first page, order>>.
FreeBlocks == UNION {{<<i, k>> : i \in ToSet(free_area[k].free_list)} : k \in Orders}

\* The free blocks are aligned, pairwise disjoint and flagged with their order; they
\* cover the pages of the first block that are not in taken; no two buddies are both
\* free; nr_free counts the pages of every list.
BuddyExact(taken) ==
    /\ \A b \in FreeBlocks :
           /\ Aligned(b[1], b[2]) = b[1]
           /\ b[1] \in pg_property /\ buddy_order[b[1]] = b[2]
           /\ \A c \in FreeBlocks : b # c => Block(b[1], b[2]) \cap Block(c[1], c[2]) = {}
           /\ <<BuddyOf(b[1], b[2]), b[2]>> \notin FreeBlocks
    /\ UNION {Block(b[1], b[2]) : b \in FreeBlocks} = Block(0, max_order) \ taken
    /\ \A k \in Orders : /\ free_area[k].nr_free = 2 ^ k * Len(free_area[k].free_list)
                         /\ Len(free_area[k].free_list) = Cardinality(ToSet(free_area[k].free_list))

=============================================================================
