------------------------------ MODULE Kmalloc -------------------------------
(***************************************************************************)
(* The kernel heap, lab8/kern/mm/kmalloc.c, on the page allocator of Pmm:  *)
(* small requests come from slob_alloc, which cuts them out of pages and   *)
(* keeps what is free in one circular list in the order of addresses;      *)
(* requests of a page or more get pages of their own, and a bigblock_t     *)
(* from slob_alloc that kfree finds them by.                               *)
(*                                                                         *)
(* Addresses and sizes are in units (SLOB_UNIT): unit i of page p is       *)
(* p * PageUnits + i.  The kernel does not preempt itself: between the two *)
(* steps of a large kmalloc nobody else runs.  align, which no caller of   *)
(* slob_alloc sets, is left out.                                           *)
(***************************************************************************)
EXTENDS Pmm, SequencesExt

CONSTANTS
    PageUnits,          \* PAGE_SIZE
    Slots,              \* one caller of alloc_pages for every page slob_alloc may get (bound)
    Users,              \* callers of kmalloc
    Sizes               \* what they ask for

VARIABLES
    client,             \* bound: who calls alloc_pages, Pmm's callers or the heap
    slob,               \* [units, next] of every free block
    slobfree,           \* where the next search starts
    bigblocks,          \* the list of large blocks: [bb, pages, order]
    pending,            \* the large kmalloc that has its bigblock_t but no pages yet
    block               \* what each user has: the pointer, the size and the header

heapVars == <<client, slob, slobfree, bigblocks, pending, block>>
heapAll == <<vars, heapVars>>

\* sizeof(bigblock_t).
BIGBLOCK == 2

\* arena lies in the kernel image, in front of all pages.
arena == -2

Units == 0 .. NPages * PageUnits - 1

find_order(size) ==
    LET halved[k \in 0 .. size] == IF k = 0 THEN size ELSE halved[k - 1] \div 2
    IN  Min({k \in 0 .. size : halved[k] <= PageUnits})

\* __kmalloc's choice.
Small(size) == size < PageUnits - 1

\* slob_alloc asserts that a small request with its header, and one unit more, is less
\* than a page; find_order rounds down what is no power of two of pages.  The sizes the
\* kernel asks for are clear of both.
ASSUME HeapAssumption ==
    /\ PageUnits \in Nat /\ PageUnits > BIGBLOCK + 1
    /\ Sizes \subseteq Nat \ {0}
    /\ \A n \in Sizes : IF Small(n) THEN n + 2 < PageUnits
                        ELSE 2 ^ find_order(n) * PageUnits >= n
    /\ Slots \subseteq Callers /\ Users \subseteq Callers /\ Slots \cap Users = {}

HeapTypeOK ==
    /\ TypeOK
    /\ client \in {"pages", "heap"}
    /\ DOMAIN slob \subseteq Units \cup {arena} /\ slobfree \in DOMAIN slob
    /\ \A b \in DOMAIN slob : slob[b].units \in 1 .. NPages * PageUnits
                              /\ slob[b].next \in DOMAIN slob
    /\ \A i \in DOMAIN bigblocks : bigblocks[i].bb \in Units /\ bigblocks[i].pages \in Units
    /\ pending = {} \/ \E u \in Users, b \in Units, n \in Sizes :
                           pending = {[user |-> u, bb |-> b, size |-> n]}
    /\ \A u \in Users : block[u].ptr \in Units \cup {NULL}

Nothing == [ptr |-> NULL, size |-> 0, units |-> 0]

HeapInit ==
    /\ Init
    /\ client \in {"pages", "heap"} /\ (client = "heap" => pmm_manager = "default")
    /\ slob = [b \in {arena} |-> [units |-> 1, next |-> arena]] /\ slobfree = arena
    /\ bigblocks = <<>> /\ pending = {}
    /\ block = [u \in Users |-> Nothing]

-----------------------------------------------------------------------------
(* The free list: s is [list, start], start is slobfree.                   *)

Slob == [list |-> slob, start |-> slobfree]

\* The blocks in the order of a search: the one behind start first, start last.
Round(s) ==
    LET n == Cardinality(DOMAIN s.list)
        nth[k \in 0 .. n] == IF k = 0 THEN s.start ELSE s.list[nth[k - 1]].next
    IN  [k \in 1 .. n |-> nth[k]]

Enough(s, units) ==
    LET round == Round(s)
    IN  {k \in DOMAIN round : s.list[round[k]].units >= units}

\* Mutant: the rest starts one unit early.
slob_alloc_Early(s, units) ==
    LET round == Round(s)
        k == Min(Enough(s, units))
        cur == round[k]
        prev == IF k = 1 THEN s.start ELSE round[k - 1]
        rest == cur + units - 1
    IN  [at |-> cur,
         list |-> [b \in (DOMAIN s.list \ {cur}) \cup {rest} |->
                      IF b = prev THEN [s.list[b] EXCEPT !.next = rest]
                      ELSE IF b = rest
                      THEN [units |-> s.list[cur].units - units + 1, next |-> s.list[cur].next]
                      ELSE s.list[b]],
         start |-> prev]

\* slob_alloc when a block is large enough: its front is handed out, the rest takes its
\* place in the list.
slob_alloc(s, units) ==
    LET round == Round(s)
        k == Min(Enough(s, units))
        cur == round[k]
        prev == IF k = 1 THEN s.start ELSE round[k - 1]
        exact == s.list[cur].units = units
        rest == IF exact THEN s.list[cur].next ELSE cur + units
    IN  [at |-> cur,
         list |-> [b \in (DOMAIN s.list \ {cur}) \cup {rest} |->
                      IF b = prev THEN [s.list[b] EXCEPT !.next = rest]
                      ELSE IF b = rest /\ ~exact
                      THEN [units |-> s.list[cur].units - units, next |-> s.list[cur].next]
                      ELSE s.list[b]],
         start |-> prev]

\* Where slob_free puts b: between cur and the block behind it, or at the end of the
\* addresses.
Reinsertion(s, b) ==
    LET order == <<s.start>> \o Front(Round(s))
        Here(cur) == LET next == s.list[cur].next
                     IN  \/ b > cur /\ b < next
                         \/ cur >= next /\ (b > cur \/ b < next)
    IN  order[Min({k \in DOMAIN order : Here(order[k])})]

\* The list with the block new at b, behind cur.
Spliced(list, cur, b, new) ==
    [x \in DOMAIN list \cup {b} |-> IF x = b THEN new
                                  ELSE IF x = cur THEN [list[x] EXCEPT !.next = b]
                                  ELSE list[x]]

\* Mutant: only the block in front is joined.
slob_free_FrontOnly(s, b, units) ==
    LET cur == Reinsertion(s, b)
        new == [units |-> units, next |-> s.list[cur].next]
    IN  [list |-> IF cur + s.list[cur].units = b
                  THEN [s.list EXCEPT ![cur] = [new EXCEPT !.units = @ + s.list[cur].units]]
                  ELSE Spliced(s.list, cur, b, new),
         start |-> cur]

slob_free(s, b, units) ==
    LET cur == Reinsertion(s, b)
        next == s.list[cur].next
        behind == b + units = next
        new == IF behind THEN [units |-> units + s.list[next].units, next |-> s.list[next].next]
               ELSE [units |-> units, next |-> next]
        left == [x \in DOMAIN s.list \ (IF behind THEN {next} ELSE {}) |-> s.list[x]]
    IN  [list |-> IF cur + s.list[cur].units = b
                  THEN [left EXCEPT ![cur] = [new EXCEPT !.units = @ + s.list[cur].units]]
                  ELSE Spliced(left, cur, b, new),
         start |-> cur]

Relist(s) == slob' = s.list /\ slobfree' = s.start /\ UNCHANGED client

-----------------------------------------------------------------------------
(* kmalloc and kfree.                                                      *)

pagesOf(p) == p * PageUnits

\* Bound TailKept for a large request, which may be preceded by a page for the list: the
\* last page stays free.
Ample(n) == TailKept => Fit(n) = NULL \/ (Fit(n + 1) # NULL /\ NPages - 1 \notin Run(Fit(n + 1), n + 1))

\* __kmalloc after slob_alloc: a small block is done, a large one needs pages.
Cut(u, size, s) ==
    /\ Relist(s)
    /\ IF Small(size)
       THEN /\ block' = [block EXCEPT ![u] = [ptr |-> s.at + 1, size |-> size, units |-> size + 1]]
            /\ UNCHANGED pending
       ELSE /\ pending' = {[user |-> u, bb |-> s.at, size |-> size]}
            /\ UNCHANGED block
    /\ UNCHANGED bigblocks

\* kmalloc, up to the return of slob_alloc; if no block is large enough slob_alloc
\* frees a new page into the list and goes on.
kmalloc(u, size) ==
    /\ client = "heap"
    /\ pending = {} /\ block[u] = Nothing
    /\ ~Small(size) => Ample(2 ^ find_order(size))
    /\ LET units == IF Small(size) THEN size + 1 ELSE BIGBLOCK
       IN  IF Enough(Slob, units) # {}
           THEN Cut(u, size, slob_alloc(Slob, units)) /\ UNCHANGED vars
           ELSE \E slot \in Slots :
                    /\ ListAlloc(slot, 1)
                    /\ Cut(u, size, slob_alloc(slob_free(Slob, pagesOf(Fit(1)), PageUnits), units))

\* The rest of a large kmalloc.
BigBlock(call) ==
    /\ ListAlloc(call.user, 2 ^ find_order(call.size))
    /\ LET order == find_order(call.size)
           pages == pagesOf(Fit(2 ^ order))
       IN  /\ bigblocks' = <<[bb |-> call.bb, pages |-> pages, order |-> order]>> \o bigblocks
           /\ block' = [block EXCEPT ![call.user] = [ptr |-> pages, size |-> call.size, units |-> 0]]
    /\ pending' = {}
    /\ UNCHANGED <<client, slob, slobfree>>

\* There are no pages: kmalloc returns 0, and the bigblock_t is given back.
NoBigBlock(call) ==
    /\ Fit(2 ^ find_order(call.size)) = NULL
    /\ Relist(slob_free(Slob, call.bb, BIGBLOCK))
    /\ pending' = {}
    /\ UNCHANGED <<vars, bigblocks, block>>

\* The entries of bigblocks that kfree finds for a pointer: it looks if the pointer is
\* the start of a page.
Entries(ptr) ==
    {i \in DOMAIN bigblocks : ptr % PageUnits = 0 /\ bigblocks[i].pages = ptr}

kfreeSmall(u) ==
    /\ pending = {} /\ block[u] # Nothing /\ Entries(block[u].ptr) = {}
    /\ Relist(slob_free(Slob, block[u].ptr - 1, block[u].units))
    /\ block' = [block EXCEPT ![u] = Nothing]
    /\ UNCHANGED <<vars, bigblocks, pending>>

kfreeBig(u) ==
    /\ pending = {} /\ block[u] # Nothing /\ Entries(block[u].ptr) # {}
    /\ LET i == Min(Entries(block[u].ptr))
           big == bigblocks[i]
       IN  /\ ListFree(u, big.pages \div PageUnits, 2 ^ big.order)
           /\ Relist(slob_free(Slob, big.bb, BIGBLOCK))
           /\ bigblocks' = RemoveAt(bigblocks, i)
    /\ block' = [block EXCEPT ![u] = Nothing]
    /\ UNCHANGED pending

HeapNext ==
    \/ /\ client = "pages"
       /\ \E c \in Callers \ (Slots \cup Users) : CallerStep(c)
       /\ UNCHANGED heapVars
    \/ \E u \in Users :
          \/ \E size \in Sizes : kmalloc(u, size)
          \/ kfreeSmall(u) \/ kfreeBig(u)
    \/ \E call \in pending : BigBlock(call) \/ NoBigBlock(call)

HeapSpec == HeapInit /\ [][HeapNext]_heapAll

-----------------------------------------------------------------------------
\* The pieces of the pages that slob_alloc has got: free blocks, small blocks with their
\* headers, and the entries of bigblocks.
Pieces ==
    {<<b, slob[b].units>> : b \in DOMAIN slob \ {arena}}
    \cup {<<block[u].ptr - 1, block[u].units>> : u \in {v \in Users : block[v].units # 0}}
    \cup {<<bigblocks[i].bb, BIGBLOCK>> : i \in DOMAIN bigblocks}
    \cup {<<call.bb, BIGBLOCK>> : call \in pending}

SlobUnits == UNION {Run(pagesOf(p), PageUnits) : p \in UNION {held[t] : t \in Slots}}

\* The pages of the heap are cut up exactly: every unit belongs to one piece, the list is
\* one ring in the order of addresses with every free block on it, free blocks that adjoin
\* are one, and every large block can be found by its pages (slob_alloc, slob_free).
HeapExact ==
    /\ UNION {Run(x[1], x[2]) : x \in Pieces} = SlobUnits
    /\ \A x, y \in Pieces : x # y => Run(x[1], x[2]) \cap Run(y[1], y[2]) = {}
    /\ Range(Round(Slob)) = DOMAIN slob
    /\ \A b \in DOMAIN slob : slob[b].next # arena =>
           b < slob[b].next /\ b + slob[b].units # slob[b].next
    /\ \A u \in Users : block[u] # Nothing /\ block[u].units = 0 =>
           Cardinality(Entries(block[u].ptr)) = 1

\* What kmalloc promises is what a page allocator does, of units: a run that nobody has.
Heap == INSTANCE PageAllocator WITH
    Callers <- Users, NPages <- NPages * PageUnits,
    held <- [u \in Users |-> Run(block[u].ptr, block[u].size)]

\* No block that kmalloc returns overlaps one that is in use, however the pages were cut
\* up, joined and given back before, for small and large blocks together.
ImplementsHeap == Heap!Spec

=============================================================================
