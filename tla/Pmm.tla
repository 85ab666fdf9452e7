--------------------------------- MODULE Pmm --------------------------------
(***************************************************************************)
(* Physical memory management: alloc_pages and free_pages of pmm.c on the  *)
(* manager that init_pmm_manager installs, and callers that ask for pages  *)
(* and give them back.  Each call runs with interrupts off.  With the      *)
(* managers of FreeList a caller may give its pages back piece by piece    *)
(* (default_check does); with Buddy it gives back what it was given.       *)
(***************************************************************************)
EXTENDS FreeList

CONSTANTS
    BUDDY_MAX_ORDER,
    Managers,           \* the managers to install: a subset of the three
    Callers,            \* the pointers p0, p1, ... of the callers
    MaxRequest,         \* pages asked for at once
    TailKept            \* the last page is never given out (memory is not exhausted)

ASSUME PmmAssumption ==
    /\ Managers \subseteq {"default", "best_fit", "buddy"}
    /\ BUDDY_MAX_ORDER \in Nat \ {0} /\ NPages <= 2 ^ BUDDY_MAX_ORDER
    /\ MaxRequest \in 1 .. NPages
    /\ TailKept \in BOOLEAN

VARIABLES
    pmm_manager,
    free_area, buddy_order,         \* of the buddy manager
    held                            \* pages each caller has: the callers' side

B == INSTANCE Buddy

vars == <<link, property, pg_property, nr_free, pmm_manager, free_area, buddy_order, held>>

TypeOK ==
    /\ ListType /\ B!BuddyType
    /\ pg_property \subseteq Pages
    /\ pmm_manager \in Managers
    /\ held \in [Callers -> SUBSET Pages]

\* init_pmm_manager and page_init; the manager that is not installed keeps its
\* initial state.
Init ==
    /\ pmm_manager \in Managers
    /\ ListInit /\ B!BuddyInit
    /\ IF pmm_manager = "buddy" THEN B!BuddyFlags ELSE ListFlags
    /\ held = [c \in Callers |-> {}]

\* The page the manager answers a request of n pages with.
Fit(n) ==
    CASE pmm_manager = "default" -> FirstFit(n)
      [] pmm_manager = "best_fit" -> BestFit(n)
      [] pmm_manager = "buddy" -> B!BuddyFit(n)

Given(c, n) ==
    /\ held[c] = {}
    /\ Fit(n) # NULL
    /\ TailKept => NPages - 1 \notin Run(Fit(n), n)
    /\ held' = [held EXCEPT ![c] = Run(Fit(n), n)]

ListAlloc(c, n) ==
    /\ pmm_manager # "buddy"
    /\ Given(c, n)
    /\ Take(Fit(n), n)
    /\ UNCHANGED <<pmm_manager, free_area, buddy_order>>

BuddyAlloc(c, n) ==
    /\ pmm_manager = "buddy"
    /\ Given(c, n)
    /\ B!BuddyTake(n)
    /\ UNCHANGED <<pmm_manager, listVars>>

\* Caller c gives n pages back, from base on.
ListFree(c, base, n) ==
    /\ pmm_manager # "buddy"
    /\ Run(base, n) \subseteq held[c]
    /\ GiveBack(base, n)
    /\ held' = [held EXCEPT ![c] = @ \ Run(base, n)]
    /\ UNCHANGED <<pmm_manager, free_area, buddy_order>>

BuddyFree(c, base, n) ==
    /\ pmm_manager = "buddy"
    /\ held[c] = Run(base, n)
    /\ B!BuddyGiveBack(base, n)
    /\ held' = [held EXCEPT ![c] = {}]
    /\ UNCHANGED <<pmm_manager, listVars>>

\* A call of alloc_pages or free_pages.
CallerStep(c) ==
    \E n \in 1 .. MaxRequest :
        \/ ListAlloc(c, n)
        \/ BuddyAlloc(c, n)
        \/ \E base \in Pages : ListFree(c, base, n) \/ BuddyFree(c, base, n)

Next == \E c \in Callers : CallerStep(c)

Spec == Init /\ [][Next]_vars

-----------------------------------------------------------------------------
HeldPages == UNION {held[c] : c \in Callers}

\* The blocks of the buddy manager behind what the callers hold: a request is
\* rounded up to a power of two.
Rounded ==
    UNION {B!Block(Min(held[c]), B!get_order(Cardinality(held[c]))) :
             c \in {d \in Callers : held[d] # {}}}

Allocator == INSTANCE PageAllocator

\* Every page an allocator gives out was held by nobody, whatever was split, merged
\* and given back before (alloc_pages and free_pages of the three managers).
ImplementsAllocator == Allocator!Spec

\* No two callers hold the same page: assert(p0 != p1 && p0 != p2 && p1 != p2) of
\* basic_check.
NeverTwice == \A c, d \in Callers : c # d => held[c] \cap held[d] = {}

\* The bookkeeping is exact: the free blocks are the maximal runs of free pages
\* (list managers), or the blocks that cannot be joined any more (buddy), nothing
\* is lost, nr_free counts them, and no page of a caller carries the flag that
\* free_pages asserts to be clear.
BlocksExact ==
    IF pmm_manager = "buddy" THEN B!BuddyExact(Rounded) ELSE ListExact(HeldPages)

\* The pages that a request of n pages needs, wherever there is room for it.
Room(n) ==
    IF pmm_manager = "buddy"
    THEN {i \in Pages :
            LET k == B!get_order(n)
            IN  B!Aligned(i, k) = i
                /\ B!Block(i, k) \subseteq B!Block(0, B!max_order) \ Rounded}
    ELSE {i \in Pages : Run(i, n) \subseteq Pages \ HeldPages}

\* alloc_pages answers NULL only when there is no room: a free run is never hidden
\* because its parts were given back in some order and not merged.
NoFalseFailure == \A n \in 1 .. NPages : Room(n) # {} => Fit(n) # NULL

=============================================================================
