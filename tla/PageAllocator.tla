--------------------------- MODULE PageAllocator ----------------------------
(***************************************************************************)
(* What alloc_pages and free_pages promise their callers, whichever        *)
(* manager is installed (struct pmm_manager, lab8/kern/mm/pmm.h): a run of *)
(* pages that nobody holds.                                                *)
(***************************************************************************)
EXTENDS Integers

CONSTANTS Callers, NPages

VARIABLE held           \* pages that each caller has and has not given back

Pages == 0 .. NPages - 1

Init == held = [c \in Callers |-> {}]

\* A run of pages that nobody has.
Alloc(c) ==
    /\ held[c] = {}
    /\ \E i, j \in held'[c] : held'[c] = i .. j
    /\ held'[c] \subseteq Pages /\ \A d \in Callers : held[d] \cap held'[c] = {}
    /\ held' = [held EXCEPT ![c] = held'[c]]

\* All or part of them is given back.
Free(c) ==
    /\ held'[c] \subseteq held[c]
    /\ held' = [held EXCEPT ![c] = held'[c]]

Next == \E c \in Callers : Alloc(c) \/ Free(c)

Spec == Init /\ [][Next]_held

=============================================================================
