------------------------------ MODULE FreeList ------------------------------
(***************************************************************************)
(* The page allocators that keep one list of free blocks: first fit,       *)
(* lab8/kern/mm/default_pmm.c, and best fit, lab2/kern/mm/best_fit_pmm.c,  *)
(* on the lists of libs/list.h.  They differ in the block they choose.     *)
(*                                                                         *)
(* Pages are numbered from 0; a free block is known by its first page,     *)
(* which carries its length (property), the flag PG_property and the link. *)
(* The links are modelled as they are, both directions: list_add and       *)
(* list_del trust them, and so do the merges.                              *)
(***************************************************************************)
EXTENDS Integers, Sequences, FiniteSetsExt, Functions

CONSTANT NPages         \* pages given to init_memmap

ASSUME PagesAssumption == NPages \in Nat /\ NPages > 1

VARIABLES
    link,               \* next and prev of every node
    property,           \* length of the block a page starts, or a stale value
    pg_property,        \* pages with the flag PG_property
    nr_free

listVars == <<link, property, nr_free>>

Pages == 0 .. NPages - 1
LIST == NPages          \* free_list itself
Nodes == Pages \cup {LIST}
NULL == -1

Run(i, n) == i .. i + n - 1

ListType ==
    /\ link \in [next : [Nodes -> Nodes], prev : [Nodes -> Nodes]]
    /\ property \in [Pages -> 0 .. NPages]
    /\ nr_free \in 0 .. NPages

-----------------------------------------------------------------------------
(* libs/list.h.                                                            *)

\* __list_add: put elm between prev and next.
ListAddBetween(l, elm, prev, next) ==
    [next |-> [l.next EXCEPT ![prev] = elm, ![elm] = next],
     prev |-> [l.prev EXCEPT ![next] = elm, ![elm] = prev]]

list_add(l, at, elm) == ListAddBetween(l, elm, at, l.next[at])

list_add_before(l, at, elm) == ListAddBetween(l, elm, l.prev[at], at)

list_del(l, elm) ==
    [next |-> [l.next EXCEPT ![l.prev[elm]] = l.next[elm]],
     prev |-> [l.prev EXCEPT ![l.next[elm]] = l.prev[elm]]]

\* The free blocks in the order in which a loop over the list meets them.
Walk(l) ==
    LET nth[k \in 0 .. NPages + 1] == IF k = 0 THEN LIST ELSE l.next[nth[k - 1]]
        Length == Min({k \in 0 .. NPages : nth[k + 1] = LIST} \cup {NPages})
    IN  [k \in 1 .. Length |-> nth[k]]

\* The nodes that can be come to from the list, in either direction.
Linked(l) ==
    LET within[k \in 0 .. NPages] ==
            IF k = 0 THEN {LIST}
            ELSE LET near == within[k - 1]
                 IN  near \cup {l.next[x] : x \in near} \cup {l.prev[x] : x \in near}
    IN  within[NPages]

\* What a page that is not linked says of its links and its length is not read
\* again before it is written; the model forgets it.
Forget(list) ==
    LET linked == Linked(list.link)
    IN  [link |-> [next |-> [x \in Nodes |-> IF x \in linked THEN list.link.next[x] ELSE x],
                   prev |-> [x \in Nodes |-> IF x \in linked THEN list.link.prev[x] ELSE x]],
         prop |-> [p \in Pages |-> IF p \in linked THEN list.prop[p] ELSE 0],
         flags |-> list.flags]

-----------------------------------------------------------------------------
(* Initialisation: init and one init_memmap for all pages.                 *)

ListInit ==
    /\ link = LET alone == [x \in Nodes |-> x]
              IN  list_add([next |-> alone, prev |-> alone], LIST, 0)
    /\ property = [p \in Pages |-> IF p = 0 THEN NPages ELSE 0]
    /\ nr_free = NPages

ListFlags == pg_property = {0}

-----------------------------------------------------------------------------
(* alloc_pages.                                                            *)

Fits(walk, n) == {k \in DOMAIN walk : property[walk[k]] >= n}

\* First fit: the first block that is long enough.
FirstFit(n) ==
    LET walk == Walk(link)
        fits == Fits(walk, n)
    IN  IF n > nr_free \/ fits = {} THEN NULL ELSE walk[Min(fits)]

\* Best fit: the shortest block that is long enough, the first of them.
BestFit(n) ==
    LET walk == Walk(link)
        fits == Fits(walk, n)
        min_size == Min({property[walk[k]] : k \in fits})
    IN  IF n > nr_free \/ fits = {} THEN NULL
        ELSE walk[Min({k \in fits : property[walk[k]] = min_size})]

\* Mutant: the rest of the block is lost.
RestLost(page, n) ==
    [link |-> list_del(link, page), prop |-> property, flags |-> pg_property \ {page}]

\* The list without the n pages taken off the front of the block at page.
Rest(page, n) ==
    IF property[page] > n
    THEN [link |-> list_add(list_del(link, page), link.prev[page], page + n),
          prop |-> [property EXCEPT ![page + n] = property[page] - n],
          flags |-> (pg_property \cup {page + n}) \ {page}]
    ELSE [link |-> list_del(link, page), prop |-> property, flags |-> pg_property \ {page}]

Become(list) ==
    LET new == Forget(list)
    IN  link' = new.link /\ property' = new.prop /\ pg_property' = new.flags

\* Mutant: nr_free still counts the pages.
TakeUncounted(page, n) == Become(Rest(page, n)) /\ UNCHANGED nr_free

Take(page, n) == Become(Rest(page, n)) /\ nr_free' = nr_free - n

-----------------------------------------------------------------------------
(* free_pages.                                                             *)

\* The insertion loop keeps the list sorted.  Behind the last block the loop does
\* not stop: the next node is base itself, which it adds behind base once more.
Insert(l, base) ==
    LET walk == Walk(l)
        above == {k \in DOMAIN walk : base < walk[k]}
    IN  IF walk = <<>> THEN list_add(l, LIST, base)
        ELSE IF above # {} THEN list_add_before(l, walk[Min(above)], base)
        ELSE list_add(list_add(l, walk[Len(walk)], base), base, base)

\* Two neighbours of the list that adjoin become one.
Adjoin(prop, low, high) == low # LIST /\ high # LIST /\ low + prop[low] = high

Join(list, low, high) ==
    [link |-> list_del(list.link, high),
     prop |-> [list.prop EXCEPT ![low] = @ + list.prop[high]],
     flags |-> list.flags \ {high}]

\* Mutant: the block in front is not looked at.
JoinFrontNever(list, base) == [at |-> base, list |-> list]

\* The merge with the block in front of base, and where the block starts now.
JoinFront(list, base) ==
    LET le == list.link.prev[base]
    IN  IF Adjoin(list.prop, le, base)
        THEN [at |-> le, list |-> Join(list, le, base)]
        ELSE [at |-> base, list |-> list]

\* The merge with the block behind base.
JoinBehind(list, base) ==
    LET le == list.link.next[base]
    IN  IF Adjoin(list.prop, base, le) THEN Join(list, base, le) ELSE list

\* The assertion on every page that is given back.
FreeAsserts(base, n) == Run(base, n) \cap pg_property = {}

GiveBack(base, n) ==
    LET inserted == [link |-> Insert(link, base),
                     prop |-> [property EXCEPT ![base] = n],
                     flags |-> (pg_property \ Run(base, n)) \cup {base}]
        front == JoinFront(inserted, base)
    IN  /\ FreeAsserts(base, n)
        /\ Become(JoinBehind(front.list, front.at))
        /\ nr_free' = nr_free + n

-----------------------------------------------------------------------------
\* The list is sorted, closed and the same in both directions; its blocks carry
\* the flag and nothing else does; they cover the pages that are not in taken, and
\* no two of them adjoin.
ListExact(taken) ==
    LET l == Range(Walk(link))
    IN  /\ \A x \in l \cup {LIST} : link.prev[link.next[x]] = x
        /\ \A x \in l : link.next[x] # LIST => x < link.next[x]
        /\ pg_property = l
        /\ \A x \in l : property[x] > 0
        /\ Pages \ taken = UNION {Run(x, property[x]) : x \in l}
        /\ \A x, y \in l : x < y => x + property[x] < y
        /\ nr_free = Cardinality(Pages \ taken)

=============================================================================
