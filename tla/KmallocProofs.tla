---------------------------- MODULE KmallocProofs ---------------------------
(***************************************************************************)
(* Proofs about FreeList, Pmm and Kmalloc.  A linked list in the order of  *)
(* addresses is given by the set of its nodes: every link is the next node *)
(* above, or the next below.                                               *)
(***************************************************************************)
EXTENDS Kmalloc, SeqLemmas, FiniteSetTheorems, TLAPS

-----------------------------------------------------------------------------
(* Numbers.                                                                *)

\* A function may be defined by its first value and the step to the next.
LEMMA Recurrence ==
    ASSUME NEW X, NEW first \in X, NEW F \in [X -> X], NEW n \in Nat
    PROVE  \E f : f = [k \in 0 .. n |-> IF k = 0 THEN first ELSE F[f[k - 1]]]
  <1> DEFINE G == [i \in Nat |-> F]
  <1>1. G \in [Nat -> [X -> X]]
    OBVIOUS
  <1> HIDE DEF G
  <1>2. PICK g : Iterates(g, X, first, G, n)
    BY <1>1, StepByStep
  <1> DEFINE f == [k \in 0 .. n |-> g[k + 1]]
  <1>3. \A k \in 0 .. n : f[k] = IF k = 0 THEN first ELSE F[f[k - 1]]
    <2> SUFFICES ASSUME NEW k \in 0 .. n, k # 0  PROVE f[k] = F[f[k - 1]]
      BY <1>2 DEF Iterates
    <2>1. k \in 1 .. n /\ k - 1 \in 0 .. n /\ (k - 1) + 1 = k
      OBVIOUS
    <2>2. g[k + 1] = G[k][g[k]]
      BY <1>2, <2>1 DEF Iterates
    <2> QED  BY <2>1, <2>2 DEF G
  <1>4. f = [k \in 0 .. n |-> IF k = 0 THEN first ELSE F[f[k - 1]]]
    BY <1>3
  <1> QED  BY <1>4

LEMMA Numbers == NPages \in Nat /\ NPages > 1 /\ Pages \subseteq Nat /\ LIST \in Nat /\ LIST \notin Pages
                 /\ LIST \in Nodes /\ Pages \subseteq Nodes /\ IsFiniteSet(Pages) /\ NULL \notin Nodes
  BY PagesAssumption, FS_Interval DEF Pages, LIST, Nodes, NULL

-----------------------------------------------------------------------------
(* A sorted list is given by the set L of its nodes.  LIST is larger than  *)
(* every page; as the node that a search starts from it is in front of     *)
(* them all.                                                               *)

Key(x) == IF x = LIST THEN -1 ELSE x

\* z is the node behind the place of x, or in front of it.
After(L, x, z) == z \in L \cup {LIST} /\ Key(x) < z /\ \A y \in L : Key(x) < y => z <= y
Before(L, x, z) == z \in L \cup {LIST} /\ Key(z) < x /\ \A y \in L : y < x => y <= Key(z)

\* l is the sorted, closed list of L in both directions; what other nodes say of
\* their links does not matter.
Links(l, L) ==
    /\ l \in [next : [Nodes -> Nodes], prev : [Nodes -> Nodes]]
    /\ \A x \in L \cup {LIST} : After(L, x, l.next[x]) /\ Before(L, x, l.prev[x])

\* The neighbours point to each other.
LEMMA BackAndForth ==
    ASSUME NEW L \in SUBSET Pages, NEW l, Links(l, L), NEW x \in L \cup {LIST}
    PROVE  /\ l.next[x] \in L \cup {LIST} /\ l.prev[x] \in L \cup {LIST}
           /\ l.prev[l.next[x]] = x /\ l.next[l.prev[x]] = x
  <1>1. /\ LIST \in Nat /\ \A y \in L : y \in Nat /\ y < LIST
        /\ x \in Nat
    BY Numbers DEF Pages, LIST
  <1>2. l.next[x] \in L \cup {LIST} /\ l.prev[x] \in L \cup {LIST}
    BY DEF Links, After, Before
  <1>3. ASSUME NEW a \in L \cup {LIST}, NEW b \in L \cup {LIST}, After(L, a, b),
               NEW c \in L \cup {LIST}, Before(L, b, c)
         PROVE c = a
    BY <1>1, <1>3 DEF After, Before, Key
  <1>4. ASSUME NEW a \in L \cup {LIST}, NEW b \in L \cup {LIST}, Before(L, a, b),
               NEW c \in L \cup {LIST}, After(L, b, c)
         PROVE c = a
    BY <1>1, <1>4 DEF After, Before, Key
  <1>5. Before(L, l.next[x], l.prev[l.next[x]]) /\ After(L, l.prev[x], l.next[l.prev[x]])
        /\ After(L, x, l.next[x]) /\ Before(L, x, l.prev[x])
    BY <1>2 DEF Links
  <1>6. l.prev[l.next[x]] \in L \cup {LIST} /\ l.next[l.prev[x]] \in L \cup {LIST}
    BY <1>5 DEF After, Before
  <1> QED  BY <1>2, <1>3, <1>4, <1>5, <1>6

-----------------------------------------------------------------------------
(* libs/list.h on such a list.                                             *)

\* __list_add between neighbours.
LEMMA AddedBetween ==
    ASSUME NEW L \in SUBSET Pages, NEW l, Links(l, L), NEW e \in Pages \ L,
           NEW prev, Before(L, e, prev), NEW next, After(L, e, next)
    PROVE  Links(ListAddBetween(l, e, prev, next), L \cup {e})
  <1> DEFINE n == ListAddBetween(l, e, prev, next)
             M == L \cup {e}
  <1>1. /\ e \in Nodes /\ e \in Nat /\ e < LIST /\ LIST \in Nat /\ LIST \in Nodes
        /\ \A y \in L : y \in Nat /\ y < LIST /\ y \in Nodes
    BY Numbers DEF Pages, LIST, Nodes
  <1>2. prev \in L \cup {LIST} /\ next \in L \cup {LIST} /\ prev \in Nodes /\ next \in Nodes
        /\ prev # e /\ next # e
    BY <1>1 DEF After, Before
  <1>3. /\ n \in [next : [Nodes -> Nodes], prev : [Nodes -> Nodes]]
        /\ \A x \in Nodes : n.next[x] = IF x = e THEN next ELSE IF x = prev THEN e ELSE l.next[x]
        /\ \A x \in Nodes : n.prev[x] = IF x = e THEN prev ELSE IF x = next THEN e ELSE l.prev[x]
    BY <1>1, <1>2 DEF ListAddBetween, Links
  <1> HIDE DEF n
  <1>4. After(M, e, next) /\ Before(M, e, prev)
    BY <1>1, <1>2 DEF After, Before, Key
  <1>5. After(M, prev, e) /\ Before(M, next, e)
    BY <1>1, <1>2 DEF After, Before, Key
  <1>6. ASSUME NEW x \in L \cup {LIST}, x # prev, NEW z, After(L, x, z)  PROVE After(M, x, z)
    BY <1>1, <1>2, <1>6 DEF After, Before, Key
  <1>7. ASSUME NEW x \in L \cup {LIST}, x # next, NEW z, Before(L, x, z)  PROVE Before(M, x, z)
    BY <1>1, <1>2, <1>7 DEF After, Before, Key
  <1>8. ASSUME NEW x \in M \cup {LIST}  PROVE After(M, x, n.next[x]) /\ Before(M, x, n.prev[x])
    <2>1. CASE x = e
      BY <1>1, <1>3, <1>4, <2>1
    <2>2. CASE x # e
      <3>1. x \in L \cup {LIST} /\ x \in Nodes /\ After(L, x, l.next[x]) /\ Before(L, x, l.prev[x])
        BY <1>1, <2>2 DEF Links
      <3>2. After(M, x, n.next[x])
        BY <1>3, <1>5, <1>6, <2>2, <3>1
      <3>3. Before(M, x, n.prev[x])
        BY <1>3, <1>5, <1>7, <2>2, <3>1
      <3> QED  BY <3>2, <3>3
    <2> QED  BY <2>1, <2>2
  <1>9. Links(n, M)
    BY <1>3, <1>8 DEF Links
  <1> QED  BY <1>9 DEF n

LEMMA Deleted ==
    ASSUME NEW L \in SUBSET Pages, NEW l, Links(l, L), NEW e \in L
    PROVE  Links(list_del(l, e), L \ {e})
  <1> DEFINE n == list_del(l, e)
             M == L \ {e}
             prev == l.prev[e]
             next == l.next[e]
  <1>1. /\ e \in Nodes /\ e \in Nat /\ e < LIST /\ LIST \in Nat /\ LIST \in Nodes
        /\ \A y \in L : y \in Nat /\ y < LIST /\ y \in Nodes
    BY Numbers DEF Pages, LIST, Nodes
  <1>2. After(L, e, next) /\ Before(L, e, prev)
    BY DEF Links
  <1>3. /\ n \in [next : [Nodes -> Nodes], prev : [Nodes -> Nodes]]
        /\ \A x \in Nodes : n.next[x] = IF x = prev THEN next ELSE l.next[x]
        /\ \A x \in Nodes : n.prev[x] = IF x = next THEN prev ELSE l.prev[x]
    <2>1. prev \in Nodes /\ next \in Nodes
      BY <1>1, <1>2 DEF After, Before
    <2> QED  BY <2>1 DEF list_del, Links
  <1> HIDE DEF n, prev, next
  <1>4. prev \in L \cup {LIST} /\ next \in L \cup {LIST} /\ prev # e /\ next # e
    BY <1>1, <1>2 DEF After, Before, Key
  <1>5. After(M, prev, next) /\ Before(M, next, prev)
    BY <1>1, <1>2, <1>4 DEF After, Before, Key
  <1>6. ASSUME NEW x \in M \cup {LIST}, x # prev, NEW z, After(L, x, z)  PROVE After(M, x, z)
    BY <1>1, <1>2, <1>4, <1>6 DEF After, Before, Key
  <1>7. ASSUME NEW x \in M \cup {LIST}, x # next, NEW z, Before(L, x, z)  PROVE Before(M, x, z)
    BY <1>1, <1>2, <1>4, <1>7 DEF After, Before, Key
  <1>8. ASSUME NEW x \in M \cup {LIST}  PROVE After(M, x, n.next[x]) /\ Before(M, x, n.prev[x])
    <2>1. x \in Nodes /\ After(L, x, l.next[x]) /\ Before(L, x, l.prev[x])
      BY <1>1 DEF Links
    <2>2. After(M, x, n.next[x])
      BY <1>3, <1>5, <1>6, <2>1
    <2>3. Before(M, x, n.prev[x])
      BY <1>3, <1>5, <1>7, <2>1
    <2> QED  BY <2>2, <2>3
  <1>9. Links(n, M)
    BY <1>3, <1>8 DEF Links
  <1> QED  BY <1>9 DEF n

\* The links of the nodes that are not on the list may be anything.
LEMMA SameLinks ==
    ASSUME NEW L \in SUBSET Pages, NEW l, Links(l, L),
           NEW m \in [next : [Nodes -> Nodes], prev : [Nodes -> Nodes]],
           \A x \in L \cup {LIST} : m.next[x] = l.next[x] /\ m.prev[x] = l.prev[x]
    PROVE  Links(m, L)
  BY DEF Links

-----------------------------------------------------------------------------
(* The loop over the list.                                                 *)

\* w is L in the order of the list.
Lists(w, l, L, n) ==
    /\ n \in Nat /\ w \in [1 .. n -> L] /\ \A x \in L : \E k \in 1 .. n : w[k] = x
    /\ \A j, k \in 1 .. n : j < k => w[j] < w[k]
    /\ n > 0 => l.next[w[n]] = LIST /\ l.next[LIST] = w[1]
    /\ \A k \in 1 .. n - 1 : l.next[w[k]] = w[k + 1]

LEMMA Walked ==
    ASSUME NEW L \in SUBSET Pages, NEW l, Links(l, L)
    PROVE  \E n \in Nat : Lists(Walk(l), l, L, n)
  <1> DEFINE nth[k \in 0 .. NPages + 1] == IF k = 0 THEN LIST ELSE l.next[nth[k - 1]]
             ends == {k \in 0 .. NPages : nth[k + 1] = LIST}
             n == Min(ends \cup {NPages})
             w == [k \in 1 .. n |-> nth[k]]
  <1>1. /\ LIST \in Nat /\ LIST \in Nodes /\ LIST = NPages /\ NPages \in Nat
        /\ \A y \in L : y \in Nat /\ y < LIST /\ y \in Nodes
    BY Numbers DEF Pages, LIST, Nodes
  <1>2. nth = [k \in 0 .. NPages + 1 |-> IF k = 0 THEN LIST ELSE l.next[nth[k - 1]]]
    <2>1. l.next \in [Nodes -> Nodes]
      BY DEF Links
    <2>2. \E f : f = [k \in 0 .. NPages + 1 |-> IF k = 0 THEN LIST ELSE l.next[f[k - 1]]]
      BY <1>1, <2>1, Recurrence
    <2> QED  BY <2>2
  <1>3. Walk(l) = w
    BY DEF Walk
  <1> HIDE DEF nth
  <1>4. nth[0] = LIST /\ \A k \in 0 .. NPages : nth[k + 1] = l.next[nth[k]]
    <2>1. nth[0] = LIST
      BY <1>1, <1>2
    <2> SUFFICES ASSUME NEW k \in 0 .. NPages  PROVE nth[k + 1] = l.next[nth[k]]
      BY <2>1
    <2>2. k + 1 \in 0 .. NPages + 1 /\ k + 1 # 0 /\ (k + 1) - 1 = k
      BY <1>1
    <2> QED  BY <1>2, <2>2
  <1> HIDE DEF ends, n, w
  <1>5. n \in 0 .. NPages /\ (n < NPages => nth[n + 1] = LIST)
        /\ \A k \in 1 .. n : nth[k] # LIST
    <2> DEFINE T == ends \cup {NPages}
    <2>1. T \subseteq 0 .. NPages /\ T # {} /\ T \subseteq Nat
      BY <1>1 DEF ends
    <2>2. n \in T /\ \A i \in T : n <= i
      BY <2>1, MinOfSet DEF n
    <2>3. n < NPages => n \in ends
      BY <1>1, <2>2
    <2>4. ASSUME NEW k \in 1 .. n  PROVE nth[k] # LIST
      <3>1. k - 1 \in 0 .. NPages /\ (k - 1) + 1 = k /\ k - 1 < n
        BY <1>1, <2>1, <2>2
      <3>2. k - 1 \notin ends
        BY <2>1, <2>2, <3>1
      <3> QED  BY <3>1, <3>2 DEF ends
    <2> QED  BY <1>1, <2>1, <2>2, <2>3, <2>4 DEF ends
  <1>6. \A k \in Nat : k <= n => nth[k] \in L \cup {LIST} /\ Key(nth[k]) >= k - 1
                                 /\ \A y \in L : y <= Key(nth[k]) => \E j \in 1 .. k : nth[j] = y
    <2> DEFINE P(k) == k <= n => nth[k] \in L \cup {LIST} /\ Key(nth[k]) >= k - 1
                                 /\ \A y \in L : y <= Key(nth[k]) => \E j \in 1 .. k : nth[j] = y
               S == {k \in Nat : P(k)}
    <2>1. P(0)
      BY <1>1, <1>4 DEF Key
    <2>2. ASSUME NEW k \in Nat, P(k)  PROVE P(k + 1)
      <3> SUFFICES ASSUME k + 1 <= n  PROVE P(k + 1)
        OBVIOUS
      <3>1. k \in 0 .. NPages /\ k <= n /\ k + 1 \in 1 .. n
        BY <1>1, <1>5
      <3>2. After(L, nth[k], nth[k + 1]) /\ nth[k + 1] # LIST
        BY <1>4, <1>5, <2>2, <3>1 DEF Links
      <3>3. nth[k + 1] \in L /\ Key(nth[k + 1]) = nth[k + 1] /\ Key(nth[k]) < nth[k + 1]
        BY <3>2 DEF After, Key
      <3>4. Key(nth[k]) \in Int /\ nth[k + 1] \in Nat
        BY <1>1, <2>2, <3>1, <3>3 DEF Key
      <3>5. ASSUME NEW y \in L, y <= nth[k + 1]  PROVE \E j \in 1 .. k + 1 : nth[j] = y
        <4>1. CASE y = nth[k + 1]
          BY <4>1
        <4>2. CASE y # nth[k + 1]
          <5>1. y <= Key(nth[k])
            BY <1>1, <3>2, <3>4, <3>5, <4>2 DEF After
          <5>2. PICK j \in 1 .. k : nth[j] = y
            BY <2>2, <3>1, <5>1
          <5>3. j \in 1 .. k + 1
            OBVIOUS
          <5> QED  BY <5>2, <5>3
        <4> QED  BY <4>1, <4>2
      <3> QED  BY <2>2, <3>1, <3>3, <3>4, <3>5
    <2> HIDE DEF P
    <2>3. 0 \in S /\ \A k \in Nat : k \in S => k + 1 \in S
      BY <2>1, <2>2
    <2> HIDE DEF S
    <2>4. Nat \subseteq S
      BY <2>3, SetInduction
    <2> QED  BY <2>4 DEF S, P
  <1>7. \A k \in 0 .. n : k \in Nat /\ k <= n /\ After(L, nth[k], nth[k + 1]) /\ nth[k + 1] = l.next[nth[k]]
    BY <1>1, <1>4, <1>5, <1>6 DEF Links
  <1>8. nth[n + 1] = LIST
    <2>1. CASE n = NPages
      <3>1. n \in Nat /\ n <= n /\ Key(nth[n]) >= n - 1 /\ nth[n] # LIST /\ nth[n] \in L \cup {LIST}
        BY <1>1, <1>5, <1>6, <2>1, PagesAssumption
      <3>2. nth[n] > n - 2
        BY <1>1, <3>1 DEF Key
      <3>3. nth[n + 1] > nth[n] /\ nth[n + 1] \in L \cup {LIST}
        BY <1>1, <1>5, <1>7, <3>1 DEF After, Key
      <3> QED  BY <1>1, <2>1, <3>1, <3>2, <3>3
    <2> QED  BY <1>1, <1>5, <2>1
  <1>9. \A k \in 1 .. n : nth[k] \in L /\ nth[k] \in Nat
    BY <1>1, <1>5, <1>6
  <1>10. \A x \in L : \E k \in 1 .. n : nth[k] = x
    <2> SUFFICES ASSUME NEW x \in L  PROVE x <= Key(nth[n])
      BY <1>5, <1>6
    <2>1. After(L, nth[n], LIST) /\ nth[n] \in L \cup {LIST}
      BY <1>5, <1>6, <1>7, <1>8
    <2> QED  BY <1>1, <2>1 DEF After, Key
  <1>11. \A j, k \in 1 .. n : j < k => nth[j] < nth[k]
    <2> DEFINE Q(k) == \A j \in 1 .. n : j < k /\ k <= n => nth[j] < nth[k]
               S == {k \in Nat : Q(k)}
    <2>1. 0 \in S
      OBVIOUS
    <2>2. ASSUME NEW k \in Nat, Q(k)  PROVE Q(k + 1)
      <3> SUFFICES ASSUME NEW j \in 1 .. n, j < k + 1, k + 1 <= n  PROVE nth[j] < nth[k + 1]
        OBVIOUS
      <3>1. k \in 1 .. n /\ k + 1 \in 1 .. n /\ k \in 0 .. n
        BY <1>5
      <3>2. nth[k] < nth[k + 1]
        BY <1>5, <1>7, <3>1 DEF After, Key
      <3>3. CASE j < k
        <4>1. nth[j] < nth[k]
          BY <1>5, <2>2, <3>1, <3>3
        <4> QED  BY <1>9, <3>1, <3>2, <4>1
      <3>4. CASE j = k
        BY <3>2, <3>4
      <3> QED  BY <1>5, <3>1, <3>3, <3>4
    <2> HIDE DEF Q
    <2>3. \A k \in Nat : k \in S => k + 1 \in S
      BY <2>2
    <2> HIDE DEF S
    <2>4. Nat \subseteq S
      BY <2>1, <2>3, SetInduction
    <2> QED  BY <1>5, <2>4 DEF S, Q
  <1>12. Lists(w, l, L, n)
    <2>1. n \in Nat /\ w \in [1 .. n -> L] /\ \A k \in 1 .. n : w[k] = nth[k]
      BY <1>5, <1>9 DEF w
    <2>2. n > 0 => l.next[w[n]] = LIST /\ l.next[LIST] = w[1]
      BY <1>4, <1>5, <1>7, <1>8, <2>1
    <2>3. \A k \in 1 .. n - 1 : l.next[w[k]] = w[k + 1]
      <3> SUFFICES ASSUME NEW k \in 1 .. n - 1  PROVE l.next[w[k]] = w[k + 1]
        OBVIOUS
      <3>1. k \in 1 .. n /\ k + 1 \in 1 .. n /\ k \in 0 .. n
        BY <2>1
      <3> QED  BY <1>7, <2>1, <3>1
    <2> QED  BY <1>10, <1>11, <2>1, <2>2, <2>3 DEF Lists
  <1> QED  BY <1>3, <1>5, <1>12

\* All nodes of the list are come to, and no others.
LEMMA LinkedNodes ==
    ASSUME NEW L \in SUBSET Pages, NEW l, Links(l, L)
    PROVE  Linked(l) = L \cup {LIST}
  <1> DEFINE Near(near) == near \cup {l.next[x] : x \in near} \cup {l.prev[x] : x \in near}
             within[k \in 0 .. NPages] ==
                 IF k = 0 THEN {LIST}
                 ELSE LET near == within[k - 1]
                      IN  near \cup {l.next[x] : x \in near} \cup {l.prev[x] : x \in near}
  <1>1. /\ LIST \in Nat /\ LIST \in Nodes /\ LIST = NPages /\ NPages \in Nat
        /\ \A y \in L : y \in Nat /\ y < NPages /\ y \in Nodes
    BY Numbers DEF Pages, LIST, Nodes
  <1>2. within = [k \in 0 .. NPages |-> IF k = 0 THEN {LIST} ELSE Near(within[k - 1])]
    <2> DEFINE F == [near \in SUBSET Nodes |-> Near(near)]
    <2>1. F \in [SUBSET Nodes -> SUBSET Nodes] /\ {LIST} \in SUBSET Nodes
      <3>1. \A x \in Nodes : l.next[x] \in Nodes /\ l.prev[x] \in Nodes
        BY DEF Links
      <3>2. \A near \in SUBSET Nodes : Near(near) \in SUBSET Nodes
        BY <3>1
      <3> QED  BY <1>1, <3>2
    <2> HIDE DEF F
    <2>2. PICK f : f = [k \in 0 .. NPages |-> IF k = 0 THEN {LIST} ELSE F[f[k - 1]]]
      <3> DEFINE X == SUBSET Nodes
                 first == {LIST}
      <3>1. first \in X /\ F \in [X -> X]
        BY <2>1
      <3> HIDE DEF X, first
      <3>2. \E f : f = [k \in 0 .. NPages |-> IF k = 0 THEN first ELSE F[f[k - 1]]]
        BY <1>1, <3>1, Recurrence
      <3> QED  BY <3>2 DEF first
    <2>3. \A k \in Nat : k <= NPages => f[k] \in SUBSET Nodes
      <3> DEFINE S == {k \in Nat : k <= NPages => f[k] \in SUBSET Nodes}
      <3>1. 0 \in S
        BY <1>1, <2>1, <2>2
      <3>2. ASSUME NEW k \in Nat, k \in S  PROVE k + 1 \in S
        <4> SUFFICES ASSUME k + 1 <= NPages  PROVE f[k + 1] \in SUBSET Nodes
          OBVIOUS
        <4>1. k + 1 \in 0 .. NPages /\ k + 1 # 0 /\ (k + 1) - 1 = k /\ f[k] \in SUBSET Nodes
          BY <1>1, <3>2
        <4>2. f[k + 1] = F[f[k]]
          BY <2>2, <4>1
        <4> QED  BY <2>1, <4>1, <4>2
      <3> HIDE DEF S
      <3>3. Nat \subseteq S
        BY <3>1, <3>2, SetInduction
      <3> QED  BY <3>3 DEF S
    <2>4. f = [k \in 0 .. NPages |-> IF k = 0 THEN {LIST} ELSE Near(f[k - 1])]
      <3> SUFFICES ASSUME NEW k \in 0 .. NPages, k # 0  PROVE F[f[k - 1]] = Near(f[k - 1])
        BY <2>2, Zenon
      <3>1. k - 1 \in Nat /\ k - 1 <= NPages
        BY <1>1
      <3> QED  BY <2>3, <3>1 DEF F
    <2> QED  BY <2>4
  <1>3. Linked(l) = within[NPages]
    BY DEF Linked
  <1> HIDE DEF within
  <1>4. \A k \in Nat : k <= NPages => /\ LIST \in within[k] /\ within[k] \subseteq L \cup {LIST}
                                      /\ \A y \in L : y < k => y \in within[k]
    <2> DEFINE P(k) == k <= NPages => /\ LIST \in within[k] /\ within[k] \subseteq L \cup {LIST}
                                      /\ \A y \in L : y < k => y \in within[k]
               S == {k \in Nat : P(k)}
    <2>1. P(0)
      BY <1>1, <1>2
    <2>2. ASSUME NEW k \in Nat, P(k)  PROVE P(k + 1)
      <3> SUFFICES ASSUME k + 1 <= NPages  PROVE P(k + 1)
        OBVIOUS
      <3>1. k + 1 \in 0 .. NPages /\ k + 1 # 0 /\ (k + 1) - 1 = k /\ k <= NPages
        BY <1>1
      <3>2. within[k + 1] = Near(within[k])
        BY <1>2, <3>1
      <3>3. LIST \in within[k] /\ within[k] \subseteq L \cup {LIST} /\ \A y \in L : y < k => y \in within[k]
        BY <2>2, <3>1
      <3>4. \A x \in L \cup {LIST} : l.next[x] \in L \cup {LIST} /\ l.prev[x] \in L \cup {LIST}
        BY BackAndForth
      <3>5. within[k + 1] \subseteq L \cup {LIST} /\ LIST \in within[k + 1]
        BY <3>2, <3>3, <3>4
      <3>6. ASSUME NEW y \in L, y < k + 1  PROVE y \in within[k + 1]
        <4>1. CASE y < k
          BY <3>2, <3>3, <4>1
        <4>2. CASE y >= k
          <5>1. y = k
            BY <1>1, <3>6, <4>2
          <5>2. l.prev[y] \in L \cup {LIST} /\ l.next[l.prev[y]] = y
            BY BackAndForth
          <5>3. l.prev[y] = LIST \/ l.prev[y] < k
            BY <5>1, <1>1 DEF Links, Before, Key
          <5>4. l.prev[y] \in within[k]
            BY <3>3, <5>2, <5>3
          <5> QED  BY <3>2, <5>2, <5>4
        <4> QED  BY <1>1, <4>1, <4>2
      <3> QED  BY <3>5, <3>6
    <2> HIDE DEF P
    <2>3. 0 \in S /\ \A k \in Nat : k \in S => k + 1 \in S
      BY <2>1, <2>2
    <2> HIDE DEF S
    <2>4. Nat \subseteq S
      BY <2>3, SetInduction
    <2> QED  BY <2>4 DEF S, P
  <1> QED  BY <1>1, <1>3, <1>4

-----------------------------------------------------------------------------
(* The free blocks: list is [link, prop, flags], as Rest and Join have it, *)
(* free the pages that nobody holds.                                       *)

Blocks(list, free) ==
    /\ list.flags \in SUBSET Pages /\ Links(list.link, list.flags)
    /\ list.prop \in [Pages -> 0 .. NPages]
    /\ \A x \in list.flags : 1 <= list.prop[x] /\ x + list.prop[x] <= NPages
    /\ \A x, y \in list.flags : x < y => x + list.prop[x] <= y
    /\ \A p \in Pages : p \in free <=> \E x \in list.flags : x <= p /\ p < x + list.prop[x]

\* Blocks that adjoin have been joined.
Apart(list) == \A x, y \in list.flags : x + list.prop[x] # y

LEMMA Forgotten ==
    ASSUME NEW list, NEW free, Blocks(list, free)
    PROVE  Blocks(Forget(list), free) /\ (Apart(list) => Apart(Forget(list)))
           /\ Forget(list).flags = list.flags
  <1> DEFINE n == Forget(list)
             L == list.flags
  <1>1. L \in SUBSET Pages /\ Links(list.link, L) /\ list.prop \in [Pages -> 0 .. NPages]
    BY DEF Blocks
  <1>2. Linked(list.link) = L \cup {LIST}
    BY <1>1, LinkedNodes
  <1>3. LIST \in Nodes /\ LIST \notin Pages /\ L \subseteq Nodes /\ 0 \in 0 .. NPages
    <2>1. 0 \in 0 .. NPages
      BY Numbers
    <2> QED  BY <1>1, <2>1, Numbers
  <1>4. n.flags = L /\ n.prop \in [Pages -> 0 .. NPages] /\ \A x \in L : n.prop[x] = list.prop[x]
    BY <1>1, <1>2, <1>3 DEF Forget
  <1>5. /\ n.link \in [next : [Nodes -> Nodes], prev : [Nodes -> Nodes]]
        /\ \A x \in L \cup {LIST} : n.link.next[x] = list.link.next[x] /\ n.link.prev[x] = list.link.prev[x]
    <2>1. list.link.next \in [Nodes -> Nodes] /\ list.link.prev \in [Nodes -> Nodes]
      BY <1>1 DEF Links
    <2> QED  BY <1>2, <1>3, <2>1 DEF Forget
  <1>6. Links(n.link, L)
    BY <1>1, <1>5, SameLinks
  <1> HIDE DEF n
  <1>7. Blocks(n, free)
    BY <1>4, <1>6 DEF Blocks
  <1>8. Apart(list) => Apart(n)
    BY <1>4 DEF Apart
  <1> QED  BY <1>4, <1>7, <1>8 DEF n

\* The first n pages of a block are taken off.
LEMMA FrontTaken ==
    ASSUME NEW page \in pg_property, NEW n \in Nat \ {0}, NEW free,
           Blocks([link |-> link, prop |-> property, flags |-> pg_property], free),
           Apart([link |-> link, prop |-> property, flags |-> pg_property]),
           property[page] >= n
    PROVE  /\ Blocks(Rest(page, n), free \ Run(page, n)) /\ Apart(Rest(page, n))
           /\ Run(page, n) \subseteq Pages \cap free
  <1> DEFINE L == pg_property
             M == L \ {page}
             l == list_del(link, page)
             e == page + n
             prev == link.prev[page]
  <1>1. /\ L \in SUBSET Pages /\ Links(link, L) /\ property \in [Pages -> 0 .. NPages]
        /\ \A x \in L : 1 <= property[x] /\ x + property[x] <= NPages
        /\ \A x, y \in L : x < y => x + property[x] < y
        /\ \A p \in Pages : p \in free <=> \E x \in L : x <= p /\ p < x + property[x]
    <2> DEFINE list == [link |-> link, prop |-> property, flags |-> pg_property]
    <2>1. list.link = link /\ list.prop = property /\ list.flags = pg_property
      OBVIOUS
    <2>2. Blocks(list, free) /\ Apart(list)
      OBVIOUS
    <2> HIDE DEF list
    <2>3. L \subseteq Nat /\ \A x \in L : property[x] \in Nat
      <3>1. L \subseteq Pages /\ property \in [Pages -> 0 .. NPages] /\ Pages \subseteq Nat
        BY <2>1, <2>2, Numbers DEF Blocks
      <3> QED  BY <3>1
    <2>4. \A x, y \in L : x < y => x + property[x] < y
      BY <2>1, <2>2, <2>3 DEF Blocks, Apart
    <2> QED  BY <2>1, <2>2, <2>4 DEF Blocks
  <1>2. /\ LIST = NPages /\ NPages \in Nat /\ \A p \in Pages : p \in Nat /\ p < NPages
        /\ page \in Pages /\ page \in Nat /\ \A x \in L : property[x] \in Nat /\ x \in Nat
        /\ \A p \in Nat : p < NPages => p \in Pages
    BY <1>1, Numbers DEF LIST, Pages
  <1>3. Run(page, n) \subseteq Pages \cap free
    BY <1>1, <1>2 DEF Run
  <1>4. Links(l, M)
    BY <1>1, Deleted
  <1>5. CASE property[page] > n
    <2> DEFINE next == l.next[prev]
               k == ListAddBetween(l, e, prev, next)
               prop == [property EXCEPT ![e] = property[page] - n]
               flags == (L \cup {e}) \ {page}
               r == [link |-> k, prop |-> prop, flags |-> flags]
    <2>1. Rest(page, n) = r
      BY <1>5 DEF Rest, list_add
    <2>2. e \in Pages /\ e \notin L /\ page < e /\ e < NPages /\ e \in Nat
      BY <1>1, <1>2, <1>5
    <2>3. prev \in M \cup {LIST} /\ prev \in Nat /\ Key(prev) \in Int /\ Before(L, page, prev)
      <3>1. Before(L, page, prev)
        BY <1>1 DEF Links
      <3> HIDE DEF prev
      <3>2. prev \in L \cup {LIST} /\ Key(prev) < page
        BY <3>1 DEF Before
      <3>3. prev # page
        BY <1>1, <1>2, <3>2 DEF Key
      <3>4. prev \in Nat /\ Key(prev) \in Int
        BY <1>1, <1>2, <3>2 DEF Key
      <3> QED  BY <3>1, <3>2, <3>3, <3>4
    <2> HIDE DEF prev
    <2>4. Before(M, e, prev)
      BY <1>1, <1>2, <1>5, <2>2, <2>3 DEF Before, Key
    <2>5. After(M, e, next)
      <3>1. After(M, prev, next)
        BY <1>4, <2>3 DEF Links
      <3> HIDE DEF next, l
      <3>2. next \in M \cup {LIST} /\ next # page /\ next \in Nat
        BY <1>1, <1>2, <3>1 DEF After
      <3>3. next # LIST => ~(next < page)
        <4>1. next # LIST /\ next < page => next <= Key(prev)
          BY <1>1, <2>3, <3>2 DEF Before
        <4>2. Key(prev) < next
          BY <3>1 DEF After
        <4> QED  BY <2>3, <3>2, <4>1, <4>2
      <3>4. e < next
        BY <1>1, <1>2, <1>5, <2>2, <3>2, <3>3
      <3>5. \A y \in M : e < y => next <= y
        <4>1. Key(prev) < page
          BY <2>3 DEF Before
        <4>2. \A y \in M : e < y => Key(prev) < y
          BY <1>1, <1>2, <2>2, <2>3, <4>1
        <4> QED  BY <3>1, <4>2 DEF After
      <3> QED  BY <1>2, <2>2, <3>2, <3>4, <3>5 DEF After, Key
    <2>6. Links(k, M \cup {e}) /\ flags = M \cup {e}
      BY <1>1, <1>2, <1>4, <2>2, <2>4, <2>5, AddedBetween
    <2> HIDE DEF k, next, l
    <2>7. /\ prop \in [Pages -> 0 .. NPages] /\ prop[e] = property[page] - n /\ prop[e] \in Nat /\ prop[e] >= 1
          /\ \A x \in M : prop[x] = property[x] /\ x # e
      BY <1>1, <1>2, <1>5, <2>2
    <2>14. \A x \in M : x \in Nat /\ property[x] \in Nat
      BY <1>2
    <2> HIDE DEF prop, flags
    <2>8. \A x \in flags : 1 <= prop[x] /\ x + prop[x] <= NPages
      <3>1. e + prop[e] = page + property[page] /\ page \in L
        BY <1>2, <2>7
      <3>2. 1 <= prop[e] /\ e + prop[e] <= NPages
        BY <1>1, <2>7, <3>1
      <3> QED  BY <1>1, <2>6, <2>7, <3>2
    <2>9. \A x, y \in flags : x < y => x + prop[x] < y
      <3>1. e + prop[e] = page + property[page] /\ page \in L
        BY <1>2, <2>7
      <3>2. ASSUME NEW y \in M, e < y  PROVE e + prop[e] < y
        <4>1. page < y
          BY <1>2, <2>2, <2>14, <3>2
        <4> QED  BY <1>1, <3>1, <4>1
      <3>3. ASSUME NEW x \in M, x < e  PROVE x + prop[x] < e
        <4>1. x # page /\ (x < page \/ page < x)
          BY <1>2, <2>14
        <4>2. ~(page < x)
          <5>1. page < x => page + property[page] < x
            BY <1>1
          <5> QED  BY <1>2, <1>5, <2>2, <2>14, <3>3, <5>1
        <4>3. x + property[x] < page
          BY <1>1, <4>1, <4>2
        <4> QED  BY <1>2, <2>2, <2>7, <2>14, <4>3
      <3>4. \A x, y \in M : x < y => x + prop[x] < y
        BY <1>1, <2>7
      <3> QED  BY <2>2, <2>6, <3>2, <3>3, <3>4
    <2>10. ASSUME NEW p \in Pages
           PROVE  p \in free \ Run(page, n) <=> \E x \in flags : x <= p /\ p < x + prop[x]
      <3>1. p \in Nat
        BY <1>2
      <3>2. ASSUME p \in free, p \notin Run(page, n)  PROVE \E x \in flags : x <= p /\ p < x + prop[x]
        <4>1. PICK x \in L : x <= p /\ p < x + property[x]
          BY <1>1, <3>2
        <4>2. CASE x = page
          BY <1>2, <2>2, <2>6, <2>7, <3>1, <3>2, <4>1, <4>2 DEF Run
        <4>3. CASE x # page
          BY <2>6, <2>7, <4>1, <4>3
        <4> QED  BY <4>2, <4>3
      <3>3. ASSUME NEW x \in flags, x <= p, p < x + prop[x]  PROVE p \in free /\ p \notin Run(page, n)
        <4>1. CASE x = e
          BY <1>1, <1>2, <2>2, <2>7, <3>1, <3>3, <4>1 DEF Run
        <4>2. CASE x # e
          <5>1. x \in M /\ x \in L /\ x # page /\ prop[x] = property[x]
            BY <2>6, <2>7, <4>2
          <5>2. p \in free
            BY <1>1, <3>3, <5>1
          <5>3. p \notin Run(page, n)
            BY <1>1, <1>2, <3>1, <3>3, <5>1 DEF Run
          <5> QED  BY <5>2, <5>3
        <4> QED  BY <4>1, <4>2
      <3> QED  BY <3>2, <3>3
    <2>11. flags \subseteq Pages
      BY <1>1, <2>2, <2>6
    <2>12. \A x, y \in flags : x \in Nat /\ y \in Nat /\ prop[x] \in Nat
      BY <1>2, <2>7, <2>11
    <2>13. Blocks(r, free \ Run(page, n)) /\ Apart(r)
      <3>1. r.link = k /\ r.prop = prop /\ r.flags = flags
        OBVIOUS
      <3>2. \A x, y \in flags : x + prop[x] # y /\ (x < y => x + prop[x] <= y)
        BY <2>8, <2>9, <2>12
      <3> HIDE DEF r
      <3> QED  BY <2>6, <2>7, <2>8, <2>10, <2>11, <3>1, <3>2 DEF Blocks, Apart
    <2> QED  BY <1>3, <2>1, <2>13
  <1>6. CASE ~(property[page] > n)
    <2> DEFINE r == [link |-> l, prop |-> property, flags |-> M]
    <2>1. Rest(page, n) = r
      BY <1>6 DEF Rest
    <2>2. property[page] = n
      BY <1>2, <1>6
    <2> HIDE DEF l
    <2>3. ASSUME NEW p \in Pages
          PROVE  p \in free \ Run(page, n) <=> \E x \in M : x <= p /\ p < x + property[x]
      <3>1. p \in Nat /\ page \in Nat
        BY <1>2
      <3>2. p \in Run(page, n) <=> page <= p /\ p < page + property[page]
        BY <2>2, <3>1 DEF Run
      <3>3. \A x \in M : x <= p /\ p < x + property[x] => ~(page <= p /\ p < page + property[page])
        BY <1>1, <1>2, <3>1
      <3> QED  BY <1>1, <3>2, <3>3
    <2>4. Blocks(r, free \ Run(page, n)) /\ Apart(r)
      <3>1. r.link = l /\ r.prop = property /\ r.flags = M
        OBVIOUS
      <3>2. \A x, y \in L : x + property[x] # y /\ (x < y => x + property[x] <= y)
        BY <1>1, <1>2
      <3> HIDE DEF r
      <3> QED  BY <1>1, <1>4, <2>3, <3>1, <3>2 DEF Blocks, Apart
    <2> QED  BY <1>3, <2>1, <2>4
  <1> QED  BY <1>5, <1>6

\* The insertion finds the place of base if there is a block behind it.
LEMMA Inserted ==
    ASSUME NEW L \in SUBSET Pages, NEW l, Links(l, L), NEW base \in Pages \ L,
           \E y \in L : base < y
    PROVE  Links(Insert(l, base), L \cup {base})
  <1> DEFINE walk == Walk(l)
             above == {k \in DOMAIN walk : base < walk[k]}
             a == walk[Min(above)]
  <1>1. PICK n \in Nat : Lists(walk, l, L, n)
    BY Walked
  <1>2. base \in Nat /\ LIST \notin Pages /\ \A x \in L : x \in Nat /\ x # LIST
    BY Numbers
  <1>3. above # {} /\ above \subseteq 1 .. n /\ DOMAIN walk = 1 .. n
    BY <1>1 DEF Lists
  <1>4. walk # <<>>
    BY <1>1, <1>3
  <1>5. Insert(l, base) = ListAddBetween(l, base, l.prev[a], a)
    BY <1>3, <1>4 DEF Insert, list_add_before
  <1>6. Min(above) \in above /\ \A k \in above : Min(above) <= k
    <2> HIDE DEF above
    <2>1. above \subseteq Nat
      BY <1>1, <1>3
    <2> QED  BY <1>3, <2>1, MinOfSet
  <1> DEFINE m == Min(above)
  <1> HIDE DEF m
  <1>7. m \in 1 .. n /\ base < walk[m] /\ \A k \in 1 .. n : base < walk[k] => m <= k
    BY <1>3, <1>6 DEF m
  <1>8. a = walk[m] /\ a \in L /\ base < a
    BY <1>1, <1>7 DEF Lists, m
  <1>9. After(L, base, a)
    <2>1. ASSUME NEW y \in L, base < y  PROVE a <= y
      <3>1. PICK k \in 1 .. n : walk[k] = y
        BY <1>1 DEF Lists
      <3>2. m <= k
        BY <1>7, <2>1, <3>1
      <3>3. m < k => walk[m] < walk[k]
        BY <1>1, <1>7 DEF Lists
      <3> HIDE DEF a
      <3>4. m = k \/ m < k
        BY <1>1, <1>7, <3>1, <3>2
      <3> QED  BY <1>2, <1>8, <3>1, <3>3, <3>4
    <2>2. base # LIST
      BY <1>2
    <2> QED  BY <1>8, <2>1, <2>2 DEF After, Key
  <1> HIDE DEF a
  <1>10. Before(L, base, l.prev[a])
    <2> DEFINE p == l.prev[a]
    <2>1. p \in L \cup {LIST} /\ Key(p) < a /\ \A y \in L : y < a => y <= Key(p)
      BY <1>8 DEF Links, Before
    <2> HIDE DEF p
    <2>2. Key(p) < base
      <3>1. CASE p = LIST
        BY <1>2, <3>1 DEF Key
      <3>2. CASE p # LIST
        <4>1. p \in L /\ Key(p) = p /\ p < a
          BY <2>1, <3>2 DEF Key
        <4>2. ~(base < p)
          BY <1>2, <1>8, <1>9, <4>1 DEF After, Key
        <4> QED  BY <1>2, <4>1, <4>2
      <3> QED  BY <3>1, <3>2
    <2>3. \A y \in L : y < base => y <= Key(p)
      <3> SUFFICES ASSUME NEW y \in L, y < base  PROVE y <= Key(p)
        OBVIOUS
      <3>1. y \in Nat /\ a \in Nat
        BY <1>2, <1>8
      <3>2. y < a
        BY <1>2, <1>8, <3>1
      <3> QED  BY <2>1, <3>2
    <2> QED  BY <2>1, <2>2, <2>3 DEF Before, p
  <1> QED  BY <1>5, <1>9, <1>10, AddedBetween

\* Two blocks that adjoin become one.
LEMMA Joined ==
    ASSUME NEW list, NEW free, Blocks(list, free), NEW low \in list.flags, NEW high \in list.flags,
           low + list.prop[low] = high
    PROVE  LET n == Join(list, low, high)
           IN  /\ Blocks(n, free) /\ n.flags = list.flags \ {high} /\ low # high
               /\ n.prop[low] = list.prop[low] + list.prop[high]
               /\ \A x \in list.flags \ {low} : n.prop[x] = list.prop[x]
  <1> DEFINE n == Join(list, low, high)
             L == list.flags
             M == L \ {high}
             prop == list.prop
  <1>1. /\ L \in SUBSET Pages /\ Links(list.link, L) /\ prop \in [Pages -> 0 .. NPages]
        /\ \A x \in L : 1 <= prop[x] /\ x + prop[x] <= NPages
        /\ \A x, y \in L : x < y => x + prop[x] <= y
        /\ \A p \in Pages : p \in free <=> \E x \in L : x <= p /\ p < x + prop[x]
    BY DEF Blocks
  <1>2. /\ NPages \in Nat /\ \A p \in Pages : p \in Nat /\ p < NPages
        /\ \A x \in L : prop[x] \in Nat /\ x \in Nat /\ x \in Pages
    BY <1>1, Numbers DEF Pages
  <1>3. n.link = list_del(list.link, high) /\ n.flags = M
        /\ n.prop = [prop EXCEPT ![low] = prop[low] + prop[high]]
    BY DEF Join
  <1>4. Links(n.link, M)
    BY <1>1, <1>3, Deleted
  <1> HIDE DEF n, prop
  <1>5. low < high /\ low \in M /\ low # high /\ high + prop[high] <= NPages
    <2>1. low \in Nat /\ high \in Nat /\ prop[low] \in Nat /\ prop[low] >= 1 /\ low + prop[low] = high
      BY <1>1, <1>2 DEF prop
    <2>2. low < high
      BY <2>1
    <2> QED  BY <1>1, <2>1, <2>2
  <1>6. /\ n.prop[low] = prop[low] + prop[high] /\ prop[low] + prop[high] \in 0 .. NPages
        /\ n.prop[low] \in Nat /\ n.prop[low] >= 1
        /\ low + n.prop[low] = high + prop[high]
        /\ \A x \in L \ {low} : n.prop[x] = prop[x]
    <2>1. prop[low] + prop[high] \in 0 .. NPages
      BY <1>1, <1>2, <1>5
    <2>2. n.prop[low] = prop[low] + prop[high] /\ \A x \in L \ {low} : n.prop[x] = prop[x]
      BY <1>1, <1>2, <1>3
    <2>3. low + prop[low] = high /\ low \in Nat /\ high \in Nat /\ prop[low] \in Nat
          /\ prop[high] \in Nat /\ prop[low] >= 1
      BY <1>1, <1>2 DEF prop
    <2> QED  BY <1>2, <2>1, <2>2, <2>3
  <1>7. n.prop \in [Pages -> 0 .. NPages]
    BY <1>1, <1>3, <1>6
  <1>8. \A x \in M : 1 <= n.prop[x] /\ x + n.prop[x] <= NPages
    BY <1>1, <1>5, <1>6
  <1>9. ASSUME NEW x \in M, NEW y \in M, x < y  PROVE x + n.prop[x] <= y
    <2>1. CASE x = low
      <3>1. y # high /\ ~(y < high)
        <4>1. low + prop[low] <= y /\ low + prop[low] = high
          BY <1>1, <1>9, <2>1 DEF prop
        <4> QED  BY <1>2, <4>1
      <3>2. high < y
        BY <1>2, <3>1
      <3> QED  BY <1>1, <1>6, <2>1, <3>2
    <2>2. CASE x # low
      BY <1>1, <1>6, <1>9, <2>2
    <2> QED  BY <2>1, <2>2
  <1>10. ASSUME NEW p \in Pages
         PROVE  p \in free <=> \E x \in M : x <= p /\ p < x + n.prop[x]
    <2>1. p \in Nat
      BY <1>2
    <2>2. ASSUME NEW x \in L, x <= p, p < x + prop[x]  PROVE \E y \in M : y <= p /\ p < y + n.prop[y]
      <3>1. CASE x = low \/ x = high
        <4>1. low <= p /\ p < low + n.prop[low]
          BY <1>1, <1>2, <1>5, <1>6, <2>1, <2>2, <3>1
        <4> QED  BY <1>5, <4>1
      <3>2. CASE x # low /\ x # high
        BY <1>6, <2>2, <3>2
      <3> QED  BY <3>1, <3>2
    <2>3. ASSUME NEW x \in M, x <= p, p < x + n.prop[x]  PROVE \E y \in L : y <= p /\ p < y + prop[y]
      <3>1. CASE x = low
        <4>1. p < high \/ (high <= p /\ p < high + prop[high])
          BY <1>2, <1>6, <2>1, <2>3, <3>1
        <4> QED  BY <2>3, <3>1, <4>1 DEF prop
      <3>2. CASE x # low
        BY <1>6, <2>3, <3>2
      <3> QED  BY <3>1, <3>2
    <2> QED  BY <1>1, <2>2, <2>3
  <1>11. M \in SUBSET Pages
    BY <1>1
  <1>12. Blocks(n, free)
    BY <1>3, <1>4, <1>7, <1>8, <1>9, <1>10, <1>11 DEF Blocks
  <1> QED  BY <1>3, <1>5, <1>6, <1>12 DEF n, prop

\* Pages are given back: the block goes to its place and is joined with its neighbours.
LEMMA GivenBack ==
    ASSUME NEW base \in Pages, NEW n \in Nat \ {0}, NEW free,
           Run(base, n) \subseteq Pages \ free,
           Blocks([link |-> link, prop |-> property, flags |-> pg_property], free),
           Apart([link |-> link, prop |-> property, flags |-> pg_property]),
           \E y \in pg_property : base < y
    PROVE  LET inserted == [link |-> Insert(link, base),
                            prop |-> [property EXCEPT ![base] = n],
                            flags |-> (pg_property \ Run(base, n)) \cup {base}]
               front == JoinFront(inserted, base)
               new == JoinBehind(front.list, front.at)
           IN  /\ Blocks(new, free \cup Run(base, n)) /\ Apart(new)
               /\ FreeAsserts(base, n)
  <1> DEFINE L == pg_property
             M == L \cup {base}
             inserted == [link |-> Insert(link, base),
                          prop |-> [property EXCEPT ![base] = n],
                          flags |-> (L \ Run(base, n)) \cup {base}]
             front == JoinFront(inserted, base)
             new == JoinBehind(front.list, front.at)
             F == free \cup Run(base, n)
  <1>1. /\ L \in SUBSET Pages /\ Links(link, L) /\ property \in [Pages -> 0 .. NPages]
        /\ \A x \in L : 1 <= property[x] /\ x + property[x] <= NPages
        /\ \A x, y \in L : x < y => x + property[x] <= y
        /\ \A x, y \in L : x + property[x] # y
        /\ \A p \in Pages : p \in free <=> \E x \in L : x <= p /\ p < x + property[x]
    <2> DEFINE list == [link |-> link, prop |-> property, flags |-> pg_property]
    <2>1. list.link = link /\ list.prop = property /\ list.flags = pg_property
      OBVIOUS
    <2>2. Blocks(list, free) /\ Apart(list)
      OBVIOUS
    <2> HIDE DEF list
    <2> QED  BY <2>1, <2>2 DEF Blocks, Apart
  <1>2. /\ LIST = NPages /\ NPages \in Nat /\ \A p \in Pages : p \in Nat /\ p < NPages /\ p # LIST
        /\ \A x \in L : property[x] \in Nat /\ x \in Nat /\ x \in Pages
    <2>1. LIST = NPages /\ NPages \in Nat /\ \A p \in Pages : p \in Nat /\ p < NPages /\ p # LIST
      BY Numbers DEF LIST, Pages
    <2> QED  BY <1>1, <2>1
  <1>3. \A p \in Nat : p \in Run(base, n) <=> base <= p /\ p < base + n
    BY <1>2 DEF Run
  <1>4. L \cap Run(base, n) = {}
    <2> SUFFICES ASSUME NEW x \in L, x \in Run(base, n)  PROVE FALSE
      OBVIOUS
    <2>1. x \in free
      BY <1>1, <1>2
    <2> QED  BY <2>1
  <1>5. base \in Run(base, n) /\ base \notin L /\ inserted.flags = M
    BY <1>2, <1>3, <1>4
  <1>6. base + n <= NPages /\ n \in 0 .. NPages
    <2>1. base + n - 1 \in Run(base, n)
      BY <1>2 DEF Run
    <2>2. base + n - 1 \in Pages
      BY <2>1
    <2> QED  BY <1>2, <2>2
  <1>7. FreeAsserts(base, n)
    BY <1>4 DEF FreeAsserts
  <1>8. Links(inserted.link, M)
    BY <1>1, <1>5, Inserted
  <1>9. /\ inserted.prop \in [Pages -> 0 .. NPages] /\ inserted.prop[base] = n
        /\ \A x \in L : inserted.prop[x] = property[x]
    BY <1>1, <1>5, <1>6
  <1> HIDE DEF inserted
  <1>10. ASSUME NEW x \in L
         PROVE  /\ x < base => x + property[x] <= base
                /\ base < x => base + n <= x
    <2>1. ASSUME x < base  PROVE x + property[x] <= base
      <3>1. ~(base < x + property[x])
        <4>1. base < x + property[x] => base \in free
          BY <1>1, <1>2, <2>1
        <4> QED  BY <1>5, <4>1
      <3> QED  BY <1>2, <3>1
    <2>2. ASSUME base < x  PROVE base + n <= x
      <3>1. x \notin Run(base, n)
        BY <1>4
      <3> QED  BY <1>2, <1>3, <2>2, <3>1
    <2> QED  BY <2>1, <2>2
  <1>11. Blocks(inserted, F)
    <2>1. \A x \in M : 1 <= inserted.prop[x] /\ x + inserted.prop[x] <= NPages
      BY <1>1, <1>6, <1>9
    <2>2. \A x, y \in M : x < y => x + inserted.prop[x] <= y
      <3> SUFFICES ASSUME NEW x \in M, NEW y \in M, x < y  PROVE x + inserted.prop[x] <= y
        OBVIOUS
      <3>1. CASE x = base
        BY <1>2, <1>9, <1>10, <3>1
      <3>2. CASE x # base
        BY <1>1, <1>9, <1>10, <3>2
      <3> QED  BY <3>1, <3>2
    <2>3. ASSUME NEW p \in Pages  PROVE p \in F <=> \E x \in M : x <= p /\ p < x + inserted.prop[x]
      <3>1. p \in Run(base, n) <=> base <= p /\ p < base + inserted.prop[base]
        BY <1>2, <1>3, <1>9
      <3>2. p \in free <=> \E x \in L : x <= p /\ p < x + inserted.prop[x]
        BY <1>1, <1>9
      <3> QED  BY <3>1, <3>2
    <2>4. M \in SUBSET Pages
      BY <1>1
    <2> QED  BY <1>5, <1>8, <1>9, <2>1, <2>2, <2>3, <2>4 DEF Blocks
  <1>12. \A x, y \in M : x + inserted.prop[x] = y => x = base \/ y = base
    BY <1>1, <1>9
  <1> DEFINE le == inserted.link.prev[base]
             list == front.list
             at == front.at
  <1>13. /\ Blocks(list, F) /\ at \in list.flags
         /\ \A x, y \in list.flags : x + list.prop[x] = y => x = at
    <2>1. le \in M \cup {LIST} /\ Before(M, base, le)
      BY <1>8 DEF Links, Before
    <2> HIDE DEF le
    <2>2. CASE Adjoin(inserted.prop, le, base)
      <3>1. front = [at |-> le, list |-> Join(inserted, le, base)]
        BY <2>2 DEF JoinFront, le
      <3>2. list = Join(inserted, le, base) /\ at = le
        BY <3>1
      <3> HIDE DEF front
      <3>3. le \in M /\ le + inserted.prop[le] = base
        BY <2>1, <2>2 DEF Adjoin
      <3>4. /\ Blocks(list, F) /\ list.flags = M \ {base} /\ le # base
            /\ list.prop[le] = inserted.prop[le] + inserted.prop[base]
            /\ \A x \in M \ {le} : list.prop[x] = inserted.prop[x]
        BY <1>5, <1>11, <3>2, <3>3, Joined
      <3>5. \A x, y \in list.flags : x + list.prop[x] = y => x = at
        BY <1>12, <3>2, <3>4
      <3> QED  BY <3>2, <3>3, <3>4, <3>5
    <2>3. CASE ~Adjoin(inserted.prop, le, base)
      <3>1. front = [at |-> base, list |-> inserted]
        BY <2>3 DEF JoinFront, le
      <3>2. list = inserted /\ at = base
        BY <3>1
      <3> HIDE DEF front
      <3>3. ASSUME NEW x \in M, x + inserted.prop[x] = base  PROVE FALSE
        <4>1. x # base /\ x < base /\ x \in L
          BY <1>1, <1>2, <1>5, <1>6, <1>9, <3>3
        <4>2. x <= Key(le)
          BY <2>1, <4>1 DEF Before
        <4>3. le # LIST /\ le \in M /\ le < base /\ x <= le
          BY <1>2, <2>1, <4>1, <4>2 DEF Key, Before
        <4>4. le # base /\ le \in L
          BY <1>2, <4>3
        <4>5. x = le
          BY <1>1, <1>2, <1>9, <3>3, <4>1, <4>3, <4>4
        <4> QED  BY <1>2, <2>3, <3>3, <4>3, <4>5 DEF Adjoin
      <3> QED  BY <1>5, <1>11, <1>12, <3>2, <3>3
    <2> QED  BY <2>2, <2>3
  <1> HIDE DEF front
  <1>14. Blocks(new, F) /\ Apart(new)
    <2> DEFINE next == list.link.next[at]
               N == list.flags
    <2>1. /\ N \in SUBSET Pages /\ next \in N \cup {LIST} /\ After(N, at, next)
          /\ \A x \in N : 1 <= list.prop[x] /\ list.prop[x] \in Nat /\ x \in Nat /\ x # LIST
          /\ \A x, y \in N : x < y => x + list.prop[x] <= y
      BY <1>2, <1>13 DEF Blocks, Links, After
    <2> HIDE DEF next
    <2>2. CASE Adjoin(list.prop, at, next)
      <3>1. new = Join(list, at, next)
        BY <2>2 DEF JoinBehind, next
      <3>2. next \in N /\ at + list.prop[at] = next
        BY <2>1, <2>2 DEF Adjoin
      <3>3. /\ Blocks(new, F) /\ new.flags = N \ {next} /\ at # next
            /\ new.prop[at] = list.prop[at] + list.prop[next]
            /\ \A x \in N \ {at} : new.prop[x] = list.prop[x]
        BY <1>13, <3>1, <3>2, Joined
      <3> HIDE DEF new, N, list, at
      <3>4. ASSUME NEW x \in new.flags, NEW y \in new.flags, x + new.prop[x] = y  PROVE FALSE
        <4>1. CASE x = at
          <5>1. next + list.prop[next] = y
            BY <1>13, <2>1, <3>2, <3>3, <3>4, <4>1 DEF N
          <5> QED  BY <1>13, <3>2, <3>3, <5>1 DEF N
        <4>2. CASE x # at
          BY <1>13, <3>3, <3>4, <4>2 DEF N
        <4> QED  BY <4>1, <4>2
      <3> QED  BY <3>3, <3>4 DEF Apart
    <2>3. CASE ~Adjoin(list.prop, at, next)
      <3>1. new = list
        BY <2>3 DEF JoinBehind, next
      <3>2. ASSUME NEW x \in N, NEW y \in N, x + list.prop[x] = y  PROVE FALSE
        <4>1. x = at
          BY <1>13, <3>2
        <4>2. at < y /\ Key(at) = at
          BY <2>1, <3>2, <4>1 DEF Key
        <4>3. next <= y /\ at < next
          BY <2>1, <4>2 DEF After
        <4>4. next \in N
          BY <1>1, <1>2, <2>1, <3>2, <4>3
        <4>5. next = y
          BY <2>1, <3>2, <4>1, <4>3, <4>4
        <4> QED  BY <2>1, <2>3, <3>2, <4>1, <4>4, <4>5 DEF Adjoin
      <3> QED  BY <1>13, <3>1, <3>2 DEF Apart
    <2> QED  BY <2>2, <2>3
  <1> QED  BY <1>7, <1>14 DEF front, inserted

\* What first fit and best fit find: a block that is long enough if there is one.
LEMMA BlockFound ==
    ASSUME NEW L \in SUBSET Pages, Links(link, L), property \in [Pages -> 0 .. NPages], NEW n \in Nat,
           nr_free \in Nat, NEW f, f = FirstFit(n) \/ f = BestFit(n)
    PROVE  /\ f # NULL => f \in L /\ property[f] >= n
           /\ n <= nr_free /\ (\E x \in L : property[x] >= n) => f # NULL
  <1> DEFINE walk == Walk(link)
             fits == Fits(walk, n)
             sizes == {property[walk[k]] : k \in fits}
             min_size == Min(sizes)
             best == {k \in fits : property[walk[k]] = min_size}
             none == n > nr_free \/ fits = {}
  <1>1. PICK len \in Nat : Lists(walk, link, L, len)
    BY Walked
  <1>2. /\ fits \subseteq 1 .. len /\ fits \subseteq Nat /\ DOMAIN walk = 1 .. len
        /\ \A k \in 1 .. len : walk[k] \in L /\ property[walk[k]] \in Nat /\ walk[k] # NULL
        /\ \A k \in 1 .. len : k \in fits <=> property[walk[k]] >= n
    <2>1. DOMAIN walk = 1 .. len /\ \A k \in 1 .. len : walk[k] \in L
      BY <1>1 DEF Lists
    <2>2. \A x \in L : property[x] \in Nat /\ x # NULL
      <3>1. \A x \in Pages : property[x] \in 0 .. NPages /\ x # NULL
        BY Numbers DEF NULL
      <3> QED  BY <3>1, Numbers
    <2> QED  BY <2>1, <2>2 DEF Fits
  <1>3. FirstFit(n) = IF none THEN NULL ELSE walk[Min(fits)]
    BY DEF FirstFit
  <1>4. BestFit(n) = IF none THEN NULL ELSE walk[Min(best)]
    BY DEF BestFit
  <1> HIDE DEF fits, walk
  <1>5. fits # {} => Min(fits) \in fits
    BY <1>2, MinOfSet
  <1>6. fits # {} => Min(best) \in fits
    <2> SUFFICES ASSUME fits # {}  PROVE Min(best) \in fits
      OBVIOUS
    <2>1. sizes # {} /\ sizes \subseteq Nat
      BY <1>2
    <2>2. min_size \in sizes
      <3> HIDE DEF sizes
      <3> QED  BY <2>1, MinOfSet
    <2>3. best # {} /\ best \subseteq Nat
      BY <1>2, <2>2
    <2> HIDE DEF best
    <2>4. Min(best) \in best
      BY <2>3, MinOfSet
    <2> QED  BY <2>4 DEF best
  <1>7. (\E x \in L : property[x] >= n) => fits # {}
    <2> SUFFICES ASSUME NEW x \in L, property[x] >= n  PROVE fits # {}
      OBVIOUS
    <2>1. PICK k \in 1 .. len : walk[k] = x
      BY <1>1 DEF Lists
    <2> QED  BY <1>2, <2>1
  <1> HIDE DEF best
  <1>8. CASE none
    <2>1. f = NULL
      BY <1>3, <1>4, <1>8
    <2>2. nr_free < n \/ fits = {}
      BY <1>8
    <2>3. ~(n <= nr_free /\ \E x \in L : property[x] >= n)
      <3>1. CASE fits = {}
        BY <1>7, <3>1
      <3>2. CASE n > nr_free
        BY <3>2
      <3> QED  BY <1>8, <3>1, <3>2
    <2> QED  BY <2>1, <2>3
  <1>9. CASE ~none
    <2>1. \E k \in fits : f = walk[k]
      BY <1>3, <1>4, <1>5, <1>6, <1>9
    <2> QED  BY <1>2, <2>1
  <1> QED  BY <1>8, <1>9

\* A free run lies in one block.
LEMMA RunInBlock ==
    ASSUME NEW list, NEW free, Blocks(list, free), Apart(list), NEW n \in Nat \ {0}, NEW i \in Pages,
           Run(i, n) \subseteq Pages \cap free
    PROVE  \E x \in list.flags : x <= i /\ i + n <= x + list.prop[x]
  <1> DEFINE L == list.flags
             prop == list.prop
  <1>1. /\ L \in SUBSET Pages /\ prop \in [Pages -> 0 .. NPages]
        /\ \A x \in L : 1 <= prop[x] /\ x + prop[x] <= NPages
        /\ \A x, y \in L : x < y => x + prop[x] <= y
        /\ \A x, y \in L : x + prop[x] # y
        /\ \A p \in Pages : p \in free <=> \E x \in L : x <= p /\ p < x + prop[x]
    BY DEF Blocks, Apart
  <1>2. \A p \in Pages : p \in Nat /\ p < NPages
    BY Numbers DEF Pages
  <1>3. \A x \in L : x \in Nat /\ prop[x] \in Nat
    <2>1. NPages \in Nat
      BY Numbers
    <2> QED  BY <1>1, <1>2, <2>1
  <1> HIDE DEF L, prop
  <1>4. i \in free
    BY <1>2 DEF Run
  <1>5. PICK x \in L : x <= i /\ i < x + prop[x]
    BY <1>1, <1>4
  <1>6. i + n <= x + prop[x]
    <2> SUFFICES ASSUME x + prop[x] < i + n  PROVE FALSE
      BY <1>2, <1>3
    <2> DEFINE p == x + prop[x]
    <2>1. p \in Run(i, n) /\ p \in Nat
      BY <1>2, <1>3, <1>5 DEF Run
    <2>2. p \in Pages /\ p \in free
      BY <2>1
    <2>3. PICK y \in L : y <= p /\ p < y + prop[y]
      BY <1>1, <2>2
    <2>4. x < y \/ y < x \/ x = y
      BY <1>3
    <2>5. ~(x < y)
      BY <1>1, <1>3, <2>3
    <2>6. ~(y < x)
      <3>1. y < x => y + prop[y] <= x
        BY <1>1
      <3> QED  BY <1>3, <2>3, <3>1
    <2> QED  BY <1>3, <2>3, <2>4, <2>5, <2>6
  <1> QED  BY <1>5, <1>6 DEF L, prop

LEMMA RunCardinality ==
    ASSUME NEW i \in Int, NEW n \in Nat
    PROVE  IsFiniteSet(Run(i, n)) /\ Cardinality(Run(i, n)) = n
  BY FS_Interval DEF Run

-----------------------------------------------------------------------------
(* The list managers and their callers.                                    *)

Current == [link |-> link, prop |-> property, flags |-> pg_property]

FreePages == Pages \ HeldPages

\* The inductive invariant: the links are those of the sorted list of the flagged pages,
\* the blocks cover what nobody holds and have been joined.
ListInv ==
    /\ pmm_manager \in {"default", "best_fit"}
    /\ Blocks(Current, FreePages) /\ Apart(Current)
    /\ nr_free = Cardinality(FreePages)
    /\ held \in [Callers -> SUBSET Pages] /\ NeverTwice
    /\ NPages - 1 \in FreePages

\* Every page nobody holds is in one of the blocks, and in no other.
LEMMA ListInvInit ==
    ASSUME Init, pmm_manager # "buddy"
    PROVE  ListInv
  <1>1. pmm_manager \in {"default", "best_fit"}
    BY PmmAssumption DEF Init
  <1>2. /\ NPages \in Nat /\ NPages > 1 /\ LIST = NPages /\ Pages = 0 .. NPages - 1 /\ 0 \in Pages
        /\ LIST \in Nodes /\ 0 \in Nodes /\ LIST \in Nat
    BY Numbers DEF Pages, LIST, Nodes
  <1>3. held = [c \in Callers |-> {}] /\ HeldPages = {} /\ FreePages = Pages
    BY DEF Init, HeldPages, FreePages
  <1>4. pg_property = {0} /\ property = [p \in Pages |-> IF p = 0 THEN NPages ELSE 0] /\ nr_free = NPages
    BY <1>1 DEF Init, ListInit, ListFlags
  <1>5. Links(link, {0})
    <2> DEFINE alone == [x \in Nodes |-> x]
               l == [next |-> alone, prev |-> alone]
    <2>1. Links(l, {})
      <3>1. l \in [next : [Nodes -> Nodes], prev : [Nodes -> Nodes]]
        OBVIOUS
      <3>2. l.next[LIST] = LIST /\ l.prev[LIST] = LIST
        BY <1>2
      <3> HIDE DEF l
      <3>3. After({}, LIST, LIST) /\ Before({}, LIST, LIST)
        BY <1>2 DEF After, Before, Key
      <3> QED  BY <3>1, <3>2, <3>3 DEF Links
    <2>2. link = ListAddBetween(l, 0, LIST, LIST)
      <3>1. l.next[LIST] = LIST
        BY <1>2
      <3>2. link = list_add(l, LIST, 0)
        BY DEF Init, ListInit
      <3> HIDE DEF l
      <3> QED  BY <3>1, <3>2 DEF list_add
    <2> HIDE DEF l
    <2>3. After({}, 0, LIST) /\ Before({}, 0, LIST)
      BY <1>2 DEF After, Before, Key
    <2>4. Links(ListAddBetween(l, 0, LIST, LIST), {} \cup {0})
      BY <1>2, <2>1, <2>3, AddedBetween
    <2>5. {} \cup {0} = {0}
      OBVIOUS
    <2> QED  BY <2>2, <2>4, <2>5
  <1>6. Current.link = link /\ Current.prop = property /\ Current.flags = {0}
    BY <1>4 DEF Current
  <1>7. property \in [Pages -> 0 .. NPages] /\ property[0] = NPages
    BY <1>2, <1>4
  <1>8. \A p \in Pages : 0 <= p /\ p < 0 + NPages
    BY <1>2
  <1>9. Blocks(Current, FreePages) /\ Apart(Current)
    <2> HIDE DEF Current
    <2>1. {0} \in SUBSET Pages
      BY <1>2
    <2> QED  BY <1>2, <1>3, <1>5, <1>6, <1>7, <1>8, <2>1 DEF Blocks, Apart
  <1>10. nr_free = Cardinality(FreePages)
    BY <1>2, <1>3, <1>4, FS_Interval
  <1>11. NPages - 1 \in FreePages /\ held \in [Callers -> SUBSET Pages] /\ NeverTwice
    BY <1>2, <1>3 DEF NeverTwice
  <1> QED  BY <1>1, <1>9, <1>10, <1>11 DEF ListInv

\* Pages that change between the callers and the manager.
LEMMA Counted ==
    ASSUME NEW F \in SUBSET Pages, NEW R \in SUBSET Pages
    PROVE  /\ IsFiniteSet(F) /\ IsFiniteSet(R)
           /\ R \subseteq F => Cardinality(F \ R) = Cardinality(F) - Cardinality(R)
           /\ R \cap F = {} => Cardinality(F \cup R) = Cardinality(F) + Cardinality(R)
           /\ R \subseteq F => Cardinality(R) <= Cardinality(F)
  <1>1. IsFiniteSet(F) /\ IsFiniteSet(R)
    BY Numbers, FS_Subset
  <1>2. R \subseteq F => Cardinality(F \ R) = Cardinality(F) - Cardinality(R)
    <2>1. F \cap R = R \/ ~(R \subseteq F)
      OBVIOUS
    <2> QED  BY <1>1, <2>1, FS_Difference
  <1>3. R \cap F = {} => Cardinality(F \cup R) = Cardinality(F) + Cardinality(R)
    <2>1. R \cap F = {} => (F \cup R) \ R = F /\ (F \cup R) \cap R = R
      OBVIOUS
    <2>2. IsFiniteSet(F \cup R) /\ Cardinality(F \cup R) \in Int /\ Cardinality(F) \in Int
          /\ Cardinality(R) \in Int
      <3>1. F \cup R \in SUBSET Pages
        OBVIOUS
      <3>2. IsFiniteSet(F \cup R)
        BY <3>1, Numbers, FS_Subset
      <3> QED  BY <1>1, <3>2, FS_CardinalityType
    <2>3. Cardinality((F \cup R) \ R) = Cardinality(F \cup R) - Cardinality((F \cup R) \cap R)
      BY <2>2, FS_Difference
    <2> HIDE DEF FreePages
    <2>4. R \cap F = {} => Cardinality(F) = Cardinality(F \cup R) - Cardinality(R)
      BY <2>1, <2>3
    <2> QED  BY <2>2, <2>4
  <1>4. R \subseteq F => Cardinality(R) <= Cardinality(F)
    BY <1>1, FS_Subset
  <1> QED  BY <1>1, <1>2, <1>3, <1>4

LEMMA CurrentFields ==
    /\ Current.link = link /\ Current.prop = property /\ Current.flags = pg_property
    /\ Current'.link = link' /\ Current'.prop = property' /\ Current'.flags = pg_property'
  BY DEF Current

LEMMA Became ==
    ASSUME NEW list, NEW free, Blocks(list, free), Apart(list), Become(list)
    PROVE  Blocks(Current', free) /\ Apart(Current')
  <1>1. Blocks(Forget(list), free) /\ Apart(Forget(list))
    BY Forgotten
  <1>2. link' = Forget(list).link /\ property' = Forget(list).prop /\ pg_property' = Forget(list).flags
    BY DEF Become
  <1>3. Current'.link = link' /\ Current'.prop = property' /\ Current'.flags = pg_property'
    BY CurrentFields
  <1> HIDE DEF Current, Forget
  <1> QED  BY <1>1, <1>2, <1>3 DEF Blocks, Apart

\* What an allocation of n pages from page on is to the callers.
LEMMA PagesGiven ==
    ASSUME held \in [Callers -> SUBSET Pages], NeverTwice, NEW c \in Callers, held[c] = {},
           NEW R, R \subseteq FreePages, held' = [held EXCEPT ![c] = R]
    PROVE  /\ held' \in [Callers -> SUBSET Pages] /\ NeverTwice'
           /\ HeldPages' = HeldPages \cup R /\ FreePages' = FreePages \ R
           /\ \A d \in Callers : held[d] \cap R = {}
  <1>1. R \subseteq Pages /\ \A d \in Callers : held[d] \cap R = {}
    BY DEF FreePages, HeldPages
  <1>2. held'[c] = R /\ \A d \in Callers \ {c} : held'[d] = held[d]
    OBVIOUS
  <1>3. held' \in [Callers -> SUBSET Pages]
    BY <1>1
  <1>4. NeverTwice'
    BY <1>1, <1>2 DEF NeverTwice
  <1>5. HeldPages' = HeldPages \cup R
    BY <1>1, <1>2 DEF HeldPages
  <1>6. FreePages' = FreePages \ R
    BY <1>5 DEF FreePages, Pages
  <1> QED  BY <1>1, <1>3, <1>4, <1>5, <1>6

\* Pages that come back from a caller.
LEMMA PagesTaken ==
    ASSUME held \in [Callers -> SUBSET Pages], NeverTwice, NEW c \in Callers,
           NEW R, R \subseteq held[c], held' = [held EXCEPT ![c] = @ \ R]
    PROVE  /\ held' \in [Callers -> SUBSET Pages] /\ NeverTwice'
           /\ HeldPages' = HeldPages \ R /\ FreePages' = FreePages \cup R
           /\ R \subseteq Pages /\ R \cap FreePages = {}
  <1>1. R \subseteq Pages /\ R \cap FreePages = {}
    BY DEF FreePages, HeldPages
  <1>2. held'[c] = held[c] \ R /\ \A d \in Callers \ {c} : held'[d] = held[d]
    OBVIOUS
  <1>3. held' \in [Callers -> SUBSET Pages]
    BY <1>1
  <1>4. NeverTwice'
    BY <1>1, <1>2 DEF NeverTwice
  <1>5. HeldPages' = HeldPages \ R
    <2>1. ASSUME NEW p \in HeldPages'  PROVE p \in HeldPages \ R
      <3>1. PICK d \in Callers : p \in held'[d]
        BY <2>1 DEF HeldPages
      <3>2. p \in held[d]
        BY <1>2, <3>1
      <3>3. p \notin R
        BY <1>2, <3>1, <3>2 DEF NeverTwice
      <3> QED  BY <3>2, <3>3 DEF HeldPages
    <2>2. ASSUME NEW p \in HeldPages, p \notin R  PROVE p \in HeldPages'
      <3>1. PICK d \in Callers : p \in held[d]
        BY DEF HeldPages
      <3>2. p \in held'[d]
        BY <1>2, <2>2, <3>1
      <3> QED  BY <3>2 DEF HeldPages
    <2> QED  BY <2>1, <2>2
  <1>6. FreePages' = FreePages \cup R
    BY <1>1, <1>5 DEF FreePages, Pages
  <1> QED  BY <1>1, <1>3, <1>4, <1>5, <1>6

\* alloc_pages of a list manager.
LEMMA ListAllocStep ==
    ASSUME TailKept, ListInv, NEW c \in Callers, NEW n \in Nat \ {0}, ListAlloc(c, n)
    PROVE  /\ ListInv' /\ Allocator!Alloc(c)
           /\ Fit(n) \in Pages /\ Run(Fit(n), n) \subseteq FreePages
           /\ held' = [held EXCEPT ![c] = Run(Fit(n), n)] /\ held[c] = {}
  <1> DEFINE page == Fit(n)
             R == Run(page, n)
  <1>1. /\ Blocks(Current, FreePages) /\ Apart(Current) /\ nr_free = Cardinality(FreePages)
        /\ held \in [Callers -> SUBSET Pages] /\ NeverTwice /\ NPages - 1 \in FreePages
        /\ pmm_manager \in {"default", "best_fit"}
    BY DEF ListInv
  <1>2. /\ held[c] = {} /\ page # NULL /\ NPages - 1 \notin R
        /\ held' = [held EXCEPT ![c] = R] /\ Become(Rest(page, n)) /\ nr_free' = nr_free - n
        /\ pmm_manager' = pmm_manager
    BY DEF ListAlloc, Given, Take
  <1>3. page = FirstFit(n) \/ page = BestFit(n)
    BY <1>1 DEF Fit
  <1> HIDE DEF page
  <1>4. pg_property \in SUBSET Pages /\ Links(link, pg_property) /\ property \in [Pages -> 0 .. NPages]
    BY <1>1, CurrentFields DEF Blocks
  <1>5. IsFiniteSet(FreePages) /\ FreePages \in SUBSET Pages /\ nr_free \in Nat
    <2>1. FreePages \in SUBSET Pages
      BY DEF FreePages
    <2> QED  BY <1>1, <2>1, Numbers, FS_Subset, FS_CardinalityType
  <1>6. page \in pg_property /\ property[page] >= n
    BY <1>2, <1>3, <1>4, <1>5, BlockFound
  <1>7. /\ Blocks(Rest(page, n), FreePages \ R) /\ Apart(Rest(page, n))
        /\ R \subseteq Pages \cap FreePages
    BY <1>1, <1>6, FrontTaken DEF Current
  <1>8. /\ held' \in [Callers -> SUBSET Pages] /\ NeverTwice'
        /\ FreePages' = FreePages \ R /\ \A d \in Callers : held[d] \cap R = {}
    BY <1>1, <1>2, <1>7, PagesGiven
  <1>9. Blocks(Current', FreePages') /\ Apart(Current')
    BY <1>2, <1>7, <1>8, Became
  <1>10. nr_free' = Cardinality(FreePages')
    <2>1. page \in Int
      BY <1>4, <1>6, Numbers
    <2>2. Cardinality(R) = n
      BY <2>1, RunCardinality
    <2>3. R \in SUBSET Pages /\ R \subseteq FreePages
      BY <1>7
    <2> HIDE DEF R
    <2>4. Cardinality(FreePages \ R) = Cardinality(FreePages) - Cardinality(R)
      BY <1>5, <2>3, Counted
    <2> QED  BY <1>1, <1>2, <1>8, <2>2, <2>4
  <1>11. NPages - 1 \in FreePages'
    BY <1>1, <1>2, <1>8
  <1>12. ListInv'
    <2>1. Blocks(Current, FreePages)' /\ Apart(Current)'
      BY <1>9 DEF Blocks, Apart, Links, After, Before, Key, LIST, Pages, Nodes
    <2>2. (nr_free = Cardinality(FreePages))' /\ (NPages - 1 \in FreePages)'
      BY <1>10, <1>11
    <2>3. (held \in [Callers -> SUBSET Pages])'
      BY <1>8 DEF Pages
    <2>4. (pmm_manager \in {"default", "best_fit"})'
      BY <1>1, <1>2
    <2> QED  BY <1>8, <2>1, <2>2, <2>3, <2>4 DEF ListInv
  <1>13. Allocator!Alloc(c)
    <2>1. held'[c] = R /\ R = page .. page + n - 1
      BY <1>1, <1>2 DEF Run
    <2>2. page \in R /\ page + n - 1 \in R
      BY <1>4, <1>6, <2>1, Numbers
    <2>3. R \subseteq 0 .. NPages - 1
      BY <1>7 DEF Pages
    <2>4. \E i, j \in R : R = i .. j
      BY <2>1, <2>2
    <2> QED  BY <1>2, <1>8, <2>1, <2>3, <2>4 DEF Allocator!Alloc, Allocator!Pages
  <1> QED  BY <1>2, <1>4, <1>6, <1>7, <1>12, <1>13 DEF page

\* free_pages of a list manager.
LEMMA ListFreeStep ==
    ASSUME ListInv, NEW c \in Callers, NEW n \in Nat \ {0}, NEW base \in Int, ListFree(c, base, n)
    PROVE  ListInv' /\ Allocator!Free(c) /\ held' = [held EXCEPT ![c] = @ \ Run(base, n)]
  <1> DEFINE R == Run(base, n)
  <1>1. /\ Blocks(Current, FreePages) /\ Apart(Current) /\ nr_free = Cardinality(FreePages)
        /\ held \in [Callers -> SUBSET Pages] /\ NeverTwice /\ NPages - 1 \in FreePages
        /\ pmm_manager \in {"default", "best_fit"}
    BY DEF ListInv
  <1>2. /\ R \subseteq held[c] /\ GiveBack(base, n) /\ held' = [held EXCEPT ![c] = @ \ R]
        /\ pmm_manager' = pmm_manager
    BY DEF ListFree
  <1>3. /\ held' \in [Callers -> SUBSET Pages] /\ NeverTwice'
        /\ FreePages' = FreePages \cup R
        /\ R \subseteq Pages /\ R \cap FreePages = {}
    BY <1>1, <1>2, PagesTaken
  <1>4. base \in R /\ base \in Pages /\ R \subseteq Pages \ FreePages
    <2>1. base \in R
      BY DEF Run
    <2> QED  BY <1>3, <2>1
  <1>5. \E y \in pg_property : base < y
    <2>1. NPages - 1 \in Pages /\ NPages - 1 \in Nat /\ base \in Nat /\ base <= NPages - 1
      BY <1>1, <1>4, Numbers DEF Pages, FreePages
    <2>2. PICK y \in pg_property : y <= NPages - 1 /\ NPages - 1 < y + property[y]
      BY <1>1, <2>1, CurrentFields DEF Blocks
    <2>3. y \in Nat /\ property[y] \in Nat
      <3>1. y \in Pages /\ property \in [Pages -> 0 .. NPages]
        BY <1>1, CurrentFields DEF Blocks
      <3> QED  BY <3>1, Numbers
    <2>4. base \notin FreePages
      BY <1>3, <1>4
    <2>5. ~(y <= base /\ base < y + property[y])
      BY <1>1, <1>4, <2>4, CurrentFields DEF Blocks
    <2> QED  BY <2>1, <2>2, <2>3, <2>5
  <1> DEFINE inserted == [link |-> Insert(link, base),
                          prop |-> [property EXCEPT ![base] = n],
                          flags |-> (pg_property \ Run(base, n)) \cup {base}]
             front == JoinFront(inserted, base)
             new == JoinBehind(front.list, front.at)
  <1>6. Blocks(new, FreePages \cup R) /\ Apart(new)
    BY <1>1, <1>4, <1>5, GivenBack DEF Current
  <1>7. Become(new) /\ nr_free' = nr_free + n
    BY <1>2 DEF GiveBack
  <1> HIDE DEF new, R
  <1>8. Blocks(Current', FreePages') /\ Apart(Current')
    BY <1>3, <1>6, <1>7, Became
  <1>9. nr_free' = Cardinality(FreePages')
    <2>1. Cardinality(R) = n
      BY RunCardinality DEF R
    <2>2. Cardinality(FreePages \cup R) = Cardinality(FreePages) + Cardinality(R)
      <3>1. FreePages \in SUBSET Pages
        BY DEF FreePages
      <3> QED  BY <1>3, <3>1, Counted
    <2> QED  BY <1>1, <1>3, <1>7, <2>1, <2>2
  <1>10. ListInv'
    <2>1. Blocks(Current, FreePages)' /\ Apart(Current)'
      BY <1>8 DEF Blocks, Apart, Links, After, Before, Key, LIST, Pages, Nodes
    <2>2. (nr_free = Cardinality(FreePages))' /\ (NPages - 1 \in FreePages)'
      BY <1>1, <1>3, <1>9
    <2>3. (held \in [Callers -> SUBSET Pages])'
      BY <1>3 DEF Pages
    <2>4. (pmm_manager \in {"default", "best_fit"})'
      BY <1>1, <1>2
    <2> QED  BY <1>3, <2>1, <2>2, <2>3, <2>4 DEF ListInv
  <1>11. Allocator!Free(c)
    <2>1. held'[c] = held[c] \ R
      BY <1>1, <1>2
    <2> QED  BY <1>2, <2>1 DEF Allocator!Free
  <1> QED  BY <1>2, <1>10, <1>11 DEF R

\* The invariant is what the runs check.
LEMMA ListInvShows ==
    ASSUME ListInv
    PROVE  BlocksExact /\ NoFalseFailure
  <1>1. /\ Blocks(Current, FreePages) /\ Apart(Current) /\ nr_free = Cardinality(FreePages)
        /\ pmm_manager \in {"default", "best_fit"}
    BY DEF ListInv
  <1> DEFINE L == pg_property
  <1>2. /\ L \in SUBSET Pages /\ Links(link, L) /\ property \in [Pages -> 0 .. NPages]
        /\ \A x \in L : 1 <= property[x] /\ x + property[x] <= NPages
        /\ \A x, y \in L : x < y => x + property[x] <= y
        /\ \A x, y \in L : x + property[x] # y
        /\ \A p \in Pages : p \in FreePages <=> \E x \in L : x <= p /\ p < x + property[x]
    BY <1>1, CurrentFields DEF Blocks, Apart
  <1>3. /\ NPages \in Nat /\ LIST = NPages /\ \A p \in Pages : p \in Nat /\ p < NPages
        /\ \A p \in Nat : p < NPages => p \in Pages
        /\ \A x \in L : property[x] \in Nat /\ x \in Nat /\ x # LIST
    <2>1. NPages \in Nat /\ LIST = NPages /\ \A p \in Pages : p \in Nat /\ p < NPages
      BY Numbers DEF Pages, LIST
    <2>2. \A p \in Nat : p < NPages => p \in Pages
      BY <2>1 DEF Pages
    <2> QED  BY <1>2, <2>1, <2>2
  <1>4. Range(Walk(link)) = L
    <2>1. PICK n \in Nat : Lists(Walk(link), link, L, n)
      BY <1>2, Walked
    <2> DEFINE w == Walk(link)
    <2> HIDE DEF w
    <2>2. DOMAIN w = 1 .. n /\ \A k \in 1 .. n : w[k] \in L
      BY <2>1 DEF Lists, w
    <2>3. \A x \in L : \E k \in 1 .. n : w[k] = x
      BY <2>1 DEF Lists, w
    <2> QED  BY <2>2, <2>3 DEF Range, w
  <1>5. BlocksExact
    <2>1. \A x \in L \cup {LIST} : link.prev[link.next[x]] = x
      <3>1. L \in SUBSET Pages /\ Links(link, L)
        BY <1>2
      <3> HIDE DEF L
      <3>2. ASSUME NEW x \in L \cup {LIST}  PROVE link.prev[link.next[x]] = x
        BY <3>1, BackAndForth
      <3> QED  BY <3>2
    <2>2. \A x \in L : x < link.next[x]
      BY <1>2, <1>3 DEF Links, After, Key
    <2>3. Pages \ HeldPages = UNION {Run(x, property[x]) : x \in L}
      <3>1. ASSUME NEW p \in Pages \ HeldPages  PROVE \E x \in L : p \in Run(x, property[x])
        <4>1. PICK x \in L : x <= p /\ p < x + property[x]
          BY <1>2 DEF FreePages
        <4>2. p \in Run(x, property[x])
          BY <1>3, <4>1 DEF Run
        <4> QED  BY <4>2
      <3>2. ASSUME NEW x \in L, NEW p \in Run(x, property[x])  PROVE p \in Pages \ HeldPages
        <4>1. p \in Nat /\ x <= p /\ p < x + property[x]
          BY <1>3 DEF Run
        <4>2. x + property[x] <= NPages
          BY <1>2
        <4>3. p < NPages
          BY <1>3, <4>1, <4>2
        <4>4. p \in FreePages
          BY <1>2, <1>3, <4>1, <4>3
        <4> QED  BY <4>4 DEF FreePages
      <3> QED  BY <3>1, <3>2
    <2>4. \A x, y \in L : x < y => x + property[x] < y
      BY <1>2, <1>3
    <2>5. \A x \in L : property[x] > 0
      BY <1>2, <1>3
    <2>6. ListExact(HeldPages)
      BY <1>1, <1>4, <2>1, <2>2, <2>3, <2>4, <2>5 DEF ListExact, FreePages
    <2> QED  BY <1>1, <2>6 DEF BlocksExact
  <1>6. NoFalseFailure
    <2> SUFFICES ASSUME NEW n \in 1 .. NPages, NEW i \in Room(n)  PROVE Fit(n) # NULL
      BY DEF NoFalseFailure
    <2>1. i \in Pages /\ Run(i, n) \subseteq Pages \cap FreePages
      BY <1>1 DEF Room, FreePages
    <2>2. n \in Nat \ {0}
      BY <1>3
    <2>3. PICK x \in L : x <= i /\ i + n <= x + property[x]
      BY <1>1, <2>1, <2>2, RunInBlock, CurrentFields
    <2>4. property[x] >= n
      BY <1>3, <2>1, <2>2, <2>3
    <2>5. n <= nr_free /\ nr_free \in Nat
      <3>1. Cardinality(Run(i, n)) = n
        BY <1>3, <2>1, <2>2, RunCardinality
      <3>2. FreePages \in SUBSET Pages /\ Run(i, n) \in SUBSET Pages /\ Run(i, n) \subseteq FreePages
        BY <2>1 DEF FreePages
      <3>3. IsFiniteSet(FreePages) /\ Cardinality(Run(i, n)) <= Cardinality(FreePages)
        BY <3>2, Counted
      <3> QED  BY <1>1, <3>1, <3>3, FS_CardinalityType
    <2>6. Fit(n) = FirstFit(n) \/ Fit(n) = BestFit(n)
      BY <1>1 DEF Fit
    <2> QED  BY <1>2, <2>2, <2>4, <2>5, <2>6, BlockFound
  <1> QED  BY <1>5, <1>6

-----------------------------------------------------------------------------
(* The ring of the heap.  The node behind the last one is arena, which is  *)
(* smaller than every other: seen from below it stands above them all.     *)

Top == NPages * PageUnits
Up(z) == IF z = arena THEN Top ELSE z
Follows(D, b, z) == z \in D /\ b < Up(z) /\ \A y \in D : b < y => Up(z) <= y

Ring(list, D) ==
    /\ arena \in D /\ D \subseteq Units \cup {arena}
    /\ list \in [D -> [units : Nat, next : D]]
    /\ \A b \in D : Follows(D, b, list[b].next)

\* s is [list, start], free what the blocks of the ring cover; arena is a block of its own.
SlobBlocks(s, free) ==
    /\ Ring(s.list, DOMAIN s.list) /\ s.start \in DOMAIN s.list
    /\ s.list[arena].units = 1
    /\ \A b \in DOMAIN s.list \ {arena} : 1 <= s.list[b].units /\ b + s.list[b].units <= Top
    /\ \A b, c \in DOMAIN s.list : b < c => b + s.list[b].units < c
    /\ \A k \in Units : k \in free <=> \E b \in DOMAIN s.list \ {arena} : b <= k /\ k < b + s.list[b].units

LEMMA UnitNumbers ==
    /\ Top \in Nat /\ Units = 0 .. Top - 1 /\ Units \subseteq Nat /\ arena = -2 /\ arena \in Int
    /\ arena \notin Units /\ \A k \in Units : k \in Nat /\ k < Top /\ k \in Int /\ arena < k
    /\ PageUnits \in Nat /\ PageUnits > 3 /\ BIGBLOCK = 2 /\ IsFiniteSet(Units \cup {arena})
  <1>1. NPages \in Nat /\ PageUnits \in Nat /\ PageUnits > 3 /\ BIGBLOCK = 2
    BY PagesAssumption, HeapAssumption DEF BIGBLOCK
  <1>2. Top \in Nat
    BY <1>1 DEF Top
  <1>3. Units = 0 .. Top - 1 /\ arena = -2
    BY DEF Units, Top, arena
  <1>4. IsFiniteSet(Units \cup {arena})
    <2>1. Units \cup {arena} \in SUBSET (-2 .. Top)
      BY <1>2, <1>3
    <2>2. IsFiniteSet(-2 .. Top)
      BY <1>2, FS_Interval
    <2> HIDE DEF arena
    <2> QED  BY <2>1, <2>2, FS_Subset
  <1> QED  BY <1>1, <1>2, <1>3, <1>4

\* A part of the ring that leads nowhere else is all of it.
LEMMA RingIsOne ==
    ASSUME NEW D, NEW list, Ring(list, D), NEW T \in SUBSET D, T # {},
           \A b \in T : list[b].next \in T
    PROVE  T = D
  <1>1. /\ arena \in D /\ \A b \in D : Follows(D, b, list[b].next) /\ b \in Int /\ b < Top /\ arena <= b
        /\ Top \in Int /\ IsFiniteSet(D) /\ D \subseteq Int
    <2>1. /\ D \subseteq Units \cup {arena} /\ D \in SUBSET (Units \cup {arena})
          /\ arena \in D /\ \A b \in D : Follows(D, b, list[b].next)
      BY DEF Ring
    <2>2. IsFiniteSet(D)
      BY <2>1, UnitNumbers, FS_Subset
    <2> QED  BY <2>1, <2>2, UnitNumbers
  <1>2. arena \in T
    <2>1. IsFiniteSet(T) /\ T \subseteq Int
      BY <1>1, FS_Subset
    <2>2. PICK m \in T : \A b \in T : b <= m
      BY <2>1, MaxOfSet
    <2> DEFINE z == list[m].next
    <2>3. z \in T /\ m < Up(z)
      BY <1>1, <2>2 DEF Follows
    <2> HIDE DEF z
    <2>4. z <= m /\ z \in Int /\ m \in Int
      BY <1>1, <2>2, <2>3
    <2>5. z = arena
      BY <2>3, <2>4 DEF Up
    <2> QED  BY <2>3, <2>5
  <1>3. ASSUME D \ T # {}  PROVE FALSE
    <2> DEFINE Q == {y \in Nat : y \in D \ T}
    <2>1. Q = D \ T
      <3>1. D \ T \subseteq Nat
        <4>1. D \subseteq Units \cup {arena}
          BY DEF Ring
        <4> QED  BY <1>2, <4>1, UnitNumbers
      <3> QED  BY <3>1
    <2>2. PICK y \in Q : \A z \in Q : y <= z
      <3>1. Q \subseteq Nat /\ Q # {}
        BY <1>3, <2>1
      <3> HIDE DEF Q
      <3> QED  BY <3>1, LeastNat
    <2>3. y \in D /\ y \notin T /\ y \in Int /\ arena < y
      BY <1>1, <1>2, <2>1
    <2> DEFINE P == {p \in D : p < y}
    <2>4. P # {} /\ IsFiniteSet(P) /\ P \subseteq Int
      <3>1. arena \in P
        BY <1>1, <2>3
      <3>2. P \in SUBSET D
        OBVIOUS
      <3> QED  BY <1>1, <3>1, <3>2, FS_Subset
    <2>5. PICK p \in P : \A q \in P : q <= p
      <3> HIDE DEF P
      <3> QED  BY <2>4, MaxOfSet
    <2>6. p \in T
      <3>1. p \in D /\ p < y /\ p \in Int
        BY <1>1, <2>5
      <3>2. p \notin Q
        BY <2>2, <2>3, <3>1
      <3> QED  BY <2>1, <3>1, <3>2
    <2> DEFINE z == list[p].next
    <2>7. z \in T /\ Follows(D, p, z) /\ z \in D
      BY <1>1, <2>6
    <2> HIDE DEF z, Q
    <2>8. Up(z) <= y /\ p < Up(z)
      BY <2>3, <2>5, <2>7 DEF Follows
    <2>9. z # arena
      BY <1>1, <2>3, <2>8 DEF Up
    <2>10. z \in Int /\ z <= y /\ p < z
      BY <1>1, <2>7, <2>8, <2>9 DEF Up
    <2>11. z # y
      BY <2>3, <2>7
    <2>12. z \in P
      BY <2>3, <2>7, <2>10, <2>11
    <2> QED  BY <1>1, <2>5, <2>10, <2>12
  <1> QED  BY <1>3

\* As many steps as there are nodes lead through all of them.
LEMMA RingCovered ==
    ASSUME NEW D, NEW list, Ring(list, D), NEW n \in Nat, n = Cardinality(D),
           NEW g, \A i \in 1 .. n : g[i] \in D, \A i \in 1 .. n - 1 : g[i + 1] = list[g[i]].next
    PROVE  {g[i] : i \in 1 .. n} = D
  <1> DEFINE T(k) == {g[i] : i \in 1 .. k}
             S == {k \in Nat : k <= n => T(k) = D \/ Cardinality(T(k)) = k}
  <1>1. IsFiniteSet(D)
    <2>1. D \in SUBSET (Units \cup {arena})
      BY DEF Ring
    <2> QED  BY <2>1, UnitNumbers, FS_Subset
  <1>2. \A k \in Nat : k <= n => T(k) \subseteq D /\ IsFiniteSet(T(k))
    <2>1. \A k \in Nat : k <= n => T(k) \in SUBSET D
      OBVIOUS
    <2> HIDE DEF T
    <2> QED  BY <1>1, <2>1, FS_Subset
  <1>3. 0 \in S
    <2>1. T(0) = {}
      OBVIOUS
    <2> QED  BY <2>1, FS_EmptySet
  <1>4. ASSUME NEW k \in Nat, k \in S  PROVE k + 1 \in S
    <2> SUFFICES ASSUME k + 1 <= n  PROVE T(k + 1) = D \/ Cardinality(T(k + 1)) = k + 1
      OBVIOUS
    <2>1. T(k + 1) = T(k) \cup {g[k + 1]} /\ g[k + 1] \in D
      <3>1. 1 .. k + 1 = (1 .. k) \cup {k + 1} /\ k + 1 \in 1 .. n
        OBVIOUS
      <3> QED  BY <3>1
    <2>2. T(k) = D \/ Cardinality(T(k)) = k
      BY <1>4
    <2>3. T(k) \subseteq D /\ IsFiniteSet(T(k))
      BY <1>2
    <2>4. CASE T(k) = D
      <3> HIDE DEF T
      <3> QED  BY <2>1, <2>4
    <2>5. CASE T(k) # D /\ g[k + 1] \notin T(k)
      <3> HIDE DEF T
      <3>1. Cardinality(T(k) \cup {g[k + 1]}) = Cardinality(T(k)) + 1
        BY <2>3, <2>5, FS_AddElement
      <3> QED  BY <2>1, <2>2, <2>5, <3>1
    <2>6. CASE T(k) # D /\ g[k + 1] \in T(k)
      <3>1. ASSUME NEW b \in T(k)  PROVE list[b].next \in T(k)
        <4>1. PICK i \in 1 .. k : b = g[i]
          OBVIOUS
        <4>2. list[b].next = g[i + 1] /\ i + 1 \in 1 .. k + 1
          BY <4>1
        <4>3. g[i + 1] \in T(k + 1)
          BY <4>2
        <4> QED  BY <2>1, <2>6, <4>2, <4>3
      <3>2. T(k) # {}
        BY <2>6
      <3> HIDE DEF T
      <3> QED  BY <2>3, <2>6, <3>1, <3>2, RingIsOne
    <2> QED  BY <2>4, <2>5, <2>6
  <1> HIDE DEF S
  <1>5. n \in S
    BY <1>3, <1>4, SetInduction
  <1>6. T(n) = D \/ Cardinality(T(n)) = n
    BY <1>5 DEF S
  <1>7. T(n) \subseteq D
    BY <1>2
  <1> HIDE DEF T
  <1>8. T(n) = D
    BY <1>1, <1>6, <1>7, FS_Subset
  <1> QED  BY <1>8 DEF T

\* g is the search from start around the ring, back to start.
Around(g, s, n) ==
    /\ n \in Nat /\ n > 0 /\ g \in [0 .. n -> DOMAIN s.list] /\ g[0] = s.start
    /\ \A k \in 1 .. n : g[k] = s.list[g[k - 1]].next
    /\ {g[k] : k \in 1 .. n} = DOMAIN s.list /\ {g[k] : k \in 0 .. n - 1} = DOMAIN s.list
    /\ Round(s) = [k \in 1 .. n |-> g[k]]

LEMMA RoundTrip ==
    ASSUME NEW s, Ring(s.list, DOMAIN s.list), s.start \in DOMAIN s.list
    PROVE  \E n \in Nat : \E g : Around(g, s, n)
  <1> DEFINE D == DOMAIN s.list
             list == s.list
             n == Cardinality(D)
             g[k \in 0 .. n] == IF k = 0 THEN s.start ELSE list[g[k - 1]].next
             F == [b \in D |-> list[b].next]
  <1>1. D \in SUBSET (Units \cup {arena}) /\ arena \in D /\ list \in [D -> [units : Nat, next : D]]
    BY DEF Ring
  <1>2. IsFiniteSet(D) /\ n \in Nat /\ n > 0
    <2>1. IsFiniteSet(D)
      BY <1>1, UnitNumbers, FS_Subset
    <2>2. D # {}
      BY <1>1
    <2> HIDE DEF D
    <2> QED  BY <2>1, <2>2, FS_CardinalityType, FS_EmptySet
  <1>3. Round(s) = [k \in 1 .. n |-> g[k]]
    BY DEF Round
  <1> HIDE DEF D, n
  <1>4. F \in [D -> D] /\ s.start \in D
    BY <1>1 DEF D
  <1>5. /\ g \in [0 .. n -> D] /\ \A k \in 0 .. n : g[k] \in D
        /\ g[0] = s.start /\ \A k \in 1 .. n : g[k] = list[g[k - 1]].next
    <2> HIDE DEF F
    <2>1. PICK f : f = [k \in 0 .. n |-> IF k = 0 THEN s.start ELSE F[f[k - 1]]]
      BY <1>2, <1>4, Recurrence
    <2>2. \A k \in Nat : k <= n => f[k] \in D
      <3> DEFINE S == {k \in Nat : k <= n => f[k] \in D}
      <3>1. 0 \in S
        BY <1>2, <1>4, <2>1
      <3>2. ASSUME NEW k \in Nat, k \in S  PROVE k + 1 \in S
        <4> SUFFICES ASSUME k + 1 <= n  PROVE f[k + 1] \in D
          OBVIOUS
        <4>1. k + 1 \in 0 .. n /\ k + 1 # 0 /\ (k + 1) - 1 = k /\ f[k] \in D
          BY <1>2, <3>2
        <4>2. f[k + 1] = F[f[k]]
          BY <2>1, <4>1
        <4> QED  BY <1>4, <4>1, <4>2
      <3> HIDE DEF S
      <3>3. Nat \subseteq S
        BY <3>1, <3>2, SetInduction
      <3> QED  BY <3>3 DEF S
    <2>3. f = [k \in 0 .. n |-> IF k = 0 THEN s.start ELSE list[f[k - 1]].next]
      <3> SUFFICES ASSUME NEW k \in 0 .. n, k # 0  PROVE F[f[k - 1]] = list[f[k - 1]].next
        BY <2>1, Zenon
      <3>1. k - 1 \in Nat /\ k - 1 <= n
        BY <1>2
      <3> QED  BY <2>2, <3>1 DEF F
    <2>4. g = [k \in 0 .. n |-> IF k = 0 THEN s.start ELSE list[g[k - 1]].next]
      BY <2>3
    <2> HIDE DEF g
    <2>5. g[0] = s.start /\ \A k \in 1 .. n : g[k] = list[g[k - 1]].next
      BY <1>2, <2>4
    <2>6. \A k \in Nat : k <= n => g[k] \in D
      <3> DEFINE S == {k \in Nat : k <= n => g[k] \in D}
      <3>1. 0 \in S
        BY <1>4, <2>5
      <3>2. ASSUME NEW k \in Nat, k \in S  PROVE k + 1 \in S
        <4> SUFFICES ASSUME k + 1 <= n  PROVE g[k + 1] \in D
          OBVIOUS
        <4>1. k + 1 \in 1 .. n /\ (k + 1) - 1 = k /\ g[k] \in D
          BY <1>2, <3>2
        <4>2. g[k + 1] = list[g[k]].next
          BY <2>5, <4>1
        <4> QED  BY <1>1, <4>1, <4>2
      <3> HIDE DEF S
      <3>3. Nat \subseteq S
        BY <3>1, <3>2, SetInduction
      <3> QED  BY <3>3 DEF S
    <2>7. \A k \in 0 .. n : g[k] \in D
      BY <1>2, <2>6
    <2>8. g \in [0 .. n -> D]
      BY <2>4, <2>7
    <2> QED  BY <2>5, <2>7, <2>8
  <1>7. {g[k] : k \in 1 .. n} = D
    <2> HIDE DEF g
    <2>1. \A k \in 1 .. n - 1 : g[k + 1] = list[g[k]].next
      <3> SUFFICES ASSUME NEW k \in 1 .. n - 1  PROVE g[k + 1] = list[g[k]].next
        OBVIOUS
      <3>1. k + 1 \in 1 .. n /\ (k + 1) - 1 = k
        BY <1>2
      <3> QED  BY <1>5, <3>1
    <2>2. \A k \in 1 .. n : g[k] \in D
      BY <1>5
    <2>3. Ring(list, D) /\ n = Cardinality(D)
      BY DEF D, n
    <2> QED  BY <1>2, <2>1, <2>2, <2>3, RingCovered
  <1>8. {g[k] : k \in 0 .. n - 1} = D
    <2> HIDE DEF g
    <2> DEFINE h == [k \in 1 .. n |-> g[k - 1]]
    <2>1. \A k \in 1 .. n : h[k] = g[k - 1] /\ h[k] \in D
      BY <1>2, <1>5
    <2>2. \A k \in 1 .. n - 1 : h[k + 1] = list[h[k]].next
      <3> SUFFICES ASSUME NEW k \in 1 .. n - 1  PROVE h[k + 1] = list[h[k]].next
        OBVIOUS
      <3>1. k + 1 \in 1 .. n /\ (k + 1) - 1 = k /\ k \in 1 .. n
        BY <1>2
      <3> QED  BY <1>5, <2>1, <3>1
    <2> HIDE DEF h
    <2>3. Ring(list, D) /\ n = Cardinality(D)
      BY DEF D, n
    <2>4. {h[k] : k \in 1 .. n} = D
      BY <1>2, <2>1, <2>2, <2>3, RingCovered
    <2>5. ASSUME NEW b \in D  PROVE \E k \in 0 .. n - 1 : g[k] = b
      <3>1. PICK k \in 1 .. n : h[k] = b
        BY <2>4
      <3>2. k - 1 \in 0 .. n - 1 /\ g[k - 1] = b
        BY <1>2, <2>1, <3>1
      <3> QED  BY <3>2
    <2>6. \A k \in 0 .. n - 1 : g[k] \in D
      BY <1>2, <1>5
    <2> QED  BY <2>5, <2>6
  <1> HIDE DEF g
  <1>9. Around(g, s, n)
    BY <1>2, <1>3, <1>5, <1>7, <1>8 DEF Around, D
  <1> QED  BY <1>2, <1>9

\* The front of a free block is handed out.
LEMMA SlobAllocated ==
    ASSUME NEW s, NEW free, SlobBlocks(s, free), NEW units \in Nat, units >= 2, Enough(s, units) # {}
    PROVE  LET r == slob_alloc(s, units)
           IN  /\ SlobBlocks([list |-> r.list, start |-> r.start], free \ Run(r.at, units))
               /\ r.at \in Units /\ r.at + units <= Top /\ Run(r.at, units) \subseteq Units \cap free
  <1> DEFINE D == DOMAIN s.list
             list == s.list
             round == Round(s)
             k == Min(Enough(s, units))
             cur == round[k]
             prev == IF k = 1 THEN s.start ELSE round[k - 1]
             exact == list[cur].units = units
             rest == IF exact THEN list[cur].next ELSE cur + units
             new == [b \in (D \ {cur}) \cup {rest} |->
                       IF b = prev THEN [list[b] EXCEPT !.next = rest]
                       ELSE IF b = rest /\ ~exact
                       THEN [units |-> list[cur].units - units, next |-> list[cur].next]
                       ELSE list[b]]
             r == slob_alloc(s, units)
  <1>1. /\ Ring(list, D) /\ s.start \in D /\ list[arena].units = 1
        /\ \A b \in D \ {arena} : 1 <= list[b].units /\ b + list[b].units <= Top
        /\ \A b, c \in D : b < c => b + list[b].units < c
        /\ \A i \in Units : i \in free <=> \E b \in D \ {arena} : b <= i /\ i < b + list[b].units
    BY DEF SlobBlocks
  <1>2. /\ arena \in D /\ D \subseteq Units \cup {arena} /\ list \in [D -> [units : Nat, next : D]]
        /\ \A b \in D : Follows(D, b, list[b].next) /\ list[b].next \in D /\ list[b].units \in Nat
    <2>1. /\ arena \in D /\ D \subseteq Units \cup {arena} /\ list \in [D -> [units : Nat, next : D]]
          /\ \A b \in D : Follows(D, b, list[b].next)
      BY <1>1 DEF Ring
    <2> QED  BY <2>1
  <1>3. /\ Top \in Nat /\ arena \in Int /\ \A b \in D : b \in Int /\ arena <= b /\ b < Top
        /\ \A b \in D : b # arena => b \in Nat /\ b \in Units
    BY <1>2, UnitNumbers
  <1>4. PICK n \in Nat : \E g : Around(g, s, n)
    BY <1>1, RoundTrip
  <1>16. PICK g : Around(g, s, n)
    BY <1>4
  <1>5. r = [at |-> cur, list |-> new, start |-> prev]
    BY DEF slob_alloc
  <1> HIDE DEF k, round
  <1>6. k \in 1 .. n /\ list[cur].units >= units
    <2>1. DOMAIN round = 1 .. n
      BY <1>16 DEF Around, round
    <2>2. Enough(s, units) = {i \in 1 .. n : list[round[i]].units >= units}
      BY <2>1 DEF Enough, round
    <2>3. Enough(s, units) \subseteq Nat
      BY <2>2
    <2>4. k \in Enough(s, units)
      BY <2>3, MinOfSet DEF k
    <2> QED  BY <2>2, <2>4
  <1>7. cur \in D /\ prev \in D /\ cur = list[prev].next
    <2>1. \A i \in 1 .. n : round[i] = g[i] /\ g[i] \in D /\ g[i - 1] \in D /\ g[i] = list[g[i - 1]].next
      <3>1. /\ \A i \in 1 .. n : g[i] = list[g[i - 1]].next
            /\ round = [i \in 1 .. n |-> g[i]] /\ g \in [0 .. n -> D]
        BY <1>16 DEF Around, round
      <3>2. \A i \in 1 .. n : i \in 0 .. n /\ i - 1 \in 0 .. n
        OBVIOUS
      <3> QED  BY <3>1, <3>2
    <2>2. prev = g[k - 1]
      <3>1. CASE k = 1
        BY <1>16, <3>1 DEF Around
      <3>2. CASE k # 1
        <4>1. k - 1 \in 1 .. n
          BY <1>6, <3>2
        <4> QED  BY <2>1, <3>2, <4>1
      <3> QED  BY <3>1, <3>2
    <2> QED  BY <1>6, <2>1, <2>2
  <1> HIDE DEF cur, prev, D, list, r
  <1>8. cur # arena /\ cur \in Units /\ cur \in Nat /\ list[cur].units \in Nat /\ list[cur].units >= units
    BY <1>1, <1>2, <1>3, <1>6, <1>7
  <1>9. prev # cur
    BY <1>2, <1>3, <1>7, <1>8 DEF Follows, Up
  <1> DEFINE next == list[cur].next
  <1>10. next \in D /\ next # cur /\ Follows(D, cur, next) /\ Follows(D, prev, cur)
    <2>1. next \in D /\ Follows(D, cur, next) /\ Follows(D, prev, cur)
      BY <1>2, <1>7
    <2>2. next # cur
      BY <1>3, <1>7, <1>8, <2>1 DEF Follows, Up
    <2> QED  BY <2>1, <2>2
  <1>11. prev < cur /\ \A y \in D : y # cur /\ y > prev => cur < y
    BY <1>3, <1>7, <1>8, <1>10 DEF Follows, Up
  <1>12. Run(cur, units) \subseteq Units \cap free /\ cur + units <= Top
    <2>1. cur + list[cur].units <= Top
      BY <1>1, <1>7, <1>8
    <2>2. cur + units <= Top
      BY <1>3, <1>8, <2>1
    <2>3. ASSUME NEW i \in Run(cur, units)  PROVE i \in Units /\ i \in free
      <3>1. i \in Nat /\ cur <= i /\ i < cur + units
        BY <1>8 DEF Run
      <3>2. i \in Units
        <4>1. i < Top
          BY <1>3, <1>8, <2>2, <3>1
        <4> QED  BY <1>3, <3>1, <4>1, UnitNumbers
      <3>3. i < cur + list[cur].units
        BY <1>8, <3>1
      <3> QED  BY <1>1, <1>7, <1>8, <3>1, <3>2, <3>3
    <2> QED  BY <2>2, <2>3
  <1> DEFINE f == free \ Run(cur, units)
             t == [list |-> new, start |-> prev]
  <1>13. CASE exact
    <2> DEFINE E == D \ {cur}
    <2>1. rest = next /\ (D \ {cur}) \cup {rest} = E
      BY <1>10, <1>13
    <2>2. /\ DOMAIN new = E
          /\ \A b \in E : new[b] = IF b = prev THEN [list[b] EXCEPT !.next = next] ELSE list[b]
      BY <1>13, <2>1
    <2> HIDE DEF new, next, rest
    <2>3. /\ new \in [E -> [units : Nat, next : E]]
          /\ \A b \in E : new[b].units = list[b].units
          /\ new[prev].next = next /\ \A b \in E \ {prev} : new[b].next = list[b].next
      <3>1. ASSUME NEW b \in E, b # prev  PROVE list[b].next # cur
        <4>1. Follows(D, b, list[b].next) /\ b \in D /\ b \in Int /\ prev \in Int
          BY <1>2, <1>3, <1>7
        <4> QED  BY <1>7, <1>8, <1>10, <3>1, <4>1 DEF Follows, Up
      <3>2. \A b \in E : new[b] = [units |-> list[b].units, next |-> IF b = prev THEN next ELSE list[b].next]
        BY <1>2, <2>2
      <3>3. prev \in E /\ next \in E
        BY <1>7, <1>9, <1>10
      <3>4. ASSUME NEW b \in E  PROVE new[b] \in [units : Nat, next : E]
        <4>1. list[b].next \in D /\ list[b].units \in Nat
          BY <1>2
        <4> DEFINE z == IF b = prev THEN next ELSE list[b].next
        <4>2. z \in E
          BY <3>1, <3>3, <4>1
        <4>3. new[b] = [units |-> list[b].units, next |-> z]
          BY <3>2
        <4> HIDE DEF z
        <4> QED  BY <4>1, <4>2, <4>3
      <3>5. new = [b \in E |-> new[b]]
        BY <2>2 DEF new
      <3> QED  BY <3>2, <3>3, <3>4, <3>5
    <2>4. \A b \in E : Follows(E, b, new[b].next)
      <3> SUFFICES ASSUME NEW b \in E  PROVE Follows(E, b, new[b].next)
        OBVIOUS
      <3>1. new[b].next \in E
        BY <2>3
      <3>2. CASE b = prev
        <4>1. prev < Up(next)
          BY <1>3, <1>7, <1>10, <1>11, UnitNumbers DEF Follows, Up
        <4>2. \A y \in E : prev < y => Up(next) <= y
          BY <1>10, <1>11 DEF Follows
        <4> QED  BY <2>3, <3>1, <3>2, <4>1, <4>2 DEF Follows
      <3>3. CASE b # prev
        <4>1. Follows(D, b, new[b].next)
          BY <1>2, <2>3, <3>3
        <4> QED  BY <3>1, <4>1 DEF Follows
      <3> QED  BY <3>2, <3>3
    <2>5. Ring(new, E)
      <3>1. arena \in E /\ E \subseteq Units \cup {arena}
        BY <1>2, <1>8
      <3> QED  BY <2>3, <2>4, <3>1 DEF Ring
    <2>6. \A i \in Units : i \in f <=> \E b \in E \ {arena} : b <= i /\ i < b + new[b].units
      <3> SUFFICES ASSUME NEW i \in Units
                   PROVE  i \in f <=> \E b \in E \ {arena} : b <= i /\ i < b + new[b].units
        OBVIOUS
      <3>1. i \in Nat /\ (i \in Run(cur, units) <=> cur <= i /\ i < cur + list[cur].units)
        BY <1>8, <1>13, UnitNumbers DEF Run
      <3>2. \A b \in E : b <= i /\ i < b + list[b].units => ~(cur <= i /\ i < cur + list[cur].units)
        <4> SUFFICES ASSUME NEW b \in E, b <= i, i < b + list[b].units, cur <= i, i < cur + list[cur].units
                     PROVE  FALSE
          OBVIOUS
        <4>1. b \in D /\ b # cur /\ b \in Int /\ list[b].units \in Nat
          BY <1>2, <1>3
        <4>2. b < cur => b + list[b].units < cur
          BY <1>1, <1>7, <4>1
        <4>3. cur < b => cur + list[cur].units < b
          BY <1>1, <1>7, <4>1
        <4> QED  BY <1>8, <3>1, <4>1, <4>2, <4>3
      <3>3. i \in f <=> i \in free /\ ~(cur <= i /\ i < cur + list[cur].units)
        BY <3>1
      <3>4. i \in free <=> \E b \in D \ {arena} : b <= i /\ i < b + list[b].units
        BY <1>1
      <3>5. \A b \in E : new[b].units = list[b].units
        BY <2>3
      <3> HIDE DEF f
      <3> QED  BY <3>2, <3>3, <3>4, <3>5
    <2>7. prev \in E /\ new[arena].units = 1
      BY <1>1, <1>2, <1>7, <1>8, <1>9, <2>3
    <2>8. /\ \A b \in E \ {arena} : 1 <= new[b].units /\ b + new[b].units <= Top
          /\ \A b, c \in E : b < c => b + new[b].units < c
      BY <1>1, <2>3
    <2>9. t.list = new /\ t.start = prev
      OBVIOUS
    <2> HIDE DEF t, f
    <2>10. SlobBlocks(t, f)
      BY <2>2, <2>5, <2>6, <2>7, <2>8, <2>9 DEF SlobBlocks
    <2> QED  BY <1>5, <1>8, <1>12, <2>10 DEF r, t, f
  <1>14. CASE ~exact
    <2> DEFINE E == (D \ {cur}) \cup {rest}
               left == list[cur].units - units
    <2>1. /\ rest = cur + units /\ left \in Nat /\ left >= 1 /\ rest \in Nat
          /\ cur < rest /\ rest + left = cur + list[cur].units /\ rest < cur + list[cur].units
      BY <1>8, <1>14
    <2>2. rest \notin D /\ rest \in Units /\ rest # prev /\ rest # arena
      <3>1. cur + list[cur].units <= Top
        BY <1>1, <1>7, <1>8
      <3>2. rest < Top
        BY <1>3, <1>8, <2>1, <3>1
      <3>3. rest \notin D
        <4>1. rest \in D => cur + list[cur].units < rest
          BY <1>1, <1>7, <2>1
        <4> QED  BY <1>8, <2>1, <4>1
      <3> QED  BY <1>2, <1>7, <2>1, <3>2, <3>3, UnitNumbers
    <2>3. /\ new[rest] = [units |-> left, next |-> next]
          /\ \A b \in D \ {cur} : new[b] = IF b = prev THEN [list[b] EXCEPT !.next = rest] ELSE list[b]
          /\ DOMAIN new = E
      BY <1>14, <2>1, <2>2
    <2> HIDE DEF new, next, rest, left
    <2>4. rest < Up(next) /\ \A y \in D : y # cur => (rest < y <=> cur < y)
      <3>1. \A y \in D : cur < y => rest < y
        <4> SUFFICES ASSUME NEW y \in D, cur < y  PROVE rest < y
          OBVIOUS
        <4>1. cur + list[cur].units < y /\ y \in Int
          BY <1>1, <1>3, <1>7
        <4> QED  BY <1>8, <2>1, <4>1
      <3>2. \A y \in D : rest < y => cur < y
        BY <1>3, <1>8, <2>1
      <3>3. rest < Up(next)
        BY <1>10, <2>2, <3>1, UnitNumbers DEF Follows, Up
      <3> QED  BY <3>1, <3>2, <3>3
    <2>5. /\ new \in [E -> [units : Nat, next : E]]
          /\ \A b \in D \ {cur} : new[b].units = list[b].units
          /\ new[rest].units = left /\ new[rest].next = next
          /\ new[prev].next = rest /\ \A b \in D \ {cur, prev} : new[b].next = list[b].next
      <3>1. ASSUME NEW b \in D \ {cur}, b # prev  PROVE list[b].next # cur
        <4>1. Follows(D, b, list[b].next) /\ b \in Int /\ prev \in Int
          BY <1>2, <1>3, <1>7
        <4> QED  BY <1>7, <1>8, <1>10, <3>1, <4>1 DEF Follows, Up
      <3>2. \A b \in D \ {cur} :
               new[b] = [units |-> list[b].units, next |-> IF b = prev THEN rest ELSE list[b].next]
        BY <1>2, <2>3
      <3>3. prev \in D \ {cur} /\ next \in E
        BY <1>7, <1>9, <1>10
      <3>4. ASSUME NEW b \in D \ {cur}  PROVE new[b] \in [units : Nat, next : E]
        <4>1. list[b].next \in D /\ list[b].units \in Nat
          BY <1>2
        <4> DEFINE z == IF b = prev THEN rest ELSE list[b].next
        <4>2. z \in E
          BY <3>1, <3>3, <4>1
        <4>3. new[b] = [units |-> list[b].units, next |-> z]
          BY <3>2
        <4> HIDE DEF z
        <4> QED  BY <4>1, <4>2, <4>3
      <3>5. new[rest] \in [units : Nat, next : E]
        BY <2>1, <2>3, <3>3
      <3>6. new = [b \in E |-> new[b]]
        BY <2>3 DEF new
      <3>7. new \in [E -> [units : Nat, next : E]]
        BY <3>4, <3>5, <3>6
      <3>8. new[rest].units = left /\ new[rest].next = next
        BY <2>3
      <3>9. ASSUME NEW b \in D \ {cur}
            PROVE  new[b].units = list[b].units /\ new[b].next = IF b = prev THEN rest ELSE list[b].next
        <4> DEFINE z == IF b = prev THEN rest ELSE list[b].next
        <4>1. new[b] = [units |-> list[b].units, next |-> z]
          BY <3>2
        <4> HIDE DEF z
        <4>2. new[b].units = list[b].units /\ new[b].next = z
          BY <4>1
        <4> QED  BY <4>2 DEF z
      <3>10. new[prev].next = rest /\ \A b \in D \ {cur, prev} : new[b].next = list[b].next
        BY <3>3, <3>9
      <3> QED  BY <3>7, <3>8, <3>9, <3>10
    <2>6. \A b \in E : Follows(E, b, new[b].next)
      <3> SUFFICES ASSUME NEW b \in E  PROVE Follows(E, b, new[b].next)
        OBVIOUS
      <3>1. new[b].next \in E
        BY <2>5
      <3>2. CASE b = prev
        <4>1. prev < Up(rest) /\ Up(rest) = rest
          BY <1>3, <1>7, <1>8, <1>11, <2>1, <2>2 DEF Up
        <4>2. \A y \in E : prev < y => rest <= y
          <5> SUFFICES ASSUME NEW y \in E, prev < y  PROVE rest <= y
            OBVIOUS
          <5>1. CASE y = rest
            BY <2>1, <5>1
          <5>2. CASE y # rest
            <6>1. y \in D /\ y # cur /\ y \in Int
              BY <1>3, <5>2
            <6>2. rest < y
              BY <1>11, <2>4, <6>1
            <6> QED  BY <2>1, <6>1, <6>2
          <5> QED  BY <5>1, <5>2
        <4> QED  BY <2>5, <3>1, <3>2, <4>1, <4>2 DEF Follows
      <3>3. CASE b = rest
        <4>1. \A y \in E : rest < y => Up(next) <= y
          <5> SUFFICES ASSUME NEW y \in E, rest < y  PROVE Up(next) <= y
            OBVIOUS
          <5>1. y \in D /\ y # cur
            BY <2>1
          <5> QED  BY <1>10, <2>4, <5>1 DEF Follows
        <4> QED  BY <2>4, <2>5, <3>1, <3>3, <4>1 DEF Follows
      <3>4. CASE b # prev /\ b # rest
        <4> DEFINE z == new[b].next
        <4>1. b \in D /\ b # cur /\ z = list[b].next /\ z # cur
          <5>1. b \in D \ {cur, prev}
            BY <3>4
          <5>2. z = list[b].next
            BY <2>5, <5>1
          <5>3. z # cur
            BY <1>8, <2>2, <3>1, <2>1
          <5> QED  BY <5>1, <5>2, <5>3
        <4>2. Follows(D, b, z)
          BY <1>2, <4>1
        <4> HIDE DEF z
        <4>3. b < rest => Up(z) <= rest
          <5> SUFFICES ASSUME b < rest  PROVE Up(z) <= rest
            OBVIOUS
          <5>1. b < cur
            BY <1>3, <1>7, <1>8, <2>1, <2>4, <4>1
          <5>2. Up(z) <= cur
            BY <1>7, <4>2, <5>1 DEF Follows
          <5>3. Up(z) \in Int
            BY <1>3, <4>2 DEF Follows, Up
          <5> QED  BY <1>8, <2>1, <5>2, <5>3
        <4> QED  BY <3>1, <4>2, <4>3 DEF Follows, z
      <3> QED  BY <3>2, <3>3, <3>4
    <2>7. Ring(new, E)
      <3>1. arena \in E /\ E \subseteq Units \cup {arena}
        BY <1>2, <1>8, <2>2
      <3> QED  BY <2>5, <2>6, <3>1 DEF Ring
    <2>8. \A b \in D \ {cur} : b \in D /\ b \in Int /\ list[b].units \in Nat
                             /\ (b < cur => b + list[b].units < cur) /\ (cur < b => cur + list[cur].units < b)
      BY <1>1, <1>2, <1>3, <1>7
    <2>9. \A i \in Units : i \in f <=> \E b \in E \ {arena} : b <= i /\ i < b + new[b].units
      <3> SUFFICES ASSUME NEW i \in Units
                   PROVE  i \in f <=> \E b \in E \ {arena} : b <= i /\ i < b + new[b].units
        OBVIOUS
      <3>1. i \in Nat /\ (i \in Run(cur, units) <=> cur <= i /\ i < rest)
        BY <1>8, <2>1, UnitNumbers DEF Run
      <3>2. i \in free <=> \E b \in D \ {arena} : b <= i /\ i < b + list[b].units
        BY <1>1
      <3>3. ASSUME i \in f  PROVE \E b \in E \ {arena} : b <= i /\ i < b + new[b].units
        <4>1. PICK b \in D \ {arena} : b <= i /\ i < b + list[b].units
          BY <3>2, <3>3
        <4>2. CASE b = cur
          <5>1. rest <= i /\ i < rest + left
            BY <1>8, <2>1, <3>1, <3>3, <4>1, <4>2
          <5> QED  BY <2>2, <2>5, <5>1
        <4>3. CASE b # cur
          BY <2>5, <4>1, <4>3
        <4> QED  BY <4>2, <4>3
      <3>4. ASSUME NEW b \in E \ {arena}, b <= i, i < b + new[b].units  PROVE i \in f
        <4>1. CASE b = rest
          <5>1. cur <= i /\ i < cur + list[cur].units /\ ~(i < rest)
            BY <1>8, <2>1, <2>5, <3>1, <3>4, <4>1
          <5> QED  BY <1>7, <1>8, <3>1, <3>2, <5>1
        <4>2. CASE b # rest
          <5>1. b \in D \ {cur} /\ new[b].units = list[b].units
            BY <2>5, <4>2
          <5>2. i \in free
            BY <3>2, <3>4, <5>1
          <5>3. ~(cur <= i /\ i < rest)
            BY <1>8, <2>1, <2>8, <3>1, <3>4, <5>1
          <5> QED  BY <3>1, <5>2, <5>3
        <4> QED  BY <4>1, <4>2
      <3> QED  BY <3>3, <3>4
    <2>10. prev \in E /\ new[arena].units = 1
      BY <1>1, <1>2, <1>7, <1>8, <1>9, <2>5
    <2>11. /\ \A b \in E \ {arena} : 1 <= new[b].units /\ b + new[b].units <= Top
      <3>1. cur + list[cur].units <= Top
        BY <1>1, <1>7, <1>8
      <3> QED  BY <1>1, <2>1, <2>5, <3>1
    <2>12. \A b, c \in E : b < c => b + new[b].units < c
      <3> SUFFICES ASSUME NEW b \in E, NEW c \in E, b < c  PROVE b + new[b].units < c
        OBVIOUS
      <3>1. CASE b # rest /\ c # rest
        BY <1>1, <2>5, <3>1
      <3>2. CASE b = rest
        <4>1. c \in D \ {cur} /\ cur < c
          BY <2>1, <2>4, <3>2
        <4> QED  BY <1>8, <2>1, <2>5, <2>8, <3>2, <4>1
      <3>3. CASE b # rest /\ c = rest
        <4>1. b \in D \ {cur} /\ new[b].units = list[b].units
          BY <2>5, <3>3
        <4>2. b < cur
          BY <1>8, <2>1, <2>4, <2>8, <3>3, <4>1
        <4> QED  BY <1>8, <2>1, <2>8, <3>3, <4>1, <4>2
      <3> QED  BY <3>1, <3>2, <3>3
    <2>13. t.list = new /\ t.start = prev
      OBVIOUS
    <2> HIDE DEF t, f
    <2>14. SlobBlocks(t, f)
      BY <2>3, <2>7, <2>9, <2>10, <2>11, <2>12, <2>13 DEF SlobBlocks
    <2> QED  BY <1>5, <1>8, <1>12, <2>14 DEF r, t, f
  <1>15. r.list = new /\ r.start = prev /\ r.at = cur
    BY <1>5
  <1> QED  BY <1>8, <1>12, <1>13, <1>14, <1>15 DEF r

\* slob_free finds the place of b in the order of addresses.
LEMMA PlaceFound ==
    ASSUME NEW s, Ring(s.list, DOMAIN s.list), s.start \in DOMAIN s.list,
           NEW b \in Units, b \notin DOMAIN s.list
    PROVE  LET cur == Reinsertion(s, b)
           IN  cur \in DOMAIN s.list /\ cur < b /\ b < Up(s.list[cur].next)
  <1> DEFINE D == DOMAIN s.list
             list == s.list
             order == <<s.start>> \o Front(Round(s))
             Here(c) == LET next == list[c].next
                        IN  \/ b > c /\ b < next
                            \/ c >= next /\ (b > c \/ b < next)
             places == {k \in DOMAIN order : Here(order[k])}
             cur == Reinsertion(s, b)
  <1>1. /\ arena \in D /\ list \in [D -> [units : Nat, next : D]]
        /\ \A c \in D : Follows(D, c, list[c].next) /\ c \in Int /\ arena <= c /\ c < Top
        /\ IsFiniteSet(D) /\ b \in Nat /\ b < Top /\ arena < b /\ Top \in Int /\ arena = -2
    <2>1. /\ D \in SUBSET (Units \cup {arena}) /\ arena \in D
          /\ list \in [D -> [units : Nat, next : D]] /\ \A c \in D : Follows(D, c, list[c].next)
      BY DEF Ring
    <2>2. IsFiniteSet(D)
      <3> HIDE DEF D
      <3> QED  BY <2>1, UnitNumbers, FS_Subset
    <2>3. \A c \in D : c \in Int /\ arena <= c /\ c < Top
      <3> SUFFICES ASSUME NEW c \in D  PROVE c \in Int /\ arena <= c /\ c < Top
        OBVIOUS
      <3>1. c \in Units \/ c = arena
        BY <2>1
      <3> QED  BY <3>1, UnitNumbers
    <2>4. b \in Nat /\ b < Top /\ arena < b /\ Top \in Int /\ arena = -2
      BY UnitNumbers
    <2> HIDE DEF D
    <2> QED  BY <2>1, <2>2, <2>3, <2>4
  <1>2. cur = order[Min(places)]
    BY DEF Reinsertion
  <1>3. PICK n \in Nat : \E g : Around(g, s, n)
    BY RoundTrip
  <1>4. PICK g : Around(g, s, n)
    BY <1>3
  <1>5. /\ n > 0 /\ g \in [0 .. n -> D] /\ g[0] = s.start
        /\ {g[k] : k \in 0 .. n - 1} = D /\ Round(s) = [k \in 1 .. n |-> g[k]]
    BY <1>4 DEF Around
  <1>6. /\ DOMAIN order = 1 .. n
        /\ \A k \in 1 .. n : order[k] = g[k - 1]
    <2> HIDE DEF D
    <2>1. /\ Round(s) \in Seq(D) /\ Len(Round(s)) = n /\ \A k \in 1 .. n : Round(s)[k] = g[k]
      BY <1>5
    <2> DEFINE front == Front(Round(s))
    <2>2. /\ front \in Seq(D) /\ Len(front) = n - 1 /\ \A k \in 1 .. n - 1 : front[k] = Round(s)[k]
      BY <1>5, <2>1 DEF Front
    <2> HIDE DEF front
    <2>3. <<s.start>> \in Seq(D) /\ Len(<<s.start>>) = 1 /\ <<s.start>>[1] = s.start
      <3>1. s.start \in D
        BY DEF D
      <3> QED  BY <3>1
    <2>4. Len(order) = n /\ order \in Seq(D)
      BY <1>5, <2>2, <2>3 DEF front
    <2>5. ASSUME NEW k \in 1 .. n  PROVE order[k] = g[k - 1]
      <3>1. CASE k = 1
        BY <1>5, <2>2, <2>3, <3>1 DEF front
      <3>2. CASE k # 1
        <4>1. order[k] = front[k - 1]
          <5>1. k > 1 /\ k <= 1 + Len(front)
            BY <2>2, <3>2
          <5> QED  BY <2>2, <2>3, <5>1 DEF front
        <4>2. k - 1 \in 1 .. n - 1 /\ k - 1 \in 1 .. n
          BY <3>2
        <4>3. front[k - 1] = g[k - 1]
          BY <2>1, <2>2, <4>2
        <4> QED  BY <4>1, <4>3
      <3> QED  BY <3>1, <3>2
    <2> QED  BY <2>4, <2>5
  <1> HIDE DEF order, cur
  <1>7. places # {}
    <2> DEFINE P == {c \in D : c < b}
    <2>1. P # {} /\ IsFiniteSet(P) /\ P \subseteq Int
      <3>1. arena \in P /\ P \in SUBSET D
        BY <1>1
      <3> QED  BY <1>1, <3>1, FS_Subset
    <2>2. PICK p \in P : \A q \in P : q <= p
      <3> HIDE DEF P
      <3> QED  BY <2>1, MaxOfSet
    <2>3. p \in D /\ p < b /\ p \in Int /\ arena <= p
      BY <1>1, <2>2
    <2> DEFINE z == list[p].next
    <2>4. Follows(D, p, z) /\ z \in D /\ z \in Int /\ z # b
      <3>1. Follows(D, p, z)
        BY <1>1, <2>3
      <3> QED  BY <1>1, <3>1 DEF Follows
    <2> HIDE DEF z
    <2>5. Here(p)
      <3>1. CASE z = arena
        BY <1>1, <2>3, <3>1 DEF z
      <3>2. CASE z # arena
        <4>1. p < z
          BY <2>4, <3>2 DEF Follows, Up
        <4>2. ~(z < b)
          BY <2>2, <2>3, <2>4, <4>1
        <4>3. b < z
          BY <1>1, <2>4, <4>2
        <4> QED  BY <2>3, <4>3 DEF z
      <3> QED  BY <3>1, <3>2
    <2>6. PICK k \in 0 .. n - 1 : g[k] = p
      BY <1>5, <2>3
    <2>7. k + 1 \in 1 .. n /\ order[k + 1] = p
      BY <1>5, <1>6, <2>6
    <2> QED  BY <1>6, <2>5, <2>7
  <1>8. Min(places) \in places
    <2>1. places \subseteq Nat
      BY <1>6
    <2> HIDE DEF places
    <2> QED  BY <1>7, <2>1, MinOfSet
  <1>9. cur \in D /\ Here(cur)
    <2>1. PICK k \in 1 .. n : Here(order[k]) /\ cur = order[k]
      BY <1>2, <1>6, <1>8
    <2>2. order[k] \in D
      <3>1. k - 1 \in 0 .. n
        BY <2>1
      <3>2. order[k] = g[k - 1]
        BY <1>6, <2>1
      <3> QED  BY <1>5, <3>1, <3>2
    <2> QED  BY <2>1, <2>2
  <1>10. cur < b /\ b < Up(list[cur].next)
    <2> DEFINE z == list[cur].next
    <2>1. Follows(D, cur, z) /\ cur \in Int
      BY <1>1, <1>9
    <2>2. z \in D /\ cur < Up(z) /\ z \in Int
      BY <1>1, <2>1 DEF Follows
    <2>3. \/ b > cur /\ b < z
          \/ cur >= z /\ (b > cur \/ b < z)
      BY <1>9
    <2> HIDE DEF z
    <2>4. CASE b > cur /\ b < z
      BY <1>1, <2>1, <2>2, <2>4 DEF Up, z
    <2>5. CASE cur >= z /\ (b > cur \/ b < z)
      <3>1. z = arena
        BY <2>1, <2>2, <2>5 DEF Up
      <3> QED  BY <1>1, <2>1, <2>5, <3>1 DEF Up, z
    <2> QED  BY <2>3, <2>4, <2>5
  <1> QED  BY <1>9, <1>10 DEF cur

\* What is given back takes its place in the ring, joined with the blocks that adjoin.
LEMMA SlobFreed ==
    ASSUME NEW s, NEW free, SlobBlocks(s, free), NEW b \in Units, NEW units \in Nat \ {0},
           Run(b, units) \subseteq Units \ free
    PROVE  LET r == slob_free(s, b, units)
           IN  /\ SlobBlocks(r, free \cup Run(b, units))
               /\ \E x \in DOMAIN r.list : r.list[x].units >= units
  <1> DEFINE D == DOMAIN s.list
             list == s.list
             cur == Reinsertion(s, b)
             next == list[cur].next
             behind == b + units = next
             front == cur + list[cur].units = b
             new == IF behind THEN [units |-> units + list[next].units, next |-> list[next].next]
                    ELSE [units |-> units, next |-> next]
             left == [x \in D \ (IF behind THEN {next} ELSE {}) |-> list[x]]
             L == IF front THEN [left EXCEPT ![cur] = [new EXCEPT !.units = @ + list[cur].units]]
                  ELSE Spliced(left, cur, b, new)
             r == slob_free(s, b, units)
             nb == IF front THEN cur ELSE b
             nn == IF behind THEN list[next].next ELSE next
             top == IF behind THEN next + list[next].units ELSE b + units
             there == D \ (IF behind THEN {next} ELSE {})
             E == there \cup {nb}
  <1>1. r = [list |-> L, start |-> cur]
    BY DEF slob_free
  <1>2. /\ Ring(list, D) /\ s.start \in D /\ list[arena].units = 1
        /\ \A c \in D \ {arena} : 1 <= list[c].units /\ c + list[c].units <= Top
        /\ \A c, d \in D : c < d => c + list[c].units < d
        /\ \A i \in Units : i \in free <=> \E c \in D \ {arena} : c <= i /\ i < c + list[c].units
    BY DEF SlobBlocks
  <1>3. /\ arena \in D /\ D \subseteq Units \cup {arena} /\ list \in [D -> [units : Nat, next : D]]
        /\ \A c \in D : Follows(D, c, list[c].next) /\ list[c].next \in D /\ list[c].units \in Nat
    <2>1. /\ arena \in D /\ D \subseteq Units \cup {arena} /\ list \in [D -> [units : Nat, next : D]]
          /\ \A c \in D : Follows(D, c, list[c].next)
      BY <1>2 DEF Ring
    <2> QED  BY <2>1
  <1>4. /\ Top \in Nat /\ arena = -2 /\ b \in Nat /\ b < Top
        /\ \A c \in D : c \in Int /\ arena <= c /\ c < Top /\ (c # arena => c \in Nat /\ c \in Units)
    BY <1>3, UnitNumbers
  <1>5. b + units <= Top /\ \A i \in Nat : b <= i /\ i < b + units => i \in Units /\ i \notin free
    <2>1. \A i \in Nat : b <= i /\ i < b + units => i \in Units /\ i \notin free
      BY <1>4 DEF Run
    <2>2. b + units - 1 \in Units
      BY <1>4, <2>1
    <2> QED  BY <1>4, <2>1, <2>2, UnitNumbers
  <1>6. \A y \in D \ {arena} : y \in Nat /\ 1 <= list[y].units /\ list[y].units \in Nat
            /\ (y + list[y].units <= b \/ b + units <= y)
    <2> SUFFICES ASSUME NEW y \in D \ {arena}
                 PROVE  y + list[y].units <= b \/ b + units <= y
      BY <1>2, <1>3, <1>4
    <2>1. y \in Nat /\ 1 <= list[y].units /\ list[y].units \in Nat /\ y \in Units
      BY <1>2, <1>3, <1>4
    <2>2. ~(y <= b /\ b < y + list[y].units)
      BY <1>2, <1>4, <1>5
    <2>3. ~(b <= y /\ y < b + units)
      BY <1>2, <1>5, <2>1
    <2> QED  BY <1>4, <2>1, <2>2, <2>3
  <1>7. b \notin D
    BY <1>4, <1>6
  <1> HIDE DEF D, list, L, r
  <1>8. cur \in D /\ cur < b /\ b < Up(next)
    <2> HIDE DEF cur
    <2> QED  BY <1>2, <1>7, PlaceFound DEF D, list, cur
  <1> HIDE DEF cur
  <1>9. /\ next \in D /\ cur < Up(next) /\ \A y \in D : cur < y => Up(next) <= y
        /\ list[cur].units \in Nat /\ cur \in Int /\ next \in Int
    BY <1>3, <1>4, <1>8 DEF Follows
  <1> DEFINE cu == list[cur].units
             nu == list[next].units
             nnn == list[next].next
  <1>10. /\ cu \in Nat /\ cur + cu <= b
         /\ \A y \in D : b < y => y \in Nat /\ b + units <= y
         /\ \A y \in D : y < b => y <= cur
         /\ next # arena => next \in Nat /\ b + units <= next
    <2>1. cur + cu <= b
      BY <1>2, <1>4, <1>6, <1>8, <1>9
    <2>2. \A y \in D : b < y => y \in Nat /\ b + units <= y
      BY <1>4, <1>6
    <2>3. \A y \in D : y < b => y <= cur
      <3> SUFFICES ASSUME NEW y \in D, y < b, cur < y  PROVE FALSE
        BY <1>4, <1>9
      <3>1. Up(next) <= y
        BY <1>9
      <3> QED  BY <1>4, <1>8, <1>9, <3>1 DEF Up
    <2>4. next # arena => next \in Nat /\ b + units <= next
      BY <1>8, <1>9, <2>2 DEF Up
    <2> QED  BY <1>9, <2>1, <2>2, <2>3, <2>4
  <1>11. /\ nu \in Nat /\ nnn \in D /\ nnn \in Int /\ Follows(D, next, nnn)
         /\ behind => next \in Nat /\ next # arena /\ next > b /\ next # cur /\ nnn # next /\ nu >= 1
    <2>1. nu \in Nat /\ nnn \in D /\ nnn \in Int /\ Follows(D, next, nnn)
      BY <1>3, <1>4, <1>9
    <2>2. behind => next \in Nat /\ next # arena /\ next > b /\ next # cur /\ nu >= 1
      BY <1>4, <1>6, <1>8, <1>9
    <2>3. behind => nnn # next
      BY <2>1, <2>2 DEF Follows, Up
    <2> QED  BY <2>1, <2>2, <2>3
  <1>12. /\ nb \in Int /\ nb <= b /\ top \in Nat /\ b + units <= top /\ nb < top /\ nb + 1 <= top
         /\ nn \in D /\ arena <= nb
         /\ front => nb = cur
         /\ ~front => nb = b /\ cur < b /\ cur + cu < b
    BY <1>4, <1>8, <1>9, <1>10, <1>11
  <1>13. /\ E \subseteq D \cup {b} /\ arena \in E /\ cur \in E /\ nb \in E /\ nn \in E
         /\ \A y \in E : y = nb \/ y \in D
         /\ \A y \in E \ {nb} : y \in D /\ (behind => y # next)
         /\ \A y \in D : (behind => y # next) => y \in E
    BY <1>3, <1>8, <1>9, <1>11, <1>12
  \* Every other block ends before the new one or starts behind it.
  <1>14. \A y \in E \ {nb} : y + list[y].units < nb \/ top < y
    <2> SUFFICES ASSUME NEW y \in E \ {nb}  PROVE y + list[y].units < nb \/ top < y
      OBVIOUS
    <2>1. y \in D /\ y \in Int /\ list[y].units \in Nat /\ (behind => y # next) /\ y # b
      BY <1>3, <1>4, <1>7, <1>13
    <2>2. CASE y < b
      <3>1. y <= cur
        BY <1>10, <2>1, <2>2
      <3>2. CASE y = cur
        BY <1>12, <1>13, <2>1, <3>2
      <3>3. CASE y # cur
        <4>1. y < cur
          BY <1>9, <2>1, <3>1, <3>3
        <4>2. y + list[y].units < cur
          BY <1>2, <1>8, <2>1, <4>1
        <4> QED  BY <1>8, <1>9, <1>12, <2>1, <4>2
      <3> QED  BY <3>2, <3>3
    <2>3. CASE b < y
      <3>1. cur < y /\ b + units <= y
        BY <1>4, <1>8, <1>9, <1>10, <2>1, <2>3
      <3>2. next # arena /\ next <= y
        BY <1>4, <1>9, <2>1, <3>1 DEF Up
      <3>3. b + units <= next
        BY <1>10, <3>2
      <3>4. CASE y = next
        BY <1>4, <1>9, <1>10, <2>1, <3>3, <3>4
      <3>5. CASE y # next
        <4>1. next < y
          BY <1>9, <2>1, <3>2, <3>5
        <4>2. next + nu < y
          BY <1>2, <1>9, <2>1, <4>1
        <4> QED  BY <1>4, <1>9, <1>11, <2>1, <3>3, <4>1, <4>2
      <3> QED  BY <3>4, <3>5
    <2> QED  BY <1>4, <2>1, <2>2, <2>3
  <1>15. /\ DOMAIN L = E /\ L[nb] = [units |-> top - nb, next |-> nn]
         /\ \A y \in E \ {nb} : L[y] = IF y = cur THEN [list[y] EXCEPT !.next = b] ELSE list[y]
         /\ L = [y \in E |-> L[y]]
    <2>1. CASE front
      <3>1. L = [left EXCEPT ![cur] = [new EXCEPT !.units = @ + cu]] /\ DOMAIN left = E
        <4>1. L = [left EXCEPT ![cur] = [new EXCEPT !.units = @ + cu]]
          BY <2>1 DEF L
        <4>2. there = E
          BY <1>12, <1>13, <1>8, <1>11, <2>1
        <4> QED  BY <4>1, <4>2
      <3>2. [new EXCEPT !.units = @ + cu] = [units |-> top - nb, next |-> nn]
        <4>1. CASE behind
          <5>1. new = [units |-> units + nu, next |-> nnn]
            BY <4>1
          <5>2. [new EXCEPT !.units = @ + cu] = [units |-> units + nu + cu, next |-> nnn]
            BY <5>1
          <5>3. units + nu + cu = top - nb
            BY <1>4, <1>9, <1>10, <1>11, <2>1, <4>1
          <5> QED  BY <4>1, <5>2, <5>3
        <4>2. CASE ~behind
          <5>1. new = [units |-> units, next |-> next]
            BY <4>2
          <5>2. [new EXCEPT !.units = @ + cu] = [units |-> units + cu, next |-> next]
            BY <5>1
          <5>3. units + cu = top - nb
            BY <1>4, <1>9, <1>10, <2>1, <4>2
          <5> QED  BY <4>2, <5>2, <5>3
        <4> QED  BY <4>1, <4>2
      <3>3. nb = cur /\ cur \in E
        BY <1>13, <2>1
      <3>4. \A y \in E : left[y] = list[y]
        BY <3>1
      <3> HIDE DEF left, E, nb, nn, top, new
      <3> QED  BY <3>1, <3>2, <3>3, <3>4
    <2>2. CASE ~front
      <3>1. L = Spliced(left, cur, b, new) /\ nb = b /\ DOMAIN left = there /\ E = there \cup {b} /\ cur # b
        BY <1>4, <1>8, <2>2 DEF L
      <3>2. new = [units |-> top - nb, next |-> nn]
        <4>1. CASE behind
          <5>1. units + nu = top - nb
            BY <1>4, <1>9, <1>11, <2>2, <4>1
          <5> QED  BY <4>1, <5>1
        <4>2. CASE ~behind
          <5>1. units = top - nb
            BY <1>4, <2>2, <4>2
          <5> QED  BY <4>2, <5>1
        <4> QED  BY <4>1, <4>2
      <3>3. \A y \in there : left[y] = list[y]
        OBVIOUS
      <3>4. \A y \in E \ {nb} : y \in there
        BY <3>1
      <3> HIDE DEF left, there, E, nb, nn, top, new
      <3>5. L = [x \in E |-> IF x = b THEN new ELSE IF x = cur THEN [left[x] EXCEPT !.next = b] ELSE left[x]]
        BY <3>1 DEF Spliced
      <3>6. nb \in E
        BY <3>1
      <3>7. \A y \in E \ {nb} : L[y] = IF y = cur THEN [list[y] EXCEPT !.next = b] ELSE list[y]
        BY <3>1, <3>3, <3>4, <3>5
      <3> QED  BY <3>1, <3>2, <3>5, <3>6, <3>7
    <2> QED  BY <2>1, <2>2
  <1> HIDE DEF L, E, nb, nn, top, new, left, there, next, front, behind
  <1>16. /\ L[nb].units = top - nb /\ L[nb].next = nn
         /\ \A y \in E \ {nb} : L[y].units = list[y].units /\ list[y].units \in Nat
                               /\ L[y].next = IF y = cur THEN b ELSE list[y].next
    <2>1. L[nb].units = top - nb /\ L[nb].next = nn
      BY <1>15
    <2>2. ASSUME NEW y \in E \ {nb}
          PROVE  /\ L[y].units = list[y].units /\ list[y].units \in Nat
                 /\ L[y].next = IF y = cur THEN b ELSE list[y].next
      <3>1. y \in D /\ list[y] = [units |-> list[y].units, next |-> list[y].next] /\ list[y].units \in Nat
        BY <1>3, <1>13
      <3>2. CASE y = cur
        <4>1. L[y] = [units |-> list[y].units, next |-> b]
          BY <1>15, <3>1, <3>2
        <4> QED  BY <3>1, <3>2, <4>1
      <3>3. CASE y # cur
        BY <1>15, <3>1, <3>3
      <3> QED  BY <3>2, <3>3
    <2> QED  BY <2>1, <2>2
  \* Only cur leads to next.
  <1>17. \A y \in E \ {nb, cur} : list[y].next \in E
    <2> SUFFICES ASSUME NEW y \in E \ {nb, cur}  PROVE list[y].next \in E
      OBVIOUS
    <2> DEFINE z == list[y].next
    <2>1. y \in D /\ y \in Int /\ z \in D /\ y < Up(z) /\ \A w \in D : y < w => Up(z) <= w
      BY <1>3, <1>4, <1>13 DEF Follows
    <2> HIDE DEF z
    <2>2. ASSUME behind, z = next  PROVE FALSE
      <3>1. next # arena /\ next \in Nat /\ Up(next) = next
        BY <1>11, <2>2 DEF Up
      <3>2. CASE y < cur
        <4>1. Up(z) <= cur
          BY <1>8, <2>1, <3>2
        <4> QED  BY <1>9, <2>2, <3>1, <4>1
      <3>3. CASE cur < y
        <4>1. Up(next) <= y
          BY <1>9, <2>1, <3>3
        <4> QED  BY <2>1, <2>2, <3>1, <4>1
      <3> QED  BY <1>9, <2>1, <3>2, <3>3
    <2> QED  BY <1>13, <2>1, <2>2 DEF z
  <1>18. L \in [E -> [units : Nat, next : E]]
    <2>1. ASSUME NEW y \in E  PROVE L[y] \in [units : Nat, next : E]
      <3>1. CASE y = nb
        <4>1. top - nb \in Nat
          BY <1>12
        <4> QED  BY <1>13, <1>15, <3>1, <4>1
      <3>2. CASE y # nb /\ y = cur
        <4>1. L[y] = [list[y] EXCEPT !.next = b] /\ list[y] \in [units : Nat, next : D] /\ b \in E
          BY <1>3, <1>8, <1>12, <1>13, <1>15, <3>2
        <4> QED  BY <4>1
      <3>3. CASE y # nb /\ y # cur
        <4>1. L[y] = list[y] /\ list[y] \in [units : Nat, next : D] /\ list[y].next \in E
          BY <1>3, <1>13, <1>15, <1>17, <3>3
        <4> QED  BY <4>1
      <3> QED  BY <3>1, <3>2, <3>3
    <2> QED  BY <1>15, <2>1
  <1>19. \A y \in E : Follows(E, y, L[y].next)
    <2> SUFFICES ASSUME NEW y \in E  PROVE Follows(E, y, L[y].next)
      OBVIOUS
    <2>1. CASE y = nb
      <3>1. nb < Up(nn) /\ \A w \in D : b < w /\ (behind => w # next) => Up(nn) <= w
        <4>1. CASE behind
          <5>1. nn = nnn /\ next < Up(nnn) /\ \A w \in D : next < w => Up(nnn) <= w
            BY <1>11, <4>1 DEF Follows, nn
          <5>2. next \in Nat /\ Up(next) = next /\ Up(nnn) \in Int
            BY <1>4, <1>11, <4>1 DEF Up
          <5>3. nb < Up(nn)
            BY <1>4, <1>11, <1>12, <4>1, <5>1, <5>2
          <5>4. \A w \in D : b < w /\ w # next => next < w
            <6> SUFFICES ASSUME NEW w \in D, b < w, w # next  PROVE next < w
              OBVIOUS
            <6>1. w \in Int /\ cur < w
              BY <1>4, <1>8, <1>9
            <6> QED  BY <1>9, <5>2, <6>1
          <5> QED  BY <4>1, <5>1, <5>3, <5>4
        <4>2. CASE ~behind
          <5>1. nn = next /\ Up(next) \in Int
            BY <1>4, <1>9, <4>2 DEF nn, Up
          <5> QED  BY <1>4, <1>8, <1>9, <1>12, <5>1
        <4> QED  BY <4>1, <4>2
      <3>2. ASSUME NEW w \in E, nb < w  PROVE Up(nn) <= w
        <4>1. w # nb /\ w \in D /\ w \in Int /\ list[w].units \in Nat /\ (behind => w # next)
          BY <1>3, <1>4, <1>12, <1>13, <3>2
        <4>2. b < w
          <5>1. top < w
            BY <1>12, <1>14, <3>2, <4>1
          <5> QED  BY <1>4, <1>12, <4>1, <5>1
        <4> QED  BY <3>1, <4>1, <4>2
      <3> QED  BY <1>13, <1>16, <2>1, <3>1, <3>2 DEF Follows
    <2>2. CASE y # nb /\ y = cur
      <3>1. L[y].next = b /\ nb = b /\ b \in E /\ Up(b) = b /\ cur < b
        BY <1>4, <1>8, <1>12, <1>13, <1>16, <2>2 DEF Up
      <3>2. ASSUME NEW w \in E, cur < w  PROVE b <= w
        <4>1. CASE w = b
          BY <1>4, <4>1
        <4>2. CASE w # b
          <5>1. w \in D /\ w \in Int
            BY <1>4, <1>13, <3>1, <4>2
          <5> QED  BY <1>4, <1>9, <1>10, <3>2, <5>1
        <4> QED  BY <4>1, <4>2
      <3> QED  BY <2>2, <3>1, <3>2 DEF Follows
    <2>3. CASE y # nb /\ y # cur
      <3> DEFINE z == list[y].next
      <3>1. L[y].next = z /\ z \in E
        BY <1>16, <1>17, <2>3
      <3>2. y \in D /\ y \in Int /\ y < Up(z) /\ \A w \in D : y < w => Up(z) <= w
        BY <1>3, <1>4, <1>13, <2>3 DEF Follows
      <3>3. z \in D /\ Up(z) \in Int
        <4>1. z \in D
          BY <1>3, <3>2
        <4> HIDE DEF z
        <4> QED  BY <1>4, <4>1 DEF Up
      <3> HIDE DEF z
      <3>4. ASSUME NEW w \in E, y < w  PROVE Up(z) <= w
        <4>1. CASE w \in D
          BY <3>2, <3>4, <4>1
        <4>2. CASE w \notin D
          <5>1. w = nb /\ w = b
            BY <1>8, <1>12, <1>13, <4>2
          <5>2. y <= cur
            BY <1>10, <3>2, <3>4, <5>1
          <5>3. y < cur
            BY <1>9, <2>3, <3>2, <5>2
          <5>4. Up(z) <= cur
            BY <1>8, <3>2, <5>3
          <5> QED  BY <1>4, <1>8, <1>9, <3>3, <5>1, <5>4
        <4> QED  BY <4>1, <4>2
      <3> QED  BY <3>1, <3>2, <3>4 DEF Follows
    <2> QED  BY <2>1, <2>2, <2>3
  <1>20. Ring(L, E)
    <2>1. E \subseteq Units \cup {arena}
      BY <1>3, <1>13
    <2> QED  BY <1>13, <1>18, <1>19, <2>1 DEF Ring
  <1> DEFINE f == free \cup Run(b, units)
  <1> DEFINE Within(i) == \/ (b <= i /\ i < b + units)
                          \/ (front /\ cur <= i /\ i < cur + cu)
                          \/ (behind /\ next <= i /\ i < next + nu)
  <1>21. \A i \in Nat : nb <= i /\ i < top <=> Within(i)
    <2> SUFFICES ASSUME NEW i \in Nat  PROVE nb <= i /\ i < top <=> Within(i)
      OBVIOUS
    <2>1. /\ front => nb = cur /\ cur + cu = b
          /\ ~front => nb = b
          /\ behind => top = next + nu /\ next = b + units
          /\ ~behind => top = b + units
      BY DEF front, behind, nb, top
    <2>2. /\ b \in Int /\ units \in Int /\ cur \in Int /\ next \in Int /\ cu \in Nat /\ nu \in Nat
          /\ nb \in Int /\ top \in Int /\ cur < b /\ 1 <= units
      BY <1>4, <1>8, <1>9, <1>11, <1>12
    <2> HIDE DEF cu, nu
    <2>3. CASE front /\ behind
      BY <2>1, <2>2, <2>3
    <2>4. CASE front /\ ~behind
      BY <2>1, <2>2, <2>4
    <2>5. CASE ~front /\ behind
      BY <2>1, <2>2, <2>5
    <2>6. CASE ~front /\ ~behind
      BY <2>1, <2>2, <2>6
    <2> QED  BY <2>3, <2>4, <2>5, <2>6
  <1> HIDE DEF Within
  <1>22. \A i \in Units : i \in f <=> \E c \in E \ {arena} : c <= i /\ i < c + L[c].units
    <2> SUFFICES ASSUME NEW i \in Units
                 PROVE  i \in f <=> \E c \in E \ {arena} : c <= i /\ i < c + L[c].units
      OBVIOUS
    <2>1. i \in Nat /\ i \in Int /\ arena < i /\ (i \in Run(b, units) <=> b <= i /\ i < b + units)
      BY <1>4, UnitNumbers DEF Run
    <2>2. i \in free <=> \E c \in D \ {arena} : c <= i /\ i < c + list[c].units
      BY <1>2
    <2>3. i \in f <=> i \in free \/ (b <= i /\ i < b + units)
      BY <2>1
    <2>4. nb <= i /\ i < top <=> Within(i)
      BY <1>21, <2>1
    <2>5. \A c \in E \ {nb} : c \in D /\ (behind => c # next) /\ c # b /\ L[c].units = list[c].units
      BY <1>7, <1>13, <1>16
    <2>6. nb + L[nb].units = top
      BY <1>12, <1>16
    <2> HIDE DEF f
    <2>7. ASSUME i \in f  PROVE \E c \in E \ {arena} : c <= i /\ i < c + L[c].units
      <3>1. CASE nb <= i /\ i < top
        <4>1. CASE nb # arena
          BY <1>13, <2>6, <3>1, <4>1
        <4>2. CASE nb = arena
          \* arena ends below all pages.
          <5>1. front /\ cur = arena /\ cu = 1
            BY <1>2, <1>4, <1>12, <4>2
          <5> QED  BY <1>4, <5>1 DEF front, cu
        <4> QED  BY <4>1, <4>2
      <3>2. CASE ~(nb <= i /\ i < top)
        <4>1. ~Within(i)
          BY <2>4, <3>2
        <4>2. PICK c \in D \ {arena} : c <= i /\ i < c + list[c].units
          BY <2>2, <2>3, <2>7, <4>1 DEF Within
        <4>3. c # nb /\ (behind => c # next)
          <5>1. front => c # cur
            BY <4>1, <4>2 DEF Within, cu
          <5>2. behind => c # next
            BY <4>1, <4>2 DEF Within, nu
          <5>3. c # b
            BY <1>7, <4>2
          <5> QED  BY <1>12, <5>1, <5>2, <5>3
        <4>4. c \in E \ {nb}
          BY <1>13, <4>2, <4>3
        <4> QED  BY <2>5, <4>2, <4>4
      <3> QED  BY <3>1, <3>2
    <2>8. ASSUME NEW c \in E \ {arena}, c <= i, i < c + L[c].units  PROVE i \in f
      <3>1. CASE c = nb
        <4>1. Within(i)
          BY <2>4, <2>6, <2>8, <3>1
        <4>2. CASE b <= i /\ i < b + units
          BY <2>3, <4>2
        <4>3. CASE front /\ cur <= i /\ i < cur + cu
          <5>1. cur # arena
            BY <1>12, <2>8, <3>1, <4>3
          <5> QED  BY <1>8, <2>2, <2>3, <4>3, <5>1 DEF cu
        <4>4. CASE behind /\ next <= i /\ i < next + nu
          <5>1. next # arena
            BY <1>11, <4>4
          <5> QED  BY <1>9, <2>2, <2>3, <4>4, <5>1 DEF nu
        <4> QED  BY <4>1, <4>2, <4>3, <4>4 DEF Within
      <3>2. CASE c # nb
        <4>1. c \in D /\ L[c].units = list[c].units
          BY <2>5, <3>2
        <4> QED  BY <2>2, <2>3, <2>8, <4>1
      <3> QED  BY <3>1, <3>2
    <2> QED  BY <2>7, <2>8
  <1>23. L[arena].units = 1
    <2>1. nb # arena
      <3>1. front => cur # arena
        BY <1>2, <1>4, <1>10 DEF front
      <3> QED  BY <1>4, <1>12, <3>1
    <2>2. arena \in E \ {nb}
      BY <1>13, <2>1
    <2> QED  BY <1>2, <1>16, <2>2
  <1>24. \A c \in E \ {arena} : 1 <= L[c].units /\ c + L[c].units <= Top
    <2> SUFFICES ASSUME NEW c \in E \ {arena}  PROVE 1 <= L[c].units /\ c + L[c].units <= Top
      OBVIOUS
    <2>1. CASE c = nb
      <3>1. top <= Top
        <4>1. CASE behind
          <5>1. next \in D \ {arena} /\ top = next + nu
            BY <1>9, <1>11, <4>1 DEF top
          <5> QED  BY <1>2, <5>1
        <4>2. CASE ~behind
          BY <1>5, <4>2 DEF top
        <4> QED  BY <4>1, <4>2
      <3> QED  BY <1>4, <1>12, <1>16, <2>1, <3>1
    <2>2. CASE c # nb
      <3>1. c \in D \ {arena} /\ L[c].units = list[c].units
        BY <1>13, <1>16, <2>2
      <3> QED  BY <1>2, <3>1
    <2> QED  BY <2>1, <2>2
  <1>25. \A c, d \in E : c < d => c + L[c].units < d
    <2> SUFFICES ASSUME NEW c \in E, NEW d \in E, c < d  PROVE c + L[c].units < d
      OBVIOUS
    <2>1. c \in Int /\ d \in Int
      BY <1>4, <1>12, <1>13
    <2>2. CASE c = nb
      <3>1. d # nb /\ d \in E \ {nb} /\ list[d].units \in Nat
        BY <1>12, <1>16, <2>2
      <3>2. top < d
        BY <1>12, <1>14, <2>1, <2>2, <3>1
      <3> QED  BY <1>12, <1>16, <2>2, <3>2
    <2>3. CASE c # nb /\ d = nb
      <3>1. c \in E \ {nb} /\ L[c].units = list[c].units /\ list[c].units \in Nat
        BY <1>16, <2>3
      <3> QED  BY <1>12, <1>14, <2>1, <2>3, <3>1
    <2>4. CASE c # nb /\ d # nb
      <3>1. c \in D /\ d \in D /\ L[c].units = list[c].units
        BY <1>13, <1>16, <2>4
      <3> QED  BY <1>2, <3>1
    <2> QED  BY <2>2, <2>3, <2>4
  <1> DEFINE t == [list |-> L, start |-> cur]
  <1>26. t.list = L /\ t.start = cur
    OBVIOUS
  <1> HIDE DEF t, f
  <1>27. SlobBlocks(t, f)
    BY <1>13, <1>15, <1>20, <1>22, <1>23, <1>24, <1>25, <1>26 DEF SlobBlocks
  <1>28. L[nb].units >= units
    BY <1>4, <1>12, <1>16
  <1> QED  BY <1>1, <1>13, <1>15, <1>26, <1>27, <1>28 DEF r, t, f

\* The search comes to every block.
LEMMA EnoughThere ==
    ASSUME NEW s, Ring(s.list, DOMAIN s.list), s.start \in DOMAIN s.list,
           NEW x \in DOMAIN s.list, NEW m \in Nat, s.list[x].units >= m
    PROVE  Enough(s, m) # {}
  <1>1. PICK n \in Nat : \E g : Around(g, s, n)
    BY RoundTrip
  <1>2. PICK g : Around(g, s, n)
    BY <1>1
  <1>3. {g[k] : k \in 1 .. n} = DOMAIN s.list /\ Round(s) = [k \in 1 .. n |-> g[k]]
    BY <1>2 DEF Around
  <1>4. PICK k \in 1 .. n : g[k] = x
    BY <1>3
  <1>5. k \in DOMAIN Round(s) /\ Round(s)[k] = x
    BY <1>3, <1>4
  <1>6. k \in Enough(s, m)
    BY <1>5 DEF Enough
  <1> QED  BY <1>6

-----------------------------------------------------------------------------
(* The pages of the heap: S are the units of the pages that slob_alloc has *)
(* got, M[u] what it has handed out for user u.                            *)

CutUp(s, M, S) ==
    /\ \A u \in Users : M[u] \subseteq S
    /\ \A u, v \in Users : u # v => M[u] \cap M[v] = {}
    /\ SlobBlocks(s, S \ UNION {M[u] : u \in Users})

LEMMA PieceCut ==
    ASSUME NEW s, NEW S, NEW M, DOMAIN M = Users, CutUp(s, M, S), NEW u \in Users, M[u] = {},
           NEW units \in Nat, units >= 2, Enough(s, units) # {}
    PROVE  LET r == slob_alloc(s, units)
           IN  /\ CutUp([list |-> r.list, start |-> r.start], [M EXCEPT ![u] = Run(r.at, units)], S)
               /\ r.at \in Units /\ r.at + units <= Top
  <1> DEFINE r == slob_alloc(s, units)
             t == [list |-> r.list, start |-> r.start]
             R == Run(r.at, units)
             N == [M EXCEPT ![u] = R]
             free == S \ UNION {M[v] : v \in Users}
             left == S \ UNION {N[v] : v \in Users}
  <1>1. SlobBlocks(s, free) /\ \A v, w \in Users : v # w => M[v] \cap M[w] = {}
    BY DEF CutUp
  <1>2. \A v \in Users : M[v] \subseteq S
    BY DEF CutUp
  <1> HIDE DEF free
  <1>3. SlobBlocks(t, free \ R) /\ r.at \in Units /\ r.at + units <= Top /\ R \subseteq free
    BY <1>1, SlobAllocated
  <1> HIDE DEF t, R, r
  <1>4. N[u] = R /\ \A v \in Users \ {u} : N[v] = M[v]
    OBVIOUS
  <1> HIDE DEF N
  <1>5. \A v \in Users : N[v] \subseteq S
    BY <1>2, <1>3, <1>4 DEF free
  <1>6. \A v, w \in Users : v # w => N[v] \cap N[w] = {}
    BY <1>1, <1>3, <1>4 DEF free
  <1>7. left = free \ R
    BY <1>4 DEF free
  <1> HIDE DEF left
  <1>8. SlobBlocks(t, left)
    BY <1>3, <1>7
  <1>9. CutUp(t, N, S)
    BY <1>5, <1>6, <1>8 DEF CutUp, left
  <1> QED  BY <1>3, <1>9 DEF t, R, r, N

LEMMA PieceGivenBack ==
    ASSUME NEW s, NEW S, NEW M, DOMAIN M = Users, CutUp(s, M, S), S \subseteq Units, NEW u \in Users,
           NEW b \in Units, NEW units \in Nat \ {0}, M[u] = Run(b, units)
    PROVE  CutUp(slob_free(s, b, units), [M EXCEPT ![u] = {}], S)
  <1> DEFINE t == slob_free(s, b, units)
             R == Run(b, units)
             N == [M EXCEPT ![u] = {}]
             free == S \ UNION {M[v] : v \in Users}
             left == S \ UNION {N[v] : v \in Users}
  <1>1. SlobBlocks(s, free) /\ \A v, w \in Users : v # w => M[v] \cap M[w] = {}
    BY DEF CutUp
  <1>2. \A v \in Users : M[v] \subseteq S
    BY DEF CutUp
  <1>3. R \subseteq Units \ free
    BY <1>2
  <1> HIDE DEF free
  <1>4. SlobBlocks(t, free \cup R)
    BY <1>1, <1>3, SlobFreed
  <1> HIDE DEF t, R
  <1>5. N[u] = {} /\ \A v \in Users \ {u} : N[v] = M[v]
    OBVIOUS
  <1> HIDE DEF N
  <1>6. \A v \in Users : N[v] \subseteq S
    BY <1>2, <1>5
  <1>7. \A v, w \in Users : v # w => N[v] \cap N[w] = {}
    BY <1>1, <1>5
  <1>8. left = free \cup R
    <2>1. M[u] = R
      BY DEF R
    <2>2. ASSUME NEW k \in left  PROVE k \in free \cup R
      BY <1>5, <2>1 DEF free
    <2>3. ASSUME NEW k \in free \cup R  PROVE k \in left
      <3>1. k \in S /\ \A v \in Users \ {u} : k \notin M[v]
        BY <1>1, <1>2, <2>1 DEF free
      <3> QED  BY <1>5, <3>1
    <2> QED  BY <2>2, <2>3
  <1> HIDE DEF left
  <1>9. SlobBlocks(t, left)
    BY <1>4, <1>8
  <1>10. CutUp(t, N, S)
    BY <1>6, <1>7, <1>9 DEF CutUp, left
  <1> QED  BY <1>10 DEF t, N

\* slob_alloc gets a page: it has room for whatever is less than a page.
LEMMA PageAdded ==
    ASSUME NEW s, NEW S, NEW M, CutUp(s, M, S), NEW b \in Units,
           Run(b, PageUnits) \subseteq Units, Run(b, PageUnits) \cap S = {}
    PROVE  LET t == slob_free(s, b, PageUnits)
           IN  /\ CutUp(t, M, S \cup Run(b, PageUnits))
               /\ \A m \in 0 .. PageUnits : Enough(t, m) # {}
  <1> DEFINE t == slob_free(s, b, PageUnits)
             R == Run(b, PageUnits)
             free == S \ UNION {M[v] : v \in Users}
             more == (S \cup R) \ UNION {M[v] : v \in Users}
  <1>1. SlobBlocks(s, free) /\ \A v, w \in Users : v # w => M[v] \cap M[w] = {}
    BY DEF CutUp
  <1>2. \A v \in Users : M[v] \subseteq S
    BY DEF CutUp
  <1>3. R \subseteq Units \ free /\ PageUnits \in Nat \ {0}
    BY UnitNumbers
  <1> HIDE DEF free
  <1>4. SlobBlocks(t, free \cup R) /\ \E x \in DOMAIN t.list : t.list[x].units >= PageUnits
    BY <1>1, <1>3, SlobFreed
  <1> HIDE DEF t
  <1>5. more = free \cup R
    BY <1>2 DEF free
  <1> HIDE DEF more, R
  <1>6. SlobBlocks(t, more)
    BY <1>4, <1>5
  <1>7. CutUp(t, M, S \cup R)
    BY <1>1, <1>2, <1>6 DEF CutUp, more
  <1>8. ASSUME NEW m \in 0 .. PageUnits  PROVE Enough(t, m) # {}
    <2>1. PICK x \in DOMAIN t.list : t.list[x].units >= PageUnits
      BY <1>4
    <2>2. Ring(t.list, DOMAIN t.list) /\ t.start \in DOMAIN t.list
      BY <1>4 DEF SlobBlocks
    <2>3. t.list[x].units \in Nat
      BY <2>2 DEF Ring
    <2>4. t.list[x].units >= m /\ m \in Nat
      BY <2>1, <2>3, UnitNumbers
    <2> QED  BY <2>2, <2>4, EnoughThere
  <1> QED  BY <1>7, <1>8 DEF t, R

-----------------------------------------------------------------------------
(* Pages, units and the sizes that are asked for.                          *)

LEMMA OrderIsNat ==
    ASSUME NEW size \in Nat
    PROVE  find_order(size) \in Nat
  <1> DEFINE halved[k \in 0 .. size] == IF k = 0 THEN size ELSE halved[k - 1] \div 2
             F == [x \in Nat |-> x \div 2]
             small == {k \in 0 .. size : halved[k] <= PageUnits}
  <1>1. find_order(size) = Min(small)
    BY DEF find_order
  <1>2. halved = [k \in 0 .. size |-> IF k = 0 THEN size ELSE halved[k - 1] \div 2]
    <2> DEFINE G == [i \in Nat |-> F]
    <2>1. G \in [Nat -> [Nat -> Nat]]
      OBVIOUS
    <2> HIDE DEF G
    <2>2. PICK g : Iterates(g, Nat, size, G, size)
      BY <2>1, StepByStep
    <2> DEFINE f == [k \in 0 .. size |-> g[k + 1]]
    <2>3. \A k \in 0 .. size : f[k] = IF k = 0 THEN size ELSE f[k - 1] \div 2
      <3> SUFFICES ASSUME NEW k \in 0 .. size, k # 0  PROVE f[k] = f[k - 1] \div 2
        BY <2>2 DEF Iterates
      <3>1. k \in 1 .. size /\ k - 1 \in 0 .. size /\ (k - 1) + 1 = k /\ g[k] \in Nat
        BY <2>2 DEF Iterates
      <3>2. g[k + 1] = G[k][g[k]]
        BY <2>2, <3>1 DEF Iterates
      <3>3. g[k + 1] = g[k] \div 2
        BY <3>1, <3>2 DEF G
      <3> QED  BY <3>1, <3>3
    <2>4. f = [k \in 0 .. size |-> IF k = 0 THEN size ELSE f[k - 1] \div 2]
      BY <2>3
    <2> QED  BY <2>4
  <1> HIDE DEF halved
  <1>3. \A k \in Nat : k <= size => halved[k] \in 0 .. size - k
    <2> DEFINE S == {k \in Nat : k <= size => halved[k] \in 0 .. size - k}
    <2>1. 0 \in S
      BY <1>2
    <2>2. ASSUME NEW k \in Nat, k \in S  PROVE k + 1 \in S
      <3> SUFFICES ASSUME k + 1 <= size  PROVE halved[k + 1] \in 0 .. size - (k + 1)
        OBVIOUS
      <3> DEFINE h == halved[k]
      <3>1. k + 1 \in 0 .. size /\ k + 1 # 0 /\ (k + 1) - 1 = k /\ h \in 0 .. size - k
        BY <2>2
      <3>2. halved[k + 1] = h \div 2
        BY <1>2, <3>1
      <3> HIDE DEF h
      <3>3. h \div 2 \in 0 .. size - (k + 1)
        BY <3>1
      <3> QED  BY <3>2, <3>3
    <2> HIDE DEF S
    <2>3. Nat \subseteq S
      BY <2>1, <2>2, SetInduction
    <2> QED  BY <2>3 DEF S
  <1>4. size \in small
    <2>1. halved[size] = 0
      BY <1>3
    <2> QED  BY <2>1, UnitNumbers
  <1>5. small \subseteq Nat
    OBVIOUS
  <1> HIDE DEF small
  <1> QED  BY <1>1, <1>4, <1>5, MinOfSet

LEMMA WhatIsAsked ==
    ASSUME NEW n \in Sizes
    PROVE  /\ n \in Nat /\ n > 0 /\ find_order(n) \in Nat
           /\ Small(n) => n + 2 < PageUnits
           /\ ~Small(n) => 2 ^ find_order(n) \in Nat \ {0} /\ n <= 2 ^ find_order(n) * PageUnits
  <1>1. n \in Nat /\ n > 0 /\ find_order(n) \in Nat
    BY HeapAssumption, OrderIsNat
  <1>2. IF Small(n) THEN n + 2 < PageUnits ELSE 2 ^ find_order(n) * PageUnits >= n
    BY HeapAssumption
  <1>3. ASSUME ~Small(n)  PROVE 2 ^ find_order(n) \in Nat \ {0} /\ n <= 2 ^ find_order(n) * PageUnits
    <2> DEFINE x == 2 ^ find_order(n)
    <2>1. x \in Int /\ x * PageUnits >= n /\ PageUnits \in Nat
      BY <1>1, <1>2, <1>3, UnitNumbers
    <2> HIDE DEF x
    <2>2. x > 0
      BY <1>1, <2>1
    <2> QED  BY <1>1, <2>1, <2>2 DEF x
  <1> QED  BY <1>1, <1>2, <1>3

\* The units of a page, and the page of a unit.
LEMMA UnitsOfPages ==
    /\ \A p \in Pages : /\ pagesOf(p) \in Units /\ pagesOf(p) \div PageUnits = p
                        /\ pagesOf(p) % PageUnits = 0 /\ Run(pagesOf(p), PageUnits) \subseteq Units
    /\ \A k \in Units : k \div PageUnits \in Pages
    /\ \A k \in Units : \A p \in Pages : k \in Run(pagesOf(p), PageUnits) <=> p = k \div PageUnits
  <1>1. NPages \in Nat /\ PageUnits \in Nat /\ PageUnits > 0 /\ Top = NPages * PageUnits /\ Top \in Nat
    BY PagesAssumption, UnitNumbers DEF Top
  <1>2. ASSUME NEW p \in Pages
        PROVE  /\ p \in Nat /\ pagesOf(p) \in Nat /\ pagesOf(p) + PageUnits <= Top
               /\ pagesOf(p) \div PageUnits = p /\ pagesOf(p) % PageUnits = 0
    <2>1. p \in Nat /\ p <= NPages - 1
      BY <1>1 DEF Pages
    <2>2. p * PageUnits + PageUnits <= NPages * PageUnits /\ p * PageUnits >= 0 /\ p * PageUnits \in Int
      BY <1>1, <2>1
    <2>3. (p * PageUnits) \div PageUnits = p /\ (p * PageUnits) % PageUnits = 0
      BY <1>1, <2>1
    <2> QED  BY <1>1, <2>1, <2>2, <2>3 DEF pagesOf
  <1>3. ASSUME NEW p \in Pages
        PROVE  pagesOf(p) \in Units /\ Run(pagesOf(p), PageUnits) \subseteq Units
    <2>1. pagesOf(p) \in Nat /\ pagesOf(p) + PageUnits <= Top
      BY <1>2
    <2> QED  BY <1>1, <2>1, UnitNumbers DEF Run
  <1>4. ASSUME NEW k \in Units
        PROVE  LET q == k \div PageUnits
               IN  q \in Int /\ q * PageUnits <= k /\ k < q * PageUnits + PageUnits /\ q \in Pages
    <2> DEFINE q == k \div PageUnits
    <2>1. k \in Nat /\ k < NPages * PageUnits
      BY <1>1, UnitNumbers
    <2>2. q \in Int /\ q * PageUnits <= k /\ k < q * PageUnits + PageUnits /\ q >= 0
      BY <1>1, <2>1
    <2> HIDE DEF q
    <2>3. q * PageUnits < NPages * PageUnits
      <3>1. q * PageUnits \in Int /\ NPages * PageUnits \in Int
        BY <1>1, <2>2
      <3> QED  BY <2>1, <2>2, <3>1
    <2>4. q < NPages
      BY <1>1, <2>2, <2>3
    <2>5. q \in Pages
      BY <1>1, <2>2, <2>4 DEF Pages
    <2> QED  BY <2>2, <2>5 DEF q
  <1>5. ASSUME NEW k \in Units, NEW p \in Pages
        PROVE  k \in Run(pagesOf(p), PageUnits) <=> p = k \div PageUnits
    <2> DEFINE q == k \div PageUnits
    <2>1. q \in Int /\ q * PageUnits <= k /\ k < q * PageUnits + PageUnits /\ k \in Nat
      BY <1>4, UnitNumbers
    <2> HIDE DEF q
    <2>2. p \in Nat /\ p * PageUnits \in Nat
      BY <1>2 DEF pagesOf
    <2>3. k \in Run(pagesOf(p), PageUnits) <=> p * PageUnits <= k /\ k < p * PageUnits + PageUnits
      BY <1>1, <2>1, <2>2 DEF Run, pagesOf
    <2>4. p = q => p * PageUnits <= k /\ k < p * PageUnits + PageUnits
      BY <2>1
    <2>5. p < q => p * PageUnits + PageUnits <= q * PageUnits
      BY <1>1, <2>1, <2>2
    <2>6. q < p => q * PageUnits + PageUnits <= p * PageUnits
      BY <1>1, <2>1, <2>2
    <2>7. q * PageUnits \in Int
      BY <1>1, <2>1
    <2> QED  BY <1>1, <2>1, <2>2, <2>3, <2>4, <2>5, <2>6, <2>7 DEF q
  <1> QED  BY <1>2, <1>3, <1>4, <1>5

-----------------------------------------------------------------------------
(* The heap as a whole.                                                    *)

\* What user u has of the units: its small block with the header, or the bigblock_t of
\* its large one, entered or not.
Part(bl, bigs, pend, u) ==
    IF bl.units # 0 THEN Run(bl.ptr - 1, bl.units)
    ELSE (UNION {Run(bigs[i].bb, BIGBLOCK) : i \in {j \in DOMAIN bigs : bigs[j].pages = bl.ptr}})
         \cup (UNION {Run(call.bb, BIGBLOCK) : call \in {c \in pend : c.user = u}})

Mine == [u \in Users |-> Part(block[u], bigblocks, pending, u)]

\* A user has nothing, a small block, or a large one whose pages it holds.
Idle(bl, h) == bl = Nothing /\ h = {}
HasSmall(bl, h) ==
    /\ h = {}
    /\ \E n \in Sizes : Small(n) /\ bl.size = n /\ bl.units = n + 1 /\ bl.ptr \in Units /\ bl.ptr - 1 \in Units
HasLarge(bl, h, big) ==
    \E n \in Sizes : /\ ~Small(n) /\ bl = [ptr |-> big.pages, size |-> n, units |-> 0]
                     /\ big.order = find_order(n) /\ h = Run(big.pages \div PageUnits, 2 ^ big.order)

BigBlocks == [bb : Units, pages : {pagesOf(p) : p \in Pages}, order : Int]
Calls == [user : Users, bb : Units, size : {n \in Sizes : ~Small(n)}]

Distinct(bigs) == \A i, j \in DOMAIN bigs : bigs[i].pages = bigs[j].pages => i = j

HeapShape ==
    /\ held = [c \in Callers |-> held[c]]
    /\ block \in [Users -> [ptr : Int, size : Nat, units : Nat]]
    /\ bigblocks \in Seq(BigBlocks)
    /\ Distinct(bigblocks)
    /\ \A i \in DOMAIN bigblocks : \E u \in Users : HasLarge(block[u], held[u], bigblocks[i])
    /\ pending \subseteq Calls /\ \A c, d \in pending : c = d
    /\ \A call \in pending : block[call.user] = Nothing
    /\ \A u \in Users : \/ Idle(block[u], held[u])
                        \/ HasSmall(block[u], held[u])
                        \/ \E i \in DOMAIN bigblocks : HasLarge(block[u], held[u], bigblocks[i])
    /\ \A t \in Slots : held[t] \subseteq Pages
    /\ CutUp(Slob, Mine, SlobUnits)

HeapInv ==
    /\ pmm_manager # "buddy" => ListInv
    /\ client \in {"pages", "heap"} /\ (client = "heap" => pmm_manager = "default")
    /\ client = "pages" => pending = {} /\ \A u \in Users : block[u] = Nothing
    /\ HeapShape

LEMMA PartsKnown ==
    ASSUME NEW bigs, NEW pend, NEW bl, NEW u, Distinct(bigs),
           \A i \in DOMAIN bigs : bigs[i].pages # NULL
    PROVE  /\ bl.units # 0 => Part(bl, bigs, pend, u) = Run(bl.ptr - 1, bl.units)
           /\ \A i \in DOMAIN bigs :
                 bl.units = 0 /\ bigs[i].pages = bl.ptr /\ (\A c \in pend : c.user # u)
                 => Part(bl, bigs, pend, u) = Run(bigs[i].bb, BIGBLOCK)
           /\ \A call \in pend :
                 bl = Nothing /\ call.user = u /\ (\A d \in pend : d = call)
                 => Part(bl, bigs, pend, u) = Run(call.bb, BIGBLOCK)
           /\ bl = Nothing /\ (\A c \in pend : c.user # u) => Part(bl, bigs, pend, u) = {}
  <1> DEFINE mine == {j \in DOMAIN bigs : bigs[j].pages = bl.ptr}
             calls == {c \in pend : c.user = u}
             P == Part(bl, bigs, pend, u)
  <1>1. bl.units # 0 => P = Run(bl.ptr - 1, bl.units)
    BY DEF Part
  <1>2. bl.units = 0 => P = (UNION {Run(bigs[i].bb, BIGBLOCK) : i \in mine}) \cup (UNION {Run(c.bb, BIGBLOCK) : c \in calls})
    BY DEF Part
  <1> HIDE DEF P
  <1>3. ASSUME NEW i \in DOMAIN bigs, bl.units = 0, bigs[i].pages = bl.ptr, \A c \in pend : c.user # u
        PROVE  P = Run(bigs[i].bb, BIGBLOCK)
    <2>1. mine = {i}
      BY <1>3 DEF Distinct
    <2>2. calls = {}
      BY <1>3
    <2> HIDE DEF mine, calls
    <2> DEFINE R == Run(bigs[i].bb, BIGBLOCK)
    <2>3. {Run(bigs[j].bb, BIGBLOCK) : j \in mine} = {R} /\ {Run(c.bb, BIGBLOCK) : c \in calls} = {}
      BY <2>1, <2>2
    <2> HIDE DEF R
    <2>4. (UNION {R}) \cup (UNION {}) = R
      OBVIOUS
    <2> QED  BY <1>2, <1>3, <2>3, <2>4 DEF R
  <1>4. ASSUME NEW call \in pend, bl = Nothing, call.user = u, \A d \in pend : d = call
        PROVE  P = Run(call.bb, BIGBLOCK)
    <2>1. mine = {} /\ bl.units = 0
      BY <1>4 DEF Nothing
    <2>2. calls = {call}
      BY <1>4
    <2> HIDE DEF mine, calls
    <2> DEFINE R == Run(call.bb, BIGBLOCK)
    <2>3. {Run(bigs[j].bb, BIGBLOCK) : j \in mine} = {} /\ {Run(c.bb, BIGBLOCK) : c \in calls} = {R}
      BY <2>1, <2>2
    <2> HIDE DEF R
    <2>4. (UNION {}) \cup (UNION {R}) = R
      OBVIOUS
    <2> QED  BY <1>2, <2>1, <2>3, <2>4 DEF R
  <1>5. ASSUME bl = Nothing, \A c \in pend : c.user # u  PROVE P = {}
    <2>1. mine = {} /\ bl.units = 0
      BY <1>5 DEF Nothing
    <2>2. calls = {}
      BY <1>5
    <2> HIDE DEF mine, calls
    <2> QED  BY <1>2, <2>1, <2>2
  <1> QED  BY <1>1, <1>3, <1>4, <1>5 DEF P

\* S are the units of the pages that the slots hold.
LEMMA HeapUnits ==
    ASSUME NEW h, \A t \in Slots : h[t] \subseteq Pages,
           NEW S, S = UNION {Run(pagesOf(p), PageUnits) : p \in UNION {h[t] : t \in Slots}}
    PROVE  /\ S \subseteq Units
           /\ \A k \in Units : k \in S <=> \E t \in Slots : k \div PageUnits \in h[t]
  <1>1. ASSUME NEW k \in S  PROVE k \in Units
    <2>1. PICK t \in Slots : \E p \in h[t] : k \in Run(pagesOf(p), PageUnits)
      OBVIOUS
    <2>2. PICK p \in h[t] : k \in Run(pagesOf(p), PageUnits)
      BY <2>1
    <2>3. p \in Pages
      OBVIOUS
    <2> QED  BY <2>2, <2>3, UnitsOfPages
  <1>2. ASSUME NEW k \in Units, k \in S  PROVE \E t \in Slots : k \div PageUnits \in h[t]
    <2>1. PICK t \in Slots : \E p \in h[t] : k \in Run(pagesOf(p), PageUnits)
      BY <1>2
    <2>2. PICK p \in h[t] : k \in Run(pagesOf(p), PageUnits)
      BY <2>1
    <2>3. p \in Pages
      OBVIOUS
    <2>4. p = k \div PageUnits
      BY <2>2, <2>3, UnitsOfPages
    <2> QED  BY <2>4
  <1>3. ASSUME NEW k \in Units, NEW t \in Slots, k \div PageUnits \in h[t]  PROVE k \in S
    <2>1. k \div PageUnits \in Pages
      BY <1>3
    <2>2. k \in Run(pagesOf(k \div PageUnits), PageUnits)
      BY <2>1, UnitsOfPages
    <2> QED  BY <1>3, <2>2
  <1> QED  BY <1>1, <1>2, <1>3

LEMMA BigBlocksKnown ==
    ASSUME HeapShape
    PROVE  /\ \A i \in DOMAIN bigblocks : /\ bigblocks[i] \in BigBlocks /\ bigblocks[i].bb \in Units
                                          /\ bigblocks[i].pages \in Units /\ bigblocks[i].pages # NULL
                                          /\ bigblocks[i].pages % PageUnits = 0
           /\ DOMAIN bigblocks = 1 .. Len(bigblocks) /\ Len(bigblocks) \in Nat
  <1>1. bigblocks \in Seq(BigBlocks)
    BY DEF HeapShape
  <1>2. DOMAIN bigblocks = 1 .. Len(bigblocks) /\ Len(bigblocks) \in Nat
    BY <1>1
  <1>3. ASSUME NEW i \in DOMAIN bigblocks
        PROVE  /\ bigblocks[i] \in BigBlocks /\ bigblocks[i].bb \in Units
               /\ bigblocks[i].pages \in Units /\ bigblocks[i].pages # NULL
               /\ bigblocks[i].pages % PageUnits = 0
    <2>1. bigblocks[i] \in BigBlocks
      BY <1>1
    <2>2. bigblocks[i].bb \in Units /\ bigblocks[i].pages \in {pagesOf(p) : p \in Pages}
      BY <2>1 DEF BigBlocks
    <2>3. PICK p \in Pages : bigblocks[i].pages = pagesOf(p)
      BY <2>2
    <2>4. pagesOf(p) \in Units /\ pagesOf(p) % PageUnits = 0
      BY UnitsOfPages
    <2> QED  BY <2>1, <2>2, <2>3, <2>4, UnitNumbers DEF NULL
  <1> QED  BY <1>2, <1>3

\* What the users of the heap have of the units.
LEMMA MineKnown ==
    ASSUME HeapShape
    PROVE  /\ \A u \in Users : HasSmall(block[u], held[u]) => Mine[u] = Run(block[u].ptr - 1, block[u].units)
           /\ \A u \in Users, i \in DOMAIN bigblocks :
                 HasLarge(block[u], held[u], bigblocks[i]) => Mine[u] = Run(bigblocks[i].bb, BIGBLOCK)
           /\ \A call \in pending : Mine[call.user] = Run(call.bb, BIGBLOCK)
           /\ \A u \in Users : block[u] = Nothing /\ pending = {} => Mine[u] = {}
  <1>1. /\ Distinct(bigblocks) /\ \A c, d \in pending : c = d
        /\ \A call \in pending : block[call.user] = Nothing /\ call.user \in Users
    <2>1. /\ Distinct(bigblocks) /\ \A c, d \in pending : c = d /\ pending \subseteq Calls
          /\ \A call \in pending : block[call.user] = Nothing
      BY DEF HeapShape
    <2> QED  BY <2>1 DEF Calls
  <1>2. \A i \in DOMAIN bigblocks : bigblocks[i].pages # NULL
    BY BigBlocksKnown
  <1>3. \A u \in Users : Mine[u] = Part(block[u], bigblocks, pending, u)
    BY DEF Mine
  <1>4. ASSUME NEW u \in Users, HasSmall(block[u], held[u])
        PROVE  Mine[u] = Run(block[u].ptr - 1, block[u].units)
    <2>1. block[u].units # 0
      BY <1>4, WhatIsAsked DEF HasSmall
    <2> QED  BY <1>1, <1>2, <1>3, <2>1, PartsKnown
  <1>5. ASSUME NEW u \in Users, NEW i \in DOMAIN bigblocks, HasLarge(block[u], held[u], bigblocks[i])
        PROVE  Mine[u] = Run(bigblocks[i].bb, BIGBLOCK)
    <2>1. block[u].units = 0 /\ block[u].ptr = bigblocks[i].pages
      BY <1>5 DEF HasLarge
    <2>2. \A c \in pending : c.user # u
      <3>1. block[u].ptr # NULL
        BY <1>2, <2>1
      <3> QED  BY <1>1, <3>1 DEF Nothing
    <2> QED  BY <1>1, <1>2, <1>3, <2>1, <2>2, PartsKnown
  <1>6. ASSUME NEW call \in pending  PROVE Mine[call.user] = Run(call.bb, BIGBLOCK)
    <2>1. call.user \in Users /\ block[call.user] = Nothing /\ \A d \in pending : d = call
      BY <1>1
    <2> QED  BY <1>1, <1>2, <1>3, <2>1, PartsKnown
  <1>7. ASSUME NEW u \in Users, block[u] = Nothing, pending = {}  PROVE Mine[u] = {}
    BY <1>1, <1>2, <1>3, <1>7, PartsKnown
  <1> QED  BY <1>4, <1>5, <1>6, <1>7

-----------------------------------------------------------------------------
(* The steps of the heap.                                                  *)

\* Whoever is not concerned has what it had: its block, and its entry of bigblocks.
LEMMA Bystander ==
    ASSUME HeapShape, NEW bigs, Distinct(bigs), \A i \in DOMAIN bigs : bigs[i].pages # NULL,
           NEW pend, NEW u \in Users, \A c \in pending : c.user # u, \A c \in pend : c.user # u,
           \A i \in DOMAIN bigblocks :
              HasLarge(block[u], held[u], bigblocks[i]) => \E j \in DOMAIN bigs : bigs[j] = bigblocks[i]
    PROVE  /\ Part(block[u], bigs, pend, u) = Mine[u]
           /\ \/ Idle(block[u], held[u]) \/ HasSmall(block[u], held[u])
              \/ \E j \in DOMAIN bigs : HasLarge(block[u], held[u], bigs[j])
  <1> DEFINE P == Part(block[u], bigs, pend, u)
  <1>1. /\ Mine[u] = Part(block[u], bigblocks, pending, u) /\ Distinct(bigblocks)
        /\ \A i \in DOMAIN bigblocks : bigblocks[i].pages # NULL
    BY BigBlocksKnown DEF HeapShape, Mine
  <1>2. CASE Idle(block[u], held[u])
    <2>1. block[u] = Nothing
      BY <1>2 DEF Idle
    <2>2. Part(Nothing, bigs, pend, u) = {}
      BY PartsKnown
    <2>3. Part(Nothing, bigblocks, pending, u) = {}
      BY <1>1, PartsKnown
    <2> QED  BY <1>1, <1>2, <2>1, <2>2, <2>3
  <1>3. CASE HasSmall(block[u], held[u])
    <2>1. block[u].units # 0
      BY <1>3, WhatIsAsked DEF HasSmall
    <2>2. P = Run(block[u].ptr - 1, block[u].units)
      BY <2>1, PartsKnown
    <2> QED  BY <1>3, <2>2, MineKnown
  <1>4. ASSUME NEW i \in DOMAIN bigblocks, HasLarge(block[u], held[u], bigblocks[i])
        PROVE  P = Mine[u] /\ \E j \in DOMAIN bigs : HasLarge(block[u], held[u], bigs[j])
    <2>1. PICK j \in DOMAIN bigs : bigs[j] = bigblocks[i]
      BY <1>4
    <2>2. HasLarge(block[u], held[u], bigs[j])
      BY <1>4, <2>1
    <2>3. bigs[j].pages = block[u].ptr /\ block[u].units = 0
      BY <2>2 DEF HasLarge
    <2>4. P = Run(bigs[j].bb, BIGBLOCK)
      BY <2>3, PartsKnown
    <2>5. Mine[u] = Run(bigblocks[i].bb, BIGBLOCK)
      BY <1>4, MineKnown
    <2> QED  BY <2>1, <2>2, <2>4, <2>5
  <1>5. \/ Idle(block[u], held[u]) \/ HasSmall(block[u], held[u])
        \/ \E i \in DOMAIN bigblocks : HasLarge(block[u], held[u], bigblocks[i])
    BY DEF HeapShape
  <1> QED  BY <1>2, <1>3, <1>4, <1>5

\* kmalloc up to the return of slob_alloc; s is the free list it finds the block in.
LEMMA CutStep ==
    ASSUME HeapShape, NEW u \in Users, NEW size \in Sizes, pending = {}, block[u] = Nothing,
           NEW s, CutUp(s, Mine, SlobUnits'),
           Enough(s, IF Small(size) THEN size + 1 ELSE BIGBLOCK) # {},
           Cut(u, size, slob_alloc(s, IF Small(size) THEN size + 1 ELSE BIGBLOCK)),
           held' = [c \in Callers |-> held'[c]], \A v \in Users : held'[v] = held[v],
           \A t \in Slots : held'[t] \subseteq Pages
    PROVE  HeapShape'
  <1> DEFINE units == IF Small(size) THEN size + 1 ELSE BIGBLOCK
             r == slob_alloc(s, units)
             R == Run(r.at, units)
             call == [user |-> u, bb |-> r.at, size |-> size]
             bl == [ptr |-> r.at + 1, size |-> size, units |-> size + 1]
  <1>1. units \in Nat /\ units >= 2 /\ size \in Nat /\ (Small(size) => units = size + 1)
    BY WhatIsAsked, UnitNumbers
  <1>2. DOMAIN Mine = Users
    BY DEF Mine
  <1>3. Mine[u] = {}
    BY MineKnown
  <1>4. /\ CutUp([list |-> r.list, start |-> r.start], [Mine EXCEPT ![u] = R], SlobUnits')
        /\ r.at \in Units /\ r.at + units <= Top
    <2> DEFINE M == Mine
               T == SlobUnits'
    <2>1. CutUp(s, M, T) /\ DOMAIN M = Users /\ M[u] = {} /\ Enough(s, units) # {}
      BY <1>2, <1>3
    <2> HIDE DEF units, M, T
    <2>2. /\ CutUp([list |-> r.list, start |-> r.start], [M EXCEPT ![u] = R], T)
          /\ r.at \in Units /\ r.at + units <= Top
      BY <1>1, <2>1, PieceCut
    <2> QED  BY <2>2 DEF M, T
  <1>5. /\ slob' = r.list /\ slobfree' = r.start /\ client' = client /\ bigblocks' = bigblocks
        /\ Small(size) => block' = [block EXCEPT ![u] = bl] /\ pending' = pending
        /\ ~Small(size) => pending' = {call} /\ block' = block
    BY DEF Cut, Relist
  <1> HIDE DEF r
  <1>6. /\ block \in [Users -> [ptr : Int, size : Nat, units : Nat]]
        /\ bigblocks \in Seq(BigBlocks) /\ Distinct(bigblocks)
        /\ \A i \in DOMAIN bigblocks : \E v \in Users : HasLarge(block[v], held[v], bigblocks[i])
        /\ \A v \in Users : \/ Idle(block[v], held[v]) \/ HasSmall(block[v], held[v])
                            \/ \E i \in DOMAIN bigblocks : HasLarge(block[v], held[v], bigblocks[i])
    BY DEF HeapShape
  <1>7. \A i \in DOMAIN bigblocks : bigblocks[i].pages # NULL
    BY BigBlocksKnown
  <1>8. held[u] = {}
    <2>1. ~HasSmall(block[u], held[u])
      BY UnitNumbers DEF HasSmall, Nothing, NULL
    <2>2. \A i \in DOMAIN bigblocks : ~HasLarge(block[u], held[u], bigblocks[i])
      <3> SUFFICES ASSUME NEW i \in DOMAIN bigblocks, HasLarge(block[u], held[u], bigblocks[i])
                   PROVE  FALSE
        OBVIOUS
      <3>1. block[u].ptr = bigblocks[i].pages
        BY DEF HasLarge
      <3>2. block[u].ptr = NULL
        BY DEF Nothing
      <3> QED  BY <1>7, <3>1, <3>2
    <2> QED  BY <1>6, <2>1, <2>2 DEF Idle
  <1>9. r.at \in Nat /\ r.at \in Int
    BY <1>4, UnitNumbers
  <1>10. \A v \in Users \ {u} : block'[v] = block[v] /\ \A c \in pending' : c.user # v
    BY <1>5, <1>6
  <1>11. \A v \in Users \ {u} :
            /\ Mine'[v] = Mine[v]
            /\ \/ Idle(block'[v], held'[v]) \/ HasSmall(block'[v], held'[v])
               \/ \E i \in DOMAIN bigblocks' : HasLarge(block'[v], held'[v], bigblocks'[i])
    <2> SUFFICES ASSUME NEW v \in Users, v # u
                 PROVE  /\ Mine'[v] = Mine[v]
                        /\ \/ Idle(block'[v], held'[v]) \/ HasSmall(block'[v], held'[v])
                           \/ \E i \in DOMAIN bigblocks' : HasLarge(block'[v], held'[v], bigblocks'[i])
      OBVIOUS
    <2>1. block'[v] = block[v] /\ held'[v] = held[v] /\ bigblocks' = bigblocks /\ \A c \in pending' : c.user # v
      BY <1>5, <1>10
    <2>2. Part(block[v], bigblocks, pending', v) = Mine[v]
      BY <1>6, <1>7, <2>1, Bystander
    <2>3. Mine'[v] = Part(block'[v], bigblocks', pending', v)
      BY DEF Mine
    <2> QED  BY <1>6, <2>1, <2>2, <2>3
  <1>12. /\ Mine'[u] = R
         /\ \/ Idle(block'[u], held'[u]) \/ HasSmall(block'[u], held'[u])
         /\ \A c \in pending' : c = call
         /\ pending' # {} => ~Small(size) /\ block'[u] = Nothing
    <2>1. Mine'[u] = Part(block'[u], bigblocks', pending', u) /\ held'[u] = {}
      BY <1>8 DEF Mine
    <2>2. CASE Small(size)
      <3>1. block'[u] = bl /\ pending' = {} /\ bigblocks' = bigblocks
        BY <1>5, <1>6, <2>2
      <3>2. bl.units = units /\ bl.ptr - 1 = r.at /\ bl.units # 0 /\ bl.size = size /\ bl.ptr = r.at + 1
        BY <1>1, <1>9, <2>2
      <3> HIDE DEF bl, units
      <3>3. Part(bl, bigblocks, {}, u) = R
        BY <1>6, <1>7, <3>2, PartsKnown
      <3>4. HasSmall(bl, {})
        <4>1. r.at + 1 \in Units
          BY <1>1, <1>4, <1>9, UnitNumbers
        <4> QED  BY <1>1, <1>4, <2>2, <3>2, <4>1 DEF HasSmall
      <3> QED  BY <2>1, <3>1, <3>3, <3>4
    <2>3. CASE ~Small(size)
      <3>1. block'[u] = Nothing /\ pending' = {call} /\ bigblocks' = bigblocks
        BY <1>5, <1>6, <2>3
      <3>2. call.user = u /\ call.bb = r.at /\ units = BIGBLOCK
        BY <2>3
      <3> HIDE DEF call, units
      <3>3. Part(Nothing, bigblocks, {call}, u) = R
        BY <1>6, <1>7, <3>2, PartsKnown
      <3> QED  BY <2>1, <2>3, <3>1, <3>3 DEF Idle
    <2> QED  BY <2>2, <2>3
  <1>13. CutUp(Slob', Mine', SlobUnits')
    <2> HIDE DEF R, units
    <2>1. Mine' = [Mine EXCEPT ![u] = R]
      <3>1. DOMAIN Mine' = Users /\ Mine' = [v \in Users |-> Mine'[v]]
        BY DEF Mine
      <3>2. Mine = [v \in Users |-> Mine[v]]
        BY DEF Mine
      <3> HIDE DEF Mine
      <3> QED  BY <1>11, <1>12, <3>1, <3>2
    <2>2. Slob' = [list |-> r.list, start |-> r.start]
      BY <1>5 DEF Slob
    <2> QED  BY <1>4, <2>1, <2>2
  <1>14. block' \in [Users -> [ptr : Int, size : Nat, units : Nat]]
    <2>1. bl \in [ptr : Int, size : Nat, units : Nat]
      BY <1>1, <1>9
    <2> HIDE DEF bl
    <2> QED  BY <1>5, <1>6, <2>1
  <1>15. \A i \in DOMAIN bigblocks' : \E v \in Users : HasLarge(block'[v], held'[v], bigblocks'[i])
    <2> SUFFICES ASSUME NEW i \in DOMAIN bigblocks
                 PROVE  \E v \in Users : HasLarge(block'[v], held'[v], bigblocks[i])
      BY <1>5
    <2>1. PICK v \in Users : HasLarge(block[v], held[v], bigblocks[i])
      BY <1>6
    <2>2. v # u
      BY <1>7, <2>1 DEF HasLarge, Nothing
    <2> QED  BY <1>10, <2>1, <2>2
  <1>16. /\ pending' \subseteq Calls /\ \A c, d \in pending' : c = d
         /\ \A c \in pending' : block'[c.user] = Nothing
    <2>1. ~Small(size) => call \in Calls /\ call.user = u
      BY <1>4 DEF Calls
    <2> HIDE DEF call
    <2> QED  BY <1>12, <2>1
  <1>17. bigblocks' \in Seq(BigBlocks) /\ Distinct(bigblocks')
    BY <1>5, <1>6
  <1>18. \A v \in Users : \/ Idle(block'[v], held'[v]) \/ HasSmall(block'[v], held'[v])
                          \/ \E i \in DOMAIN bigblocks' : HasLarge(block'[v], held'[v], bigblocks'[i])
    BY <1>11, <1>12
  <1> HIDE DEF Mine, CutUp, R, call, bl, units
  <1> QED  BY <1>13, <1>14, <1>15, <1>16, <1>17, <1>18 DEF HeapShape

LEMMA HeapCallers == Slots \subseteq Callers /\ Users \subseteq Callers /\ Slots \cap Users = {}
  BY HeapAssumption

LEMMA SlobUnitsKnown ==
    ASSUME HeapShape
    PROVE  /\ SlobUnits \subseteq Units
           /\ \A k \in Units : k \in SlobUnits <=> \E t \in Slots : k \div PageUnits \in held[t]
           /\ (\A t \in Slots : held'[t] = held[t]) => SlobUnits' = SlobUnits
  <1>1. \A t \in Slots : held[t] \subseteq Pages
    BY DEF HeapShape
  <1>2. SlobUnits = UNION {Run(pagesOf(p), PageUnits) : p \in UNION {held[t] : t \in Slots}}
    BY DEF SlobUnits
  <1>3. ASSUME \A t \in Slots : held'[t] = held[t]  PROVE SlobUnits' = SlobUnits
    <2>1. {held'[t] : t \in Slots} = {held[t] : t \in Slots}
      BY <1>3
    <2> QED  BY <2>1 DEF SlobUnits
  <1> HIDE DEF SlobUnits
  <1> QED  BY <1>1, <1>2, <1>3, HeapUnits

LEMMA PieceFreed ==
    ASSUME HeapShape, NEW u \in Users, NEW b \in Units, NEW n \in Nat \ {0}, Mine[u] = Run(b, n),
           Relist(slob_free(Slob, b, n)), SlobUnits' = SlobUnits,
           Mine'[u] = {}, \A v \in Users \ {u} : Mine'[v] = Mine[v]
    PROVE  CutUp(Slob', Mine', SlobUnits')
  <1> DEFINE M == Mine
             T == SlobUnits
             s == Slob
             r == slob_free(s, b, n)
  <1>1. CutUp(s, M, T) /\ T \subseteq Units /\ DOMAIN M = Users /\ M[u] = Run(b, n)
    <2>1. CutUp(s, M, T) /\ T \subseteq Units
      BY SlobUnitsKnown DEF HeapShape
    <2> QED  BY <2>1 DEF Mine
  <1>2. Slob' = [list |-> r.list, start |-> r.start]
    BY DEF Relist, Slob
  <1>3. Mine' = [M EXCEPT ![u] = {}]
    <2>1. Mine' = [v \in Users |-> Mine'[v]] /\ Mine = [v \in Users |-> Mine[v]]
      BY DEF Mine
    <2> HIDE DEF Mine
    <2> QED  BY <2>1
  <1> HIDE DEF M, T, s
  <1>4. CutUp(r, [M EXCEPT ![u] = {}], T)
    BY <1>1, PieceGivenBack
  <1> HIDE DEF r
  <1>5. CutUp([list |-> r.list, start |-> r.start], [M EXCEPT ![u] = {}], T)
    <2>1. [list |-> r.list, start |-> r.start].list = r.list /\ [list |-> r.list, start |-> r.start].start = r.start
      OBVIOUS
    <2> QED  BY <1>4, <2>1 DEF CutUp, SlobBlocks
  <1> QED  BY <1>2, <1>3, <1>5 DEF T

\* kfree of a small block.
LEMMA SmallFreed ==
    ASSUME HeapShape, NEW u \in Users, kfreeSmall(u)
    PROVE  HeapShape' /\ client' = client
  <1>1. /\ pending = {} /\ block[u] # Nothing /\ Entries(block[u].ptr) = {}
        /\ Relist(slob_free(Slob, block[u].ptr - 1, block[u].units))
        /\ block' = [block EXCEPT ![u] = Nothing]
        /\ held' = held /\ bigblocks' = bigblocks /\ pending' = pending
    BY DEF kfreeSmall, vars
  <1>2. /\ held = [c \in Callers |-> held[c]]
        /\ block \in [Users -> [ptr : Int, size : Nat, units : Nat]]
        /\ bigblocks \in Seq(BigBlocks) /\ Distinct(bigblocks)
        /\ \A i \in DOMAIN bigblocks : \E v \in Users : HasLarge(block[v], held[v], bigblocks[i])
        /\ \A v \in Users : \/ Idle(block[v], held[v]) \/ HasSmall(block[v], held[v])
                            \/ \E i \in DOMAIN bigblocks : HasLarge(block[v], held[v], bigblocks[i])
        /\ \A t \in Slots : held[t] \subseteq Pages
    BY DEF HeapShape
  <1>3. \A i \in DOMAIN bigblocks : ~HasLarge(block[u], held[u], bigblocks[i])
    <2> SUFFICES ASSUME NEW i \in DOMAIN bigblocks, HasLarge(block[u], held[u], bigblocks[i])  PROVE FALSE
      OBVIOUS
    <2>1. block[u].ptr = bigblocks[i].pages
      BY DEF HasLarge
    <2>2. i \in Entries(block[u].ptr)
      BY <2>1, BigBlocksKnown DEF Entries
    <2> QED  BY <1>1, <2>2
  <1>4. HasSmall(block[u], held[u])
    BY <1>1, <1>2, <1>3 DEF Idle
  <1>5. held[u] = {} /\ block[u].ptr - 1 \in Units /\ block[u].units \in Nat \ {0}
    BY <1>4, WhatIsAsked DEF HasSmall
  <1>6. Mine[u] = Run(block[u].ptr - 1, block[u].units)
    BY <1>4, MineKnown
  <1>7. \A i \in DOMAIN bigblocks : bigblocks[i].pages # NULL
    BY BigBlocksKnown
  <1>8. \A v \in Users : Mine'[v] = Part(block'[v], bigblocks, {}, v)
    BY <1>1 DEF Mine
  <1>9. block'[u] = Nothing /\ \A v \in Users \ {u} : block'[v] = block[v]
    BY <1>1, <1>2
  <1>10. Mine'[u] = {}
    <2>1. Part(Nothing, bigblocks, {}, u) = {}
      BY <1>2, <1>7, PartsKnown
    <2> QED  BY <1>8, <1>9, <2>1
  <1>11. \A v \in Users \ {u} : Mine'[v] = Mine[v]
    BY <1>1, <1>9 DEF Mine
  <1>12. CutUp(Slob', Mine', SlobUnits')
    <2>1. SlobUnits' = SlobUnits
      BY <1>1, SlobUnitsKnown
    <2> QED  BY <1>1, <1>5, <1>6, <1>10, <1>11, <2>1, PieceFreed
  <1>13. block' \in [Users -> [ptr : Int, size : Nat, units : Nat]]
    <2>1. Nothing \in [ptr : Int, size : Nat, units : Nat]
      BY DEF Nothing, NULL
    <2> QED  BY <1>1, <1>2, <2>1
  <1>14. \A i \in DOMAIN bigblocks' : \E v \in Users : HasLarge(block'[v], held'[v], bigblocks'[i])
    <2> SUFFICES ASSUME NEW i \in DOMAIN bigblocks
                 PROVE  \E v \in Users : HasLarge(block'[v], held[v], bigblocks[i])
      BY <1>1
    <2>1. PICK v \in Users : HasLarge(block[v], held[v], bigblocks[i])
      BY <1>2
    <2>2. v # u
      BY <1>3, <2>1
    <2> QED  BY <1>9, <2>1, <2>2
  <1>15. \A v \in Users : \/ Idle(block'[v], held'[v]) \/ HasSmall(block'[v], held'[v])
                          \/ \E i \in DOMAIN bigblocks' : HasLarge(block'[v], held'[v], bigblocks'[i])
    <2>1. Idle(block'[u], held'[u])
      BY <1>1, <1>5, <1>9 DEF Idle
    <2> QED  BY <1>1, <1>2, <1>9, <2>1
  <1>16. client' = client
    BY <1>1 DEF Relist
  <1> HIDE DEF Mine, CutUp
  <1>17. pending' \subseteq Calls /\ (\A c, d \in pending' : c = d) /\ \A c \in pending' : block'[c.user] = Nothing
    BY <1>1
  <1> QED  BY <1>1, <1>2, <1>12, <1>13, <1>14, <1>15, <1>16, <1>17 DEF HeapShape

\* kmalloc of a large block gives up.
LEMMA CallDropped ==
    ASSUME HeapShape, NEW call \in pending, NoBigBlock(call)
    PROVE  HeapShape' /\ client' = client
  <1> DEFINE u == call.user
  <1>1. /\ Relist(slob_free(Slob, call.bb, BIGBLOCK)) /\ pending' = {}
        /\ held' = held /\ bigblocks' = bigblocks /\ block' = block
    BY DEF NoBigBlock, vars
  <1>2. /\ held = [c \in Callers |-> held[c]]
        /\ block \in [Users -> [ptr : Int, size : Nat, units : Nat]]
        /\ bigblocks \in Seq(BigBlocks) /\ Distinct(bigblocks)
        /\ \A i \in DOMAIN bigblocks : \E v \in Users : HasLarge(block[v], held[v], bigblocks[i])
        /\ \A v \in Users : \/ Idle(block[v], held[v]) \/ HasSmall(block[v], held[v])
                            \/ \E i \in DOMAIN bigblocks : HasLarge(block[v], held[v], bigblocks[i])
        /\ \A t \in Slots : held[t] \subseteq Pages
        /\ pending \subseteq Calls /\ \A c, d \in pending : c = d
        /\ \A c \in pending : block[c.user] = Nothing
    BY DEF HeapShape
  <1>3. u \in Users /\ call.bb \in Units /\ block[u] = Nothing
    BY <1>2 DEF Calls
  <1>4. Mine[u] = Run(call.bb, BIGBLOCK)
    BY MineKnown
  <1>5. \A i \in DOMAIN bigblocks : bigblocks[i].pages # NULL
    BY BigBlocksKnown
  <1>6. \A v \in Users : Mine'[v] = Part(block[v], bigblocks, {}, v)
    BY <1>1 DEF Mine
  <1>7. Mine'[u] = {}
    <2>1. Part(Nothing, bigblocks, {}, u) = {}
      BY <1>2, <1>5, PartsKnown
    <2> QED  BY <1>3, <1>6, <2>1
  <1> HIDE DEF u
  <1>8. \A v \in Users \ {u} : Mine'[v] = Mine[v]
    <2> SUFFICES ASSUME NEW v \in Users, v # u  PROVE Mine'[v] = Mine[v]
      OBVIOUS
    <2>1. \A c \in pending : c.user # v
      BY <1>2 DEF u
    <2>2. Part(block[v], bigblocks, {}, v) = Mine[v]
      BY <1>2, <1>5, <2>1, Bystander
    <2> QED  BY <1>6, <2>2
  <1>9. CutUp(Slob', Mine', SlobUnits')
    <2>1. SlobUnits' = SlobUnits
      BY <1>1, SlobUnitsKnown
    <2>2. BIGBLOCK \in Nat \ {0}
      BY UnitNumbers
    <2> QED  BY <1>1, <1>3, <1>4, <1>7, <1>8, <2>1, <2>2, PieceFreed
  <1>10. client' = client
    BY <1>1 DEF Relist
  <1> HIDE DEF Mine, CutUp
  <1> QED  BY <1>1, <1>2, <1>9, <1>10 DEF HeapShape

LEMMA EntryRemoved ==
    ASSUME NEW S, NEW bigs \in Seq(S), Distinct(bigs), NEW i \in DOMAIN bigs
    PROVE  LET r == RemoveAt(bigs, i)
           IN  /\ r \in Seq(S) /\ Distinct(r)
               /\ \A j \in DOMAIN r : \E k \in DOMAIN bigs : k # i /\ r[j] = bigs[k]
               /\ \A k \in DOMAIN bigs : k # i => \E j \in DOMAIN r : r[j] = bigs[k]
  <1> DEFINE r == RemoveAt(bigs, i)
             From(j) == IF j < i THEN j ELSE j + 1
  <1>1. DOMAIN bigs = 1 .. Len(bigs) /\ Len(bigs) \in Nat /\ i \in 1 .. Len(bigs)
    OBVIOUS
  <1>2. /\ r \in Seq(S) /\ Len(r) = Len(bigs) - 1
        /\ \A j \in 1 .. Len(bigs) - 1 : r[j] = IF j < i THEN bigs[j] ELSE bigs[j + 1]
    BY <1>1, RemoveAtProperties
  <1> HIDE DEF r
  <1>3. DOMAIN r = 1 .. Len(bigs) - 1
    BY <1>2
  <1>4. \A j \in DOMAIN r : From(j) \in DOMAIN bigs /\ From(j) # i /\ r[j] = bigs[From(j)] /\ j \in Int
    BY <1>1, <1>2, <1>3
  <1>5. \A j, k \in DOMAIN r : From(j) = From(k) => j = k
    BY <1>1, <1>3
  <1>6. ASSUME NEW k \in DOMAIN bigs, k # i  PROVE \E j \in DOMAIN r : r[j] = bigs[k]
    <2>1. CASE k < i
      <3>1. k \in DOMAIN r /\ r[k] = bigs[k]
        BY <1>1, <1>2, <1>3, <2>1
      <3> QED  BY <3>1
    <2>2. CASE ~(k < i)
      <3>1. k - 1 \in DOMAIN r /\ From(k - 1) = k
        BY <1>1, <1>3, <1>6, <2>2
      <3> QED  BY <1>4, <3>1
    <2> QED  BY <2>1, <2>2
  <1> HIDE DEF From
  <1>7. Distinct(r)
    BY <1>4, <1>5 DEF Distinct
  <1> QED  BY <1>2, <1>4, <1>6, <1>7 DEF r

LEMMA EntryAdded ==
    ASSUME NEW bigs \in Seq(BigBlocks), Distinct(bigs), NEW e,
           \A k \in DOMAIN bigs : bigs[k].pages # e.pages,
           NEW r \in Seq(BigBlocks), Len(r) = 1 + Len(bigs), r[1] = e, \A j \in 1 .. Len(bigs) : r[1 + j] = bigs[j]
    PROVE  Distinct(r) /\ 1 \in DOMAIN r
  <1>1. DOMAIN bigs = 1 .. Len(bigs) /\ Len(bigs) \in Nat
    OBVIOUS
  <1>2. /\ Len(r) = 1 + Len(bigs) /\ r[1] = e
        /\ \A j \in 1 .. Len(bigs) : r[1 + j] = bigs[j]
    OBVIOUS
  <1>3. DOMAIN r = 1 .. 1 + Len(bigs)
    BY <1>2
  <1>4. \A j \in DOMAIN r : j = 1 \/ (j - 1 \in DOMAIN bigs /\ r[j] = bigs[j - 1])
    <2> SUFFICES ASSUME NEW j \in DOMAIN r, j # 1  PROVE j - 1 \in DOMAIN bigs /\ r[j] = bigs[j - 1]
      OBVIOUS
    <2>1. j - 1 \in 1 .. Len(bigs) /\ 1 + (j - 1) = j
      BY <1>1, <1>3
    <2> QED  BY <1>1, <1>2, <2>1
  <1>5. ASSUME NEW j \in DOMAIN r, NEW k \in DOMAIN r, r[j].pages = r[k].pages  PROVE j = k
    <2>1. CASE j = 1 \/ k = 1
      BY <1>2, <1>4, <1>5, <2>1
    <2>2. CASE j # 1 /\ k # 1
      <3>1. j - 1 = k - 1
        BY <1>4, <1>5, <2>2 DEF Distinct
      <3> QED  BY <1>1, <1>3, <3>1
    <2> QED  BY <2>1, <2>2
  <1>6. 1 \in DOMAIN r
    BY <1>1, <1>3
  <1>7. Distinct(r)
    BY <1>5 DEF Distinct
  <1> QED  BY <1>6, <1>7

\* The pages of a large block.
LEMMA LargeKnown ==
    ASSUME NEW bl, NEW h, NEW big \in BigBlocks, HasLarge(bl, h, big)
    PROVE  /\ bl.ptr = big.pages /\ bl.units = 0 /\ bl.size \in Sizes /\ ~Small(bl.size)
           /\ bl = [ptr |-> big.pages, size |-> bl.size, units |-> 0]
           /\ 2 ^ big.order \in Nat \ {0} /\ bl.size <= 2 ^ big.order * PageUnits
           /\ big.pages \div PageUnits \in Pages /\ big.pages \div PageUnits \in h
           /\ big.pages = pagesOf(big.pages \div PageUnits)
           /\ h = Run(big.pages \div PageUnits, 2 ^ big.order)
  <1>1. PICK n \in Sizes : /\ ~Small(n) /\ bl = [ptr |-> big.pages, size |-> n, units |-> 0]
                           /\ big.order = find_order(n) /\ h = Run(big.pages \div PageUnits, 2 ^ big.order)
    BY DEF HasLarge
  <1>2. PICK p \in Pages : big.pages = pagesOf(p)
    BY DEF BigBlocks
  <1>3. big.pages \div PageUnits = p /\ p \in Nat
    BY <1>2, UnitsOfPages, Numbers
  <1> DEFINE x == 2 ^ big.order
  <1>4. x \in Nat \ {0} /\ n <= x * PageUnits
    BY <1>1, WhatIsAsked
  <1> HIDE DEF x
  <1>5. p \in Run(p, x)
    BY <1>3, <1>4 DEF Run
  <1>6. bl.ptr = big.pages /\ bl.size = n /\ bl.units = 0
    BY <1>1
  <1> QED  BY <1>1, <1>2, <1>3, <1>4, <1>5, <1>6 DEF x

\* kfree looks for every block among the large ones, and does not take a small one for one.
LEMMA NotSmall ==
    ASSUME HeapShape, NeverTwice, NEW u \in Users, HasSmall(block[u], held[u])
    PROVE  Entries(block[u].ptr) = {}
  <1> SUFFICES ASSUME NEW i \in Entries(block[u].ptr)  PROVE FALSE
    OBVIOUS
  <1> DEFINE ptr == block[u].ptr
  <1>1. i \in DOMAIN bigblocks /\ bigblocks[i].pages = ptr
    BY DEF Entries
  <1>2. PICK v \in Users : HasLarge(block[v], held[v], bigblocks[i])
    BY <1>1 DEF HeapShape
  <1>3. ptr \div PageUnits \in held[v]
    <2>1. bigblocks[i] \in BigBlocks
      BY <1>1, BigBlocksKnown
    <2> QED  BY <1>1, <1>2, <2>1, LargeKnown
  <1>4. ptr \in Mine[u]
    <2>1. Mine[u] = Run(ptr - 1, block[u].units)
      BY MineKnown
    <2>2. ptr \in Units /\ block[u].units \in Nat /\ block[u].units >= 2
      BY WhatIsAsked DEF HasSmall
    <2> QED  BY <2>1, <2>2, UnitNumbers DEF Run
  <1>5. Mine[u] \subseteq SlobUnits
    BY DEF HeapShape, CutUp
  <1>6. PICK t \in Slots : ptr \div PageUnits \in held[t]
    BY <1>4, <1>5, SlobUnitsKnown
  <1> QED  BY <1>3, <1>6, HeapCallers DEF NeverTwice

\* kfree of a large block.
LEMMA LargeFreed ==
    ASSUME HeapShape, NeverTwice, NEW u \in Users, kfreeBig(u)
    PROVE  /\ HeapShape' /\ client' = client
           /\ \E base \in Int, n \in Nat \ {0} : ListFree(u, base, n)
  <1> DEFINE i == Min(Entries(block[u].ptr))
             big == bigblocks[i]
             base == big.pages \div PageUnits
             n == 2 ^ big.order
  <1>1. /\ pending = {} /\ block[u] # Nothing /\ Entries(block[u].ptr) # {}
        /\ ListFree(u, base, n) /\ Relist(slob_free(Slob, big.bb, BIGBLOCK))
        /\ bigblocks' = RemoveAt(bigblocks, i)
        /\ block' = [block EXCEPT ![u] = Nothing] /\ pending' = pending
    BY DEF kfreeBig
  <1>2. /\ held = [c \in Callers |-> held[c]]
        /\ block \in [Users -> [ptr : Int, size : Nat, units : Nat]]
        /\ bigblocks \in Seq(BigBlocks) /\ Distinct(bigblocks)
        /\ \A j \in DOMAIN bigblocks : \E v \in Users : HasLarge(block[v], held[v], bigblocks[j])
        /\ \A v \in Users : \/ Idle(block[v], held[v]) \/ HasSmall(block[v], held[v])
                            \/ \E j \in DOMAIN bigblocks : HasLarge(block[v], held[v], bigblocks[j])
        /\ \A t \in Slots : held[t] \subseteq Pages
    BY DEF HeapShape
  <1>3. i \in DOMAIN bigblocks /\ big.pages = block[u].ptr
    <2> DEFINE E == Entries(block[u].ptr)
    <2>1. E # {} /\ E \subseteq DOMAIN bigblocks /\ E \subseteq Nat
      <3>1. E \subseteq DOMAIN bigblocks
        BY DEF Entries
      <3>2. E # {}
        BY <1>1
      <3> HIDE DEF E
      <3> QED  BY <3>1, <3>2, BigBlocksKnown
    <2>2. \A j \in E : bigblocks[j].pages = block[u].ptr
      BY DEF Entries
    <2> HIDE DEF E
    <2>3. Min(E) \in E
      BY <2>1, MinOfSet
    <2> QED  BY <2>1, <2>2, <2>3 DEF E
  <1> HIDE DEF i
  <1>4. HasLarge(block[u], held[u], big)
    <2>1. ~Idle(block[u], held[u]) /\ ~HasSmall(block[u], held[u])
      BY <1>1, NotSmall DEF Idle
    <2>2. PICK j \in DOMAIN bigblocks : HasLarge(block[u], held[u], bigblocks[j])
      BY <1>2, <2>1
    <2>3. bigblocks[j].pages = block[u].ptr
      BY <2>2 DEF HasLarge
    <2>4. j = i
      BY <1>2, <1>3, <2>3 DEF Distinct
    <2> QED  BY <2>2, <2>4
  <1>5. big \in BigBlocks /\ big.bb \in Units
    BY <1>3, BigBlocksKnown
  <1>6. base \in Pages /\ n \in Nat \ {0} /\ held[u] = Run(base, n)
    BY <1>4, <1>5, LargeKnown
  <1> HIDE DEF big, base, n
  <1>7. /\ held' = [c \in Callers |-> held'[c]] /\ held'[u] = {}
        /\ \A v \in Users \ {u} : held'[v] = held[v]
        /\ \A t \in Slots : held'[t] = held[t]
    <2>1. held' = [held EXCEPT ![u] = held[u] \ Run(base, n)]
      BY <1>1 DEF ListFree
    <2>2. held[u] \ Run(base, n) = {}
      BY <1>6
    <2> QED  BY <1>2, <2>1, <2>2, HeapCallers
  <1>8. \A v \in Users \ {u} : ~HasLarge(block[v], held[v], big)
    <2> SUFFICES ASSUME NEW v \in Users, v # u, HasLarge(block[v], held[v], big)  PROVE FALSE
      OBVIOUS
    <2>1. Mine[v] = Run(big.bb, BIGBLOCK) /\ Mine[u] = Run(big.bb, BIGBLOCK)
      BY <1>3, <1>4, MineKnown DEF big
    <2>2. big.bb \in Run(big.bb, BIGBLOCK)
      BY <1>5, UnitNumbers DEF Run
    <2>3. Mine[u] \cap Mine[v] = {}
      BY DEF HeapShape, CutUp
    <2> QED  BY <2>1, <2>2, <2>3
  <1>9. /\ bigblocks' \in Seq(BigBlocks) /\ Distinct(bigblocks')
        /\ \A j \in DOMAIN bigblocks' : \E k \in DOMAIN bigblocks : k # i /\ bigblocks'[j] = bigblocks[k]
        /\ \A k \in DOMAIN bigblocks : k # i => \E j \in DOMAIN bigblocks' : bigblocks'[j] = bigblocks[k]
    BY <1>1, <1>2, <1>3, EntryRemoved
  <1>10. block'[u] = Nothing /\ \A v \in Users \ {u} : block'[v] = block[v]
    BY <1>1, <1>2
  <1>11. \A j \in DOMAIN bigblocks' : bigblocks'[j].pages # NULL
    BY <1>9, BigBlocksKnown
  <1>12. \A v \in Users : Mine'[v] = Part(block'[v], bigblocks', {}, v)
    BY <1>1 DEF Mine
  <1>13. Mine'[u] = {}
    <2>1. Part(Nothing, bigblocks', {}, u) = {}
      BY <1>9, <1>11, PartsKnown
    <2> QED  BY <1>10, <1>12, <2>1
  <1>14. \A v \in Users \ {u} :
            /\ Mine'[v] = Mine[v]
            /\ \/ Idle(block'[v], held'[v]) \/ HasSmall(block'[v], held'[v])
               \/ \E j \in DOMAIN bigblocks' : HasLarge(block'[v], held'[v], bigblocks'[j])
    <2> SUFFICES ASSUME NEW v \in Users, v # u
                 PROVE  /\ Mine'[v] = Mine[v]
                        /\ \/ Idle(block'[v], held'[v]) \/ HasSmall(block'[v], held'[v])
                           \/ \E j \in DOMAIN bigblocks' : HasLarge(block'[v], held'[v], bigblocks'[j])
      OBVIOUS
    <2>1. \A k \in DOMAIN bigblocks :
             HasLarge(block[v], held[v], bigblocks[k]) => \E j \in DOMAIN bigblocks' : bigblocks'[j] = bigblocks[k]
      BY <1>8, <1>9 DEF big
    <2> DEFINE later == bigblocks'
    <2>2. Distinct(later) /\ \A j \in DOMAIN later : later[j].pages # NULL
      BY <1>9, <1>11
    <2>3. \A k \in DOMAIN bigblocks :
             HasLarge(block[v], held[v], bigblocks[k]) => \E j \in DOMAIN later : later[j] = bigblocks[k]
      BY <2>1
    <2> HIDE DEF later
    <2> DEFINE pend == {}
    <2>4. (\A c \in pending : c.user # v) /\ \A c \in pend : c.user # v
      BY <1>1
    <2> HIDE DEF pend
    <2>5. /\ Part(block[v], later, pend, v) = Mine[v]
          /\ \/ Idle(block[v], held[v]) \/ HasSmall(block[v], held[v])
             \/ \E j \in DOMAIN later : HasLarge(block[v], held[v], later[j])
      BY <2>2, <2>3, <2>4, Bystander
    <2> QED  BY <1>7, <1>10, <1>12, <2>5 DEF later, pend
  <1>15. CutUp(Slob', Mine', SlobUnits')
    <2>1. SlobUnits' = SlobUnits
      BY <1>7, SlobUnitsKnown
    <2>2. BIGBLOCK \in Nat \ {0}
      BY UnitNumbers
    <2>3. Mine[u] = Run(big.bb, BIGBLOCK)
      BY <1>3, <1>4, MineKnown DEF big
    <2> QED  BY <1>1, <1>5, <1>13, <1>14, <2>1, <2>2, <2>3, PieceFreed
  <1>16. block' \in [Users -> [ptr : Int, size : Nat, units : Nat]]
    <2>1. Nothing \in [ptr : Int, size : Nat, units : Nat]
      BY DEF Nothing, NULL
    <2> QED  BY <1>1, <1>2, <2>1
  <1>17. \A j \in DOMAIN bigblocks' : \E v \in Users : HasLarge(block'[v], held'[v], bigblocks'[j])
    <2> SUFFICES ASSUME NEW j \in DOMAIN bigblocks'
                 PROVE  \E v \in Users : HasLarge(block'[v], held'[v], bigblocks'[j])
      OBVIOUS
    <2>1. PICK k \in DOMAIN bigblocks : k # i /\ bigblocks'[j] = bigblocks[k]
      BY <1>9
    <2>2. PICK v \in Users : HasLarge(block[v], held[v], bigblocks[k])
      BY <1>2
    <2>3. v # u
      <3>1. bigblocks[k].pages # bigblocks[i].pages
        BY <1>2, <1>3, <2>1 DEF Distinct
      <3>2. bigblocks[k].pages = block[v].ptr
        BY <2>2 DEF HasLarge
      <3> QED  BY <1>3, <3>1, <3>2 DEF big
    <2> QED  BY <1>7, <1>10, <2>1, <2>2, <2>3
  <1>18. \A v \in Users : \/ Idle(block'[v], held'[v]) \/ HasSmall(block'[v], held'[v])
                          \/ \E j \in DOMAIN bigblocks' : HasLarge(block'[v], held'[v], bigblocks'[j])
    <2>1. Idle(block'[u], held'[u])
      BY <1>7, <1>10 DEF Idle
    <2> QED  BY <1>14, <2>1
  <1>19. client' = client
    BY <1>1 DEF Relist
  <1>20. /\ pending' \subseteq Calls /\ (\A c, d \in pending' : c = d) /\ \A c \in pending' : block'[c.user] = Nothing
         /\ \A t \in Slots : held'[t] \subseteq Pages
    BY <1>1, <1>2, <1>7
  <1>21. \E b \in Int, m \in Nat \ {0} : ListFree(u, b, m)
    <2>1. base \in Int
      BY <1>6, Numbers
    <2> QED  BY <1>1, <1>6, <2>1
  <1> HIDE DEF Mine, CutUp
  <1> QED  BY <1>7, <1>9, <1>15, <1>16, <1>17, <1>18, <1>19, <1>20, <1>21 DEF HeapShape

\* What is free belongs to nobody.
LEMMA FreeIsNobodys ==
    ASSUME NEW p \in FreePages, NEW c \in Callers
    PROVE  p \notin held[c]
  BY DEF FreePages, HeldPages

\* The rest of the kmalloc of a large block.
LEMMA BlockEntered ==
    ASSUME TailKept, ListInv, HeapShape, NEW call \in pending, BigBlock(call)
    PROVE  /\ HeapShape' /\ client' = client
           /\ \E c \in Callers, n \in Nat \ {0} : ListAlloc(c, n)
  <1> DEFINE u == call.user
             order == find_order(call.size)
             n == 2 ^ order
             p == Fit(n)
             e == [bb |-> call.bb, pages |-> pagesOf(p), order |-> order]
             bl == [ptr |-> pagesOf(p), size |-> call.size, units |-> 0]
  <1>1. /\ ListAlloc(u, n) /\ bigblocks' = <<e>> \o bigblocks
        /\ block' = [block EXCEPT ![u] = bl] /\ pending' = {}
        /\ client' = client /\ slob' = slob /\ slobfree' = slobfree
    BY DEF BigBlock
  <1>2. /\ held = [c \in Callers |-> held[c]]
        /\ block \in [Users -> [ptr : Int, size : Nat, units : Nat]]
        /\ bigblocks \in Seq(BigBlocks) /\ Distinct(bigblocks)
        /\ \A j \in DOMAIN bigblocks : \E v \in Users : HasLarge(block[v], held[v], bigblocks[j])
        /\ \A v \in Users : \/ Idle(block[v], held[v]) \/ HasSmall(block[v], held[v])
                            \/ \E j \in DOMAIN bigblocks : HasLarge(block[v], held[v], bigblocks[j])
        /\ \A t \in Slots : held[t] \subseteq Pages
        /\ pending \subseteq Calls /\ \A c, d \in pending : c = d
        /\ \A c \in pending : block[c.user] = Nothing
        /\ CutUp(Slob, Mine, SlobUnits)
    BY DEF HeapShape
  <1>3. /\ u \in Users /\ u \in Callers /\ u \notin Slots /\ call.bb \in Units /\ block[u] = Nothing
        /\ call.size \in Sizes /\ ~Small(call.size)
    BY <1>2, HeapCallers DEF Calls
  <1>4. /\ n \in Nat \ {0} /\ order \in Nat /\ call.size \in Nat
    BY <1>3, WhatIsAsked
  <1> HIDE DEF n, order
  <1>5. /\ p \in Pages /\ Run(p, n) \subseteq FreePages
        /\ held' = [held EXCEPT ![u] = Run(p, n)]
    BY <1>1, <1>3, <1>4, ListAllocStep
  <1> HIDE DEF p
  <1>6. p \in Run(p, n) /\ p \in Nat /\ pagesOf(p) \div PageUnits = p /\ pagesOf(p) \in Units
    BY <1>4, <1>5, Numbers, UnitsOfPages DEF Run
  <1>7. /\ held' = [c \in Callers |-> held'[c]] /\ held'[u] = Run(p, n)
        /\ \A v \in Users \ {u} : held'[v] = held[v]
        /\ \A t \in Slots : held'[t] = held[t]
    BY <1>2, <1>3, <1>5, HeapCallers
  <1>8. e \in BigBlocks /\ e.pages = pagesOf(p) /\ e.bb = call.bb /\ e.order = order
    BY <1>3, <1>4, <1>5 DEF BigBlocks
  <1>9. \A k \in DOMAIN bigblocks : bigblocks[k].pages # e.pages
    <2> SUFFICES ASSUME NEW k \in DOMAIN bigblocks, bigblocks[k].pages = e.pages  PROVE FALSE
      OBVIOUS
    <2>1. PICK v \in Users : HasLarge(block[v], held[v], bigblocks[k])
      BY <1>2
    <2>2. bigblocks[k] \in BigBlocks
      BY BigBlocksKnown
    <2>3. p \in held[v]
      BY <1>6, <1>8, <2>1, <2>2, LargeKnown
    <2> QED  BY <1>5, <1>6, <2>3, FreeIsNobodys, HeapCallers
  <1>10. HasLarge(bl, Run(p, n), e)
    BY <1>3, <1>6, <1>8 DEF HasLarge, order, n
  <1> HIDE DEF e, bl
  <1>11. /\ bigblocks' \in Seq(BigBlocks) /\ Distinct(bigblocks')
         /\ 1 \in DOMAIN bigblocks' /\ bigblocks'[1] = e
         /\ \A j \in DOMAIN bigblocks' : bigblocks'[j] = e \/ \E k \in DOMAIN bigblocks : bigblocks'[j] = bigblocks[k]
         /\ \A k \in DOMAIN bigblocks : \E j \in DOMAIN bigblocks' : bigblocks'[j] = bigblocks[k]
    <2> DEFINE bigs == bigblocks
               r == bigblocks'
    <2>1. bigs \in Seq(BigBlocks) /\ Distinct(bigs) /\ e \in BigBlocks
      BY <1>2, <1>8
    <2>2. \A k \in DOMAIN bigs : bigs[k].pages # e.pages
      BY <1>9
    <2>3. r = <<e>> \o bigs /\ <<e>> \in Seq(BigBlocks) /\ Len(<<e>>) = 1 /\ <<e>>[1] = e
      BY <1>1, <2>1
    <2> HIDE DEF bigs, r
    <2>5. r \in Seq(BigBlocks) /\ Len(r) = 1 + Len(bigs) /\ r[1] = e
      BY <2>1, <2>3
    <2>6. \A j \in 1 .. Len(bigs) : r[1 + j] = bigs[j]
      BY <2>1, <2>3
    <2>4. Distinct(r) /\ 1 \in DOMAIN r
      BY <2>1, <2>2, <2>5, <2>6, EntryAdded
    <2>10. Len(bigs) \in Nat /\ DOMAIN bigs = 1 .. Len(bigs) /\ DOMAIN r = 1 .. 1 + Len(bigs)
      BY <2>1, <2>5
    <2>7. /\ \A j \in DOMAIN r : j = 1 \/ (j - 1 \in DOMAIN bigs /\ r[j] = bigs[j - 1])
          /\ \A k \in DOMAIN bigs : 1 + k \in DOMAIN r /\ r[1 + k] = bigs[k]
      <3>1. \A j \in DOMAIN r : j = 1 \/ (j - 1 \in 1 .. Len(bigs) /\ 1 + (j - 1) = j)
        BY <2>10
      <3> QED  BY <2>6, <2>10, <3>1
    <2>8. \A j \in DOMAIN r : r[j] = e \/ \E k \in DOMAIN bigs : r[j] = bigs[k]
      BY <2>5, <2>7
    <2>9. \A k \in DOMAIN bigs : \E j \in DOMAIN r : r[j] = bigs[k]
      BY <2>7
    <2> QED  BY <2>4, <2>5, <2>8, <2>9 DEF bigs, r
  <1>12. block'[u] = bl /\ \A v \in Users \ {u} : block'[v] = block[v]
    BY <1>1, <1>2, <1>3
  <1>13. \A j \in DOMAIN bigblocks' : bigblocks'[j].pages # NULL
    <2>1. e.pages # NULL
      BY <1>6, <1>8, UnitNumbers DEF NULL
    <2> QED  BY <1>11, <2>1, BigBlocksKnown
  <1>14. \A v \in Users : Mine'[v] = Part(block'[v], bigblocks', {}, v)
    BY <1>1 DEF Mine
  <1> DEFINE later == bigblocks'
             pend == {}
  <1>15. /\ Distinct(later) /\ \A j \in DOMAIN later : later[j].pages # NULL
         /\ 1 \in DOMAIN later /\ later[1] = e
    BY <1>11, <1>13
  <1>16. Mine'[u] = Mine[u]
    <2>1. Mine[u] = Run(call.bb, BIGBLOCK)
      BY MineKnown
    <2>2. bl.units = 0 /\ bl.ptr = e.pages
      BY <1>8 DEF bl
    <2>3. \A c \in pend : c.user # u
      OBVIOUS
    <2> HIDE DEF later, pend
    <2>4. Part(bl, later, pend, u) = Run(later[1].bb, BIGBLOCK)
      BY <1>15, <2>2, <2>3, PartsKnown
    <2> QED  BY <1>3, <1>8, <1>12, <1>14, <1>15, <2>1, <2>4 DEF later, pend
  <1>17. \A v \in Users \ {u} :
            /\ Mine'[v] = Mine[v]
            /\ \/ Idle(block'[v], held'[v]) \/ HasSmall(block'[v], held'[v])
               \/ \E j \in DOMAIN bigblocks' : HasLarge(block'[v], held'[v], bigblocks'[j])
    <2> SUFFICES ASSUME NEW v \in Users, v # u
                 PROVE  /\ Mine'[v] = Mine[v]
                        /\ \/ Idle(block'[v], held'[v]) \/ HasSmall(block'[v], held'[v])
                           \/ \E j \in DOMAIN bigblocks' : HasLarge(block'[v], held'[v], bigblocks'[j])
      OBVIOUS
    <2>1. \A k \in DOMAIN bigblocks :
             HasLarge(block[v], held[v], bigblocks[k]) => \E j \in DOMAIN later : later[j] = bigblocks[k]
      BY <1>11
    <2>4. Distinct(later) /\ \A j \in DOMAIN later : later[j].pages # NULL
      BY <1>15
    <2>2. (\A c \in pending : c.user # v) /\ \A c \in pend : c.user # v
      BY <1>2
    <2> HIDE DEF later, pend
    <2>3. /\ Part(block[v], later, pend, v) = Mine[v]
          /\ \/ Idle(block[v], held[v]) \/ HasSmall(block[v], held[v])
             \/ \E j \in DOMAIN later : HasLarge(block[v], held[v], later[j])
      BY <2>1, <2>2, <2>4, Bystander
    <2> QED  BY <1>7, <1>12, <1>14, <2>3 DEF later, pend
  <1>18. CutUp(Slob', Mine', SlobUnits')
    <2>1. SlobUnits' = SlobUnits
      BY <1>7, SlobUnitsKnown
    <2>2. Mine' = Mine
      <3>1. Mine' = [v \in Users |-> Mine'[v]] /\ Mine = [v \in Users |-> Mine[v]]
        BY DEF Mine
      <3> HIDE DEF Mine
      <3> QED  BY <1>16, <1>17, <3>1
    <2>3. Slob' = Slob
      BY <1>1 DEF Slob
    <2> QED  BY <1>2, <2>1, <2>2, <2>3
  <1>19. block' \in [Users -> [ptr : Int, size : Nat, units : Nat]]
    <2>1. bl \in [ptr : Int, size : Nat, units : Nat]
      BY <1>4, <1>6, UnitNumbers DEF bl
    <2> QED  BY <1>1, <1>2, <2>1
  <1>20. HasLarge(block'[u], held'[u], bigblocks'[1])
    BY <1>7, <1>10, <1>11, <1>12
  <1>21. \A j \in DOMAIN bigblocks' : \E v \in Users : HasLarge(block'[v], held'[v], bigblocks'[j])
    <2> SUFFICES ASSUME NEW j \in DOMAIN bigblocks'
                 PROVE  \E v \in Users : HasLarge(block'[v], held'[v], bigblocks'[j])
      OBVIOUS
    <2>1. CASE bigblocks'[j] = e
      BY <1>3, <1>11, <1>20, <2>1
    <2>2. ASSUME NEW k \in DOMAIN bigblocks, bigblocks'[j] = bigblocks[k]
          PROVE  \E v \in Users : HasLarge(block'[v], held'[v], bigblocks'[j])
      <3>1. PICK v \in Users : HasLarge(block[v], held[v], bigblocks[k])
        BY <1>2
      <3>2. v # u
        <4>1. block[v].ptr = bigblocks[k].pages
          BY <3>1 DEF HasLarge
        <4>2. block[u].ptr = NULL
          BY <1>3 DEF Nothing
        <4> QED  BY <4>1, <4>2, BigBlocksKnown
      <3> QED  BY <1>7, <1>12, <2>2, <3>1, <3>2
    <2> QED  BY <1>11, <2>1, <2>2
  <1>22. \A v \in Users : \/ Idle(block'[v], held'[v]) \/ HasSmall(block'[v], held'[v])
                          \/ \E j \in DOMAIN bigblocks' : HasLarge(block'[v], held'[v], bigblocks'[j])
    BY <1>11, <1>17, <1>20
  <1>23. /\ pending' \subseteq Calls /\ (\A c, d \in pending' : c = d) /\ \A c \in pending' : block'[c.user] = Nothing
         /\ \A t \in Slots : held'[t] \subseteq Pages
    BY <1>1, <1>2, <1>7
  <1>24. \E c \in Callers, m \in Nat \ {0} : ListAlloc(c, m)
    BY <1>1, <1>3, <1>4
  <1> HIDE DEF Mine, CutUp, later, pend, u
  <1> QED  BY <1>1, <1>7, <1>11, <1>18, <1>19, <1>21, <1>22, <1>23, <1>24 DEF HeapShape

\* kmalloc up to the return of slob_alloc, which may get a page first.
LEMMA Allocated ==
    ASSUME TailKept, ListInv, HeapShape, NEW u \in Users, NEW size \in Sizes, kmalloc(u, size)
    PROVE  /\ HeapShape' /\ client' = client
           /\ UNCHANGED vars \/ \E c \in Callers, n \in Nat \ {0} : ListAlloc(c, n)
  <1> DEFINE units == IF Small(size) THEN size + 1 ELSE BIGBLOCK
             b == pagesOf(Fit(1))
             s == slob_free(Slob, b, PageUnits)
  <1>1. pending = {} /\ block[u] = Nothing
    BY DEF kmalloc
  <1>2. /\ held = [c \in Callers |-> held[c]] /\ \A t \in Slots : held[t] \subseteq Pages
        /\ CutUp(Slob, Mine, SlobUnits)
    BY DEF HeapShape
  <1>3. \/ Enough(Slob, units) # {} /\ Cut(u, size, slob_alloc(Slob, units)) /\ UNCHANGED vars
        \/ \E slot \in Slots : ListAlloc(slot, 1) /\ Cut(u, size, slob_alloc(s, units))
    BY DEF kmalloc
  <1>4. CASE Enough(Slob, units) # {} /\ Cut(u, size, slob_alloc(Slob, units)) /\ UNCHANGED vars
    <2>1. held' = held /\ SlobUnits' = SlobUnits
      BY <1>4, SlobUnitsKnown DEF vars
    <2>2. client' = client
      BY <1>4 DEF Cut, Relist
    <2>3. CutUp(Slob, Mine, SlobUnits')
      BY <1>2, <2>1
    <2>4. HeapShape'
      BY <1>1, <1>2, <1>4, <2>1, <2>3, CutStep
    <2> QED  BY <1>4, <2>2, <2>4
  <1>5. ASSUME NEW slot \in Slots, ListAlloc(slot, 1), Cut(u, size, slob_alloc(s, units))
        PROVE  /\ HeapShape' /\ client' = client
               /\ \E c \in Callers, n \in Nat \ {0} : ListAlloc(c, n)
    <2> DEFINE p == Fit(1)
               R == Run(b, PageUnits)
    <2>1. slot \in Callers /\ slot \notin Users
      BY HeapCallers
    <2>2. /\ p \in Pages /\ Run(p, 1) \subseteq FreePages /\ held[slot] = {}
          /\ held' = [held EXCEPT ![slot] = Run(p, 1)]
      BY <1>5, <2>1, ListAllocStep
    <2> HIDE DEF p
    <2>3. p \in Nat /\ Run(p, 1) = {p}
      BY <2>2, Numbers DEF Run
    <2>4. /\ held' = [c \in Callers |-> held'[c]] /\ held'[slot] = {p}
          /\ \A v \in Users : held'[v] = held[v]
          /\ \A t \in Slots \ {slot} : held'[t] = held[t]
      BY <1>2, <2>1, <2>2, <2>3, HeapCallers
    <2>5. \A t \in Slots : held'[t] \subseteq Pages
      BY <1>2, <2>2, <2>4
    <2>6. b \in Units /\ R \subseteq Units /\ \A k \in Units : k \in R <=> p = k \div PageUnits
      BY <2>2, UnitsOfPages DEF p
    <2>7. R \cap SlobUnits = {}
      <3> SUFFICES ASSUME NEW k \in R, k \in SlobUnits  PROVE FALSE
        OBVIOUS
      <3>1. k \in Units /\ k \div PageUnits = p
        BY <2>6
      <3>2. PICK t \in Slots : p \in held[t]
        BY <3>1, SlobUnitsKnown
      <3> QED  BY <2>2, <2>3, <3>2, FreeIsNobodys, HeapCallers
    <2>8. SlobUnits' = SlobUnits \cup R
      <3> DEFINE h == held'
                 T == SlobUnits'
      <3>1. \A t \in Slots : h[t] \subseteq Pages
        BY <2>5
      <3>2. T = UNION {Run(pagesOf(q), PageUnits) : q \in UNION {h[t] : t \in Slots}}
        BY DEF SlobUnits
      <3> HIDE DEF h, T
      <3>3. T \subseteq Units /\ \A k \in Units : k \in T <=> \E t \in Slots : k \div PageUnits \in h[t]
        BY <3>1, <3>2, HeapUnits
      <3>4. SlobUnits \subseteq Units /\ \A k \in Units : k \in SlobUnits <=> \E t \in Slots : k \div PageUnits \in held[t]
        BY SlobUnitsKnown
      <3>5. \A k \in Units : k \in T <=> k \in SlobUnits \/ k \in R
        BY <2>2, <2>4, <2>6, <3>3, <3>4 DEF h
      <3> QED  BY <2>6, <3>3, <3>4, <3>5 DEF T
    <2> DEFINE f == Slob
               M == Mine
               T == SlobUnits
    <2>9. CutUp(f, M, T)
      BY <1>2
    <2> HIDE DEF b, f, M, T
    <2>10. /\ CutUp(slob_free(f, b, PageUnits), M, T \cup R)
           /\ \A m \in 0 .. PageUnits : Enough(slob_free(f, b, PageUnits), m) # {}
      BY <2>6, <2>7, <2>9, PageAdded DEF T
    <2>11. units \in 0 .. PageUnits
      BY WhatIsAsked, UnitNumbers
    <2> HIDE DEF units, R
    <2>12. CutUp(s, Mine, SlobUnits') /\ Enough(s, units) # {}
      BY <2>8, <2>10, <2>11 DEF f, M, T
    <2> HIDE DEF s
    <2>13. HeapShape'
      BY <1>1, <1>5, <2>4, <2>5, <2>12, CutStep DEF units
    <2>14. client' = client
      BY <1>5 DEF Cut, Relist
    <2> QED  BY <1>5, <2>1, <2>13, <2>14
  <1> QED  BY <1>3, <1>4, <1>5

\* In the beginning the heap has no pages, and its ring is arena alone.
LEMMA HeapInitHolds ==
    ASSUME HeapInit
    PROVE  HeapInv
  <1>1. /\ Init /\ client \in {"pages", "heap"} /\ (client = "heap" => pmm_manager = "default")
        /\ slob = [b \in {arena} |-> [units |-> 1, next |-> arena]] /\ slobfree = arena
        /\ bigblocks = <<>> /\ pending = {} /\ block = [u \in Users |-> Nothing]
    BY DEF HeapInit
  <1>2. held = [c \in Callers |-> {}]
    BY <1>1 DEF Init
  <1>3. /\ held = [c \in Callers |-> held[c]] /\ \A t \in Slots : held[t] \subseteq Pages
        /\ \A u \in Users : held[u] = {}
    BY <1>2, HeapCallers
  <1>4. block \in [Users -> [ptr : Int, size : Nat, units : Nat]] /\ \A u \in Users : block[u] = Nothing
    <2>1. Nothing \in [ptr : Int, size : Nat, units : Nat]
      BY DEF Nothing, NULL
    <2> QED  BY <1>1, <2>1
  <1>5. bigblocks \in Seq(BigBlocks) /\ DOMAIN bigblocks = {}
    BY <1>1
  <1>6. \A u \in Users : Mine[u] = {}
    <2> SUFFICES ASSUME NEW u \in Users  PROVE Mine[u] = {}
      OBVIOUS
    <2> DEFINE bigs == bigblocks
               pend == pending
               bl == block[u]
    <2>1. Distinct(bigs) /\ \A i \in DOMAIN bigs : bigs[i].pages # NULL
      BY <1>5 DEF Distinct
    <2>2. bl = Nothing /\ \A c \in pend : c.user # u
      BY <1>1, <1>4
    <2>3. Mine[u] = Part(bl, bigs, pend, u)
      BY DEF Mine
    <2> HIDE DEF bigs, pend, bl
    <2> QED  BY <2>1, <2>2, <2>3, PartsKnown
  <1>7. SlobUnits = {}
    <2> DEFINE h == held
               T == SlobUnits
    <2>1. T = UNION {Run(pagesOf(p), PageUnits) : p \in UNION {h[t] : t \in Slots}}
      BY DEF SlobUnits
    <2>2. \A t \in Slots : h[t] \subseteq Pages /\ h[t] = {}
      BY <1>2, HeapCallers
    <2> HIDE DEF h, T
    <2>3. T \subseteq Units /\ \A k \in Units : k \in T <=> \E t \in Slots : k \div PageUnits \in h[t]
      BY <2>1, <2>2, HeapUnits
    <2> QED  BY <2>2, <2>3 DEF T
  <1>8. SlobBlocks(Slob, {})
    <2> DEFINE s == Slob
    <2>1. DOMAIN s.list = {arena} /\ s.list[arena] = [units |-> 1, next |-> arena] /\ s.start = arena
      BY <1>1 DEF Slob
    <2>2. s.list \in [{arena} -> [units : Nat, next : {arena}]]
      BY <1>1 DEF Slob
    <2> HIDE DEF s
    <2>3. Follows({arena}, arena, arena)
      BY UnitNumbers DEF Follows, Up
    <2>4. Ring(s.list, DOMAIN s.list)
      BY <2>1, <2>2, <2>3 DEF Ring
    <2>5. \A b, c \in DOMAIN s.list : ~(b < c)
      BY <2>1, UnitNumbers
    <2> QED  BY <2>1, <2>4, <2>5 DEF SlobBlocks, s
  <1>9. CutUp(Slob, Mine, SlobUnits)
    <2>1. SlobUnits \ UNION {Mine[u] : u \in Users} = {}
      BY <1>7
    <2> HIDE DEF Mine, SlobUnits
    <2> QED  BY <1>6, <1>7, <1>8, <2>1 DEF CutUp
  <1>10. pmm_manager # "buddy" => ListInv
    BY <1>1, ListInvInit
  <1>11. \A u \in Users : Idle(block[u], held[u])
    BY <1>3, <1>4 DEF Idle
  <1>12. Distinct(bigblocks)
    BY <1>5 DEF Distinct
  <1>13. HeapShape
    BY <1>1, <1>3, <1>4, <1>5, <1>9, <1>11, <1>12 DEF HeapShape
  <1> QED  BY <1>1, <1>4, <1>10, <1>13 DEF HeapInv

\* The callers of alloc_pages leave the heap alone.
LEMMA OthersStep ==
    ASSUME HeapShape, NEW c \in Callers \ (Slots \cup Users), CallerStep(c), UNCHANGED heapVars
    PROVE  HeapShape'
  <1>1. /\ client' = client /\ slob' = slob /\ slobfree' = slobfree
        /\ bigblocks' = bigblocks /\ pending' = pending /\ block' = block
    BY DEF heapVars
  <1>2. \E S : held' = [held EXCEPT ![c] = S]
    BY DEF CallerStep, ListAlloc, BuddyAlloc, ListFree, BuddyFree, Given
  <1>3. /\ held = [d \in Callers |-> held[d]] /\ block \in [Users -> [ptr : Int, size : Nat, units : Nat]]
        /\ bigblocks \in Seq(BigBlocks) /\ Distinct(bigblocks)
        /\ \A i \in DOMAIN bigblocks : \E u \in Users : HasLarge(block[u], held[u], bigblocks[i])
        /\ pending \subseteq Calls /\ \A d, e \in pending : d = e
        /\ \A call \in pending : block[call.user] = Nothing
        /\ \A u \in Users : \/ Idle(block[u], held[u])
                            \/ HasSmall(block[u], held[u])
                            \/ \E i \in DOMAIN bigblocks : HasLarge(block[u], held[u], bigblocks[i])
        /\ \A t \in Slots : held[t] \subseteq Pages
        /\ CutUp(Slob, Mine, SlobUnits)
    BY DEF HeapShape
  <1>4. held' = [d \in Callers |-> held'[d]] /\ \A d \in Callers \ {c} : held'[d] = held[d]
    BY <1>2, <1>3
  <1>5. \A d \in Slots \cup Users : held'[d] = held[d]
    BY <1>4, HeapCallers
  <1>6. Slob' = Slob /\ Mine' = Mine
    BY <1>1 DEF Slob, Mine
  <1>7. SlobUnits' = SlobUnits
    BY <1>5, SlobUnitsKnown
  <1>8. CutUp(Slob', Mine', SlobUnits')
    BY <1>3, <1>6, <1>7
  <1>9. /\ \A i \in DOMAIN bigblocks' : \E u \in Users : HasLarge(block'[u], held'[u], bigblocks'[i])
        /\ \A u \in Users : \/ Idle(block'[u], held'[u])
                            \/ HasSmall(block'[u], held'[u])
                            \/ \E i \in DOMAIN bigblocks' : HasLarge(block'[u], held'[u], bigblocks'[i])
    BY <1>1, <1>3, <1>5
  <1>10. \A t \in Slots : held'[t] \subseteq Pages
    BY <1>3, <1>5
  <1> HIDE DEF Mine
  <1> QED  BY <1>1, <1>3, <1>4, <1>8, <1>9, <1>10 DEF HeapShape

\* A call of the list managers, by whom and for what ever.
ListCall ==
    \E c \in Callers, n \in Nat \ {0} :
        ListAlloc(c, n) \/ \E base \in Int : ListFree(c, base, n)

LEMMA ListCallStep ==
    ASSUME TailKept, HeapInv, ListCall
    PROVE  ListInv' /\ Allocator!Next /\ pmm_manager # "buddy" /\ pmm_manager' = pmm_manager
  <1>1. PICK c \in Callers, n \in Nat \ {0} :
           ListAlloc(c, n) \/ \E base \in Int : ListFree(c, base, n)
    BY DEF ListCall
  <1>2. CASE ListAlloc(c, n)
    <2>1. pmm_manager # "buddy" /\ pmm_manager' = pmm_manager
      BY <1>2 DEF ListAlloc
    <2>2. ListInv
      BY <2>1 DEF HeapInv
    <2>3. ListInv' /\ Allocator!Alloc(c)
      BY <1>2, <2>2, ListAllocStep
    <2> QED  BY <2>1, <2>3 DEF Allocator!Next
  <1>3. ASSUME NEW base \in Int, ListFree(c, base, n)
        PROVE  ListInv' /\ Allocator!Next /\ pmm_manager # "buddy" /\ pmm_manager' = pmm_manager
    <2>1. pmm_manager # "buddy" /\ pmm_manager' = pmm_manager
      BY <1>3 DEF ListFree
    <2>2. ListInv
      BY <2>1 DEF HeapInv
    <2>3. ListInv' /\ Allocator!Free(c)
      BY <1>3, <2>2, ListFreeStep
    <2> QED  BY <2>1, <2>3 DEF Allocator!Next
  <1> QED  BY <1>1, <1>2, <1>3

\* What every step does: the shape of the heap is kept, and the pages change hands by
\* a call of the manager.
LEMMA HeapStep ==
    ASSUME TailKept, HeapInv, HeapNext
    PROVE  /\ HeapShape' /\ client' = client
           /\ \/ UNCHANGED vars
              \/ ListCall
              \/ pmm_manager = "buddy" /\ pmm_manager' = "buddy"
  <1>1. HeapShape /\ (pmm_manager # "buddy" => ListInv)
    BY DEF HeapInv
  <1>2. ASSUME NEW c \in Callers \ (Slots \cup Users), CallerStep(c), UNCHANGED heapVars
        PROVE  /\ HeapShape' /\ client' = client
               /\ ListCall \/ (pmm_manager = "buddy" /\ pmm_manager' = "buddy")
    <2>1. HeapShape'
      BY <1>1, <1>2, OthersStep
    <2>2. PICK n \in 1 .. MaxRequest :
             \/ ListAlloc(c, n)
             \/ BuddyAlloc(c, n)
             \/ \E base \in Pages : ListFree(c, base, n) \/ BuddyFree(c, base, n)
      BY <1>2 DEF CallerStep
    <2>3. n \in Nat \ {0} /\ Pages \subseteq Int
      <3>1. MaxRequest \in Nat
        BY PmmAssumption, Numbers
      <3> QED  BY <3>1, Numbers
    <2>4. client' = client
      BY <1>2 DEF heapVars
    <2>5. CASE BuddyAlloc(c, n) \/ \E base \in Pages : BuddyFree(c, base, n)
      <3>1. pmm_manager = "buddy" /\ pmm_manager' = "buddy"
        BY <2>5 DEF BuddyAlloc, BuddyFree
      <3> QED  BY <2>1, <2>4, <3>1
    <2>6. CASE ListAlloc(c, n) \/ \E base \in Pages : ListFree(c, base, n)
      <3>1. c \in Callers /\ n \in Nat \ {0}
        BY <2>3
      <3>2. ListAlloc(c, n) \/ \E base \in Int : ListFree(c, base, n)
        BY <2>3, <2>6
      <3>3. ListCall
        BY <3>1, <3>2 DEF ListCall
      <3> QED  BY <2>1, <2>4, <3>3
    <2> QED  BY <2>2, <2>5, <2>6
  <1>3. ASSUME NEW u \in Users, NEW size \in Sizes, kmalloc(u, size)
        PROVE  HeapShape' /\ client' = client /\ (UNCHANGED vars \/ ListCall)
    <2>1. ListInv
      BY <1>1, <1>3 DEF kmalloc, HeapInv
    <2> QED  BY <1>1, <1>3, <2>1, Allocated DEF ListCall
  <1>4. ASSUME NEW u \in Users, kfreeSmall(u)
        PROVE  HeapShape' /\ client' = client /\ UNCHANGED vars
    <2>1. UNCHANGED vars
      BY <1>4 DEF kfreeSmall, vars
    <2> QED  BY <1>1, <1>4, <2>1, SmallFreed
  <1>5. ASSUME NEW u \in Users, kfreeBig(u)
        PROVE  HeapShape' /\ client' = client /\ ListCall
    <2>1. pmm_manager # "buddy"
      BY <1>5 DEF kfreeBig, ListFree
    <2>2. NeverTwice
      BY <1>1, <2>1 DEF ListInv
    <2>3. /\ HeapShape' /\ client' = client
          /\ \E base \in Int, n \in Nat \ {0} : ListFree(u, base, n)
      BY <1>1, <1>5, <2>2, LargeFreed
    <2> QED  BY <2>3, HeapCallers DEF ListCall
  <1>6. ASSUME NEW call \in pending, BigBlock(call)
        PROVE  HeapShape' /\ client' = client /\ ListCall
    <2>1. pmm_manager # "buddy"
      BY <1>6 DEF BigBlock, ListAlloc
    <2> QED  BY <1>1, <1>6, <2>1, BlockEntered DEF ListCall
  <1>7. ASSUME NEW call \in pending, NoBigBlock(call)
        PROVE  HeapShape' /\ client' = client /\ UNCHANGED vars
    <2>1. UNCHANGED vars
      BY <1>7 DEF NoBigBlock, vars
    <2> QED  BY <1>1, <1>7, <2>1, CallDropped
  <1> QED  BY <1>2, <1>3, <1>4, <1>5, <1>6, <1>7 DEF HeapNext

\* Without the heap there are no blocks.
LEMMA NoHeapKept ==
    ASSUME HeapInv, HeapNext, client = "pages"
    PROVE  block' = block /\ pending' = pending
  <1>1. pending = {} /\ \A u \in Users : block[u] = Nothing
    BY DEF HeapInv
  <1>2. ASSUME NEW u \in Users, (\E size \in Sizes : kmalloc(u, size)) \/ kfreeSmall(u) \/ kfreeBig(u)
        PROVE  FALSE
    BY <1>1, <1>2 DEF kmalloc, kfreeSmall, kfreeBig
  <1> QED  BY <1>1, <1>2 DEF HeapNext, heapVars

LEMMA HeapKept ==
    ASSUME TailKept, HeapInv, [HeapNext]_heapAll
    PROVE  /\ HeapInv' /\ (pmm_manager # "buddy" => [Allocator!Next]_held)
           /\ pmm_manager' = pmm_manager
  <1>1. CASE HeapNext
    <2>1. /\ HeapShape' /\ client' = client
          /\ \/ UNCHANGED vars
             \/ ListCall
             \/ pmm_manager = "buddy" /\ pmm_manager' = "buddy"
      BY <1>1, HeapStep
    <2>2. client = "pages" => pending' = {} /\ \A u \in Users : block'[u] = Nothing
      BY <1>1, NoHeapKept DEF HeapInv
    <2>3. CASE UNCHANGED vars
      <3>1. /\ link' = link /\ property' = property /\ pg_property' = pg_property
            /\ nr_free' = nr_free /\ pmm_manager' = pmm_manager /\ held' = held
        BY <2>3 DEF vars
      <3>2. ListInv => ListInv'
        BY <3>1 DEF ListInv, Current, FreePages, HeldPages, NeverTwice
      <3> QED  BY <2>1, <2>2, <3>1, <3>2 DEF HeapInv
    <2>4. CASE ListCall
      BY <2>1, <2>4, <2>2, ListCallStep DEF HeapInv
    <2>5. CASE pmm_manager = "buddy" /\ pmm_manager' = "buddy"
      BY <2>1, <2>5, <2>2 DEF HeapInv
    <2> QED  BY <2>1, <2>3, <2>4, <2>5
  <1>2. CASE UNCHANGED heapAll
    <2>1. /\ link' = link /\ property' = property /\ pg_property' = pg_property
          /\ nr_free' = nr_free /\ pmm_manager' = pmm_manager /\ held' = held
          /\ client' = client /\ slob' = slob /\ slobfree' = slobfree
          /\ bigblocks' = bigblocks /\ pending' = pending /\ block' = block
      BY <1>2 DEF heapAll, vars, heapVars
    <2>2. ListInv => ListInv'
      BY <2>1 DEF ListInv, Current, FreePages, HeldPages, NeverTwice
    <2>3. Slob' = Slob /\ Mine' = Mine /\ SlobUnits' = SlobUnits
      BY <2>1 DEF Slob, Mine, SlobUnits
    <2>4. CutUp(Slob, Mine, SlobUnits) => CutUp(Slob', Mine', SlobUnits')
      BY <2>3
    <2> HIDE DEF Mine
    <2>5. HeapShape'
      BY <2>1, <2>4 DEF HeapInv, HeapShape
    <2> QED  BY <2>1, <2>2, <2>5 DEF HeapInv
  <1> QED  BY <1>1, <1>2

\* The inductive invariant of the heap holds, whatever manager it gets its pages from.
LEMMA HeapInvariant ==
    ASSUME TailKept
    PROVE  HeapSpec => []HeapInv
  <1>1. HeapInit => HeapInv
    BY HeapInitHolds
  <1>2. HeapInv /\ [HeapNext]_heapAll => HeapInv'
    BY HeapKept
  <1> QED  BY <1>1, <1>2, PTL DEF HeapSpec

\* With first fit and best fit the bookkeeping of the pages is exact: the free blocks are
\* the maximal runs of free pages, in the order of addresses, and nr_free counts them
\* (default_free_pages, best_fit_free_pages and what alloc_pages leaves of a block).
THEOREM ListBlocksExact ==
    ASSUME TailKept
    PROVE  HeapSpec => [](pmm_manager # "buddy" => BlocksExact)
  <1>1. HeapInv => (pmm_manager # "buddy" => BlocksExact)
    BY ListInvShows DEF HeapInv
  <1> QED  BY <1>1, HeapInvariant, PTL

\* First fit and best fit answer NULL only when there is no run of free pages that is long
\* enough: pages given back in any order and piece by piece are joined again.
THEOREM ListNoFalseFailure ==
    ASSUME TailKept
    PROVE  HeapSpec => [](pmm_manager # "buddy" => NoFalseFailure)
  <1>1. HeapInv => (pmm_manager # "buddy" => NoFalseFailure)
    BY ListInvShows DEF HeapInv
  <1> QED  BY <1>1, HeapInvariant, PTL

\* Every page that first fit or best fit gives out was held by nobody.
THEOREM ListsImplementAllocator ==
    ASSUME TailKept
    PROVE  HeapSpec /\ pmm_manager # "buddy" => ImplementsAllocator
  <1>1. HeapSpec /\ pmm_manager # "buddy" => Allocator!Init
    BY DEF HeapSpec, HeapInit, Init, Allocator!Init
  <1>2. HeapInv /\ pmm_manager # "buddy" /\ [HeapNext]_heapAll
        => [Allocator!Next]_held /\ (pmm_manager # "buddy")'
    BY HeapKept
  <1>3. HeapSpec => []HeapInv
    BY HeapInvariant
  <1> QED  BY <1>1, <1>2, <1>3, PTL DEF HeapSpec, ImplementsAllocator, Allocator!Spec

\* The piece of user u.
Owns(u, x) ==
    \/ block[u].units # 0 /\ x = <<block[u].ptr - 1, block[u].units>>
    \/ \E i \in DOMAIN bigblocks : /\ HasLarge(block[u], held[u], bigblocks[i])
                                   /\ x = <<bigblocks[i].bb, BIGBLOCK>>
    \/ \E call \in pending : call.user = u /\ x = <<call.bb, BIGBLOCK>>

\* The blocks of the ring are pieces of what is free.
LEMMA FreePieces ==
    ASSUME HeapShape
    PROVE  LET free == SlobUnits \ UNION {Mine[u] : u \in Users}
           IN  /\ \A b \in DOMAIN slob \ {arena} : Run(b, slob[b].units) \subseteq free
               /\ \A k \in free : \E b \in DOMAIN slob \ {arena} : k \in Run(b, slob[b].units)
               /\ \A b, c \in DOMAIN slob \ {arena} :
                     b # c => Run(b, slob[b].units) \cap Run(c, slob[c].units) = {}
  <1> DEFINE free == SlobUnits \ UNION {Mine[u] : u \in Users}
  <1>1. SlobBlocks(Slob, free) /\ free \subseteq Units
    <2>1. SlobUnits \subseteq Units
      BY SlobUnitsKnown
    <2> QED  BY <2>1 DEF HeapShape, CutUp
  <1> HIDE DEF free
  <1> DEFINE s == Slob
  <1>2. s.list = slob
    BY DEF Slob
  <1> HIDE DEF s
  <1>3. /\ DOMAIN slob \subseteq Units \cup {arena}
        /\ \A b \in DOMAIN slob \ {arena} : 1 <= slob[b].units /\ b + slob[b].units <= Top
        /\ \A b, c \in DOMAIN slob : b < c => b + slob[b].units < c
        /\ \A k \in Units : k \in free <=> \E b \in DOMAIN slob \ {arena} : b <= k /\ k < b + slob[b].units
        /\ slob \in [DOMAIN slob -> [units : Nat, next : DOMAIN slob]]
    <2>1. Ring(s.list, DOMAIN s.list) /\ SlobBlocks(s, free)
      BY <1>1 DEF SlobBlocks, s
    <2> QED  BY <1>2, <2>1 DEF SlobBlocks, Ring
  <1>4. \A b \in DOMAIN slob \ {arena} : b \in Units /\ b \in Nat /\ slob[b].units \in Nat
    BY <1>3, UnitNumbers
  <1>5. \A b \in DOMAIN slob \ {arena}, k \in Int :
           k \in Run(b, slob[b].units) <=> b <= k /\ k < b + slob[b].units
    BY <1>4 DEF Run
  <1>6. ASSUME NEW b \in DOMAIN slob \ {arena}, NEW k \in Run(b, slob[b].units)  PROVE k \in free
    <2>1. k \in Nat /\ b <= k /\ k < b + slob[b].units /\ k < Top
      BY <1>3, <1>4, UnitNumbers DEF Run
    <2>2. k \in Units
      BY <2>1, UnitNumbers
    <2> QED  BY <1>3, <2>1, <2>2
  <1>7. ASSUME NEW k \in free  PROVE \E b \in DOMAIN slob \ {arena} : k \in Run(b, slob[b].units)
    <2>1. k \in Units /\ k \in Int
      BY <1>1, UnitNumbers
    <2> QED  BY <1>3, <1>5, <2>1
  <1>8. ASSUME NEW b \in DOMAIN slob \ {arena}, NEW c \in DOMAIN slob \ {arena}, b # c,
               NEW k \in Run(b, slob[b].units), k \in Run(c, slob[c].units)
        PROVE  FALSE
    <2>1. k \in Int
      BY <1>4 DEF Run
    <2>2. /\ b <= k /\ k < b + slob[b].units
          /\ c <= k /\ k < c + slob[c].units
      BY <1>4, <1>8 DEF Run
    <2>3. b < c \/ c < b
      BY <1>4, <1>8
    <2>4. b + slob[b].units < c \/ c + slob[c].units < b
      BY <1>3, <2>3
    <2> QED  BY <1>4, <2>1, <2>2, <2>4
  <1> QED  BY <1>6, <1>7, <1>8 DEF free

\* A user owns one piece at most, and it is what it has of the units.
LEMMA PieceOwned ==
    ASSUME HeapShape
    PROVE  /\ \A u \in Users : \A x : Owns(u, x) => Run(x[1], x[2]) = Mine[u]
           /\ \A u \in Users : \A x, y : Owns(u, x) /\ Owns(u, y) => x = y
           /\ \A u \in Users : Mine[u] = {} \/ \E x : Owns(u, x)
  <1>1. /\ Distinct(bigblocks) /\ \A c, d \in pending : c = d
        /\ \A call \in pending : block[call.user] = Nothing
        /\ \A u \in Users : \/ Idle(block[u], held[u])
                            \/ HasSmall(block[u], held[u])
                            \/ \E i \in DOMAIN bigblocks : HasLarge(block[u], held[u], bigblocks[i])
    BY DEF HeapShape
  <1>2. \A u \in Users, i \in DOMAIN bigblocks :
           HasLarge(block[u], held[u], bigblocks[i])
           => block[u].units = 0 /\ block[u].ptr = bigblocks[i].pages /\ block[u].ptr # NULL
    <2> SUFFICES ASSUME NEW u \in Users, NEW i \in DOMAIN bigblocks,
                        HasLarge(block[u], held[u], bigblocks[i])
                 PROVE  block[u].units = 0 /\ block[u].ptr = bigblocks[i].pages /\ block[u].ptr # NULL
      OBVIOUS
    <2>1. block[u].units = 0 /\ block[u].ptr = bigblocks[i].pages
      BY DEF HasLarge
    <2> QED  BY <2>1, BigBlocksKnown
  <1>3. Nothing.units = 0 /\ Nothing.ptr = NULL
    BY DEF Nothing
  <1>4. ASSUME NEW u \in Users, block[u].units # 0  PROVE HasSmall(block[u], held[u])
    BY <1>1, <1>2, <1>3, <1>4 DEF Idle
  <1>5. ASSUME NEW u \in Users, NEW x, Owns(u, x)  PROVE Run(x[1], x[2]) = Mine[u]
    <2>1. CASE block[u].units # 0 /\ x = <<block[u].ptr - 1, block[u].units>>
      <3>1. Mine[u] = Run(block[u].ptr - 1, block[u].units)
        BY <1>4, <2>1, MineKnown
      <3> QED  BY <2>1, <3>1
    <2>2. ASSUME NEW i \in DOMAIN bigblocks, HasLarge(block[u], held[u], bigblocks[i]),
                 x = <<bigblocks[i].bb, BIGBLOCK>>
          PROVE  Run(x[1], x[2]) = Mine[u]
      <3>1. Mine[u] = Run(bigblocks[i].bb, BIGBLOCK)
        BY <2>2, MineKnown
      <3> QED  BY <2>2, <3>1
    <2>3. ASSUME NEW call \in pending, call.user = u, x = <<call.bb, BIGBLOCK>>
          PROVE  Run(x[1], x[2]) = Mine[u]
      <3>1. Mine[u] = Run(call.bb, BIGBLOCK)
        BY <2>3, MineKnown
      <3> QED  BY <2>3, <3>1
    <2> QED  BY <1>5, <2>1, <2>2, <2>3 DEF Owns
  <1>6. ASSUME NEW u \in Users, NEW x, NEW y, Owns(u, x), Owns(u, y)  PROVE x = y
    <2>1. CASE block[u].units # 0
      <3>1. \A z : Owns(u, z) => z = <<block[u].ptr - 1, block[u].units>>
        BY <1>1, <1>2, <1>3, <2>1 DEF Owns
      <3> QED  BY <1>6, <3>1
    <2>2. CASE block[u].units = 0 /\ block[u].ptr = NULL
      <3>1. \A z : Owns(u, z) => \E call \in pending : z = <<call.bb, BIGBLOCK>>
        BY <1>2, <2>2 DEF Owns
      <3> QED  BY <1>1, <1>6, <3>1
    <2>3. CASE block[u].units = 0 /\ block[u].ptr # NULL
      <3>1. \A z : Owns(u, z) => \E i \in DOMAIN bigblocks :
                      bigblocks[i].pages = block[u].ptr /\ z = <<bigblocks[i].bb, BIGBLOCK>>
        BY <1>1, <1>2, <1>3, <2>3 DEF Owns
      <3>2. \A i, j \in DOMAIN bigblocks :
               bigblocks[i].pages = block[u].ptr /\ bigblocks[j].pages = block[u].ptr => i = j
        BY <1>1 DEF Distinct
      <3> QED  BY <1>6, <3>1, <3>2
    <2> QED  BY <2>1, <2>2, <2>3
  <1>7. ASSUME NEW u \in Users  PROVE Mine[u] = {} \/ \E x : Owns(u, x)
    <2>1. CASE HasSmall(block[u], held[u])
      <3>1. block[u].units # 0
        BY <2>1, WhatIsAsked DEF HasSmall
      <3> QED  BY <3>1 DEF Owns
    <2>2. CASE \E i \in DOMAIN bigblocks : HasLarge(block[u], held[u], bigblocks[i])
      BY <2>2 DEF Owns
    <2>3. CASE Idle(block[u], held[u]) /\ \E call \in pending : call.user = u
      BY <2>3 DEF Owns
    <2>4. CASE Idle(block[u], held[u]) /\ \A call \in pending : call.user # u
      <3> DEFINE bigs == bigblocks
                 pend == pending
                 bl == block[u]
      <3>1. Distinct(bigs) /\ \A i \in DOMAIN bigs : bigs[i].pages # NULL
        BY <1>1, BigBlocksKnown
      <3>2. bl = Nothing /\ \A c \in pend : c.user # u
        BY <2>4 DEF Idle
      <3>3. Mine[u] = Part(bl, bigs, pend, u)
        BY DEF Mine
      <3> HIDE DEF bigs, pend, bl
      <3> QED  BY <3>1, <3>2, <3>3, PartsKnown
    <2> QED  BY <1>1, <2>1, <2>2, <2>3, <2>4
  <1> QED  BY <1>5, <1>6, <1>7

LEMMA PiecesKnown ==
    ASSUME HeapShape, NEW x
    PROVE  x \in Pieces <=> \/ \E b \in DOMAIN slob \ {arena} : x = <<b, slob[b].units>>
                            \/ \E u \in Users : Owns(u, x)
  <1>1. /\ \A i \in DOMAIN bigblocks : \E u \in Users : HasLarge(block[u], held[u], bigblocks[i])
        /\ \A call \in pending : call.user \in Users
    BY DEF HeapShape, Calls
  <1>2. x \in Pieces <=> \/ \E b \in DOMAIN slob \ {arena} : x = <<b, slob[b].units>>
                         \/ \E u \in Users : block[u].units # 0 /\ x = <<block[u].ptr - 1, block[u].units>>
                         \/ \E i \in DOMAIN bigblocks : x = <<bigblocks[i].bb, BIGBLOCK>>
                         \/ \E call \in pending : x = <<call.bb, BIGBLOCK>>
    BY DEF Pieces
  <1> QED  BY <1>1, <1>2 DEF Owns

\* The shape says what is exact about the heap.
LEMMA HeapShapeShows ==
    ASSUME HeapShape
    PROVE  HeapExact
  <1> DEFINE free == SlobUnits \ UNION {Mine[u] : u \in Users}
             FreePiece(x) == \E b \in DOMAIN slob \ {arena} : x = <<b, slob[b].units>>
  <1>1. /\ \A b \in DOMAIN slob \ {arena} : Run(b, slob[b].units) \subseteq free
        /\ \A k \in free : \E b \in DOMAIN slob \ {arena} : k \in Run(b, slob[b].units)
        /\ \A b, c \in DOMAIN slob \ {arena} :
              b # c => Run(b, slob[b].units) \cap Run(c, slob[c].units) = {}
    BY FreePieces
  <1>2. /\ \A u \in Users : Mine[u] \subseteq SlobUnits
        /\ \A u, v \in Users : u # v => Mine[u] \cap Mine[v] = {}
        /\ SlobBlocks(Slob, free)
    BY DEF HeapShape, CutUp
  <1>3. /\ \A u \in Users : \A x : Owns(u, x) => Run(x[1], x[2]) = Mine[u]
        /\ \A u \in Users : \A x, y : Owns(u, x) /\ Owns(u, y) => x = y
        /\ \A u \in Users : Mine[u] = {} \/ \E x : Owns(u, x)
    BY PieceOwned
  <1>4. \A x : x \in Pieces <=> FreePiece(x) \/ \E u \in Users : Owns(u, x)
    BY PiecesKnown
  <1>5. \A x : FreePiece(x) => Run(x[1], x[2]) \subseteq free
    BY <1>1
  <1>6. UNION {Run(x[1], x[2]) : x \in Pieces} = SlobUnits
    <2>1. ASSUME NEW x \in Pieces  PROVE Run(x[1], x[2]) \subseteq SlobUnits
      <3>1. CASE FreePiece(x)
        BY <1>5, <3>1
      <3>2. ASSUME NEW u \in Users, Owns(u, x)  PROVE Run(x[1], x[2]) \subseteq SlobUnits
        BY <1>2, <1>3, <3>2
      <3> QED  BY <1>4, <3>1, <3>2
    <2>2. ASSUME NEW k \in SlobUnits  PROVE \E x \in Pieces : k \in Run(x[1], x[2])
      <3>1. CASE k \in free
        <4>1. PICK b \in DOMAIN slob \ {arena} : k \in Run(b, slob[b].units)
          BY <1>1, <3>1
        <4> DEFINE x == <<b, slob[b].units>>
        <4>2. x \in Pieces /\ x[1] = b /\ x[2] = slob[b].units
          BY <1>4
        <4> QED  BY <4>1, <4>2
      <3>2. ASSUME NEW u \in Users, k \in Mine[u]  PROVE \E x \in Pieces : k \in Run(x[1], x[2])
        <4>1. PICK x : Owns(u, x)
          BY <1>3, <3>2
        <4> QED  BY <1>3, <1>4, <3>2, <4>1
      <3> QED  BY <3>1, <3>2
    <2> QED  BY <2>1, <2>2
  <1>7. ASSUME NEW x \in Pieces, NEW y \in Pieces, x # y
        PROVE  Run(x[1], x[2]) \cap Run(y[1], y[2]) = {}
    <2>1. CASE FreePiece(x) /\ FreePiece(y)
      BY <1>1, <1>7, <2>1
    <2>2. ASSUME NEW u \in Users, Owns(u, x), FreePiece(y)
          PROVE  Run(x[1], x[2]) \cap Run(y[1], y[2]) = {}
      BY <1>3, <1>5, <2>2
    <2>3. ASSUME NEW u \in Users, Owns(u, y), FreePiece(x)
          PROVE  Run(x[1], x[2]) \cap Run(y[1], y[2]) = {}
      BY <1>3, <1>5, <2>3
    <2>4. ASSUME NEW u \in Users, NEW v \in Users, Owns(u, x), Owns(v, y)
          PROVE  Run(x[1], x[2]) \cap Run(y[1], y[2]) = {}
      <3>1. u # v
        BY <1>3, <1>7, <2>4
      <3> QED  BY <1>2, <1>3, <2>4, <3>1
    <2> QED  BY <1>4, <2>1, <2>2, <2>3, <2>4
  <1> DEFINE s == Slob
  <1>8. s.list = slob
    BY DEF Slob
  <1>9. /\ Ring(s.list, DOMAIN s.list) /\ s.start \in DOMAIN s.list
        /\ \A b, c \in DOMAIN s.list : b < c => b + s.list[b].units < c
    BY <1>2 DEF SlobBlocks
  <1> HIDE DEF s, free, FreePiece
  <1>10. Range(Round(s)) = DOMAIN s.list
    <2>1. PICK n \in Nat : \E g : Around(g, s, n)
      BY <1>9, RoundTrip
    <2>2. PICK g : Around(g, s, n)
      BY <2>1
    <2>3. {g[k] : k \in 1 .. n} = DOMAIN s.list /\ Round(s) = [k \in 1 .. n |-> g[k]]
      BY <2>2 DEF Around
    <2> QED  BY <2>3 DEF Range
  <1>11. \A b \in DOMAIN slob : slob[b].next # arena => b < slob[b].next /\ b + slob[b].units # slob[b].next
    <2> SUFFICES ASSUME NEW b \in DOMAIN slob, slob[b].next # arena
                 PROVE  b < slob[b].next /\ b + slob[b].units # slob[b].next
      OBVIOUS
    <2>1. Follows(DOMAIN slob, b, slob[b].next) /\ DOMAIN slob \subseteq Units \cup {arena}
          /\ slob[b].units \in Nat
      BY <1>8, <1>9 DEF Ring
    <2>2. slob[b].next \in DOMAIN slob /\ b < slob[b].next
      BY <2>1 DEF Follows, Up
    <2>3. b + slob[b].units < slob[b].next
      BY <1>8, <1>9, <2>2
    <2>4. b \in Int /\ slob[b].next \in Int
      BY <2>1, <2>2, UnitNumbers
    <2> QED  BY <2>1, <2>2, <2>3, <2>4
  <1>12. ASSUME NEW u \in Users, block[u] # Nothing, block[u].units = 0
         PROVE  Cardinality(Entries(block[u].ptr)) = 1
    <2>1. PICK i \in DOMAIN bigblocks : HasLarge(block[u], held[u], bigblocks[i])
      <3>1. ~HasSmall(block[u], held[u])
        BY <1>12, WhatIsAsked DEF HasSmall
      <3> QED  BY <1>12, <3>1 DEF HeapShape, Idle
    <2>2. bigblocks[i].pages = block[u].ptr
      BY <2>1 DEF HasLarge
    <2>3. block[u].ptr % PageUnits = 0
      BY <2>2, BigBlocksKnown
    <2>4. Entries(block[u].ptr) = {i}
      BY <2>2, <2>3 DEF Entries, HeapShape, Distinct
    <2> QED  BY <2>4, FS_Singleton
  <1> QED  BY <1>6, <1>7, <1>8, <1>10, <1>11, <1>12 DEF HeapExact, s

\* The pages of the heap are cut up exactly: every unit belongs to one piece, the ring
\* goes through every free block once, in the order of addresses, none adjoins the next,
\* and kfree finds the pages of every large block (slob_alloc, slob_free, __kmalloc,
\* kfree).
THEOREM HeapIsExact ==
    ASSUME TailKept
    PROVE  HeapSpec => []HeapExact
  <1>1. HeapInv => HeapExact
    BY HeapShapeShows DEF HeapInv
  <1> QED  BY <1>1, HeapInvariant, PTL

-----------------------------------------------------------------------------
(* kmalloc as an allocator of units.                                       *)

Loan(bl) == Run(bl.ptr, bl.size)
Loans == [u \in Users |-> Run(block[u].ptr, block[u].size)]

\* The units of a run of pages.
LEMMA UnitsOfRuns ==
    ASSUME NEW p \in Pages, NEW n \in Nat \ {0}, Run(p, n) \subseteq Pages,
           NEW size \in Nat, size <= n * PageUnits, NEW k \in Run(pagesOf(p), size)
    PROVE  k \in Units /\ k \div PageUnits \in Run(p, n)
  <1>1. /\ NPages \in Nat /\ PageUnits \in Nat /\ PageUnits > 0 /\ Top = NPages * PageUnits /\ Top \in Nat
        /\ p \in Nat
    BY PagesAssumption, UnitNumbers, Numbers DEF Top
  <1>2. pagesOf(p) = p * PageUnits /\ p * PageUnits \in Nat
    BY <1>1 DEF pagesOf
  <1>3. k \in Nat /\ p * PageUnits <= k /\ k < p * PageUnits + size
    BY <1>1, <1>2 DEF Run
  <1>4. p + n <= NPages
    <2>1. p + n - 1 \in Run(p, n)
      BY <1>1 DEF Run
    <2> QED  BY <1>1, <2>1 DEF Pages
  <1>5. /\ (p + n) * PageUnits = p * PageUnits + n * PageUnits /\ n * PageUnits \in Nat
        /\ (p + n) * PageUnits <= NPages * PageUnits /\ (p + n) * PageUnits \in Nat
    BY <1>1, <1>4
  <1>6. k < (p + n) * PageUnits
    BY <1>2, <1>3, <1>5
  <1>7. k \in Units
    BY <1>1, <1>3, <1>5, <1>6, UnitNumbers
  <1> DEFINE q == k \div PageUnits
  <1>8. q \in Int /\ q * PageUnits <= k /\ k < q * PageUnits + PageUnits /\ q * PageUnits \in Int
    <2>1. q \in Nat
      BY <1>1, <1>3
    <2> QED  BY <1>1, <1>3, <2>1
  <1> HIDE DEF q
  <1>9. q >= p
    <2> SUFFICES ASSUME q < p  PROVE FALSE
      BY <1>1, <1>8
    <2>1. q * PageUnits + PageUnits <= p * PageUnits
      BY <1>1, <1>8
    <2> QED  BY <1>1, <1>2, <1>3, <1>8, <2>1
  <1>10. q < p + n
    <2> SUFFICES ASSUME q >= p + n  PROVE FALSE
      BY <1>1, <1>8
    <2>1. (p + n) * PageUnits <= q * PageUnits
      BY <1>1, <1>8
    <2> QED  BY <1>5, <1>3, <1>6, <1>8, <2>1
  <1>11. q \in Run(p, n)
    BY <1>1, <1>8, <1>9, <1>10 DEF Run
  <1> QED  BY <1>7, <1>11 DEF q

\* Where the block of a user lies: in its piece of the pages of the heap, or in pages of
\* its own.
LEMMA LoanPlaces ==
    ASSUME HeapInv, NEW u \in Users
    PROVE  /\ Loan(block[u]) \subseteq Units
           /\ \/ Loan(block[u]) \subseteq Mine[u]
              \/ \A k \in Loan(block[u]) : k \div PageUnits \in held[u]
  <1>1. HeapShape
    BY DEF HeapInv
  <1>2. \/ Idle(block[u], held[u]) \/ HasSmall(block[u], held[u])
        \/ \E i \in DOMAIN bigblocks : HasLarge(block[u], held[u], bigblocks[i])
    BY <1>1 DEF HeapShape
  <1>3. Mine[u] \subseteq Units
    BY <1>1, SlobUnitsKnown DEF HeapShape, CutUp
  <1>4. CASE Idle(block[u], held[u])
    <2>1. Loan(block[u]) = {}
      BY <1>4 DEF Idle, Nothing, Loan, Run, NULL
    <2> QED  BY <2>1
  <1>5. CASE HasSmall(block[u], held[u])
    <2>1. PICK n \in Sizes : Small(n) /\ block[u].size = n /\ block[u].units = n + 1 /\ block[u].ptr \in Units
      BY <1>5 DEF HasSmall
    <2>2. n \in Nat /\ block[u].ptr \in Nat
      BY <2>1, WhatIsAsked, UnitNumbers
    <2>3. Loan(block[u]) \subseteq Run(block[u].ptr - 1, block[u].units)
      BY <2>1, <2>2 DEF Loan, Run
    <2>4. Mine[u] = Run(block[u].ptr - 1, block[u].units)
      BY <1>1, <1>5, MineKnown
    <2> QED  BY <1>3, <2>3, <2>4
  <1>6. ASSUME NEW i \in DOMAIN bigblocks, HasLarge(block[u], held[u], bigblocks[i])
        PROVE  Loan(block[u]) \subseteq Units /\ \A k \in Loan(block[u]) : k \div PageUnits \in held[u]
    <2> DEFINE big == bigblocks[i]
               p == big.pages \div PageUnits
               n == 2 ^ big.order
               size == block[u].size
    <2>1. big \in BigBlocks
      BY <1>1, BigBlocksKnown
    <2>2. /\ block[u].ptr = big.pages /\ size \in Sizes
          /\ n \in Nat \ {0} /\ size <= n * PageUnits
          /\ p \in Pages /\ big.pages = pagesOf(p) /\ held[u] = Run(p, n)
      BY <1>6, <2>1, LargeKnown
    <2>3. size \in Nat
      BY <2>2, WhatIsAsked
    <2>4. held[u] \subseteq Pages
      <3>1. block[u] # Nothing
        <4>1. big.pages # NULL
          BY <1>1, BigBlocksKnown
        <4> QED  BY <2>2, <4>1 DEF Nothing
      <3>2. ListInv
        BY <3>1 DEF HeapInv
      <3> QED  BY <3>2, HeapCallers DEF ListInv
    <2>5. Loan(block[u]) = Run(pagesOf(p), size)
      BY <2>2 DEF Loan
    <2> HIDE DEF p, n, size, big
    <2> QED  BY <2>2, <2>3, <2>4, <2>5, UnitsOfRuns
  <1> QED  BY <1>2, <1>4, <1>5, <1>6

LEMMA LoansApart ==
    ASSUME HeapInv, NEW u \in Users, NEW v \in Users, u # v
    PROVE  Loan(block[u]) \cap Loan(block[v]) = {}
  <1> SUFFICES ASSUME NEW k \in Loan(block[u]), k \in Loan(block[v])  PROVE FALSE
    OBVIOUS
  <1>1. HeapShape
    BY DEF HeapInv
  <1>2. k \in Units /\ (k \in Mine[u] \/ k \div PageUnits \in held[u])
                    /\ (k \in Mine[v] \/ k \div PageUnits \in held[v])
    BY LoanPlaces
  <1>3. Mine[u] \cap Mine[v] = {} /\ Mine[u] \subseteq SlobUnits /\ Mine[v] \subseteq SlobUnits
    BY <1>1 DEF HeapShape, CutUp
  <1>4. block[u] # Nothing
    BY DEF Loan, Nothing, Run, NULL
  <1>5. NeverTwice
    BY <1>4 DEF HeapInv, ListInv
  <1>6. k \in SlobUnits => \E t \in Slots : k \div PageUnits \in held[t]
    BY <1>1, <1>2, SlobUnitsKnown
  <1> QED  BY <1>2, <1>3, <1>5, <1>6, HeapCallers DEF NeverTwice

\* A step gives one user a block, takes one away, or leaves them all.
LEMMA BlockChange ==
    ASSUME HeapShape, HeapNext
    PROVE  \/ block' = block
           \/ \E u \in Users : \E bl : block' = [block EXCEPT ![u] = bl] /\ (block[u] = Nothing \/ bl = Nothing)
  <1>1. ASSUME NEW u \in Users, NEW size \in Sizes, kmalloc(u, size)
        PROVE  \/ block' = block
               \/ \E bl : block' = [block EXCEPT ![u] = bl] /\ block[u] = Nothing
    BY <1>1 DEF kmalloc, Cut
  <1>2. ASSUME NEW u \in Users, kfreeSmall(u) \/ kfreeBig(u)
        PROVE  block' = [block EXCEPT ![u] = Nothing]
    BY <1>2 DEF kfreeSmall, kfreeBig
  <1>3. ASSUME NEW call \in pending, BigBlock(call)
        PROVE  \E bl : block' = [block EXCEPT ![call.user] = bl]
    BY <1>3 DEF BigBlock
  <1>4. \A call \in pending : call.user \in Users /\ block[call.user] = Nothing
    BY DEF HeapShape, Calls
  <1>5. ASSUME NEW call \in pending, NoBigBlock(call)  PROVE block' = block
    BY <1>5 DEF NoBigBlock
  <1>6. UNCHANGED heapVars => block' = block
    BY DEF heapVars
  <1> QED  BY <1>1, <1>2, <1>3, <1>4, <1>5, <1>6 DEF HeapNext

\* The blocks are runs of units of which no two users have the same.
LoansRight ==
    /\ \A u \in Users : Loan(block[u]) \subseteq Units
    /\ \A u, v \in Users : u # v => Loan(block[u]) \cap Loan(block[v]) = {}
    /\ \A u \in Users : \/ block[u] = Nothing
                        \/ \E i, j \in Loan(block[u]) : Loan(block[u]) = i .. j

LEMMA LoansAreRight == HeapInv => LoansRight
  <1> SUFFICES ASSUME HeapInv  PROVE LoansRight
    OBVIOUS
  <1>1. HeapShape
    BY DEF HeapInv
  <1>2. ASSUME NEW u \in Users, block[u] # Nothing
        PROVE  \E i, j \in Loan(block[u]) : Loan(block[u]) = i .. j
    <2> DEFINE a == block[u].ptr
               n == block[u].size
    <2>1. a \in Int
      BY <1>1 DEF HeapShape
    <2>2. n \in Nat /\ n > 0
      <3>1. n \in Sizes
        <4>1. CASE HasSmall(block[u], held[u])
          BY <4>1 DEF HasSmall
        <4>2. ASSUME NEW i \in DOMAIN bigblocks, HasLarge(block[u], held[u], bigblocks[i])
              PROVE  n \in Sizes
          BY <1>1, <4>2, BigBlocksKnown, LargeKnown
        <4> QED  BY <1>1, <1>2, <4>1, <4>2 DEF HeapShape, Idle
      <3> QED  BY <3>1, WhatIsAsked
    <2>3. Loan(block[u]) = a .. a + n - 1
      BY DEF Loan, Run
    <2> DEFINE z == a + n - 1
    <2>4. a \in a .. z /\ z \in a .. z
      BY <2>1, <2>2
    <2> HIDE DEF a, n, z
    <2> QED  BY <2>3, <2>4 DEF z
  <1> QED  BY <1>2, LoanPlaces, LoansApart DEF LoansRight

LEMMA HeapAllocates ==
    ASSUME HeapShape, LoansRight', HeapNext
    PROVE  [Heap!Next]_Loans
  <1> DEFINE h == Loans
             g == Loans'
             Top1 == NPages * PageUnits - 1
  <1>1. /\ h = [u \in Users |-> Loan(block[u])] /\ g = [u \in Users |-> Loan(block'[u])]
    BY DEF Loans, Loan
  <1>2. block \in [Users -> [ptr : Int, size : Nat, units : Nat]]
    BY DEF HeapShape
  <1>3. Loan(Nothing) = {}
    BY DEF Loan, Nothing, Run, NULL
  <1>4. /\ \A u \in Users : g[u] \subseteq 0 .. Top1
        /\ \A u, v \in Users : u # v => g[u] \cap g[v] = {}
        /\ \A u \in Users : block'[u] = Nothing \/ \E i, j \in g[u] : g[u] = i .. j
    BY <1>1 DEF LoansRight, Units
  <1>5. CASE block' = block
    BY <1>5 DEF Loans
  <1>6. ASSUME NEW u \in Users, NEW bl, block' = [block EXCEPT ![u] = bl], block[u] = Nothing
        PROVE  h = g \/ Heap!Alloc(u)
    <2>1. h[u] = {} /\ \A v \in Users \ {u} : g[v] = h[v]
      BY <1>1, <1>2, <1>3, <1>6
    <2>2. g = [h EXCEPT ![u] = g[u]]
      BY <1>1, <2>1
    <2>3. CASE block'[u] = Nothing
      <3>1. g[u] = {}
        BY <1>1, <1>3, <2>3
      <3> QED  BY <1>1, <2>1, <3>1
    <2>4. CASE \E i, j \in g[u] : g[u] = i .. j
      <3>1. \A v \in Users : h[v] \cap g[u] = {}
        BY <1>4, <2>1
      <3> QED  BY <1>4, <2>1, <2>2, <2>4, <3>1 DEF Heap!Alloc, Heap!Pages, Loans
    <2> QED  BY <1>4, <2>3, <2>4
  <1>7. ASSUME NEW u \in Users, block' = [block EXCEPT ![u] = Nothing]
        PROVE  Heap!Free(u)
    <2>1. g[u] = {} /\ \A v \in Users \ {u} : g[v] = h[v]
      BY <1>1, <1>2, <1>3, <1>7
    <2>2. g = [h EXCEPT ![u] = g[u]]
      BY <1>1, <2>1
    <2> QED  BY <2>1, <2>2 DEF Heap!Free, Loans
  <1> QED  BY <1>5, <1>6, <1>7, BlockChange DEF Heap!Next

\* Whatever was cut, joined and given back before, a block that kmalloc returns overlaps
\* none that is in use, be they small or large (__kmalloc, kfree).
THEOREM HeapImplementsAllocator ==
    ASSUME TailKept
    PROVE  HeapSpec => ImplementsHeap
  <1>1. HeapInit => Heap!Init
    BY DEF HeapInit, Heap!Init, Nothing, Run, NULL
  <1>2. HeapInv /\ LoansRight' /\ [HeapNext]_heapAll => [Heap!Next]_Loans
    <2>1. HeapInv /\ LoansRight' /\ HeapNext => [Heap!Next]_Loans
      BY HeapAllocates DEF HeapInv
    <2>2. UNCHANGED heapAll => UNCHANGED Loans
      BY DEF heapAll, heapVars, Loans
    <2> QED  BY <2>1, <2>2
  <1>3. HeapInv => LoansRight
    BY LoansAreRight
  <1>4. HeapSpec => []HeapInv
    BY HeapInvariant
  <1> QED  BY <1>1, <1>2, <1>3, <1>4, PTL DEF HeapSpec, ImplementsHeap, Heap!Spec, Loans

=============================================================================
