------------------------- MODULE AddressSpaceProofs -------------------------
(***************************************************************************)
(* Proofs about AddressSpace, for any number of processes, frames and      *)
(* pages and for any programs: the reference counts are exact, no page is  *)
(* lost, and every process has memory of its own although fork shares the  *)
(* pages.                                                                  *)
(*                                                                         *)
(* The operations are functions on a memory m, so the invariant is one of  *)
(* memories: Good(m, X), where X holds the frame that has been allocated   *)
(* and is not mapped yet.  One lemma for each operation says that it keeps *)
(* Good and whose pages it changes; the loops use the rule of SeqLemmas.   *)
(***************************************************************************)
EXTENDS AddressSpace, SeqLemmas, FiniteSetTheorems, TLAPS

Vmas == [start : VPages, end : 0 .. TopPage]
Ptes == [frame : Frames \cup {NULL}, w : BOOLEAN, cow : BOOLEAN]

Memories ==
    [used : SUBSET Frames, tables : Nat, ref : [Frames -> Nat], content : [Frames -> Values],
     as : [Procs -> Spaces], err : {"ok", "nomem", "inval", "panic"}]

\* The mappings of a frame.
At(m, f) == {pv \in Procs \X VPages : m.as[pv[1]].pte[pv[2]].frame = f}

Covered(a, v) == \E i \in DOMAIN a.mmap : Holds(a.mmap[i], v)

\* Every table hangs on a directory, and every page on a table and in an area.
Sane(a) ==
    /\ a.root \/ a = NoMm
    /\ \A t \in a.pt : DirOf(t) \in a.pd
    /\ \A v \in VPages : a.pte[v].frame = NULL => a.pte[v] = INVALID
    /\ \A v \in VPages : a.pte[v].frame # NULL => HasPte(a, v) /\ Covered(a, v)

Refs(m, X) ==
    \A f \in Frames : /\ m.ref[f] = Cardinality(At(m, f))
                      /\ f \in m.used <=> At(m, f) # {} \/ f \in X

\* A frame is mapped at one page only, and by one process only if somebody may write.
OnePage(m) ==
    \A p, q \in Procs, v, w \in VPages :
        m.as[p].pte[v].frame = m.as[q].pte[w].frame /\ m.as[p].pte[v].frame # NULL => v = w

Private(m) ==
    \A p, q \in Procs, v \in VPages :
        m.as[p].pte[v].w /\ m.as[q].pte[v].frame = m.as[p].pte[v].frame => p = q

TablesFit(m) == m.tables >= SumFunctionOnSet([p \in Procs |-> TablesOf(m.as[p])], Procs)

FramesFit(m) == m.tables + Cardinality(m.used) <= NFrames

Good(m, X) ==
    /\ m \in Memories
    /\ \A p \in Procs : Sane(m.as[p])
    /\ Refs(m, X) /\ OnePage(m) /\ Private(m)
    /\ TablesFit(m) /\ FramesFit(m)

-----------------------------------------------------------------------------
(* Pages, frames and tables.                                               *)

\* Division by a positive number.
LEMMA Quotient ==
    ASSUME NEW n \in Nat \ {0}, NEW k \in Nat \ {0}, NEW v \in 0 .. n * k - 1
    PROVE  v \div n \in 0 .. k - 1
  <1> DEFINE q == v \div n
             r == v % n
  <1>1. q \in Int /\ v = n * q + r /\ 0 <= r /\ r < n /\ r \in Int
    OBVIOUS
  <1> HIDE DEF q, r
  <1>2. n * k \in Int /\ v \in Int
    OBVIOUS
  <1>3. q >= 0
    <2> SUFFICES ASSUME q < 0  PROVE FALSE
      BY <1>1
    <2>1. n * q <= n * (0 - 1)
      BY <1>1
    <2> QED  BY <1>1, <1>2, <2>1
  <1>4. q < k
    <2> SUFFICES ASSUME q >= k  PROVE FALSE
      BY <1>1
    <2>1. n * q >= n * k
      BY <1>1
    <2> QED  BY <1>1, <1>2, <2>1
  <1> QED  BY <1>1, <1>3, <1>4 DEF q

\* The table of a page, and its directory.
LEMMA PageTables ==
    ASSUME NEW v \in VPages
    PROVE  PTX(v) \in Tables /\ PDX(v) \in Dirs /\ PDX(v) = DirOf(PTX(v))
  <1>1. NPTEENTRY \in Nat \ {0} /\ NPDEENTRY \in Nat \ {0} /\ NDirs \in Nat \ {0}
    BY SpaceAssumption
  <1>2. NPDEENTRY * NDirs \in Nat \ {0}
    BY <1>1
  <1>3. v \in 0 .. NPTEENTRY * (NPDEENTRY * NDirs) - 1
    BY <1>1 DEF VPages
  <1>4. PTX(v) \in 0 .. NPDEENTRY * NDirs - 1
    BY <1>1, <1>2, <1>3, Quotient DEF PTX
  <1>5. PTX(v) \div NPDEENTRY \in 0 .. NDirs - 1
    BY <1>1, <1>4, Quotient
  <1> QED  BY <1>4, <1>5 DEF PTX, PDX, DirOf, Tables, Dirs

LEMMA TopPageType == TopPage \in Nat /\ VPages = 0 .. TopPage - 1
  BY SpaceAssumption DEF TopPage, VPages

\* Everything is finite.
LEMMA Finite ==
    /\ IsFiniteSet(Procs) /\ IsFiniteSet(VPages) /\ IsFiniteSet(Procs \X VPages)
    /\ IsFiniteSet(Dirs) /\ IsFiniteSet(Tables) /\ IsFiniteSet(Frames)
    /\ Cardinality(Frames) = NFrames
  <1>1. IsFiniteSet(Procs)
    BY SpaceAssumption
  <1>2. NPTEENTRY * NPDEENTRY * NDirs \in Nat /\ NPDEENTRY * NDirs \in Nat /\ NDirs \in Nat /\ NFrames \in Nat
    BY SpaceAssumption
  <1>3. \A n \in Nat : IsFiniteSet(0 .. n - 1) /\ Cardinality(0 .. n - 1) = n
    <2> TAKE n \in Nat
    <2> QED  BY FS_Interval
  <1>4. IsFiniteSet(VPages) /\ IsFiniteSet(Dirs) /\ IsFiniteSet(Tables) /\ IsFiniteSet(Frames)
        /\ Cardinality(Frames) = NFrames
    BY <1>2, <1>3 DEF VPages, Dirs, Tables, Frames
  <1> QED  BY <1>1, <1>4, FS_Product

LEMMA AtFinite ==
    ASSUME NEW m, NEW f
    PROVE  IsFiniteSet(At(m, f)) /\ Cardinality(At(m, f)) \in Nat
  BY Finite, FS_Subset, FS_CardinalityType DEF At

\* A full allocator aside, alloc_page finds a free frame.
LEMMA FreeFrame ==
    ASSUME NEW m, m \in Memories, ~Full(m)
    PROVE  alloc_page(m) \in Frames /\ alloc_page(m) \notin m.used
  <1>1. m.used \subseteq Frames /\ m.tables \in Nat
    BY DEF Memories
  <1>2. IsFiniteSet(m.used) /\ Cardinality(m.used) \in Nat
    BY <1>1, Finite, FS_Subset, FS_CardinalityType
  <1>3. m.used # Frames
    <2>1. Cardinality(m.used) < NFrames
      BY <1>1, <1>2, SpaceAssumption DEF Full
    <2> QED  BY <1>2, <2>1, Finite
  <1>4. Frames \ m.used # {}
    BY <1>1, <1>3
  <1>5. Frames \ m.used \subseteq Nat
    BY SpaceAssumption DEF Frames
  <1> QED  BY <1>4, <1>5, MinOfSet DEF alloc_page

\* An address space, and the number of tables, may be replaced.
LEMMA TablesReplaced ==
    ASSUME NEW m \in Memories, NEW t \in Nat, NEW x \in [Procs -> Spaces]
    PROVE  [m EXCEPT !.tables = t, !.as = x] \in Memories
  BY DEF Memories

LEMMA TablesType ==
    ASSUME NEW a \in Spaces
    PROVE  TablesOf(a) \in Nat
  <1>1. a.pd \subseteq Dirs /\ {t \in a.pt : DirOf(t) \in a.pd} \subseteq Tables
    BY DEF Spaces
  <1>2. /\ Cardinality(a.pd) \in Nat
        /\ Cardinality({t \in a.pt : DirOf(t) \in a.pd}) \in Nat
    BY <1>1, Finite, FS_Subset, FS_CardinalityType
  <1> QED  BY <1>2 DEF TablesOf

\* The tables of one address space change, and the allocator's count by as much.
Balanced(m, n, p) ==
    /\ \A q \in Procs \ {p} : TablesOf(n.as[q]) = TablesOf(m.as[q])
    /\ n.tables - m.tables >= TablesOf(n.as[p]) - TablesOf(m.as[p])

LEMMA TablesKept ==
    ASSUME NEW m \in Memories, NEW n \in Memories, NEW p \in Procs, TablesFit(m),
           Balanced(m, n, p)
    PROVE  TablesFit(n)
  <1> DEFINE f == [q \in Procs |-> TablesOf(m.as[q])]
             g == [q \in Procs |-> TablesOf(n.as[q])]
  <1>1. \A q \in Procs : m.as[q] \in Spaces /\ n.as[q] \in Spaces
    BY DEF Memories
  <1>2. \A q \in Procs : f[q] \in Nat /\ g[q] \in Nat
    BY <1>1, TablesType
  <1>3. \A q \in Procs : q # p => g[q] = f[q]
    BY DEF Balanced
  <1>4. f[p] = TablesOf(m.as[p]) /\ g[p] = TablesOf(n.as[p])
    OBVIOUS
  <1>5. m.tables \in Nat /\ n.tables \in Nat
    BY DEF Memories
  <1>6. m.tables >= SumFunctionOnSet(f, Procs)
    BY DEF TablesFit
  <1> HIDE DEF f, g
  <1>7. SumFunctionOnSet(f, Procs) \in Nat
    BY <1>2, Finite, SumOfNats
  <1>8. SumFunctionOnSet(g, Procs) = SumFunctionOnSet(f, Procs) - f[p] + g[p]
    BY <1>2, <1>3, Finite, SumChange
  <1>9. n.tables >= SumFunctionOnSet(g, Procs)
    BY <1>2, <1>4, <1>5, <1>6, <1>7, <1>8 DEF Balanced
  <1> QED  BY <1>9 DEF g, TablesFit

\* Nothing but tables differs.
SamePages(m, n) ==
    /\ n.used = m.used /\ n.ref = m.ref /\ n.content = m.content
    /\ \A q \in Procs : /\ n.as[q].root = m.as[q].root /\ n.as[q].pte = m.as[q].pte
                        /\ n.as[q].mmap = m.as[q].mmap

\* The entries of the page tables and the counts are all that these speak of.
LEMMA SamePtesKeep ==
    ASSUME NEW m, NEW n, NEW X, n.used = m.used, n.ref = m.ref,
           \A q \in Procs : n.as[q].pte = m.as[q].pte, Refs(m, X), OnePage(m), Private(m)
    PROVE  Refs(n, X) /\ OnePage(n) /\ Private(n)
  <1>1. \A f : At(n, f) = At(m, f)
    BY DEF At
  <1>2. Refs(n, X)
    BY <1>1 DEF Refs
  <1>3. OnePage(n)
    <2> SUFFICES ASSUME NEW p \in Procs, NEW q \in Procs, NEW v \in VPages, NEW w \in VPages,
                        n.as[p].pte[v].frame = n.as[q].pte[w].frame,
                        n.as[p].pte[v].frame # NULL
                 PROVE  v = w
      BY DEF OnePage
    <2>1. n.as[p].pte = m.as[p].pte /\ n.as[q].pte = m.as[q].pte
      OBVIOUS
    <2> QED  BY <2>1 DEF OnePage
  <1>4. Private(n)
    <2> SUFFICES ASSUME NEW p \in Procs, NEW q \in Procs, NEW v \in VPages,
                        n.as[p].pte[v].w, n.as[q].pte[v].frame = n.as[p].pte[v].frame
                 PROVE  p = q
      BY DEF Private
    <2>1. n.as[p].pte = m.as[p].pte /\ n.as[q].pte = m.as[q].pte
      OBVIOUS
    <2> QED  BY <2>1 DEF Private
  <1> QED  BY <1>2, <1>3, <1>4

LEMMA SamePagesKeep ==
    ASSUME NEW m, NEW n, NEW X, SamePages(m, n), Refs(m, X), OnePage(m), Private(m)
    PROVE  Refs(n, X) /\ OnePage(n) /\ Private(n)
  <1>1. /\ n.used = m.used /\ n.ref = m.ref
        /\ \A q \in Procs : n.as[q].pte = m.as[q].pte
    BY DEF SamePages
  <1> QED  BY <1>1, SamePtesKeep

LEMMA SamePagesTransitive ==
    ASSUME NEW l, NEW m, NEW n, SamePages(l, m), SamePages(m, n)
    PROVE  SamePages(l, n)
  BY DEF SamePages

\* A new directory has no tables, and none of the old ones is in its place.
LEMMA DirAdded ==
    ASSUME NEW m, NEW X, Good(m, X), NEW p \in Procs, NEW d \in Dirs, d \notin m.as[p].pd,
           m.as[p].root, ~Full(m), NEW n, n = NewDir(m, p, d)
    PROVE  /\ Good(n, X) /\ SamePages(m, n) /\ n.err = m.err
           /\ n.as[p].pd = m.as[p].pd \cup {d} /\ n.as[p].pt = m.as[p].pt
           /\ \A q \in Procs \ {p} : n.as[q] = m.as[q]
  <1> DEFINE a == m.as[p]
             b == n.as[p]
  <1>1. m \in Memories /\ a \in Spaces /\ Sane(a)
    BY DEF Good, Memories
  <1>2. {t \in a.pt : DirOf(t) # d} = a.pt
    BY <1>1 DEF Sane
  <1>3. /\ n.used = m.used /\ n.ref = m.ref /\ n.content = m.content /\ n.err = m.err
        /\ n.tables = m.tables + 1
    BY <1>1 DEF NewDir, Memories
  <1>4. n.as = [m.as EXCEPT ![p] = [a EXCEPT !.pd = a.pd \cup {d},
                                             !.pt = {t \in a.pt : DirOf(t) # d}]]
    BY <1>1 DEF Memories, NewDir
  <1>5. /\ b \in Spaces /\ b.root = a.root /\ b.pte = a.pte /\ b.mmap = a.mmap
        /\ b.pd = a.pd \cup {d} /\ b.pt = a.pt
    <2>1. b = [a EXCEPT !.pd = a.pd \cup {d}, !.pt = {t \in a.pt : DirOf(t) # d}]
      BY <1>1, <1>4 DEF Memories
    <2> HIDE DEF a, b
    <2> QED  BY <1>1, <1>2, <2>1 DEF Spaces
  <1>6. \A q \in Procs \ {p} : n.as[q] = m.as[q]
    BY <1>1, <1>4 DEF Memories
  <1>7. n \in Memories
    <2>1. n.as \in [Procs -> Spaces]
      BY <1>1, <1>4, <1>5, <1>6 DEF Memories
    <2>2. n = [m EXCEPT !.tables = m.tables + 1, !.as = n.as]
      BY <1>1, <1>4 DEF Memories, NewDir
    <2>3. m.tables + 1 \in Nat
      BY <1>1 DEF Memories
    <2>4. [m EXCEPT !.tables = m.tables + 1, !.as = n.as] \in Memories
      BY <1>1, <2>1, <2>3, TablesReplaced, Zenon
    <2> QED  BY <2>2, <2>4, Zenon
  <1>8. SamePages(m, n)
    BY <1>3, <1>5, <1>6 DEF SamePages
  <1>9. ASSUME NEW q \in Procs  PROVE Sane(n.as[q])
    <2>1. CASE q # p
      BY <1>6, <2>1 DEF Good
    <2>2. CASE q = p
      <3>1. \A v : HasPte(a, v) => HasPte(b, v)
        BY <1>5 DEF HasPte
      <3>2. \A v : Covered(a, v) <=> Covered(b, v)
        BY <1>5 DEF Covered
      <3> QED  BY <1>1, <1>5, <2>2, <3>1, <3>2 DEF Sane
    <2> QED  BY <2>1, <2>2
  <1>10. TablesFit(n)
    <2>1. IsFiniteSet(a.pd) /\ a.pd \subseteq Dirs /\ d \notin a.pd
      BY <1>1, Finite, FS_Subset DEF Spaces
    <2>2. Cardinality(b.pd) = Cardinality(a.pd) + 1 /\ Cardinality(a.pd) \in Nat
      BY <1>5, <2>1, FS_AddElement, FS_CardinalityType
    <2>3. {t \in b.pt : DirOf(t) \in b.pd} = {t \in a.pt : DirOf(t) \in a.pd}
      BY <1>1, <1>5 DEF Sane
    <2>4. Cardinality({t \in a.pt : DirOf(t) \in a.pd}) \in Nat
      BY <1>1, Finite, FS_Subset, FS_CardinalityType DEF Spaces
    <2>5. TablesOf(b) = TablesOf(a) + 1
      BY <1>5, <2>2, <2>3, <2>4 DEF TablesOf
    <2>6. m.tables \in Nat /\ TablesOf(a) \in Nat
      BY <1>1, TablesType DEF Memories
    <2>7. Balanced(m, n, p)
      BY <1>3, <1>6, <2>5, <2>6 DEF Balanced
    <2> QED  BY <1>1, <1>7, <2>7, TablesKept DEF Good
  <1>11. FramesFit(n)
    <2>1. m.tables \in Nat /\ Cardinality(m.used) \in Nat
      BY <1>1, Finite, FS_Subset, FS_CardinalityType DEF Memories
    <2> QED  BY <1>3, <2>1, SpaceAssumption DEF FramesFit, Full
  <1>12. Good(n, X)
    BY <1>7, <1>8, <1>9, <1>10, <1>11, SamePagesKeep DEF Good
  <1> QED  BY <1>3, <1>5, <1>6, <1>8, <1>12

\* A new table is empty, and the entries in its place were.
LEMMA TableAdded ==
    ASSUME NEW m, NEW X, Good(m, X), NEW p \in Procs, NEW t \in Tables, t \notin m.as[p].pt,
           DirOf(t) \in m.as[p].pd, m.as[p].root, ~Full(m), NEW n, n = NewTable(m, p, t)
    PROVE  /\ Good(n, X) /\ SamePages(m, n) /\ n.err = m.err
           /\ n.as[p].pd = m.as[p].pd /\ n.as[p].pt = m.as[p].pt \cup {t}
           /\ \A q \in Procs \ {p} : n.as[q] = m.as[q]
  <1> DEFINE a == m.as[p]
             b == n.as[p]
             e == [v \in VPages |-> IF PTX(v) = t THEN INVALID ELSE a.pte[v]]
  <1>1. m \in Memories /\ a \in Spaces /\ Sane(a)
    BY DEF Good, Memories
  <1>2. e = a.pte
    <2>1. a.pte \in [VPages -> Ptes]
      BY <1>1 DEF Spaces, Ptes
    <2>2. \A v \in VPages : PTX(v) = t => a.pte[v] = INVALID
      BY <1>1 DEF Sane, HasPte
    <2> QED  BY <2>1, <2>2
  <1>3. /\ n.used = m.used /\ n.ref = m.ref /\ n.content = m.content /\ n.err = m.err
        /\ n.tables = m.tables + 1
    BY <1>1 DEF NewTable, Memories
  <1>4. n.as = [m.as EXCEPT ![p] = [a EXCEPT !.pt = a.pt \cup {t}, !.pte = e]]
    BY <1>1 DEF Memories, NewTable
  <1> HIDE DEF e
  <1>5. /\ b \in Spaces /\ b.root = a.root /\ b.pte = a.pte /\ b.mmap = a.mmap
        /\ b.pd = a.pd /\ b.pt = a.pt \cup {t}
    <2>1. b = [a EXCEPT !.pt = a.pt \cup {t}, !.pte = a.pte]
      BY <1>1, <1>2, <1>4 DEF Memories
    <2> HIDE DEF a, b
    <2> QED  BY <1>1, <2>1 DEF Spaces
  <1>6. \A q \in Procs \ {p} : n.as[q] = m.as[q]
    BY <1>1, <1>4 DEF Memories
  <1>7. n \in Memories
    <2>1. n.as \in [Procs -> Spaces]
      BY <1>1, <1>4, <1>5, <1>6 DEF Memories
    <2>2. n = [m EXCEPT !.tables = m.tables + 1, !.as = n.as]
      BY <1>1, <1>4 DEF Memories, NewTable, e
    <2>3. m.tables + 1 \in Nat
      BY <1>1 DEF Memories
    <2>4. [m EXCEPT !.tables = m.tables + 1, !.as = n.as] \in Memories
      BY <1>1, <2>1, <2>3, TablesReplaced, Zenon
    <2> QED  BY <2>2, <2>4, Zenon
  <1>8. SamePages(m, n)
    BY <1>3, <1>5, <1>6 DEF SamePages
  <1>9. ASSUME NEW q \in Procs  PROVE Sane(n.as[q])
    <2>1. CASE q # p
      BY <1>6, <2>1 DEF Good
    <2>2. CASE q = p
      <3>1. \A v : HasPte(a, v) => HasPte(b, v)
        BY <1>5 DEF HasPte
      <3>2. \A v : Covered(a, v) <=> Covered(b, v)
        BY <1>5 DEF Covered
      <3> QED  BY <1>1, <1>5, <2>2, <3>1, <3>2 DEF Sane
    <2> QED  BY <2>1, <2>2
  <1>10. TablesFit(n)
    <2> DEFINE T == {s \in a.pt : DirOf(s) \in a.pd}
    <2>1. IsFiniteSet(T) /\ t \notin T
      BY <1>1, Finite, FS_Subset DEF Spaces
    <2>2. {s \in b.pt : DirOf(s) \in b.pd} = T \cup {t}
      BY <1>5
    <2>3. Cardinality(T \cup {t}) = Cardinality(T) + 1 /\ Cardinality(T) \in Nat
      BY <2>1, FS_AddElement, FS_CardinalityType
    <2>4. Cardinality(a.pd) \in Nat
      BY <1>1, Finite, FS_Subset, FS_CardinalityType DEF Spaces
    <2>5. TablesOf(b) = TablesOf(a) + 1
      <3>1. /\ TablesOf(a) = (IF a.root THEN 1 ELSE 0) + Cardinality(a.pd) + Cardinality(T)
            /\ TablesOf(b) = (IF b.root THEN 1 ELSE 0) + Cardinality(b.pd) + Cardinality(T \cup {t})
        BY <2>2 DEF TablesOf
      <3> HIDE DEF T, a, b
      <3> QED  BY <1>5, <2>3, <2>4, <3>1
    <2>6. m.tables \in Nat /\ TablesOf(a) \in Nat
      BY <1>1, TablesType DEF Memories
    <2>7. Balanced(m, n, p)
      BY <1>3, <1>6, <2>5, <2>6 DEF Balanced
    <2> QED  BY <1>1, <1>7, <2>7, TablesKept DEF Good
  <1>11. FramesFit(n)
    <2>1. m.tables \in Nat /\ Cardinality(m.used) \in Nat
      BY <1>1, Finite, FS_Subset, FS_CardinalityType DEF Memories
    <2> QED  BY <1>3, <2>1, SpaceAssumption DEF FramesFit, Full
  <1>12. Good(n, X)
    BY <1>7, <1>8, <1>9, <1>10, <1>11, SamePagesKeep DEF Good
  <1> QED  BY <1>3, <1>5, <1>6, <1>8, <1>12

\* An error changes nothing.
LEMMA Failed ==
    ASSUME NEW m, NEW X, Good(m, X), NEW e \in {"ok", "nomem", "inval", "panic"},
           NEW n, n = Fail(m, e)
    PROVE  /\ Good(n, X) /\ SamePages(m, n) /\ n.err = e /\ n.as = m.as /\ n.tables = m.tables
  <1>1. m \in Memories
    BY DEF Good
  <1>2. /\ n \in Memories /\ n.used = m.used /\ n.tables = m.tables /\ n.ref = m.ref
        /\ n.content = m.content /\ n.as = m.as /\ n.err = e
    BY <1>1 DEF Fail, Memories
  <1>3. SamePages(m, n)
    BY <1>2 DEF SamePages
  <1> QED  BY <1>2, <1>3, SamePagesKeep DEF Good, TablesFit, FramesFit

\* get_pte adds the tables that are missing, or fails.
LEMMA GotPte ==
    ASSUME NEW m, NEW X, Good(m, X), NEW p \in Procs, NEW v \in VPages, m.as[p].root,
           m.err = "ok", NEW n, n = get_pte(m, p, v)
    PROVE  /\ Good(n, X) /\ SamePages(m, n) /\ n.err \in {"ok", "nomem"}
           /\ n.err = "ok" => HasPte(n.as[p], v)
           /\ HasPte(m.as[p], v) => n = m
  <1> DEFINE d == PDX(v)
             t == PTX(v)
             m1 == IF d \in m.as[p].pd THEN m
                   ELSE IF Full(m) THEN Fail(m, "nomem") ELSE NewDir(m, p, d)
  <1>1. d \in Dirs /\ t \in Tables /\ d = DirOf(t)
    BY PageTables
  <1>2. SamePages(m, m)
    BY DEF SamePages
  <1>3. /\ Good(m1, X) /\ SamePages(m, m1) /\ m1.err \in {"ok", "nomem"}
        /\ m1.err = "ok" => d \in m1.as[p].pd
        /\ d \in m.as[p].pd => m1 = m
    <2>1. CASE d \in m.as[p].pd
      BY <1>2, <2>1
    <2>2. CASE d \notin m.as[p].pd /\ Full(m)
      BY <2>2, Failed
    <2>3. CASE d \notin m.as[p].pd /\ ~Full(m)
      <3>1. m1 = NewDir(m, p, d)
        BY <2>3
      <3>2. Good(m1, X) /\ SamePages(m, m1) /\ m1.err = m.err /\ m1.as[p].pd = m.as[p].pd \cup {d}
        BY <1>1, <2>3, <3>1, DirAdded
      <3> QED  BY <2>3, <3>2
    <2> QED  BY <2>1, <2>2, <2>3
  <1>4. n = IF m1.err # "ok" \/ t \in m1.as[p].pt THEN m1
            ELSE IF Full(m1) THEN Fail(m1, "nomem") ELSE NewTable(m1, p, t)
    BY DEF get_pte
  <1> HIDE DEF m1, d, t
  <1>5. CASE m1.err # "ok"
    <2>1. n = m1
      BY <1>4, <1>5
    <2>2. HasPte(m.as[p], v) => FALSE
      BY <1>3, <1>5 DEF HasPte, d
    <2> QED  BY <1>3, <1>5, <2>1, <2>2
  <1>6. CASE m1.err = "ok" /\ t \in m1.as[p].pt
    <2>1. n = m1
      BY <1>4, <1>6
    <2> QED  BY <1>3, <1>6, <2>1 DEF HasPte, d, t
  <1>7. CASE m1.err = "ok" /\ t \notin m1.as[p].pt /\ Full(m1)
    <2>1. n = Fail(m1, "nomem")
      BY <1>4, <1>7
    <2>2. Good(n, X) /\ SamePages(m1, n) /\ n.err = "nomem"
      BY <1>3, <2>1, Failed
    <2>3. ~HasPte(m.as[p], v)
      BY <1>3, <1>7 DEF HasPte, d, t
    <2> QED  BY <1>3, <2>2, <2>3, SamePagesTransitive
  <1>8. CASE m1.err = "ok" /\ t \notin m1.as[p].pt /\ ~Full(m1)
    <2>1. n = NewTable(m1, p, t)
      BY <1>4, <1>8
    <2>2. m1.as[p].root
      BY <1>3 DEF SamePages
    <2>3. /\ Good(n, X) /\ SamePages(m1, n) /\ n.err = m1.err
          /\ n.as[p].pd = m1.as[p].pd /\ n.as[p].pt = m1.as[p].pt \cup {t}
      BY <1>1, <1>3, <1>8, <2>1, <2>2, TableAdded
    <2>4. ~HasPte(m.as[p], v)
      BY <1>3, <1>8 DEF HasPte, d, t
    <2>5. HasPte(n.as[p], v)
      BY <1>3, <1>8, <2>3 DEF HasPte, d, t
    <2> QED  BY <1>3, <1>8, <2>3, <2>4, <2>5, SamePagesTransitive
  <1> QED  BY <1>3, <1>5, <1>6, <1>7, <1>8

-----------------------------------------------------------------------------
(* One entry of a page table changes.                                      *)

\* Entry v of p is e in n, and all the others are as in m.
Entered(m, n, p, v, e) ==
    /\ \A q \in Procs \ {p} : n.as[q] = m.as[q]
    /\ n.as[p].root = m.as[p].root /\ n.as[p].pd = m.as[p].pd /\ n.as[p].pt = m.as[p].pt
    /\ n.as[p].mmap = m.as[p].mmap
    /\ n.as[p].pte[v] = e
    /\ \A w \in VPages \ {v} : n.as[p].pte[w] = m.as[p].pte[w]

LEMMA EntrySet ==
    ASSUME NEW m \in Memories, NEW p \in Procs, NEW v \in VPages, NEW e \in Ptes,
           NEW n, n = [m EXCEPT !.as[p].pte[v] = e]
    PROVE  /\ n \in Memories /\ n.used = m.used /\ n.tables = m.tables /\ n.ref = m.ref
           /\ n.content = m.content /\ n.err = m.err
           /\ Entered(m, n, p, v, e)
  <1> DEFINE a == m.as[p]
             b == n.as[p]
  <1>1. a \in Spaces /\ m.as \in [Procs -> Spaces]
    BY DEF Memories
  <1>2. /\ n.used = m.used /\ n.tables = m.tables /\ n.ref = m.ref
        /\ n.content = m.content /\ n.err = m.err
        /\ n.as = [m.as EXCEPT ![p].pte[v] = e]
    BY DEF Memories
  <1>3. b = [a EXCEPT !.pte[v] = e]
    BY <1>1, <1>2
  <1>4. \A q \in Procs \ {p} : n.as[q] = m.as[q]
    BY <1>1, <1>2
  <1>5. /\ b \in Spaces /\ b.root = a.root /\ b.pd = a.pd /\ b.pt = a.pt /\ b.mmap = a.mmap
        /\ b.pte = [a.pte EXCEPT ![v] = e]
    <2> HIDE DEF a, b
    <2>1. a.pte \in [VPages -> Ptes]
      BY <1>1 DEF Spaces, Ptes
    <2>2. b.root = a.root /\ b.pd = a.pd /\ b.pt = a.pt /\ b.mmap = a.mmap
          /\ b.pte = [a.pte EXCEPT ![v] = e]
      BY <1>1, <1>3 DEF Spaces
    <2>3. b = [a EXCEPT !.pte = b.pte]
      BY <1>1, <1>3, <2>2
    <2>4. b.pte \in [VPages -> Ptes]
      BY <2>1, <2>2
    <2> DEFINE x == b.pte
    <2>5. [a EXCEPT !.pte = x] \in Spaces
      <3> HIDE DEF x
      <3>1. x \in [VPages -> Ptes]
        BY <2>4 DEF x
      <3> QED  BY <1>1, <3>1 DEF Spaces, Ptes
    <2> QED  BY <2>2, <2>3, <2>5, Zenon
  <1>6. Entered(m, n, p, v, e)
    <2>1. a.pte \in [VPages -> Ptes]
      BY <1>1 DEF Spaces, Ptes
    <2>2. b.pte[v] = e /\ \A w \in VPages \ {v} : b.pte[w] = a.pte[w]
      BY <1>5, <2>1
    <2> QED  BY <1>4, <1>5, <2>2 DEF Entered
  <1>7. n \in Memories
    <2>1. n.as \in [Procs -> Spaces]
      BY <1>1, <1>2, <1>4, <1>5
    <2>2. n = [m EXCEPT !.as = n.as]
      BY <1>2
    <2> DEFINE x == n.as
    <2>3. [m EXCEPT !.as = x] \in Memories
      <3> HIDE DEF x
      <3>1. x \in [Procs -> Spaces]
        BY <2>1 DEF x
      <3> QED  BY <3>1 DEF Memories
    <2> QED  BY <2>2, <2>3, Zenon
  <1> QED  BY <1>2, <1>6, <1>7

\* The mappings of a frame, then.
LEMMA EnteredAt ==
    ASSUME NEW m, NEW n, NEW p \in Procs, NEW v \in VPages, NEW e, Entered(m, n, p, v, e), NEW f
    PROVE  /\ e.frame = f => At(n, f) = At(m, f) \cup {<<p, v>>}
           /\ e.frame # f => At(n, f) = At(m, f) \ {<<p, v>>}
  <1>1. ASSUME NEW pv \in Procs \X VPages, pv # <<p, v>>
        PROVE  pv \in At(n, f) <=> pv \in At(m, f)
    <2>1. PICK q \in Procs, w \in VPages : pv = <<q, w>>
      OBVIOUS
    <2>2. n.as[q].pte[w] = m.as[q].pte[w]
      BY <1>1, <2>1 DEF Entered
    <2> QED  BY <2>1, <2>2 DEF At
  <1>2. <<p, v>> \in At(n, f) <=> e.frame = f
    BY DEF At, Entered
  <1>3. <<p, v>> \in Procs \X VPages /\ At(n, f) \subseteq Procs \X VPages
        /\ At(m, f) \subseteq Procs \X VPages
    BY DEF At
  <1> QED  BY <1>1, <1>2, <1>3

\* How many mappings there are, and whether any.
LEMMA EnteredCount ==
    ASSUME NEW m, NEW n, NEW p \in Procs, NEW v \in VPages, NEW e, Entered(m, n, p, v, e), NEW f,
           NEW old, old = m.as[p].pte[v].frame
    PROVE  /\ e.frame = f /\ old = f => At(n, f) = At(m, f)
           /\ e.frame # f /\ old # f => At(n, f) = At(m, f)
           /\ e.frame = f /\ old # f =>
                 Cardinality(At(n, f)) = Cardinality(At(m, f)) + 1 /\ At(n, f) # {}
           /\ e.frame # f /\ old = f =>
                 Cardinality(At(n, f)) = Cardinality(At(m, f)) - 1 /\ At(m, f) # {}
  <1>1. IsFiniteSet(At(m, f))
    BY AtFinite
  <1>2. <<p, v>> \in At(m, f) <=> old = f
    BY DEF At
  <1>3. e.frame = f => At(n, f) = At(m, f) \cup {<<p, v>>}
    BY EnteredAt
  <1>4. e.frame # f => At(n, f) = At(m, f) \ {<<p, v>>}
    BY EnteredAt
  <1>5. <<p, v>> \notin At(m, f) =>
            Cardinality(At(m, f) \cup {<<p, v>>}) = Cardinality(At(m, f)) + 1
    BY <1>1, FS_AddElement
  <1>6. <<p, v>> \in At(m, f) =>
            Cardinality(At(m, f) \ {<<p, v>>}) = Cardinality(At(m, f)) - 1
    BY <1>1, FS_RemoveElement
  <1> QED  BY <1>2, <1>3, <1>4, <1>5, <1>6

\* What an entry needs.
Fits(m, p, v, e) ==
    /\ e \in Ptes /\ m.as[p].root
    /\ e.frame = NULL => e = INVALID
    /\ e.frame # NULL => /\ HasPte(m.as[p], v) /\ Covered(m.as[p], v)
                         /\ \A q \in Procs, w \in VPages : m.as[q].pte[w].frame = e.frame => w = v
                         /\ \A q \in Procs \ {p} : m.as[q].pte[v].frame = e.frame =>
                                                       ~e.w /\ ~m.as[q].pte[v].w

LEMMA EnteredSound ==
    ASSUME NEW m, NEW X, Good(m, X), NEW n \in Memories, NEW p \in Procs, NEW v \in VPages, NEW e,
           Entered(m, n, p, v, e), Fits(m, p, v, e), n.tables = m.tables
    PROVE  /\ \A q \in Procs : Sane(n.as[q])
           /\ OnePage(n) /\ Private(n) /\ TablesFit(n)
  <1>1. m \in Memories /\ \A q \in Procs : Sane(m.as[q]) /\ m.as[q] \in Spaces
    BY DEF Good, Memories
  <1>2. \A q \in Procs, w \in VPages : q # p \/ w # v => n.as[q].pte[w] = m.as[q].pte[w]
    BY DEF Entered
  <1>3. n.as[p].pte[v] = e
    BY DEF Entered
  <1>4. ASSUME NEW q \in Procs  PROVE Sane(n.as[q])
    <2>1. CASE q # p
      BY <1>1, <2>1 DEF Entered
    <2>2. CASE q = p
      <3> DEFINE a == m.as[p]
                 b == n.as[p]
      <3>1. /\ b.root = a.root /\ b.pd = a.pd /\ b.pt = a.pt /\ b.mmap = a.mmap /\ a.root
            /\ \A w \in VPages \ {v} : b.pte[w] = a.pte[w]
        BY DEF Entered, Fits
      <3>2. \A w : HasPte(b, w) <=> HasPte(a, w)
        BY <3>1 DEF HasPte
      <3>3. \A w : Covered(b, w) <=> Covered(a, w)
        BY <3>1 DEF Covered
      <3>4. Sane(a)
        BY <1>1
      <3>5. e.frame = NULL => e = INVALID
        BY DEF Fits
      <3>6. e.frame # NULL => HasPte(a, v) /\ Covered(a, v)
        BY DEF Fits
      <3> HIDE DEF a, b
      <3>7. b.pte[v] = e
        BY <1>3 DEF b
      <3>8. Sane(b)
        BY <3>1, <3>2, <3>3, <3>4, <3>5, <3>6, <3>7 DEF Sane
      <3> QED  BY <2>2, <3>8 DEF b
    <2> QED  BY <2>1, <2>2
  <1>5. OnePage(n)
    <2> SUFFICES ASSUME NEW q \in Procs, NEW r \in Procs, NEW w \in VPages, NEW x \in VPages,
                        n.as[q].pte[w].frame = n.as[r].pte[x].frame,
                        n.as[q].pte[w].frame # NULL
                 PROVE  w = x
      BY DEF OnePage
    <2>1. CASE q = p /\ w = v /\ ~(r = p /\ x = v)
      <3>1. n.as[r].pte[x] = m.as[r].pte[x] /\ n.as[q].pte[w] = e
        BY <1>2, <1>3, <2>1
      <3> QED  BY <2>1, <3>1 DEF Fits
    <2>2. CASE r = p /\ x = v /\ ~(q = p /\ w = v)
      <3>1. n.as[q].pte[w] = m.as[q].pte[w] /\ n.as[r].pte[x] = e
        BY <1>2, <1>3, <2>2
      <3> QED  BY <2>2, <3>1 DEF Fits
    <2>3. CASE ~(q = p /\ w = v) /\ ~(r = p /\ x = v)
      <3>1. n.as[q].pte[w] = m.as[q].pte[w] /\ n.as[r].pte[x] = m.as[r].pte[x]
        BY <1>2, <2>3
      <3> QED  BY <3>1 DEF Good, OnePage
    <2> QED  BY <2>1, <2>2, <2>3
  <1>6. Private(n)
    <2> SUFFICES ASSUME NEW q \in Procs, NEW r \in Procs, NEW w \in VPages,
                        n.as[q].pte[w].w, n.as[r].pte[w].frame = n.as[q].pte[w].frame, q # r
                 PROVE  FALSE
      BY DEF Private
    <2>1. e.w => e.frame # NULL
      BY DEF Fits, INVALID
    <2>2. CASE w = v /\ q = p
      <3>1. n.as[r].pte[w] = m.as[r].pte[w] /\ n.as[q].pte[w] = e
        BY <1>2, <1>3, <2>2
      <3> QED  BY <2>1, <2>2, <3>1 DEF Fits
    <2>3. CASE w = v /\ r = p
      <3>1. n.as[q].pte[w] = m.as[q].pte[w] /\ n.as[r].pte[w] = e
        BY <1>2, <1>3, <2>3
      <3>2. m.as[q].pte[w].frame # NULL
        BY <1>1, <3>1 DEF Sane, INVALID
      <3> QED  BY <2>3, <3>1, <3>2 DEF Fits
    <2>4. CASE w # v \/ (q # p /\ r # p)
      <3>1. n.as[q].pte[w] = m.as[q].pte[w] /\ n.as[r].pte[w] = m.as[r].pte[w]
        BY <1>2, <2>4
      <3> QED  BY <3>1 DEF Good, Private
    <2> QED  BY <2>2, <2>3, <2>4
  <1>7. TablesFit(n)
    <2>1. \A q \in Procs : TablesOf(n.as[q]) = TablesOf(m.as[q])
      BY DEF TablesOf, Entered
    <2>2. TablesOf(m.as[p]) \in Nat /\ m.tables \in Nat
      BY <1>1, TablesType DEF Memories
    <2>3. Balanced(m, n, p)
      BY <2>1, <2>2 DEF Balanced
    <2> QED  BY <1>1, <2>3, TablesKept DEF Good
  <1> QED  BY <1>4, <1>5, <1>6, <1>7

-----------------------------------------------------------------------------
(* Frames are taken, counted and freed.                                    *)

WithRef(m, n, f, k) ==
    /\ n \in Memories /\ n.used = m.used /\ n.tables = m.tables /\ n.as = m.as
    /\ n.content = m.content /\ n.err = m.err
    /\ n.ref[f] = k /\ \A g \in Frames \ {f} : n.ref[g] = m.ref[g]

LEMMA RefSet ==
    ASSUME NEW m \in Memories, NEW f \in Frames, NEW k \in Nat
    PROVE  WithRef(m, [m EXCEPT !.ref[f] = k], f, k)
  <1>1. m.ref \in [Frames -> Nat]
    BY DEF Memories
  <1> DEFINE n == [m EXCEPT !.ref[f] = k]
             x == [m.ref EXCEPT ![f] = k]
  <1>2. n = [m EXCEPT !.ref = x]
    BY DEF Memories
  <1>3. x \in [Frames -> Nat] /\ x[f] = k /\ \A g \in Frames \ {f} : x[g] = m.ref[g]
    BY <1>1
  <1> HIDE DEF n, x
  <1>4. /\ n \in Memories /\ n.used = m.used /\ n.tables = m.tables /\ n.as = m.as
        /\ n.content = m.content /\ n.err = m.err /\ n.ref = x
    BY <1>2, <1>3 DEF Memories
  <1>5. WithRef(m, n, f, k)
    BY <1>3, <1>4 DEF WithRef
  <1> QED  BY <1>5 DEF n

WithoutFrame(m, n, f) ==
    /\ n \in Memories /\ n.used = m.used \ {f} /\ n.tables = m.tables /\ n.as = m.as
    /\ n.err = m.err /\ n.ref[f] = 0
    /\ \A g \in Frames \ {f} : n.ref[g] = m.ref[g] /\ n.content[g] = m.content[g]

LEMMA Freed ==
    ASSUME NEW m \in Memories, NEW f \in Frames, NEW n, n = free_page(m, f)
    PROVE  WithoutFrame(m, n, f)
  <1>1. m.ref \in [Frames -> Nat] /\ m.content \in [Frames -> Values] /\ 0 \in Values
    BY SpaceAssumption DEF Memories
  <1> DEFINE u == m.used \ {f}
             x == [m.ref EXCEPT ![f] = 0]
             y == [m.content EXCEPT ![f] = 0]
  <1>2. n = [m EXCEPT !.used = u, !.ref = x, !.content = y]
    BY DEF Memories, free_page
  <1>3. /\ x \in [Frames -> Nat] /\ x[f] = 0 /\ y \in [Frames -> Values]
        /\ \A g \in Frames \ {f} : x[g] = m.ref[g] /\ y[g] = m.content[g]
    BY <1>1
  <1>4. u \in SUBSET Frames
    BY DEF Memories
  <1> HIDE DEF x, y, u
  <1>5. n \in Memories /\ n.used = u /\ n.tables = m.tables /\ n.as = m.as /\ n.err = m.err
        /\ n.ref = x /\ n.content = y
    BY <1>2, <1>3, <1>4 DEF Memories
  <1> QED  BY <1>3, <1>5 DEF u, WithoutFrame

LEMMA FrameTaken ==
    ASSUME NEW m \in Memories, NEW f \in Frames, NEW x \in Values, NEW n, n = Taken(m, f, x)
    PROVE  /\ n \in Memories /\ n.used = m.used \cup {f} /\ n.tables = m.tables /\ n.as = m.as
           /\ n.err = m.err /\ n.ref = m.ref /\ n.content[f] = x
           /\ \A g \in Frames \ {f} : n.content[g] = m.content[g]
  <1>1. m.content \in [Frames -> Values]
    BY DEF Memories
  <1> DEFINE u == m.used \cup {f}
             y == [m.content EXCEPT ![f] = x]
  <1>2. n = [m EXCEPT !.used = u, !.content = y]
    BY DEF Memories, Taken
  <1>3. /\ y \in [Frames -> Values] /\ y[f] = x
        /\ \A g \in Frames \ {f} : y[g] = m.content[g]
    BY <1>1
  <1>4. u \in SUBSET Frames
    BY DEF Memories
  <1> HIDE DEF y, u
  <1>5. n \in Memories /\ n.used = u /\ n.tables = m.tables /\ n.as = m.as /\ n.err = m.err
        /\ n.ref = m.ref /\ n.content = y
    BY <1>2, <1>3, <1>4 DEF Memories
  <1> QED  BY <1>3, <1>5 DEF u

LEMMA FramesFewer ==
    ASSUME NEW m \in Memories, NEW n \in Memories, FramesFit(m), n.tables = m.tables,
           n.used \subseteq m.used
    PROVE  FramesFit(n)
  <1>1. IsFiniteSet(m.used) /\ m.tables \in Nat
    BY Finite, FS_Subset DEF Memories
  <1>2. Cardinality(n.used) <= Cardinality(m.used)
    BY <1>1, FS_Subset
  <1>3. Cardinality(n.used) \in Nat /\ Cardinality(m.used) \in Nat
    BY <1>1, FS_Subset, FS_CardinalityType
  <1> QED  BY <1>1, <1>2, <1>3, SpaceAssumption DEF FramesFit

\* A mapping of f is gone, and f is free if it was the last one.
Unmapped(m, n, f) ==
    /\ n.tables = m.tables /\ n.err = m.err
    /\ n.ref[f] = m.ref[f] - 1
    /\ \A g \in Frames \ {f} : n.ref[g] = m.ref[g] /\ n.content[g] = m.content[g]
    /\ m.ref[f] = 1 => n.used = m.used \ {f}
    /\ m.ref[f] # 1 => n.used = m.used /\ n.content = m.content

LEMMA EntryRemoved ==
    ASSUME NEW m \in Memories, NEW p \in Procs, NEW v \in VPages, NEW f \in Frames,
           f = m.as[p].pte[v].frame, m.ref[f] >= 1, NEW n, n = page_remove_pte(m, p, v)
    PROVE  n \in Memories /\ Entered(m, n, p, v, INVALID) /\ Unmapped(m, n, f)
  <1> DEFINE r == [m EXCEPT !.ref[f] = m.ref[f] - 1]
             m1 == [r EXCEPT !.as[p].pte[v] = INVALID]
  <1>1. m.ref[f] \in Nat /\ m.ref[f] - 1 \in Nat /\ f # NULL
    <2>1. m.ref[f] \in Nat
      BY DEF Memories
    <2>2. f # NULL
      BY SpaceAssumption DEF Frames, NULL
    <2> QED  BY <2>1, <2>2
  <1>2. /\ r \in Memories /\ r.used = m.used /\ r.tables = m.tables /\ r.as = m.as
        /\ r.content = m.content /\ r.err = m.err
        /\ r.ref[f] = m.ref[f] - 1 /\ \A g \in Frames \ {f} : r.ref[g] = m.ref[g]
    <2> DEFINE k == m.ref[f] - 1
    <2>1. k \in Nat
      BY <1>1
    <2> HIDE DEF k
    <2>2. WithRef(m, [m EXCEPT !.ref[f] = k], f, k)
      BY <2>1, RefSet
    <2> QED  BY <2>2 DEF WithRef, k
  <1>3. INVALID \in Ptes
    BY DEF INVALID, Ptes
  <1>4. n = IF m1.ref[f] = 0 THEN free_page(m1, f) ELSE m1
    <2> DEFINE u == [m EXCEPT !.ref[f] = m.ref[f] - 1, !.as[p].pte[v] = INVALID]
    <2>1. m1 = u
      OBVIOUS
    <2> DEFINE g == m.as[p].pte[v].frame
               w == [m EXCEPT !.ref[g] = m.ref[g] - 1, !.as[p].pte[v] = INVALID]
    <2>3. n = IF g = NULL THEN m ELSE IF w.ref[g] = 0 THEN free_page(w, g) ELSE w
      BY Zenon DEF page_remove_pte
    <2>4. w = u /\ g = f
      OBVIOUS
    <2> HIDE DEF w
    <2>2. n = IF u.ref[f] = 0 THEN free_page(u, f) ELSE u
      BY <1>1, <2>3, <2>4, Zenon
    <2> HIDE DEF u, m1
    <2> QED  BY <2>1, <2>2
  <1> HIDE DEF r
  <1>5. /\ m1 \in Memories /\ m1.used = r.used /\ m1.tables = r.tables /\ m1.ref = r.ref
        /\ m1.content = r.content /\ m1.err = r.err
        /\ Entered(r, m1, p, v, INVALID)
    BY <1>2, <1>3, EntrySet
  <1> HIDE DEF m1
  <1>6. Entered(m, m1, p, v, INVALID)
    BY <1>2, <1>5 DEF Entered
  <1>7. CASE m1.ref[f] = 0
    <2>1. n = free_page(m1, f)
      BY <1>4, <1>7
    <2>2. /\ n \in Memories /\ n.used = m1.used \ {f} /\ n.tables = m1.tables /\ n.as = m1.as
          /\ n.err = m1.err /\ n.ref[f] = 0
          /\ \A g \in Frames \ {f} : n.ref[g] = m1.ref[g] /\ n.content[g] = m1.content[g]
      <3>1. m1 \in Memories
        BY <1>5
      <3>2. WithoutFrame(m1, n, f)
        BY <2>1, <3>1, Freed, Zenon
      <3> QED  BY <3>2 DEF WithoutFrame
    <2>3. Entered(m, n, p, v, INVALID)
      BY <1>6, <2>2 DEF Entered
    <2>4. m.ref[f] = 1
      <3>1. m.ref[f] - 1 = 0
        BY <1>2, <1>5, <1>7
      <3> QED  BY <1>1, <3>1
    <2>5. Unmapped(m, n, f)
      BY <1>2, <1>5, <2>2, <2>4 DEF Unmapped
    <2> QED  BY <2>2, <2>3, <2>5
  <1>8. CASE m1.ref[f] # 0
    <2>1. n = m1
      BY <1>4, <1>8
    <2>2. m.ref[f] # 1
      <3>1. m.ref[f] - 1 # 0
        BY <1>2, <1>5, <1>8
      <3> QED  BY <1>1, <3>1
    <2>3. Unmapped(m, n, f)
      BY <1>2, <1>5, <2>1, <2>2 DEF Unmapped
    <2> QED  BY <1>5, <1>6, <2>1, <2>3
  <1> QED  BY <1>7, <1>8

\* What is at page v of p, or NULL.
View(m, p, v) ==
    IF m.as[p].pte[v].frame = NULL THEN NULL ELSE m.content[m.as[p].pte[v].frame]

\* Entry v of p becomes e; every other mapping stays, and so does what is in the frames.
PageSet(m, n, p, v, e) ==
    /\ \A q \in Procs : n.as[q].root = m.as[q].root /\ n.as[q].mmap = m.as[q].mmap
    /\ \A q \in Procs, w \in VPages : q # p \/ w # v => n.as[q].pte[w] = m.as[q].pte[w]
    /\ n.as[p].pte[v] = e
    /\ \A g \in n.used : n.content[g] = m.content[g]

LEMMA MappedFrame ==
    ASSUME NEW m, NEW X, Good(m, X), NEW p \in Procs, NEW v \in VPages, m.as[p].pte[v].frame # NULL
    PROVE  /\ m.as[p].pte[v].frame \in Frames /\ m.as[p].pte[v].frame \in m.used
           /\ m.ref[m.as[p].pte[v].frame] >= 1
           /\ m.as[p].root /\ HasPte(m.as[p], v) /\ Covered(m.as[p], v)
  <1> DEFINE f == m.as[p].pte[v].frame
  <1>1. m \in Memories /\ m.as[p] \in Spaces /\ Sane(m.as[p])
    BY DEF Good, Memories
  <1>2. f \in Frames
    BY <1>1 DEF Spaces
  <1>3. <<p, v>> \in At(m, f)
    BY DEF At
  <1> HIDE DEF f
  <1>4. At(m, f) # {} /\ m.ref[f] = Cardinality(At(m, f)) /\ f \in m.used
    BY <1>2, <1>3 DEF Good, Refs
  <1>5. m.ref[f] >= 1
    BY <1>4, AtFinite, FS_EmptySet
  <1>6. m.as[p].root
    BY <1>1 DEF Sane, NoMm, INVALID
  <1> QED  BY <1>1, <1>2, <1>4, <1>5, <1>6 DEF Sane, f

\* An entry that is made again shows what the frame holds; the others show what they did.
LEMMA PageSetView ==
    ASSUME NEW m, NEW n, NEW X, Good(n, X), NEW p \in Procs, NEW v \in VPages, NEW e,
           PageSet(m, n, p, v, e), NEW q \in Procs, NEW w \in VPages, q # p \/ w # v
    PROVE  View(n, q, w) = View(m, q, w)
  <1>1. n.as[q].pte[w] = m.as[q].pte[w]
    BY DEF PageSet
  <1>2. CASE n.as[q].pte[w].frame = NULL
    BY <1>1, <1>2 DEF View
  <1>3. CASE n.as[q].pte[w].frame # NULL
    <2>1. n.as[q].pte[w].frame \in n.used
      BY <1>3, MappedFrame
    <2>2. n.content[n.as[q].pte[w].frame] = m.content[n.as[q].pte[w].frame]
      BY <2>1 DEF PageSet
    <2> QED  BY <1>1, <1>3, <2>2 DEF View
  <1> QED  BY <1>2, <1>3

\* page_remove_pte takes a mapping away, and frees the frame if it was the last one.
LEMMA PageRemoved ==
    ASSUME NEW m, Good(m, {}), NEW p \in Procs, NEW v \in VPages, m.as[p].pte[v].frame # NULL,
           NEW n, n = page_remove_pte(m, p, v)
    PROVE  Good(n, {}) /\ PageSet(m, n, p, v, INVALID) /\ n.err = m.err
  <1> DEFINE f == m.as[p].pte[v].frame
  <1>1. m \in Memories
    BY DEF Good
  <1>2. f \in Frames /\ f \in m.used /\ m.ref[f] >= 1 /\ m.as[p].root
    BY MappedFrame
  <1>3. n \in Memories /\ Entered(m, n, p, v, INVALID) /\ Unmapped(m, n, f)
    BY <1>1, <1>2, EntryRemoved
  <1>4. INVALID.frame = NULL /\ \A g \in Frames : INVALID.frame # g
    BY SpaceAssumption DEF INVALID, Frames, NULL
  <1>5. Fits(m, p, v, INVALID)
    BY <1>2, <1>4 DEF Fits, Ptes, INVALID
  <1>6. ASSUME NEW g \in Frames
        PROVE  n.ref[g] = Cardinality(At(n, g)) /\ (g \in n.used <=> At(n, g) # {})
    <2>1. m.ref[g] = Cardinality(At(m, g)) /\ (g \in m.used <=> At(m, g) # {})
      BY DEF Good, Refs
    <2>2. CASE g # f
      <3>1. At(n, g) = At(m, g)
        BY <1>3, <1>4, <2>2, EnteredCount
      <3>2. n.ref[g] = m.ref[g] /\ (g \in n.used <=> g \in m.used)
        BY <1>3, <2>2 DEF Unmapped
      <3> QED  BY <2>1, <3>1, <3>2
    <2>3. CASE g = f
      <3>1. Cardinality(At(n, f)) = Cardinality(At(m, f)) - 1
        BY <1>2, <1>3, <1>4, EnteredCount
      <3>2. n.ref[f] = m.ref[f] - 1 /\ (f \in n.used <=> m.ref[f] # 1)
        BY <1>2, <1>3 DEF Unmapped
      <3>3. IsFiniteSet(At(n, f)) /\ Cardinality(At(n, f)) \in Nat
        BY AtFinite
      <3>4. At(n, f) # {} <=> Cardinality(At(n, f)) # 0
        BY <3>3, FS_EmptySet
      <3>5. m.ref[f] = 1 <=> Cardinality(At(n, f)) = 0
        BY <2>1, <2>3, <3>1, AtFinite
      <3> QED  BY <2>1, <2>3, <3>1, <3>2, <3>4, <3>5
    <2> QED  BY <2>2, <2>3
  <1> HIDE DEF f
  <1>7. Refs(n, {})
    BY <1>6 DEF Refs
  <1>8. n.tables = m.tables /\ n.used \subseteq m.used /\ n.err = m.err
    BY <1>3 DEF Unmapped
  <1>9. /\ \A q \in Procs : Sane(n.as[q])
        /\ OnePage(n) /\ Private(n) /\ TablesFit(n)
    BY <1>3, <1>5, <1>8, EnteredSound
  <1>10. FramesFit(n)
    BY <1>1, <1>3, <1>8, FramesFewer DEF Good
  <1>11. Good(n, {})
    BY <1>3, <1>7, <1>9, <1>10 DEF Good
  <1>12. \A g \in n.used : n.content[g] = m.content[g]
    <2>1. \A g \in n.used : g \in Frames
      BY <1>3 DEF Memories
    <2>2. \A g \in n.used : g = f => m.ref[f] # 1
      BY <1>2, <1>3 DEF Unmapped
    <2> QED  BY <1>3, <2>1, <2>2 DEF Unmapped
  <1>13. PageSet(m, n, p, v, INVALID)
    BY <1>3, <1>12 DEF Entered, PageSet
  <1> QED  BY <1>8, <1>11, <1>13

\* What a mapping of f at page v of p needs.
Mappable(m, p, f, v, w) ==
    /\ m.as[p].root /\ Covered(m.as[p], v)
    /\ \A q \in Procs, x \in VPages : m.as[q].pte[x].frame = f => x = v
    /\ \A q \in Procs \ {p} : m.as[q].pte[v].frame = f => ~w /\ ~m.as[q].pte[v].w

\* page_insert on a page whose table is there: the counts and the entry.
LEMMA EntryInserted ==
    ASSUME NEW m, NEW f, NEW X, X \subseteq {f}, Good(m, X), f \in m.used,
           NEW p \in Procs, NEW v \in VPages, NEW w \in BOOLEAN, NEW cow \in BOOLEAN,
           HasPte(m.as[p], v), Mappable(m, p, f, v, w), m.err = "ok",
           NEW n, n = page_insert(m, p, f, v, w, cow)
    PROVE  /\ Good(n, {}) /\ PageSet(m, n, p, v, [frame |-> f, w |-> w, cow |-> cow])
           /\ n.err = "ok" /\ n.tables = m.tables
  <1> DEFINE e == [frame |-> f, w |-> w, cow |-> cow]
             m2 == [m EXCEPT !.ref[f] = m.ref[f] + 1]
             old == m.as[p].pte[v].frame
             m3 == IF m2.as[p].pte[v].frame = f THEN [m2 EXCEPT !.ref[f] = m2.ref[f] - 1]
                   ELSE page_remove_pte(m2, p, v)
  <1>1. m \in Memories /\ f \in Frames /\ m.as[p] \in Spaces /\ m.ref[f] \in Nat
    BY DEF Good, Memories
  <1>2. old \in Frames \cup {NULL} /\ f # NULL
    BY <1>1, SpaceAssumption DEF Spaces, Frames, NULL
  <1>3. n = Enter(m, p, v, e)
    <2>1. get_pte(m, p, v) = m
      BY GotPte DEF Mappable
    <2> QED  BY <2>1 DEF page_insert
  <1>4. /\ m2 \in Memories /\ m2.used = m.used /\ m2.tables = m.tables /\ m2.as = m.as
        /\ m2.content = m.content /\ m2.err = m.err
        /\ m2.ref[f] = m.ref[f] + 1 /\ \A g \in Frames \ {f} : m2.ref[g] = m.ref[g]
    <2>1. m.ref[f] + 1 \in Nat
      BY <1>1
    <2> QED  BY <1>1, <2>1, RefSet DEF WithRef
  <1>5. n = [m3 EXCEPT !.as[p].pte[v] = e]
    <2>1. e.frame = f
      OBVIOUS
    <2> HIDE DEF e
    <2> QED  BY <1>3, <2>1 DEF Enter
  <1> HIDE DEF m2, old, m3
  <1>6. e \in Ptes /\ e.frame = f /\ e.w = w
    BY <1>1 DEF Ptes
  <1> HIDE DEF e
  <1>7. Fits(m, p, v, e)
    BY <1>2, <1>6 DEF Fits, Mappable
  <1>8. \A g \in Frames : /\ m.ref[g] = Cardinality(At(m, g)) /\ m.ref[g] \in Nat
                          /\ g \in m.used <=> At(m, g) # {} \/ g \in X
    BY AtFinite DEF Good, Refs
  <1>9. old # NULL => old \in Frames /\ old \in m.used /\ m.ref[old] >= 1
    BY MappedFrame DEF old
  <1>10. /\ m3 \in Memories /\ m3.tables = m.tables /\ m3.err = m.err /\ m3.used \subseteq m.used
         /\ \A q \in Procs \ {p} : m3.as[q] = m.as[q]
         /\ \E d : Entered(m, m3, p, v, d)
         /\ \A g \in m3.used : m3.content[g] = m.content[g]
         /\ \A g \in Frames \ {f, old} : m3.ref[g] = m.ref[g] /\ (g \in m3.used <=> g \in m.used)
         /\ old = f => m3.ref[f] = m.ref[f]
         /\ old # f => m3.ref[f] = m.ref[f] + 1
         /\ f \in m3.used
         /\ old # f /\ old # NULL => /\ m3.ref[old] = m.ref[old] - 1
                                     /\ old \in m3.used <=> m.ref[old] # 1
    <2>1. Entered(m, m, p, v, m.as[p].pte[v])
      BY DEF Entered
    <2>2. CASE old = f
      <3>1. m3 = [m2 EXCEPT !.ref[f] = m.ref[f]]
        BY <1>1, <1>4, <2>2 DEF m3, old
      <3>2. WithRef(m2, m3, f, m.ref[f])
        BY <1>1, <1>4, <3>1, RefSet
      <3>3. Entered(m, m3, p, v, m.as[p].pte[v])
        BY <1>4, <2>1, <3>2 DEF Entered, WithRef
      <3> QED  BY <1>4, <2>2, <3>2, <3>3 DEF WithRef
    <2>3. CASE old = NULL
      <3>1. m3 = m2
        BY <1>2, <1>4, <2>3 DEF m3, page_remove_pte, old
      <3>2. Entered(m, m3, p, v, m.as[p].pte[v])
        BY <1>4, <2>1, <3>1 DEF Entered
      <3> QED  BY <1>2, <1>4, <2>3, <3>1, <3>2
    <2>4. CASE old # f /\ old # NULL
      <3>1. m3 = page_remove_pte(m2, p, v)
        BY <1>4, <2>4 DEF m3, old
      <3>2. old \in Frames /\ m2.ref[old] = m.ref[old] /\ m2.ref[old] >= 1
        BY <1>4, <1>9, <2>4
      <3>3. old = m2.as[p].pte[v].frame
        BY <1>4 DEF old
      <3>4. m3 \in Memories /\ Entered(m2, m3, p, v, INVALID) /\ Unmapped(m2, m3, old)
        BY <1>4, <3>1, <3>2, <3>3, EntryRemoved
      <3>5. Entered(m, m3, p, v, INVALID)
        BY <1>4, <3>4 DEF Entered
      <3>6. \A g \in m3.used : m3.content[g] = m.content[g]
        <4>1. \A g \in m3.used : g \in Frames /\ (g = old => m2.ref[old] # 1)
          BY <3>4 DEF Unmapped, Memories
        <4> QED  BY <1>4, <3>4, <4>1 DEF Unmapped
      <3>7. \A q \in Procs \ {p} : m3.as[q] = m.as[q]
        BY <3>5 DEF Entered
      <3>8. m3.tables = m.tables /\ m3.err = m.err /\ m3.used \subseteq m.used
            /\ f \in m3.used
        BY <1>4, <2>4, <3>4 DEF Unmapped
      <3>9. \A g \in Frames \ {f, old} : m3.ref[g] = m.ref[g] /\ (g \in m3.used <=> g \in m.used)
        BY <1>4, <3>4 DEF Unmapped
      <3>10. m3.ref[f] = m.ref[f] + 1 /\ m3.ref[old] = m.ref[old] - 1
             /\ (old \in m3.used <=> m.ref[old] # 1)
        BY <1>1, <1>4, <1>9, <2>4, <3>2, <3>4 DEF Unmapped
      <3> QED  BY <2>4, <3>4, <3>5, <3>6, <3>7, <3>8, <3>9, <3>10
    <2> QED  BY <2>2, <2>3, <2>4
  <1>11. /\ n \in Memories /\ n.used = m3.used /\ n.tables = m3.tables /\ n.ref = m3.ref
         /\ n.content = m3.content /\ n.err = m3.err
         /\ Entered(m3, n, p, v, e)
    BY <1>5, <1>6, <1>10, EntrySet
  <1>12. Entered(m, n, p, v, e)
    BY <1>10, <1>11 DEF Entered
  <1>13. ASSUME NEW g \in Frames
         PROVE  n.ref[g] = Cardinality(At(n, g)) /\ (g \in n.used <=> At(n, g) # {})
    <2>1. IsFiniteSet(At(n, g)) /\ Cardinality(At(n, g)) \in Nat /\ (At(n, g) # {} <=> Cardinality(At(n, g)) # 0)
      BY AtFinite, FS_EmptySet
    <2>2. CASE g # f /\ g # old
      <3>1. At(n, g) = At(m, g)
        BY <1>6, <1>12, <2>2, EnteredCount DEF old
      <3>2. n.ref[g] = m.ref[g] /\ (g \in n.used <=> g \in m.used)
        BY <1>10, <1>11, <2>2
      <3> QED  BY <1>8, <2>2, <3>1, <3>2
    <2>3. CASE g = f /\ old = f
      <3>1. At(n, g) = At(m, g)
        BY <1>6, <1>12, <2>3, EnteredCount DEF old
      <3>2. At(m, g) # {}
        <4>1. <<p, v>> \in At(m, g)
          BY <2>3 DEF At, old
        <4> QED  BY <4>1
      <3> QED  BY <1>8, <1>10, <1>11, <2>3, <3>1, <3>2
    <2>4. CASE g = f /\ old # f
      <3>1. Cardinality(At(n, g)) = Cardinality(At(m, g)) + 1 /\ At(n, g) # {}
        BY <1>6, <1>12, <2>4, EnteredCount DEF old
      <3> QED  BY <1>8, <1>10, <1>11, <2>4, <3>1
    <2>5. CASE g = old /\ g # f
      <3>1. Cardinality(At(n, g)) = Cardinality(At(m, g)) - 1
        BY <1>6, <1>12, <2>5, EnteredCount DEF old
      <3>2. g # NULL
        BY SpaceAssumption DEF Frames, NULL
      <3>3. n.ref[g] = m.ref[g] - 1 /\ (g \in n.used <=> m.ref[g] # 1)
        BY <1>10, <1>11, <2>5, <3>2
      <3> QED  BY <1>8, <2>1, <3>1, <3>3
    <2> QED  BY <2>2, <2>3, <2>4, <2>5
  <1>14. Refs(n, {})
    BY <1>13 DEF Refs
  <1>15. n.tables = m.tables /\ n.used \subseteq m.used /\ n.err = "ok"
    BY <1>10, <1>11
  <1>16. /\ \A q \in Procs : Sane(n.as[q])
         /\ OnePage(n) /\ Private(n) /\ TablesFit(n)
    BY <1>7, <1>11, <1>12, <1>15, EnteredSound
  <1>17. FramesFit(n)
    BY <1>1, <1>11, <1>15, FramesFewer DEF Good
  <1>18. Good(n, {})
    BY <1>11, <1>14, <1>16, <1>17 DEF Good
  <1>19. PageSet(m, n, p, v, e)
    BY <1>10, <1>11, <1>12 DEF Entered, PageSet
  <1> QED  BY <1>15, <1>18, <1>19 DEF e

\* page_insert fails before it changes anything, or makes entry e.
InsertedOr(m, n, p, v, e, X) ==
    /\ n.err \in {"ok", "nomem"}
    /\ n.err # "ok" => Good(n, X) /\ SamePages(m, n)
    /\ n.err = "ok" => Good(n, {}) /\ PageSet(m, n, p, v, e)

LEMMA PageInserted ==
    ASSUME NEW m, NEW f, NEW X, X \subseteq {f}, Good(m, X), f \in m.used,
           NEW p \in Procs, NEW v \in VPages, NEW w \in BOOLEAN, NEW cow \in BOOLEAN,
           Mappable(m, p, f, v, w), m.err = "ok", NEW n, n = page_insert(m, p, f, v, w, cow)
    PROVE  InsertedOr(m, n, p, v, [frame |-> f, w |-> w, cow |-> cow], X)
  <1> DEFINE e == [frame |-> f, w |-> w, cow |-> cow]
             m1 == get_pte(m, p, v)
  <1>1. /\ Good(m1, X) /\ SamePages(m, m1) /\ m1.err \in {"ok", "nomem"}
        /\ m1.err = "ok" => HasPte(m1.as[p], v)
    BY GotPte DEF Mappable
  <1>2. n = IF m1.err # "ok" THEN m1 ELSE Enter(m1, p, v, e)
    BY DEF page_insert
  <1>3. CASE m1.err # "ok"
    BY <1>1, <1>2, <1>3 DEF InsertedOr
  <1>4. CASE m1.err = "ok"
    <2> HIDE DEF m1, e
    <2>1. Mappable(m1, p, f, v, w)
      <3>1. \A q \in Procs : m1.as[q].pte = m.as[q].pte
        BY <1>1 DEF SamePages
      <3>2. m1.as[p].root /\ Covered(m1.as[p], v)
        BY <1>1 DEF SamePages, Mappable, Covered
      <3> QED  BY <3>1, <3>2 DEF Mappable
    <2>2. get_pte(m1, p, v) = m1
      BY <1>1, <1>4, <2>1, GotPte DEF Mappable
    <2>3. n = page_insert(m1, p, f, v, w, cow)
      BY <1>2, <1>4, <2>2 DEF page_insert, e
    <2>4. f \in m1.used
      BY <1>1 DEF SamePages
    <2>5. Good(n, {}) /\ PageSet(m1, n, p, v, e) /\ n.err = "ok"
      BY <1>1, <1>4, <2>1, <2>3, <2>4, EntryInserted DEF e
    <2>6. PageSet(m, n, p, v, e)
      BY <1>1, <2>5 DEF PageSet, SamePages
    <2> QED  BY <2>5, <2>6 DEF e, InsertedOr
  <1> QED  BY <1>3, <1>4

\* In n there is x in frame f, which nothing refers to.
WithFrame(m, n, f, x) ==
    /\ Good(n, {f}) /\ f \in Frames /\ f \in n.used /\ n.as = m.as /\ n.err = m.err
    /\ n.content[f] = x
    /\ \A q \in Procs, v \in VPages : m.as[q].pte[v].frame # f
    /\ \A q \in Procs, v \in VPages : View(n, q, v) = View(m, q, v)

\* A frame is allocated; it is not mapped yet.
LEMMA Allocated ==
    ASSUME NEW m, Good(m, {}), ~Full(m), NEW f, f = alloc_page(m), NEW x \in Values,
           NEW n, n = Taken(m, f, x)
    PROVE  WithFrame(m, n, f, x)
  <1>1. m \in Memories
    BY DEF Good
  <1>2. f \in Frames /\ f \notin m.used
    BY <1>1, FreeFrame
  <1>3. /\ n \in Memories /\ n.used = m.used \cup {f} /\ n.tables = m.tables /\ n.as = m.as
        /\ n.err = m.err /\ n.ref = m.ref /\ n.content[f] = x
        /\ \A g \in Frames \ {f} : n.content[g] = m.content[g]
    BY <1>1, <1>2, FrameTaken
  <1>4. \A g : At(n, g) = At(m, g)
    BY <1>3 DEF At
  <1>5. At(m, f) = {}
    BY <1>2 DEF Good, Refs
  <1>6. ASSUME NEW q \in Procs, NEW v \in VPages  PROVE m.as[q].pte[v].frame # f
    <2> SUFFICES ASSUME m.as[q].pte[v].frame = f  PROVE FALSE
      OBVIOUS
    <2>1. <<q, v>> \in At(m, f)
      BY DEF At
    <2> QED  BY <1>5, <2>1
  <1>7. Refs(n, {f})
    BY <1>3, <1>4, <1>5 DEF Good, Refs
  <1>8. FramesFit(n)
    <2>1. IsFiniteSet(m.used) /\ Cardinality(m.used) \in Nat /\ m.tables \in Nat
      BY <1>1, Finite, FS_Subset, FS_CardinalityType DEF Memories
    <2>2. Cardinality(m.used \cup {f}) = Cardinality(m.used) + 1
      BY <1>2, <2>1, FS_AddElement
    <2> QED  BY <1>3, <2>1, <2>2, SpaceAssumption DEF FramesFit, Full
  <1>9. OnePage(n) /\ Private(n) /\ TablesFit(n) /\ \A q \in Procs : Sane(n.as[q])
    BY <1>3 DEF Good, OnePage, Private, TablesFit
  <1>10. Good(n, {f})
    BY <1>3, <1>7, <1>8, <1>9 DEF Good
  <1>11. ASSUME NEW q \in Procs, NEW v \in VPages  PROVE View(n, q, v) = View(m, q, v)
    <2>1. m.as[q].pte[v].frame \in Frames \cup {NULL}
      BY <1>1 DEF Memories, Spaces
    <2> QED  BY <1>3, <1>6, <2>1 DEF View
  <1> QED  BY <1>2, <1>3, <1>6, <1>10, <1>11 DEF WithFrame

\* A frame that is not mapped is given back.
LEMMA GivenBack ==
    ASSUME NEW m, NEW f \in Frames, Good(m, {f}), At(m, f) = {}, NEW n, n = free_page(m, f)
    PROVE  /\ Good(n, {}) /\ n.as = m.as /\ n.err = m.err
           /\ \A q \in Procs, v \in VPages : View(n, q, v) = View(m, q, v)
  <1>1. m \in Memories
    BY DEF Good
  <1>2. WithoutFrame(m, n, f)
    BY <1>1, Freed
  <1>3. n \in Memories /\ n.as = m.as /\ n.err = m.err /\ n.tables = m.tables /\ n.used \subseteq m.used
    BY <1>2 DEF WithoutFrame
  <1>4. \A g : At(n, g) = At(m, g)
    BY <1>3 DEF At
  <1>5. Refs(n, {})
    <2>1. Cardinality(At(m, f)) = 0
      BY FS_EmptySet
    <2> SUFFICES ASSUME NEW g \in Frames
                 PROVE  n.ref[g] = Cardinality(At(n, g)) /\ (g \in n.used <=> At(n, g) # {})
      BY DEF Refs
    <2>2. m.ref[g] = Cardinality(At(m, g)) /\ (g \in m.used <=> At(m, g) # {} \/ g \in {f})
      BY DEF Good, Refs
    <2>3. CASE g = f
      BY <1>2, <1>4, <2>1, <2>3 DEF WithoutFrame
    <2>4. CASE g # f
      BY <1>2, <1>4, <2>2, <2>4 DEF WithoutFrame
    <2> QED  BY <2>3, <2>4
  <1>6. FramesFit(n)
    BY <1>1, <1>3, FramesFewer DEF Good
  <1>7. OnePage(n) /\ Private(n) /\ TablesFit(n) /\ \A q \in Procs : Sane(n.as[q])
    BY <1>3 DEF Good, OnePage, Private, TablesFit
  <1>8. Good(n, {})
    BY <1>3, <1>5, <1>6, <1>7 DEF Good
  <1>9. ASSUME NEW q \in Procs, NEW v \in VPages  PROVE View(n, q, v) = View(m, q, v)
    <2>1. m.as[q].pte[v].frame \in Frames \cup {NULL}
      BY <1>1 DEF Memories, Spaces
    <2>2. m.as[q].pte[v].frame # f
      <3> SUFFICES ASSUME m.as[q].pte[v].frame = f  PROVE FALSE
        OBVIOUS
      <3>1. <<q, v>> \in At(m, f)
        BY DEF At
      <3> QED  BY <3>1
    <2> QED  BY <1>2, <2>1, <2>2 DEF View, WithoutFrame
  <1> QED  BY <1>3, <1>8, <1>9

\* What other processes have is as it was.
Apart(m, n, p) ==
    \A q \in Procs \ {p} :
        /\ n.as[q].root = m.as[q].root /\ n.as[q].mmap = m.as[q].mmap
        /\ \A v \in VPages : View(n, q, v) = View(m, q, v)

\* What the page tables of p hang on stays.
SameAreas(m, n, p) == n.as[p].root = m.as[p].root /\ n.as[p].mmap = m.as[p].mmap

LEMMA SamePagesApart ==
    ASSUME NEW m, NEW n, SamePages(m, n), NEW p \in Procs
    PROVE  /\ Apart(m, n, p) /\ SameAreas(m, n, p)
           /\ \A v \in VPages : View(n, p, v) = View(m, p, v)
  BY DEF SamePages, Apart, SameAreas, View

LEMMA ApartTransitive ==
    ASSUME NEW l, NEW m, NEW n, NEW p, Apart(l, m, p), Apart(m, n, p)
    PROVE  Apart(l, n, p)
  BY DEF Apart

\* pgdir_alloc_page maps a new page, or gives back the frame it had for it.
LEMMA PageAllocated ==
    ASSUME NEW m, Good(m, {}), m.err = "ok", NEW p \in Procs, NEW v \in VPages,
           m.as[p].root, Covered(m.as[p], v), NEW w \in BOOLEAN, NEW x \in Values,
           NEW n, n = pgdir_alloc_page(m, p, v, w, x)
    PROVE  /\ Good(n, {}) /\ n.err \in {"ok", "nomem"}
           /\ Apart(m, n, p) /\ SameAreas(m, n, p)
  <1> DEFINE f == alloc_page(m)
             t == Taken(m, f, x)
             m1 == page_insert(t, p, f, v, w, FALSE)
  <1>1. n = IF Full(m) THEN Fail(m, "nomem") ELSE IF m1.err # "ok" THEN free_page(m1, f) ELSE m1
    BY DEF pgdir_alloc_page
  <1>2. CASE Full(m)
    <2>1. n = Fail(m, "nomem")
      BY <1>1, <1>2
    <2> QED  BY <2>1, Failed, SamePagesApart
  <1>3. CASE ~Full(m)
    <2>1. /\ Good(t, {f}) /\ f \in Frames /\ f \in t.used /\ t.as = m.as /\ t.err = m.err
          /\ \A q \in Procs, y \in VPages : m.as[q].pte[y].frame # f
          /\ \A q \in Procs, y \in VPages : View(t, q, y) = View(m, q, y)
      <3>1. WithFrame(m, t, f, x)
        <4> HIDE DEF t, f
        <4> QED  BY <1>3, Allocated DEF t, f
      <3> QED  BY <3>1 DEF WithFrame
    <2> HIDE DEF t, f
    <2>2. Mappable(t, p, f, v, w)
      BY <2>1 DEF Mappable
    <2>3. /\ m1.err \in {"ok", "nomem"}
          /\ m1.err # "ok" => Good(m1, {f}) /\ SamePages(t, m1)
          /\ m1.err = "ok" => /\ Good(m1, {})
                              /\ PageSet(t, m1, p, v, [frame |-> f, w |-> w, cow |-> FALSE])
      <3> HIDE DEF m1
      <3>1. t.err = "ok" /\ Good(t, {f}) /\ f \in t.used
        BY <2>1
      <3>2. InsertedOr(t, m1, p, v, [frame |-> f, w |-> w, cow |-> FALSE], {f})
        BY <2>2, <3>1, PageInserted DEF m1
      <3> QED  BY <3>2 DEF InsertedOr
    <2> HIDE DEF m1
    <2>4. Apart(m, t, p) /\ SameAreas(m, t, p)
      BY <2>1 DEF Apart, SameAreas
    <2>5. CASE m1.err = "ok"
      <3>1. n = m1
        BY <1>1, <1>3, <2>5
      <3>2. \A q \in Procs \ {p}, y \in VPages : View(m1, q, y) = View(t, q, y)
        BY <2>3, <2>5, PageSetView
      <3>3. Apart(t, m1, p) /\ SameAreas(t, m1, p)
        BY <2>3, <2>5, <3>2 DEF Apart, SameAreas, PageSet
      <3> QED  BY <2>3, <2>4, <2>5, <3>1, <3>3, ApartTransitive DEF SameAreas
    <2>6. CASE m1.err # "ok"
      <3>1. n = free_page(m1, f)
        BY <1>1, <1>3, <2>6
      <3>2. At(m1, f) = {}
        <4>1. \A q \in Procs, y \in VPages : m1.as[q].pte[y].frame # f
          BY <2>1, <2>3, <2>6 DEF SamePages
        <4> QED  BY <4>1 DEF At
      <3>3. /\ Good(n, {}) /\ n.as = m1.as /\ n.err = m1.err
            /\ \A q \in Procs, y \in VPages : View(n, q, y) = View(m1, q, y)
        BY <2>1, <2>3, <2>6, <3>1, <3>2, GivenBack
      <3>4. Apart(t, m1, p) /\ SameAreas(t, m1, p)
        BY <2>3, <2>6, SamePagesApart
      <3>5. Apart(m1, n, p) /\ SameAreas(m1, n, p)
        BY <3>3 DEF Apart, SameAreas
      <3>6. Apart(m, n, p)
        BY <2>4, <3>4, <3>5, ApartTransitive
      <3> QED  BY <2>3, <2>4, <2>6, <3>3, <3>4, <3>5, <3>6 DEF SameAreas
    <2> QED  BY <2>5, <2>6
  <1> QED  BY <1>2, <1>3

-----------------------------------------------------------------------------
(* The loops that take an address space down.                              *)

\* The pages of p in the first k pages of the area are gone; e holds what surrounds the
\* loop: the memory before, the process and the area.
UnmapStep(e, n, v) ==
    IF n.err = "ok" THEN IF HasPte(n.as[e.p], v) THEN page_remove_pte(n, e.p, v) ELSE n ELSE n

UnmapInv(e, k, n) ==
    /\ Good(n, {}) /\ n.err = "ok" /\ Apart(e.m, n, e.p) /\ SameAreas(e.m, n, e.p)
    /\ \A v \in VPages : e.m.as[e.p].pte[v].frame = NULL => n.as[e.p].pte[v].frame = NULL
    /\ \A v \in VPages : e.vma.start <= v /\ v < e.vma.start + k => n.as[e.p].pte[v].frame = NULL

Unmapping == INSTANCE SeqLemmas WITH LoopBody <- UnmapStep, LoopInv <- UnmapInv

\* One turn of unmap_range.
LEMMA PageUnmapped ==
    ASSUME NEW m, Good(m, {}), m.err = "ok", NEW p \in Procs, NEW v \in VPages,
           NEW n, n = IF HasPte(m.as[p], v) THEN page_remove_pte(m, p, v) ELSE m
    PROVE  /\ Good(n, {}) /\ n.err = "ok" /\ Apart(m, n, p) /\ SameAreas(m, n, p)
           /\ n.as[p].pte[v].frame = NULL
           /\ \A w \in VPages : m.as[p].pte[w].frame = NULL => n.as[p].pte[w].frame = NULL
  <1>1. CASE m.as[p].pte[v].frame = NULL
    <2>1. n = m
      BY <1>1 DEF page_remove_pte
    <2> QED  BY <1>1, <2>1 DEF Apart, SameAreas
  <1>2. CASE m.as[p].pte[v].frame # NULL
    <2>1. HasPte(m.as[p], v)
      BY <1>2, MappedFrame
    <2>2. n = page_remove_pte(m, p, v)
      BY <2>1
    <2>3. Good(n, {}) /\ PageSet(m, n, p, v, INVALID) /\ n.err = m.err
      BY <1>2, <2>2, PageRemoved
    <2>4. \A q \in Procs \ {p}, w \in VPages : View(n, q, w) = View(m, q, w)
      BY <2>3, PageSetView
    <2>5. Apart(m, n, p) /\ SameAreas(m, n, p)
      BY <2>3, <2>4 DEF Apart, SameAreas, PageSet
    <2>6. n.as[p].pte[v].frame = NULL
      BY <2>3 DEF PageSet, INVALID
    <2>7. \A w \in VPages : m.as[p].pte[w].frame = NULL => n.as[p].pte[w].frame = NULL
      BY <2>3, <2>6 DEF PageSet
    <2> QED  BY <2>3, <2>5, <2>6, <2>7
  <1> QED  BY <1>1, <1>2

\* unmap_range removes every page of the area.
LEMMA AreaUnmapped ==
    ASSUME NEW m, Good(m, {}), m.err = "ok", NEW p \in Procs, NEW vma \in Vmas,
           NEW n, n = unmap_range(m, p, vma)
    PROVE  /\ Good(n, {}) /\ n.err = "ok" /\ Apart(m, n, p) /\ SameAreas(m, n, p)
           /\ \A v \in VPages : m.as[p].pte[v].frame = NULL => n.as[p].pte[v].frame = NULL
           /\ \A v \in VPages : Holds(vma, v) => n.as[p].pte[v].frame = NULL
  <1> DEFINE e == [m |-> m, p |-> p, vma |-> vma]
             seq == Area(vma)
             len == IF vma.start <= vma.end THEN vma.end - vma.start ELSE 0
  <1>1. /\ vma.start \in VPages /\ vma.end \in 0 .. TopPage /\ TopPage \in Nat
        /\ VPages = 0 .. TopPage - 1
    BY TopPageType DEF Vmas
  <1>2. /\ len \in Nat /\ DOMAIN seq = 1 .. len
        /\ \A k \in 1 .. len : seq[k] = vma.start + k - 1 /\ seq[k] \in VPages
    <2>1. DOMAIN seq = 1 .. vma.end - vma.start
      BY DEF Area
    <2>2. \A k \in 1 .. vma.end - vma.start : seq[k] = vma.start + k - 1
      BY DEF Area
    <2> HIDE DEF seq
    <2> QED  BY <1>1, <2>1, <2>2
  <1>3. e.m = m /\ e.p = p /\ e.vma = vma
    OBVIOUS
  <1>4. Unmapping!LoopFold(e, m, seq) = n
    BY DEF Unmapping!LoopFold, Unmapping!FoldLeft, Unmapping!MapThenFoldSet, Unmapping!Max, Max,
           unmap_range, Each, FoldLeft, MapThenFoldSet, UnmapStep
  <1> HIDE DEF e, seq, len
  <1>5. UnmapInv(e, 0, m)
    BY <1>1, <1>3 DEF UnmapInv, Apart, SameAreas
  <1>6. ASSUME NEW k \in 1 .. len, NEW u, UnmapInv(e, k - 1, u)
        PROVE  UnmapInv(e, k, UnmapStep(e, u, seq[k]))
    <2> DEFINE v == seq[k]
               t == UnmapStep(e, u, v)
    <2>1. /\ Good(u, {}) /\ u.err = "ok" /\ Apart(m, u, p) /\ SameAreas(m, u, p)
          /\ \A w \in VPages : m.as[p].pte[w].frame = NULL => u.as[p].pte[w].frame = NULL
          /\ \A w \in VPages : vma.start <= w /\ w < vma.start + (k - 1) => u.as[p].pte[w].frame = NULL
      BY <1>3, <1>6 DEF UnmapInv
    <2>2. v = vma.start + k - 1 /\ v \in VPages
      BY <1>2
    <2>3. t = IF HasPte(u.as[p], v) THEN page_remove_pte(u, p, v) ELSE u
      BY <1>3, <2>1 DEF UnmapStep
    <2> HIDE DEF v, t
    <2>4. /\ Good(t, {}) /\ t.err = "ok" /\ Apart(u, t, p) /\ SameAreas(u, t, p)
          /\ t.as[p].pte[v].frame = NULL
          /\ \A w \in VPages : u.as[p].pte[w].frame = NULL => t.as[p].pte[w].frame = NULL
      BY <2>1, <2>2, <2>3, PageUnmapped
    <2>5. Apart(m, t, p) /\ SameAreas(m, t, p)
      BY <2>1, <2>4, ApartTransitive DEF SameAreas
    <2>6. \A w \in VPages : vma.start <= w /\ w < vma.start + k => t.as[p].pte[w].frame = NULL
      <3> SUFFICES ASSUME NEW w \in VPages, vma.start <= w, w < vma.start + k
                   PROVE  t.as[p].pte[w].frame = NULL
        OBVIOUS
      <3>1. w = v \/ w < vma.start + (k - 1)
        BY <1>1, <2>2
      <3> QED  BY <2>1, <2>4, <3>1
    <2>7. UnmapInv(e, k, t)
      BY <1>3, <2>1, <2>4, <2>5, <2>6 DEF UnmapInv
    <2> QED  BY <2>7 DEF t, v
  <1>7. UnmapInv(e, len, Unmapping!LoopFold(e, m, seq))
    BY <1>2, <1>5, <1>6, Unmapping!FoldInvariant
  <1>8. UnmapInv(e, len, n)
    BY <1>4, <1>7
  <1>9. \A v \in VPages : Holds(vma, v) => vma.start <= v /\ v < vma.start + len
    BY <1>1 DEF Holds, len
  <1> QED  BY <1>3, <1>8, <1>9 DEF UnmapInv

\* The pages of the first k areas are gone.
UnmapAllStep(e, n, vma) == IF n.err = "ok" THEN unmap_range(n, e.p, vma) ELSE n

UnmapAllInv(e, k, n) ==
    /\ Good(n, {}) /\ n.err = "ok" /\ Apart(e.m, n, e.p) /\ SameAreas(e.m, n, e.p)
    /\ \A v \in VPages : e.m.as[e.p].pte[v].frame = NULL => n.as[e.p].pte[v].frame = NULL
    /\ \A i \in 1 .. k, v \in VPages :
           Holds(e.m.as[e.p].mmap[i], v) => n.as[e.p].pte[v].frame = NULL

UnmappingAll == INSTANCE SeqLemmas WITH LoopBody <- UnmapAllStep, LoopInv <- UnmapAllInv

UnmapAll(m, p) == Each(m, m.as[p].mmap, LAMBDA n, vma : unmap_range(n, p, vma))

\* An address space without pages.
Bare(a) == \A v \in VPages : a.pte[v].frame = NULL

LEMMA AreasOf ==
    ASSUME NEW m, NEW X, Good(m, X), NEW p \in Procs
    PROVE  /\ m.as[p].mmap \in Seq(Vmas) /\ Len(m.as[p].mmap) \in Nat
           /\ DOMAIN m.as[p].mmap = 1 .. Len(m.as[p].mmap)
           /\ \A i \in 1 .. Len(m.as[p].mmap) : m.as[p].mmap[i] \in Vmas
  <1> DEFINE list == m.as[p].mmap
  <1>1. list \in Seq(Vmas)
    BY DEF Good, Memories, Spaces, Vmas
  <1> HIDE DEF list
  <1>2. Len(list) \in Nat /\ DOMAIN list = 1 .. Len(list) /\ \A i \in 1 .. Len(list) : list[i] \in Vmas
    BY <1>1
  <1> QED  BY <1>1, <1>2 DEF list

\* No page is left, since every one is in an area.
LEMMA AllUnmapped ==
    ASSUME NEW m, Good(m, {}), m.err = "ok", NEW p \in Procs, NEW n, n = UnmapAll(m, p)
    PROVE  /\ Good(n, {}) /\ n.err = "ok" /\ Apart(m, n, p) /\ SameAreas(m, n, p)
           /\ Bare(n.as[p])
  <1> DEFINE e == [m |-> m, p |-> p]
             seq == m.as[p].mmap
             len == Len(seq)
  <1>1. len \in Nat /\ DOMAIN seq = 1 .. len /\ \A k \in 1 .. len : seq[k] \in Vmas
    BY AreasOf
  <1>2. e.m = m /\ e.p = p /\ e.m.as[e.p].mmap = seq
    OBVIOUS
  <1>3. UnmappingAll!LoopFold(e, m, seq) = n
    BY DEF UnmappingAll!LoopFold, UnmappingAll!FoldLeft, UnmappingAll!MapThenFoldSet,
           UnmappingAll!Max, Max, UnmapAll, Each, FoldLeft, MapThenFoldSet, UnmapAllStep
  <1> HIDE DEF e, len
  <1>4. UnmapAllInv(e, 0, m)
    BY <1>2 DEF UnmapAllInv, Apart, SameAreas
  <1>5. ASSUME NEW k \in 1 .. len, NEW u, UnmapAllInv(e, k - 1, u)
        PROVE  UnmapAllInv(e, k, UnmapAllStep(e, u, seq[k]))
    <2> DEFINE t == UnmapAllStep(e, u, seq[k])
    <2>1. /\ Good(u, {}) /\ u.err = "ok" /\ Apart(m, u, p) /\ SameAreas(m, u, p)
          /\ \A v \in VPages : m.as[p].pte[v].frame = NULL => u.as[p].pte[v].frame = NULL
          /\ \A i \in 1 .. k - 1, v \in VPages : Holds(seq[i], v) => u.as[p].pte[v].frame = NULL
      BY <1>2, <1>5 DEF UnmapAllInv
    <2>2. t = unmap_range(u, p, seq[k])
      BY <1>2, <2>1 DEF UnmapAllStep
    <2>3. seq[k] \in Vmas
      BY <1>1
    <2> HIDE DEF t, seq
    <2>4. /\ Good(t, {}) /\ t.err = "ok" /\ Apart(u, t, p) /\ SameAreas(u, t, p)
          /\ \A v \in VPages : u.as[p].pte[v].frame = NULL => t.as[p].pte[v].frame = NULL
          /\ \A v \in VPages : Holds(seq[k], v) => t.as[p].pte[v].frame = NULL
      BY <2>1, <2>2, <2>3, AreaUnmapped
    <2>5. Apart(m, t, p) /\ SameAreas(m, t, p)
      BY <2>1, <2>4, ApartTransitive DEF SameAreas
    <2>6. \A i \in 1 .. k, v \in VPages : Holds(seq[i], v) => t.as[p].pte[v].frame = NULL
      <3> SUFFICES ASSUME NEW i \in 1 .. k, NEW v \in VPages, Holds(seq[i], v)
                   PROVE  t.as[p].pte[v].frame = NULL
        OBVIOUS
      <3>1. i = k \/ i \in 1 .. k - 1
        BY <1>1
      <3> QED  BY <2>1, <2>4, <3>1
    <2>7. UnmapAllInv(e, k, t)
      BY <1>2, <2>1, <2>4, <2>5, <2>6 DEF UnmapAllInv
    <2> QED  BY <2>7 DEF t
  <1>6. UnmapAllInv(e, len, UnmappingAll!LoopFold(e, m, seq))
    <2> HIDE DEF seq
    <2> QED  BY <1>1, <1>4, <1>5, UnmappingAll!FoldInvariant
  <1>7. UnmapAllInv(e, len, n)
    BY <1>3, <1>6
  <1>8. ASSUME NEW v \in VPages  PROVE n.as[p].pte[v].frame = NULL
    <2>1. CASE m.as[p].pte[v].frame = NULL
      BY <1>2, <1>7, <2>1 DEF UnmapAllInv
    <2>2. CASE m.as[p].pte[v].frame # NULL
      <3>1. Covered(m.as[p], v)
        BY <2>2, MappedFrame
      <3>2. PICK i \in 1 .. len : Holds(seq[i], v)
        BY <1>1, <3>1 DEF Covered
      <3> QED  BY <1>2, <1>7, <3>2 DEF UnmapAllInv
    <2> QED  BY <2>1, <2>2
  <1> QED  BY <1>2, <1>7, <1>8 DEF UnmapAllInv, Bare

\* exit_range frees tables that it has counted, and directories.
TablesTaken(a, empty, gone) ==
    [a EXCEPT !.pd = a.pd \ gone, !.pt = {t \in a.pt \ empty : DirOf(t) \notin gone}]

WithoutTables(m, p, empty, gone) ==
    [m EXCEPT !.tables = m.tables - Cardinality(empty) - Cardinality(gone),
              !.as[p] = TablesTaken(m.as[p], empty, gone)]

LEMMA TablesFreed ==
    ASSUME NEW m, Good(m, {}), NEW p \in Procs, m.as[p].root, Bare(m.as[p]),
           NEW empty, empty \subseteq m.as[p].pt, NEW gone, gone \subseteq m.as[p].pd,
           NEW n, n = WithoutTables(m, p, empty, gone)
    PROVE  Good(n, {}) /\ n.err = m.err /\ SamePages(m, n)
  <1> DEFINE a == m.as[p]
             b == TablesTaken(a, empty, gone)
             left == m.tables - Cardinality(empty) - Cardinality(gone)
  <1>1. m \in Memories /\ a \in Spaces /\ Sane(a)
    BY DEF Good, Memories
  <1>2. /\ b \in Spaces /\ b.root = a.root /\ b.pte = a.pte /\ b.mmap = a.mmap
        /\ b.pd = a.pd \ gone /\ b.pt = {t \in a.pt \ empty : DirOf(t) \notin gone}
    <2> HIDE DEF a
    <2> QED  BY <1>1 DEF Spaces, TablesTaken, a
  <1> HIDE DEF b
  <1>3. IsFiniteSet(a.pd) /\ IsFiniteSet(a.pt)
    BY <1>1, Finite, FS_Subset DEF Spaces
  <1>4. /\ IsFiniteSet(gone) /\ IsFiniteSet(empty)
        /\ Cardinality(gone) \in Nat /\ Cardinality(empty) \in Nat
        /\ Cardinality(a.pd) \in Nat /\ Cardinality(a.pt) \in Nat
    BY <1>3, FS_Subset, FS_CardinalityType
  <1>5. Cardinality(b.pd) = Cardinality(a.pd) - Cardinality(gone)
    <2>1. a.pd \cap gone = gone
      OBVIOUS
    <2>2. Cardinality(a.pd \ gone) = Cardinality(a.pd) - Cardinality(gone)
      BY <1>3, <2>1, FS_Difference
    <2> QED  BY <1>2, <2>2
  <1>6. Cardinality(a.pt \ empty) = Cardinality(a.pt) - Cardinality(empty)
    <2>1. a.pt \cap empty = empty
      OBVIOUS
    <2> QED  BY <1>3, <1>4, <2>1, FS_Difference
  <1>7. {t \in a.pt : DirOf(t) \in a.pd} = a.pt
    BY <1>1 DEF Sane
  <1>8. /\ Cardinality({t \in b.pt : DirOf(t) \in b.pd}) \in Nat
        /\ Cardinality({t \in b.pt : DirOf(t) \in b.pd}) <= Cardinality(a.pt \ empty)
    <2>1. {t \in b.pt : DirOf(t) \in b.pd} \subseteq a.pt \ empty
      BY <1>2
    <2>2. IsFiniteSet(a.pt \ empty)
      BY <1>3, FS_Subset
    <2> QED  BY <2>1, <2>2, FS_Subset, FS_CardinalityType
  <1>9. TablesOf(a) - TablesOf(b) >= Cardinality(empty) + Cardinality(gone)
    <2>1. TablesOf(a) = 1 + Cardinality(a.pd) + Cardinality(a.pt)
      BY <1>7 DEF TablesOf
    <2>2. TablesOf(b) = 1 + Cardinality(b.pd) + Cardinality({t \in b.pt : DirOf(t) \in b.pd})
      BY <1>2 DEF TablesOf
    <2> QED  BY <1>4, <1>5, <1>6, <1>8, <2>1, <2>2
  <1>10. TablesOf(a) \in Nat /\ TablesOf(b) \in Nat
    BY <1>1, <1>2, TablesType
  <1>11. left \in Nat
    <2> DEFINE f == [q \in Procs |-> TablesOf(m.as[q])]
    <2>1. \A q \in Procs : f[q] \in Nat
      BY <1>1, TablesType DEF Memories
    <2>2. f[p] = TablesOf(a)
      OBVIOUS
    <2>3. m.tables >= SumFunctionOnSet(f, Procs) /\ m.tables \in Nat
      BY <1>1 DEF Good, TablesFit, Memories
    <2> HIDE DEF f
    <2>4. f[p] <= SumFunctionOnSet(f, Procs) /\ SumFunctionOnSet(f, Procs) \in Nat
      BY <2>1, Finite, SumOfNats
    <2> QED  BY <1>4, <1>9, <1>10, <2>2, <2>3, <2>4
  <1>12. n.as = [m.as EXCEPT ![p] = b] /\ n.as \in [Procs -> Spaces]
    <2>1. n.as = [m.as EXCEPT ![p] = b]
      BY <1>1 DEF Memories, WithoutTables, b
    <2> QED  BY <1>1, <1>2, <2>1 DEF Memories
  <1>13. /\ n.used = m.used /\ n.ref = m.ref /\ n.content = m.content /\ n.err = m.err
         /\ n.tables = left
    BY <1>1 DEF Memories, WithoutTables
  <1>14. n \in Memories
    <2>1. n = [m EXCEPT !.tables = left, !.as = n.as]
      BY <1>1, <1>12 DEF Memories, WithoutTables, b
    <2> HIDE DEF left
    <2>2. [m EXCEPT !.tables = left, !.as = n.as] \in Memories
      BY <1>1, <1>11, <1>12, TablesReplaced, Zenon
    <2> QED  BY <2>1, <2>2, Zenon
  <1>15. n.as[p] = b /\ \A q \in Procs \ {p} : n.as[q] = m.as[q]
    BY <1>1, <1>12 DEF Memories
  <1>16. SamePages(m, n)
    BY <1>2, <1>13, <1>15 DEF SamePages
  <1>17. ASSUME NEW q \in Procs  PROVE Sane(n.as[q])
    <2>1. CASE q # p
      BY <1>15, <2>1 DEF Good
    <2>2. CASE q = p
      <3>1. Sane(b)
        BY <1>1, <1>2 DEF Sane, Bare
      <3> QED  BY <1>15, <2>2, <3>1
    <2> QED  BY <2>1, <2>2
  <1>18. TablesFit(n)
    <2>1. m.tables \in Nat
      BY <1>1 DEF Memories
    <2>2. Balanced(m, n, p)
      BY <1>4, <1>9, <1>10, <1>13, <1>15, <2>1 DEF Balanced
    <2> QED  BY <1>1, <1>14, <2>2, TablesKept DEF Good
  <1>19. FramesFit(n)
    <2>1. m.tables \in Nat /\ Cardinality(m.used) \in Nat
      BY <1>1, Finite, FS_Subset, FS_CardinalityType DEF Memories
    <2> QED  BY <1>4, <1>13, <2>1, SpaceAssumption DEF FramesFit, Good
  <1>20. Good(n, {})
    BY <1>14, <1>16, <1>17, <1>18, <1>19, SamePagesKeep DEF Good
  <1> QED  BY <1>13, <1>15, <1>16, <1>20

ExitStep(e, n, vma) == IF n.err = "ok" THEN exit_range(n, e.p, vma) ELSE n

ExitInv(e, k, n) ==
    Good(n, {}) /\ n.err = "ok" /\ Apart(e.m, n, e.p) /\ n.as[e.p].root /\ Bare(n.as[e.p])

Exiting == INSTANCE SeqLemmas WITH LoopBody <- ExitStep, LoopInv <- ExitInv

ExitAll(m, p, list) == Each(m, list, LAMBDA n, vma : exit_range(n, p, vma))

\* One turn of the second loop of exit_mmap.
LEMMA RangeExited ==
    ASSUME NEW m, Good(m, {}), m.err = "ok", NEW p \in Procs, m.as[p].root, Bare(m.as[p]), NEW vma,
           NEW n, n = exit_range(m, p, vma)
    PROVE  Good(n, {}) /\ n.err = "ok" /\ Apart(m, n, p) /\ n.as[p].root /\ Bare(n.as[p])
  <1> DEFINE a == m.as[p]
             dirs == {d \in a.pd : PDX(vma.start) <= d /\ d <= PDX(vma.end - 1)}
             empty == {t \in a.pt \cap UNION {Visited(vma, d) : d \in dirs} :
                          \A v \in VPages : PTX(v) = t => a.pte[v].frame = NULL}
             gone == {d \in dirs : Visited(vma, d) \subseteq a.pt}
  <1>1. n = WithoutTables(m, p, empty, gone)
    BY DEF exit_range, WithoutTables, TablesTaken
  <1>2. empty \subseteq a.pt /\ gone \subseteq a.pd
    OBVIOUS
  <1>3. Good(n, {}) /\ n.err = m.err /\ SamePages(m, n)
    <2> HIDE DEF empty, gone
    <2> QED  BY <1>1, <1>2, TablesFreed
  <1>4. Apart(m, n, p) /\ SameAreas(m, n, p)
    BY <1>3, SamePagesApart
  <1> QED  BY <1>3, <1>4 DEF SameAreas, SamePages, Bare

LEMMA AllExited ==
    ASSUME NEW m, Good(m, {}), m.err = "ok", NEW p \in Procs, m.as[p].root, Bare(m.as[p]),
           NEW list, NEW len \in Nat, DOMAIN list = 1 .. len, NEW n, n = ExitAll(m, p, list)
    PROVE  Good(n, {}) /\ n.err = "ok" /\ Apart(m, n, p) /\ n.as[p].root /\ Bare(n.as[p])
  <1> DEFINE e == [m |-> m, p |-> p]
  <1>1. e.m = m /\ e.p = p
    OBVIOUS
  <1>2. Exiting!LoopFold(e, m, list) = n
    BY DEF Exiting!LoopFold, Exiting!FoldLeft, Exiting!MapThenFoldSet,
           Exiting!Max, Max, ExitAll, Each, FoldLeft, MapThenFoldSet, ExitStep
  <1> HIDE DEF e
  <1>3. ExitInv(e, 0, m)
    BY <1>1 DEF ExitInv, Apart
  <1>4. ASSUME NEW k \in 1 .. len, NEW u, ExitInv(e, k - 1, u)
        PROVE  ExitInv(e, k, ExitStep(e, u, list[k]))
    <2> DEFINE t == exit_range(u, p, list[k])
    <2>1. /\ Good(u, {}) /\ u.err = "ok" /\ Apart(m, u, p) /\ u.as[p].root /\ Bare(u.as[p])
      BY <1>1, <1>4 DEF ExitInv
    <2>2. ExitStep(e, u, list[k]) = t
      BY <1>1, <2>1 DEF ExitStep
    <2>3. Good(t, {}) /\ t.err = "ok" /\ Apart(u, t, p) /\ t.as[p].root /\ Bare(t.as[p])
      BY <2>1, RangeExited
    <2> HIDE DEF t
    <2>4. Apart(m, t, p)
      BY <2>1, <2>3, ApartTransitive
    <2> QED  BY <1>1, <2>2, <2>3, <2>4 DEF ExitInv
  <1>5. ExitInv(e, len, Exiting!LoopFold(e, m, list))
    BY <1>3, <1>4, Exiting!FoldInvariant
  <1> QED  BY <1>1, <1>2, <1>5 DEF ExitInv

LEMMA NoMmSound ==
    /\ NoMm \in Spaces /\ Sane(NoMm) /\ ~NoMm.root /\ TablesOf(NoMm) = 0
    /\ Bare(NoMm) /\ \A v \in VPages : ~NoMm.pte[v].w
  <1>1. [v \in VPages |-> INVALID] \in [VPages -> Ptes]
    BY DEF INVALID, Ptes
  <1>2. <<>> \in Seq([start : VPages, end : 0 .. TopPage])
    OBVIOUS
  <1>3. NoMm \in Spaces
    BY <1>1, <1>2 DEF NoMm, Spaces, Ptes
  <1>4. Sane(NoMm)
    BY DEF NoMm, Sane, INVALID
  <1>5. TablesOf(NoMm) = 0
    <2>1. {t \in {} : DirOf(t) \in {}} = {}
      OBVIOUS
    <2>2. Cardinality({}) = 0
      BY FS_EmptySet
    <2> QED  BY <2>1, <2>2 DEF TablesOf, NoMm
  <1>6. Bare(NoMm) /\ ~NoMm.root /\ \A v \in VPages : ~NoMm.pte[v].w
    BY DEF Bare, NoMm, INVALID
  <1> QED  BY <1>3, <1>4, <1>5, <1>6

\* put_pgdir and mm_destroy, when no page is left.
Destroy(m, p, e) == [m EXCEPT !.tables = m.tables - 1, !.as[p] = NoMm, !.err = e]

LEMMA Destroyed ==
    ASSUME NEW m, Good(m, {}), NEW p \in Procs, m.as[p].root, Bare(m.as[p]),
           NEW e \in {"ok", "nomem", "inval", "panic"},
           NEW n, n = Destroy(m, p, e)
    PROVE  Good(n, {}) /\ n.err = e /\ Apart(m, n, p) /\ n.as[p] = NoMm
  <1> DEFINE left == m.tables - 1
  <1>1. m \in Memories /\ m.as[p] \in Spaces /\ m.tables \in Nat
    BY DEF Good, Memories
  <1>2. TablesOf(m.as[p]) >= 1 /\ TablesOf(m.as[p]) \in Nat
    <2>1. /\ Cardinality(m.as[p].pd) \in Nat
          /\ Cardinality({t \in m.as[p].pt : DirOf(t) \in m.as[p].pd}) \in Nat
      <3>1. m.as[p].pd \subseteq Dirs /\ {t \in m.as[p].pt : DirOf(t) \in m.as[p].pd} \subseteq Tables
        BY <1>1 DEF Spaces
      <3> QED  BY <3>1, Finite, FS_Subset, FS_CardinalityType
    <2> QED  BY <1>1, <2>1, TablesType DEF TablesOf
  <1>3. left \in Nat
    <2> DEFINE f == [q \in Procs |-> TablesOf(m.as[q])]
    <2>1. \A q \in Procs : f[q] \in Nat
      BY <1>1, TablesType DEF Memories
    <2>2. f[p] = TablesOf(m.as[p])
      OBVIOUS
    <2>3. m.tables >= SumFunctionOnSet(f, Procs)
      BY DEF Good, TablesFit
    <2> HIDE DEF f
    <2>4. f[p] <= SumFunctionOnSet(f, Procs) /\ SumFunctionOnSet(f, Procs) \in Nat
      BY <2>1, Finite, SumOfNats
    <2> QED  BY <1>1, <1>2, <2>2, <2>3, <2>4
  <1> DEFINE x == [m.as EXCEPT ![p] = NoMm]
  <1>4. x \in [Procs -> Spaces] /\ x[p] = NoMm /\ \A q \in Procs \ {p} : x[q] = m.as[q]
    BY <1>1, NoMmSound DEF Memories
  <1>5. n = [m EXCEPT !.tables = left, !.as = x, !.err = e]
    BY <1>1 DEF Memories, Destroy
  <1> HIDE DEF left, x
  <1>6. /\ n \in Memories /\ n.used = m.used /\ n.ref = m.ref /\ n.content = m.content /\ n.err = e
        /\ n.tables = left /\ n.as = x
    BY <1>1, <1>3, <1>4, <1>5 DEF Memories
  <1>7. n.as[p] = NoMm /\ \A q \in Procs \ {p} : n.as[q] = m.as[q]
    BY <1>4, <1>6
  <1>8. \A q \in Procs, v \in VPages : n.as[q].pte[v].frame = m.as[q].pte[v].frame
    BY <1>7, NoMmSound DEF Bare
  <1>9. Refs(n, {})
    <2>1. \A f : At(n, f) = At(m, f)
      BY <1>8 DEF At
    <2> QED  BY <1>6, <2>1 DEF Good, Refs
  <1>10. OnePage(n)
    <2> SUFFICES ASSUME NEW q \in Procs, NEW r \in Procs, NEW w \in VPages, NEW y \in VPages,
                        n.as[q].pte[w].frame = n.as[r].pte[y].frame,
                        n.as[q].pte[w].frame # NULL
                 PROVE  w = y
      BY DEF OnePage
    <2>1. n.as[q].pte[w].frame = m.as[q].pte[w].frame /\ n.as[r].pte[y].frame = m.as[r].pte[y].frame
      BY <1>8
    <2>2. m.as[q].pte[w].frame = m.as[r].pte[y].frame /\ m.as[q].pte[w].frame # NULL
      BY <2>1
    <2>3. OnePage(m)
      BY DEF Good
    <2> QED  BY <2>2, <2>3 DEF OnePage
  <1>11. Private(n)
    <2> SUFFICES ASSUME NEW q \in Procs, NEW r \in Procs, NEW w \in VPages,
                        n.as[q].pte[w].w, n.as[r].pte[w].frame = n.as[q].pte[w].frame
                 PROVE  q = r
      BY DEF Private
    <2>1. q # p
      BY <1>7, NoMmSound
    <2>2. m.as[q].pte[w].w /\ m.as[r].pte[w].frame = m.as[q].pte[w].frame
      BY <1>7, <1>8, <2>1
    <2> QED  BY <2>2 DEF Good, Private
  <1>12. TablesFit(n)
    <2>1. Balanced(m, n, p)
      BY <1>1, <1>2, <1>6, <1>7, NoMmSound DEF left, Balanced
    <2> QED  BY <1>1, <1>6, <2>1, TablesKept DEF Good
  <1>13. FramesFit(n)
    <2>1. Cardinality(m.used) \in Nat
      BY <1>1, Finite, FS_Subset, FS_CardinalityType DEF Memories
    <2> QED  BY <1>1, <1>6, <2>1, SpaceAssumption DEF FramesFit, Good, left
  <1>14. Good(n, {})
    BY <1>6, <1>7, <1>9, <1>10, <1>11, <1>12, <1>13, NoMmSound DEF Good
  <1>15. Apart(m, n, p)
    BY <1>6, <1>7 DEF Apart, View
  <1> QED  BY <1>6, <1>7, <1>14, <1>15

\* Drop leaves nothing of an address space and changes no other.
LEMMA Dropped ==
    ASSUME NEW m, Good(m, {}), NEW p \in Procs, NEW n, n = Drop(m, p)
    PROVE  Good(n, {}) /\ n.err = m.err /\ Apart(m, n, p) /\ n.as[p] = NoMm
  <1>1. CASE ~m.as[p].root
    <2>1. n = m
      BY <1>1 DEF Drop
    <2> QED  BY <1>1, <2>1 DEF Good, Sane, Apart
  <1>2. CASE m.as[p].root
    <2> DEFINE l == Fail(m, "ok")
               u == UnmapAll(l, p)
               x == ExitAll(u, p, l.as[p].mmap)
    <2>1. Good(l, {}) /\ l.err = "ok" /\ SamePages(m, l) /\ l.as = m.as
      BY Failed
    <2>2. n = Destroy(x, p, m.err)
      BY <1>2 DEF Drop, exit_mmap, ExitAll, UnmapAll, Destroy
    <2>3. m.err \in {"ok", "nomem", "inval", "panic"}
      BY DEF Good, Memories
    <2> HIDE DEF l
    <2>4. Apart(m, l, p) /\ l.as[p].root
      BY <1>2, <2>1, SamePagesApart
    <2>5. Good(u, {}) /\ u.err = "ok" /\ Apart(l, u, p) /\ SameAreas(l, u, p) /\ Bare(u.as[p])
      BY <2>1, AllUnmapped
    <2>6. Len(l.as[p].mmap) \in Nat /\ DOMAIN l.as[p].mmap = 1 .. Len(l.as[p].mmap)
      BY <2>1, AreasOf
    <2> HIDE DEF u
    <2>7. Good(x, {}) /\ Apart(u, x, p) /\ x.as[p].root /\ Bare(x.as[p])
      BY <2>4, <2>5, <2>6, AllExited DEF SameAreas
    <2> HIDE DEF x
    <2>8. Good(n, {}) /\ n.err = m.err /\ Apart(x, n, p) /\ n.as[p] = NoMm
      BY <2>2, <2>3, <2>7, Destroyed
    <2>9. Apart(m, n, p)
      BY <2>4, <2>5, <2>7, <2>8, ApartTransitive
    <2> QED  BY <2>8, <2>9
  <1> QED  BY <1>1, <1>2

-----------------------------------------------------------------------------
(* The loops that set an address space up.                                 *)

\* Areas are added to the list.
WithAreas(m, p, list) == [m EXCEPT !.as[p].mmap = list]

LEMMA AreasAdded ==
    ASSUME NEW m, Good(m, {}), NEW p \in Procs, m.as[p].root, NEW new \in Seq(Vmas),
           \A i \in DOMAIN m.as[p].mmap : \E j \in DOMAIN new : new[j] = m.as[p].mmap[i],
           NEW n, n = WithAreas(m, p, new)
    PROVE  /\ Good(n, {}) /\ Apart(m, n, p) /\ n.err = m.err
           /\ n.as[p].root /\ n.as[p].mmap = new
           /\ \A v \in VPages : View(n, p, v) = View(m, p, v)
  <1> DEFINE a == m.as[p]
             c == n.as[p]
  <1>1. m \in Memories /\ a \in Spaces /\ Sane(a) /\ m.as \in [Procs -> Spaces]
    BY DEF Good, Memories
  <1>2. /\ n.used = m.used /\ n.tables = m.tables /\ n.ref = m.ref /\ n.content = m.content
        /\ n.err = m.err /\ n.as = [m.as EXCEPT ![p].mmap = new]
    BY <1>1 DEF Memories, WithAreas
  <1>3. \A q \in Procs \ {p} : n.as[q] = m.as[q]
    BY <1>1, <1>2
  <1>4. /\ c \in Spaces /\ c.root = a.root /\ c.pd = a.pd /\ c.pt = a.pt /\ c.pte = a.pte
        /\ c.mmap = new
    <2>1. c = [a EXCEPT !.mmap = new]
      BY <1>1, <1>2
    <2> HIDE DEF a, c
    <2> QED  BY <1>1, <2>1 DEF Spaces, Vmas
  <1>5. n \in Memories
    <2>1. n.as \in [Procs -> Spaces]
      BY <1>1, <1>2, <1>3, <1>4
    <2>2. n = [m EXCEPT !.tables = m.tables, !.as = n.as]
      BY <1>1, <1>2 DEF Memories, WithAreas
    <2>3. m.tables \in Nat
      BY <1>1 DEF Memories
    <2>4. [m EXCEPT !.tables = m.tables, !.as = n.as] \in Memories
      BY <1>1, <2>1, <2>3, TablesReplaced, Zenon
    <2> QED  BY <2>2, <2>4, Zenon
  <1>6. ASSUME NEW q \in Procs  PROVE Sane(n.as[q])
    <2>1. CASE q # p
      BY <1>3, <2>1 DEF Good
    <2>2. CASE q = p
      <3>1. \A v : HasPte(a, v) <=> HasPte(c, v)
        BY <1>4 DEF HasPte
      <3>2. \A v \in VPages : Covered(a, v) => Covered(c, v)
        BY <1>4 DEF Covered
      <3>3. Sane(c)
        BY <1>1, <1>4, <3>1, <3>2 DEF Sane
      <3> QED  BY <2>2, <3>3
    <2> QED  BY <2>1, <2>2
  <1>7. \A q \in Procs : n.as[q].pte = m.as[q].pte /\ TablesOf(n.as[q]) = TablesOf(m.as[q])
    <2>1. TablesOf(c) = TablesOf(a) /\ c.pte = a.pte
      <3> HIDE DEF a, c
      <3> QED  BY <1>4 DEF TablesOf
    <2> QED  BY <1>3, <2>1
  <1>8. Refs(n, {}) /\ OnePage(n) /\ Private(n)
    <2>1. Refs(m, {}) /\ OnePage(m) /\ Private(m)
      BY DEF Good
    <2>2. n.used = m.used /\ n.ref = m.ref /\ \A q \in Procs : n.as[q].pte = m.as[q].pte
      BY <1>2, <1>7
    <2> QED  BY <2>1, <2>2, SamePtesKeep, Zenon
  <1>9. TablesFit(n)
    <2>1. m.tables \in Nat /\ TablesOf(a) \in Nat
      BY <1>1, TablesType DEF Memories
    <2>2. Balanced(m, n, p)
      BY <1>2, <1>7, <2>1 DEF Balanced
    <2> QED  BY <1>1, <1>5, <2>2, TablesKept DEF Good
  <1>10. Good(n, {})
    BY <1>2, <1>5, <1>6, <1>8, <1>9 DEF Good, FramesFit
  <1>11. Apart(m, n, p)
    BY <1>2, <1>3 DEF Apart, View
  <1>12. \A v \in VPages : View(n, p, v) = View(m, p, v)
    BY <1>2, <1>4 DEF View
  <1> QED  BY <1>2, <1>4, <1>10, <1>11, <1>12

\* mm_map adds an area and keeps the others.
LEMMA AreaMapped ==
    ASSUME NEW m, Good(m, {}), m.err = "ok", NEW p \in Procs, m.as[p].root, NEW vma \in Vmas,
           NEW n, n = mm_map(m, p, vma)
    PROVE  /\ Good(n, {}) /\ Apart(m, n, p) /\ n.as[p].root
           /\ n.err = "ok" => \A v \in VPages : Holds(vma, v) => Covered(n.as[p], v)
  <1> DEFINE list == m.as[p].mmap
             next == Min({i \in DOMAIN list : list[i].start > vma.start} \cup {Len(list) + 1})
  <1>1. n = IF \E i \in DOMAIN list : Holds(list[i], vma.start) THEN Fail(m, "inval")
            ELSE IF next \in DOMAIN list /\ vma.end > list[next].start THEN Fail(m, "panic")
            ELSE [m EXCEPT !.as[p].mmap = InsertAt(list, next, vma)]
    BY DEF mm_map
  <1>2. m \in Memories /\ m.as[p] \in Spaces /\ Sane(m.as[p]) /\ m.as \in [Procs -> Spaces]
    BY DEF Good, Memories
  <1>3. list \in Seq(Vmas) /\ Len(list) \in Nat /\ DOMAIN list = 1 .. Len(list)
    BY AreasOf
  <1>4. next \in 1 .. Len(list) + 1
    <2> DEFINE s == {i \in DOMAIN list : list[i].start > vma.start} \cup {Len(list) + 1}
    <2>1. s # {} /\ s \subseteq Nat /\ s \subseteq 1 .. Len(list) + 1
      BY <1>3
    <2> HIDE DEF s
    <2>2. Min(s) \in s
      BY <2>1, MinOfSet
    <2> QED  BY <2>1, <2>2 DEF s
  <1>5. CASE n = Fail(m, "inval") \/ n = Fail(m, "panic")
    <2>1. Good(n, {}) /\ SamePages(m, n) /\ n.err # "ok"
      BY <1>5, Failed
    <2> QED  BY <2>1, SamePagesApart DEF SameAreas
  <1>6. CASE n = [m EXCEPT !.as[p].mmap = InsertAt(list, next, vma)]
    <2> DEFINE new == InsertAt(list, next, vma)
    <2> HIDE DEF next, list
    <2>1. new \in Seq(Vmas)
      BY <1>3, <1>4, InsertAtType
    <2>2. /\ \A i \in DOMAIN list : \E j \in DOMAIN new : new[j] = list[i]
          /\ \E j \in DOMAIN new : new[j] = vma
      BY <1>3, <1>4, InsertAtHolds
    <2> HIDE DEF new
    <2>3. n = WithAreas(m, p, new)
      BY <1>6 DEF WithAreas, new
    <2>4. Good(n, {}) /\ Apart(m, n, p) /\ n.as[p].root /\ n.as[p].mmap = new
      BY <2>1, <2>2, <2>3, AreasAdded DEF list
    <2>5. \A v \in VPages : Holds(vma, v) => Covered(n.as[p], v)
      BY <2>2, <2>4 DEF Covered
    <2> QED  BY <2>4, <2>5
  <1> QED  BY <1>1, <1>5, <1>6

\* setup_pgdir makes a directory, or fails.
LEMMA PgdirSetUp ==
    ASSUME NEW m, Good(m, {}), m.err = "ok", NEW p \in Procs, NEW n, n = setup_pgdir(m, p)
    PROVE  /\ Good(n, {}) /\ Apart(m, n, p) /\ n.err \in {"ok", "nomem"}
           /\ n.err = "ok" => n.as[p].root
           /\ n.err # "ok" => n.as = m.as
           /\ n.as[p].mmap = m.as[p].mmap /\ n.as[p].pte = m.as[p].pte
           /\ n.content = m.content
  <1>1. m \in Memories /\ m.as[p] \in Spaces /\ Sane(m.as[p]) /\ m.as \in [Procs -> Spaces]
        /\ m.tables \in Nat
    BY DEF Good, Memories
  <1>2. CASE Full(m)
    <2>1. n = Fail(m, "nomem")
      BY <1>2 DEF setup_pgdir
    <2>2. Good(n, {}) /\ SamePages(m, n) /\ n.err = "nomem" /\ n.as = m.as
      BY <2>1, Failed
    <2> QED  BY <2>2, SamePagesApart DEF SamePages
  <1>3. CASE ~Full(m)
    <2>1. n = [m EXCEPT !.tables = m.tables + 1, !.as[p].root = TRUE]
      BY <1>3 DEF setup_pgdir
    <2>3. /\ n.used = m.used /\ n.tables = m.tables + 1 /\ n.ref = m.ref /\ n.content = m.content
          /\ n.err = m.err /\ n.as = [m.as EXCEPT ![p].root = TRUE]
      BY <1>1, <2>1 DEF Memories
    <2>4. \A q \in Procs \ {p} : n.as[q] = m.as[q]
      BY <1>1, <2>3
    <2>5. n.as[p] = [m.as[p] EXCEPT !.root = TRUE]
      BY <1>1, <2>3
    <2> DEFINE a == m.as[p]
               c == n.as[p]
    <2>6. /\ c \in Spaces /\ c.root /\ c.pd = a.pd /\ c.pt = a.pt /\ c.pte = a.pte
          /\ c.mmap = a.mmap
      <3> HIDE DEF a, c
      <3>1. c = [a EXCEPT !.root = TRUE] /\ a \in Spaces
        BY <1>1, <2>5 DEF a, c
      <3> QED  BY <3>1 DEF Spaces
    <2>7. n \in Memories
      <3>1. n.as \in [Procs -> Spaces]
        BY <1>1, <2>3, <2>4, <2>6
      <3>2. n = [m EXCEPT !.tables = m.tables + 1, !.as = n.as]
        BY <1>1, <2>1, <2>3 DEF Memories
      <3>3. m.tables + 1 \in Nat
        BY <1>1
      <3>4. [m EXCEPT !.tables = m.tables + 1, !.as = n.as] \in Memories
        BY <1>1, <3>1, <3>3, TablesReplaced, Zenon
      <3> QED  BY <3>2, <3>4, Zenon
    <2>8. ASSUME NEW q \in Procs  PROVE Sane(n.as[q])
      <3>1. CASE q # p
        BY <2>4, <3>1 DEF Good
      <3>2. CASE q = p
        <4>1. \A v : (HasPte(a, v) <=> HasPte(c, v)) /\ (Covered(a, v) <=> Covered(c, v))
          BY <2>6 DEF HasPte, Covered
        <4>2. Sane(c)
          BY <1>1, <2>6, <4>1 DEF Sane
        <4> QED  BY <3>2, <4>2
      <3> QED  BY <3>1, <3>2
    <2>9. \A q \in Procs : n.as[q].pte = m.as[q].pte
      BY <2>4, <2>6
    <2>10. Refs(n, {}) /\ OnePage(n) /\ Private(n)
      BY <2>3, <2>9, SamePtesKeep DEF Good
    <2>11. TablesFit(n)
      <3>1. /\ Cardinality(a.pd) \in Nat
            /\ Cardinality({t \in a.pt : DirOf(t) \in a.pd}) \in Nat
        <4>1. a.pd \subseteq Dirs /\ {t \in a.pt : DirOf(t) \in a.pd} \subseteq Tables
          BY <1>1 DEF Spaces
        <4> QED  BY <4>1, Finite, FS_Subset, FS_CardinalityType
      <3>2. TablesOf(c) <= TablesOf(a) + 1 /\ TablesOf(a) \in Nat /\ TablesOf(c) \in Nat
        BY <2>6, <3>1 DEF TablesOf
      <3>3. \A q \in Procs \ {p} : TablesOf(n.as[q]) = TablesOf(m.as[q])
        BY <2>4
      <3>4. Balanced(m, n, p)
        BY <1>1, <2>3, <3>2, <3>3 DEF Balanced
      <3> QED  BY <1>1, <2>7, <3>4, TablesKept DEF Good
    <2>12. FramesFit(n)
      <3>1. m.tables \in Nat /\ Cardinality(m.used) \in Nat
        BY <1>1, Finite, FS_Subset, FS_CardinalityType DEF Memories
      <3> QED  BY <1>3, <2>3, <3>1, SpaceAssumption DEF FramesFit, Full
    <2>13. Good(n, {})
      BY <2>7, <2>8, <2>10, <2>11, <2>12 DEF Good
    <2>14. Apart(m, n, p)
      BY <2>3, <2>4 DEF Apart, View
    <2> QED  BY <2>3, <2>6, <2>13, <2>14
  <1> QED  BY <1>2, <1>3

\* The pages of an area are allocated, as long as there are frames.
AllocStep(e, n, v) == IF n.err = "ok" THEN pgdir_alloc_page(n, e.p, v, e.w, e.x) ELSE n

AllocInv(e, k, n) ==
    /\ Good(n, {}) /\ Apart(e.m, n, e.p) /\ SameAreas(e.m, n, e.p)
    /\ n.err = "ok" => e.m.err = "ok"

Allocating == INSTANCE SeqLemmas WITH LoopBody <- AllocStep, LoopInv <- AllocInv

AllocAll(m, p, list, w, x) == Each(m, list, LAMBDA n, v : pgdir_alloc_page(n, p, v, w, x))

LEMMA PagesAllocated ==
    ASSUME NEW m, Good(m, {}), NEW p \in Procs, m.as[p].root,
           NEW list, NEW len \in Nat, DOMAIN list = 1 .. len,
           \A i \in 1 .. len : list[i] \in VPages,
           m.err = "ok" => \A i \in 1 .. len : Covered(m.as[p], list[i]),
           NEW w \in BOOLEAN, NEW x \in Values, NEW n, n = AllocAll(m, p, list, w, x)
    PROVE  Good(n, {}) /\ Apart(m, n, p) /\ n.as[p].root
  <1> DEFINE e == [m |-> m, p |-> p, w |-> w, x |-> x]
  <1>1. e.m = m /\ e.p = p /\ e.w = w /\ e.x = x
    OBVIOUS
  <1>2. Allocating!LoopFold(e, m, list) = n
    BY DEF Allocating!LoopFold, Allocating!FoldLeft, Allocating!MapThenFoldSet,
           Allocating!Max, Max, AllocAll, Each, FoldLeft, MapThenFoldSet, AllocStep
  <1> HIDE DEF e
  <1>3. AllocInv(e, 0, m)
    BY <1>1 DEF AllocInv, Apart, SameAreas
  <1>4. ASSUME NEW k \in 1 .. len, NEW u, AllocInv(e, k - 1, u)
        PROVE  AllocInv(e, k, AllocStep(e, u, list[k]))
    <2>1. /\ Good(u, {}) /\ Apart(m, u, p) /\ SameAreas(m, u, p)
          /\ u.err = "ok" => m.err = "ok"
      BY <1>1, <1>4 DEF AllocInv
    <2>2. CASE u.err # "ok"
      BY <1>4, <2>2 DEF AllocInv, AllocStep
    <2>3. CASE u.err = "ok"
      <3> DEFINE t == pgdir_alloc_page(u, p, list[k], w, x)
      <3>1. AllocStep(e, u, list[k]) = t
        BY <1>1, <2>3 DEF AllocStep
      <3>2. u.as[p].root /\ Covered(u.as[p], list[k]) /\ list[k] \in VPages
        BY <2>1, <2>3 DEF SameAreas, Covered
      <3>3. Good(t, {}) /\ t.err \in {"ok", "nomem"} /\ Apart(u, t, p) /\ SameAreas(u, t, p)
        BY <2>1, <2>3, <3>2, PageAllocated
      <3> HIDE DEF t
      <3>4. Apart(m, t, p) /\ SameAreas(m, t, p)
        BY <2>1, <3>3, ApartTransitive DEF SameAreas
      <3> QED  BY <1>1, <2>1, <2>3, <3>1, <3>3, <3>4 DEF AllocInv
    <2> QED  BY <2>2, <2>3
  <1>5. AllocInv(e, len, Allocating!LoopFold(e, m, list))
    BY <1>3, <1>4, Allocating!FoldInvariant
  <1> QED  BY <1>1, <1>2, <1>5 DEF AllocInv, SameAreas

\* A segment is loaded.
LEMMA SegmentLoaded ==
    ASSUME NEW m, Good(m, {}), m.err = "ok", NEW p \in Procs, m.as[p].root, NEW seg \in Segments,
           NEW n, n = LoadSegment(m, p, seg)
    PROVE  Good(n, {}) /\ Apart(m, n, p) /\ n.as[p].root
  <1> DEFINE vma == [start |-> seg.start, end |-> seg.end]
             u == mm_map(m, p, vma)
             len == seg.end - seg.start
             list == Area(seg)
  <1>1. /\ seg.start \in VPages /\ seg.end \in 0 .. TopPage /\ seg.write \in BOOLEAN
        /\ seg.start < seg.end
    BY DEF Segments
  <1>2. seg.start \in Nat /\ seg.end \in Nat /\ len \in Nat /\ seg.end <= TopPage
    BY <1>1, TopPageType
  <1>3. vma \in Vmas
    BY <1>1 DEF Vmas
  <1>4. DOMAIN list = 1 .. len /\ \A i \in 1 .. len : list[i] = seg.start + i - 1
    BY DEF Area
  <1>5. ASSUME NEW i \in 1 .. len
        PROVE  list[i] \in VPages /\ Holds(vma, list[i])
    <2>1. list[i] \in Nat /\ seg.start <= list[i] /\ list[i] < seg.end
      BY <1>2, <1>4
    <2> QED  BY <1>2, <2>1, TopPageType DEF Holds
  <1>6. n = AllocAll(u, p, list, seg.write, 0)
    BY DEF LoadSegment, AllocAll
  <1> HIDE DEF vma, list, len
  <1>7. /\ Good(u, {}) /\ Apart(m, u, p) /\ u.as[p].root
        /\ u.err = "ok" => \A v \in VPages : Holds(vma, v) => Covered(u.as[p], v)
    BY <1>3, AreaMapped
  <1>8. u.err = "ok" => \A i \in 1 .. len : Covered(u.as[p], list[i])
    BY <1>5, <1>7
  <1> HIDE DEF u
  <1>9. 0 \in Values
    BY SpaceAssumption
  <1>10. Good(n, {}) /\ Apart(u, n, p) /\ n.as[p].root
    BY <1>1, <1>2, <1>4, <1>5, <1>6, <1>7, <1>8, <1>9, PagesAllocated DEF len
  <1> QED  BY <1>7, <1>10, ApartTransitive

\* The segments are loaded one after the other.
SegStep(e, n, seg) == IF n.err = "ok" THEN LoadSegment(n, e.p, seg) ELSE n

SegInv(e, k, n) == Good(n, {}) /\ Apart(e.m, n, e.p) /\ n.as[e.p].root

Loading == INSTANCE SeqLemmas WITH LoopBody <- SegStep, LoopInv <- SegInv

LoadAll(m, p, prog) == Each(m, prog, LAMBDA n, seg : LoadSegment(n, p, seg))

LEMMA SegmentsLoaded ==
    ASSUME NEW m, Good(m, {}), NEW p \in Procs, m.as[p].root,
           NEW prog \in Seq(Segments), NEW n, n = LoadAll(m, p, prog)
    PROVE  Good(n, {}) /\ Apart(m, n, p) /\ n.as[p].root
  <1> DEFINE e == [m |-> m, p |-> p]
             len == Len(prog)
  <1>1. e.m = m /\ e.p = p
    OBVIOUS
  <1>2. Loading!LoopFold(e, m, prog) = n
    BY DEF Loading!LoopFold, Loading!FoldLeft, Loading!MapThenFoldSet,
           Loading!Max, Max, LoadAll, Each, FoldLeft, MapThenFoldSet, SegStep
  <1>3. len \in Nat /\ DOMAIN prog = 1 .. len /\ \A k \in 1 .. len : prog[k] \in Segments
    OBVIOUS
  <1> HIDE DEF e, len
  <1>4. SegInv(e, 0, m)
    BY <1>1 DEF SegInv, Apart
  <1>5. ASSUME NEW k \in 1 .. len, NEW u, SegInv(e, k - 1, u)
        PROVE  SegInv(e, k, SegStep(e, u, prog[k]))
    <2>1. Good(u, {}) /\ Apart(m, u, p) /\ u.as[p].root
      BY <1>1, <1>5 DEF SegInv
    <2>2. CASE u.err # "ok"
      BY <1>5, <2>2 DEF SegInv, SegStep
    <2>3. CASE u.err = "ok"
      <3> DEFINE t == LoadSegment(u, p, prog[k])
      <3>1. SegStep(e, u, prog[k]) = t
        BY <1>1, <2>3 DEF SegStep
      <3>2. prog[k] \in Segments
        BY <1>3
      <3>3. Good(t, {}) /\ Apart(u, t, p) /\ t.as[p].root
        BY <2>1, <2>3, <3>2, SegmentLoaded
      <3> HIDE DEF t
      <3>4. Apart(m, t, p)
        BY <2>1, <3>3, ApartTransitive
      <3> QED  BY <1>1, <3>1, <3>3, <3>4 DEF SegInv
    <2> QED  BY <2>2, <2>3
  <1>6. SegInv(e, len, Loading!LoopFold(e, m, prog))
    BY <1>3, <1>4, <1>5, Loading!FoldInvariant
  <1> QED  BY <1>1, <1>2, <1>6 DEF SegInv

\* The stack is allocated below the top; one page of its area stays out.
LEMMA StackLoaded ==
    ASSUME NEW m, Good(m, {}), NEW p \in Procs, m.as[p].root, NEW x \in Values,
           NEW n, n = LoadStack(m, p, x)
    PROVE  Good(n, {}) /\ Apart(m, n, p)
  <1> DEFINE area == [start |-> TopPage - StackPages - 1, end |-> TopPage]
             u == mm_map(m, p, area)
             list == [i \in 1 .. StackPages |-> TopPage - i]
             t == AllocAll(u, p, list, TRUE, x)
  <1>1. CASE m.err # "ok"
    <2>1. n = m
      BY <1>1 DEF LoadStack
    <2> QED  BY <2>1 DEF Apart
  <1>2. CASE m.err = "ok"
    <2>1. n = IF u.err # "ok" THEN u ELSE IF t.err = "nomem" THEN Fail(t, "panic") ELSE t
      BY <1>2 DEF LoadStack, AllocAll
    <2>2. TopPage \in Nat /\ StackPages \in Nat /\ StackPages >= 1 /\ StackPages + 1 <= TopPage
      BY SpaceAssumption, TopPageType
    <2>3. area \in Vmas
      BY <2>2, TopPageType DEF Vmas
    <2>4. DOMAIN list = 1 .. StackPages /\ \A i \in 1 .. StackPages : list[i] = TopPage - i
      OBVIOUS
    <2>5. ASSUME NEW i \in 1 .. StackPages
          PROVE  list[i] \in VPages /\ Holds(area, list[i])
      BY <2>2, <2>4, TopPageType DEF Holds
    <2> HIDE DEF area, list
    <2>6. /\ Good(u, {}) /\ Apart(m, u, p) /\ u.as[p].root
          /\ u.err = "ok" => \A v \in VPages : Holds(area, v) => Covered(u.as[p], v)
      BY <1>2, <2>3, AreaMapped
    <2>7. u.err = "ok" => \A i \in 1 .. StackPages : Covered(u.as[p], list[i])
      BY <2>5, <2>6
    <2> HIDE DEF u
    <2>8. Good(t, {}) /\ Apart(u, t, p)
      BY <2>2, <2>4, <2>5, <2>6, <2>7, PagesAllocated
    <2> HIDE DEF t
    <2> DEFINE y == Fail(t, "panic")
    <2>9. Good(y, {}) /\ SamePages(t, y)
      BY <2>8, Failed
    <2> HIDE DEF y
    <2>10. Apart(t, y, p)
      BY <2>9, SamePagesApart
    <2>11. Apart(m, t, p)
      BY <2>6, <2>8, ApartTransitive
    <2>12. Apart(m, y, p)
      BY <2>10, <2>11, ApartTransitive
    <2>13. n = u \/ n = t \/ n = y
      BY <2>1 DEF y
    <2> QED  BY <2>6, <2>8, <2>9, <2>11, <2>12, <2>13
  <1> QED  BY <1>1, <1>2

\* A program is loaded; if that fails, the process is left without an address space.
LEMMA ProgramLoaded ==
    ASSUME NEW m, Good(m, {}), m.err = "ok", NEW p \in Procs, m.as[p] = NoMm,
           NEW prog \in Programs, NEW x \in Values, NEW n, n = load_icode(m, p, prog, x)
    PROVE  /\ Good(n, {}) /\ Apart(m, n, p)
           /\ n.err \notin {"ok", "panic"} => n.as[p] = NoMm
  <1> DEFINE s == setup_pgdir(m, p)
             t == LoadAll(s, p, prog)
             u == LoadStack(t, p, x)
  <1>1. n = IF s.err # "ok" THEN s ELSE IF u.err \in {"ok", "panic"} THEN u ELSE Drop(u, p)
    BY DEF load_icode, LoadAll
  <1>2. /\ Good(s, {}) /\ Apart(m, s, p)
        /\ s.err = "ok" => s.as[p].root
        /\ s.err # "ok" => s.as = m.as
    BY PgdirSetUp
  <1>3. prog \in Seq(Segments)
    BY SpaceAssumption
  <1> HIDE DEF s
  <1>4. CASE s.err # "ok"
    <2>1. n = s
      BY <1>1, <1>4
    <2> QED  BY <1>2, <1>4, <2>1
  <1>5. CASE s.err = "ok"
    <2>1. Good(t, {}) /\ Apart(s, t, p) /\ t.as[p].root
      BY <1>2, <1>3, <1>5, SegmentsLoaded
    <2> HIDE DEF t
    <2>2. Good(u, {}) /\ Apart(t, u, p)
      BY <2>1, StackLoaded
    <2> HIDE DEF u
    <2>3. Apart(s, u, p)
      BY <2>1, <2>2, ApartTransitive
    <2>4. Apart(m, u, p)
      BY <1>2, <2>3, ApartTransitive
    <2>5. CASE u.err \in {"ok", "panic"}
      <3>1. n = u
        BY <1>1, <1>5, <2>5
      <3> QED  BY <2>2, <2>4, <2>5, <3>1
    <2>6. CASE u.err \notin {"ok", "panic"}
      <3>1. n = Drop(u, p)
        BY <1>1, <1>5, <2>6
      <3>2. Good(n, {}) /\ Apart(u, n, p) /\ n.as[p] = NoMm
        BY <2>2, <3>1, Dropped
      <3> QED  BY <2>4, <3>2, ApartTransitive
    <2> QED  BY <2>5, <2>6
  <1> QED  BY <1>4, <1>5

-----------------------------------------------------------------------------
(* fork.                                                                   *)

\* What every process has is the same, page by page.
SameViews(m, n) ==
    \A q \in Procs :
        /\ n.as[q].root = m.as[q].root /\ n.as[q].mmap = m.as[q].mmap
        /\ \A v \in VPages : View(n, q, v) = View(m, q, v)

\* A frame that nothing refers to is allocated.
WithLost(m) == [m EXCEPT !.tables = m.tables + 1]

LEMMA FrameLost ==
    ASSUME NEW m, Good(m, {}), ~Full(m), NEW n, n = WithLost(m)
    PROVE  Good(n, {}) /\ SamePages(m, n) /\ n.err = m.err /\ n.as = m.as
  <1>1. m \in Memories /\ m.tables \in Nat /\ m.as \in [Procs -> Spaces]
    BY DEF Good, Memories
  <1>2. /\ n.used = m.used /\ n.ref = m.ref /\ n.content = m.content /\ n.err = m.err
        /\ n.as = m.as /\ n.tables = m.tables + 1
    BY <1>1 DEF WithLost, Memories
  <1>3. n \in Memories
    <2>1. n = [m EXCEPT !.tables = m.tables + 1, !.as = m.as]
      BY <1>1 DEF WithLost, Memories
    <2>2. m.tables + 1 \in Nat
      BY <1>1
    <2>3. [m EXCEPT !.tables = m.tables + 1, !.as = m.as] \in Memories
      BY <1>1, <2>2, TablesReplaced, Zenon
    <2> QED  BY <2>1, <2>3, Zenon
  <1>4. SamePages(m, n)
    BY <1>2 DEF SamePages
  <1>5. Refs(n, {}) /\ OnePage(n) /\ Private(n)
    BY <1>4, SamePagesKeep DEF Good
  <1>6. TablesFit(n)
    <2> DEFINE f == [q \in Procs |-> TablesOf(m.as[q])]
    <2>1. \A q \in Procs : f[q] \in Nat
      BY <1>1, TablesType
    <2>2. m.tables >= SumFunctionOnSet(f, Procs)
      BY DEF Good, TablesFit
    <2>3. f = [q \in Procs |-> TablesOf(n.as[q])]
      BY <1>2
    <2> HIDE DEF f
    <2>4. SumFunctionOnSet(f, Procs) \in Nat
      BY <2>1, Finite, SumOfNats
    <2>5. n.tables >= SumFunctionOnSet(f, Procs)
      BY <1>1, <1>2, <2>2, <2>4
    <2> QED  BY <2>3, <2>5 DEF TablesFit
  <1>7. FramesFit(n)
    <2>1. Cardinality(m.used) \in Nat
      BY <1>1, Finite, FS_Subset, FS_CardinalityType DEF Memories
    <2> QED  BY <1>1, <1>2, <2>1, SpaceAssumption DEF FramesFit, Full
  <1> QED  BY <1>2, <1>3, <1>4, <1>5, <1>6, <1>7 DEF Good

\* The marks of an entry change: write only if nobody else has the frame.
Remark(m, p, v, e) == [m EXCEPT !.as[p].pte[v] = e]

LEMMA EntryRemarked ==
    ASSUME NEW m, Good(m, {}), NEW p \in Procs, NEW v \in VPages, NEW e \in Ptes,
           e.frame = m.as[p].pte[v].frame, e.frame # NULL,
           e.w => \A q \in Procs \ {p} : m.as[q].pte[v].frame # e.frame,
           NEW n, n = Remark(m, p, v, e)
    PROVE  /\ Good(n, {}) /\ SameViews(m, n) /\ n.err = m.err /\ n.as[p].pte[v] = e
           /\ \A q \in Procs, w \in VPages : n.as[q].pte[w].frame = m.as[q].pte[w].frame
           /\ \A q \in Procs \ {p} : n.as[q] = m.as[q]
  <1>1. m \in Memories
    BY DEF Good
  <1>2. /\ n \in Memories /\ n.used = m.used /\ n.tables = m.tables /\ n.ref = m.ref
        /\ n.content = m.content /\ n.err = m.err
        /\ Entered(m, n, p, v, e)
    BY <1>1, EntrySet DEF Remark
  <1>3. m.as[p].root /\ HasPte(m.as[p], v) /\ Covered(m.as[p], v)
    BY MappedFrame
  <1>4. ASSUME NEW q \in Procs, NEW w \in VPages, m.as[q].pte[w].frame = e.frame
        PROVE  w = v
    BY <1>4 DEF Good, OnePage
  <1>5. ASSUME NEW q \in Procs \ {p}, m.as[q].pte[v].frame = e.frame
        PROVE  ~e.w /\ ~m.as[q].pte[v].w
    BY <1>5 DEF Good, Private
  <1>6. Fits(m, p, v, e)
    BY <1>3, <1>4, <1>5 DEF Fits
  <1>7. /\ \A q \in Procs : Sane(n.as[q])
        /\ OnePage(n) /\ Private(n) /\ TablesFit(n)
    BY <1>2, <1>6, EnteredSound
  <1>8. \A q \in Procs, w \in VPages : n.as[q].pte[w].frame = m.as[q].pte[w].frame
    BY <1>2 DEF Entered
  <1>9. Refs(n, {})
    <2>1. \A f : At(n, f) = At(m, f)
      BY <1>8 DEF At
    <2> QED  BY <1>2, <2>1 DEF Good, Refs
  <1>10. FramesFit(n)
    BY <1>2 DEF Good, FramesFit
  <1>11. SameViews(m, n)
    BY <1>2, <1>8 DEF SameViews, View, Entered
  <1>12. n.as[p].pte[v] = e /\ \A q \in Procs \ {p} : n.as[q] = m.as[q]
    BY <1>2 DEF Entered
  <1> QED  BY <1>2, <1>7, <1>8, <1>9, <1>10, <1>11, <1>12 DEF Good

\* A page that is made for c shows what its frame holds; every other page is as it was.
Shows(m, n, c, v, x) ==
    /\ \A q \in Procs : n.as[q].root = m.as[q].root /\ n.as[q].mmap = m.as[q].mmap
    /\ \A q \in Procs, w \in VPages : q # c \/ w # v => View(n, q, w) = View(m, q, w)
    /\ View(n, c, v) = x

LEMMA EntryShows ==
    ASSUME NEW m, NEW n, Good(n, {}), NEW c \in Procs, NEW v \in VPages, NEW e, e.frame # NULL,
           PageSet(m, n, c, v, e)
    PROVE  Shows(m, n, c, v, m.content[e.frame])
  <1>1. n.as[c].pte[v].frame = e.frame
    BY DEF PageSet
  <1>2. e.frame \in n.used
    BY <1>1, MappedFrame
  <1>3. View(n, c, v) = m.content[e.frame]
    BY <1>1, <1>2 DEF View, PageSet
  <1>4. \A q \in Procs, w \in VPages : q # c \/ w # v => View(n, q, w) = View(m, q, w)
    BY PageSetView
  <1> QED  BY <1>3, <1>4 DEF Shows, PageSet

\* page_insert on a page whose table is there, seen from the processes.
LEMMA InsertedShows ==
    ASSUME NEW m, NEW f, NEW X, X \subseteq {f}, Good(m, X), f \in m.used,
           NEW c \in Procs, NEW v \in VPages, NEW w \in BOOLEAN, NEW cow \in BOOLEAN,
           HasPte(m.as[c], v), Mappable(m, c, f, v, w), m.err = "ok",
           NEW n, n = page_insert(m, c, f, v, w, cow)
    PROVE  Good(n, {}) /\ n.err = "ok" /\ Shows(m, n, c, v, m.content[f])
  <1> DEFINE e == [frame |-> f, w |-> w, cow |-> cow]
  <1>1. Good(n, {}) /\ PageSet(m, n, c, v, e) /\ n.err = "ok"
    BY EntryInserted
  <1>2. e.frame = f /\ f # NULL
    <2>1. f \in Frames
      BY DEF Good, Memories
    <2> QED  BY <2>1, SpaceAssumption DEF Frames, NULL
  <1> HIDE DEF e
  <1> QED  BY <1>1, <1>2, EntryShows

LEMMA ShowsAfter ==
    ASSUME NEW l, NEW m, NEW n, SameViews(l, m), NEW c \in Procs, NEW v \in VPages, NEW x,
           Shows(m, n, c, v, x)
    PROVE  Shows(l, n, c, v, x)
  BY DEF SameViews, Shows

\* A shared page: both processes have the frame, and neither writes to it.
LEMMA PageShared ==
    ASSUME NEW m, Good(m, {}), m.err = "ok", NEW p \in Procs, NEW c \in Procs \ {p}, NEW v \in VPages,
           m.as[p].pte[v].frame # NULL, HasPte(m.as[c], v), m.as[c].root, Covered(m.as[c], v),
           NEW n, n = Shared(m, p, c, v)
    PROVE  Good(n, {}) /\ n.err = "ok" /\ Shows(m, n, c, v, View(m, p, v))
  <1> DEFINE pte == m.as[p].pte[v]
             e == [pte EXCEPT !.w = FALSE, !.cow = TRUE]
             l == IF pte.w THEN Remark(m, p, v, e) ELSE m
             f == pte.frame
  <1>1. n = page_insert(l, c, f, v, FALSE, pte.w)
    BY DEF Shared, Remark
  <1>2. pte \in Ptes /\ f \in Frames /\ f \in m.used
    <2>1. m.as[p].pte \in [VPages -> Ptes]
      BY DEF Good, Memories, Spaces, Ptes
    <2> QED  BY <2>1, MappedFrame
  <1>3. e \in Ptes /\ e.frame = f /\ ~e.w
    BY <1>2 DEF Ptes
  <1>4. /\ Good(l, {}) /\ SameViews(m, l) /\ l.err = "ok" /\ ~l.as[p].pte[v].w
        /\ l.as[p].pte[v].frame = f /\ l.as[c] = m.as[c]
    <2>1. CASE pte.w
      <3> DEFINE k == Remark(m, p, v, e)
      <3> HIDE DEF e
      <3>1. /\ Good(k, {}) /\ SameViews(m, k) /\ k.err = m.err /\ k.as[p].pte[v] = e
            /\ \A q \in Procs \ {p} : k.as[q] = m.as[q]
        BY <1>3, EntryRemarked
      <3>2. l = k
        BY <2>1
      <3> HIDE DEF l, k
      <3> QED  BY <1>3, <3>1, <3>2
    <2>2. CASE ~pte.w
      <3>1. l = m
        BY <2>2
      <3> HIDE DEF l
      <3> QED  BY <2>2, <3>1 DEF SameViews
    <2> QED  BY <2>1, <2>2
  <1> HIDE DEF l
  <1>5. f # NULL /\ f \in l.used
    BY <1>4, MappedFrame
  <1>6. ASSUME NEW q \in Procs, NEW x \in VPages, l.as[q].pte[x].frame = f  PROVE x = v
    BY <1>4, <1>5, <1>6 DEF Good, OnePage
  <1>7. ASSUME NEW q \in Procs \ {c}, l.as[q].pte[v].frame = f  PROVE ~l.as[q].pte[v].w
    <2> SUFFICES ASSUME l.as[q].pte[v].w  PROVE FALSE
      OBVIOUS
    <2>1. q = p
      BY <1>4, <1>7 DEF Good, Private
    <2> QED  BY <1>4, <2>1
  <1>8. Mappable(l, c, f, v, FALSE)
    BY <1>4, <1>6, <1>7 DEF Mappable
  <1>9. pte.w \in BOOLEAN
    BY <1>2 DEF Ptes
  <1>10. Good(n, {}) /\ n.err = "ok" /\ Shows(l, n, c, v, l.content[f])
    <2> DEFINE cow == pte.w
               X == {}
               w == FALSE
    <2>1. X \subseteq {f} /\ HasPte(l.as[c], v) /\ c \in Procs /\ w \in BOOLEAN
          /\ Mappable(l, c, f, v, w) /\ Good(l, X)
      BY <1>4, <1>8
    <2>2. cow \in BOOLEAN /\ n = page_insert(l, c, f, v, w, cow)
      BY <1>1, <1>9
    <2> HIDE DEF f, cow, X, w
    <2> QED  BY <1>4, <1>5, <2>1, <2>2, InsertedShows
  <1>11. l.content[f] = View(m, p, v)
    <2>1. View(l, p, v) = View(m, p, v)
      BY <1>4 DEF SameViews
    <2> QED  BY <1>4, <1>5, <2>1 DEF View
  <1> QED  BY <1>4, <1>10, <1>11, ShowsAfter

\* A frame of its own: page v of c gets the frame f that was filled with x.
LEMMA FrameMapped ==
    ASSUME NEW m, m.err = "ok", NEW l, NEW f, NEW x, WithFrame(m, l, f, x),
           NEW c \in Procs, NEW v \in VPages,
           HasPte(m.as[c], v), m.as[c].root, Covered(m.as[c], v),
           NEW w \in BOOLEAN, NEW cow \in BOOLEAN, NEW n, n = page_insert(l, c, f, v, w, cow)
    PROVE  Good(n, {}) /\ n.err = "ok" /\ Shows(m, n, c, v, x)
  <1>1. /\ Good(l, {f}) /\ f \in Frames /\ f \in l.used /\ l.as = m.as /\ l.err = "ok"
        /\ l.content[f] = x
    BY DEF WithFrame
  <1>2. SameViews(m, l)
    BY DEF WithFrame, SameViews
  <1>3. Mappable(l, c, f, v, w) /\ HasPte(l.as[c], v)
    <2>1. \A q \in Procs, y \in VPages : l.as[q].pte[y].frame # f
      BY DEF WithFrame
    <2> QED  BY <1>1, <2>1 DEF Mappable
  <1>4. Good(n, {}) /\ n.err = "ok" /\ Shows(l, n, c, v, l.content[f])
    <2> DEFINE X == {f}
    <2>1. X \subseteq {f} /\ Good(l, X)
      BY <1>1
    <2> HIDE DEF X
    <2> QED  BY <1>1, <1>3, <2>1, InsertedShows
  <1> QED  BY <1>1, <1>2, <1>4, ShowsAfter

LEMMA SamePagesViews ==
    ASSUME NEW m, NEW n, SamePages(m, n)
    PROVE  SameViews(m, n)
  BY DEF SamePages, SameViews, View

LEMMA SameViewsTransitive ==
    ASSUME NEW l, NEW m, NEW n, SameViews(l, m), SameViews(m, n)
    PROVE  SameViews(l, n)
  BY DEF SameViews

\* Page v of p is copied to c, or an error leaves all pages as they are.
CopiedOr(m, n, p, c, v) ==
    /\ Good(n, {})
    /\ \/ n.err # "ok" /\ SameViews(m, n)
       \/ n.err = "ok" /\ Shows(m, n, c, v, View(m, p, v))

LEMMA PageCopied ==
    ASSUME NEW m, Good(m, {}), m.err = "ok", NEW p \in Procs, NEW c \in Procs \ {p}, NEW v \in VPages,
           m.as[p].pte[v].frame # NULL, m.as[c].root, Covered(m.as[c], v),
           NEW n, n = CopyPage(m, p, c, v)
    PROVE  CopiedOr(m, n, p, c, v)
  <1> DEFINE l == get_pte(m, c, v)
             f == alloc_page(l)
             pte == m.as[p].pte[v]
             y == Fail(l, "panic")
             k == WithLost(l)
             s == Shared(k, p, c, v)
             x == l.content[pte.frame]
             t == page_insert(Taken(l, f, x), c, f, v, pte.w, FALSE)
  <1>1. n = IF l.err # "ok" THEN l ELSE IF Full(l) THEN y ELSE IF share THEN s ELSE t
    BY DEF CopyPage, WithLost
  <1>2. /\ Good(l, {}) /\ SamePages(m, l)
        /\ l.err = "ok" => HasPte(l.as[c], v)
    BY GotPte
  <1>3. SameViews(m, l)
    BY <1>2, SamePagesViews
  <1>4. pte \in Ptes /\ pte.frame \in Frames /\ pte.frame # NULL
    <2>1. m.as[p].pte \in [VPages -> Ptes]
      BY DEF Good, Memories, Spaces, Ptes
    <2> QED  BY <2>1, MappedFrame
  <1>5. /\ l.as[p].pte[v] = pte /\ l.as[c].root /\ Covered(l.as[c], v) /\ l.content = m.content
    BY <1>2 DEF SamePages, Covered
  <1>6. View(m, p, v) = x
    BY <1>4, <1>5 DEF View
  <1> HIDE DEF l, y, s, t
  <1>7. CASE l.err # "ok"
    BY <1>1, <1>2, <1>3, <1>7 DEF CopiedOr
  <1>8. CASE l.err = "ok" /\ Full(l)
    <2>1. Good(y, {}) /\ SamePages(l, y) /\ y.err = "panic"
      BY <1>2, Failed DEF y
    <2>2. SameViews(m, y)
      BY <1>3, <2>1, SamePagesViews, SameViewsTransitive
    <2> QED  BY <1>1, <1>8, <2>1, <2>2 DEF CopiedOr
  <1>9. CASE l.err = "ok" /\ ~Full(l) /\ share
    <2>1. Good(k, {}) /\ SamePages(l, k) /\ k.err = l.err /\ k.as = l.as
      BY <1>2, <1>9, FrameLost
    <2> HIDE DEF k
    <2>2. SameViews(m, k)
      BY <1>3, <2>1, SamePagesViews, SameViewsTransitive
    <2>3. Good(s, {}) /\ s.err = "ok" /\ Shows(k, s, c, v, View(k, p, v))
      BY <1>2, <1>4, <1>5, <1>9, <2>1, PageShared DEF s
    <2>4. View(k, p, v) = View(m, p, v)
      BY <2>2 DEF SameViews
    <2>5. Shows(m, s, c, v, View(m, p, v))
      BY <2>2, <2>3, <2>4, ShowsAfter
    <2> QED  BY <1>1, <1>9, <2>3, <2>5 DEF CopiedOr
  <1>10. CASE l.err = "ok" /\ ~Full(l) /\ ~share
    <2> DEFINE u == Taken(l, f, x)
               w == pte.w
               cow == FALSE
    <2>1. x \in Values
      BY <1>2, <1>4 DEF Good, Memories
    <2>2. w \in BOOLEAN /\ cow \in BOOLEAN
      BY <1>4 DEF Ptes
    <2>3. t = page_insert(u, c, f, v, w, cow)
      BY DEF t
    <2> HIDE DEF x, w, cow
    <2>4. WithFrame(l, u, f, x)
      <3> HIDE DEF u, f
      <3> QED  BY <1>2, <1>10, <2>1, Allocated DEF u, f
    <2> HIDE DEF u, f
    <2>5. Good(t, {}) /\ t.err = "ok" /\ Shows(l, t, c, v, x)
      BY <1>2, <1>5, <1>10, <2>2, <2>3, <2>4, FrameMapped
    <2>6. Shows(m, t, c, v, View(m, p, v))
      BY <1>3, <1>6, <2>5, ShowsAfter
    <2> QED  BY <1>1, <1>10, <2>5, <2>6 DEF CopiedOr
  <1> QED  BY <1>7, <1>8, <1>9, <1>10

\* While fork copies m to c: the other processes have what they had, and every page of c
\* is still missing or as that of p.
Forking(m, n, p, c) ==
    /\ Good(n, {}) /\ Apart(m, n, c) /\ n.as[c].root
    /\ \A v \in VPages : View(n, c, v) \in {NULL, View(m, p, v)}

LEMMA ForkingStep ==
    ASSUME NEW m, NEW p \in Procs, NEW c \in Procs \ {p}, NEW l, Forking(m, l, p, c),
           NEW n, NEW v \in VPages, CopiedOr(l, n, p, c, v)
    PROVE  /\ Forking(m, n, p, c) /\ n.as[c].mmap = l.as[c].mmap
           /\ n.err = "ok" => /\ View(n, c, v) = View(m, p, v)
                              /\ \A w \in VPages : View(l, c, w) = View(m, p, w) =>
                                                       View(n, c, w) = View(m, p, w)
  <1>1. Good(n, {}) /\ Apart(m, l, c) /\ l.as[c].root
    BY DEF Forking, CopiedOr
  <1>2. View(l, p, v) = View(m, p, v)
    BY <1>1 DEF Apart
  <1>3. CASE n.err # "ok" /\ SameViews(l, n)
    <2>1. Apart(m, n, c)
      BY <1>1, <1>3 DEF Apart, SameViews
    <2> QED  BY <1>1, <1>3, <2>1 DEF Forking, SameViews
  <1>4. CASE n.err = "ok" /\ Shows(l, n, c, v, View(l, p, v))
    <2>1. Apart(m, n, c)
      BY <1>1, <1>4 DEF Apart, Shows
    <2>2. View(n, c, v) = View(m, p, v) /\ n.as[c].root /\ n.as[c].mmap = l.as[c].mmap
      BY <1>1, <1>2, <1>4 DEF Shows
    <2>3. \A w \in VPages : w # v => View(n, c, w) = View(l, c, w)
      BY <1>4 DEF Shows
    <2>4. \A w \in VPages : View(l, c, w) \in {NULL, View(m, p, w)}
      BY DEF Forking
    <2>5. \A w \in VPages : View(n, c, w) \in {NULL, View(m, p, w)}
      BY <2>2, <2>3, <2>4
    <2>6. \A w \in VPages : View(l, c, w) = View(m, p, w) => View(n, c, w) = View(m, p, w)
      BY <2>2, <2>3
    <2> QED  BY <1>1, <2>1, <2>2, <2>5, <2>6 DEF Forking
  <1> QED  BY <1>3, <1>4 DEF CopiedOr

\* The pages of the area are copied; e holds the memory before fork and before the loop.
CopyStep(e, n, v) ==
    IF n.err = "ok" THEN IF Mapped(n.as[e.p], v) THEN CopyPage(n, e.p, e.c, v) ELSE n ELSE n

CopyInv(e, k, n) ==
    /\ Forking(e.m, n, e.p, e.c) /\ n.as[e.c].mmap = e.l.as[e.c].mmap
    /\ n.err = "ok" =>
           \A v \in VPages :
               \/ View(e.l, e.c, v) = View(e.m, e.p, v)
               \/ e.vma.start <= v /\ v < e.vma.start + k
               => View(n, e.c, v) = View(e.m, e.p, v)

Copying == INSTANCE SeqLemmas WITH LoopBody <- CopyStep, LoopInv <- CopyInv

LEMMA RangeCopied ==
    ASSUME NEW m, NEW p \in Procs, NEW c \in Procs \ {p}, NEW l, Forking(m, l, p, c), l.err = "ok",
           NEW vma \in Vmas, \A v \in VPages : Holds(vma, v) => Covered(l.as[c], v),
           NEW n, n = copy_range(l, p, c, vma)
    PROVE  /\ Forking(m, n, p, c)
           /\ n.err = "ok" =>
                  \A v \in VPages : View(l, c, v) = View(m, p, v) \/ Holds(vma, v) =>
                                        View(n, c, v) = View(m, p, v)
  <1> DEFINE e == [m |-> m, l |-> l, p |-> p, c |-> c, vma |-> vma]
             list == Area(vma)
             len == IF vma.start < vma.end THEN vma.end - vma.start ELSE 0
  <1>1. e.m = m /\ e.l = l /\ e.p = p /\ e.c = c /\ e.vma = vma
    OBVIOUS
  <1>2. Copying!LoopFold(e, l, list) = n
    BY DEF Copying!LoopFold, Copying!FoldLeft, Copying!MapThenFoldSet,
           Copying!Max, Max, copy_range, Each, FoldLeft, MapThenFoldSet, CopyStep
  <1>3. vma.start \in Nat /\ vma.end \in Nat /\ vma.end <= TopPage /\ len \in Nat
    BY TopPageType DEF Vmas
  <1>4. DOMAIN list = 1 .. len /\ \A k \in 1 .. len : list[k] = vma.start + k - 1
    BY <1>3 DEF Area
  <1> HIDE DEF e, list
  <1>5. CopyInv(e, 0, l)
    BY <1>1, <1>3, TopPageType DEF CopyInv
  <1>6. ASSUME NEW k \in 1 .. len, NEW u, CopyInv(e, k - 1, u)
        PROVE  CopyInv(e, k, CopyStep(e, u, list[k]))
    <2> DEFINE v == list[k]
    <2>1. v = vma.start + k - 1 /\ v \in VPages /\ Holds(vma, v) /\ k \in Nat /\ k >= 1
      <3>1. v = vma.start + k - 1 /\ k \in Nat /\ k >= 1
        BY <1>4
      <3>2. v \in Nat /\ vma.start <= v /\ v < vma.end
        BY <1>3, <3>1
      <3> QED  BY <1>3, <3>1, <3>2, TopPageType DEF Holds
    <2> HIDE DEF v
    <2>2. /\ Forking(m, u, p, c) /\ u.as[c].mmap = l.as[c].mmap
          /\ u.err = "ok" =>
                 \A w \in VPages :
                     View(l, c, w) = View(m, p, w) \/ (vma.start <= w /\ w < vma.start + (k - 1))
                         => View(u, c, w) = View(m, p, w)
      BY <1>1, <1>6 DEF CopyInv
    <2> DEFINE t == CopyStep(e, u, v)
    <2> SUFFICES /\ Forking(m, t, p, c) /\ t.as[c].mmap = u.as[c].mmap
                 /\ t.err = "ok" => /\ u.err = "ok" /\ View(t, c, v) = View(m, p, v)
                                    /\ \A w \in VPages : View(u, c, w) = View(m, p, w) =>
                                                             View(t, c, w) = View(m, p, w)
      <3> HIDE DEF t
      <3>1. ASSUME NEW w \in VPages, vma.start <= w, w < vma.start + k, w # v
            PROVE  vma.start <= w /\ w < vma.start + (k - 1)
        <4>1. w \in Nat
          BY TopPageType
        <4> QED  BY <1>3, <2>1, <3>1, <4>1
      <3>2. ASSUME t.err = "ok", NEW w \in VPages,
                   View(l, c, w) = View(m, p, w) \/ (vma.start <= w /\ w < vma.start + k)
            PROVE  View(t, c, w) = View(m, p, w)
        BY <2>2, <3>1, <3>2
      <3>3. CopyInv(e, k, t)
        BY <1>1, <2>2, <3>2 DEF CopyInv
      <3> QED  BY <3>3 DEF t, v
    <2>3. CASE u.err # "ok"
      <3>1. t = u
        BY <2>3 DEF CopyStep
      <3> QED  BY <2>2, <2>3, <3>1
    <2>4. Good(u, {}) /\ Apart(m, u, c) /\ u.as[c].root
      BY <2>2 DEF Forking
    <2>5. CASE u.err = "ok" /\ ~Mapped(u.as[p], v)
      <3>1. t = u
        BY <1>1, <2>5 DEF CopyStep
      <3>2. View(u, p, v) = NULL
        BY <2>1, <2>4, <2>5 DEF Good, Sane, Mapped, View
      <3>3. View(m, p, v) = NULL
        BY <2>1, <2>4, <3>2 DEF Apart
      <3>4. View(u, c, v) = View(m, p, v)
        BY <2>1, <2>2, <3>3 DEF Forking
      <3> HIDE DEF t
      <3> QED  BY <2>2, <2>5, <3>1, <3>4
    <2>6. CASE u.err = "ok" /\ Mapped(u.as[p], v)
      <3>1. t = CopyPage(u, p, c, v)
        BY <1>1, <2>6 DEF CopyStep
      <3>2. u.as[p].pte[v].frame # NULL /\ Covered(u.as[c], v)
        BY <2>1, <2>2, <2>6 DEF Mapped, Covered
      <3> HIDE DEF t
      <3>3. CopiedOr(u, t, p, c, v)
        BY <2>1, <2>4, <2>6, <3>1, <3>2, PageCopied
      <3> QED  BY <2>1, <2>2, <2>6, <3>3, ForkingStep
    <2> QED  BY <2>3, <2>5, <2>6
  <1> HIDE DEF len
  <1>7. CopyInv(e, len, Copying!LoopFold(e, l, list))
    BY <1>3, <1>4, <1>5, <1>6, Copying!FoldInvariant
  <1>8. ASSUME NEW v \in VPages, Holds(vma, v)
        PROVE  vma.start <= v /\ v < vma.start + len
    <2>1. v \in Nat
      BY TopPageType
    <2> QED  BY <1>3, <1>8, <2>1 DEF Holds, len
  <1> QED  BY <1>1, <1>2, <1>7, <1>8 DEF CopyInv

\* The areas are copied one after the other.
AreaCopied(n, p, c, vma) == copy_range(WithAreas(n, c, <<vma>> \o n.as[c].mmap), p, c, vma)

DupStep(e, n, vma) == IF n.err = "ok" THEN AreaCopied(n, e.p, e.c, vma) ELSE n

DupInv(e, k, n) ==
    /\ Forking(e.m, n, e.p, e.c)
    /\ n.err = "ok" =>
           \A i \in 1 .. k, v \in VPages :
               Holds(e.list[i], v) => View(n, e.c, v) = View(e.m, e.p, v)

Dup == INSTANCE SeqLemmas WITH LoopBody <- DupStep, LoopInv <- DupInv

\* One turn of dup_mmap: what is copied already stays.
LEMMA OneAreaCopied ==
    ASSUME NEW m, NEW p \in Procs, NEW c \in Procs \ {p}, NEW l, Forking(m, l, p, c), l.err = "ok",
           NEW vma \in Vmas, NEW n, n = AreaCopied(l, p, c, vma)
    PROVE  /\ Forking(m, n, p, c)
           /\ n.err = "ok" =>
                  \A v \in VPages : View(l, c, v) = View(m, p, v) \/ Holds(vma, v) =>
                                        View(n, c, v) = View(m, p, v)
  <1> DEFINE old == l.as[c].mmap
             new == <<vma>> \o old
             u == WithAreas(l, c, new)
  <1>1. Good(l, {}) /\ Apart(m, l, c) /\ l.as[c].root
    BY DEF Forking
  <1>2. /\ old \in Seq(Vmas) /\ Len(old) \in Nat /\ DOMAIN old = 1 .. Len(old)
    BY <1>1, AreasOf
  <1>3. /\ new \in Seq(Vmas) /\ DOMAIN new = 1 .. Len(old) + 1 /\ new[1] = vma
        /\ \A i \in 1 .. Len(old) : new[i + 1] = old[i]
    <2> HIDE DEF old
    <2> QED  BY <1>2
  <1>4. n = copy_range(u, p, c, vma)
    BY DEF AreaCopied
  <1> HIDE DEF new, old, u
  <1>5. \A i \in DOMAIN old : \E j \in DOMAIN new : new[j] = old[i]
    BY <1>2, <1>3
  <1>6. /\ Good(u, {}) /\ Apart(l, u, c) /\ u.err = l.err /\ u.as[c].root /\ u.as[c].mmap = new
        /\ \A v \in VPages : View(u, c, v) = View(l, c, v)
    BY <1>1, <1>3, <1>5, AreasAdded DEF u, old
  <1>7. Apart(m, u, c)
    BY <1>1, <1>6, ApartTransitive
  <1>8. Forking(m, u, p, c)
    BY <1>6, <1>7 DEF Forking
  <1>9. \A v \in VPages : Holds(vma, v) => Covered(u.as[c], v)
    <2>1. 1 \in DOMAIN new
      BY <1>2, <1>3
    <2> QED  BY <1>3, <1>6, <2>1 DEF Covered
  <1>10. /\ Forking(m, n, p, c)
         /\ n.err = "ok" =>
                \A v \in VPages : View(u, c, v) = View(m, p, v) \/ Holds(vma, v) =>
                                      View(n, c, v) = View(m, p, v)
    BY <1>4, <1>6, <1>8, <1>9, RangeCopied
  <1> QED  BY <1>6, <1>10

\* Every page of p is in an area, so every page is copied.
LEMMA AreasDuplicated ==
    ASSUME NEW m, Good(m, {}), m.err = "ok", NEW p \in Procs, NEW c \in Procs \ {p}, m.as[c].root,
           \A v \in VPages : View(m, c, v) = NULL, NEW n, n = dup_mmap(m, p, c)
    PROVE  /\ Forking(m, n, p, c)
           /\ n.err = "ok" => \A v \in VPages : View(n, c, v) = View(m, p, v)
  <1> DEFINE areas == m.as[p].mmap
             list == Reverse(areas)
             len == Len(areas)
             e == [m |-> m, p |-> p, c |-> c, list |-> list]
  <1>1. e.m = m /\ e.p = p /\ e.c = c /\ e.list = list
    OBVIOUS
  <1>2. Dup!LoopFold(e, m, list) = n
    <2> HIDE DEF areas
    <2>1. n = FoldLeft(LAMBDA u, vma : IF u.err = "ok" THEN AreaCopied(u, p, c, vma) ELSE u, m, list)
      BY DEF dup_mmap, Each, AreaCopied, WithAreas, areas
    <2> QED  BY <2>1 DEF Dup!LoopFold, Dup!FoldLeft, Dup!MapThenFoldSet, Dup!Max, Max,
                         FoldLeft, MapThenFoldSet, DupStep
  <1>3. len \in Nat /\ DOMAIN areas = 1 .. len /\ \A i \in 1 .. len : areas[i] \in Vmas
    BY AreasOf
  <1>4. DOMAIN list = 1 .. len /\ \A i \in 1 .. len : list[i] = areas[(len - i) + 1]
    BY DEF Reverse
  <1> HIDE DEF areas, list, len, e
  <1>5. ASSUME NEW i \in 1 .. len
        PROVE  (len - i) + 1 \in 1 .. len /\ list[i] \in Vmas
               /\ list[(len - i) + 1] = areas[i]
    <2>1. (len - i) + 1 \in 1 .. len /\ (len - ((len - i) + 1)) + 1 = i
      BY <1>3
    <2> QED  BY <1>3, <1>4, <2>1
  <1>6. DupInv(e, 0, m)
    <2>1. Forking(m, m, p, c)
      BY DEF Forking, Apart
    <2> QED  BY <1>1, <2>1 DEF DupInv
  <1>7. ASSUME NEW k \in 1 .. len, NEW u, DupInv(e, k - 1, u)
        PROVE  DupInv(e, k, DupStep(e, u, list[k]))
    <2>1. /\ Forking(m, u, p, c)
          /\ u.err = "ok" =>
                 \A i \in 1 .. k - 1, v \in VPages :
                     Holds(list[i], v) => View(u, c, v) = View(m, p, v)
      BY <1>1, <1>7 DEF DupInv
    <2> DEFINE t == DupStep(e, u, list[k])
    <2>2. CASE u.err # "ok"
      <3>1. t = u
        BY <2>2 DEF DupStep
      <3> QED  BY <1>1, <2>1, <2>2, <3>1 DEF DupInv
    <2>3. CASE u.err = "ok"
      <3>1. t = AreaCopied(u, p, c, list[k])
        BY <1>1, <2>3 DEF DupStep
      <3> HIDE DEF t
      <3>2. /\ Forking(m, t, p, c)
            /\ t.err = "ok" =>
                   \A v \in VPages : View(u, c, v) = View(m, p, v) \/ Holds(list[k], v) =>
                                         View(t, c, v) = View(m, p, v)
        BY <1>5, <2>1, <2>3, <3>1, OneAreaCopied
      <3>3. ASSUME t.err = "ok", NEW i \in 1 .. k, NEW v \in VPages, Holds(list[i], v)
            PROVE  View(t, c, v) = View(m, p, v)
        <4>1. i \in 1 .. k - 1 \/ i = k
          BY <1>3
        <4> QED  BY <2>1, <2>3, <3>2, <3>3, <4>1
      <3>4. DupInv(e, k, t)
        BY <1>1, <3>2, <3>3 DEF DupInv
      <3> QED  BY <3>4 DEF t
    <2> QED  BY <2>2, <2>3
  <1>8. DupInv(e, len, Dup!LoopFold(e, m, list))
    BY <1>3, <1>4, <1>6, <1>7, Dup!FoldInvariant
  <1>9. /\ Forking(m, n, p, c)
        /\ n.err = "ok" =>
               \A i \in 1 .. len, v \in VPages : Holds(list[i], v) => View(n, c, v) = View(m, p, v)
    BY <1>1, <1>2, <1>8 DEF DupInv
  <1>10. ASSUME n.err = "ok", NEW v \in VPages  PROVE View(n, c, v) = View(m, p, v)
    <2>1. CASE View(m, p, v) = NULL
      BY <1>9, <2>1 DEF Forking
    <2>2. CASE View(m, p, v) # NULL
      <3>1. m.as[p].pte[v].frame # NULL
        BY <2>2 DEF View
      <3>2. Covered(m.as[p], v)
        BY <3>1, MappedFrame
      <3>3. PICK i \in 1 .. len : Holds(areas[i], v)
        BY <1>3, <3>2 DEF Covered, areas
      <3> QED  BY <1>5, <1>9, <1>10, <3>3
    <2> QED  BY <2>1, <2>2
  <1> QED  BY <1>9, <1>10

\* fork: the child has its parent's memory, or no address space; the others have what they had.
LEMMA MemoryCopied ==
    ASSUME NEW m, Good(m, {}), m.err = "ok", NEW p \in Procs, NEW c \in Procs \ {p},
           m.as[c] = NoMm, NEW n, n = copy_mm(m, p, c)
    PROVE  /\ Good(n, {}) /\ Apart(m, n, c)
           /\ n.err = "ok" => \A v \in VPages : View(n, c, v) = View(m, p, v)
           /\ n.err \notin {"ok", "panic"} => n.as[c] = NoMm
  <1> DEFINE s == setup_pgdir(m, c)
             t == dup_mmap(s, p, c)
  <1>1. n = IF ~m.as[p].root THEN m ELSE IF s.err # "ok" THEN s
            ELSE IF t.err \in {"ok", "panic"} THEN t ELSE Drop(t, c)
    BY DEF copy_mm
  <1>2. /\ Good(s, {}) /\ Apart(m, s, c)
        /\ s.err = "ok" => s.as[c].root
        /\ s.err # "ok" => s.as = m.as
        /\ s.as[c].pte = m.as[c].pte /\ s.content = m.content
    BY PgdirSetUp
  <1>3. \A v \in VPages : View(m, c, v) = NULL
    BY NoMmSound DEF Bare, View
  <1> HIDE DEF s
  <1>4. CASE ~m.as[p].root
    <2>1. m.as[p] = NoMm
      BY <1>4 DEF Good, Sane
    <2>2. \A v \in VPages : View(m, p, v) = NULL
      BY <2>1, NoMmSound DEF Bare, View
    <2> QED  BY <1>1, <1>3, <1>4, <2>2 DEF Apart
  <1>5. CASE m.as[p].root /\ s.err # "ok"
    BY <1>1, <1>2, <1>5
  <1>6. CASE m.as[p].root /\ s.err = "ok"
    <2>1. \A v \in VPages : View(s, c, v) = NULL
      BY <1>2, <1>3 DEF View
    <2>2. /\ Forking(s, t, p, c)
          /\ t.err = "ok" => \A v \in VPages : View(t, c, v) = View(s, p, v)
      BY <1>2, <1>6, <2>1, AreasDuplicated
    <2> HIDE DEF t
    <2>3. Good(t, {}) /\ Apart(s, t, c)
      BY <2>2 DEF Forking
    <2>4. Apart(m, t, c)
      BY <1>2, <2>3, ApartTransitive
    <2>5. \A v \in VPages : View(s, p, v) = View(m, p, v)
      BY <1>2 DEF Apart
    <2>6. CASE t.err \in {"ok", "panic"}
      <3>1. n = t
        BY <1>1, <1>6, <2>6
      <3> QED  BY <2>2, <2>3, <2>4, <2>5, <2>6, <3>1
    <2>7. CASE t.err \notin {"ok", "panic"}
      <3>1. n = Drop(t, c)
        BY <1>1, <1>6, <2>7
      <3>2. Good(n, {}) /\ n.err = t.err /\ Apart(t, n, c) /\ n.as[c] = NoMm
        BY <2>3, <3>1, Dropped
      <3> QED  BY <2>4, <2>7, <3>2, ApartTransitive
    <2> QED  BY <2>6, <2>7
  <1> QED  BY <1>4, <1>5, <1>6

-----------------------------------------------------------------------------
(* Stores.                                                                 *)

\* The store fault changes nothing that a process sees: the page is its own already, or
\* becomes a copy.
LEMMA PageOwned ==
    ASSUME NEW m, Good(m, {}), m.err = "ok", NEW p \in Procs, NEW v \in VPages, Mapped(m.as[p], v),
           NEW n, n = Own(m, p, v)
    PROVE  Good(n, {}) /\ SameViews(m, n) /\ n.err \in {"ok", "panic"}
  <1> DEFINE pte == m.as[p].pte[v]
             old == pte.frame
             e == [pte EXCEPT !.w = TRUE, !.cow = FALSE]
             f == alloc_page(m)
             x == m.content[old]
             s == Remark(m, p, v, e)
             y == Fail(m, "panic")
             t == page_insert(Taken(m, f, x), p, f, v, TRUE, FALSE)
  <1>1. n = IF m.ref[old] = 1 THEN s ELSE IF Full(m) THEN y ELSE t
    BY DEF Own, Remark
  <1>2. pte \in Ptes /\ old # NULL /\ old \in Frames
        /\ m.as[p].root /\ HasPte(m.as[p], v) /\ Covered(m.as[p], v)
    <2>1. m.as[p].pte \in [VPages -> Ptes]
      BY DEF Good, Memories, Spaces, Ptes
    <2> QED  BY <2>1, MappedFrame DEF Mapped
  <1>3. e \in Ptes /\ e.frame = old
    BY <1>2 DEF Ptes
  <1>4. View(m, p, v) = x
    BY <1>2 DEF View
  <1>5. CASE m.ref[old] = 1
    <2>1. \A q \in Procs \ {p} : m.as[q].pte[v].frame # old
      <3> SUFFICES ASSUME NEW q \in Procs \ {p}, m.as[q].pte[v].frame = old  PROVE FALSE
        OBVIOUS
      <3>1. <<p, v>> \in At(m, old) /\ <<q, v>> \in At(m, old)
        BY DEF At
      <3>2. Cardinality(At(m, old)) = 1 /\ IsFiniteSet(At(m, old))
        BY <1>2, <1>5, AtFinite DEF Good, Refs
      <3>3. PICK z : At(m, old) = {z}
        BY <3>2, FS_Singleton
      <3> QED  BY <3>1, <3>3
    <2>2. n = s
      BY <1>1, <1>5
    <2> HIDE DEF e, s
    <2>3. Good(s, {}) /\ SameViews(m, s) /\ s.err = m.err
      BY <1>2, <1>3, <2>1, EntryRemarked DEF s
    <2> QED  BY <2>2, <2>3
  <1>6. CASE m.ref[old] # 1 /\ Full(m)
    <2>1. n = y
      BY <1>1, <1>6
    <2>2. Good(y, {}) /\ SamePages(m, y) /\ y.err = "panic"
      BY Failed
    <2> HIDE DEF y
    <2> QED  BY <2>1, <2>2, SamePagesViews
  <1>7. CASE m.ref[old] # 1 /\ ~Full(m)
    <2> DEFINE u == Taken(m, f, x)
               w == TRUE
               cow == FALSE
    <2>1. x \in Values
      BY <1>2 DEF Good, Memories
    <2>2. w \in BOOLEAN /\ cow \in BOOLEAN
      OBVIOUS
    <2>3. n = page_insert(u, p, f, v, w, cow)
      BY <1>1, <1>7
    <2> HIDE DEF x, w, cow
    <2>4. WithFrame(m, u, f, x)
      <3> HIDE DEF u, f
      <3> QED  BY <1>7, <2>1, Allocated DEF u, f
    <2> HIDE DEF u, f
    <2>5. Good(n, {}) /\ n.err = "ok" /\ Shows(m, n, p, v, x)
      BY <1>2, <2>2, <2>3, <2>4, FrameMapped
    <2>6. SameViews(m, n)
      <3> SUFFICES ASSUME NEW q \in Procs, NEW z \in VPages  PROVE View(n, q, z) = View(m, q, z)
        BY <2>5 DEF Shows, SameViews
      <3> QED  BY <1>4, <2>5 DEF Shows
    <2> QED  BY <2>5, <2>6
  <1> QED  BY <1>5, <1>6, <1>7

\* A store that the page table allows is seen at that page of that process only.
Written(m, f, x) == [m EXCEPT !.content[f] = x]

Writable(m, p, v, f) == m.as[p].pte[v].w /\ m.as[p].pte[v].frame = f /\ f # NULL

OnlyWritten(m, n, f, x) ==
    /\ n.used = m.used /\ n.tables = m.tables /\ n.ref = m.ref /\ n.as = m.as /\ n.err = m.err
    /\ n.content = [m.content EXCEPT ![f] = x]

LEMMA PageWritten ==
    ASSUME NEW m, Good(m, {}), NEW p \in Procs, NEW v \in VPages, NEW f, Writable(m, p, v, f),
           NEW x \in Values, NEW n, n = Written(m, f, x)
    PROVE  Good(n, {}) /\ Shows(m, n, p, v, x) /\ OnlyWritten(m, n, f, x)
  <1> m.as[p].pte[v].w /\ f = m.as[p].pte[v].frame /\ f # NULL
    BY DEF Writable
  <1>1. m \in Memories /\ f \in Frames
    BY MappedFrame DEF Good
  <1>2. /\ n \in Memories /\ n.used = m.used /\ n.tables = m.tables /\ n.ref = m.ref
        /\ n.as = m.as /\ n.content[f] = x /\ \A g \in Frames \ {f} : n.content[g] = m.content[g]
        /\ n.content = [m.content EXCEPT ![f] = x] /\ n.err = m.err
    <2>1. n = [m EXCEPT !.content = [m.content EXCEPT ![f] = x]]
      BY <1>1 DEF Memories, Written
    <2>2. [m.content EXCEPT ![f] = x] \in [Frames -> Values] /\ [m.content EXCEPT ![f] = x][f] = x
          /\ \A g \in Frames \ {f} : [m.content EXCEPT ![f] = x][g] = m.content[g]
      BY <1>1 DEF Memories
    <2> DEFINE y == [m.content EXCEPT ![f] = x]
    <2> HIDE DEF y
    <2> QED  BY <1>1, <2>1, <2>2 DEF Memories, y
  <1>4. Good(n, {})
    <2>1. Refs(n, {}) /\ OnePage(n) /\ Private(n)
      <3>1. n.used = m.used /\ n.ref = m.ref /\ \A q \in Procs : n.as[q].pte = m.as[q].pte
        BY <1>2
      <3> QED  BY <3>1, SamePtesKeep DEF Good
    <2>2. TablesFit(n) /\ FramesFit(n) /\ \A q \in Procs : Sane(n.as[q])
      BY <1>2 DEF Good, TablesFit, FramesFit
    <2> QED  BY <1>2, <2>1, <2>2 DEF Good
  <1>5. ASSUME NEW q \in Procs, NEW w \in VPages, q # p \/ w # v
        PROVE  View(n, q, w) = View(m, q, w)
    <2>1. m.as[q].pte[w].frame # f
      <3> SUFFICES ASSUME m.as[q].pte[w].frame = f  PROVE FALSE
        OBVIOUS
      <3>1. w = v
        BY DEF Good, OnePage
      <3>2. q = p
        BY <3>1 DEF Good, Private
      <3> QED  BY <1>5, <3>1, <3>2
    <2>2. m.as[q].pte[w].frame \in Frames \cup {NULL}
      BY <1>1 DEF Memories, Spaces
    <2> DEFINE g == m.as[q].pte[w].frame
    <2>3. n.as[q].pte[w].frame = g /\ (g # NULL => g \in Frames \ {f})
      BY <1>2, <2>1, <2>2
    <2> HIDE DEF g
    <2>4. g # NULL => n.content[g] = m.content[g]
      BY <1>2, <2>3
    <2> QED  BY <2>3, <2>4 DEF View, g
  <1>6. View(n, p, v) = x
    BY <1>2 DEF View
  <1> QED  BY <1>2, <1>4, <1>5, <1>6 DEF Shows, OnlyWritten

-----------------------------------------------------------------------------
(* The steps.                                                              *)

\* The inductive invariant.
Inv ==
    /\ Good(Memory, {})
    /\ share \in BOOLEAN /\ panicked \in BOOLEAN
    /\ alive \subseteq Procs
    /\ \A p \in Procs \ alive : as[p] = NoMm

ViewOf(m) == [p \in Procs |-> [v \in VPages |-> View(m, p, v)]]

\* What PrivateMemory speaks of.
Contents == [p \in Procs |-> [v \in VPages |-> Seen(p, v)]]

LEMMA SeenIsView ==
    ASSUME NEW m, Good(m, {}), NEW p \in Procs, NEW v \in VPages
    PROVE  View(m, p, v) = IF Mapped(m.as[p], v) THEN m.content[m.as[p].pte[v].frame] ELSE NULL
  <1>1. m.as[p].pte[v].frame # NULL => HasPte(m.as[p], v)
    BY MappedFrame
  <1> QED  BY <1>1 DEF View, Mapped

LEMMA ContentsNow ==
    ASSUME Good(Memory, {})
    PROVE  Contents = ViewOf(Memory)
  <1>1. Memory.as = as /\ Memory.content = content
    BY DEF Memory
  <1>2. \A p \in Procs, v \in VPages : Seen(p, v) = View(Memory, p, v)
    BY <1>1, SeenIsView DEF Seen
  <1> QED  BY <1>2 DEF Contents, ViewOf

LEMMA ContentsNext ==
    ASSUME Good(Memory', {})
    PROVE  Contents' = ViewOf(Memory')
  <1>1. Memory'.as = as' /\ Memory'.content = content'
    BY DEF Memory
  <1>2. \A p \in Procs, v \in VPages : Seen(p, v)' = View(Memory', p, v)
    BY <1>1, SeenIsView DEF Seen
  <1> QED  BY <1>2 DEF Contents, ViewOf

LEMMA ViewOfSame ==
    ASSUME NEW m, NEW n, \A p \in Procs, v \in VPages : View(n, p, v) = View(m, p, v)
    PROVE  ViewOf(n) = ViewOf(m)
  BY DEF ViewOf

\* A panic leaves the memory; otherwise it is m.
LEMMA Became ==
    ASSUME Good(Memory, {}), panicked \in BOOLEAN, NEW STATE m, Good(m, {}), Become(m)
    PROVE  /\ Good(Memory', {}) /\ panicked' \in BOOLEAN
           /\ m.err = "panic" => as' = as /\ ViewOf(Memory') = ViewOf(Memory)
           /\ m.err # "panic" => as' = m.as /\ ViewOf(Memory') = ViewOf(m)
  <1>1. CASE m.err = "panic"
    <2>1. Memory' = Memory /\ as' = as /\ panicked' = TRUE
      BY <1>1 DEF Become, Memory
    <2> QED  BY <1>1, <2>1
  <1>2. CASE m.err # "panic"
    <2> DEFINE n == Fail(m, "ok")
    <2>1. as' = m.as /\ panicked' \in BOOLEAN
      BY <1>2 DEF Become
    <2>2. m \in Memories
      BY DEF Good
    <2>3. Memory' = n
      BY <1>2, <2>2 DEF Become, Memory, Memories, Fail
    <2>4. Good(n, {}) /\ SamePages(m, n) /\ n.as = m.as
      BY Failed
    <2> HIDE DEF n
    <2>5. ViewOf(n) = ViewOf(m)
      BY <2>4, SamePagesViews, ViewOfSame DEF SameViews
    <2> QED  BY <1>2, <2>1, <2>3, <2>4, <2>5
  <1> QED  BY <1>1, <1>2

\* A process that has none keeps no address space while another one's is changed.
LEMMA NoneElsewhere ==
    ASSUME NEW m, NEW n, Good(n, {}), NEW p \in Procs, Apart(m, n, p), NEW q \in Procs \ {p},
           m.as[q] = NoMm
    PROVE  n.as[q] = NoMm
  BY NoMmSound DEF Apart, Good, Sane

LEMMA ForkStep ==
    ASSUME Inv, NEW p \in Procs, NEW c \in Procs, Fork(p, c)
    PROVE  Inv' /\ (Promise!Fork(p) \/ UNCHANGED <<alive, Contents>>)
  <1> DEFINE m == copy_mm(Memory, p, c)
  <1>1. /\ p \in alive /\ c \notin alive /\ Become(m) /\ share' = share
        /\ alive' = IF m.err = "ok" THEN alive \cup {c} ELSE alive
    BY DEF Fork
  <1>2. Good(Memory, {}) /\ Memory.err = "ok" /\ Memory.as = as /\ as[c] = NoMm /\ c \in Procs \ {p}
    BY <1>1 DEF Inv, Memory
  <1>3. /\ Good(m, {}) /\ Apart(Memory, m, c)
        /\ m.err = "ok" => \A v \in VPages : View(m, c, v) = View(Memory, p, v)
        /\ m.err \notin {"ok", "panic"} => m.as[c] = NoMm
    BY <1>2, MemoryCopied
  <1> HIDE DEF m
  <1>4. /\ Good(Memory', {}) /\ panicked' \in BOOLEAN
        /\ m.err = "panic" => as' = as /\ ViewOf(Memory') = ViewOf(Memory)
        /\ m.err # "panic" => as' = m.as /\ ViewOf(Memory') = ViewOf(m)
    BY <1>1, <1>2, <1>3, Became DEF Inv
  <1>5. Contents = ViewOf(Memory) /\ Contents' = ViewOf(Memory')
    BY <1>2, <1>4, ContentsNow, ContentsNext
  <1>6. \A q \in Procs \ {c} : \A v \in VPages : View(m, q, v) = View(Memory, q, v)
    BY <1>3 DEF Apart
  <1>7. ASSUME NEW q \in Procs \ {c}, as[q] = NoMm  PROVE m.as[q] = NoMm
    <2>1. Memory.as[q] = NoMm
      BY <1>2, <1>7
    <2> QED  BY <1>3, <2>1, NoneElsewhere
  <1>8. CASE m.err = "ok"
    <2>1. alive' = alive \cup {c} /\ as' = m.as /\ ViewOf(Memory') = ViewOf(m)
      BY <1>1, <1>4, <1>8
    <2>2. Inv'
      BY <1>1, <1>4, <1>7, <2>1 DEF Inv
    <2>3. ViewOf(m) = [ViewOf(Memory) EXCEPT ![c] = ViewOf(Memory)[p]]
      BY <1>2, <1>3, <1>6, <1>8 DEF ViewOf
    <2>4. Contents' = [Contents EXCEPT ![c] = Contents[p]]
      BY <1>5, <2>1, <2>3
    <2>5. Promise!Fork(p)
      BY <1>1, <2>1, <2>4 DEF Promise!Fork, Contents
    <2> QED  BY <2>2, <2>5
  <1>9. CASE m.err = "panic"
    <2>1. alive' = alive /\ as' = as /\ Contents' = Contents
      BY <1>1, <1>4, <1>5, <1>9
    <2> QED  BY <1>1, <1>4, <2>1 DEF Inv
  <1>10. CASE m.err \notin {"ok", "panic"}
    <2>1. alive' = alive /\ as' = m.as /\ ViewOf(Memory') = ViewOf(m) /\ m.as[c] = NoMm
      BY <1>1, <1>3, <1>4, <1>10
    <2>2. Inv'
      BY <1>1, <1>4, <1>7, <2>1 DEF Inv
    <2>3. \A v \in VPages : View(m, c, v) = View(Memory, c, v)
      BY <1>2, <2>1, NoMmSound DEF Bare, View
    <2>4. ViewOf(m) = ViewOf(Memory)
      BY <1>6, <2>3 DEF ViewOf
    <2> QED  BY <1>5, <2>1, <2>2, <2>4
  <1> QED  BY <1>8, <1>9, <1>10

LEMMA ProcessExits ==
    ASSUME Inv, NEW p \in Procs, Exit(p)
    PROVE  Inv' /\ Promise!Exit(p)
  <1> DEFINE m == Drop(Memory, p)
  <1>1. Become(m) /\ share' = share /\ alive' = alive \ {p}
    BY DEF Exit
  <1>2. Good(Memory, {}) /\ Memory.err = "ok" /\ Memory.as = as
    BY DEF Inv, Memory
  <1>3. Good(m, {}) /\ m.err = "ok" /\ Apart(Memory, m, p) /\ m.as[p] = NoMm
    BY <1>2, Dropped
  <1> HIDE DEF m
  <1>4. /\ Good(Memory', {}) /\ panicked' \in BOOLEAN
        /\ as' = m.as /\ ViewOf(Memory') = ViewOf(m)
    BY <1>1, <1>2, <1>3, Became DEF Inv
  <1>5. Contents = ViewOf(Memory) /\ Contents' = ViewOf(Memory')
    BY <1>2, <1>4, ContentsNow, ContentsNext
  <1>6. \A q \in Procs \ {p} : as[q] = NoMm => m.as[q] = NoMm
    BY <1>2, <1>3, NoneElsewhere
  <1>7. Inv'
    BY <1>1, <1>3, <1>4, <1>6 DEF Inv
  <1>8. \A v \in VPages : View(m, p, v) = NULL
    BY <1>3, NoMmSound DEF Bare, View
  <1>9. ViewOf(m) = [ViewOf(Memory) EXCEPT ![p] = [v \in VPages |-> NULL]]
    BY <1>3, <1>8 DEF ViewOf, Apart
  <1>10. Promise!Exit(p)
    BY <1>1, <1>4, <1>5, <1>9 DEF Promise!Exit, Promise!Nothing, Contents
  <1> QED  BY <1>7, <1>10

LEMMA ExecStep ==
    ASSUME Inv, NEW p \in Procs, NEW prog \in Programs, Exec(p, prog)
    PROVE  Inv' /\ (Promise!Exec(p) \/ Promise!Exit(p) \/ UNCHANGED <<alive, Contents>>)
  <1> DEFINE l == Drop(Memory, p)
  <1>1. PICK x \in Values :
            /\ Become(load_icode(l, p, prog, x))
            /\ alive' = IF load_icode(l, p, prog, x).err \in {"ok", "panic"} THEN alive ELSE alive \ {p}
    BY DEF Exec
  <1> DEFINE m == load_icode(l, p, prog, x)
  <1>2. p \in alive /\ share' = share
    BY DEF Exec
  <1>3. Good(Memory, {}) /\ Memory.err = "ok" /\ Memory.as = as
    BY DEF Inv, Memory
  <1>4. Good(l, {}) /\ l.err = "ok" /\ Apart(Memory, l, p) /\ l.as[p] = NoMm
    BY <1>3, Dropped
  <1> HIDE DEF l
  <1>5. /\ Good(m, {}) /\ Apart(l, m, p)
        /\ m.err \notin {"ok", "panic"} => m.as[p] = NoMm
    BY <1>4, ProgramLoaded
  <1>6. /\ Become(m)
        /\ alive' = IF m.err \in {"ok", "panic"} THEN alive ELSE alive \ {p}
    BY <1>1
  <1> HIDE DEF m
  <1>7. Apart(Memory, m, p)
    BY <1>4, <1>5, ApartTransitive
  <1>8. /\ Good(Memory', {}) /\ panicked' \in BOOLEAN
        /\ m.err = "panic" => as' = as /\ ViewOf(Memory') = ViewOf(Memory)
        /\ m.err # "panic" => as' = m.as /\ ViewOf(Memory') = ViewOf(m)
    BY <1>3, <1>5, <1>6, Became DEF Inv
  <1>9. Contents = ViewOf(Memory) /\ Contents' = ViewOf(Memory')
    BY <1>3, <1>8, ContentsNow, ContentsNext
  <1>10. \A q \in Procs \ {p} : as[q] = NoMm => m.as[q] = NoMm
    BY <1>3, <1>5, <1>7, NoneElsewhere
  <1>11. CASE m.err = "panic"
    <2>1. alive' = alive /\ as' = as /\ Contents' = Contents
      BY <1>6, <1>8, <1>9, <1>11
    <2> QED  BY <1>2, <1>8, <2>1 DEF Inv
  <1>12. CASE m.err = "ok"
    <2>1. alive' = alive /\ as' = m.as /\ ViewOf(Memory') = ViewOf(m)
      BY <1>6, <1>8, <1>12
    <2>2. Inv'
      BY <1>2, <1>8, <1>10, <2>1 DEF Inv
    <2>3. ViewOf(m) = [ViewOf(Memory) EXCEPT ![p] = ViewOf(m)[p]]
      BY <1>7 DEF ViewOf, Apart
    <2>4. ViewOf(m)[p] \in [VPages -> Values \cup {NULL}]
      <3> SUFFICES ASSUME NEW v \in VPages  PROVE View(m, p, v) \in Values \cup {NULL}
        BY DEF ViewOf
      <3>1. m.as[p].pte[v].frame \in Frames \cup {NULL} /\ m.content \in [Frames -> Values]
        BY <1>5 DEF Good, Memories, Spaces
      <3> QED  BY <3>1 DEF View
    <2>5. Promise!Exec(p)
      BY <1>2, <1>9, <2>1, <2>3, <2>4 DEF Promise!Exec, Contents
    <2> QED  BY <2>2, <2>5
  <1>13. CASE m.err \notin {"ok", "panic"}
    <2>1. alive' = alive \ {p} /\ as' = m.as /\ ViewOf(Memory') = ViewOf(m) /\ m.as[p] = NoMm
      BY <1>5, <1>6, <1>8, <1>13
    <2>2. Inv'
      BY <1>2, <1>8, <1>10, <2>1 DEF Inv
    <2>3. \A v \in VPages : View(m, p, v) = NULL
      BY <2>1, NoMmSound DEF Bare, View
    <2>4. ViewOf(m) = [ViewOf(Memory) EXCEPT ![p] = [v \in VPages |-> NULL]]
      BY <1>7, <2>3 DEF ViewOf, Apart
    <2>5. Promise!Exit(p)
      BY <1>9, <2>1, <2>4 DEF Promise!Exit, Promise!Nothing, Contents
    <2> QED  BY <2>2, <2>5
  <1> QED  BY <1>11, <1>12, <1>13

LEMMA FaultStep ==
    ASSUME Inv, NEW p \in Procs, NEW v \in VPages, StoreFault(p, v)
    PROVE  Inv' /\ UNCHANGED <<alive, Contents>>
  <1> DEFINE m == Own(Memory, p, v)
  <1>1. Become(m) /\ share' = share /\ alive' = alive /\ Mapped(as[p], v) /\ p \in Procs
    BY DEF StoreFault
  <1>2. Good(Memory, {}) /\ Memory.err = "ok" /\ Memory.as = as
    BY DEF Inv, Memory
  <1>3. Good(m, {}) /\ SameViews(Memory, m)
    BY <1>1, <1>2, PageOwned
  <1> HIDE DEF m
  <1>4. /\ Good(Memory', {}) /\ panicked' \in BOOLEAN
        /\ m.err = "panic" => as' = as /\ ViewOf(Memory') = ViewOf(Memory)
        /\ m.err # "panic" => as' = m.as /\ ViewOf(Memory') = ViewOf(m)
    BY <1>1, <1>2, <1>3, Became DEF Inv
  <1>5. Contents = ViewOf(Memory) /\ Contents' = ViewOf(Memory')
    BY <1>2, <1>4, ContentsNow, ContentsNext
  <1>6. ViewOf(m) = ViewOf(Memory)
    BY <1>3, ViewOfSame DEF SameViews
  <1>7. ASSUME NEW q \in Procs \ alive  PROVE as'[q] = NoMm
    <2>1. as[q] = NoMm
      BY DEF Inv
    <2>2. ~m.as[q].root
      BY <1>2, <1>3, <2>1, NoMmSound DEF SameViews
    <2>3. m.as[q] = NoMm
      BY <1>3, <2>2 DEF Good, Sane
    <2> QED  BY <1>4, <2>1, <2>3
  <1>8. Inv'
    BY <1>1, <1>4, <1>7 DEF Inv
  <1> QED  BY <1>1, <1>4, <1>5, <1>6, <1>8

LEMMA StoreStep ==
    ASSUME Inv, NEW p \in Procs, NEW v \in VPages, NEW x \in Values, Store(p, v, x)
    PROVE  Inv' /\ Promise!Store(p)
  <1> DEFINE f == as[p].pte[v].frame
             m == Written(Memory, f, x)
  <1>1. /\ as[p].pte[v].w /\ f # NULL /\ content' = [content EXCEPT ![f] = x]
        /\ UNCHANGED <<share, alive, as, used, tables, page_ref, panicked>>
    BY DEF Store, Mapped
  <1>2. Good(Memory, {}) /\ Memory.as = as
    BY DEF Inv, Memory
  <1>3. /\ Good(m, {}) /\ Shows(Memory, m, p, v, x)
        /\ m.used = used /\ m.tables = tables /\ m.ref = page_ref /\ m.as = as
        /\ m.content = [content EXCEPT ![f] = x] /\ m.err = "ok"
    <2>1. Writable(Memory, p, v, f)
      BY <1>1, <1>2 DEF Writable
    <2> HIDE DEF m, f
    <2>2. Good(m, {}) /\ Shows(Memory, m, p, v, x) /\ OnlyWritten(Memory, m, f, x)
      BY <1>2, <2>1, PageWritten DEF m
    <2> QED  BY <2>2 DEF Memory, OnlyWritten
  <1> HIDE DEF m
  <1>4. Memory' = m
    <2>1. m \in Memories
      BY <1>3 DEF Good
    <2> HIDE DEF f
    <2> QED  BY <1>1, <1>3, <2>1 DEF Memory, Memories
  <1>5. Contents = ViewOf(Memory) /\ Contents' = ViewOf(m)
    BY <1>2, <1>3, <1>4, ContentsNow, ContentsNext
  <1>6. Inv'
    BY <1>1, <1>3, <1>4 DEF Inv
  <1>7. ViewOf(m) = [ViewOf(Memory) EXCEPT ![p][v] = x] /\ ViewOf(m)[p][v] = x
    <2> DEFINE a == ViewOf(Memory)
               b == ViewOf(m)
    <2>1. /\ a = [q \in Procs |-> [w \in VPages |-> a[q][w]]]
          /\ b = [q \in Procs |-> [w \in VPages |-> b[q][w]]]
          /\ b[p][v] = x
          /\ \A q \in Procs, w \in VPages : q # p \/ w # v => b[q][w] = a[q][w]
      BY <1>3 DEF ViewOf, Shows
    <2> HIDE DEF a, b
    <2>2. b[p] = [a[p] EXCEPT ![v] = x]
      BY <2>1
    <2>3. \A q \in Procs \ {p} : b[q] = a[q]
      BY <2>1
    <2>4. b = [a EXCEPT ![p] = [a[p] EXCEPT ![v] = x]]
      BY <2>1, <2>2, <2>3
    <2> QED  BY <2>1, <2>4 DEF a, b
  <1>8. ViewOf(Memory)[p][v] # NULL
    <2>1. f \in Frames /\ content \in [Frames -> Values]
      BY <1>1, <1>2, MappedFrame DEF Good, Memories, Memory
    <2>2. ViewOf(Memory)[p][v] = content[f]
      BY <1>1 DEF ViewOf, View, Memory
    <2>3. \A y \in Values : y # NULL
      BY SpaceAssumption DEF NULL
    <2> QED  BY <2>1, <2>2, <2>3
  <1>9. /\ Contents[p][v] # NULL /\ Contents'[p][v] \in Values
        /\ Contents' = [Contents EXCEPT ![p][v] = Contents'[p][v]]
    BY <1>5, <1>7, <1>8
  <1>10. Promise!Store(p)
    BY <1>1, <1>9 DEF Promise!Store, Contents
  <1> QED  BY <1>6, <1>10

LEMMA Start ==
    ASSUME Init
    PROVE  Inv /\ Promise!Init
  <1>1. /\ share \in BOOLEAN /\ panicked = FALSE /\ alive = {First} /\ as = [p \in Procs |-> NoMm]
        /\ used = {} /\ tables = 0
        /\ page_ref = [f \in Frames |-> 0] /\ content = [f \in Frames |-> 0]
    BY DEF Init
  <1> DEFINE m == Memory
  <1>2. /\ m.used = {} /\ m.tables = 0 /\ m.ref = [f \in Frames |-> 0]
        /\ m.content = [f \in Frames |-> 0] /\ m.as = [p \in Procs |-> NoMm] /\ m.err = "ok"
    BY <1>1 DEF Memory
  <1>3. m \in Memories
    <2>1. 0 \in Values /\ NoMm \in Spaces
      BY SpaceAssumption, NoMmSound
    <2>2. /\ [f \in Frames |-> 0] \in [Frames -> Nat] /\ [f \in Frames |-> 0] \in [Frames -> Values]
          /\ [p \in Procs |-> NoMm] \in [Procs -> Spaces]
      BY <2>1
    <2> QED  BY <1>1, <2>2 DEF Memory, Memories
  <1> HIDE DEF m
  <1>4. \A p \in Procs : m.as[p] = NoMm /\ \A v \in VPages : m.as[p].pte[v].frame = NULL
    BY <1>2, NoMmSound DEF Bare
  <1>5. Refs(m, {})
    <2> SUFFICES ASSUME NEW f \in Frames
                 PROVE  m.ref[f] = Cardinality(At(m, f)) /\ At(m, f) = {}
      BY <1>2 DEF Refs
    <2>1. f # NULL
      BY SpaceAssumption DEF Frames, NULL
    <2>2. At(m, f) = {}
      BY <1>4, <2>1 DEF At
    <2> QED  BY <1>2, <2>2, FS_EmptySet
  <1>6. OnePage(m) /\ Private(m)
    BY <1>4, NoMmSound DEF OnePage, Private
  <1>7. TablesFit(m)
    <2> DEFINE f == [p \in Procs |-> TablesOf(m.as[p])]
    <2>1. \A p \in Procs : f[p] = 0
      BY <1>4, NoMmSound
    <2> HIDE DEF f
    <2>2. SumFunctionOnSet(f, Procs) = 0
      BY <2>1, Finite, SumOfZeros
    <2> QED  BY <1>2, <2>2 DEF f, TablesFit
  <1>8. FramesFit(m)
    BY <1>2, FS_EmptySet, SpaceAssumption DEF FramesFit
  <1>9. Good(m, {})
    BY <1>3, <1>4, <1>5, <1>6, <1>7, <1>8, NoMmSound DEF Good
  <1>10. Inv
    BY <1>1, <1>9, SpaceAssumption DEF Inv, m
  <1>11. Promise!Init
    <2>1. Contents = ViewOf(m)
      BY <1>9, ContentsNow DEF m
    <2>2. \A p \in Procs, v \in VPages : View(m, p, v) = NULL
      BY <1>4 DEF View
    <2>3. Contents = [p \in Procs |-> [v \in VPages |-> NULL]]
      BY <2>1, <2>2 DEF ViewOf
    <2> QED  BY <1>1, <2>3 DEF Promise!Init, Promise!Nothing, Contents
  <1> QED  BY <1>10, <1>11

LEMMA InvStep ==
    ASSUME Inv, [Next]_vars
    PROVE  Inv' /\ [Promise!Next]_<<alive, Contents>>
  <1>1. CASE UNCHANGED vars
    <2>1. /\ Memory' = Memory
          /\ UNCHANGED <<share, alive, as, used, tables, page_ref, content, panicked>>
      BY <1>1 DEF vars, Memory
    <2>2. Inv'
      BY <2>1 DEF Inv
    <2>3. Contents' = Contents
      BY <2>1, <2>2, ContentsNow, ContentsNext DEF Inv
    <2> QED  BY <2>1, <2>2, <2>3
  <1>2. ASSUME NEW p \in Procs, NEW c \in Procs, Fork(p, c)
        PROVE  Inv' /\ [Promise!Next]_<<alive, Contents>>
    BY <1>2, ForkStep DEF Promise!Next
  <1>3. ASSUME NEW p \in Procs, NEW prog \in Programs, Exec(p, prog)
        PROVE  Inv' /\ [Promise!Next]_<<alive, Contents>>
    BY <1>3, ExecStep DEF Promise!Next
  <1>4. ASSUME NEW p \in Procs, Exit(p)
        PROVE  Inv' /\ [Promise!Next]_<<alive, Contents>>
    BY <1>4, ProcessExits DEF Promise!Next
  <1>5. ASSUME NEW p \in Procs, NEW v \in VPages, StoreFault(p, v)
        PROVE  Inv' /\ [Promise!Next]_<<alive, Contents>>
    BY <1>5, FaultStep
  <1>6. ASSUME NEW p \in Procs, NEW v \in VPages, NEW x \in Values, Store(p, v, x)
        PROVE  Inv' /\ [Promise!Next]_<<alive, Contents>>
    BY <1>6, StoreStep DEF Promise!Next
  <1> QED  BY <1>1, <1>2, <1>3, <1>4, <1>5, <1>6 DEF Next

\* Every reachable memory is sound.
THEOREM AddressSpaceInvariant == Spec => []Inv
  <1>1. Init => Inv
    BY Start
  <1>2. Inv /\ [Next]_vars => Inv'
    BY InvStep
  <1> QED  BY <1>1, <1>2, PTL DEF Spec

-----------------------------------------------------------------------------
(* The properties.                                                         *)

\* A frame has at most one mapping by each process: the counts stay within their type.
LEMMA CountBounded ==
    ASSUME NEW m, Good(m, {}), NEW f \in Frames
    PROVE  m.ref[f] \in 0 .. Cardinality(Procs)
  <1>1. m.ref[f] = Cardinality(At(m, f))
    BY DEF Good, Refs
  <1>2. Cardinality(Procs) \in Nat
    BY Finite, FS_CardinalityType
  <1>3. CASE At(m, f) = {}
    BY <1>1, <1>2, <1>3, FS_EmptySet
  <1>4. CASE At(m, f) # {}
    <2>1. PICK z \in At(m, f) : TRUE
      BY <1>4
    <2>2. z[1] \in Procs /\ z[2] \in VPages /\ m.as[z[1]].pte[z[2]].frame = f /\ f # NULL
      BY <2>1, SpaceAssumption DEF At, Frames, NULL
    <2>3. At(m, f) \subseteq Procs \X {z[2]}
      <3> SUFFICES ASSUME NEW q \in Procs, NEW w \in VPages, m.as[q].pte[w].frame = f
                   PROVE  w = z[2]
        BY DEF At
      <3> QED  BY <2>2 DEF Good, OnePage
    <2>4. IsFiniteSet({z[2]}) /\ Cardinality({z[2]}) = 1
      BY FS_Singleton
    <2>5. IsFiniteSet(Procs \X {z[2]}) /\ Cardinality(Procs \X {z[2]}) = Cardinality(Procs)
      <3> DEFINE T == {z[2]}
      <3> HIDE DEF T
      <3>1. IsFiniteSet(T) /\ Cardinality(T) = 1
        BY <2>4 DEF T
      <3>2. IsFiniteSet(Procs \X T) /\ Cardinality(Procs \X T) = Cardinality(Procs) * Cardinality(T)
        BY <3>1, Finite, FS_Product
      <3>3. Cardinality(Procs \X T) = Cardinality(Procs)
        BY <1>2, <3>1, <3>2
      <3> QED  BY <3>2, <3>3 DEF T
    <2>6. Cardinality(At(m, f)) <= Cardinality(Procs)
      BY <2>3, <2>5, FS_Subset
    <2> QED  BY <1>1, <1>2, <2>6, AtFinite
  <1> QED  BY <1>3, <1>4

\* The variables have their types, also the counts, which are bounded by the number of
\* processes (page_insert, page_remove_pte).
THEOREM AddressSpaceTypeOK == Spec => []TypeOK
  <1>1. Inv => TypeOK
    <2> SUFFICES ASSUME Inv  PROVE TypeOK
      OBVIOUS
    <2> DEFINE m == Memory
    <2>1. /\ m.used = used /\ m.tables = tables /\ m.ref = page_ref /\ m.content = content
          /\ m.as = as
      BY DEF Memory
    <2>2. Good(m, {})
      BY DEF Inv
    <2> HIDE DEF m
    <2>3. /\ used \subseteq Frames /\ tables \in Nat /\ page_ref \in [Frames -> Nat]
          /\ content \in [Frames -> Values] /\ as \in [Procs -> Spaces]
      BY <2>1, <2>2 DEF Good, Memories
    <2>4. tables + Cardinality(used) <= NFrames
      BY <2>1, <2>2 DEF Good, FramesFit
    <2>5. \A f \in Frames : page_ref[f] \in 0 .. Cardinality(Procs)
      BY <2>1, <2>2, CountBounded
    <2>6. page_ref \in [Frames -> 0 .. Cardinality(Procs)]
      BY <2>3, <2>5
    <2> QED  BY <2>3, <2>4, <2>6 DEF Inv, TypeOK
  <1> QED  BY <1>1, AddressSpaceInvariant, PTL

LEMMA UsersAre ==
    ASSUME Inv, NEW f \in Frames
    PROVE  Users(f) = At(Memory, f)
  <1> DEFINE m == Memory
  <1>1. m.as = as /\ Good(m, {})
    BY DEF Memory, Inv
  <1>2. f # NULL
    BY SpaceAssumption DEF Frames, NULL
  <1> HIDE DEF m
  <1>3. ASSUME NEW q \in Procs, NEW v \in VPages, as[q].pte[v].frame = f
        PROVE  Mapped(as[q], v)
    BY <1>1, <1>2, <1>3, MappedFrame DEF Mapped
  <1>4. At(m, f) = Users(f)
    BY <1>1, <1>3 DEF At, Users
  <1> QED  BY <1>4 DEF m

\* page_ref counts the mappings of a page that is mapped, and the page is in use; the
\* tables in use are counted (page_insert, page_remove_pte, get_pte, exit_range).
THEOREM CountsOfPagesExact == Spec => []RefsExact
  <1>1. Inv => RefsExact
    <2> SUFFICES ASSUME Inv  PROVE RefsExact
      OBVIOUS
    <2> DEFINE m == Memory
    <2>1. m.used = used /\ m.tables = tables /\ m.ref = page_ref /\ m.as = as /\ Good(m, {})
      BY DEF Memory, Inv
    <2>2. \A f \in Frames : Users(f) = At(m, f)
      BY UsersAre
    <2> HIDE DEF m
    <2>3. \A f \in Frames : /\ page_ref[f] = Cardinality(At(m, f))
                            /\ f \in used <=> At(m, f) # {}
      BY <2>1 DEF Good, Refs
    <2>4. tables >= SumFunctionOnSet([p \in Procs |-> TablesOf(as[p])], Procs)
      BY <2>1 DEF Good, TablesFit
    <2> QED  BY <2>2, <2>3, <2>4 DEF RefsExact
  <1> QED  BY <1>1, AddressSpaceInvariant, PTL

\* A page in use is mapped, also after failed forks and execs (free_page in
\* pgdir_alloc_page and page_remove_pte, exit_mmap).
THEOREM PagesNotLost == Spec => []NoPageLost
  <1>1. Inv => NoPageLost
    <2> SUFFICES ASSUME Inv, NEW f \in used  PROVE Users(f) # {}
      BY DEF NoPageLost
    <2>1. f \in Frames /\ At(Memory, f) # {}
      BY DEF Inv, Good, Memories, Memory, Refs
    <2> QED  BY <2>1, UsersAre
  <1> QED  BY <1>1, AddressSpaceInvariant, PTL

\* Each process has memory of its own, whether fork copies or shares: every step is one
\* of PrivateMemory or changes nothing that a process sees (copy_range, page_insert,
\* page_remove_pte, the store fault).
THEOREM MemoryIsPrivate == Spec => ImplementsPrivateMemory
  <1>1. Init => Promise!Init
    BY Start
  <1>2. Inv /\ [Next]_vars => [Promise!Next]_<<alive, [p \in Procs |-> [v \in VPages |-> Seen(p, v)]]>>
    BY InvStep DEF Contents
  <1> QED  BY <1>1, <1>2, AddressSpaceInvariant, PTL DEF Spec, ImplementsPrivateMemory, Promise!Spec

=============================================================================
