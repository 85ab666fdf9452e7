---------------------------- MODULE AddressSpace ----------------------------
(***************************************************************************)
(* The address spaces of user processes: page tables, frames and their     *)
(* reference counts, lab5/kern/mm/pmm.c; the list of mapped areas,         *)
(* lab5/kern/mm/vmm.c; copy_mm, do_exit, load_icode and do_execve of       *)
(* lab5/kern/process/proc.c; the store fault of lab5/kern/trap/trap.c.     *)
(*                                                                         *)
(* A system call or a fault runs with interrupts off and is one step; the  *)
(* stores of the user programs come in any order between them.  Every      *)
(* address space belongs to one process (only kernel threads, which have   *)
(* none, are created with CLONE_VM).  Frames come from any page allocator  *)
(* that keeps PageAllocator's promise; kmalloc is taken to succeed.  A     *)
(* frame that holds a page of a program has a name; of the others, which   *)
(* serve as page tables and are never shared, only the number is kept.     *)
(***************************************************************************)
EXTENDS Integers, Sequences, FiniteSetsExt, SequencesExt

CONSTANTS
    Procs,              \* slots for processes
    First,              \* the process that runs at the start, a kernel thread
    NFrames,            \* page frames
    NPTEENTRY, NPDEENTRY, NDirs,    \* pages per table, tables per directory, directories
    StackPages,         \* pages of the stack that load_icode maps (4)
    Programs,           \* sequences of segments [start, end, write]
    Values              \* contents of a page; 0 is what a program starts with

VPages == 0 .. NPTEENTRY * NPDEENTRY * NDirs - 1
TopPage == NPTEENTRY * NPDEENTRY * NDirs        \* USTACKTOP

Segments ==
    {s \in [start : VPages, end : 0 .. TopPage, write : BOOLEAN] : s.start < s.end}

ASSUME SpaceAssumption ==
    /\ IsFiniteSet(Procs) /\ First \in Procs
    /\ NPTEENTRY \in Nat \ {0} /\ NPDEENTRY \in Nat \ {0} /\ NDirs \in Nat \ {0}
    /\ NFrames \in Nat /\ StackPages \in 1 .. TopPage - 1
    /\ 0 \in Values /\ Values \subseteq Nat
    /\ Programs \subseteq Seq(Segments)

VARIABLES
    share,              \* dup_mmap's flag: copy-on-write instead of a copy
    alive,              \* processes that exist
    as,                 \* address space (mm) of each
    used,               \* frames that hold pages of programs
    tables,             \* number of frames that are in use and hold no such page
    page_ref,
    content,            \* what is in a frame
    panicked

vars == <<share, alive, as, used, tables, page_ref, content, panicked>>

Frames == 0 .. NFrames - 1
NULL == -1

Tables == 0 .. NPDEENTRY * NDirs - 1
Dirs == 0 .. NDirs - 1
PTX(v) == v \div NPTEENTRY              \* the table of a page
PDX(v) == PTX(v) \div NPDEENTRY         \* the directory of a page
DirOf(t) == t \div NPDEENTRY

INVALID == [frame |-> NULL, w |-> FALSE, cow |-> FALSE]

\* No mm: root is the pgdir, pd are the valid entries of level 1, pt those of level 0.
NoMm == [root |-> FALSE,
         pd |-> {},
         pt |-> {},
         pte |-> [v \in VPages |-> INVALID],
         mmap |-> <<>>]

Spaces ==
    [root : BOOLEAN,
     pd : SUBSET Dirs,
     pt : SUBSET Tables,
     pte : [VPages -> [frame : Frames \cup {NULL}, w : BOOLEAN, cow : BOOLEAN]],
     mmap : Seq([start : VPages, end : 0 .. TopPage])]

TypeOK ==
    /\ share \in BOOLEAN /\ panicked \in BOOLEAN
    /\ alive \subseteq Procs
    /\ used \subseteq Frames
    /\ tables \in Nat /\ tables + Cardinality(used) <= NFrames
    /\ page_ref \in [Frames -> 0 .. Cardinality(Procs)]
    /\ content \in [Frames -> Values]
    /\ as \in [Procs -> Spaces]

-----------------------------------------------------------------------------
(* Frames.  An operation is a function on the memory m: used, tables, ref, *)
(* content, as, and err, which says how the call ended.                    *)

Memory ==
    [used |-> used, tables |-> tables, ref |-> page_ref, content |-> content, as |-> as,
     err |-> "ok"]

Fail(m, e) == [m EXCEPT !.err = e]

\* alloc_page finds nothing.
Full(m) == m.tables + Cardinality(m.used) >= NFrames

\* alloc_page for a page of a program: the frame, and what is put into it.
alloc_page(m) == Min(Frames \ m.used)
Taken(m, f, x) == [m EXCEPT !.used = @ \cup {f}, !.content[f] = x]

\* free_page; what a free frame holds is forgotten.
free_page(m, f) == [m EXCEPT !.used = @ \ {f}, !.ref[f] = 0, !.content[f] = 0]

-----------------------------------------------------------------------------
(* Page tables.                                                            *)

\* get_pte(pgdir, la, 0) is not NULL.
HasPte(a, v) == PDX(v) \in a.pd /\ PTX(v) \in a.pt

Mapped(a, v) == HasPte(a, v) /\ a.pte[v].frame # NULL

\* A new directory and a new table are empty.
NewDir(m, p, d) ==
    LET a == m.as[p]
    IN  [m EXCEPT !.tables = @ + 1,
                  !.as[p] = [a EXCEPT !.pd = a.pd \cup {d},
                                      !.pt = {t \in a.pt : DirOf(t) # d}]]

NewTable(m, p, t) ==
    LET a == m.as[p]
    IN  [m EXCEPT !.tables = @ + 1,
                  !.as[p] = [a EXCEPT !.pt = a.pt \cup {t},
                                      !.pte = [v \in VPages |->
                                                  IF PTX(v) = t THEN INVALID ELSE a.pte[v]]]]

\* get_pte(pgdir, la, 1).
get_pte(m, p, v) ==
    LET m1 == IF PDX(v) \in m.as[p].pd THEN m
              ELSE IF Full(m) THEN Fail(m, "nomem") ELSE NewDir(m, p, PDX(v))
    IN  IF m1.err # "ok" \/ PTX(v) \in m1.as[p].pt THEN m1
        ELSE IF Full(m1) THEN Fail(m1, "nomem") ELSE NewTable(m1, p, PTX(v))

\* Mutant: the count is not taken back.
RemoveCounted(m, p, v) == [m EXCEPT !.as[p].pte[v] = INVALID]

page_remove_pte(m, p, v) ==
    LET f == m.as[p].pte[v].frame
        m1 == [m EXCEPT !.ref[f] = @ - 1, !.as[p].pte[v] = INVALID]
    IN  IF f = NULL THEN m
        ELSE IF m1.ref[f] = 0 THEN free_page(m1, f) ELSE m1

\* page_insert once the table is there.
Enter(m, p, v, pte) ==
    LET f == pte.frame
        m1 == [m EXCEPT !.ref[f] = @ + 1]
        m2 == IF m1.as[p].pte[v].frame = f THEN [m1 EXCEPT !.ref[f] = @ - 1]
              ELSE page_remove_pte(m1, p, v)
    IN  [m2 EXCEPT !.as[p].pte[v] = pte]

page_insert(m, p, f, v, w, cow) ==
    LET m1 == get_pte(m, p, v)
    IN  IF m1.err # "ok" THEN m1 ELSE Enter(m1, p, v, [frame |-> f, w |-> w, cow |-> cow])

\* pgdir_alloc_page, and what is written to the page then.
pgdir_alloc_page(m, p, v, w, x) ==
    LET f == alloc_page(m)
        m1 == page_insert(Taken(m, f, x), p, f, v, w, FALSE)
    IN  IF Full(m) THEN Fail(m, "nomem")
        ELSE IF m1.err # "ok" THEN free_page(m1, f)
        ELSE m1

\* Do op for every element of s in turn, as long as nothing fails.
Each(m, s, op(_, _)) ==
    FoldLeft(LAMBDA n, x : IF n.err = "ok" THEN op(n, x) ELSE n, m, s)

\* The pages of a vma, upwards.
Area(vma) == [i \in 1 .. vma.end - vma.start |-> vma.start + i - 1]

unmap_range(m, p, vma) ==
    Each(m, Area(vma), LAMBDA n, v : IF HasPte(n.as[p], v) THEN page_remove_pte(n, p, v) ELSE n)

\* The tables of directory d that exit_range looks at.
Visited(vma, d) ==
    {t \in Tables : DirOf(t) = d /\ PTX(vma.start) <= t /\ t * NPTEENTRY < vma.end}

\* exit_range: free the tables that are empty, and a directory if none of the entries
\* visited was invalid: an entry that was not visited may still be valid.
exit_range(m, p, vma) ==
    LET a == m.as[p]
        dirs == {d \in a.pd : PDX(vma.start) <= d /\ d <= PDX(vma.end - 1)}
        empty == {t \in a.pt \cap UNION {Visited(vma, d) : d \in dirs} :
                     \A v \in VPages : PTX(v) = t => a.pte[v].frame = NULL}
        gone == {d \in dirs : Visited(vma, d) \subseteq a.pt}
    IN  [m EXCEPT !.tables = @ - Cardinality(empty) - Cardinality(gone),
                  !.as[p] = [a EXCEPT !.pd = a.pd \ gone,
                                      !.pt = {t \in a.pt \ empty : DirOf(t) \notin gone}]]

\* Mutant: the pages are not unmapped first.
exit_mmap_TablesOnly(m, p) ==
    Each(m, m.as[p].mmap, LAMBDA n, vma : exit_range(n, p, vma))

exit_mmap(m, p) ==
    Each(Each(m, m.as[p].mmap, LAMBDA n, vma : unmap_range(n, p, vma)),
         m.as[p].mmap, LAMBDA n, vma : exit_range(n, p, vma))

\* exit_mmap, put_pgdir and mm_destroy, if there is an mm; err is left as it was.
Drop(m, p) ==
    IF ~m.as[p].root THEN m
    ELSE [exit_mmap(Fail(m, "ok"), p) EXCEPT
             !.tables = @ - 1, !.as[p] = NoMm, !.err = m.err]

-----------------------------------------------------------------------------
(* Mapped areas.                                                           *)

Holds(vma, v) == vma.start <= v /\ v < vma.end

\* mm_map with find_vma and insert_vma_struct, which goes to the first area (next) that
\* starts later and asserts that nothing overlaps.
mm_map(m, p, vma) ==
    LET list == m.as[p].mmap
        next == Min({i \in DOMAIN list : list[i].start > vma.start} \cup {Len(list) + 1})
    IN  IF \E i \in DOMAIN list : Holds(list[i], vma.start) THEN Fail(m, "inval")
        ELSE IF next \in DOMAIN list /\ vma.end > list[next].start THEN Fail(m, "panic")
        ELSE [m EXCEPT !.as[p].mmap = InsertAt(@, next, vma)]

\* setup_pgdir.
setup_pgdir(m, p) ==
    IF Full(m) THEN Fail(m, "nomem")
    ELSE [m EXCEPT !.tables = @ + 1, !.as[p].root = TRUE]

-----------------------------------------------------------------------------
(* fork.                                                                   *)

\* The shared page of copy_range: both lose the right to write.  perm is masked with
\* PTE_USER, which has no PTE_COW: a page that was shared before reaches the child
\* without the mark.
Shared(m, p, c, v) ==
    LET pte == m.as[p].pte[v]
        m1 == IF pte.w THEN [m EXCEPT !.as[p].pte[v] = [pte EXCEPT !.w = FALSE, !.cow = TRUE]]
              ELSE m
    IN  page_insert(m1, c, pte.frame, v, FALSE, pte.w)

\* Copy page v for the child.  The new frame is allocated, and asserted to be there,
\* before share is looked at; when the page is shared nothing refers to the frame.
CopyPage(m, p, c, v) ==
    LET m1 == get_pte(m, c, v)
        f == alloc_page(m1)
        pte == m.as[p].pte[v]
    IN  IF m1.err # "ok" THEN m1
        ELSE IF Full(m1) THEN Fail(m1, "panic")
        ELSE IF share THEN Shared([m1 EXCEPT !.tables = @ + 1], p, c, v)
        ELSE page_insert(Taken(m1, f, m1.content[pte.frame]), c, f, v, pte.w, FALSE)

copy_range(m, p, c, vma) ==
    Each(m, Area(vma), LAMBDA n, v : IF Mapped(n.as[p], v) THEN CopyPage(n, p, c, v) ELSE n)

\* dup_mmap goes through the list from its end.
dup_mmap(m, p, c) ==
    Each(m, Reverse(m.as[p].mmap),
         LAMBDA n, vma : copy_range([n EXCEPT !.as[c].mmap = <<vma>> \o @], p, c, vma))

copy_mm(m, p, c) ==
    LET m1 == setup_pgdir(m, c)
        m2 == dup_mmap(m1, p, c)
    IN  IF ~m.as[p].root THEN m
        ELSE IF m1.err # "ok" THEN m1
        ELSE IF m2.err \in {"ok", "panic"} THEN m2
        ELSE Drop(m2, c)

-----------------------------------------------------------------------------
(* exec.                                                                   *)

\* A segment of the program: its area, and pages with the contents of the file.
LoadSegment(m, p, seg) ==
    LET m1 == mm_map(m, p, [start |-> seg.start, end |-> seg.end])
    IN  Each(m1, Area(seg), LAMBDA n, v : pgdir_alloc_page(n, p, v, seg.write, 0))

\* The stack: one page of its area is left unmapped; the pages mapped hold what was
\* in them (x).  Their allocation is asserted.
LoadStack(m, p, x) ==
    LET area == [start |-> TopPage - StackPages - 1, end |-> TopPage]
        m1 == mm_map(m, p, area)
        m2 == Each(m1, [i \in 1 .. StackPages |-> TopPage - i],
                   LAMBDA n, v : pgdir_alloc_page(n, p, v, TRUE, x))
    IN  IF m.err # "ok" THEN m
        ELSE IF m1.err # "ok" THEN m1
        ELSE IF m2.err = "nomem" THEN Fail(m2, "panic") ELSE m2

load_icode(m, p, prog, x) ==
    LET m1 == setup_pgdir(m, p)
        m2 == Each(m1, prog, LAMBDA n, seg : LoadSegment(n, p, seg))
        m3 == LoadStack(m2, p, x)
    IN  IF m1.err # "ok" THEN m1
        ELSE IF m3.err \in {"ok", "panic"} THEN m3
        ELSE Drop(m3, p)

-----------------------------------------------------------------------------
(* Steps.                                                                  *)

\* A panic stops the machine; otherwise the memory is m.
Become(m) ==
    IF m.err = "panic"
    THEN panicked' = TRUE /\ UNCHANGED <<as, used, tables, page_ref, content>>
    ELSE /\ as' = m.as /\ used' = m.used /\ tables' = m.tables
         /\ page_ref' = m.ref /\ content' = m.content
         /\ UNCHANGED panicked

Init ==
    /\ share \in BOOLEAN
    /\ alive = {First}
    /\ as = [p \in Procs |-> NoMm]
    /\ used = {} /\ tables = 0
    /\ page_ref = [f \in Frames |-> 0]
    /\ content = [f \in Frames |-> 0]
    /\ panicked = FALSE

\* do_fork: a child that could not get its memory is not created.
Fork(p, c) ==
    /\ ~panicked /\ p \in alive /\ c \notin alive
    /\ LET m == copy_mm(Memory, p, c)
       IN  /\ Become(m)
           /\ alive' = IF m.err = "ok" THEN alive \cup {c} ELSE alive
    /\ UNCHANGED share

\* do_execve: when load_icode fails the process exits.
Exec(p, prog) ==
    /\ ~panicked /\ p \in alive
    /\ \E x \in Values :
           LET m == load_icode(Drop(Memory, p), p, prog, x)
           IN  /\ Become(m)
               /\ alive' = IF m.err \in {"ok", "panic"} THEN alive ELSE alive \ {p}
    /\ UNCHANGED share

\* do_exit, and the parent's do_wait.
Exit(p) ==
    /\ ~panicked /\ p \in alive
    /\ Become(Drop(Memory, p))
    /\ alive' = alive \ {p}
    /\ UNCHANGED share

\* A store of the user program that the page table allows.
Store(p, v, x) ==
    /\ ~panicked
    /\ Mapped(as[p], v) /\ as[p].pte[v].w
    /\ content' = [content EXCEPT ![as[p].pte[v].frame] = x]
    /\ UNCHANGED <<share, alive, as, used, tables, page_ref, panicked>>

\* Mutant: the last owner is not looked for; everybody writes in place.
TakeOver(m, p, v) == [m EXCEPT !.as[p].pte[v].w = TRUE, !.as[p].pte[v].cow = FALSE]

\* The store fault on a copy-on-write page: a copy, or the page itself if nobody else
\* has it.  Any other store fault is reported and taken again.
Own(m, p, v) ==
    LET pte == m.as[p].pte[v]
        old == pte.frame
        f == alloc_page(m)
    IN  IF m.ref[old] = 1
        THEN [m EXCEPT !.as[p].pte[v] = [pte EXCEPT !.w = TRUE, !.cow = FALSE]]
        ELSE IF Full(m) THEN Fail(m, "panic")
        ELSE page_insert(Taken(m, f, m.content[old]), p, f, v, TRUE, FALSE)

StoreFault(p, v) ==
    /\ ~panicked
    /\ Mapped(as[p], v) /\ as[p].pte[v].cow
    /\ Become(Own(Memory, p, v))
    /\ UNCHANGED <<share, alive>>

Next ==
    \E p \in Procs :
        \/ \E c \in Procs : Fork(p, c)
        \/ \E prog \in Programs : Exec(p, prog)
        \/ Exit(p)
        \/ \E v \in VPages : StoreFault(p, v) \/ \E x \in Values : Store(p, v, x)

Spec == Init /\ [][Next]_vars

-----------------------------------------------------------------------------
\* What process p has at page v.
Seen(p, v) == IF Mapped(as[p], v) THEN content[as[p].pte[v].frame] ELSE NULL

Promise == INSTANCE PrivateMemory WITH
    None <- NULL, mem <- [p \in Procs |-> [v \in VPages |-> Seen(p, v)]]

\* A store is seen by nobody else, a child gets exactly its parent's memory, and a
\* fault, an exit or an exec of another process changes nothing, whether fork copies
\* or shares (copy_range, page_insert, page_remove_pte, the store fault).
ImplementsPrivateMemory == Promise!Spec

Users(f) == {pv \in Procs \X VPages : Mapped(as[pv[1]], pv[2]) /\ as[pv[1]].pte[pv[2]].frame = f}

\* The tables that an address space refers to.
TablesOf(a) ==
    (IF a.root THEN 1 ELSE 0) + Cardinality(a.pd)
        + Cardinality({t \in a.pt : DirOf(t) \in a.pd})

\* page_ref counts the mappings of a user page, also after forks, faults and exits in
\* any order, and a page that is mapped is not free; no table in use is free: the
\* allocator counts at least those there are (page_insert, page_remove_pte, get_pte,
\* exit_range).
RefsExact ==
    /\ \A f \in Frames : Users(f) # {} =>
           page_ref[f] = Cardinality(Users(f)) /\ f \in used
    /\ tables >= SumFunctionOnSet([p \in Procs |-> TablesOf(as[p])], Procs)

\* An exit, a failed exec or a failed fork gives every page of the program back, as
\* does a fault that replaces one: a page in use is mapped.  (What exit_range can lose
\* are page tables, and copy_range with share a frame it allocates in vain.)
NoPageLost == \A f \in used : Users(f) # {}

=============================================================================
