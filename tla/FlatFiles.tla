------------------------------ MODULE FlatFiles -----------------------------
(***************************************************************************)
(* What the file system calls of lab8 promise a program: every file is a   *)
(* row of cells that changes only where somebody writes, and survives      *)
(* being closed and the machine being shut down.  The disk may get full:   *)
(* then a write writes less and a seek past the end fails.                 *)
(*                                                                         *)
(* The machine halts in two situations: a write at a position past the end *)
(* of the file, where another program has cut the file meanwhile, and a    *)
(* cut of a file that a failed seek has left strained.                     *)
(***************************************************************************)
EXTENDS Integers, Sequences

CONSTANTS File, Proc, FD, Data, NULL, MaxLen, MaxPos

VARIABLES
    contents,           \* the cells of each file
    desc,               \* the descriptors of each process, or NULL
    strained,           \* files that have room they do not use
    halted

flatVars == <<contents, desc, strained, halted>>

Open(p, fd) == desc[p] # NULL /\ desc[p][fd] # NULL

\* s with zeros up to length n, if it is shorter.
Padded(s, n) ==
    [i \in 1 .. (IF n > Len(s) THEN n ELSE Len(s)) |-> IF i <= Len(s) THEN s[i] ELSE 0]

\* s after a write of n cells at pos: a file that ends before pos is extended to it,
\* even by a write that finds no room at all.
Overwritten(s, pos, n, v) ==
    [i \in 1 .. Len(Padded(s, pos + n)) |->
        IF i \in pos + 1 .. pos + n THEN v ELSE Padded(s, pos + n)[i]]

\* What happens to the descriptors of p, and to nothing else.
Move(p, to) == desc' = [desc EXCEPT ![p] = to]

Quiet == UNCHANGED <<contents, halted>> /\ strained' \in SUBSET strained

\* A descriptor at the beginning of a file, or at its end.
Opened(p, fd, f) ==
    /\ desc[p] # NULL /\ desc[p][fd] = NULL
    /\ desc'[p] # NULL /\ desc'[p][fd] # NULL
    /\ Move(p, [desc[p] EXCEPT ![fd] = desc'[p][fd]])
    /\ desc'[p][fd].node = f /\ desc'[p][fd].pos \in {0, Len(contents'[f])}

OpenFile(p, fd, f) == Opened(p, fd, f) /\ Quiet

Close(p, fds) ==
    /\ desc[p] # NULL
    /\ Move(p, [fd \in FD |-> IF fd \in fds THEN NULL ELSE desc[p][fd]])
    /\ Quiet

Dup(p, fd1, fd2) ==
    /\ Open(p, fd1) /\ desc[p][fd2] = NULL
    /\ Move(p, [desc[p] EXCEPT ![fd2] = desc[p][fd1]])
    /\ Quiet

\* Reading stops at the end of the file.
Read(p, fd) ==
    /\ Open(p, fd) /\ desc[p][fd].readable
    /\ \E pos \in desc[p][fd].pos .. Len(contents[desc[p][fd].node]) :
          Move(p, [desc[p] EXCEPT ![fd].pos = pos])
    /\ Quiet

\* open with O_TRUNC or O_CREAT empties the file.
Cut(p, fd, f) ==
    \/ /\ Opened(p, fd, f)
       /\ contents' = [contents EXCEPT ![f] = <<>>]
       /\ strained' = strained \ {f}
       /\ UNCHANGED halted
    \/ /\ halted' = TRUE /\ f \in strained
       /\ UNCHANGED <<desc, contents, strained>>

Write(p, fd, v) ==
    /\ Open(p, fd) /\ desc[p][fd].writable
    /\ LET f == desc[p][fd].node
           pos == desc[p][fd].pos
       IN  \/ \E n \in 0 .. MaxLen :
                 /\ Move(p, [desc[p] EXCEPT ![fd].pos = pos + n])
                 /\ contents' = [contents EXCEPT ![f] = Overwritten(@, pos, n, v)]
                 /\ strained' \in {strained, strained \ {f}}
                 /\ UNCHANGED halted
           \/ /\ halted' = TRUE /\ pos > Len(contents[f])
              /\ UNCHANGED <<desc, contents, strained>>

\* A seek past the end extends the file with zeros, or fails.
Seek(p, fd) ==
    /\ Open(p, fd) /\ UNCHANGED halted
    /\ LET f == desc[p][fd].node
       IN  \/ \E pos \in 0 .. MaxPos :
                 /\ Move(p, [desc[p] EXCEPT ![fd].pos = pos])
                 /\ IF pos > Len(contents[f])
                    THEN /\ contents' = [contents EXCEPT ![f] = Padded(@, pos)]
                         /\ strained' = strained \ {f}
                    ELSE UNCHANGED <<contents, strained>>
           \/ UNCHANGED <<desc, contents>> /\ strained' = strained \cup {f}

\* The child starts with the positions of its parent, and moves its own.
Fork(p, q) ==
    /\ desc[p] # NULL /\ desc[q] = NULL
    /\ desc' = [desc EXCEPT ![q] = desc[p]]
    /\ UNCHANGED <<contents, strained, halted>>

Exit(p) ==
    /\ desc[p] # NULL
    /\ desc' = [desc EXCEPT ![p] = NULL]
    /\ Quiet

\* The machine is shut down and booted.
Boot(p) ==
    /\ \A q \in Proc : desc[q] = NULL
    /\ desc' = [desc EXCEPT ![p] = [fd \in FD |-> NULL]]
    /\ Quiet

Next ==
    /\ ~halted
    /\ \E p \in Proc :
          \/ Exit(p) \/ Boot(p)
          \/ \E fds \in SUBSET FD : Close(p, fds)
          \/ \E fd \in FD :
                \/ Read(p, fd) \/ Seek(p, fd)
                \/ \E v \in Data : Write(p, fd, v)
                \/ \E f \in File : OpenFile(p, fd, f) \/ Cut(p, fd, f)
                \/ \E fd2 \in FD : Dup(p, fd, fd2)
          \/ \E q \in Proc : Fork(p, q)

Init ==
    /\ contents = [f \in File |-> <<>>]
    /\ \E p \in Proc : desc = [q \in Proc |-> IF q = p THEN [fd \in FD |-> NULL] ELSE NULL]
    /\ strained = {} /\ halted = FALSE

Spec == Init /\ [][Next]_flatVars

=============================================================================
