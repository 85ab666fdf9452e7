--------------------------- MODULE PrivateMemory ----------------------------
(***************************************************************************)
(* What the address spaces of lab5 promise a process: memory of its own.   *)
(* A store changes the memory of the process that makes it and of no       *)
(* other, and a child starts with exactly what its parent has.             *)
(***************************************************************************)
EXTENDS Integers

CONSTANTS Procs, VPages, Values, None, First

VARIABLES
    alive,              \* the processes
    mem                 \* what each process has at each page, or None

Nothing == [v \in VPages |-> None]

Init == alive = {First} /\ mem = [p \in Procs |-> Nothing]

Store(p) ==
    /\ \E v \in VPages :
           /\ mem[p][v] # None /\ mem'[p][v] \in Values
           /\ mem' = [mem EXCEPT ![p][v] = mem'[p][v]]
    /\ UNCHANGED alive

Fork(p) ==
    /\ p \in alive
    /\ \E c \in Procs \ alive :
           alive' = alive \cup {c} /\ mem' = [mem EXCEPT ![c] = mem[p]]

\* A new program, with whatever contents.
Exec(p) ==
    /\ p \in alive
    /\ mem'[p] \in [VPages -> Values \cup {None}]
    /\ mem' = [mem EXCEPT ![p] = mem'[p]]
    /\ UNCHANGED alive

Exit(p) ==
    /\ alive' = alive \ {p}
    /\ mem' = [mem EXCEPT ![p] = Nothing]

Next == \E p \in Procs : Store(p) \/ Fork(p) \/ Exec(p) \/ Exit(p)

Spec == Init /\ [][Next]_<<alive, mem>>

=============================================================================
