---------------------------- MODULE Philosophers ----------------------------
(***************************************************************************)
(* What the two halves of lab8/kern/sync/check_sync.c share: the table.    *)
(***************************************************************************)
EXTENDS Semaphore

CONSTANTS N,            \* philosophers
          TIMES         \* meals of each

ASSUME PhilAssumption == N \in Nat /\ N > 1 /\ TIMES \in Nat \ {0}

Phil == 0 .. N - 1
LEFT(i) == (i - 1 + N) % N
RIGHT(i) == (i + 1) % N

=============================================================================
