----------------------------- MODULE Semaphore ------------------------------
(***************************************************************************)
(* Kernel semaphores, lab8/kern/sync/sem.c, on top of the wait queues of   *)
(* wait.c.  A semaphore is a value and a queue of sleeping processes.  up  *)
(* and down run with interrupts off.  WT_KSEM has no WT_INTERRUPTED bit,   *)
(* so only up wakes a process that sleeps in down, and it takes it off the *)
(* queue: a process on no queue may go on after its down.                  *)
(***************************************************************************)
EXTENDS Integers, Sequences

Semaphores(Procs) == [value : Nat, wait_queue : Seq(Procs)]

sem_init(n) == [value |-> n, wait_queue |-> <<>>]

\* Mutant: the value grows although the unit goes to the process woken.
up_Both(sem) ==
    [value |-> sem.value + 1,
     wait_queue |-> IF sem.wait_queue = <<>> THEN <<>> ELSE Tail(sem.wait_queue)]

\* up: the unit goes to the first sleeper if there is one.
up(sem) ==
    IF sem.wait_queue = <<>>
    THEN [sem EXCEPT !.value = @ + 1]
    ELSE [sem EXCEPT !.wait_queue = Tail(@)]

\* down: take a unit, or sleep at the end of the queue.
down(sem, p) ==
    IF sem.value > 0
    THEN [sem EXCEPT !.value = @ - 1]
    ELSE [sem EXCEPT !.wait_queue = Append(@, p)]

SleepsOn(sem, p) == \E i \in DOMAIN sem.wait_queue : sem.wait_queue[i] = p

=============================================================================
