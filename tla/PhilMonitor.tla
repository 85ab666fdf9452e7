----------------------------- MODULE PhilMonitor ----------------------------
(***************************************************************************)
(* Monitors with condition variables, lab8/kern/sync/monitor.c, and the    *)
(* dining philosophers that use one, lab8/kern/sync/check_sync.c.          *)
(*                                                                         *)
(* A monitor is a mutex, a semaphore "next" for the processes that have    *)
(* signalled and let the process they woke go first, and a semaphore for   *)
(* each condition variable.  Who leaves the monitor, or waits in it, hands *)
(* it to a signaller before it opens the mutex.  A step is a piece of code *)
(* between two places where the process may sleep.                         *)
(***************************************************************************)
EXTENDS Philosophers, FiniteSets

VARIABLES
    state_condvar,      \* THINKING, HUNGRY or EATING
    mutex, next, next_count,        \* the monitor
    sem, count,         \* its condition variables
    pc,
    iter                \* meals eaten

monitor == <<mutex, next, next_count, sem, count>>
vars == <<state_condvar, monitor, pc, iter>>

\* think and eat are the two do_sleep calls.  In phi_take_forks_condvar: take,
\* taketest, signalled (behind cond_signal's down), hungry (the second if), waited
\* (behind cond_wait's down), takeleave.  In phi_put_forks_condvar: put, testleft and
\* leftsignalled, testright and rightsignalled, putleave.
Labels == {"think", "take", "taketest", "signalled", "hungry", "waited", "takeleave", "eat",
           "put", "testleft", "leftsignalled", "testright", "rightsignalled",
           "putleave", "quit"}

\* Where a philosopher goes on when cond_signal returns.
Behind == [signalled |-> "hungry", leftsignalled |-> "testright",
           rightsignalled |-> "putleave"]

TypeOK ==
    /\ state_condvar \in [Phil -> {"THINKING", "HUNGRY", "EATING"}]
    /\ mutex \in Semaphores(Phil) /\ next \in Semaphores(Phil)
    /\ next_count \in Nat
    /\ sem \in [Phil -> Semaphores(Phil)]
    /\ count \in [Phil -> Nat]
    /\ pc \in [Phil -> Labels]
    /\ iter \in [Phil -> 0 .. TIMES]

\* monitor_init and the loop of check_sync.
Init ==
    /\ state_condvar = [i \in Phil |-> "THINKING"]
    /\ mutex = sem_init(1) /\ next = sem_init(0)
    /\ next_count = 0
    /\ sem = [i \in Phil |-> sem_init(0)]
    /\ count = [i \in Phil |-> 0]
    /\ pc = [i \in Phil |-> "think"]
    /\ iter = [i \in Phil |-> 0]

Awake(i) ==
    ~SleepsOn(mutex, i) /\ ~SleepsOn(next, i) /\ \A j \in Phil : ~SleepsOn(sem[j], i)

At(i, l) == pc[i] = l /\ Awake(i)

Goto(i, l) == pc' = [pc EXCEPT ![i] = l]

-----------------------------------------------------------------------------
(* monitor.c.                                                              *)

\* Mutant: the mutex is opened although a signaller waits to go on.
HandOverMutex == mutex' = up(mutex) /\ UNCHANGED next

\* The end of a monitor procedure, and the start of cond_wait: hand the monitor to
\* a signaller, or open it.
HandOver ==
    IF next_count > 0
    THEN next' = up(next) /\ UNCHANGED mutex
    ELSE mutex' = up(mutex) /\ UNCHANGED next

\* Mutant: the signaller goes on beside the process it wakes.
SignalGoesOn(i, j, signalled) ==
    /\ sem' = IF count[j] > 0 THEN [sem EXCEPT ![j] = up(@)] ELSE sem
    /\ Goto(i, Behind[signalled])
    /\ UNCHANGED <<mutex, next, next_count, count>>

\* cond_signal of condition j by i, up to its down; without a waiter it does
\* nothing and i goes on behind it.
Signal(i, j, signalled) ==
    IF count[j] > 0
    THEN /\ next_count' = next_count + 1
         /\ sem' = [sem EXCEPT ![j] = up(@)]
         /\ next' = down(next, i)
         /\ Goto(i, signalled)
         /\ UNCHANGED <<mutex, count>>
    ELSE /\ Goto(i, Behind[signalled])
         /\ UNCHANGED monitor

\* The end of cond_signal: the signaller has got the monitor back.
SignalEnd(i) ==
    /\ \E l \in DOMAIN Behind : At(i, l) /\ Goto(i, Behind[l])
    /\ next_count' = next_count - 1
    /\ UNCHANGED <<state_condvar, mutex, next, sem, count, iter>>

\* cond_wait up to its down.
Wait(i, j, waited) ==
    /\ count' = [count EXCEPT ![j] = @ + 1]
    /\ HandOver
    /\ sem' = [sem EXCEPT ![j] = down(@, i)]
    /\ Goto(i, waited)
    /\ UNCHANGED next_count

\* Mutant: the waiter is counted for ever.
WaitEndKeepsCount(i) ==
    /\ At(i, "waited")
    /\ Goto(i, "takeleave")
    /\ UNCHANGED <<state_condvar, monitor, iter>>

\* The end of cond_wait.
WaitEnd(i) ==
    /\ At(i, "waited")
    /\ count' = [count EXCEPT ![i] = @ - 1]
    /\ Goto(i, "takeleave")
    /\ UNCHANGED <<state_condvar, mutex, next, next_count, sem, iter>>

-----------------------------------------------------------------------------
(* check_sync.c.                                                           *)

\* Mutant: the right neighbour is not looked at.
MayEatLeft(j) == state_condvar[j] = "HUNGRY" /\ state_condvar[LEFT(j)] # "EATING"

\* The condition of phi_test_condvar.
MayEat(j) ==
    /\ state_condvar[j] = "HUNGRY"
    /\ state_condvar[LEFT(j)] # "EATING" /\ state_condvar[RIGHT(j)] # "EATING"

\* phi_test_condvar(j): let j eat if it may, and signal its condition.
phi_test_condvar(i, j, signalled) ==
    IF MayEat(j)
    THEN /\ state_condvar' = [state_condvar EXCEPT ![j] = "EATING"]
         /\ Signal(i, j, signalled)
    ELSE /\ Goto(i, Behind[signalled])
         /\ UNCHANGED <<state_condvar, monitor>>

\* Both functions enter the monitor with down(&(mtp->mutex)).
Enter(i) ==
    /\ At(i, "think") \/ At(i, "eat")
    /\ mutex' = down(mutex, i)
    /\ Goto(i, IF pc[i] = "think" THEN "take" ELSE "put")
    /\ UNCHANGED <<state_condvar, next, next_count, sem, count, iter>>

TakeHungry(i) ==
    /\ At(i, "take")
    /\ state_condvar' = [state_condvar EXCEPT ![i] = "HUNGRY"]
    /\ Goto(i, "taketest")
    /\ UNCHANGED <<monitor, iter>>

TakeTest(i) ==
    /\ At(i, "taketest")
    /\ phi_test_condvar(i, i, "signalled")
    /\ UNCHANGED iter

\* Still hungry: wait for the signal of a neighbour.
TakeWait(i) ==
    /\ At(i, "hungry")
    /\ IF state_condvar[i] = "HUNGRY"
       THEN Wait(i, i, "waited")
       ELSE Goto(i, "takeleave") /\ UNCHANGED monitor
    /\ UNCHANGED <<state_condvar, iter>>

TakeLeave(i) ==
    /\ At(i, "takeleave")
    /\ HandOver
    /\ Goto(i, "eat")
    /\ UNCHANGED <<state_condvar, next_count, sem, count, iter>>

PutThinking(i) ==
    /\ At(i, "put")
    /\ state_condvar' = [state_condvar EXCEPT ![i] = "THINKING"]
    /\ Goto(i, "testleft")
    /\ UNCHANGED <<monitor, iter>>

PutTestLeft(i) ==
    /\ At(i, "testleft")
    /\ phi_test_condvar(i, LEFT(i), "leftsignalled")
    /\ UNCHANGED iter

PutTestRight(i) ==
    /\ At(i, "testright")
    /\ phi_test_condvar(i, RIGHT(i), "rightsignalled")
    /\ UNCHANGED iter

\* Mutant: one meal too many.
OnceMore(i) == iter[i] < TIMES

\* while (iter++ < TIMES), after a meal.
Again(i) == iter[i] + 1 < TIMES

PutLeave(i) ==
    /\ At(i, "putleave")
    /\ HandOver
    /\ iter' = [iter EXCEPT ![i] = @ + 1]
    /\ Goto(i, IF Again(i) THEN "think" ELSE "quit")
    /\ UNCHANGED <<state_condvar, next_count, sem, count>>

Step(i) ==
    \/ Enter(i)
    \/ TakeHungry(i) \/ TakeTest(i) \/ TakeWait(i) \/ WaitEnd(i) \/ TakeLeave(i)
    \/ PutThinking(i) \/ PutTestLeft(i) \/ PutTestRight(i) \/ SignalEnd(i)
    \/ PutLeave(i)

AllQuit == \A i \in Phil : pc[i] = "quit"

-----------------------------------------------------------------------------
Inside == Labels \ {"think", "eat", "quit"}

\* The philosophers that execute inside the monitor.
Active == {i \in Phil : pc[i] \in Inside /\ Awake(i)}

\* At most one process executes inside the monitor, and the mutex is open exactly
\* when the monitor is empty: waiting and signalling pass the monitor on, and
\* never open it to a third process (cond_wait, cond_signal, the two leaves).
OneInMonitor ==
    /\ Cardinality(Active) + mutex.value = 1
    /\ next.value = 0 /\ \A j \in Phil : sem[j].value = 0

\* The two counters the hand-over depends on: next_count is the number of
\* signallers that have not gone on, count[j] that of the processes waiting for j.
CountsExact ==
    /\ next_count = Cardinality({i \in Phil : pc[i] \in DOMAIN Behind})
    /\ \A j \in Phil : count[j] = IF pc[j] = "waited" THEN 1 ELSE 0

\* What philosopher i itself does, whatever the table says of it.
Doing(i) ==
    CASE pc[i] \in {"eat", "put"} -> "EATING"
      [] pc[i] \in {"testleft", "leftsignalled", "testright", "rightsignalled",
                    "putleave", "think", "quit"} -> "THINKING"
      [] OTHER -> "HUNGRY"

Promise == INSTANCE Dining WITH phil <- [i \in Phil |-> Doing(i)]

\* The solution with a monitor keeps the promise: nobody eats beside an eating
\* neighbour.
ImplementsDining == Promise!Spec

=============================================================================
