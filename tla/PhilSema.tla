------------------------------ MODULE PhilSema ------------------------------
(***************************************************************************)
(* The dining philosophers with semaphores, lab8/kern/sync/check_sync.c.   *)
(* A step is a piece of code between two semaphore operations, so a        *)
(* philosopher may be stopped at each of them; the kernel stops a kernel   *)
(* thread only where it sleeps, which is one of these places.              *)
(***************************************************************************)
EXTENDS Philosophers

VARIABLES
    state_sema,         \* THINKING, HUNGRY or EATING
    mutex,              \* semaphore of the critical section
    s,                  \* one semaphore per philosopher
    pc,
    iter                \* meals eaten

vars == <<state_sema, mutex, s, pc, iter>>

\* think and eat are the two do_sleep calls; take and put are inside the critical
\* section, testleft and testright the two tests of phi_put_forks_sema, wait is
\* behind down(&s[i]).
Labels == {"think", "take", "taken", "wait", "eat", "put", "testleft", "testright",
           "putdone", "quit"}

TypeOK ==
    /\ state_sema \in [Phil -> {"THINKING", "HUNGRY", "EATING"}]
    /\ mutex \in Semaphores(Phil)
    /\ s \in [Phil -> Semaphores(Phil)]
    /\ pc \in [Phil -> Labels]
    /\ iter \in [Phil -> 0 .. TIMES]

Init ==
    /\ state_sema = [i \in Phil |-> "THINKING"]
    /\ mutex = sem_init(1)
    /\ s = [i \in Phil |-> sem_init(0)]
    /\ pc = [i \in Phil |-> "think"]
    /\ iter = [i \in Phil |-> 0]

Awake(i) == ~SleepsOn(mutex, i) /\ \A j \in Phil : ~SleepsOn(s[j], i)

At(i, l) == pc[i] = l /\ Awake(i)

Goto(i, l) == pc' = [pc EXCEPT ![i] = l]

\* Mutant: the right neighbour is not looked at.
MayEatLeft(st, j) == st[j] = "HUNGRY" /\ st[LEFT(j)] # "EATING"

\* The condition of phi_test_sema.
MayEat(st, j) ==
    st[j] = "HUNGRY" /\ st[LEFT(j)] # "EATING" /\ st[RIGHT(j)] # "EATING"

\* phi_test_sema(j) with the states st: let j eat if it may.
phi_test_sema(st, j) ==
    /\ state_sema' = IF MayEat(st, j) THEN [st EXCEPT ![j] = "EATING"] ELSE st
    /\ s' = IF MayEat(st, j) THEN [s EXCEPT ![j] = up(@)] ELSE s

\* Both functions enter the critical section with down(&mutex).
Enter(i) ==
    /\ At(i, "think") \/ At(i, "eat")
    /\ mutex' = down(mutex, i)
    /\ Goto(i, IF pc[i] = "think" THEN "take" ELSE "put")
    /\ UNCHANGED <<state_sema, s, iter>>

\* phi_take_forks_sema.
TakeTest(i) ==
    /\ At(i, "take")
    /\ phi_test_sema([state_sema EXCEPT ![i] = "HUNGRY"], i)
    /\ Goto(i, "taken")
    /\ UNCHANGED <<mutex, iter>>

TakeLeave(i) ==
    /\ At(i, "taken")
    /\ mutex' = up(mutex)
    /\ Goto(i, "wait")
    /\ UNCHANGED <<state_sema, s, iter>>

TakeWait(i) ==
    /\ At(i, "wait")
    /\ s' = [s EXCEPT ![i] = down(@, i)]
    /\ Goto(i, "eat")
    /\ UNCHANGED <<state_sema, mutex, iter>>

\* phi_put_forks_sema.
PutThinking(i) ==
    /\ At(i, "put")
    /\ state_sema' = [state_sema EXCEPT ![i] = "THINKING"]
    /\ Goto(i, "testleft")
    /\ UNCHANGED <<mutex, s, iter>>

\* Mutant: the left neighbour is tested twice.
PutTestLeftTwice(i) ==
    /\ At(i, "testleft") \/ At(i, "testright")
    /\ phi_test_sema(state_sema, LEFT(i))
    /\ Goto(i, IF pc[i] = "testleft" THEN "testright" ELSE "putdone")
    /\ UNCHANGED <<mutex, iter>>

PutTest(i) ==
    /\ At(i, "testleft") \/ At(i, "testright")
    /\ phi_test_sema(state_sema, IF pc[i] = "testleft" THEN LEFT(i) ELSE RIGHT(i))
    /\ Goto(i, IF pc[i] = "testleft" THEN "testright" ELSE "putdone")
    /\ UNCHANGED <<mutex, iter>>

\* Mutant: one meal too many.
OnceMore(i) == iter[i] < TIMES

\* while (iter++ < TIMES), after a meal.
Again(i) == iter[i] + 1 < TIMES

PutLeave(i) ==
    /\ At(i, "putdone")
    /\ mutex' = up(mutex)
    /\ iter' = [iter EXCEPT ![i] = @ + 1]
    /\ Goto(i, IF Again(i) THEN "think" ELSE "quit")
    /\ UNCHANGED <<state_sema, s>>

Step(i) ==
    \/ Enter(i)
    \/ TakeTest(i) \/ TakeLeave(i) \/ TakeWait(i)
    \/ PutThinking(i) \/ PutTest(i) \/ PutLeave(i)

AllQuit == \A i \in Phil : pc[i] = "quit"

-----------------------------------------------------------------------------
\* What philosopher i itself does, whatever the table says of it: it eats from
\* the return of phi_take_forks_sema until it has given the forks back.
Doing(i) ==
    CASE pc[i] \in {"eat", "put"} /\ ~SleepsOn(s[i], i) -> "EATING"
      [] pc[i] \in {"think", "testleft", "testright", "putdone", "quit"} -> "THINKING"
      [] OTHER -> "HUNGRY"

Promise == INSTANCE Dining WITH phil <- [i \in Phil |-> Doing(i)]

\* The solution with semaphores keeps the promise: nobody eats beside an eating
\* neighbour, although the forks are passed on by a table, a mutex and one
\* semaphore each.
ImplementsDining == Promise!Spec

\* A unit in s[i] stands for a meal granted and not begun, and there is at most
\* one; the table says EATING exactly from the grant to the end of the meal: to
\* whoever it says so has a unit waiting or is eating, and conversely.
GrantsMatch ==
    \A i \in Phil :
        /\ s[i].value <= 1
        /\ s[i].value = 1 => pc[i] \in {"taken", "wait"} /\ state_sema[i] = "EATING"
        /\ Doing(i) = "EATING" => state_sema[i] = "EATING"
        /\ state_sema[i] = "EATING" => s[i].value = 1 \/ Doing(i) = "EATING"
        /\ SleepsOn(s[i], i) => state_sema[i] = "HUNGRY" /\ s[i].value = 0

=============================================================================
