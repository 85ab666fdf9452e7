----------------------------- MODULE CheckSync ------------------------------
(***************************************************************************)
(* check_sync of lab8/kern/sync/check_sync.c, run by init_main: the        *)
(* philosophers with semaphores (PhilSema), and when all of them have      *)
(* exited and been waited for, the philosophers with a monitor             *)
(* (PhilMonitor).                                                          *)
(***************************************************************************)
EXTENDS Philosophers

VARIABLES
    checking,           \* where check_sync is: semaphore, monitor or done
    state_sema, mutex, s, pc_sema, iter_sema,
    state_condvar, mt_mutex, mt_next, mt_next_count, cv_sem, cv_count,
    pc_condvar, iter_condvar

semaVars == <<state_sema, mutex, s, pc_sema, iter_sema>>
condvarVars == <<state_condvar, mt_mutex, mt_next, mt_next_count, cv_sem, cv_count,
                 pc_condvar, iter_condvar>>
vars == <<checking, semaVars, condvarVars>>

Sema == INSTANCE PhilSema WITH pc <- pc_sema, iter <- iter_sema

Condvar == INSTANCE PhilMonitor WITH
    mutex <- mt_mutex, next <- mt_next, next_count <- mt_next_count,
    sem <- cv_sem, count <- cv_count, pc <- pc_condvar, iter <- iter_condvar

TypeOK ==
    /\ checking \in {"semaphore", "monitor", "done"}
    /\ Sema!TypeOK
    /\ Condvar!TypeOK

Init == checking = "semaphore" /\ Sema!Init /\ Condvar!Init

SemaStep(i) ==
    /\ checking = "semaphore"
    /\ Sema!Step(i)
    /\ UNCHANGED <<checking, condvarVars>>

CondvarStep(i) ==
    /\ checking = "monitor"
    /\ Condvar!Step(i)
    /\ UNCHANGED <<checking, semaVars>>

\* The loops of do_wait: the half is over when every philosopher has quit.
Reap ==
    /\ \/ checking = "semaphore" /\ Sema!AllQuit /\ checking' = "monitor"
       \/ checking = "monitor" /\ Condvar!AllQuit /\ checking' = "done"
    /\ UNCHANGED <<semaVars, condvarVars>>

Done == checking = "done" /\ UNCHANGED vars

Next ==
    \/ \E i \in Phil : SemaStep(i) \/ CondvarStep(i)
    \/ Reap
    \/ Done

\* A process that can go on does (Kernel!NoStarvation and Kernel!SleepEnds).
Spec ==
    /\ Init /\ [][Next]_vars
    /\ \A i \in Phil : WF_vars(SemaStep(i)) /\ WF_vars(CondvarStep(i))
    /\ WF_vars(Reap)

-----------------------------------------------------------------------------
\* With semaphores: a unit of s[i] is a meal granted and not begun, and the table
\* says EATING exactly from the grant to the end of the meal (phi_test_sema,
\* phi_take_forks_sema).
GrantsMatch == Sema!GrantsMatch

\* At most one process executes inside the monitor, and the mutex is open exactly
\* when nobody does (cond_wait, cond_signal and the two leaves).
OneInMonitor == Condvar!OneInMonitor

\* The counters the hand-over of the monitor depends on count the processes that
\* wait (cond_wait, cond_signal).
CountsExact == Condvar!CountsExact

\* Both solutions keep the promise of Dining: nobody eats beside an eating
\* neighbour, although the forks are passed on by a table and semaphores.
ImplementsDining == Sema!ImplementsDining /\ Condvar!ImplementsDining

\* check_sync comes to its end, whatever the order in which the philosophers run:
\* none waits for ever, for a fork or for the monitor.
EveryoneQuits == <>(checking = "done" /\ Sema!AllQuit /\ Condvar!AllQuit)

=============================================================================
