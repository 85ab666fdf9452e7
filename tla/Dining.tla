------------------------------- MODULE Dining -------------------------------
(***************************************************************************)
(* What both solutions of the dining philosophers in lab8/kern/sync/       *)
(* check_sync.c promise: a philosopher thinks, gets hungry, eats, and      *)
(* eats only while neither neighbour does.                                 *)
(***************************************************************************)
EXTENDS Integers

CONSTANT N

VARIABLE phil

Phil == 0 .. N - 1
LEFT(i) == (i - 1 + N) % N
RIGHT(i) == (i + 1) % N

Init == phil = [i \in Phil |-> "THINKING"]

GetHungry(i) ==
    /\ phil[i] = "THINKING"
    /\ phil' = [phil EXCEPT ![i] = "HUNGRY"]

Eat(i) ==
    /\ phil[i] = "HUNGRY"
    /\ phil[LEFT(i)] # "EATING" /\ phil[RIGHT(i)] # "EATING"
    /\ phil' = [phil EXCEPT ![i] = "EATING"]

Finish(i) ==
    /\ phil[i] = "EATING"
    /\ phil' = [phil EXCEPT ![i] = "THINKING"]

Next == \E i \in Phil : GetHungry(i) \/ Eat(i) \/ Finish(i)

Spec == Init /\ [][Next]_phil

=============================================================================
