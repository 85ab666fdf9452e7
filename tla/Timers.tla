------------------------------- MODULE Timers -------------------------------
(***************************************************************************)
(* The kernel's timer list, lab8/kern/schedule/sched.c.                    *)
(*                                                                         *)
(* A timer is a process and a number of ticks.  The list is kept in        *)
(* deadline order and is delta encoded: the "expires" of an entry is the   *)
(* number of ticks between the deadline of the entry before it and its     *)
(* own, so a tick only touches the head of the list.  The timer of do_sleep*)
(* lives on the sleeping process's kernel stack: a process has at most one *)
(* timer, and the process names it.                                        *)
(***************************************************************************)
EXTENDS Integers, Sequences, FiniteSets, SequencesExt

\* The processes that have a timer on the list.
TimerProcs(list) == {list[i].proc : i \in DOMAIN list}

\* The list with d added to the delta of entry i, if there is one.
Shift(list, i, d) ==
    [j \in DOMAIN list |->
        IF j = i THEN [list[j] EXCEPT !.expires = @ + d] ELSE list[j]]

\* What the loop of add_timer has left of the new timer's ticks when it looks
\* at entry i: it subtracts the delta of every entry it passes.
Left(list, time) ==
    LET left[i \in 1 .. Len(list) + 1] ==
            IF i = 1 THEN time ELSE left[i - 1] - list[i - 1].expires
    IN  left

\* Mutant: the loop stops at an entry with the same deadline.
PassedStrictly(list, left) ==
    {i \in DOMAIN list : \A j \in 1 .. i : left[j] > list[j].expires}

\* The entries the loop passes: it stops at the first one that is strictly
\* later, so a timer goes behind the timers with its own deadline.
Passed(list, left) ==
    {i \in DOMAIN list : \A j \in 1 .. i : left[j] >= list[j].expires}

\* add_timer: insert the timer behind the entries passed; the delta of the entry
\* behind it is counted from the new timer from now on.
add_timer(list, proc, time) ==
    LET left == Left(list, time)
        pos  == Cardinality(Passed(list, left)) + 1
    IN  InsertAt(Shift(list, pos, 0 - left[pos]), pos,
                 [proc |-> proc, expires |-> left[pos]])

\* Mutant: the delta of the removed timer is lost.
del_timer_NoShift(list, proc) ==
    SelectSeq(list, LAMBDA timer : timer.proc # proc)

\* del_timer: unlink the timer of proc, if it is linked, and hand its delta
\* to the entry behind it.
del_timer(list, proc) ==
    IF proc \notin TimerProcs(list)
    THEN list
    ELSE LET pos == CHOOSE i \in DOMAIN list : list[i].proc = proc
         IN  RemoveAt(Shift(list, pos + 1, list[pos].expires), pos)

=============================================================================
