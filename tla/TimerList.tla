----------------------------- MODULE TimerList ------------------------------
(***************************************************************************)
(* The timer list at work: processes arm timers (do_sleep calls add_timer),*)
(* cancel them when they are woken early (do_sleep calls del_timer after   *)
(* schedule returns) and the clock interrupt runs run_timer_list.  All     *)
(* three run with interrupts off, so an arm or a cancel never happens in   *)
(* the middle of run_timer_list.                                           *)
(***************************************************************************)
EXTENDS Timers

CONSTANTS Proc,         \* the processes that may sleep
          Times         \* the ticks they may sleep

ASSUME TimesAssumption == Times \subseteq Nat \ {0}

VARIABLES
    timer_list,         \* sequence of [proc, expires]
    ticking,            \* run_timer_list is between its decrement and its end
    armed,              \* history: the armed processes, oldest first
    woken               \* history: what this tick has called wakeup_proc for, in order

vars == <<timer_list, ticking, armed, woken>>

TypeOK ==
    /\ timer_list \in Seq([proc : Proc, expires : Nat])
    /\ ticking \in BOOLEAN
    /\ armed \in Seq(Proc)
    /\ woken \in Seq(Proc)

\* p leaves the history.
Disarm(p) == armed' = RemoveAt(armed, CHOOSE i \in DOMAIN armed : armed[i] = p)

Init ==
    /\ timer_list = <<>>
    /\ ticking = FALSE
    /\ armed = <<>>
    /\ woken = <<>>

Arm(p, t) ==
    /\ ~ticking
    /\ p \notin TimerProcs(timer_list)
    /\ timer_list' = add_timer(timer_list, p, t)
    /\ armed' = Append(armed, p)
    /\ UNCHANGED <<ticking, woken>>

Cancel(p) ==
    /\ ~ticking
    /\ p \in TimerProcs(timer_list)
    /\ timer_list' = del_timer(timer_list, p)
    /\ Disarm(p)
    /\ UNCHANGED <<ticking, woken>>

\* run_timer_list up to its loop: decrement the head, if there is one.
TickStart ==
    /\ ~ticking
    /\ timer_list' = Shift(timer_list, 1, 0 - 1)
    /\ ticking' = TRUE
    /\ woken' = <<>>
    /\ UNCHANGED armed

HeadDue == timer_list # <<>> /\ Head(timer_list).expires = 0

\* Mutant: one timer is woken per tick.
ExpireOne ==
    /\ ticking
    /\ HeadDue
    /\ timer_list' = del_timer(timer_list, Head(timer_list).proc)
    /\ Disarm(Head(timer_list).proc)
    /\ woken' = Append(woken, Head(timer_list).proc)
    /\ ticking' = FALSE

\* One turn of the loop of run_timer_list: wake the head and delete it.
Expire ==
    /\ ticking
    /\ HeadDue
    /\ timer_list' = del_timer(timer_list, Head(timer_list).proc)
    /\ Disarm(Head(timer_list).proc)
    /\ woken' = Append(woken, Head(timer_list).proc)
    /\ UNCHANGED ticking

TickEnd ==
    /\ ticking
    /\ ~HeadDue
    /\ ticking' = FALSE
    /\ UNCHANGED <<timer_list, armed, woken>>

Next ==
    \/ \E p \in Proc, t \in Times : Arm(p, t)
    \/ \E p \in Proc : Cancel(p)
    \/ TickStart
    \/ Expire
    \/ TickEnd

Spec == Init /\ [][Next]_vars

-----------------------------------------------------------------------------
\* "assert(timer->expires != 0)" at the top of run_timer_list: between ticks
\* the head of the list is never due.  Whatever the order in which timers are
\* armed and cancelled, a due timer is never left behind on the list.
HeadNotDue == ~ticking => ~HeadDue

\* The deltas in front of and including the entry of p add up to the ticks
\* until p's own deadline.
TicksLeft(p) ==
    LET pos == CHOOSE i \in DOMAIN timer_list : timer_list[i].proc = p
        sum[i \in 0 .. pos] ==
            IF i = 0 THEN 0 ELSE sum[i - 1] + timer_list[i].expires
    IN  sum[pos]

Promise == INSTANCE Deadlines WITH
              remaining <- [p \in TimerProcs(timer_list) |-> TicksLeft(p)],
              fired <- woken

\* The delta list implements independent countdowns: arming or cancelling one
\* timer moves no other deadline, a timer wakes its process at exactly its own tick, and
\* processes whose timers are due together are woken in the order in which those were
\* armed (add_timer, del_timer, run_timer_list).
ImplementsDeadlines == Promise!Spec

=============================================================================
