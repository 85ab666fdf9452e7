----------------------------- MODULE Deadlines ------------------------------
(***************************************************************************)
(* What the timer list promises, without a list: every armed timer counts  *)
(* down by one at each tick and fires when its own count reaches zero, no  *)
(* tick passes over a timer that is due nor can that timer be cancelled,   *)
(* and timers that are due at the same tick fire in the order in which     *)
(* they were armed.                                                        *)
(***************************************************************************)
EXTENDS Naturals, Sequences, SequencesExt

CONSTANTS Proc,     \* the processes
          Times     \* the ticks a timer may be armed with

VARIABLES
    armed,          \* the processes with an armed timer, oldest first
    remaining,      \* for each of them, the ticks until its deadline
    fired           \* the processes whose timers have fired since the last tick, in order

vars == <<armed, remaining, fired>>

Due(p) == p \in DOMAIN remaining /\ remaining[p] = 0

Forget(p) ==
    /\ armed' = RemoveAt(armed, CHOOSE i \in DOMAIN armed : armed[i] = p)
    /\ remaining' = [q \in DOMAIN remaining \ {p} |-> remaining[q]]

Init ==
    /\ armed = <<>>
    /\ remaining = <<>>
    /\ fired = <<>>

Arm(p, t) ==
    /\ p \notin DOMAIN remaining
    /\ armed' = Append(armed, p)
    /\ remaining' = [q \in DOMAIN remaining \cup {p} |->
                        IF q = p THEN t ELSE remaining[q]]
    /\ UNCHANGED fired

Cancel(p) ==
    /\ p \in DOMAIN remaining /\ ~Due(p)
    /\ Forget(p)
    /\ UNCHANGED fired

Tick ==
    /\ \A p \in DOMAIN remaining : remaining[p] > 0
    /\ remaining' = [p \in DOMAIN remaining |-> remaining[p] - 1]
    /\ fired' = <<>>
    /\ UNCHANGED armed

\* The oldest timer that is due fires.
Fire(p) ==
    /\ Due(p)
    /\ \A i, j \in DOMAIN armed :
          armed[j] = p /\ Due(armed[i]) => j <= i
    /\ Forget(p)
    /\ fired' = Append(fired, p)

Next ==
    \/ \E p \in Proc, t \in Times : Arm(p, t)
    \/ \E p \in Proc : Cancel(p) \/ Fire(p)
    \/ Tick

Spec == Init /\ [][Next]_vars

=============================================================================
