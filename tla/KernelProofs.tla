---------------------------- MODULE KernelProofs ----------------------------
(***************************************************************************)
(* Proofs about Kernel for any number of processes, any limits and any     *)
(* sleep times.  First the scheduler: the run queue holds exactly the      *)
(* runnable processes, and no process outruns its time slice.  Then the    *)
(* life of a process: the family links are sound, a sleeper has somebody   *)
(* who wakes it, orphans are adopted, and no assertion fails.              *)
(***************************************************************************)
EXTENDS Kernel, SeqLemmas, FiniteSetTheorems, TLAPS


-----------------------------------------------------------------------------
(* The timer list.                                                         *)

\* The part of the timer list's type that the scheduler relies on: every timer
\* belongs to a process.
TimersOwned(list) == \E X : list \in Seq([proc : Proc, expires : X])

\* Changing a delta changes no owner.
LEMMA ShiftOwned ==
    ASSUME NEW list, TimersOwned(list), NEW i, NEW d
    PROVE  /\ TimersOwned(Shift(list, i, d))
           /\ Len(Shift(list, i, d)) = Len(list)
           /\ Len(list) \in Nat
  <1>1. PICK X : list \in Seq([proc : Proc, expires : X])
    BY DEF TimersOwned
  <1> DEFINE Y == X \cup {x + d : x \in X}
             T == [proc : Proc, expires : Y]
             n == Len(list)
  <1>2. n \in Nat /\ DOMAIN list = 1 .. n
    BY <1>1, LenProperties
  <1>3. \A j \in 1 .. n : Shift(list, i, d)[j] \in T
    <2> SUFFICES ASSUME NEW j \in 1 .. n  PROVE Shift(list, i, d)[j] \in T
      OBVIOUS
    <2>1. list[j] \in [proc : Proc, expires : X]
      BY <1>1, ElementOfSeq
    <2>2. CASE j = i
      <3>1. Shift(list, i, d)[j] = [list[j] EXCEPT !.expires = @ + d]
        BY <1>2, <2>2 DEF Shift
      <3>2. list[j].expires + d \in Y
        BY <2>1
      <3> HIDE DEF Y
      <3>3. [list[j] EXCEPT !.expires = @ + d] \in T
        BY <2>1, <3>2
      <3> QED  BY <3>1, <3>3
    <2>3. CASE j # i
      <3>1. Shift(list, i, d)[j] = list[j]
        BY <1>2, <2>3 DEF Shift
      <3> QED  BY <2>1, <3>1
    <2> QED  BY <2>2, <2>3
  <1>4. Shift(list, i, d) = [j \in 1 .. n |-> Shift(list, i, d)[j]]
    BY <1>2 DEF Shift
  <1> HIDE DEF T, n
  <1>5. Shift(list, i, d) \in [1 .. n -> T]
    BY <1>3, <1>4
  <1>6. Shift(list, i, d) \in Seq(T)
    BY <1>2, <1>5, SeqDef
  <1>7. DOMAIN Shift(list, i, d) = 1 .. Len(Shift(list, i, d))
    BY <1>6, LenProperties
  <1>8. Len(Shift(list, i, d)) = n
    BY <1>2, <1>5, <1>6, LenProperties
  <1> QED  BY <1>2, <1>6, <1>8 DEF TimersOwned, T, n

\* add_timer adds a timer of the process it is called for.
LEMMA AddOwned ==
    ASSUME NEW list, TimersOwned(list), NEW p \in Proc, NEW t
    PROVE  TimersOwned(add_timer(list, p, t))
  <1> DEFINE left == Left(list, t)
             pos  == Cardinality(Passed(list, left)) + 1
             rest == Shift(list, pos, 0 - left[pos])
  <1>1. Len(list) \in Nat /\ DOMAIN list = 1 .. Len(list)
    BY LenProperties DEF TimersOwned
  <1>2. /\ IsFiniteSet(1 .. Len(list))
        /\ Cardinality(1 .. Len(list)) = Len(list)
    <2>1. 1 \in Int /\ Len(list) \in Int
      BY <1>1
    <2>2. /\ IsFiniteSet(1 .. Len(list))
          /\ Cardinality(1 .. Len(list)) = IF 1 > Len(list) THEN 0 ELSE Len(list) - 1 + 1
      BY <2>1, FS_Interval
    <2>3. (IF 1 > Len(list) THEN 0 ELSE Len(list) - 1 + 1) = Len(list)
      BY <1>1
    <2> QED  BY <2>2, <2>3
  <1>3. Passed(list, left) \subseteq 1 .. Len(list)
    BY <1>1 DEF Passed
  <1>4. pos \in 1 .. Len(list) + 1
    <2>1. /\ IsFiniteSet(Passed(list, left))
          /\ Cardinality(Passed(list, left)) <= Len(list)
      BY <1>2, <1>3, FS_Subset
    <2>2. Cardinality(Passed(list, left)) \in Nat
      BY <2>1, FS_CardinalityType
    <2> QED  BY <1>1, <2>1, <2>2
  <1> HIDE DEF left, pos
  <1>5. TimersOwned(rest) /\ Len(rest) = Len(list)
    BY ShiftOwned
  <1>6. PICK X : rest \in Seq([proc : Proc, expires : X])
    BY <1>5 DEF TimersOwned
  <1> DEFINE T == [proc : Proc, expires : X \cup {left[pos]}]
             new == [proc |-> p, expires |-> left[pos]]
  <1> HIDE DEF rest
  <1>7. rest \in Seq(T)
    <2>1. [proc : Proc, expires : X] \subseteq T
      OBVIOUS
    <2> QED  BY <1>6, <2>1, SeqMonotonic
  <1>8. new \in T
    OBVIOUS
  <1> HIDE DEF T, new
  <1>9. InsertAt(rest, pos, new) \in Seq(T)
    BY <1>4, <1>5, <1>7, <1>8, InsertAtType
  <1> QED  BY <1>9 DEF TimersOwned, T, new, rest, left, pos, add_timer

\* del_timer adds none.
LEMMA DelOwned ==
    ASSUME NEW list, TimersOwned(list), NEW p
    PROVE  TimersOwned(del_timer(list, p))
  <1>1. CASE p \notin TimerProcs(list)
    BY <1>1 DEF del_timer
  <1>2. CASE p \in TimerProcs(list)
    <2> DEFINE pos  == CHOOSE i \in DOMAIN list : list[i].proc = p
               rest == Shift(list, pos + 1, list[pos].expires)
    <2>1. pos \in DOMAIN list
      BY <1>2 DEF TimerProcs
    <2>2. DOMAIN list = 1 .. Len(list)
      BY LenProperties DEF TimersOwned
    <2> HIDE DEF pos
    <2>3. TimersOwned(rest) /\ Len(rest) = Len(list)
      BY ShiftOwned
    <2>4. PICK X : rest \in Seq([proc : Proc, expires : X])
      BY <2>3 DEF TimersOwned
    <2> HIDE DEF rest
    <2>5. RemoveAt(rest, pos) \in Seq([proc : Proc, expires : X])
      BY <2>1, <2>2, <2>3, <2>4, RemoveAtProperties
    <2>6. del_timer(list, p) = RemoveAt(rest, pos)
      BY <1>2 DEF del_timer, rest, pos
    <2> QED  BY <2>5, <2>6 DEF TimersOwned
  <1> QED  BY <1>1, <1>2


-----------------------------------------------------------------------------
(* The invariant.                                                          *)

\* TypeOK without the deltas of the timers and without nr_process.
SchedType ==
    /\ state \in [Proc -> {"FREE", "UNINIT", "SLEEPING", "RUNNABLE", "ZOMBIE"}]
    /\ need_resched \in [Proc -> BOOLEAN]
    /\ parent \in [Proc -> Proc \cup {NULL}]
    /\ time_slice \in [Proc -> 0 .. MAX_TIME_SLICE]
    /\ pc \in [Proc -> Labels]
    /\ arg \in [Proc -> Proc \cup {NULL}]
    /\ current \in Proc
    /\ insched \in BOOLEAN
    /\ run_list \in Seq(Proc \ {idleproc})
    /\ TimersOwned(timer_list)
    /\ halted \in {"NO", "OFF", "PANIC"}

Inv == SchedType /\ SchedInv

\* The proofs' own notation for the run queue.
LEMMA QueueNotation ==
    /\ \A p : InQueue(p) <=> On(run_list, p)
    /\ RunQueueExact <=>
          (halted = "NO" =>
              /\ Once(run_list)
              /\ \A p \in Proc : On(run_list, p) <=> /\ state[p] = "RUNNABLE"
                                                     /\ p \notin {current, idleproc})
  BY DEF InQueue, RunQueueExact, Once, On

\* The same in the state after a step.
LEMMA QueueNotationNext ==
    /\ \A p : InQueue(p)' <=> On(run_list', p)
    /\ RunQueueExact' <=>
          (halted' = "NO" =>
              /\ Once(run_list')
              /\ \A p \in Proc : On(run_list', p) <=> /\ state'[p] = "RUNNABLE"
                                                      /\ p \notin {current', idleproc})
  BY DEF InQueue, RunQueueExact, Once, On

\* The invariant holds when the scheduler starts.
LEMMA SchedInit == Init => Inv
  <1> SUFFICES ASSUME Init  PROVE Inv
    OBVIOUS
  <1> USE KernelAssumption DEF Init
  <1>1. <<initproc>> \in Seq(Proc \ {idleproc})
    BY DEF Proc
  <1>2. TimersOwned(<<>>)
    BY EmptySeq DEF TimersOwned
  <1>3. SchedType
    <2>1. /\ need_resched \in [Proc -> BOOLEAN]
          /\ current \in Proc
      BY DEF Proc
    <2>2. time_slice \in [Proc -> 0 .. MAX_TIME_SLICE]
      OBVIOUS
    <2>3. /\ state \in [Proc -> {"FREE", "UNINIT", "SLEEPING", "RUNNABLE", "ZOMBIE"}]
          /\ pc \in [Proc -> Labels]
      BY DEF Labels
    <2>4. /\ parent \in [Proc -> Proc \cup {NULL}]
          /\ arg \in [Proc -> Proc \cup {NULL}]
      BY DEF Proc
    <2> QED  BY <1>1, <1>2, <2>1, <2>2, <2>3, <2>4 DEF SchedType
  <1>4. \A p : InQueue(p) <=> p = initproc
    BY DEF InQueue
  <1>5. RunQueueExact
    BY <1>4 DEF RunQueueExact, Proc
  <1>6. SchedInv
    BY <1>4, <1>5 DEF SchedInv, SliceUsedUp, Proc
  <1> QED  BY <1>3, <1>6 DEF Inv


-----------------------------------------------------------------------------
(* Waking a process.                                                       *)

\* What most steps do to the run queue: it stays exact, with ticks for every
\* process on it, and no other process than current stops being runnable.
QueueOK ==
    /\ state' \in [Proc -> {"FREE", "UNINIT", "SLEEPING", "RUNNABLE", "ZOMBIE"}]
    /\ time_slice' \in [Proc -> 0 .. MAX_TIME_SLICE]
    /\ run_list' \in Seq(Proc \ {idleproc})
    /\ halted' \in {"NO", "OFF", "PANIC"}
    /\ RunQueueExact'
    /\ halted' = "NO" => \A q \in Proc : On(run_list', q) => time_slice'[q] > 0
    /\ \A q \in Proc : q # current /\ state[q] = "RUNNABLE" => state'[q] = "RUNNABLE"

\* The same for a step after which current is as runnable as before and has
\* not run out of ticks.
WakeOK ==
    /\ QueueOK
    /\ state[current] = "RUNNABLE" => state'[current] = "RUNNABLE"
    /\ time_slice'[current] = 0 => time_slice[current] = 0

\* RR_enqueue gives the process ticks to run.
LEMMA RefilledPositive ==
    ASSUME Inv, NEW p \in Proc
    PROVE  /\ Refilled(p) \in [Proc -> 0 .. MAX_TIME_SLICE]
           /\ Refilled(p)[p] > 0
           /\ \A q \in Proc : q # p => Refilled(p)[q] = time_slice[q]
  BY KernelAssumption DEF Refilled, Inv, SchedType

\* wakeup_proc puts a process that becomes runnable on the queue.
LEMMA WakeupKeepsQueue ==
    ASSUME Inv, halted = "NO", NEW p \in Proc, wakeup_proc(p), current' = current
    PROVE  WakeOK
  <1>1. /\ state \in [Proc -> {"FREE", "UNINIT", "SLEEPING", "RUNNABLE", "ZOMBIE"}]
        /\ time_slice \in [Proc -> 0 .. MAX_TIME_SLICE]
        /\ run_list \in Seq(Proc \ {idleproc})
        /\ Once(run_list)
        /\ \A q \in Proc : On(run_list, q) <=> /\ state[q] = "RUNNABLE"
                                               /\ q \notin {current, idleproc}
        /\ \A q \in Proc : On(run_list, q) => time_slice[q] > 0
        /\ current \in Proc
    BY QueueNotation DEF Inv, SchedType, SchedInv
  <1>2. CASE state[p] \in {"RUNNABLE", "ZOMBIE"}
    <2>1. /\ state' = state /\ time_slice' = time_slice /\ run_list' = run_list
          /\ halted' \in {"NO", "PANIC"}
      BY <1>2 DEF wakeup_proc, Check, queue
    <2>2. RunQueueExact'
      BY <1>1, <2>1 DEF RunQueueExact, InQueue, Once, On
    <2> QED  BY <1>1, <2>1, <2>2 DEF WakeOK, QueueOK
  <1>3. CASE state[p] \notin {"RUNNABLE", "ZOMBIE"}
    <2>1. /\ state' = [state EXCEPT ![p] = "RUNNABLE"]
          /\ state' \in [Proc -> {"FREE", "UNINIT", "SLEEPING", "RUNNABLE", "ZOMBIE"}]
      BY <1>1, <1>3 DEF wakeup_proc
    <2>3. CASE p \in {current, idleproc}
      <3>1. halted' = halted /\ time_slice' = time_slice /\ run_list' = run_list
        BY <1>3, <2>3 DEF wakeup_proc, Enqueue, queue
      <3>2. RunQueueExact'
        BY <1>1, <2>1, <2>3, <3>1 DEF RunQueueExact, InQueue, Once, On
      <3> QED  BY <1>1, <2>1, <3>1, <3>2 DEF WakeOK, QueueOK
    <2>4. CASE p \notin {current, idleproc}
      <3>1. /\ run_list' = Append(run_list, p)
            /\ time_slice' = Refilled(p)
            /\ halted' = "NO"
        <4>1. ~InQueue(p)
          BY <1>1, <1>3, QueueNotation
        <4> QED  BY <1>3, <2>4, <4>1 DEF wakeup_proc, Enqueue, Queued, Check
      <3>2. /\ run_list' \in Seq(Proc \ {idleproc})
            /\ \A x : On(run_list', x) <=> On(run_list, x) \/ x = p
            /\ Once(run_list')
        BY <1>1, <1>3, <2>4, <3>1, AppendOnce
      <3>3. RunQueueExact'
        <4>1. ASSUME NEW q \in Proc
              PROVE  On(run_list', q) <=> /\ state'[q] = "RUNNABLE"
                                          /\ q \notin {current', idleproc}
          <5>1. CASE q = p
            BY <1>1, <2>1, <2>4, <3>2, <5>1
          <5>2. CASE q # p
            BY <1>1, <2>1, <3>2, <5>2
          <5> QED  BY <5>1, <5>2
        <4> QED  BY <3>2, <4>1, QueueNotationNext
      <3>4. /\ time_slice' \in [Proc -> 0 .. MAX_TIME_SLICE]
            /\ time_slice'[p] > 0
            /\ \A q \in Proc : q # p => time_slice'[q] = time_slice[q]
        BY <3>1, RefilledPositive
      <3>5. /\ \A q \in Proc : On(run_list', q) => time_slice'[q] > 0
            /\ time_slice'[current] = 0 => time_slice[current] = 0
        <4>1. ASSUME NEW q \in Proc
              PROVE  /\ On(run_list', q) => time_slice'[q] > 0
                     /\ time_slice'[q] = 0 => time_slice[q] = 0
          <5>1. CASE q = p
            BY <3>4, <5>1
          <5>2. CASE q # p
            BY <1>1, <3>2, <3>4, <5>2
          <5> QED  BY <5>1, <5>2
        <4>2. current \in Proc
          BY DEF Inv, SchedType
        <4> QED  BY <4>1, <4>2
      <3> QED  BY <1>1, <2>1, <3>1, <3>2, <3>3, <3>4, <3>5 DEF WakeOK, QueueOK
    <2> QED  BY <2>3, <2>4
  <1> QED  BY <1>2, <1>3

\* Nor does a step that wakes nobody disturb the queue.
LEMMA NoWakeupKeepsQueue ==
    ASSUME Inv, halted = "NO",
           UNCHANGED <<state, queue, halted>>, current' = current
    PROVE  WakeOK
  BY QueueNotation DEF Inv, SchedType, SchedInv, RunQueueExact, InQueue, On, WakeOK, QueueOK, queue


\* A process that is not on the queue changes its state, to one that keeps it
\* off the queue.
LEMMA StateKeepsQueue ==
    ASSUME Inv, halted = "NO", NEW q \in Proc,
           NEW v \in {"FREE", "UNINIT", "SLEEPING", "ZOMBIE"},
           q = current \/ state[q] # "RUNNABLE",
           state' = [state EXCEPT ![q] = v],
           run_list' = run_list, current' = current,
           time_slice' \in [Proc -> 0 .. MAX_TIME_SLICE],
           \A p \in Proc : p # q => time_slice'[p] = time_slice[p],
           halted' \in {"NO", "OFF", "PANIC"}
    PROVE  QueueOK
  <1>1. /\ state \in [Proc -> {"FREE", "UNINIT", "SLEEPING", "RUNNABLE", "ZOMBIE"}]
        /\ run_list \in Seq(Proc \ {idleproc})
        /\ Once(run_list)
        /\ \A p \in Proc : On(run_list, p) <=> /\ state[p] = "RUNNABLE"
                                               /\ p \notin {current, idleproc}
        /\ \A p \in Proc : On(run_list, p) => time_slice[p] > 0
    BY QueueNotation DEF Inv, SchedType, SchedInv
  <1>2. ~On(run_list, q)
    BY <1>1
  <1>3. state' \in [Proc -> {"FREE", "UNINIT", "SLEEPING", "RUNNABLE", "ZOMBIE"}]
    BY <1>1
  <1>4. ASSUME NEW p \in Proc
        PROVE  /\ On(run_list', p) <=> state'[p] = "RUNNABLE" /\ p \notin {current', idleproc}
               /\ On(run_list', p) => time_slice'[p] > 0
               /\ p # current /\ state[p] = "RUNNABLE" => state'[p] = "RUNNABLE"
    <2>1. CASE p = q
      BY <1>1, <1>2, <2>1
    <2>2. CASE p # q
      BY <1>1, <2>2
    <2> QED  BY <2>1, <2>2
  <1>5. RunQueueExact'
    BY <1>1, <1>4, QueueNotationNext
  <1> QED  BY <1>1, <1>3, <1>4, <1>5 DEF QueueOK

\* The parts of the invariant put together again.
LEMMA Assemble ==
    ASSUME Inv, halted = "NO", QueueOK, current' = current,
           need_resched' \in [Proc -> BOOLEAN],
           parent' \in [Proc -> Proc \cup {NULL}],
           pc' \in [Proc -> Labels],
           arg' \in [Proc -> Proc \cup {NULL}],
           insched' \in BOOLEAN,
           TimersOwned(timer_list'),
           SliceUsedUp',
           insched' \/ state'[current] = "RUNNABLE" \/ pc'[current] \in {"notify", "reparent"},
           current # idleproc \/ state'[current] = state[current],
           pc'[idleproc] = pc[idleproc],
           \A p \in Proc : pc'[p] = "forkwake" =>
              \/ p # current /\ pc[p] = "forkwake" /\ arg'[p] = arg[p]
              \/ arg'[p] \in User /\ state'[p] = "RUNNABLE"
    PROVE  Inv'
  <1>1. SchedType'
    BY DEF SchedType, Inv, QueueOK
  <1>2. idleproc \in Proc
    BY DEF Proc
  <1>3. /\ pc'[idleproc] = "idle"
        /\ state'[idleproc] = "RUNNABLE"
    BY <1>2 DEF Inv, SchedInv, QueueOK
  <1>4. \A p \in Proc : pc'[p] = "forkwake" => arg'[p] \in User /\ state'[p] = "RUNNABLE"
    BY DEF Inv, SchedInv, QueueOK
  <1>5. halted' = "NO" => \A p \in Proc : InQueue(p)' => time_slice'[p] > 0
    BY QueueNotationNext DEF QueueOK
  <1>6. SchedInv'
    BY <1>3, <1>4, <1>5 DEF SchedInv, QueueOK
  <1> QED  BY <1>1, <1>6 DEF Inv


\* A step that leaves the hart with current and moves it to another label.
LEMMA Handler ==
    ASSUME Inv, halted = "NO", WakeOK, current' = current, current # idleproc,
           NEW l \in Labels \ {"forkwake"}, Goto(l),
           need_resched' \in [Proc -> BOOLEAN],
           need_resched[current] => need_resched'[current],
           parent' \in [Proc -> Proc \cup {NULL}],
           arg' \in [Proc -> Proc \cup {NULL}],
           \A p \in Proc : p # current => arg'[p] = arg[p],
           insched' \in BOOLEAN,
           insched' \/ state[current] = "RUNNABLE" \/ l \in {"notify", "reparent"},
           TimersOwned(timer_list')
    PROVE  Inv'
  <1>1. /\ current \in Proc /\ idleproc \in Proc
        /\ pc \in [Proc -> Labels]
    BY DEF Inv, SchedType, Proc
  <1>2. /\ pc' \in [Proc -> Labels]
        /\ pc'[current] = l
        /\ \A p \in Proc : p # current => pc'[p] = pc[p]
    BY <1>1 DEF Goto
  <1>3. SliceUsedUp'
    BY DEF Inv, SchedInv, SliceUsedUp, WakeOK
  <1>4. insched' \/ state'[current] = "RUNNABLE" \/ pc'[current] \in {"notify", "reparent"}
    BY <1>2 DEF WakeOK
  <1>5. \A p \in Proc : pc'[p] = "forkwake" =>
           p # current /\ pc[p] = "forkwake" /\ arg'[p] = arg[p]
    BY <1>2
  <1> QED  BY <1>1, <1>2, <1>3, <1>4, <1>5, Assemble DEF WakeOK

\* A step that only moves current to another label.
LEMMA Move ==
    ASSUME Inv, halted = "NO", current # idleproc,
           NEW l \in Labels \ {"forkwake"}, Goto(l),
           UNCHANGED <<state, queue, halted, current, parent, timer_list>>,
           need_resched' \in [Proc -> BOOLEAN],
           need_resched[current] => need_resched'[current],
           arg' \in [Proc -> Proc \cup {NULL}],
           \A p \in Proc : p # current => arg'[p] = arg[p],
           insched' \in BOOLEAN,
           insched' \/ state[current] = "RUNNABLE" \/ l \in {"notify", "reparent"}
    PROVE  Inv'
  <1>1. WakeOK
    BY NoWakeupKeepsQueue
  <1>2. /\ parent' \in [Proc -> Proc \cup {NULL}]
        /\ TimersOwned(timer_list')
        /\ current' = current
    BY DEF Inv, SchedType
  <1> QED  BY <1>1, <1>2, Handler

\* Where the hart executes: the facts every step starts from.
Executing ==
    /\ halted = "NO" /\ insched = FALSE
    /\ current \in Proc /\ current # idleproc
    /\ need_resched \in [Proc -> BOOLEAN]
    /\ parent \in [Proc -> Proc \cup {NULL}]
    /\ arg \in [Proc -> Proc \cup {NULL}]
    /\ TimersOwned(timer_list)

\* A process that executes at a label outside the end of do_exit is runnable.
LEMMA AtFacts ==
    ASSUME Inv, NEW l, l # "idle", At(l)
    PROVE  /\ Executing
           /\ l # "notify" /\ l # "reparent" => state[current] = "RUNNABLE"
  BY DEF Executing, Inv, SchedType, SchedInv, At


-----------------------------------------------------------------------------
(* The steps.                                                              *)

\* do_fork: a slot that is not on the queue is allocated.
LEMMA ForkStep ==
    ASSUME Inv, NEW c \in User, do_fork(c), At("user") \/ At("initfork")
    PROVE  Inv'
  <1>1. Executing /\ state[current] = "RUNNABLE"
    BY AtFacts
  <1>2. /\ c \in Proc /\ c # idleproc /\ idleproc \in Proc
        /\ state[c] = "FREE" /\ c # current
    BY <1>1, KernelAssumption DEF Proc, do_fork, Live, Executing
  <1>3. /\ state' = [state EXCEPT ![c] = "UNINIT"]
        /\ run_list' = run_list /\ time_slice' = time_slice
        /\ current' = current /\ insched' = insched
        /\ need_resched' = need_resched /\ timer_list' = timer_list
        /\ arg' = [arg EXCEPT ![current] = c]
        /\ pc' = [pc EXCEPT ![c] = IF kthread[current] THEN "kmain" ELSE "user",
                            ![current] = "forkwake"]
        /\ parent' = [parent EXCEPT ![c] = current]
    BY DEF do_fork, set_links, queue
  <1>4. halted' \in {"NO", "OFF", "PANIC"}
    BY <1>1 DEF do_fork, Check, Executing
  <1>5. time_slice' \in [Proc -> 0 .. MAX_TIME_SLICE]
    BY <1>3 DEF Inv, SchedType
  <1>6. QueueOK
    BY <1>1, <1>2, <1>3, <1>4, <1>5, StateKeepsQueue DEF Executing
  <1>7. /\ pc' \in [Proc -> Labels]
        /\ pc'[current] = "forkwake"
        /\ pc'[c] # "forkwake"
        /\ \A p \in Proc : p # c /\ p # current => pc'[p] = pc[p]
    BY <1>1, <1>2, <1>3 DEF Inv, SchedType, Labels, Executing
  <1>8. /\ arg' \in [Proc -> Proc \cup {NULL}]
        /\ arg'[current] = c
        /\ \A p \in Proc : p # current => arg'[p] = arg[p]
    BY <1>1, <1>2, <1>3 DEF Executing
  <1>9. state'[current] = "RUNNABLE"
    BY <1>1, <1>2, <1>3 DEF Inv, SchedType, Executing
  <1>10. /\ parent' \in [Proc -> Proc \cup {NULL}]
         /\ need_resched' \in [Proc -> BOOLEAN]
    BY <1>1, <1>2, <1>3 DEF Inv, SchedType, Executing
  <1>11. SliceUsedUp'
    BY <1>3 DEF Inv, SchedInv, SliceUsedUp
  <1>12. \A p \in Proc : pc'[p] = "forkwake" =>
            \/ p # current /\ pc[p] = "forkwake" /\ arg'[p] = arg[p]
            \/ arg'[p] \in User /\ state'[p] = "RUNNABLE"
    BY <1>7, <1>8, <1>9
  <1>13. pc'[idleproc] = pc[idleproc]
    BY <1>1, <1>2, <1>7 DEF Executing
  <1> QED
    BY <1>1, <1>3, <1>6, <1>7, <1>8, <1>9, <1>10, <1>11, <1>12, <1>13, Assemble DEF Executing

\* The system calls.
LEMMA UserStepKeepsInv ==
    ASSUME Inv, UserStep  PROVE Inv'
  <1>1. ASSUME NEW c \in User, SysFork(c)  PROVE Inv'
    BY <1>1, ForkStep DEF SysFork
  <1>2. ASSUME NEW q \in User \cup {NULL}, SysWait(q)  PROVE Inv'
    <2>1. Executing /\ state[current] = "RUNNABLE"
      BY <1>2, AtFacts DEF SysWait
    <2>2. /\ UNCHANGED <<state, queue, halted, current, parent, timer_list>>
          /\ need_resched' = need_resched /\ arg' = [arg EXCEPT ![current] = q] /\ insched' = insched
          /\ Goto("wait")
      BY <1>2 DEF SysWait, links
    <2>3. /\ arg' \in [Proc -> Proc \cup {NULL}]
          /\ \A p \in Proc : p # current => arg'[p] = arg[p]
      BY <2>1, <2>2 DEF Proc, Executing
    <2> QED  BY <2>1, <2>2, <2>3, Move DEF Labels, Executing
  <1>3. ASSUME NEW q \in KillTargets, SysKill(q)  PROVE Inv'
    <2>1. Executing /\ state[current] = "RUNNABLE"
      BY <1>3, AtFacts DEF SysKill
    <2>2. q \in Proc
      BY KernelAssumption DEF Proc
    <2>3. /\ current' = current /\ parent' = parent /\ arg' = arg
          /\ need_resched' = need_resched /\ timer_list' = timer_list
          /\ insched' = insched /\ Goto("trapret")
          /\ wakeup_proc(q) \/ NoWakeup
      BY <1>3 DEF SysKill, SyscallReturn, links
    <2>4. WakeOK
      <3>1. CASE wakeup_proc(q)
        BY <2>1, <2>2, <2>3, <3>1, WakeupKeepsQueue DEF Executing
      <3>2. CASE NoWakeup
        BY <2>1, <2>3, <3>2, NoWakeupKeepsQueue DEF NoWakeup, Executing
      <3> QED  BY <2>3, <3>1, <3>2
    <2> QED  BY <2>1, <2>3, <2>4, Handler DEF Labels, Executing
  <1>4. ASSUME NEW t \in SleepTimes, SysSleep(t)  PROVE Inv'
    <2>1. Executing
      BY <1>4, AtFacts DEF SysSleep
    <2>1a. /\ time_slice \in [Proc -> 0 .. MAX_TIME_SLICE]
          /\ pc \in [Proc -> Labels] /\ idleproc \in Proc
      BY DEF Inv, SchedType, Proc
    <2>2. /\ state' = [state EXCEPT ![current] = "SLEEPING"]
          /\ run_list' = run_list /\ time_slice' = time_slice
          /\ current' = current /\ parent' = parent /\ arg' = arg
          /\ need_resched' = need_resched /\ insched' = TRUE
          /\ timer_list' = add_timer(timer_list, current, t)
          /\ pc' = [pc EXCEPT ![current] = "sleepwake"]
      BY <1>4 DEF SysSleep, Goto, links, queue
    <2>3. halted' \in {"NO", "OFF", "PANIC"}
      BY <1>4, <2>1 DEF SysSleep, Check, Executing
    <2>4. QueueOK
      BY <2>1, <2>1a, <2>2, <2>3, StateKeepsQueue DEF Executing
    <2>5. TimersOwned(timer_list')
      BY <2>1, <2>1a, <2>2, AddOwned DEF Executing
    <2>6. SliceUsedUp'
      BY <2>2 DEF Inv, SchedInv, SliceUsedUp
    <2>7. /\ pc' \in [Proc -> Labels]
          /\ pc'[current] # "forkwake"
          /\ \A p \in Proc : p # current => pc'[p] = pc[p]
      BY <2>1, <2>1a, <2>2 DEF Labels, Executing
    <2> QED  BY <2>1, <2>1a, <2>2, <2>4, <2>5, <2>6, <2>7, Assemble DEF Executing
  <1>5. CASE SysExit
    <2>1. Executing /\ state[current] = "RUNNABLE"
      BY <1>5, AtFacts DEF SysExit
    <2>2. /\ UNCHANGED <<state, queue, halted, current, parent, timer_list>>
          /\ need_resched' = need_resched /\ arg' = arg /\ insched' = insched
          /\ Goto("exit")
      BY <1>5 DEF SysExit, links
    <2> QED  BY <2>1, <2>2, Move DEF Labels, Executing
  <1>6. CASE SysYield
    <2>1. Executing /\ state[current] = "RUNNABLE"
      BY <1>6, AtFacts DEF SysYield
    <2>2. /\ UNCHANGED <<state, queue, halted, current, parent, timer_list>>
          /\ need_resched' = [need_resched EXCEPT ![current] = TRUE] /\ arg' = arg /\ insched' = insched
          /\ Goto("trapret")
      BY <1>6 DEF SysYield, links, SyscallReturn
    <2> QED  BY <2>1, <2>2, Move DEF Labels, Executing
  <1>7. CASE SysOther
    <2>1. Executing /\ state[current] = "RUNNABLE"
      BY <1>7, AtFacts DEF SysOther
    <2>2. /\ UNCHANGED <<state, queue, halted, current, parent, timer_list>>
          /\ need_resched' = need_resched /\ arg' = arg /\ insched' = insched
          /\ Goto("trapret")
      BY <1>7 DEF SysOther, links, SyscallReturn
    <2> QED  BY <2>1, <2>2, Move DEF Labels, Executing
  <1> QED
    BY <1>1, <1>2, <1>3, <1>4, <1>5, <1>6, <1>7 DEF UserStep

\* do_fork after wakeup_proc.
LEMMA ForkEndStep ==
    ASSUME Inv, FilesOutcomes = {TRUE}, ForkWake \/ ForkFiles
    PROVE  Inv'
  <1>1. CASE ForkWake
    <2>1. Executing /\ state[current] = "RUNNABLE" /\ pc[current] = "forkwake"
      BY <1>1, AtFacts DEF ForkWake, At
    <2>2. arg[current] \in Proc
      BY <2>1 DEF Inv, SchedInv, Executing, Proc
    <2>3. /\ UNCHANGED <<current, parent, timer_list, need_resched, arg, insched>>
          /\ wakeup_proc(arg[current])
          /\ Goto("forkfiles")
      BY <1>1 DEF ForkWake, links
    <2>4. WakeOK
      BY <2>1, <2>2, <2>3, WakeupKeepsQueue DEF Executing
    <2> QED  BY <2>1, <2>3, <2>4, Handler DEF Labels, Executing
  <1>2. CASE ForkFiles
    <2>1. Executing /\ state[current] = "RUNNABLE"
      BY <1>2, AtFacts DEF ForkFiles
    <2>2. PICK l \in {"wait", "trapret"} : Goto(l)
      BY <1>2 DEF ForkFiles
    <2>3. /\ UNCHANGED <<state, queue, halted, current, parent, timer_list>>
          /\ need_resched' = need_resched /\ insched' = insched
          /\ arg' = [arg EXCEPT ![current] = NULL]
      BY <1>2 DEF ForkFiles, links
    <2>4. /\ arg' \in [Proc -> Proc \cup {NULL}]
          /\ \A p \in Proc : p # current => arg'[p] = arg[p]
      BY <2>1, <2>3 DEF Executing
    <2> QED  BY <2>1, <2>2, <2>3, <2>4, Move DEF Labels, Executing
  <1> QED  BY <1>1, <1>2

\* do_exit: current leaves the runnable processes, and its parent or initproc
\* may be woken.
LEMMA ExitStep ==
    ASSUME Inv, DoExit \/ ExitNotify \/ ExitReparent \/ ExitSchedule
    PROVE  Inv'
  <1>1. CASE DoExit
    <2>1. Executing
      BY <1>1, AtFacts DEF DoExit
    <2>2. /\ state' = [state EXCEPT ![current] = "ZOMBIE"]
          /\ run_list' = run_list /\ time_slice' = time_slice
          /\ UNCHANGED <<current, parent, arg, need_resched, insched, timer_list>>
          /\ pc' = [pc EXCEPT ![current] = "notify"]
      BY <1>1 DEF DoExit, Goto, links, queue
    <2>3. /\ halted' \in {"NO", "OFF", "PANIC"}
      BY <1>1, <2>1 DEF DoExit, Check, Executing
    <2>4. /\ time_slice \in [Proc -> 0 .. MAX_TIME_SLICE]
          /\ pc \in [Proc -> Labels] /\ idleproc \in Proc
      BY DEF Inv, SchedType, Proc
    <2>5. QueueOK
      BY <2>1, <2>2, <2>3, <2>4, StateKeepsQueue DEF Executing
    <2>6. SliceUsedUp'
      BY <2>2 DEF Inv, SchedInv, SliceUsedUp
    <2>7. /\ pc' \in [Proc -> Labels]
          /\ pc'[current] = "notify"
          /\ \A p \in Proc : p # current => pc'[p] = pc[p]
      BY <2>1, <2>2, <2>4 DEF Labels, Executing
    <2> QED  BY <2>1, <2>2, <2>4, <2>5, <2>6, <2>7, Assemble DEF Executing
  <1>2. CASE ExitNotify
    <2>1. Executing
      BY <1>2, AtFacts DEF ExitNotify
    <2>2. /\ UNCHANGED <<current, parent, timer_list, need_resched, arg, insched>>
          /\ Goto("reparent")
      BY <1>2 DEF ExitNotify, links
    <2>3. WakeOK
      <3>1. CASE parent[current] = NULL
        <4>1. halted' = "PANIC" /\ UNCHANGED <<state, queue>>
          BY <1>2, <2>1, <3>1 DEF ExitNotify, Check, Executing
        <4> QED  BY <4>1 DEF WakeOK, QueueOK, RunQueueExact, Inv, SchedType, queue
      <3>2. CASE parent[current] # NULL /\ wakeup_proc(parent[current])
        BY <2>1, <2>2, <3>2, WakeupKeepsQueue DEF Executing
      <3>3. CASE NoWakeup
        BY <2>1, <2>2, <3>3, NoWakeupKeepsQueue DEF NoWakeup, Executing
      <3> QED  BY <1>2, <3>1, <3>2, <3>3 DEF ExitNotify
    <2> QED  BY <2>1, <2>2, <2>3, Handler DEF Labels, Executing
  <1>3. CASE ExitReparent
    <2>1. Executing /\ pc[current] = "reparent"
      BY <1>3, AtFacts DEF ExitReparent, At
    <2>2. /\ UNCHANGED <<current, timer_list, need_resched, arg, insched, pc>>
          /\ parent' = [parent EXCEPT ![cptr[current]] = initproc]
          /\ wakeup_proc(initproc) \/ NoWakeup
      BY <1>3 DEF ExitReparent
    <2>3. initproc \in Proc
      BY DEF Proc
    <2>4. parent' \in [Proc -> Proc \cup {NULL}]
      BY <2>1, <2>2, <2>3 DEF Executing
    <2>5. WakeOK
      <3>1. CASE wakeup_proc(initproc)
        BY <2>1, <2>2, <2>3, <3>1, WakeupKeepsQueue DEF Executing
      <3>2. CASE NoWakeup
        BY <2>1, <2>2, <3>2, NoWakeupKeepsQueue DEF NoWakeup, Executing
      <3> QED  BY <2>2, <3>1, <3>2
    <2>6. Goto("reparent")
      BY <2>1, <2>2 DEF Goto, Inv, SchedType
    <2> QED  BY <2>1, <2>2, <2>4, <2>5, <2>6, Handler DEF Labels, Executing
  <1>4. CASE ExitSchedule
    <2>1. Executing
      BY <1>4, AtFacts DEF ExitSchedule
    <2>2. /\ UNCHANGED <<state, queue, halted, current, parent, timer_list>>
          /\ need_resched' = need_resched /\ arg' = arg /\ insched' = TRUE
          /\ Goto("dead")
      BY <1>4 DEF ExitSchedule, links
    <2> QED  BY <2>1, <2>2, Move DEF Labels, Executing
  <1> QED  BY <1>1, <1>2, <1>3, <1>4

\* do_wait: what it reaps was a zombie, off the queue.
LEMMA WaitStep ==
    ASSUME Inv, (\E q \in Proc : WaitReap(q)) \/ WaitSleep \/ WaitNoChild \/ WaitWake
    PROVE  Inv'
  <1>1. ASSUME NEW q \in Proc, WaitReap(q)  PROVE Inv'
    <2>1. Executing /\ state[current] = "RUNNABLE"
      BY <1>1, AtFacts DEF WaitReap
    <2>2. state[q] = "ZOMBIE" /\ q # current
      BY <1>1, <2>1 DEF WaitReap, Found
    <2>3. PICK l \in {"wait", "trapret"} : pc' = [pc EXCEPT ![current] = l]
      BY <1>1 DEF WaitReap, SyscallReturn, Goto
    <2>4. /\ state' = [state EXCEPT ![q] = "FREE"]
          /\ time_slice' = [time_slice EXCEPT ![q] = 0]
          /\ arg' = [arg EXCEPT ![q] = NULL, ![current] = NULL]
          /\ parent' = [parent EXCEPT ![q] = NULL]
          /\ UNCHANGED <<run_list, current, need_resched, timer_list>>
      BY <1>1 DEF WaitReap, kfree, remove_links
    <2>5. insched' \in BOOLEAN
      BY <1>1, <2>1 DEF WaitReap, SyscallReturn, Executing
    <2>6. halted' \in {"NO", "OFF", "PANIC"}
      BY <1>1, <2>1 DEF WaitReap, Check, Executing
    <2>7. /\ time_slice' \in [Proc -> 0 .. MAX_TIME_SLICE]
          /\ \A p \in Proc : p # q => time_slice'[p] = time_slice[p]
      BY <2>4, KernelAssumption DEF Inv, SchedType
    <2>8. QueueOK
      BY <2>1, <2>2, <2>4, <2>6, <2>7, StateKeepsQueue DEF Executing
    <2>9. /\ pc' \in [Proc -> Labels]
          /\ pc'[current] = l
          /\ \A p \in Proc : p # current => pc'[p] = pc[p]
      BY <2>1, <2>3 DEF Inv, SchedType, Labels, Executing
    <2>10. /\ arg' \in [Proc -> Proc \cup {NULL}]
           /\ \A p \in Proc : p \notin {q, current} => arg'[p] = arg[p]
           /\ parent' \in [Proc -> Proc \cup {NULL}]
      BY <2>1, <2>4 DEF Executing
    <2>11. state'[current] = "RUNNABLE"
      BY <2>1, <2>2, <2>4 DEF Inv, SchedType, Executing
    <2>12. pc[q] # "forkwake"
      BY <2>1, <2>2 DEF Inv, SchedInv, Executing
    <2>13. \A p \in Proc : pc'[p] = "forkwake" =>
              p # current /\ pc[p] = "forkwake" /\ arg'[p] = arg[p]
      BY <2>9, <2>10, <2>12
    <2>14. SliceUsedUp'
      BY <2>1, <2>2, <2>4, <2>7 DEF Inv, SchedInv, SliceUsedUp, Executing
    <2>15. idleproc \in Proc
      BY DEF Proc
    <2>16. /\ need_resched' \in [Proc -> BOOLEAN]
           /\ TimersOwned(timer_list')
           /\ pc'[idleproc] = pc[idleproc]
           /\ current' = current
      BY <2>1, <2>4, <2>9, <2>15 DEF Executing
    <2> QED
      BY <2>1, <2>5, <2>8, <2>9, <2>10, <2>11, <2>13, <2>14, <2>16, Assemble
      DEF Executing
  <1>2. CASE WaitSleep
    <2>1. Executing
      BY <1>2, AtFacts DEF WaitSleep
    <2>2. /\ state' = [state EXCEPT ![current] = "SLEEPING"]
          /\ run_list' = run_list /\ time_slice' = time_slice /\ halted' = halted
          /\ UNCHANGED <<current, parent, arg, need_resched, timer_list>>
          /\ insched' = TRUE
          /\ pc' = [pc EXCEPT ![current] = "waitwake"]
      BY <1>2 DEF WaitSleep, Goto, links, queue
    <2>3. /\ time_slice \in [Proc -> 0 .. MAX_TIME_SLICE]
          /\ pc \in [Proc -> Labels] /\ idleproc \in Proc
      BY DEF Inv, SchedType, Proc
    <2>4. QueueOK
      BY <2>1, <2>2, <2>3, StateKeepsQueue DEF Executing
    <2>5. SliceUsedUp'
      BY <2>2 DEF Inv, SchedInv, SliceUsedUp
    <2>6. /\ pc' \in [Proc -> Labels]
          /\ pc'[current] # "forkwake"
          /\ \A p \in Proc : p # current => pc'[p] = pc[p]
      BY <2>1, <2>2, <2>3 DEF Labels, Executing
    <2> QED  BY <2>1, <2>2, <2>3, <2>4, <2>5, <2>6, Assemble DEF Executing
  <1>3. CASE WaitNoChild
    <2>1. Executing /\ state[current] = "RUNNABLE"
      BY <1>3, AtFacts DEF WaitNoChild
    <2>2. PICK l \in {"initdone", "trapret"} : Goto(l)
      BY <1>3 DEF WaitNoChild
    <2>3. /\ UNCHANGED <<state, queue, halted, current, parent, timer_list>>
          /\ need_resched' = need_resched /\ insched' = insched
          /\ arg' = [arg EXCEPT ![current] = NULL]
      BY <1>3 DEF WaitNoChild, links
    <2>4. /\ arg' \in [Proc -> Proc \cup {NULL}]
          /\ \A p \in Proc : p # current => arg'[p] = arg[p]
      BY <2>1, <2>3 DEF Executing
    <2> QED  BY <2>1, <2>2, <2>3, <2>4, Move DEF Labels, Executing
  <1>4. CASE WaitWake
    <2>1. Executing /\ state[current] = "RUNNABLE"
      BY <1>4, AtFacts DEF WaitWake
    <2>2. PICK l \in {"exit", "wait"} : Goto(l)
      BY <1>4 DEF WaitWake
    <2>3. /\ UNCHANGED <<state, queue, halted, current, parent, timer_list>>
          /\ need_resched' = need_resched /\ insched' = insched /\ arg' = arg
      BY <1>4 DEF WaitWake, links
    <2> QED  BY <2>1, <2>2, <2>3, Move DEF Labels, Executing
  <1> QED  BY <1>1, <1>2, <1>3, <1>4

\* The end of do_sleep and of trap, and the start of user_main.
LEMMA ReturnStep ==
    ASSUME Inv, SleepWake \/ TrapReturn \/ UserMainExec \/ UserMainExecFails
    PROVE  Inv'
  <1>1. CASE SleepWake
    <2>1. Executing /\ state[current] = "RUNNABLE"
      BY <1>1, AtFacts DEF SleepWake
    <2>2. /\ UNCHANGED <<state, queue, halted, current, parent, need_resched, arg, insched>>
          /\ timer_list' = del_timer(timer_list, current)
          /\ Goto("trapret")
      BY <1>1 DEF SleepWake, SyscallReturn, links
    <2>3. WakeOK
      BY <2>1, <2>2, NoWakeupKeepsQueue DEF Executing
    <2>4. TimersOwned(timer_list')
      BY <2>1, <2>2, DelOwned DEF Executing
    <2> QED  BY <2>1, <2>2, <2>3, <2>4, Handler DEF Labels, Executing
  <1>2. CASE TrapReturn
    <2>1. Executing /\ state[current] = "RUNNABLE"
      BY <1>2, AtFacts DEF TrapReturn
    <2>2. PICK l \in {"exit", "user"} : Goto(l)
      BY <1>2 DEF TrapReturn
    <2>3. /\ UNCHANGED <<state, queue, halted, current, parent, timer_list>>
          /\ need_resched' = need_resched /\ arg' = arg
          /\ insched' \in BOOLEAN
      BY <1>2 DEF TrapReturn, links
    <2> QED  BY <2>1, <2>2, <2>3, Move DEF Labels, Executing
  <1>3. CASE UserMainExec
    <2>1. Executing /\ state[current] = "RUNNABLE"
      BY <1>3, AtFacts DEF UserMainExec
    <2>2. /\ UNCHANGED <<state, queue, halted, current, parent, timer_list>>
          /\ need_resched' = need_resched /\ arg' = arg /\ insched' = insched
          /\ Goto("user")
      BY <1>3 DEF UserMainExec, links
    <2> QED  BY <2>1, <2>2, Move DEF Labels, Executing
  <1>4. CASE UserMainExecFails
    <2>1. Executing /\ state[current] = "RUNNABLE"
      BY <1>4, AtFacts DEF UserMainExecFails
    <2>2. /\ UNCHANGED <<state, queue, halted, current, parent, timer_list>>
          /\ need_resched' = need_resched /\ arg' = arg /\ insched' = insched
          /\ Goto("exit")
      BY <1>4 DEF UserMainExecFails, links
    <2> QED  BY <2>1, <2>2, Move DEF Labels, Executing
  <1> QED  BY <1>1, <1>2, <1>3, <1>4

\* The machine stops, or idleproc calls schedule.
LEMMA IdleStep ==
    ASSUME Inv, InitMainEnd \/ IdleLoop
    PROVE  Inv'
  <1>1. /\ UNCHANGED <<state, need_resched, parent, time_slice, pc, arg, current,
                       run_list, timer_list>>
        /\ halted = "NO"
        /\ \/ halted' \in {"OFF", "PANIC"} /\ insched' = insched
           \/ halted' = halted /\ insched' = TRUE
    BY DEF InitMainEnd, IdleLoop, At, links, queue
  <1>2. SchedType'
    BY <1>1 DEF Inv, SchedType
  <1>3. RunQueueExact' /\ SliceUsedUp'
    BY <1>1 DEF Inv, SchedInv, RunQueueExact, SliceUsedUp, InQueue
  <1>4. SchedInv'
    BY <1>1, <1>3 DEF Inv, SchedInv, InQueue
  <1> QED  BY <1>2, <1>4 DEF Inv

\* schedule takes the head of the queue, after putting current back if it is
\* still runnable.
LEMMA ScheduleStep ==
    ASSUME Inv, Schedule  PROVE Inv'
  <1> DEFINE requeue == state[current] = "RUNNABLE" /\ current # idleproc
             ready   == IF requeue THEN Append(run_list, current) ELSE run_list
  <1>1. /\ halted = "NO"
        /\ current \in Proc /\ idleproc \in Proc
        /\ state \in [Proc -> {"FREE", "UNINIT", "SLEEPING", "RUNNABLE", "ZOMBIE"}]
        /\ time_slice \in [Proc -> 0 .. MAX_TIME_SLICE]
        /\ run_list \in Seq(Proc \ {idleproc})
        /\ Once(run_list)
        /\ \A q \in Proc : On(run_list, q) <=> /\ state[q] = "RUNNABLE"
                                               /\ q \notin {current, idleproc}
        /\ \A q \in Proc : On(run_list, q) => time_slice[q] > 0
        /\ pc[idleproc] = "idle" /\ state[idleproc] = "RUNNABLE"
        /\ \A p \in Proc : pc[p] = "forkwake" => arg[p] \in User /\ state[p] = "RUNNABLE"
    BY QueueNotation DEF Schedule, Inv, SchedType, SchedInv, Proc
  <1>2. /\ time_slice' = IF requeue THEN Refilled(current) ELSE time_slice
        /\ current' = IF ready = <<>> THEN idleproc ELSE Head(ready)
        /\ run_list' = IF ready = <<>> THEN <<>> ELSE Tail(ready)
        /\ need_resched' = [need_resched EXCEPT ![current] = FALSE]
        /\ insched' = FALSE
        /\ UNCHANGED <<state, parent, pc, arg, timer_list>>
    BY DEF Schedule, Requeued, Queued, links
  <1>3. halted' = "NO"
    <2>1. requeue => ~InQueue(current)
      BY <1>1, QueueNotation
    <2> QED  BY <1>1, <2>1 DEF Schedule, Requeued, Check
  <1>4. /\ ready \in Seq(Proc \ {idleproc})
        /\ Once(ready)
        /\ \A q \in Proc : On(ready, q) <=> state[q] = "RUNNABLE" /\ q # idleproc
        /\ time_slice' \in [Proc -> 0 .. MAX_TIME_SLICE]
        /\ \A q \in Proc : On(ready, q) => time_slice'[q] > 0
    <2>1. CASE requeue
      <3>1. /\ Append(run_list, current) \in Seq(Proc \ {idleproc})
            /\ \A x : On(Append(run_list, current), x) <=> On(run_list, x) \/ x = current
            /\ Once(Append(run_list, current))
        BY <1>1, <2>1, AppendOnce
      <3>2. /\ time_slice' \in [Proc -> 0 .. MAX_TIME_SLICE]
            /\ time_slice'[current] > 0
            /\ \A q \in Proc : q # current => time_slice'[q] = time_slice[q]
        BY <1>1, <1>2, <2>1, RefilledPositive
      <3>3. ready = Append(run_list, current)
        BY <2>1
      <3> HIDE DEF ready
      <3>4. ASSUME NEW q \in Proc
            PROVE  /\ On(ready, q) <=> state[q] = "RUNNABLE" /\ q # idleproc
                   /\ On(ready, q) => time_slice'[q] > 0
        <4>1. CASE q = current
          BY <2>1, <3>1, <3>2, <3>3, <4>1
        <4>2. CASE q # current
          BY <1>1, <3>1, <3>2, <3>3, <4>2
        <4> QED  BY <4>1, <4>2
      <3> QED  BY <3>1, <3>2, <3>3, <3>4
    <2>2. CASE ~requeue
      BY <1>1, <1>2, <2>2
    <2> QED  BY <2>1, <2>2
  <1> HIDE DEF ready, requeue
  <1>5. /\ current' \in Proc
        /\ run_list' \in Seq(Proc \ {idleproc})
        /\ Once(run_list')
        /\ \A q \in Proc : On(run_list', q) <=> On(ready, q) /\ q # current'
        /\ current' # idleproc => On(ready, current')
    <2>1. CASE ready = <<>>
      <3>1. run_list' = <<>> /\ current' = idleproc
        BY <1>2, <2>1
      <3>2. \A q : ~On(ready, q)
        BY <2>1 DEF On
      <3> QED  BY <1>1, <1>4, <2>1, <3>1, <3>2
    <2>2. CASE ready # <<>>
      <3>1. run_list' = Tail(ready) /\ current' = Head(ready)
        BY <1>2, <2>2
      <3> QED  BY <1>4, <2>2, <3>1, TailOnce
    <2> QED  BY <2>1, <2>2
  <1>6. state'[current'] = "RUNNABLE"
    BY <1>1, <1>2, <1>4, <1>5
  <1>7. SchedType'
    <2>1. need_resched' \in [Proc -> BOOLEAN]
      BY <1>2 DEF Inv, SchedType
    <2> QED  BY <1>2, <1>3, <1>4, <1>5, <2>1 DEF Inv, SchedType
  <1>8. RunQueueExact'
    BY <1>2, <1>4, <1>5, QueueNotationNext
  <1>9. SliceUsedUp'
    BY <1>4, <1>5 DEF SliceUsedUp
  <1>10. \A p \in Proc : InQueue(p)' => time_slice'[p] > 0
    BY <1>4, <1>5, QueueNotationNext
  <1>11. SchedInv'
    BY <1>1, <1>2, <1>6, <1>8, <1>9, <1>10 DEF SchedInv
  <1> QED  BY <1>7, <1>11 DEF Inv

\* The clock interrupt, which may be taken whatever current does.
LEMMA ClockStep ==
    ASSUME Inv, Tick \/ TimerExpire \/ TickEnd  PROVE Inv'
  <1>1. /\ halted = "NO" /\ current' = current
        /\ current \in Proc /\ idleproc \in Proc
        /\ UNCHANGED <<parent, arg, insched>>
    BY DEF Tick, TimerExpire, TickEnd, Inv, SchedType, links, Proc
  <1>2. /\ parent' \in [Proc -> Proc \cup {NULL}]
        /\ arg' \in [Proc -> Proc \cup {NULL}]
        /\ insched' \in BOOLEAN
    BY <1>1 DEF Inv, SchedType
  <1>3. /\ insched \/ state[current] = "RUNNABLE" \/ pc[current] \in {"notify", "reparent"}
        /\ pc[idleproc] = "idle" /\ state[idleproc] = "RUNNABLE"
        /\ \A p \in Proc : pc[p] = "forkwake" => arg[p] \in User /\ state[p] = "RUNNABLE"
        /\ TimersOwned(timer_list)
        /\ pc \in [Proc -> Labels]
        /\ need_resched \in [Proc -> BOOLEAN]
        /\ time_slice \in [Proc -> 0 .. MAX_TIME_SLICE]
    BY <1>1 DEF Inv, SchedInv, SchedType
  <1>4. CASE Tick
    <2>1. /\ UNCHANGED <<state, run_list, time_slice, need_resched, pc>>
          /\ timer_list' = Shift(timer_list, 1, 0 - 1)
      BY <1>4 DEF Tick, queue
    <2>2. halted' \in {"NO", "PANIC"}
      BY <1>1, <1>4 DEF Tick, Check
    <2>3. TimersOwned(timer_list')
      BY <1>3, <2>1, ShiftOwned
    <2>4. SchedType'
      BY <1>1, <1>2, <2>1, <2>2, <2>3 DEF Inv, SchedType
    <2>5. RunQueueExact' /\ SliceUsedUp'
      BY <1>1, <2>1, <2>2 DEF Inv, SchedInv, RunQueueExact, SliceUsedUp, InQueue
    <2>6. SchedInv'
      BY <1>1, <1>3, <2>1, <2>2, <2>5 DEF Inv, SchedInv, InQueue
    <2> QED  BY <2>4, <2>6 DEF Inv
  <1>5. CASE TimerExpire
    <2> DEFINE p == Head(timer_list).proc
    <2>1. p \in Proc
      <3>1. timer_list # <<>>
        BY <1>5 DEF TimerExpire, HeadDue
      <3>2. PICK X : timer_list \in Seq([proc : Proc, expires : X])
        BY <1>3 DEF TimersOwned
      <3>3. Head(timer_list) \in [proc : Proc, expires : X]
        BY <3>1, <3>2, HeadTailProperties
      <3> QED  BY <3>3
    <2>2. /\ wakeup_proc(p)
          /\ timer_list' = del_timer(timer_list, p)
          /\ UNCHANGED <<need_resched, pc>>
      BY <1>5 DEF TimerExpire
    <2> HIDE DEF p
    <2>3. WakeOK
      BY <1>1, <2>1, <2>2, WakeupKeepsQueue
    <2>4. TimersOwned(timer_list')
      BY <1>3, <2>2, DelOwned
    <2>5. SliceUsedUp'
      BY <1>1, <2>2, <2>3 DEF Inv, SchedInv, SliceUsedUp, WakeOK
    <2>6. insched' \/ state'[current] = "RUNNABLE" \/ pc'[current] \in {"notify", "reparent"}
      BY <1>1, <1>3, <2>2, <2>3 DEF WakeOK
    <2>7. current # idleproc \/ state'[current] = state[current]
      BY <1>3, <2>3 DEF WakeOK
    <2>8. \A q \in Proc : pc'[q] = "forkwake" =>
             \/ q # current /\ pc[q] = "forkwake" /\ arg'[q] = arg[q]
             \/ arg'[q] \in User /\ state'[q] = "RUNNABLE"
      BY <1>1, <1>3, <2>2, <2>3 DEF WakeOK
    <2> QED
      BY <1>1, <1>2, <1>3, <2>2, <2>3, <2>4, <2>5, <2>6, <2>7, <2>8, Assemble DEF WakeOK
  <1>6. CASE TickEnd
    <2>1. /\ UNCHANGED <<state, run_list, timer_list, halted>>
          /\ \/ pc' = [pc EXCEPT ![current] = "trapret"] /\ pc[current] = "user"
             \/ pc' = pc
      BY <1>6 DEF TickEnd, Goto
    <2>2. /\ time_slice' \in [Proc -> 0 .. MAX_TIME_SLICE]
          /\ \A q \in Proc : q # current => time_slice'[q] = time_slice[q]
          /\ current # idleproc /\ time_slice'[current] = 0 => need_resched'[current]
          /\ need_resched' \in [Proc -> BOOLEAN]
      <3>1. CASE current = idleproc
        <4>1. need_resched' = [need_resched EXCEPT ![idleproc] = TRUE]
              /\ time_slice' = time_slice
          BY <1>6, <3>1 DEF TickEnd
        <4> QED  BY <1>3, <3>1, <4>1
      <3>2. CASE current # idleproc
        <4> DEFINE left == IF time_slice[current] > 0 THEN time_slice[current] - 1 ELSE 0
        <4>1. /\ time_slice' = [time_slice EXCEPT ![current] = left]
              /\ need_resched' = [need_resched EXCEPT ![current] = @ \/ left = 0]
          BY <1>6, <3>2 DEF TickEnd
        <4>2. left \in 0 .. MAX_TIME_SLICE
          BY <1>1, <1>3, KernelAssumption
        <4> HIDE DEF left
        <4>3. /\ time_slice' \in [Proc -> 0 .. MAX_TIME_SLICE]
              /\ \A q \in Proc : q # current => time_slice'[q] = time_slice[q]
              /\ time_slice'[current] = left
          BY <1>1, <1>3, <4>1, <4>2
        <4>4. /\ need_resched' \in [Proc -> BOOLEAN]
              /\ left = 0 => need_resched'[current]
          BY <1>1, <1>3, <4>1
        <4> QED  BY <4>3, <4>4
      <3> QED  BY <3>1, <3>2
    <2>3. QueueOK
      <3>1. \A q \in Proc : On(run_list, q) => q # current /\ time_slice[q] > 0
        BY <1>1, QueueNotation DEF Inv, SchedInv
      <3>2. RunQueueExact'
        BY <1>1, <2>1 DEF Inv, SchedInv, RunQueueExact, InQueue
      <3>3. \A q \in Proc : On(run_list', q) => time_slice'[q] > 0
        BY <2>1, <2>2, <3>1
      <3> QED  BY <2>1, <2>2, <3>2, <3>3 DEF QueueOK, Inv, SchedType
    <2>4. /\ pc' \in [Proc -> Labels]
          /\ pc'[idleproc] = pc[idleproc]
          /\ \A q \in Proc : pc'[q] = pc[q] \/ (pc[q] = "user" /\ pc'[q] = "trapret")
      BY <1>1, <1>3, <2>1 DEF Labels
    <2>5. SliceUsedUp'
      BY <1>1, <2>2 DEF SliceUsedUp
    <2>6. insched' \/ state'[current] = "RUNNABLE" \/ pc'[current] \in {"notify", "reparent"}
      BY <1>1, <1>3, <2>1, <2>4
    <2>7. \A q \in Proc : pc'[q] = "forkwake" => arg'[q] \in User /\ state'[q] = "RUNNABLE"
      BY <1>1, <1>3, <2>1, <2>4
    <2> QED
      BY <1>1, <1>2, <1>3, <2>1, <2>2, <2>3, <2>4, <2>5, <2>6, <2>7, Assemble
  <1> QED  BY <1>4, <1>5, <1>6

-----------------------------------------------------------------------------
(* The theorems.                                                           *)

\* Every step of the kernel keeps the invariant, provided that copy_files does
\* not fail: when it does, do_fork frees a process that is on the queue.
LEMMA SchedStep ==
    ASSUME FilesOutcomes = {TRUE}, Inv, [Next]_vars  PROVE Inv'
  <1>1. CASE UserStep
    BY <1>1, UserStepKeepsInv
  <1>2. CASE KernelStep
    <2>1. ASSUME NEW c \in User, InitMainFork(c)  PROVE Inv'
      BY <2>1, ForkStep DEF InitMainFork
    <2> QED
      BY <1>2, <2>1, ForkEndStep, ExitStep, WaitStep, ReturnStep, IdleStep, ScheduleStep
      DEF KernelStep
  <1>3. CASE Tick \/ IrqStep
    BY <1>3, ClockStep DEF IrqStep
  <1>4. CASE UNCHANGED vars
    <2>1. /\ UNCHANGED <<state, need_resched, parent, time_slice, pc, arg, current,
                         insched, run_list, timer_list, halted>>
      BY <1>4 DEF vars, links, queue
    <2>2. SchedType'
      BY <2>1 DEF Inv, SchedType
    <2>3. RunQueueExact' /\ SliceUsedUp'
      BY <2>1 DEF Inv, SchedInv, RunQueueExact, SliceUsedUp, InQueue
    <2>4. SchedInv'
      BY <2>1, <2>3 DEF Inv, SchedInv, InQueue
    <2> QED  BY <2>2, <2>4 DEF Inv
  <1> QED  BY <1>1, <1>2, <1>3, <1>4 DEF Next, Stopped

\* For any number of processes, sleeps and kills: the run queue holds exactly the
\* runnable processes that are not running, each once (wakeup_proc, schedule).
THEOREM QueueIsExact ==
    ASSUME FilesOutcomes = {TRUE}  PROVE Spec => []RunQueueExact
  <1>1. Inv => RunQueueExact
    BY DEF Inv, SchedInv
  <1> QED  BY <1>1, SchedInit, SchedStep, PTL DEF Spec

\* For any time slice: a process whose slice is used up is going to be
\* rescheduled (RR_proc_tick, RR_enqueue).
THEOREM SlicesAreEnforced ==
    ASSUME FilesOutcomes = {TRUE}  PROVE Spec => []SliceUsedUp
  <1>1. Inv => SliceUsedUp
    BY DEF Inv, SchedInv
  <1> QED  BY <1>1, SchedInit, SchedStep, PTL DEF Spec

\* The invariant itself: what the two theorems above rest on.
THEOREM SchedulerInvariant ==
    ASSUME FilesOutcomes = {TRUE}  PROVE Spec => []SchedInv
  <1>1. Inv => SchedInv
    BY DEF Inv
  <1> QED  BY <1>1, SchedInit, SchedStep, PTL DEF Spec

-----------------------------------------------------------------------------
\* The proofs about the timer list, for the kernel's own list.
TL == INSTANCE TimerProofs WITH Times <- SleepTimes, ticking <- irq, armed <- <<>>,
                                woken <- <<>>

-----------------------------------------------------------------------------
(* The life of a process: the invariant.                                   *)

\* The rest of TypeOK, except for nr_process and the timers.
LifeType ==
    /\ wait_state \in [Proc -> {"NONE", "CHILD", "TIMER"}]
    /\ exiting \in [Proc -> BOOLEAN]
    /\ kthread \in [Proc -> BOOLEAN]
    /\ cptr \in [Proc -> Proc \cup {NULL}]
    /\ yptr \in [Proc -> Proc \cup {NULL}]
    /\ optr \in [Proc -> Proc \cup {NULL}]
    /\ irq \in BOOLEAN

\* The labels that are passed without giving the hart away.
Passing == {"trapret", "exit", "notify", "reparent", "forkwake", "forkfiles", "initdone"}

\* Where a process can be, depending on its state.
Places ==
    /\ \A p \in Proc :
          /\ state[p] = "SLEEPING" <=> wait_state[p] # "NONE"
          /\ wait_state[p] = "CHILD" => pc[p] = "waitwake"
          /\ wait_state[p] = "TIMER" => pc[p] = "sleepwake"
          /\ state[p] \in {"ZOMBIE", "FREE"} <=> pc[p] \in {"notify", "reparent", "dead"}
          /\ state[p] = "FREE" => pc[p] = "dead"
          /\ state[p] = "UNINIT" => pc[p] \in {"user", "kmain"}
          /\ pc[p] \in Passing => p = current /\ ~insched
          /\ pc[p] = "forkwake" => arg[p] \in User /\ state[arg[p]] = "UNINIT"
    /\ pc[current] = "dead" => insched

\* The two processes that are there from the start.
Threads ==
    /\ pc[idleproc] = "idle" /\ state[idleproc] = "RUNNABLE"
    /\ pc[initproc] \in {"initfork", "forkwake", "forkfiles", "wait", "waitwake", "initdone"}
    /\ pc[initproc] \notin {"forkwake", "forkfiles"} => arg[initproc] = NULL
    /\ pc[initproc] = "initdone" => cptr[initproc] = NULL
    /\ \A p \in User : pc[p] \notin {"idle", "initfork", "initdone"}
    /\ kthread[initproc] /\ ~exiting[initproc]
    /\ parent[idleproc] = NULL
    /\ parent[initproc] = idleproc
    /\ \A q \in Proc : parent[q] = idleproc => q = initproc

Kid(q) == Live(q) /\ q # idleproc

\* The family links, link by link.  The youngest child that is left of a process
\* which hands its children over points to a sibling that has gone.
Links ==
    /\ \A q \in Proc : ~Kid(q) => parent[q] = NULL /\ yptr[q] = NULL /\ optr[q] = NULL
    /\ \A q \in Proc : Kid(q) => /\ parent[q] \in Proc /\ Live(parent[q])
                                 /\ pc[parent[q]] # "dead"
    /\ \A p \in Proc : cptr[p] # NULL => Kid(cptr[p]) /\ parent[cptr[p]] = p
    /\ \A q \in Proc : optr[q] # NULL =>
          /\ Kid(optr[q]) /\ parent[optr[q]] = parent[q]
          /\ yptr[optr[q]] = q
          /\ cptr[parent[q]] # optr[q]
    /\ \A q \in Proc : Kid(q) =>
          IF cptr[parent[q]] = q
          THEN yptr[q] = NULL \/ pc[parent[q]] = "reparent"
          ELSE yptr[q] # NULL /\ optr[yptr[q]] = q

\* No process is its own ancestor: in a set of processes one has its parent
\* outside.
Rooted ==
    \A S \in SUBSET User :
        S # {} /\ (\A q \in S : Live(q)) => \E q \in S : parent[q] \notin S

\* The links among siblings do not go round either, so all of them lead to the
\* youngest child.
Chained ==
    \A S \in SUBSET Proc :
        S # {} /\ (\A q \in S : Kid(q)) =>
            \E q \in S : cptr[parent[q]] = q \/ yptr[q] \notin S

\* A process that sleeps in do_wait has somebody to wait for, and has missed no
\* exit.
Waits ==
    \A p \in Proc : wait_state[p] = "CHILD" =>
        /\ \E q \in Proc : Live(q) /\ parent[q] = p /\ arg[p] \in {NULL, q}
        /\ \A q \in Proc :
              parent[q] = p /\ arg[p] \in {NULL, q} /\ state[q] = "ZOMBIE" =>
                  q = current /\ pc[q] = "notify"

\* The timers are those of the processes inside do_sleep, one each; none is due
\* between ticks.
Clock ==
    /\ timer_list \in Seq(Timer)
    /\ TL!OneEach(timer_list)
    /\ \A p \in TimerProcs(timer_list) : p \in Proc /\ pc[p] = "sleepwake"
    /\ \A p \in Proc : wait_state[p] = "TIMER" => p \in TimerProcs(timer_list)
    /\ ~irq => TL!NotDue(timer_list)

\* nr_process counts the processes.
Census ==
    /\ IsFiniteSet({p \in Proc : Live(p)})
    /\ nr_process = Cardinality({p \in Proc : Live(p)})

Family == Links /\ Rooted /\ Chained

Life ==
    /\ halted # "PANIC"
    /\ LifeType /\ Places /\ Threads /\ Family /\ Waits /\ Clock /\ Census

-----------------------------------------------------------------------------
(* The timer list.                                                         *)

\* The operators on timers are the same in both modules.
LEMMA SameTimers ==
    /\ TL!Entry = Timer
    /\ \A list, p, t : TL!add_timer(list, p, t) = add_timer(list, p, t)
    /\ \A list, p : TL!del_timer(list, p) = del_timer(list, p)
    /\ \A list, i, d : TL!Shift(list, i, d) = Shift(list, i, d)
    /\ \A list : TL!TimerProcs(list) = TimerProcs(list)
  <1>1. \A list : TL!TimerProcs(list) = TimerProcs(list)
    BY DEF TL!TimerProcs, TimerProcs
  <1>2. \A list, i, d : TL!Shift(list, i, d) = Shift(list, i, d)
    BY DEF TL!Shift, Shift
  <1>3. \A list, p, t : TL!add_timer(list, p, t) = add_timer(list, p, t)
    <2>1. \A S : TL!Cardinality(S) = Cardinality(S)
      BY Zenon DEF TL!Cardinality, Cardinality
    <2>2. \A list, t : TL!Left(list, t) = Left(list, t)
      BY Zenon DEF TL!Left, Left
    <2>3. \A list, left : TL!Passed(list, left) = Passed(list, left)
      BY Zenon DEF TL!Passed, Passed
    <2>4. \A list, i, e : TL!InsertAt(list, i, e) = InsertAt(list, i, e)
      BY Zenon DEF TL!InsertAt, InsertAt
    <2> QED  BY <1>2, <2>1, <2>2, <2>3, <2>4, Zenon DEF TL!add_timer, add_timer
  <1>4. \A list, p : TL!del_timer(list, p) = del_timer(list, p)
    <2>1. \A list, i : TL!RemoveAt(list, i) = RemoveAt(list, i)
      BY Zenon DEF TL!RemoveAt, RemoveAt
    <2> SUFFICES ASSUME NEW list, NEW p
                 PROVE  TL!del_timer(list, p) = del_timer(list, p)
      OBVIOUS
    <2> DEFINE pos == CHOOSE i \in DOMAIN list : list[i].proc = p
    <2>2. TL!del_timer(list, p) =
             IF p \notin TimerProcs(list) THEN list
             ELSE RemoveAt(Shift(list, pos + 1, list[pos].expires), pos)
      BY <1>1, <1>2, <2>1 DEF TL!del_timer
    <2>3. del_timer(list, p) =
             IF p \notin TimerProcs(list) THEN list
             ELSE RemoveAt(Shift(list, pos + 1, list[pos].expires), pos)
      BY DEF del_timer
    <2> HIDE DEF pos
    <2> QED  BY <2>2, <2>3
  <1>5. TL!Entry = Timer
    BY DEF TL!Entry, Timer
  <1> QED  BY <1>1, <1>2, <1>3, <1>4, <1>5

\* do_sleep arms a timer.
LEMMA ArmTimer ==
    ASSUME NEW list \in Seq(Timer), TL!OneEach(list), TL!NotDue(list),
           NEW p \in Proc, p \notin TimerProcs(list), NEW t \in SleepTimes
    PROVE  /\ add_timer(list, p, t) \in Seq(Timer)
           /\ TL!OneEach(add_timer(list, p, t))
           /\ TimerProcs(add_timer(list, p, t)) = TimerProcs(list) \cup {p}
           /\ TL!NotDue(add_timer(list, p, t))
  <1>1. t \in Nat \ {0}
    BY KernelAssumption
  <1>2. SleepTimes \subseteq Nat \ {0}
    BY KernelAssumption
  <1>3. TL!Entry = Timer /\ p \notin TL!TimerProcs(list)
    BY SameTimers
  <1>4. /\ TL!add_timer(list, p, t) \in Seq(TL!Entry)
        /\ TL!OneEach(TL!add_timer(list, p, t))
        /\ TL!TimerProcs(TL!add_timer(list, p, t)) = TL!TimerProcs(list) \cup {p}
        /\ TL!NotDue(TL!add_timer(list, p, t))
    BY <1>1, <1>2, <1>3, TL!AddKeeps
  <1> QED  BY <1>4, SameTimers

\* A timer is disarmed or fires.
LEMMA DropTimer ==
    ASSUME NEW list \in Seq(Timer), TL!OneEach(list), NEW p
    PROVE  /\ del_timer(list, p) \in Seq(Timer)
           /\ TL!OneEach(del_timer(list, p))
           /\ TimerProcs(del_timer(list, p)) = TimerProcs(list) \ {p}
           /\ TL!NotDue(list) => TL!NotDue(del_timer(list, p))
  <1>1. SleepTimes \subseteq Nat \ {0}
    BY KernelAssumption
  <1>2. TL!Entry = Timer
    BY SameTimers
  <1>3. /\ TL!del_timer(list, p) \in Seq(TL!Entry)
        /\ TL!OneEach(TL!del_timer(list, p))
        /\ TL!TimerProcs(TL!del_timer(list, p)) = TL!TimerProcs(list) \ {p}
        /\ TL!NotDue(list) => TL!NotDue(TL!del_timer(list, p))
    BY <1>1, <1>2, TL!DelKeeps
  <1> QED  BY <1>3, SameTimers

\* A tick.
LEMMA TickTimers ==
    ASSUME NEW list \in Seq(Timer), TL!OneEach(list), TL!NotDue(list)
    PROVE  /\ Shift(list, 1, 0 - 1) \in Seq(Timer)
           /\ TL!OneEach(Shift(list, 1, 0 - 1))
           /\ TimerProcs(Shift(list, 1, 0 - 1)) = TimerProcs(list)
  <1> DEFINE new == TL!Shift(list, 1, 0 - 1)
  <1>1. SleepTimes \subseteq Nat \ {0}
    BY KernelAssumption
  <1>2. TL!Entry = Timer
    BY SameTimers
  <1>3. /\ new \in Seq(TL!Entry)
        /\ Len(new) = Len(list)
        /\ \A j \in 1 .. Len(list) :
              /\ new[j].proc = list[j].proc
              /\ new[j].expires = IF j = 1 THEN list[j].expires - 1 ELSE list[j].expires
    BY <1>1, <1>2, TL!ShiftHead
  <1> HIDE DEF new
  <1>4. TL!TimerProcs(new) = TL!TimerProcs(list) /\ TL!OneEach(new)
    BY <1>1, <1>2, <1>3, TL!SameOwners
  <1>5. new = Shift(list, 1, 0 - 1)
    BY SameTimers DEF new
  <1> QED  BY <1>2, <1>3, <1>4, <1>5, SameTimers

-----------------------------------------------------------------------------
(* The start.                                                              *)

\* The invariant holds when proc_init is done.
LEMMA LifeInit == Init => Life
  <1> SUFFICES ASSUME Init  PROVE Life
    OBVIOUS
  <1>0. /\ idleproc \in Proc /\ initproc \in Proc /\ idleproc # initproc
        /\ idleproc \notin User /\ initproc \notin User
        /\ NULL \notin Proc
        /\ \A p \in Proc : p \in User \/ p = idleproc \/ p = initproc
    BY KernelAssumption DEF Proc
  <1>1. halted # "PANIC" /\ LifeType
    BY <1>0 DEF Init, LifeType
  <1>2. Places
    BY <1>0 DEF Init, Places, Passing
  <1>3. Threads
    <2>1. kthread[initproc] /\ ~exiting[initproc]
      BY <1>0, Zenon DEF Init
    <2>2. /\ pc[idleproc] = "idle" /\ state[idleproc] = "RUNNABLE"
          /\ pc[initproc] = "initfork" /\ arg[initproc] = NULL
      BY <1>0 DEF Init
    <2>3. \A p \in User : pc[p] = "dead"
      BY <1>0 DEF Init, Proc
    <2>4. /\ parent[idleproc] = NULL
          /\ parent[initproc] = idleproc
          /\ \A q \in Proc : parent[q] = idleproc => q = initproc
      BY <1>0 DEF Init
    <2> QED  BY <2>1, <2>2, <2>3, <2>4 DEF Threads
  <1>4. \A q \in Proc : Live(q) <=> q \in {idleproc, initproc}
    BY <1>0 DEF Init, Live
  <1>5. Links
    BY <1>0, <1>4 DEF Init, Links, Kid
  <1>6. Rooted
    BY <1>0, <1>4 DEF Rooted, Proc
  <1>7. Chained
    <2> SUFFICES ASSUME NEW S \in SUBSET Proc, S # {}, \A q \in S : Kid(q)
                 PROVE  \E q \in S : cptr[parent[q]] = q
      BY DEF Chained
    <2>1. PICK q \in S : TRUE
      OBVIOUS
    <2>2. q = initproc
      BY <1>4, <2>1 DEF Kid
    <2> QED  BY <1>0, <2>1, <2>2 DEF Init
  <1>8. Waits
    BY DEF Init, Waits
  <1>9. Clock
    <2>1. timer_list = <<>> /\ \A p \in Proc : wait_state[p] = "NONE"
      BY DEF Init
    <2>2. TimerProcs(<<>>) = {}
      BY DEF TimerProcs
    <2>3. TL!OneEach(<<>>) /\ TL!NotDue(<<>>)
      BY DEF TL!OneEach, TL!NotDue
    <2>4. <<>> \in Seq(Timer)
      OBVIOUS
    <2> QED  BY <2>1, <2>2, <2>3, <2>4 DEF Clock
  <1>10. Census
    <2>1. {p \in Proc : Live(p)} = {idleproc} \cup {initproc}
      BY <1>0, <1>4
    <2>2. IsFiniteSet({idleproc}) /\ Cardinality({idleproc}) = 1
      BY FS_Singleton
    <2>3. /\ IsFiniteSet({idleproc} \cup {initproc})
          /\ Cardinality({idleproc} \cup {initproc}) = 2
      BY <1>0, <2>2, FS_AddElement
    <2> QED  BY <2>1, <2>3 DEF Census, Init
  <1> QED  BY <1>1, <1>2, <1>3, <1>5, <1>6, <1>7, <1>8, <1>9, <1>10 DEF Life, Family

-----------------------------------------------------------------------------
(* Steps that leave the family alone.                                      *)

\* The types of the links and of what decides who is alive, in one place.
LinkTypes ==
    /\ state \in [Proc -> {"FREE", "UNINIT", "SLEEPING", "RUNNABLE", "ZOMBIE"}]
    /\ parent \in [Proc -> Proc \cup {NULL}]
    /\ cptr \in [Proc -> Proc \cup {NULL}]
    /\ yptr \in [Proc -> Proc \cup {NULL}]
    /\ optr \in [Proc -> Proc \cup {NULL}]
    /\ NULL \notin Proc /\ idleproc \in Proc /\ initproc \in Proc
    /\ idleproc # initproc /\ idleproc \notin User /\ initproc \notin User
    /\ User \subseteq Proc
    /\ \A p \in Proc : p \in User \/ p = idleproc \/ p = initproc

\* The facts on types that the lemmas about links use.
LEMMA LinkTypesOK ==
    ASSUME Inv, Life  PROVE LinkTypes
  BY KernelAssumption DEF Inv, SchedType, Life, LifeType, LinkTypes, Proc

\* A process with children has a youngest one.
LEMMA HasKid ==
    ASSUME LinkTypes, Links, Chained, NEW q \in Proc, Kid(q)
    PROVE  cptr[parent[q]] \in Proc
  <1> DEFINE S == {r \in Proc : Kid(r) /\ parent[r] = parent[q]}
  <1>1. PICK r \in S : cptr[parent[r]] = r \/ yptr[r] \notin S
    <2>1. S \in SUBSET Proc /\ S # {} /\ \A r \in S : Kid(r)
      OBVIOUS
    <2> HIDE DEF S
    <2> QED  BY <2>1 DEF Chained
  <1>2. r \in Proc /\ Kid(r) /\ parent[r] = parent[q]
    OBVIOUS
  <1>3. CASE cptr[parent[r]] = r
    BY <1>2, <1>3
  <1>4. CASE cptr[parent[r]] # r
    <2>1. yptr[r] # NULL /\ optr[yptr[r]] = r
      BY <1>2, <1>4 DEF Links
    <2>2. yptr[r] \in Proc /\ r # NULL
      BY <1>2, <2>1 DEF LinkTypes
    <2>3. Kid(yptr[r])
      BY <2>1, <2>2 DEF Links
    <2>4. parent[yptr[r]] = parent[r]
      BY <2>1, <2>2 DEF Links
    <2> QED  BY <1>1, <1>2, <1>4, <2>2, <2>3, <2>4
  <1> QED  BY <1>3, <1>4

\* The family after a step that touches neither links nor the set of processes,
\* and no label at which a process with children matters.
LEMMA FamilyFrame ==
    ASSUME LinkTypes, Family, UNCHANGED links,
           \A p \in Proc : state'[p] = "FREE" <=> state[p] = "FREE",
           \A p \in Proc : cptr[p] # NULL =>
              pc'[p] # "dead" /\ (pc[p] = "reparent" => pc'[p] = "reparent")
    PROVE  Family'
  <1>1. parent' = parent /\ cptr' = cptr /\ yptr' = yptr /\ optr' = optr
    BY DEF links
  <1>2. \A p \in Proc : Live(p)' <=> Live(p)
    BY DEF Live
  <1>3. \A p \in Proc : Kid(p)' <=> Kid(p)
    BY <1>2 DEF Kid
  <1>4. ASSUME NEW q \in Proc, Kid(q)
        PROVE  parent[q] \in Proc /\ cptr[parent[q]] # NULL
    BY <1>4, HasKid DEF Family, Links, LinkTypes
  <1>5. Links'
    <2>1. \A q \in Proc : ~Kid(q)' => parent'[q] = NULL /\ yptr'[q] = NULL /\ optr'[q] = NULL
      BY <1>1, <1>3 DEF Family, Links
    <2>2. \A q \in Proc : Kid(q)' => /\ parent'[q] \in Proc /\ Live(parent[q])'
                                     /\ pc'[parent'[q]] # "dead"
      BY <1>1, <1>2, <1>3, <1>4 DEF Family, Links
    <2>3. \A p \in Proc : cptr'[p] # NULL => Kid(cptr[p])' /\ parent'[cptr'[p]] = p
      BY <1>1, <1>3 DEF Family, Links, LinkTypes
    <2>4. \A q \in Proc : optr'[q] # NULL =>
            /\ Kid(optr[q])' /\ parent'[optr'[q]] = parent'[q]
            /\ yptr'[optr'[q]] = q
            /\ cptr'[parent'[q]] # optr'[q]
      BY <1>1, <1>3 DEF Family, Links, LinkTypes
    <2>5. ASSUME NEW q \in Proc, Kid(q)'
          PROVE  IF cptr'[parent'[q]] = q
                 THEN yptr'[q] = NULL \/ pc'[parent'[q]] = "reparent"
                 ELSE yptr'[q] # NULL /\ optr'[yptr'[q]] = q
      BY <1>1, <1>3, <1>4, <2>5 DEF Family, Links
    <2> QED  BY <1>1, <2>1, <2>2, <2>3, <2>4, <2>5 DEF Links
  <1>6. Rooted'
    BY <1>1, <1>2 DEF Family, Rooted, LinkTypes
  <1>7. Chained'
    BY <1>1, <1>3 DEF Family, Chained
  <1> QED  BY <1>5, <1>6, <1>7 DEF Family

\* The count is right as long as no process appears or goes.
LEMMA CensusFrame ==
    ASSUME Census, nr_process' = nr_process,
           \A p \in Proc : state'[p] = "FREE" <=> state[p] = "FREE"
    PROVE  Census'
  <1>1. {p \in Proc : Live(p)}' = {p \in Proc : Live(p)}
    BY DEF Live
  <1> QED  BY <1>1 DEF Census

\* A process executes, outside interrupts, and it is not idleproc.
Runs ==
    /\ halted = "NO" /\ insched = FALSE /\ irq = FALSE
    /\ current \in Proc /\ current # idleproc
    /\ pc[current] \notin {"notify", "reparent"} =>
          state[current] = "RUNNABLE" /\ wait_state[current] = "NONE"
    /\ pc[current] \notin {"initfork", "forkwake", "forkfiles", "wait", "waitwake", "initdone"} =>
          current \in User /\ current # initproc

\* Where current executes, and who it can be.
LEMMA Running ==
    ASSUME Inv, Life, halted = "NO", ~irq, ~insched, pc[current] # "idle"
    PROVE  Runs
  <1>1. insched = FALSE /\ irq = FALSE /\ current \in Proc
    BY DEF Inv, SchedType, Life, LifeType
  <1>2. current # idleproc
    BY <1>1 DEF Life, Threads
  <1>3. pc[current] \notin {"notify", "reparent"} => state[current] = "RUNNABLE"
    BY <1>1 DEF Inv, SchedInv
  <1>4. state[current] = "RUNNABLE" => wait_state[current] = "NONE"
    BY <1>1 DEF Life, Places
  <1>5. pc[current] \notin {"initfork", "forkwake", "forkfiles", "wait", "waitwake", "initdone"} =>
           current # initproc
    BY <1>1 DEF Life, Threads
  <1>6. current \in User \/ current = idleproc \/ current = initproc
    BY <1>1 DEF Proc
  <1> QED  BY <1>1, <1>2, <1>3, <1>4, <1>5, <1>6 DEF Runs

\* A step in which current, which is runnable, goes on to another label.
LEMMA Quiet ==
    ASSUME Inv, Life, Runs, pc[current] \notin {"notify", "reparent"},
           NEW l \in {"exit", "trapret", "user", "wait", "initdone"}, Goto(l),
           insched' \in BOOLEAN, insched' => l = "user",
           UNCHANGED <<state, wait_state, links, current, irq, nr_process, halted, exiting>>,
           kthread' \in [Proc -> BOOLEAN], kthread'[initproc],
           \A p \in Proc : p # current => arg'[p] = arg[p],
           current = initproc => /\ l \in {"wait", "initdone"}
                                 /\ arg'[initproc] = NULL
                                 /\ l = "initdone" => cptr[initproc] = NULL,
           current \in User => l # "initdone",
           timer_list' \in Seq(Timer), TL!OneEach(timer_list'),
           TimerProcs(timer_list') = TimerProcs(timer_list) \ {current},
           TL!NotDue(timer_list')
    PROVE  Life'
  <1>0. LinkTypes
    BY LinkTypesOK
  <1>1. /\ pc \in [Proc -> Labels]
        /\ state' = state /\ wait_state' = wait_state /\ current' = current
        /\ irq' = irq /\ nr_process' = nr_process /\ halted' = halted
        /\ exiting' = exiting
        /\ parent' = parent /\ cptr' = cptr /\ yptr' = yptr /\ optr' = optr
        /\ halted = "NO" /\ irq = FALSE /\ insched = FALSE
        /\ current \in Proc /\ current # idleproc /\ state[current] = "RUNNABLE"
    BY DEF Inv, SchedType, links, Runs
  <1>2. /\ pc'[current] = l
        /\ \A p \in Proc : p # current => pc'[p] = pc[p]
    BY <1>1 DEF Goto
  <1>3. wait_state[current] = "NONE"
    BY DEF Runs
  <1>4. halted' # "PANIC" /\ LifeType'
    BY <1>1 DEF Life, LifeType
  <1>5. Places'
    <2>1. ASSUME NEW p \in Proc
          PROVE  /\ state'[p] = "SLEEPING" <=> wait_state'[p] # "NONE"
                 /\ wait_state'[p] = "CHILD" => pc'[p] = "waitwake"
                 /\ wait_state'[p] = "TIMER" => pc'[p] = "sleepwake"
                 /\ state'[p] \in {"ZOMBIE", "FREE"} <=> pc'[p] \in {"notify", "reparent", "dead"}
                 /\ state'[p] = "FREE" => pc'[p] = "dead"
                 /\ state'[p] = "UNINIT" => pc'[p] \in {"user", "kmain"}
                 /\ pc'[p] \in Passing => p = current' /\ ~insched'
                 /\ pc'[p] = "forkwake" => arg'[p] \in User /\ state'[arg'[p]] = "UNINIT"
      <3>1. CASE p = current
        BY <1>1, <1>2, <1>3, <3>1 DEF Passing
      <3>2. CASE p # current
        BY <1>1, <1>2, <3>2 DEF Life, Places, Passing
      <3> QED  BY <3>1, <3>2
    <2>2. pc'[current'] = "dead" => insched'
      BY <1>1, <1>2
    <2> QED  BY <2>1, <2>2 DEF Places
  <1>6. Threads'
    <2>1. /\ pc'[idleproc] = "idle"
          /\ current # initproc => pc'[initproc] = pc[initproc] /\ arg'[initproc] = arg[initproc]
          /\ \A p \in User : pc'[p] \notin {"idle", "initfork", "initdone"}
      BY <1>0, <1>1, <1>2 DEF Life, Threads, LinkTypes
    <2>2. CASE current = initproc
      BY <1>0, <1>1, <1>2, <2>1, <2>2 DEF Life, Threads
    <2>3. CASE current # initproc
      BY <1>0, <1>1, <1>2, <2>1, <2>3 DEF Life, Threads
    <2> QED  BY <2>2, <2>3
  <1>7. Family'
    <2>1. \A p \in Proc : cptr[p] # NULL =>
             pc'[p] # "dead" /\ (pc[p] = "reparent" => pc'[p] = "reparent")
      <3> SUFFICES ASSUME NEW p \in Proc, cptr[p] # NULL, p # current  PROVE pc[p] # "dead"
        BY <1>2 DEF Life, Places
      <3>1. Kid(cptr[p]) /\ parent[cptr[p]] = p /\ cptr[p] \in Proc
        BY <1>0 DEF Life, Family, Links, LinkTypes
      <3> QED  BY <3>1 DEF Life, Family, Links
    <2> QED  BY <1>0, <1>1, <2>1, FamilyFrame DEF Life
  <1>8. Waits'
    <2> SUFFICES ASSUME NEW p \in Proc, wait_state[p] = "CHILD"
                 PROVE  /\ \E q \in Proc : Live(q)' /\ parent'[q] = p /\ arg'[p] \in {NULL, q}
                        /\ \A q \in Proc :
                              parent'[q] = p /\ arg'[p] \in {NULL, q} /\ state'[q] = "ZOMBIE" =>
                                  q = current' /\ pc'[q] = "notify"
      BY <1>1 DEF Waits
    <2>1. p # current /\ arg'[p] = arg[p]
      BY <1>3
    <2>2. \A q \in Proc : Live(q)' <=> Live(q)
      BY <1>1 DEF Live
    <2>3. \E q \in Proc : Live(q) /\ parent[q] = p /\ arg[p] \in {NULL, q}
      BY DEF Life, Waits
    <2>4. \A q \in Proc : parent[q] = p /\ arg[p] \in {NULL, q} => state[q] # "ZOMBIE"
      BY DEF Life, Waits
    <2> QED  BY <1>1, <2>1, <2>2, <2>3, <2>4
  <1>9. Clock'
    BY <1>1, <1>2, <1>3 DEF Life, Clock
  <1>10. Census'
    BY <1>1, CensusFrame DEF Life
  <1> QED  BY <1>4, <1>5, <1>6, <1>7, <1>8, <1>9, <1>10 DEF Life

\* A process that is not inside do_sleep has no timer to lose.
LEMMA SameClock ==
    ASSUME Life, Runs, pc[current] # "sleepwake", timer_list' = timer_list
    PROVE  /\ timer_list' \in Seq(Timer) /\ TL!OneEach(timer_list')
           /\ TimerProcs(timer_list') = TimerProcs(timer_list) \ {current}
           /\ TL!NotDue(timer_list')
  BY DEF Life, Clock, Runs

\* The steps in which a system call starts or ends without touching a process.
LEMMA QuietCalls ==
    ASSUME Inv, Life,
           \/ \E q \in User \cup {NULL} : SysWait(q)
           \/ SysExit \/ SysYield \/ SysOther
           \/ SleepWake \/ TrapReturn
    PROVE  Life'
  <1> USE DEF LifeType
  <1>1. ASSUME NEW q \in User \cup {NULL}, SysWait(q)  PROVE Life'
    <2>1. Runs /\ pc[current] = "user"
      BY <1>1, Running DEF SysWait, At
    <2>2. /\ Goto("wait") /\ insched' = insched /\ kthread' = kthread
          /\ UNCHANGED <<state, wait_state, links, current, irq, nr_process, halted, exiting>>
          /\ timer_list' = timer_list /\ arg' = [arg EXCEPT ![current] = q]
      BY <1>1 DEF SysWait
    <2>3. \A p \in Proc : p # current => arg'[p] = arg[p]
      BY <2>2 DEF Inv, SchedType
    <2>4. current \in User /\ current # initproc
      BY <2>1 DEF Runs
    <2>5. /\ insched' \in BOOLEAN /\ ~insched'
          /\ kthread' \in [Proc -> BOOLEAN] /\ kthread'[initproc]
      BY <2>1, <2>2 DEF Runs, Life, Threads
    <2> QED  BY <2>1, <2>2, <2>3, <2>4, <2>5, SameClock, Quiet
  <1>2. CASE SysExit
    <2>1. Runs /\ pc[current] = "user"
      BY <1>2, Running DEF SysExit, At
    <2>2. /\ Goto("exit") /\ insched' = insched /\ kthread' = kthread
          /\ UNCHANGED <<state, wait_state, links, current, irq, nr_process, halted, exiting>>
          /\ timer_list' = timer_list /\ arg' = arg
      BY <1>2 DEF SysExit
    <2>4. current \in User /\ current # initproc
      BY <2>1 DEF Runs
    <2>5. /\ insched' \in BOOLEAN /\ ~insched'
          /\ kthread' \in [Proc -> BOOLEAN] /\ kthread'[initproc]
      BY <2>1, <2>2 DEF Runs, Life, Threads
    <2> QED  BY <2>1, <2>2, <2>4, <2>5, SameClock, Quiet
  <1>3. CASE SysYield \/ SysOther
    <2>1. Runs /\ pc[current] = "user"
      BY <1>3, Running DEF SysYield, SysOther, At
    <2>2. /\ Goto("trapret") /\ insched' = insched /\ kthread' = kthread
          /\ UNCHANGED <<state, wait_state, links, current, irq, nr_process, halted, exiting>>
          /\ timer_list' = timer_list /\ arg' = arg
      BY <1>3 DEF SysYield, SysOther, SyscallReturn
    <2>4. current \in User /\ current # initproc
      BY <2>1 DEF Runs
    <2>5. /\ insched' \in BOOLEAN /\ ~insched'
          /\ kthread' \in [Proc -> BOOLEAN] /\ kthread'[initproc]
      BY <2>1, <2>2 DEF Runs, Life, Threads
    <2> QED  BY <2>1, <2>2, <2>4, <2>5, SameClock, Quiet
  <1>4. CASE SleepWake
    <2>1. Runs /\ pc[current] = "sleepwake"
      BY <1>4, Running DEF SleepWake, At
    <2>2. /\ Goto("trapret") /\ insched' = insched /\ kthread' = kthread
          /\ UNCHANGED <<state, wait_state, links, current, irq, nr_process, halted, exiting>>
          /\ timer_list' = del_timer(timer_list, current) /\ arg' = arg
      BY <1>4 DEF SleepWake, SyscallReturn
    <2>3. /\ timer_list' \in Seq(Timer) /\ TL!OneEach(timer_list')
          /\ TimerProcs(timer_list') = TimerProcs(timer_list) \ {current}
          /\ TL!NotDue(timer_list')
      BY <2>1, <2>2, DropTimer DEF Runs, Life, Clock
    <2>4. current \in User /\ current # initproc
      BY <2>1 DEF Runs
    <2>5. /\ insched' \in BOOLEAN /\ ~insched'
          /\ kthread' \in [Proc -> BOOLEAN] /\ kthread'[initproc]
      BY <2>1, <2>2 DEF Runs, Life, Threads
    <2> QED  BY <2>1, <2>2, <2>3, <2>4, <2>5, Quiet
  <1>5. CASE TrapReturn
    <2>1. Runs /\ pc[current] = "trapret"
      BY <1>5, Running DEF TrapReturn, At
    <2> DEFINE l == IF exiting[current] THEN "exit" ELSE "user"
    <2>2. /\ Goto(l) /\ kthread' = kthread
          /\ insched' = (need_resched[current] /\ ~exiting[current])
          /\ UNCHANGED <<state, wait_state, links, current, irq, nr_process, halted, exiting>>
          /\ timer_list' = timer_list /\ arg' = arg
      BY <1>5 DEF TrapReturn
    <2>3. l \in {"exit", "user"} /\ insched' \in BOOLEAN /\ (insched' => l = "user")
      BY <2>2
    <2> HIDE DEF l
    <2>4. current \in User /\ current # initproc
      BY <2>1 DEF Runs
    <2>5. kthread' \in [Proc -> BOOLEAN] /\ kthread'[initproc]
      BY <2>1, <2>2 DEF Life, Threads
    <2> QED  BY <2>1, <2>2, <2>3, <2>4, <2>5, SameClock, Quiet
  <1> QED  BY <1>1, <1>2, <1>3, <1>4, <1>5

\* The same for the ends of do_fork and do_wait and for the start of user_main.
LEMMA QuietReturns ==
    ASSUME Inv, Life, FilesOutcomes = {TRUE},
           \/ ForkFiles \/ WaitNoChild \/ WaitWake
           \/ UserMainExec \/ UserMainExecFails
    PROVE  Life'
  <1> USE DEF LifeType
  <1>0. initproc \in Proc /\ initproc \notin User /\ kthread[initproc] /\ ~exiting[initproc]
    BY KernelAssumption DEF Life, Threads, Proc
  <1>1. CASE ForkFiles
    <2>1. Runs /\ pc[current] = "forkfiles"
      BY <1>1, Running DEF ForkFiles, At
    <2> DEFINE l == IF kthread[current] THEN "wait" ELSE "trapret"
    <2>2. /\ Goto(l) /\ insched' = insched /\ kthread' = kthread
          /\ UNCHANGED <<state, wait_state, links, current, irq, nr_process, halted, exiting>>
          /\ timer_list' = timer_list /\ arg' = [arg EXCEPT ![current] = NULL]
      <3>1. PICK ok \in {TRUE} :
               state' = IF ok THEN state ELSE [state EXCEPT ![arg[current]] = "FREE"]
        BY <1>1 DEF ForkFiles
      <3>2. state' = state
        BY <3>1
      <3> QED  BY <1>1, <3>2 DEF ForkFiles
    <2>3. /\ \A p \in Proc : p # current => arg'[p] = arg[p]
          /\ current \in Proc => arg'[current] = NULL
      BY <2>2 DEF Inv, SchedType
    <2>4. l \in {"wait", "trapret"} /\ (current = initproc => l = "wait")
      BY <1>0
    <2> HIDE DEF l
    <2>5. /\ insched' \in BOOLEAN /\ ~insched'
          /\ kthread' \in [Proc -> BOOLEAN] /\ kthread'[initproc]
      BY <1>0, <2>1, <2>2 DEF Runs, Life
    <2> QED  BY <1>0, <2>1, <2>2, <2>3, <2>4, <2>5, SameClock, Quiet
  <1>2. CASE WaitNoChild
    <2>1. Runs /\ pc[current] = "wait" /\ ~haskid
      BY <1>2, Running DEF WaitNoChild, At
    <2> DEFINE l == IF current = initproc THEN "initdone" ELSE "trapret"
    <2>2. /\ Goto(l) /\ insched' = insched /\ kthread' = kthread
          /\ UNCHANGED <<state, wait_state, links, current, irq, nr_process, halted, exiting>>
          /\ timer_list' = timer_list /\ arg' = [arg EXCEPT ![current] = NULL]
      BY <1>2 DEF WaitNoChild
    <2>3. /\ \A p \in Proc : p # current => arg'[p] = arg[p]
          /\ current \in Proc => arg'[current] = NULL
      BY <2>2 DEF Inv, SchedType
    <2>4. current = initproc => cptr[initproc] = NULL
      <3>1. current = initproc => arg[current] = NULL
        BY <1>2 DEF WaitNoChild, At, Life, Threads
      <3> QED  BY <2>1, <3>1 DEF haskid
    <2>5. /\ insched' \in BOOLEAN /\ ~insched'
          /\ kthread' \in [Proc -> BOOLEAN] /\ kthread'[initproc]
      BY <1>0, <2>1, <2>2 DEF Runs, Life
    <2>6. /\ l \in {"initdone", "trapret"} /\ (current = initproc <=> l = "initdone")
      OBVIOUS
    <2> HIDE DEF l
    <2>7. current \in User => l # "initdone"
      BY <1>0, <2>6
    <2>8. current = initproc => /\ l \in {"wait", "initdone"} /\ arg'[initproc] = NULL
                                /\ l = "initdone" => cptr[initproc] = NULL
      BY <1>0, <2>3, <2>4, <2>6
    <2> QED  BY <2>1, <2>2, <2>3, <2>5, <2>6, <2>7, <2>8, SameClock, Quiet
  <1>3. CASE WaitWake
    <2>1. Runs /\ pc[current] = "waitwake"
      BY <1>3, Running DEF WaitWake, At
    <2> DEFINE l == IF exiting[current] THEN "exit" ELSE "wait"
    <2>2. /\ Goto(l) /\ insched' = insched /\ kthread' = kthread
          /\ UNCHANGED <<state, wait_state, links, current, irq, nr_process, halted, exiting>>
          /\ timer_list' = timer_list /\ arg' = arg
      BY <1>3 DEF WaitWake
    <2>3. l \in {"exit", "wait"} /\ (current = initproc => l = "wait")
      BY <1>0
    <2>4. current = initproc => arg'[initproc] = NULL
      <3>1. current = initproc => pc[initproc] = "waitwake"
        BY <1>3 DEF WaitWake, At
      <3> QED  BY <2>2, <3>1 DEF Life, Threads
    <2> HIDE DEF l
    <2>5. /\ insched' \in BOOLEAN /\ ~insched'
          /\ kthread' \in [Proc -> BOOLEAN] /\ kthread'[initproc]
      BY <1>0, <2>1, <2>2 DEF Runs, Life
    <2>6. /\ current \in User => l # "initdone"
          /\ current = initproc => /\ l \in {"wait", "initdone"} /\ arg'[initproc] = NULL
                                   /\ l = "initdone" => cptr[initproc] = NULL
      BY <2>3, <2>4
    <2> QED  BY <2>1, <2>2, <2>3, <2>5, <2>6, SameClock, Quiet
  <1>4. CASE UserMainExec
    <2>1. Runs /\ pc[current] = "kmain"
      BY <1>4, Running DEF UserMainExec, At
    <2>2. /\ Goto("user") /\ insched' = insched
          /\ UNCHANGED <<state, wait_state, links, current, irq, nr_process, halted, exiting>>
          /\ timer_list' = timer_list /\ arg' = arg
      BY <1>4 DEF UserMainExec
    <2>3. current \in User /\ current # initproc
      BY <2>1 DEF Runs
    <2>4. kthread' \in [Proc -> BOOLEAN] /\ kthread'[initproc] = kthread[initproc]
      <3>1. kthread' = [kthread EXCEPT ![current] = FALSE]
        BY <1>4 DEF UserMainExec
      <3> QED  BY <1>0, <2>3, <3>1 DEF Life
    <2>6. kthread'[initproc]
      BY <1>0, <2>4, Zenon
    <2>5. insched' \in BOOLEAN /\ ~insched'
      BY <2>1, <2>2 DEF Runs
    <2> QED  BY <2>1, <2>2, <2>3, <2>4, <2>5, <2>6, SameClock, Quiet
  <1>5. CASE UserMainExecFails
    <2>1. Runs /\ pc[current] = "kmain"
      BY <1>5, Running DEF UserMainExecFails, At
    <2>2. /\ Goto("exit") /\ insched' = insched /\ kthread' = kthread
          /\ UNCHANGED <<state, wait_state, links, current, irq, nr_process, halted, exiting>>
          /\ timer_list' = timer_list /\ arg' = arg
      BY <1>5 DEF UserMainExecFails
    <2>3. current \in User /\ current # initproc
      BY <2>1 DEF Runs
    <2>5. /\ insched' \in BOOLEAN /\ ~insched'
          /\ kthread' \in [Proc -> BOOLEAN] /\ kthread'[initproc]
      BY <1>0, <2>1, <2>2 DEF Runs, Life
    <2> QED  BY <1>0, <2>1, <2>2, <2>3, <2>5, SameClock, Quiet
  <1> QED  BY <1>1, <1>2, <1>3, <1>4, <1>5

-----------------------------------------------------------------------------
(* Steps that wake a process.                                              *)

\* What wakeup_proc does to a process that may be woken: no assert fails.
LEMMA WakeEffect ==
    ASSUME Inv, Life, halted = "NO", NEW w \in Proc,
           state[w] \in {"UNINIT", "SLEEPING", "RUNNABLE"}, wakeup_proc(w)
    PROVE  /\ state' = [state EXCEPT ![w] = "RUNNABLE"]
           /\ wait_state' = [wait_state EXCEPT ![w] = "NONE"]
           /\ halted' = halted
  <1>1. CASE state[w] = "RUNNABLE"
    <2>1. state' = state /\ wait_state' = wait_state /\ halted' = halted
      BY <1>1 DEF wakeup_proc, Check
    <2>2. wait_state[w] = "NONE"
      BY <1>1 DEF Life, Places
    <2> QED  BY <1>1, <2>1, <2>2 DEF Inv, SchedType, Life, LifeType
  <1>2. CASE state[w] # "RUNNABLE"
    <2>1. /\ state' = [state EXCEPT ![w] = "RUNNABLE"]
          /\ wait_state' = [wait_state EXCEPT ![w] = "NONE"]
      BY <1>2 DEF wakeup_proc
    <2>2. ~InQueue(w)
      BY <1>2 DEF Inv, SchedInv, RunQueueExact
    <2>3. halted' = halted
      BY <1>2, <2>2 DEF wakeup_proc, Enqueue, Check
    <2> QED  BY <2>1, <2>3
  <1> QED  BY <1>1, <1>2

\* Somebody may have been woken, and nothing else has changed a state.
Woken(w) ==
    /\ state[w] \in {"UNINIT", "SLEEPING", "RUNNABLE"}
    /\ state' = [state EXCEPT ![w] = "RUNNABLE"]
    /\ wait_state' = [wait_state EXCEPT ![w] = "NONE"]

\* When nobody is woken this is idleproc.
LEMMA NobodyWoken ==
    ASSUME Inv, Life, UNCHANGED <<state, wait_state>>
    PROVE  Woken(idleproc)
  <1>1. state[idleproc] = "RUNNABLE" /\ idleproc \in Proc
    BY DEF Life, Threads, Proc
  <1>2. wait_state[idleproc] = "NONE"
    BY <1>1 DEF Life, Places
  <1> QED  BY <1>1, <1>2 DEF Woken, Inv, SchedType, Life, LifeType

\* current goes on to label l, or stays where it is.
WakeGoto(l) ==
    /\ pc' = [pc EXCEPT ![current] = l]
    /\ l # pc[current] =>
          /\ state[current] \in {"RUNNABLE", "ZOMBIE"}
          /\ ~insched
          /\ pc[current] \notin {"sleepwake", "waitwake", "idle", "dead"}
          /\ l \in {"forkfiles", "reparent", "trapret"}
    /\ l \in {"notify", "reparent", "dead"} <=> pc[current] \in {"notify", "reparent", "dead"}
    /\ l = "dead" => pc[current] = "dead"
    /\ pc[current] = "reparent" => l = "reparent"
    /\ current = initproc => l \in {pc[current], "forkfiles"}

\* wakeup_proc and the step that calls it leave every process where its state says.
LEMMA WakePlaces ==
    ASSUME Inv, Life, NEW w \in Proc, Woken(w), NEW l \in Labels, WakeGoto(l),
           UNCHANGED <<current, insched, arg>>,
           pc'[current] = "forkwake" => arg[current] # w
    PROVE  /\ wait_state' \in [Proc -> {"NONE", "CHILD", "TIMER"}]
           /\ Places'
  <1>1. /\ state \in [Proc -> {"FREE", "UNINIT", "SLEEPING", "RUNNABLE", "ZOMBIE"}]
        /\ pc \in [Proc -> Labels]
        /\ wait_state \in [Proc -> {"NONE", "CHILD", "TIMER"}]
        /\ current \in Proc
        /\ User \subseteq Proc
    BY DEF Inv, SchedType, Life, LifeType, Proc
  <1>2. /\ state'[w] = "RUNNABLE" /\ wait_state'[w] = "NONE"
        /\ \A p \in Proc : p # w => state'[p] = state[p] /\ wait_state'[p] = wait_state[p]
        /\ wait_state' \in [Proc -> {"NONE", "CHILD", "TIMER"}]
    BY <1>1 DEF Woken
  <1>3. pc'[current] = l /\ \A p \in Proc : p # current => pc'[p] = pc[p]
    BY <1>1 DEF WakeGoto
  <1>4. pc[w] \notin {"notify", "reparent", "dead"}
    BY DEF Life, Places, Woken
  <1>5. ASSUME NEW p \in Proc
        PROVE  /\ state'[p] = "SLEEPING" <=> wait_state'[p] # "NONE"
               /\ wait_state'[p] = "CHILD" => pc'[p] = "waitwake"
               /\ wait_state'[p] = "TIMER" => pc'[p] = "sleepwake"
               /\ state'[p] \in {"ZOMBIE", "FREE"} <=> pc'[p] \in {"notify", "reparent", "dead"}
               /\ state'[p] = "FREE" => pc'[p] = "dead"
               /\ state'[p] = "UNINIT" => pc'[p] \in {"user", "kmain"}
               /\ pc'[p] \in Passing => p = current /\ ~insched
               /\ pc'[p] = "forkwake" => arg[p] \in User /\ state[arg[p]] = "UNINIT"
    <2>1. /\ state[p] = "SLEEPING" <=> wait_state[p] # "NONE"
          /\ wait_state[p] = "CHILD" => pc[p] = "waitwake"
          /\ wait_state[p] = "TIMER" => pc[p] = "sleepwake"
          /\ state[p] \in {"ZOMBIE", "FREE"} <=> pc[p] \in {"notify", "reparent", "dead"}
          /\ state[p] = "FREE" => pc[p] = "dead"
          /\ state[p] = "UNINIT" => pc[p] \in {"user", "kmain"}
          /\ pc[p] \in Passing => p = current /\ ~insched
          /\ pc[p] = "forkwake" => arg[p] \in User /\ state[arg[p]] = "UNINIT"
      BY DEF Life, Places
    <2>2. CASE p # current
      BY <1>2, <1>3, <1>4, <2>1, <2>2
    <2>3. CASE p = current /\ l = pc[current]
      BY <1>2, <1>3, <1>4, <2>1, <2>3
    <2>4. CASE p = current /\ l # pc[current]
      BY <1>2, <1>3, <1>4, <2>1, <2>4 DEF WakeGoto, Passing
    <2> QED  BY <2>2, <2>3, <2>4
  <1>6. ASSUME NEW p \in Proc, pc'[p] = "forkwake"
        PROVE  arg'[p] \in User /\ state'[arg'[p]] = "UNINIT"
    <2>1. p = current /\ arg[p] \in User /\ state[arg[p]] = "UNINIT"
      BY <1>5, <1>6 DEF Passing
    <2> QED  BY <1>1, <1>2, <1>6, <2>1
  <1>7. pc'[current'] = "dead" => insched'
    BY <1>3 DEF WakeGoto, Life, Places
  <1> QED  BY <1>2, <1>5, <1>6, <1>7 DEF Places

\* The invariant after such a step, when the links do not change.
LEMMA WakeLife ==
    ASSUME Inv, Life, NEW w \in Proc, Woken(w), NEW l \in Labels, WakeGoto(l),
           UNCHANGED <<links, kthread, current, insched, arg, irq, nr_process, halted>>,
           exiting' \in [Proc -> BOOLEAN], ~exiting'[initproc],
           pc'[current] = "forkwake" => arg[current] # w,
           pc[current] = "notify" /\ l # "notify" => wait_state'[parent[current]] # "CHILD",
           timer_list' \in Seq(Timer), TL!OneEach(timer_list'),
           TimerProcs(timer_list') \subseteq TimerProcs(timer_list),
           \A p \in TimerProcs(timer_list) : p # w => p \in TimerProcs(timer_list'),
           ~irq => TL!NotDue(timer_list')
    PROVE  Life'
  <1>0. LinkTypes
    BY LinkTypesOK
  <1>1. /\ state \in [Proc -> {"FREE", "UNINIT", "SLEEPING", "RUNNABLE", "ZOMBIE"}]
        /\ wait_state \in [Proc -> {"NONE", "CHILD", "TIMER"}]
        /\ pc \in [Proc -> Labels]
        /\ current \in Proc
        /\ parent' = parent /\ cptr' = cptr /\ yptr' = yptr /\ optr' = optr
        /\ kthread' = kthread /\ current' = current /\ insched' = insched /\ arg' = arg
        /\ irq' = irq /\ nr_process' = nr_process /\ halted' = halted
    BY DEF Inv, SchedType, Life, LifeType, links
  <1>2. /\ state'[w] = "RUNNABLE" /\ wait_state'[w] = "NONE"
        /\ \A p \in Proc : p # w => state'[p] = state[p] /\ wait_state'[p] = wait_state[p]
        /\ state[w] \in {"UNINIT", "SLEEPING", "RUNNABLE"}
    BY <1>1 DEF Woken
  <1>3. /\ pc'[current] = l
        /\ \A p \in Proc : p # current => pc'[p] = pc[p]
        /\ l # pc[current] =>
              /\ pc[current] \notin {"sleepwake", "waitwake", "idle", "dead"}
              /\ l \in {"forkfiles", "reparent", "trapret"}
    BY <1>1 DEF WakeGoto
  <1>4. wait_state' \in [Proc -> {"NONE", "CHILD", "TIMER"}] /\ Places'
    BY WakePlaces
  <1>5. halted' # "PANIC" /\ LifeType'
    BY <1>1, <1>4 DEF Life, LifeType
  <1>6. Threads'
    <2>1. /\ pc'[idleproc] = "idle" /\ state'[idleproc] = "RUNNABLE"
          /\ pc'[initproc] \in {pc[initproc], "forkfiles"}
          /\ \A p \in User : pc'[p] \notin {"idle", "initfork", "initdone"}
      <3>1. pc[idleproc] = "idle" /\ state[idleproc] = "RUNNABLE"
        BY DEF Life, Threads
      <3>2. pc'[idleproc] = "idle" /\ state'[idleproc] = "RUNNABLE"
        BY <1>0, <1>2, <1>3, <3>1 DEF LinkTypes
      <3>3. pc'[initproc] \in {pc[initproc], "forkfiles"}
        BY <1>0, <1>3 DEF WakeGoto, LinkTypes
      <3>4. \A p \in User : pc'[p] \notin {"idle", "initfork", "initdone"}
        BY <1>0, <1>3 DEF Life, Threads, LinkTypes
      <3> QED  BY <3>2, <3>3, <3>4
    <2>2. kthread'[initproc]
      BY <1>1, Zenon DEF Life, Threads
    <2>3. /\ pc'[initproc] \in {"initfork", "forkwake", "forkfiles", "wait", "waitwake", "initdone"}
          /\ pc'[initproc] \notin {"forkwake", "forkfiles"} => arg'[initproc] = NULL
          /\ pc'[initproc] = "initdone" => cptr'[initproc] = NULL
      BY <1>1, <2>1 DEF Life, Threads
    <2> QED  BY <1>1, <2>1, <2>2, <2>3 DEF Life, Threads
  <1>7. Family'
    <2>1. \A p \in Proc : state'[p] = "FREE" <=> state[p] = "FREE"
      BY <1>2
    <2>2. \A p \in Proc : cptr[p] # NULL =>
             pc'[p] # "dead" /\ (pc[p] = "reparent" => pc'[p] = "reparent")
      <3> SUFFICES ASSUME NEW p \in Proc, cptr[p] # NULL
                   PROVE  pc'[p] # "dead" /\ (pc[p] = "reparent" => pc'[p] = "reparent")
        OBVIOUS
      <3>1. Kid(cptr[p]) /\ parent[cptr[p]] = p /\ cptr[p] \in Proc
        BY <1>0 DEF Life, Family, Links, LinkTypes
      <3>2. pc[p] # "dead"
        BY <3>1 DEF Life, Family, Links
      <3> QED  BY <1>3, <3>2 DEF WakeGoto
    <2> QED  BY <1>0, <2>1, <2>2, FamilyFrame DEF Life
  <1>8. Waits'
    <2> SUFFICES ASSUME NEW p \in Proc, wait_state'[p] = "CHILD"
                 PROVE  /\ \E q \in Proc : Live(q)' /\ parent'[q] = p /\ arg'[p] \in {NULL, q}
                        /\ \A q \in Proc :
                              parent'[q] = p /\ arg'[p] \in {NULL, q} /\ state'[q] = "ZOMBIE" =>
                                  q = current' /\ pc'[q] = "notify"
      BY DEF Waits
    <2>1. wait_state[p] = "CHILD"
      BY <1>2
    <2>2. \A q \in Proc : Live(q)' <=> Live(q)
      BY <1>2 DEF Live
    <2>3. \E q \in Proc : Live(q) /\ parent[q] = p /\ arg[p] \in {NULL, q}
      BY <2>1 DEF Life, Waits
    <2>4. ASSUME NEW q \in Proc, parent[q] = p, arg[p] \in {NULL, q}, state'[q] = "ZOMBIE"
          PROVE  q = current /\ pc'[q] = "notify"
      <3>1. state[q] = "ZOMBIE"
        BY <1>2, <2>4
      <3>2. q = current /\ pc[q] = "notify"
        BY <2>1, <2>4, <3>1 DEF Life, Waits
      <3> QED  BY <1>3, <2>4, <3>2
    <2> QED  BY <1>1, <2>2, <2>3, <2>4
  <1>9. Clock'
    <2>1. ASSUME NEW p \in TimerProcs(timer_list')  PROVE p \in Proc /\ pc'[p] = "sleepwake"
      BY <1>3 DEF Life, Clock
    <2>2. ASSUME NEW p \in Proc, wait_state'[p] = "TIMER"  PROVE p \in TimerProcs(timer_list')
      BY <1>2, <2>2 DEF Life, Clock
    <2> QED  BY <1>1, <2>1, <2>2 DEF Clock
  <1>10. Census'
    BY <1>1, <1>2, CensusFrame DEF Life
  <1> QED  BY <1>4, <1>5, <1>6, <1>7, <1>8, <1>9, <1>10 DEF Life

\* do_fork wakes the child, do_exit the parent, do_kill its target.
LEMMA WakeSteps ==
    ASSUME Inv, Life, initproc \notin KillTargets,
           \/ ForkWake \/ ExitNotify
           \/ \E q \in KillTargets : SysKill(q)
    PROVE  Life'
  <1>0. /\ pc \in [Proc -> Labels] /\ initproc \in Proc /\ initproc \notin User
        /\ exiting \in [Proc -> BOOLEAN] /\ ~exiting[initproc]
        /\ User \subseteq Proc
    BY KernelAssumption DEF Inv, SchedType, Life, LifeType, Threads, Proc
  <1>1. CASE ForkWake
    <2>1. Runs /\ pc[current] = "forkwake"
      BY <1>1, Running DEF ForkWake, At
    <2>2. /\ wakeup_proc(arg[current]) /\ Goto("forkfiles") /\ exiting' = exiting
          /\ UNCHANGED <<links, kthread, current, insched, arg, irq, nr_process>>
          /\ timer_list' = timer_list
      BY <1>1 DEF ForkWake
    <2>3. arg[current] \in Proc /\ state[arg[current]] = "UNINIT"
      BY <1>0, <2>1 DEF Runs, Life, Places
    <2>4. Woken(arg[current]) /\ halted' = halted
      BY <2>1, <2>2, <2>3, WakeEffect DEF Woken, Runs
    <2>5. WakeGoto("forkfiles") /\ "forkfiles" \in Labels
      BY <2>1, <2>2 DEF WakeGoto, Goto, Runs, Labels
    <2>6. pc'[current] # "forkwake" /\ pc[current] # "notify"
      BY <1>0, <2>1, <2>2 DEF Goto, Runs
    <2>7. /\ timer_list' \in Seq(Timer) /\ TL!OneEach(timer_list')
          /\ TimerProcs(timer_list') = TimerProcs(timer_list) /\ TL!NotDue(timer_list')
      BY <2>1, <2>2 DEF Life, Clock, Runs
    <2> QED  BY <1>0, <2>2, <2>3, <2>4, <2>5, <2>6, <2>7, WakeLife
  <1>2. CASE ExitNotify
    <2>1. Runs /\ pc[current] = "notify"
      BY <1>2, Running DEF ExitNotify, At
    <2>2. current \in User /\ current \in Proc /\ state[current] = "ZOMBIE"
      <3>1. current \in User /\ current \in Proc
        BY <2>1 DEF Runs
      <3>2. state[current] \in {"ZOMBIE", "FREE"} /\ state[current] # "FREE"
        BY <2>1, <3>1 DEF Life, Places
      <3> QED  BY <3>1, <3>2
    <2>3. parent[current] \in Proc
      <3>1. Kid(current)
        BY <2>2, KernelAssumption DEF Kid, Live
      <3> QED  BY <2>2, <3>1 DEF Life, Family, Links
    <2>4. /\ Goto("reparent") /\ exiting' = exiting
          /\ UNCHANGED <<links, kthread, current, insched, arg, irq, nr_process>>
          /\ timer_list' = timer_list
          /\ IF NotifyWakes THEN wakeup_proc(parent[current]) ELSE NoWakeup
      BY <1>2, <2>3, KernelAssumption DEF ExitNotify
    <2>5. PICK w \in Proc : /\ Woken(w) /\ halted' = halted
                            /\ wait_state'[parent[current]] # "CHILD"
      <3>1. CASE NotifyWakes
        <4>1. state[parent[current]] = "SLEEPING"
          BY <2>3, <3>1 DEF NotifyWakes, Life, Places
        <4>2. Woken(parent[current]) /\ halted' = halted
          BY <2>1, <2>3, <2>4, <3>1, <4>1, WakeEffect DEF Woken, Runs
        <4>3. wait_state'[parent[current]] = "NONE"
          BY <2>3, <4>2 DEF Woken, Life, LifeType
        <4> QED  BY <2>3, <4>2, <4>3
      <3>2. CASE ~NotifyWakes
        <4>1. UNCHANGED <<state, wait_state>> /\ halted' = halted
          BY <2>4, <3>2 DEF NoWakeup
        <4> QED  BY <3>2, <4>1, NobodyWoken DEF NotifyWakes, Proc
      <3> QED  BY <3>1, <3>2
    <2>6. WakeGoto("reparent") /\ "reparent" \in Labels
      BY <1>0, <2>1, <2>2, <2>4 DEF WakeGoto, Goto, Runs, Labels
    <2>7. pc'[current] # "forkwake"
      BY <1>0, <2>2, <2>4 DEF Goto
    <2>8. /\ timer_list' \in Seq(Timer) /\ TL!OneEach(timer_list')
          /\ TimerProcs(timer_list') = TimerProcs(timer_list) /\ TL!NotDue(timer_list')
      BY <2>1, <2>4 DEF Life, Clock, Runs
    <2> QED  BY <1>0, <2>4, <2>5, <2>6, <2>7, <2>8, WakeLife
  <1>3. ASSUME NEW q \in KillTargets, SysKill(q)  PROVE Life'
    <2>1. Runs /\ pc[current] = "user"
      BY <1>3, Running DEF SysKill, At
    <2>2. q \in User /\ q \in Proc /\ q # initproc
      BY <1>0, KernelAssumption
    <2>3. /\ Goto("trapret") /\ exiting' = [exiting EXCEPT ![q] = TRUE]
          /\ UNCHANGED <<links, kthread, current, insched, arg, irq, nr_process>>
          /\ timer_list' = timer_list
          /\ IF wait_state[q] # "NONE" THEN wakeup_proc(q) ELSE NoWakeup
      BY <1>3 DEF SysKill, SyscallReturn
    <2>4. exiting' \in [Proc -> BOOLEAN] /\ ~exiting'[initproc]
      BY <1>0, <2>2, <2>3
    <2>5. PICK w \in Proc : Woken(w) /\ halted' = halted
      <3>1. CASE wait_state[q] # "NONE"
        <4>1. state[q] = "SLEEPING"
          BY <2>2, <3>1 DEF Life, Places
        <4> QED  BY <2>1, <2>2, <2>3, <3>1, <4>1, WakeEffect DEF Woken, Runs
      <3>2. CASE wait_state[q] = "NONE"
        <4>1. UNCHANGED <<state, wait_state>> /\ halted' = halted
          BY <2>3, <3>2 DEF NoWakeup
        <4> QED  BY <4>1, NobodyWoken DEF Proc
      <3> QED  BY <3>1, <3>2
    <2>6. WakeGoto("trapret") /\ "trapret" \in Labels
      BY <2>1, <2>3 DEF WakeGoto, Goto, Runs, Labels
    <2>7. pc'[current] # "forkwake" /\ pc[current] # "notify"
      BY <1>0, <2>1, <2>3 DEF Goto, Runs
    <2>8. /\ timer_list' \in Seq(Timer) /\ TL!OneEach(timer_list')
          /\ TimerProcs(timer_list') = TimerProcs(timer_list) /\ TL!NotDue(timer_list')
      BY <2>1, <2>3 DEF Life, Clock, Runs
    <2>9. UNCHANGED <<links, kthread, current, insched, arg, irq, nr_process, halted>>
      BY <2>3, <2>5
    <2> QED  BY <2>4, <2>5, <2>6, <2>7, <2>8, <2>9, WakeLife
  <1> QED  BY <1>1, <1>2, <1>3

\* run_timer_list wakes the process whose timer is due.
LEMMA ExpireLife ==
    ASSUME Inv, Life, TimerExpire  PROVE Life'
  <1> DEFINE w == Head(timer_list).proc
  <1>1. w \in TimerProcs(timer_list) /\ timer_list \in Seq(Timer)
    <2>1. timer_list # <<>> /\ timer_list \in Seq(Timer)
      BY DEF TimerExpire, HeadDue, Life, Clock
    <2>2. 1 \in DOMAIN timer_list /\ Head(timer_list) = timer_list[1]
      BY <2>1
    <2> QED  BY <2>1, <2>2 DEF TimerProcs
  <1>2. /\ halted = "NO" /\ wakeup_proc(w) /\ timer_list' = del_timer(timer_list, w)
        /\ UNCHANGED <<links, kthread, current, insched, arg, irq, nr_process>>
        /\ pc' = pc /\ exiting' = exiting /\ irq
    BY DEF TimerExpire
  <1> HIDE DEF w
  <1>3. w \in Proc /\ pc[w] = "sleepwake"
    BY <1>1 DEF Life, Clock
  <1>4. state[w] \in {"UNINIT", "SLEEPING", "RUNNABLE"}
    <2>1. state[w] \in {"FREE", "UNINIT", "SLEEPING", "RUNNABLE", "ZOMBIE"}
      BY <1>3 DEF Inv, SchedType
    <2>2. state[w] \in {"ZOMBIE", "FREE"} <=> pc[w] \in {"notify", "reparent", "dead"}
      BY <1>3 DEF Life, Places
    <2> QED  BY <1>3, <2>1, <2>2
  <1>5. Woken(w) /\ halted' = halted
    BY <1>2, <1>3, <1>4, WakeEffect DEF Woken
  <1>6. current \in Proc /\ pc \in [Proc -> Labels] /\ pc[current] \in Labels
    BY DEF Inv, SchedType
  <1>7. WakeGoto(pc[current])
    BY <1>2, <1>6 DEF WakeGoto
  <1>8. pc'[current] = "forkwake" => arg[current] # w
    <2>1. pc[current] = "forkwake" => state[arg[current]] = "UNINIT" /\ arg[current] \in User
      BY <1>6 DEF Life, Places
    <2>2. \A p \in User : state[p] = "UNINIT" => pc[p] # "sleepwake"
      BY DEF Life, Places, Proc
    <2> QED  BY <1>2, <1>3, <2>1, <2>2
  <1>9. exiting' \in [Proc -> BOOLEAN] /\ ~exiting'[initproc]
    BY <1>2 DEF Life, LifeType, Threads
  <1>10. /\ timer_list' \in Seq(Timer) /\ TL!OneEach(timer_list')
         /\ TimerProcs(timer_list') = TimerProcs(timer_list) \ {w}
    BY <1>2, DropTimer DEF Life, Clock
  <1> QED  BY <1>2, <1>3, <1>5, <1>6, <1>7, <1>8, <1>9, <1>10, WakeLife

-----------------------------------------------------------------------------
(* Steps in which current changes its own state.                           *)

\* current goes to sleep, or dies, or is dead and leaves.
Falls(v, ws, l) ==
    \/ v = "SLEEPING" /\ ws = "TIMER" /\ l = "sleepwake"
    \/ v = "SLEEPING" /\ ws = "CHILD" /\ l = "waitwake"
    \/ v = "ZOMBIE" /\ ws = "NONE" /\ l = "notify"
    \/ v = "ZOMBIE" /\ ws = "NONE" /\ l = "dead"

\* A step in which the running process goes to sleep or dies.
LEMMA OwnState ==
    ASSUME Inv, Life, Runs, NEW v, NEW ws, NEW l, Falls(v, ws, l),
           wait_state[current] = "NONE",
           state' = [state EXCEPT ![current] = v],
           wait_state' = [wait_state EXCEPT ![current] = ws],
           Goto(l), insched' = (l # "notify"),
           UNCHANGED <<links, kthread, exiting, arg, current, irq, nr_process, halted>>,
           pc[current] \notin {"forkwake", "notify", "sleepwake"},
           pc[current] = "reparent" <=> l = "dead",
           current = initproc => l = "waitwake" /\ pc[current] = "wait",
           l = "dead" => cptr[current] = NULL /\ state[current] = "ZOMBIE",
           l # "dead" => state[current] = "RUNNABLE",
           ws = "CHILD" =>
              /\ \E q \in Proc : Live(q) /\ parent[q] = current /\ arg[current] \in {NULL, q}
              /\ \A q \in Proc : parent[q] = current /\ arg[current] \in {NULL, q} =>
                    state[q] # "ZOMBIE" /\ q # current,
           timer_list' \in Seq(Timer), TL!OneEach(timer_list'),
           TimerProcs(timer_list') =
              TimerProcs(timer_list) \cup (IF ws = "TIMER" THEN {current} ELSE {}),
           TL!NotDue(timer_list')
    PROVE  Life'
  <1>0. LinkTypes
    BY LinkTypesOK
  <1>1. /\ state \in [Proc -> {"FREE", "UNINIT", "SLEEPING", "RUNNABLE", "ZOMBIE"}]
        /\ wait_state \in [Proc -> {"NONE", "CHILD", "TIMER"}]
        /\ pc \in [Proc -> Labels]
        /\ current \in Proc /\ current # idleproc
        /\ irq = FALSE /\ insched = FALSE
        /\ parent' = parent /\ cptr' = cptr /\ yptr' = yptr /\ optr' = optr
        /\ kthread' = kthread /\ exiting' = exiting /\ current' = current /\ arg' = arg
        /\ irq' = irq /\ nr_process' = nr_process /\ halted' = halted
    BY DEF Inv, SchedType, Life, LifeType, links, Runs
  <1>2. /\ state'[current] = v /\ wait_state'[current] = ws /\ pc'[current] = l
        /\ \A p \in Proc : p # current =>
              state'[p] = state[p] /\ wait_state'[p] = wait_state[p] /\ pc'[p] = pc[p]
    BY <1>1 DEF Goto
  <1>3. ws \in {"NONE", "CHILD", "TIMER"} /\ v \in {"SLEEPING", "ZOMBIE"}
    BY DEF Falls
  <1>4. halted' # "PANIC" /\ LifeType'
    <2>1. wait_state' \in [Proc -> {"NONE", "CHILD", "TIMER"}]
      BY <1>1, <1>3
    <2> QED  BY <1>1, <2>1 DEF Life, LifeType
  <1>5. Places'
    <2>1. ASSUME NEW p \in Proc
          PROVE  /\ state'[p] = "SLEEPING" <=> wait_state'[p] # "NONE"
                 /\ wait_state'[p] = "CHILD" => pc'[p] = "waitwake"
                 /\ wait_state'[p] = "TIMER" => pc'[p] = "sleepwake"
                 /\ state'[p] \in {"ZOMBIE", "FREE"} <=> pc'[p] \in {"notify", "reparent", "dead"}
                 /\ state'[p] = "FREE" => pc'[p] = "dead"
                 /\ state'[p] = "UNINIT" => pc'[p] \in {"user", "kmain"}
                 /\ pc'[p] \in Passing => p = current /\ ~insched'
                 /\ pc'[p] # "forkwake"
      <3>1. CASE p = current
        BY <1>2, <3>1 DEF Falls, Passing
      <3>2. CASE p # current
        <4>1. pc[p] \notin Passing
          BY <3>2 DEF Life, Places
        <4>2. pc[p] # "forkwake"
          BY <4>1 DEF Passing
        <4> QED  BY <1>2, <3>2, <4>1, <4>2 DEF Life, Places
      <3> QED  BY <3>1, <3>2
    <2>2. pc'[current'] = "dead" => insched'
      BY <1>1, <1>2
    <2> QED  BY <1>1, <2>1, <2>2 DEF Places
  <1>6. Threads'
    <2>1. /\ pc'[idleproc] = "idle" /\ state'[idleproc] = "RUNNABLE"
          /\ \A p \in User : pc'[p] \notin {"idle", "initfork", "initdone"}
      BY <1>0, <1>1, <1>2 DEF Life, Threads, LinkTypes, Falls
    <2>2. kthread'[initproc]
      BY <1>1, Zenon DEF Life, Threads
    <2>3. /\ pc'[initproc] \in {"initfork", "forkwake", "forkfiles", "wait", "waitwake", "initdone"}
          /\ pc'[initproc] \notin {"forkwake", "forkfiles"} => arg'[initproc] = NULL
          /\ pc'[initproc] = "initdone" => cptr'[initproc] = NULL
      <3>1. CASE current = initproc
        BY <1>1, <1>2, <3>1 DEF Life, Threads
      <3>2. CASE current # initproc
        BY <1>0, <1>1, <1>2, <3>2 DEF Life, Threads, LinkTypes
      <3> QED  BY <3>1, <3>2
    <2> QED  BY <1>1, <2>1, <2>2, <2>3 DEF Life, Threads
  <1>7. Family'
    <2>1. \A p \in Proc : state'[p] = "FREE" <=> state[p] = "FREE"
      BY <1>1, <1>2, <1>3
    <2>2. \A p \in Proc : cptr[p] # NULL =>
             pc'[p] # "dead" /\ (pc[p] = "reparent" => pc'[p] = "reparent")
      <3> SUFFICES ASSUME NEW p \in Proc, cptr[p] # NULL
                   PROVE  pc'[p] # "dead" /\ (pc[p] = "reparent" => pc'[p] = "reparent")
        OBVIOUS
      <3>1. Kid(cptr[p]) /\ parent[cptr[p]] = p /\ cptr[p] \in Proc
        BY <1>0 DEF Life, Family, Links, LinkTypes
      <3>2. pc[p] # "dead"
        BY <3>1 DEF Life, Family, Links
      <3> QED  BY <1>2, <3>2
    <2> QED  BY <1>0, <2>1, <2>2, FamilyFrame DEF Life
  <1>8. Waits'
    <2>1. ASSUME NEW p \in Proc, wait_state'[p] = "CHILD"
          PROVE  \E q \in Proc : Live(q) /\ parent[q] = p /\ arg[p] \in {NULL, q}
      BY <1>2, <2>1 DEF Life, Waits
    <2>2. ASSUME NEW p \in Proc, wait_state'[p] = "CHILD", NEW q \in Proc,
                 parent[q] = p, arg[p] \in {NULL, q}, state'[q] = "ZOMBIE"
          PROVE  q = current /\ pc'[q] = "notify"
      <3>1. CASE p = current
        BY <1>2, <2>2, <3>1 DEF Falls
      <3>2. CASE p # current
        <4>1. wait_state[p] = "CHILD"
          BY <1>2, <2>2, <3>2
        <4>2. state[q] # "ZOMBIE"
          BY <2>2, <4>1 DEF Life, Waits
        <4>3. q = current
          BY <1>2, <2>2, <4>2
        <4> QED  BY <1>2, <2>2, <4>2, <4>3 DEF Falls
      <3> QED  BY <3>1, <3>2
    <2>3. \A q \in Proc : Live(q)' <=> Live(q)
      BY <1>1, <1>2, <1>3 DEF Live
    <2> QED  BY <1>1, <2>1, <2>2, <2>3 DEF Waits
  <1>9. Clock'
    <2>1. ASSUME NEW p \in TimerProcs(timer_list')  PROVE p \in Proc /\ pc'[p] = "sleepwake"
      BY <1>1, <1>2 DEF Life, Clock, Falls
    <2>2. ASSUME NEW p \in Proc, wait_state'[p] = "TIMER"  PROVE p \in TimerProcs(timer_list')
      BY <1>2, <2>2 DEF Life, Clock
    <2> QED  BY <1>1, <2>1, <2>2 DEF Clock
  <1>10. Census'
    BY <1>1, <1>2, <1>3, CensusFrame DEF Life
  <1> QED  BY <1>4, <1>5, <1>6, <1>7, <1>8, <1>9, <1>10 DEF Life

-----------------------------------------------------------------------------
(* The chain of siblings.                                                  *)

\* Sibling, step by step.
LEMMA SiblingIs ==
    ASSUME LinkTypes, NEW p \in Proc
    PROVE  /\ Cardinality(Proc) \in Nat \ {0} /\ IsFiniteSet(Proc)
           /\ Sibling(p) \in [1 .. Cardinality(Proc) -> Proc \cup {NULL}]
           /\ Sibling(p)[1] = cptr[p]
           /\ \A n \in Nat : n \in 1 .. Cardinality(Proc) /\ n + 1 \in 1 .. Cardinality(Proc) =>
                 Sibling(p)[n + 1] =
                    IF Sibling(p)[n] = NULL THEN NULL ELSE optr[Sibling(p)[n]]
  <1> DEFINE X == Proc \cup {NULL}
             N == Cardinality(Proc)
             next == [x \in X |-> IF x = NULL THEN NULL ELSE optr[x]]
             F == [i \in Nat |-> next]
             Is(f) == f = [n \in 1 .. N |-> IF n = 1 THEN cptr[p]
                                            ELSE IF f[n - 1] = NULL THEN NULL ELSE optr[f[n - 1]]]
             sib == Sibling(p)
  <1>1. IsFiniteSet(Proc) /\ N \in Nat \ {0}
    <2>1. IsFiniteSet(User \cup {idleproc}) /\ IsFiniteSet(User \cup {idleproc} \cup {initproc})
      BY KernelAssumption, FS_AddElement
    <2>2. User \cup {idleproc} \cup {initproc} = Proc
      BY DEF Proc
    <2>3. IsFiniteSet(Proc)
      BY <2>1, <2>2
    <2>4. N \in Nat
      BY <2>3, FS_CardinalityType
    <2>5. N # 0
      BY <2>3, FS_EmptySet DEF LinkTypes
    <2> QED  BY <2>3, <2>4, <2>5
  <1>2. /\ next \in [X -> X] /\ cptr[p] \in X /\ NULL \in X
        /\ \A x \in X : next[x] = IF x = NULL THEN NULL ELSE optr[x]
    BY DEF LinkTypes
  <1>3. F \in [Nat -> [X -> X]] /\ \A i \in Nat : F[i] = next
    BY <1>2
  <1> HIDE DEF N, X, next, F
  <1>4. PICK f : Iterates(f, X, cptr[p], F, N - 1)
    <2>1. N - 1 \in Nat
      BY <1>1
    <2> QED  BY <1>2, <1>3, <2>1, StepByStep
  <1>5. /\ f \in [1 .. N -> X] /\ f[1] = cptr[p]
        /\ \A i \in 1 .. N - 1 : f[i + 1] = next[f[i]]
    <2>1. N - 1 + 1 = N
      BY <1>1
    <2>2. \A i \in 1 .. N - 1 : i \in Nat
      BY <1>1
    <2> QED  BY <1>3, <1>4, <2>1, <2>2 DEF Iterates
  <1>6. Is(f)
    <2>1. ASSUME NEW n \in 1 .. N, n # 1
          PROVE  f[n] = IF f[n - 1] = NULL THEN NULL ELSE optr[f[n - 1]]
      <3>1. n - 1 \in 1 .. N - 1 /\ n - 1 + 1 = n /\ n - 1 \in 1 .. N
        BY <1>1, <2>1
      <3>2. f[n - 1] \in X
        BY <1>5, <3>1
      <3>3. f[n] = next[f[n - 1]]
        BY <1>5, <3>1
      <3> QED  BY <1>2, <3>2, <3>3
    <2> QED  BY <1>5, <2>1
  <1>7. sib = CHOOSE g : Is(g)
    BY DEF Sibling, N
  <1> HIDE DEF sib
  <1>8. Is(sib)
    BY <1>6, <1>7
  <1>9. sib[1] = cptr[p] /\ DOMAIN sib = 1 .. N
    BY <1>1, <1>8
  <1>10. ASSUME NEW n \in Nat, n \in 1 .. N, n + 1 \in 1 .. N
         PROVE  sib[n + 1] = IF sib[n] = NULL THEN NULL ELSE optr[sib[n]]
    <2>1. n + 1 # 1 /\ (n + 1) - 1 = n
      BY <1>10
    <2> QED  BY <1>8, <1>10, <2>1
  <1>11. \A n \in 1 .. N : sib[n] \in X
    <2> DEFINE S == {k \in Nat : k + 1 \in 1 .. N => sib[k + 1] \in X}
    <2>1. 0 \in S
      BY <1>2, <1>9
    <2>2. ASSUME NEW k \in Nat, k \in S  PROVE k + 1 \in S
      <3> SUFFICES ASSUME k + 1 + 1 \in 1 .. N  PROVE sib[k + 1 + 1] \in X
        OBVIOUS
      <3>1. k + 1 \in 1 .. N /\ k + 1 \in Nat
        BY <1>1
      <3>2. sib[k + 1] \in X
        BY <2>2, <3>1
      <3>3. sib[k + 1 + 1] = next[sib[k + 1]]
        BY <1>2, <1>10, <3>1, <3>2
      <3> QED  BY <1>2, <3>2, <3>3
    <2> HIDE DEF S
    <2>3. Nat \subseteq S
      BY <2>1, <2>2, SetInduction
    <2> SUFFICES ASSUME NEW n \in 1 .. N  PROVE sib[n] \in X
      OBVIOUS
    <2>4. n - 1 \in Nat /\ (n - 1) + 1 = n
      BY <1>1
    <2>5. n - 1 \in S
      BY <2>3, <2>4
    <2> QED  BY <2>4, <2>5 DEF S
  <1>12. sib \in [1 .. N -> X]
    <2>1. sib = [n \in 1 .. N |-> sib[n]]
      BY <1>8
    <2> QED  BY <1>11, <2>1
  <1> QED  BY <1>1, <1>9, <1>10, <1>12 DEF N, X, sib

\* Every link of the chain is a child, and leads back to the one before.
LEMMA SiblingKids ==
    ASSUME LinkTypes, Links, NEW p \in Proc,
           NEW n \in 1 .. Cardinality(Proc), Sibling(p)[n] # NULL
    PROVE  /\ Kid(Sibling(p)[n]) /\ parent[Sibling(p)[n]] = p /\ Sibling(p)[n] \in Proc
           /\ n # 1 => /\ Sibling(p)[n - 1] # NULL
                       /\ yptr[Sibling(p)[n]] = Sibling(p)[n - 1]
                       /\ Sibling(p)[n] # cptr[p]
  <1> DEFINE N == Cardinality(Proc)
             sib == Sibling(p)
             S == {k \in Nat : k + 1 \in 1 .. N /\ sib[k + 1] # NULL =>
                                  Kid(sib[k + 1]) /\ parent[sib[k + 1]] = p}
  <1>1. /\ N \in Nat \ {0}
        /\ sib \in [1 .. N -> Proc \cup {NULL}]
        /\ sib[1] = cptr[p]
        /\ \A k \in Nat : k \in 1 .. N /\ k + 1 \in 1 .. N =>
              sib[k + 1] = IF sib[k] = NULL THEN NULL ELSE optr[sib[k]]
    BY SiblingIs
  <1> HIDE DEF N, sib
  <1>2. ASSUME NEW k \in Nat, k \in 1 .. N, k + 1 \in 1 .. N, sib[k + 1] # NULL
        PROVE  /\ sib[k] # NULL /\ sib[k] \in Proc
               /\ Kid(sib[k + 1]) /\ parent[sib[k + 1]] = parent[sib[k]]
               /\ yptr[sib[k + 1]] = sib[k]
               /\ cptr[parent[sib[k]]] # sib[k + 1]
    <2>1. sib[k] # NULL /\ sib[k + 1] = optr[sib[k]]
      BY <1>1, <1>2
    <2>2. sib[k] \in Proc
      BY <1>1, <1>2, <2>1
    <2> QED  BY <1>2, <2>1, <2>2 DEF Links
  <1>3. 0 \in S
    <2>1. cptr[p] # NULL => Kid(cptr[p]) /\ parent[cptr[p]] = p
      BY DEF Links
    <2> QED  BY <1>1, <2>1
  <1>4. ASSUME NEW k \in Nat, k \in S  PROVE k + 1 \in S
    <2> SUFFICES ASSUME k + 1 + 1 \in 1 .. N, sib[k + 1 + 1] # NULL
                 PROVE  Kid(sib[k + 1 + 1]) /\ parent[sib[k + 1 + 1]] = p
      OBVIOUS
    <2>1. k + 1 \in 1 .. N /\ k + 1 \in Nat
      BY <1>1
    <2>2. /\ sib[k + 1] # NULL
          /\ Kid(sib[k + 1 + 1]) /\ parent[sib[k + 1 + 1]] = parent[sib[k + 1]]
      BY <1>2, <2>1
    <2> QED  BY <1>4, <2>1, <2>2
  <1> HIDE DEF S
  <1>5. Nat \subseteq S
    BY <1>3, <1>4, SetInduction
  <1>6. ASSUME NEW i \in 1 .. N, sib[i] # NULL
        PROVE  Kid(sib[i]) /\ parent[sib[i]] = p /\ sib[i] \in Proc
    <2>1. i - 1 \in Nat /\ (i - 1) + 1 = i
      BY <1>1
    <2>2. i - 1 \in S
      BY <1>5, <2>1
    <2> QED  BY <1>1, <1>6, <2>1, <2>2 DEF S
  <1>7. n \in 1 .. N /\ sib[n] # NULL
    BY DEF N, sib
  <1>8. n # 1 => sib[n - 1] # NULL /\ yptr[sib[n]] = sib[n - 1] /\ sib[n] # cptr[p]
    <2> SUFFICES ASSUME n # 1
                 PROVE  sib[n - 1] # NULL /\ yptr[sib[n]] = sib[n - 1] /\ sib[n] # cptr[p]
      OBVIOUS
    <2>1. n - 1 \in Nat /\ n - 1 \in 1 .. N /\ (n - 1) + 1 = n
      BY <1>1, <1>7
    <2>2. /\ sib[n - 1] # NULL /\ yptr[sib[n]] = sib[n - 1]
          /\ cptr[parent[sib[n - 1]]] # sib[n]
      BY <1>2, <1>7, <2>1
    <2>3. parent[sib[n - 1]] = p
      BY <1>6, <2>1, <2>2
    <2> QED  BY <2>2, <2>3
  <1> QED  BY <1>6, <1>7, <1>8 DEF sib

\* It has no gap, and does not come back to a process.
LEMMA SiblingOnce ==
    ASSUME LinkTypes, Links, NEW p \in Proc,
           NEW j \in 1 .. Cardinality(Proc), Sibling(p)[j] # NULL,
           NEW i \in 1 .. Cardinality(Proc), i < j
    PROVE  Sibling(p)[i] # NULL /\ Sibling(p)[i] # Sibling(p)[j]
  <1> DEFINE N == Cardinality(Proc)
             sib == Sibling(p)
  <1>1. /\ N \in Nat \ {0}
        /\ sib[1] = cptr[p]
        /\ \A k \in Nat : k \in 1 .. N /\ k + 1 \in 1 .. N =>
              sib[k + 1] = IF sib[k] = NULL THEN NULL ELSE optr[sib[k]]
    BY SiblingIs
  <1>2. \A k \in 1 .. N : sib[k] # NULL /\ k # 1 =>
           /\ sib[k - 1] # NULL
           /\ yptr[sib[k]] = sib[k - 1]
           /\ sib[k] # cptr[p]
    BY SiblingKids
  <1>3. j \in 1 .. N /\ sib[j] # NULL /\ i \in 1 .. N
    OBVIOUS
  <1> HIDE DEF N, sib
  <1>4. ASSUME NEW a \in 1 .. N, NEW b \in 1 .. N, a < b, sib[b] # NULL
        PROVE  sib[a] # NULL
    <2> DEFINE S == {k \in Nat : a + k \in 1 .. N /\ sib[a] = NULL => sib[a + k] = NULL}
    <2>1. 0 \in S
      BY <1>1
    <2>2. ASSUME NEW k \in Nat, k \in S  PROVE k + 1 \in S
      <3> SUFFICES ASSUME a + (k + 1) \in 1 .. N, sib[a] = NULL  PROVE sib[a + (k + 1)] = NULL
        OBVIOUS
      <3>1. a + k \in 1 .. N /\ a + k \in Nat /\ a + (k + 1) = (a + k) + 1
        BY <1>1
      <3>2. sib[a + k] = NULL
        BY <2>2, <3>1
      <3> QED  BY <1>1, <3>1, <3>2
    <2> HIDE DEF S
    <2>3. Nat \subseteq S
      BY <2>1, <2>2, SetInduction
    <2>4. b - a \in Nat /\ a + (b - a) = b
      BY <1>1, <1>4
    <2>5. b - a \in S
      BY <2>3, <2>4
    <2> QED  BY <1>4, <2>4, <2>5 DEF S
  <1>5. sib[i] # sib[j]
    <2> DEFINE T == {k \in 1 .. N : \E m \in 1 .. N : k < m /\ sib[m] # NULL /\ sib[k] = sib[m]}
    <2> SUFFICES ASSUME sib[i] = sib[j]  PROVE FALSE
      OBVIOUS
    <2>1. T \subseteq Nat /\ T # {}
      BY <1>1, <1>3
    <2> HIDE DEF T
    <2>2. PICK k \in T : \A m \in T : k <= m
      BY <2>1, LeastNat
    <2>3. k \in 1 .. N /\ \E m \in 1 .. N : k < m /\ sib[m] # NULL /\ sib[k] = sib[m]
      BY <2>2 DEF T
    <2>4. PICK m \in 1 .. N : k < m /\ sib[m] # NULL /\ sib[k] = sib[m]
      BY <2>3
    <2>5. m # 1 /\ m - 1 \in 1 .. N /\ sib[m - 1] # NULL /\ yptr[sib[m]] = sib[m - 1]
          /\ sib[m] # cptr[p]
      BY <1>1, <1>2, <2>3, <2>4
    <2>6. k # 1
      BY <1>1, <2>4, <2>5
    <2>7. k - 1 \in 1 .. N /\ yptr[sib[k]] = sib[k - 1] /\ k - 1 < m - 1 /\ k - 1 < k
      BY <1>1, <1>2, <2>3, <2>4, <2>6
    <2>8. k - 1 \in T
      BY <2>4, <2>5, <2>7 DEF T
    <2>9. k <= k - 1
      BY <2>2, <2>8
    <2> QED  BY <1>1, <2>3, <2>9
  <1>6. sib[i] # NULL
    BY <1>3, <1>4
  <1> QED  BY <1>5, <1>6 DEF sib

\* All children are in it.
LEMMA SiblingAll ==
    ASSUME LinkTypes, Links, Chained, NEW p \in Proc,
           NEW q \in Proc, Kid(q), parent[q] = p
    PROVE  \E n \in 1 .. Cardinality(Proc) : Sibling(p)[n] = q
  <1> DEFINE N == Cardinality(Proc)
             sib == Sibling(p)
             S == {r \in Proc : Kid(r) /\ parent[r] = p /\ \A n \in 1 .. N : sib[n] # r}
  <1> SUFFICES ASSUME q \in S  PROVE FALSE
    OBVIOUS
  <1>1. /\ N \in Nat \ {0} /\ IsFiniteSet(Proc)
        /\ sib \in [1 .. N -> Proc \cup {NULL}]
        /\ sib[1] = cptr[p]
        /\ \A k \in Nat : k \in 1 .. N /\ k + 1 \in 1 .. N =>
              sib[k + 1] = IF sib[k] = NULL THEN NULL ELSE optr[sib[k]]
    BY SiblingIs
  <1>2. /\ \A n \in 1 .. N : sib[n] # NULL => Kid(sib[n]) /\ sib[n] \in Proc
        /\ \A i, j \in 1 .. N : sib[j] # NULL /\ i < j => sib[i] # NULL /\ sib[i] # sib[j]
    BY SiblingKids, SiblingOnce
  <1>3. \A r \in S : r \in Proc /\ Kid(r) /\ parent[r] = p /\ \A n \in 1 .. N : sib[n] # r
    OBVIOUS
  <1>4. \A r \in Proc : Kid(r) /\ parent[r] = p /\ r \notin S => \E n \in 1 .. N : sib[n] = r
    OBVIOUS
  <1> HIDE DEF N, sib, S
  <1>5. PICK r \in S : cptr[parent[r]] = r \/ yptr[r] \notin S
    <2>1. S \in SUBSET Proc /\ S # {} /\ \A s \in S : Kid(s)
      BY <1>3
    <2> QED  BY <2>1 DEF Chained
  <1>6. r \in Proc /\ Kid(r) /\ parent[r] = p /\ \A n \in 1 .. N : sib[n] # r
    BY <1>3
  <1>7. cptr[p] # r
    BY <1>1, <1>6
  <1>8. yptr[r] \in Proc /\ optr[yptr[r]] = r
    BY <1>6, <1>7 DEF Links, LinkTypes
  <1>9. Kid(yptr[r]) /\ parent[yptr[r]] = p
    <2>1. optr[yptr[r]] # NULL
      BY <1>6, <1>8 DEF LinkTypes
    <2>2. parent[yptr[r]] = p
      BY <1>6, <1>8, <2>1 DEF Links
    <2>3. ~Kid(yptr[r]) => optr[yptr[r]] = NULL
      BY <1>8 DEF Links
    <2> QED  BY <2>1, <2>2, <2>3
  <1>10. PICK n \in 1 .. N : sib[n] = yptr[r]
    BY <1>4, <1>5, <1>6, <1>7, <1>8, <1>9
  <1>11. n = N
    <2> SUFFICES ASSUME n # N  PROVE FALSE
      OBVIOUS
    <2>1. n \in Nat /\ n + 1 \in 1 .. N
      BY <1>1
    <2>2. sib[n + 1] = r
      BY <1>1, <1>8, <1>10, <2>1 DEF LinkTypes
    <2> QED  BY <1>6, <2>1, <2>2
  <1>12. \A i \in 1 .. N : sib[i] # NULL
    BY <1>1, <1>2, <1>8, <1>10, <1>11 DEF LinkTypes
  <1> DEFINE T == Proc \ {idleproc}
  <1>13. sib \in [1 .. N -> T]
    <2>1. \A i \in 1 .. N : sib[i] \in T
      BY <1>2, <1>12 DEF Kid
    <2> QED  BY <1>1, <2>1
  <1>14. IsFiniteSet(T) /\ Cardinality(T) = N - 1
    BY <1>1, FS_RemoveElement DEF N, LinkTypes
  <1>15. IsFiniteSet(1 .. N) /\ Cardinality(1 .. N) = N
    <2>1. 1 \in Int /\ N \in Int /\ N >= 1
      BY <1>1
    <2>2. /\ IsFiniteSet(1 .. N)
          /\ Cardinality(1 .. N) = IF 1 > N THEN 0 ELSE N - 1 + 1
      BY <2>1, FS_Interval
    <2> QED  BY <2>1, <2>2
  <1>16. PICK i \in 1 .. N, j \in 1 .. N : i # j /\ sib[i] = sib[j]
    <2>1. Cardinality(T) < Cardinality(1 .. N)
      BY <1>1, <1>14, <1>15
    <2> HIDE DEF T
    <2> QED  BY <1>13, <1>14, <1>15, <2>1, FS_PigeonHole
  <1>17. i < j \/ j < i
    BY <1>1, <1>16
  <1> QED  BY <1>2, <1>12, <1>16, <1>17

\* do_wait looks at every child: if it stops at none, none is a zombie.
LEMMA NoneFound ==
    ASSUME Inv, Life, Runs, pc[current] = "wait", \A q \in Proc : ~Found(q),
           NEW q \in Proc, parent[q] = current, arg[current] \in {NULL, q}
    PROVE  state[q] # "ZOMBIE"
  <1> SUFFICES ASSUME state[q] = "ZOMBIE"  PROVE FALSE
    OBVIOUS
  <1>0. LinkTypes /\ current \in Proc /\ Links /\ Chained
    BY LinkTypesOK DEF Runs, Life, Family
  <1>1. CASE arg[current] # NULL
    <2>1. Found(q)
      BY <1>1 DEF Found
    <2> QED  BY <2>1
  <1>2. CASE arg[current] = NULL
    <2> DEFINE N == Cardinality(Proc)
               sib == Sibling(current)
               T == {n \in 1 .. N : sib[n] # NULL /\ state[sib[n]] = "ZOMBIE"}
    <2>1. Kid(q)
      BY <1>0 DEF Kid, Live, Life, Threads, LinkTypes
    <2>2. PICK k \in 1 .. N : sib[k] = q
      BY <1>0, <2>1, SiblingAll
    <2>3. N \in Nat /\ DOMAIN sib = 1 .. N /\ sib \in [1 .. N -> Proc \cup {NULL}]
      BY <1>0, SiblingIs
    <2>4. \A i, j \in 1 .. N : sib[j] # NULL /\ i < j => sib[i] # NULL
      BY <1>0, SiblingOnce
    <2> HIDE DEF N, sib
    <2>5. T \subseteq Nat /\ T # {}
      BY <1>0, <2>2, <2>3 DEF LinkTypes
    <2> HIDE DEF T
    <2>6. PICK n \in T : \A m \in T : n <= m
      BY <2>5, LeastNat
    <2>7. n \in 1 .. N /\ sib[n] \in Proc /\ sib[n] # NULL /\ state[sib[n]] = "ZOMBIE"
      BY <2>3, <2>6 DEF T
    <2>8. \A m \in 1 .. n - 1 : state[sib[m]] # "ZOMBIE"
      <3> SUFFICES ASSUME NEW m \in 1 .. n - 1  PROVE state[sib[m]] # "ZOMBIE"
        OBVIOUS
      <3>1. m \in 1 .. N /\ m < n /\ ~(n <= m)
        BY <2>3, <2>7
      <3>2. sib[m] # NULL
        BY <2>4, <2>7, <3>1
      <3>3. m \notin T
        BY <2>6, <3>1
      <3> QED  BY <3>1, <3>2, <3>3 DEF T
    <2>9. Found(sib[n])
      BY <1>2, <2>3, <2>7, <2>8 DEF Found, sib
    <2> QED  BY <2>7, <2>9
  <1> QED  BY <1>1, <1>2

\* do_sleep, do_wait and do_exit give the hart away.
LEMMA FallSteps ==
    ASSUME Inv, Life,
           \/ \E t \in SleepTimes : SysSleep(t)
           \/ WaitSleep \/ DoExit \/ ExitSchedule
    PROVE  Life'
  <1>0. /\ wait_state \in [Proc -> {"NONE", "CHILD", "TIMER"}]
        /\ state \in [Proc -> {"FREE", "UNINIT", "SLEEPING", "RUNNABLE", "ZOMBIE"}]
        /\ initproc \notin User /\ idleproc \notin User
    BY KernelAssumption DEF Inv, SchedType, Life, LifeType
  <1>1. ASSUME NEW t \in SleepTimes, SysSleep(t)  PROVE Life'
    <2>1. Runs /\ pc[current] = "user"
      BY <1>1, Running DEF SysSleep, At
    <2>2. /\ state' = [state EXCEPT ![current] = "SLEEPING"]
          /\ wait_state' = [wait_state EXCEPT ![current] = "TIMER"]
          /\ Goto("sleepwake") /\ insched' = TRUE
          /\ UNCHANGED <<links, kthread, exiting, arg, current, irq, nr_process>>
          /\ timer_list' = add_timer(timer_list, current, t)
          /\ Check(current \notin TimerProcs(timer_list))
      BY <1>1 DEF SysSleep
    <2>3. /\ current \in User /\ current \in Proc /\ irq = FALSE
          /\ state[current] = "RUNNABLE" /\ wait_state[current] = "NONE"
      BY <2>1 DEF Runs
    <2>4. current \notin TimerProcs(timer_list)
      BY <2>1 DEF Life, Clock
    <2>5. halted' = halted
      BY <2>2, <2>4 DEF Check
    <2>6. /\ timer_list' \in Seq(Timer) /\ TL!OneEach(timer_list')
          /\ TimerProcs(timer_list') = TimerProcs(timer_list) \cup {current}
          /\ TL!NotDue(timer_list')
      BY <2>2, <2>3, <2>4, ArmTimer DEF Life, Clock
    <2>7. Falls("SLEEPING", "TIMER", "sleepwake")
      BY DEF Falls
    <2>8. current # initproc
      BY <1>0, <2>3
    <2>9. UNCHANGED <<links, kthread, exiting, arg, current, irq, nr_process, halted>>
      BY <2>2, <2>5
    <2> QED  BY <2>1, <2>2, <2>3, <2>6, <2>7, <2>8, <2>9, OwnState
  <1>2. CASE WaitSleep
    <2>1. Runs /\ pc[current] = "wait" /\ haskid /\ \A q \in Proc : ~Found(q)
      BY <1>2, Running DEF WaitSleep, At
    <2>2. /\ state' = [state EXCEPT ![current] = "SLEEPING"]
          /\ wait_state' = [wait_state EXCEPT ![current] = "CHILD"]
          /\ Goto("waitwake") /\ insched' = TRUE
          /\ UNCHANGED <<links, kthread, exiting, arg, current, irq, nr_process, halted>>
          /\ timer_list' = timer_list
      BY <1>2 DEF WaitSleep
    <2>3. /\ current \in Proc /\ irq = FALSE
          /\ state[current] = "RUNNABLE" /\ wait_state[current] = "NONE"
      BY <2>1 DEF Runs
    <2>4. /\ timer_list' \in Seq(Timer) /\ TL!OneEach(timer_list')
          /\ TimerProcs(timer_list') = TimerProcs(timer_list) \cup {}
          /\ TL!NotDue(timer_list')
      BY <2>2, <2>3 DEF Life, Clock
    <2>5. \E q \in Proc : Live(q) /\ parent[q] = current /\ arg[current] \in {NULL, q}
      <3>1. LinkTypes
        BY LinkTypesOK
      <3>2. CASE arg[current] # NULL
        <4>1. arg[current] \in Proc
          BY <2>3, <3>2 DEF Inv, SchedType
        <4> QED  BY <2>1, <3>2, <4>1 DEF haskid
      <3>3. CASE arg[current] = NULL
        <4>1. cptr[current] # NULL /\ cptr[current] \in Proc
          BY <2>1, <2>3, <3>1, <3>3 DEF haskid, LinkTypes
        <4>2. Kid(cptr[current]) /\ parent[cptr[current]] = current
          BY <2>3, <4>1 DEF Life, Family, Links
        <4> QED  BY <3>3, <4>1, <4>2 DEF Kid
      <3> QED  BY <3>2, <3>3
    <2>6. ASSUME NEW q \in Proc, parent[q] = current, arg[current] \in {NULL, q}
          PROVE  state[q] # "ZOMBIE" /\ q # current
      <3>1. state[q] # "ZOMBIE"
        BY <2>1, <2>6, NoneFound
      <3>2. parent[current] # current
        <4>1. CASE current \in User
          <5>1. {current} \in SUBSET User /\ {current} # {} /\ \A r \in {current} : Live(r)
            BY <2>3, <4>1 DEF Live
          <5>2. \E r \in {current} : parent[r] \notin {current}
            BY <5>1 DEF Life, Family, Rooted
          <5> QED  BY <5>2
        <4>2. CASE current \notin User
          BY <2>1, <2>3, <4>2, KernelAssumption DEF Life, Threads, Runs, Proc
        <4> QED  BY <4>1, <4>2
      <3> QED  BY <2>6, <3>1, <3>2
    <2>7. Falls("SLEEPING", "CHILD", "waitwake")
      BY DEF Falls
    <2> QED  BY <2>1, <2>2, <2>3, <2>4, <2>5, <2>6, <2>7, OwnState
  <1>3. CASE DoExit
    <2>1. Runs /\ pc[current] = "exit"
      BY <1>3, Running DEF DoExit, At
    <2>2. /\ state' = [state EXCEPT ![current] = "ZOMBIE"]
          /\ wait_state' = wait_state
          /\ Goto("notify") /\ insched' = insched
          /\ UNCHANGED <<links, kthread, exiting, arg, current, irq, nr_process>>
          /\ timer_list' = timer_list
          /\ Check(current \notin {idleproc, initproc})
      BY <1>3 DEF DoExit
    <2>3. /\ current \in User /\ current \in Proc /\ irq = FALSE /\ insched = FALSE
          /\ state[current] = "RUNNABLE" /\ wait_state[current] = "NONE"
      BY <2>1 DEF Runs
    <2>4. current # initproc /\ halted' = halted
      BY <1>0, <2>2, <2>3 DEF Check
    <2>5. wait_state' = [wait_state EXCEPT ![current] = "NONE"]
      BY <1>0, <2>2, <2>3
    <2>6. /\ timer_list' \in Seq(Timer) /\ TL!OneEach(timer_list')
          /\ TimerProcs(timer_list') = TimerProcs(timer_list) \cup {}
          /\ TL!NotDue(timer_list')
      BY <2>2, <2>3 DEF Life, Clock
    <2>7. Falls("ZOMBIE", "NONE", "notify")
      BY DEF Falls
    <2>8. UNCHANGED <<links, kthread, exiting, arg, current, irq, nr_process, halted>>
      BY <2>2, <2>4
    <2>9. insched' = ("notify" # "notify")
      BY <2>2, <2>3
    <2> QED  BY <2>1, <2>2, <2>3, <2>4, <2>5, <2>6, <2>7, <2>8, <2>9, OwnState
  <1>4. CASE ExitSchedule
    <2>1. Runs /\ pc[current] = "reparent" /\ cptr[current] = NULL
      BY <1>4, Running DEF ExitSchedule, At
    <2>2. /\ state' = state /\ wait_state' = wait_state
          /\ Goto("dead") /\ insched' = TRUE
          /\ UNCHANGED <<links, kthread, exiting, arg, current, irq, nr_process, halted>>
          /\ timer_list' = timer_list
      BY <1>4 DEF ExitSchedule
    <2>3. current \in User /\ current \in Proc /\ irq = FALSE
      BY <2>1 DEF Runs
    <2>4. state[current] = "ZOMBIE" /\ wait_state[current] = "NONE"
      <3>1. /\ state[current] \in {"ZOMBIE", "FREE"} /\ state[current] # "FREE"
            /\ state[current] = "SLEEPING" <=> wait_state[current] # "NONE"
        BY <2>1, <2>3 DEF Life, Places
      <3> QED  BY <3>1
    <2>5. /\ wait_state' = [wait_state EXCEPT ![current] = "NONE"]
          /\ state' = [state EXCEPT ![current] = "ZOMBIE"]
      BY <1>0, <2>2, <2>3, <2>4
    <2>6. /\ timer_list' \in Seq(Timer) /\ TL!OneEach(timer_list')
          /\ TimerProcs(timer_list') = TimerProcs(timer_list) \cup {}
          /\ TL!NotDue(timer_list')
      BY <2>2, <2>3 DEF Life, Clock
    <2>7. Falls("ZOMBIE", "NONE", "dead")
      BY DEF Falls
    <2>8. current # initproc
      BY <1>0, <2>3
    <2> QED  BY <2>1, <2>2, <2>3, <2>4, <2>5, <2>6, <2>7, <2>8, OwnState
  <1> QED  BY <1>1, <1>2, <1>3, <1>4

-----------------------------------------------------------------------------
(* The end of init_main, the scheduler and the clock.                      *)

\* A step that leaves all processes alone.
LEMMA Frame ==
    ASSUME Inv, Life, halted' # "PANIC", irq' \in BOOLEAN,
           UNCHANGED <<state, wait_state, exiting, kthread, links, arg, nr_process>>,
           \/ pc' = pc
           \/ pc' = [pc EXCEPT ![current] = "trapret"] /\ pc[current] = "user",
           \A p \in Proc : pc[p] = "notify" => p = current',
           Places', Clock'
    PROVE  Life'
  <1>0. LinkTypes
    BY LinkTypesOK
  <1>1. /\ state' = state /\ wait_state' = wait_state /\ exiting' = exiting /\ arg' = arg
        /\ kthread' = kthread /\ nr_process' = nr_process
        /\ parent' = parent /\ cptr' = cptr /\ yptr' = yptr /\ optr' = optr
        /\ pc \in [Proc -> Labels] /\ current \in Proc
    BY DEF links, Inv, SchedType
  <1>2. \A p \in Proc : pc'[p] = pc[p] \/ (p = current /\ pc[p] = "user" /\ pc'[p] = "trapret")
    BY <1>1
  <1>3. LifeType'
    BY <1>1 DEF Life, LifeType
  <1>4. Threads'
    <2>1. kthread'[initproc]
      BY <1>1, Zenon DEF Life, Threads
    <2>2. pc'[idleproc] = pc[idleproc] /\ pc'[initproc] = pc[initproc]
      BY <1>0, <1>2 DEF Life, Threads, LinkTypes
    <2>3. \A p \in User : pc'[p] \notin {"idle", "initfork", "initdone"}
      BY <1>0, <1>2 DEF Life, Threads, LinkTypes
    <2> QED  BY <1>1, <2>1, <2>2, <2>3 DEF Life, Threads
  <1>5. Family'
    <2>1. \A p \in Proc : cptr[p] # NULL =>
             pc'[p] # "dead" /\ (pc[p] = "reparent" => pc'[p] = "reparent")
      <3> SUFFICES ASSUME NEW p \in Proc, cptr[p] # NULL  PROVE pc[p] # "dead"
        BY <1>2
      <3>1. Kid(cptr[p]) /\ parent[cptr[p]] = p /\ cptr[p] \in Proc
        BY <1>0 DEF Life, Family, Links, LinkTypes
      <3> QED  BY <3>1 DEF Life, Family, Links
    <2> QED  BY <1>0, <1>1, <2>1, FamilyFrame DEF Life
  <1>6. Waits'
    <2>1. ASSUME NEW q \in Proc, pc[q] = "notify"  PROVE q = current' /\ pc'[q] = "notify"
      BY <1>2, <2>1
    <2>2. \A p \in Proc : wait_state[p] = "CHILD" =>
             /\ \E q \in Proc : Live(q) /\ parent[q] = p /\ arg[p] \in {NULL, q}
             /\ \A q \in Proc :
                   parent[q] = p /\ arg[p] \in {NULL, q} /\ state[q] = "ZOMBIE" =>
                       pc[q] = "notify"
      BY DEF Life, Waits
    <2>3. \A q \in Proc : Live(q)' <=> Live(q)
      BY <1>1 DEF Live
    <2> QED  BY <1>1, <2>1, <2>2, <2>3 DEF Waits
  <1>7. Census'
    BY <1>1, CensusFrame DEF Life
  <1> QED  BY <1>3, <1>4, <1>5, <1>6, <1>7 DEF Life

\* The asserts at the end of init_main: when initproc has no child there is no
\* process but idleproc and itself.
LEMMA LastOnes ==
    ASSUME Inv, Life, cptr[initproc] = NULL
    PROVE  /\ yptr[initproc] = NULL /\ optr[initproc] = NULL
           /\ nr_process = 2 /\ \A p \in User : ~Live(p)
  <1>0. LinkTypes /\ Links /\ Chained /\ Rooted
    BY LinkTypesOK DEF Life, Family
  <1>1. /\ idleproc \in Proc /\ initproc \in Proc /\ initproc # idleproc
        /\ Live(initproc) /\ Live(idleproc) /\ Kid(initproc)
        /\ parent[initproc] = idleproc /\ pc[idleproc] = "idle"
        /\ \A q \in Proc : parent[q] = idleproc => q = initproc
    <2>1. Live(initproc)
      BY <1>0 DEF Life, Threads, Places, Live, LinkTypes
    <2> QED  BY <1>0, <2>1 DEF Life, Threads, LinkTypes, Kid, Live
  <1>2. cptr[idleproc] = initproc
    <2>1. cptr[idleproc] \in Proc /\ cptr[idleproc] # NULL
      BY <1>0, <1>1, HasKid DEF LinkTypes
    <2>2. parent[cptr[idleproc]] = idleproc
      BY <1>0, <1>1, <2>1 DEF Links
    <2> QED  BY <1>1, <2>1, <2>2
  <1>3. yptr[initproc] = NULL
    BY <1>0, <1>1, <1>2 DEF Links
  <1>4. optr[initproc] = NULL
    <2> SUFFICES ASSUME optr[initproc] # NULL  PROVE FALSE
      OBVIOUS
    <2>1. optr[initproc] \in Proc
      BY <1>0, <1>1 DEF LinkTypes
    <2>2. parent[optr[initproc]] = idleproc /\ cptr[idleproc] # optr[initproc]
      BY <1>0, <1>1 DEF Links
    <2> QED  BY <1>1, <1>2, <2>1, <2>2
  <1>5. \A p \in User : ~Live(p)
    <2> DEFINE S == {p \in User : Live(p)}
    <2> SUFFICES ASSUME S # {}  PROVE FALSE
      OBVIOUS
    <2>1. S \in SUBSET User /\ \A q \in S : Live(q) /\ q \in User
      OBVIOUS
    <2>2. \A q \in User : Live(q) => q \in S
      OBVIOUS
    <2> HIDE DEF S
    <2>3. PICK q \in S : parent[q] \notin S
      BY <1>0, <2>1 DEF Rooted
    <2>4. q \in Proc /\ Kid(q) /\ q # initproc
      BY <1>0, <2>1 DEF LinkTypes, Kid
    <2>5. parent[q] \in Proc /\ Live(parent[q])
      BY <1>0, <2>4 DEF Links
    <2>6. parent[q] = initproc
      BY <1>0, <1>1, <2>2, <2>3, <2>4, <2>5 DEF LinkTypes
    <2>7. cptr[initproc] \in Proc
      BY <1>0, <2>4, <2>6, HasKid
    <2> QED  BY <1>0, <2>7 DEF LinkTypes
  <1>6. nr_process = 2
    <2>1. {p \in Proc : Live(p)} = {idleproc} \cup {initproc}
      BY <1>0, <1>1, <1>5 DEF LinkTypes
    <2>2. IsFiniteSet({idleproc}) /\ Cardinality({idleproc}) = 1
      BY FS_Singleton
    <2>3. initproc \notin {idleproc}
      BY <1>1
    <2>4. Cardinality({idleproc} \cup {initproc}) = 1 + 1
      BY <2>2, <2>3, FS_AddElement
    <2> QED  BY <2>1, <2>4 DEF Life, Census
  <1> QED  BY <1>3, <1>4, <1>5, <1>6

\* The machine stops, or idleproc or another process calls schedule.
LEMMA SchedLife ==
    ASSUME Inv, Inv', Life, InitMainEnd \/ IdleLoop \/ Schedule  PROVE Life'
  <1>1. CASE InitMainEnd
    <2>1. Runs /\ pc[current] = "initdone"
      BY <1>1, Running DEF InitMainEnd, At
    <2>2. /\ UNCHANGED <<state, wait_state, exiting, kthread, links, arg, nr_process>>
          /\ pc' = pc /\ current' = current /\ insched' = insched /\ irq' = irq
          /\ timer_list' = timer_list
      BY <1>1 DEF InitMainEnd
    <2>3. current = initproc
      BY <2>1 DEF Runs, Life, Threads, Proc
    <2>4. cptr[initproc] = NULL
      BY <2>1, <2>3 DEF Life, Threads
    <2>5. halted' # "PANIC"
      BY <1>1, <2>4, LastOnes DEF InitMainEnd
    <2>6. irq' \in BOOLEAN
      BY <2>2 DEF Life, LifeType
    <2>7. \A p \in Proc : pc[p] = "notify" => p = current'
      BY <2>2 DEF Life, Places, Passing
    <2>8. Places'
      BY <2>2 DEF Life, Places
    <2>9. Clock'
      BY <2>2 DEF Life, Clock
    <2> QED  BY <2>2, <2>5, <2>6, <2>7, <2>8, <2>9, Frame
  <1>2. CASE IdleLoop
    <2>1. /\ UNCHANGED <<state, wait_state, exiting, kthread, links, arg, nr_process>>
          /\ pc' = pc /\ current' = current /\ insched' = TRUE /\ irq' = irq
          /\ timer_list' = timer_list /\ halted' = halted
          /\ pc[current] = "idle" /\ current \in Proc
      BY <1>2 DEF IdleLoop, At, Inv, SchedType
    <2>2. \A p \in Proc : pc[p] \notin Passing
      BY <2>1 DEF Life, Places, Passing
    <2>3. Places'
      BY <2>1, <2>2 DEF Life, Places, Passing
    <2>4. Clock'
      BY <2>1 DEF Life, Clock
    <2>5. irq' \in BOOLEAN /\ halted' # "PANIC"
      BY <2>1 DEF Life, LifeType
    <2>6. \A p \in Proc : pc[p] # "notify"
      BY <2>2 DEF Passing
    <2> QED  BY <2>1, <2>3, <2>4, <2>5, <2>6, Frame
  <1>3. CASE Schedule
    <2>1. /\ UNCHANGED <<state, wait_state, exiting, kthread, links, arg, nr_process>>
          /\ pc' = pc /\ insched' = FALSE /\ irq' = irq
          /\ timer_list' = timer_list
          /\ insched /\ halted = "NO"
      BY <1>3 DEF Schedule
    <2>2. \A p \in Proc : pc[p] \notin Passing
      BY <2>1 DEF Life, Places
    <2>3. halted' = "NO"
      <3>1. Requeued => ~InQueue(current)
        BY <2>1 DEF Requeued, Inv, SchedInv, RunQueueExact, SchedType
      <3> QED  BY <1>3, <2>1, <3>1 DEF Schedule, Check
    <2>4. current' \in Proc
      BY DEF Inv, SchedType
    <2>5. pc[current'] # "dead"
      <3>1. state'[current'] = "RUNNABLE" \/ pc'[current'] \in {"notify", "reparent"}
        BY <2>1, <2>3 DEF Inv, SchedInv
      <3>2. state[current'] = "RUNNABLE"
        BY <2>1, <2>2, <2>4, <3>1 DEF Passing
      <3> QED  BY <2>4, <3>2 DEF Life, Places
    <2>6. Places'
      BY <2>1, <2>2, <2>5 DEF Life, Places, Passing
    <2>7. Clock'
      BY <2>1 DEF Life, Clock
    <2>8. irq' \in BOOLEAN
      BY <2>1 DEF Life, LifeType
    <2>9. \A p \in Proc : pc[p] # "notify"
      BY <2>2 DEF Passing
    <2> QED  BY <2>1, <2>3, <2>6, <2>7, <2>8, <2>9, Frame
  <1> QED  BY <1>1, <1>2, <1>3

\* The clock interrupt, but for the expiry of a timer.
LEMMA TickLife ==
    ASSUME Inv, Life, Tick \/ TickEnd \/ UNCHANGED vars  PROVE Life'
  <1>0. /\ timer_list \in Seq(Timer) /\ TL!OneEach(timer_list)
        /\ pc \in [Proc -> Labels] /\ current \in Proc
        /\ \A p \in Proc : pc[p] = "notify" => p = current
    BY DEF Life, Clock, Inv, SchedType, Places, Passing
  <1>1. CASE Tick
    <2>1. /\ UNCHANGED <<state, wait_state, exiting, kthread, links, arg, nr_process>>
          /\ pc' = pc /\ current' = current /\ insched' = insched /\ irq' = TRUE
          /\ timer_list' = Shift(timer_list, 1, 0 - 1)
          /\ Check(timer_list # <<>> => Head(timer_list).expires # 0)
          /\ ~irq
      BY <1>1 DEF Tick
    <2>2. TL!NotDue(timer_list)
      BY <2>1 DEF Life, Clock
    <2>3. halted' # "PANIC"
      <3>1. timer_list # <<>> => Head(timer_list).expires # 0
        BY <1>0, <2>2 DEF TL!NotDue
      <3> QED  BY <2>1, <3>1 DEF Check, Life
    <2>4. /\ timer_list' \in Seq(Timer) /\ TL!OneEach(timer_list')
          /\ TimerProcs(timer_list') = TimerProcs(timer_list)
      BY <1>0, <2>1, <2>2, TickTimers
    <2>5. Clock'
      BY <2>1, <2>4 DEF Life, Clock
    <2>6. Places'
      BY <2>1 DEF Life, Places
    <2> QED  BY <1>0, <2>1, <2>3, <2>5, <2>6, Frame
  <1>2. CASE TickEnd
    <2>1. /\ UNCHANGED <<state, wait_state, exiting, kthread, links, arg, nr_process>>
          /\ current' = current /\ insched' = insched /\ irq' = FALSE
          /\ timer_list' = timer_list /\ halted' = halted
          /\ \/ pc' = pc
             \/ pc' = [pc EXCEPT ![current] = "trapret"] /\ pc[current] = "user" /\ ~insched
      BY <1>2 DEF TickEnd, Goto
    <2>2. TL!NotDue(timer_list)
      BY <1>0, <1>2 DEF TickEnd, HeadDue, TL!NotDue
    <2>3. \A p \in Proc :
             \/ pc'[p] = pc[p]
             \/ p = current /\ pc[p] = "user" /\ pc'[p] = "trapret" /\ ~insched
      BY <1>0, <2>1
    <2>4. Clock'
      BY <1>0, <2>1, <2>2, <2>3 DEF Life, Clock
    <2>5. Places'
      <3>1. ASSUME NEW p \in Proc
            PROVE  /\ state[p] = "SLEEPING" <=> wait_state[p] # "NONE"
                   /\ wait_state[p] = "CHILD" => pc'[p] = "waitwake"
                   /\ wait_state[p] = "TIMER" => pc'[p] = "sleepwake"
                   /\ state[p] \in {"ZOMBIE", "FREE"} <=> pc'[p] \in {"notify", "reparent", "dead"}
                   /\ state[p] = "FREE" => pc'[p] = "dead"
                   /\ state[p] = "UNINIT" => pc'[p] \in {"user", "kmain"}
                   /\ pc'[p] \in Passing => p = current /\ ~insched
                   /\ pc'[p] = "forkwake" => arg[p] \in User /\ state[arg[p]] = "UNINIT"
        <4>1. CASE pc'[p] = pc[p]
          BY <4>1 DEF Life, Places
        <4>2. CASE p = current /\ pc[p] = "user" /\ pc'[p] = "trapret" /\ ~insched
          <5>1. state[p] # "UNINIT"
            BY <1>2, <4>2 DEF Inv, SchedInv, TickEnd
          <5> QED  BY <4>2, <5>1 DEF Life, Places
        <4> QED  BY <2>3, <4>1, <4>2
      <3>2. pc'[current] = "dead" => insched
        BY <1>0, <2>3 DEF Life, Places
      <3> QED  BY <2>1, <3>1, <3>2 DEF Places
    <2>6. halted' # "PANIC" /\ irq' \in BOOLEAN
      BY <2>1 DEF Life
    <2>7. \/ pc' = pc
          \/ pc' = [pc EXCEPT ![current] = "trapret"] /\ pc[current] = "user"
      BY <2>1
    <2>8. \A p \in Proc : pc[p] = "notify" => p = current'
      BY <1>0, <2>1
    <2> QED  BY <2>1, <2>4, <2>5, <2>6, <2>7, <2>8, Frame
  <1>3. CASE UNCHANGED vars
    <2>1. /\ UNCHANGED <<state, wait_state, exiting, kthread, links, arg, nr_process>>
          /\ pc' = pc /\ current' = current /\ insched' = insched /\ irq' = irq
          /\ timer_list' = timer_list /\ halted' = halted
      BY <1>3 DEF vars
    <2>2. Places'
      BY <2>1 DEF Life, Places
    <2>3. Clock'
      BY <2>1 DEF Life, Clock
    <2>4. irq' \in BOOLEAN /\ halted' # "PANIC"
      BY <2>1 DEF Life, LifeType
    <2> QED  BY <1>0, <2>1, <2>2, <2>3, <2>4, Frame
  <1> QED  BY <1>1, <1>2, <1>3

-----------------------------------------------------------------------------
(* Steps that change the links.                                            *)

\* The links around a process and a child, one by one.
LEMMA LinkFacts ==
    ASSUME LinkTypes, Links
    PROVE  /\ \A q \in Proc : ~Kid(q) => parent[q] = NULL /\ yptr[q] = NULL /\ optr[q] = NULL
           /\ \A q \in Proc : Kid(q) => /\ parent[q] \in Proc /\ Live(parent[q])
                                        /\ pc[parent[q]] # "dead"
           /\ \A p \in Proc : cptr[p] # NULL =>
                 cptr[p] \in Proc /\ Kid(cptr[p]) /\ parent[cptr[p]] = p
           /\ \A q \in Proc : optr[q] # NULL =>
                 /\ optr[q] \in Proc /\ Kid(q) /\ Kid(optr[q])
                 /\ parent[optr[q]] = parent[q]
                 /\ yptr[optr[q]] = q
                 /\ cptr[parent[q]] # optr[q]
           /\ \A q \in Proc : Kid(q) /\ cptr[parent[q]] = q =>
                 yptr[q] = NULL \/ pc[parent[q]] = "reparent"
           /\ \A q \in Proc : Kid(q) /\ cptr[parent[q]] # q =>
                 /\ yptr[q] \in Proc /\ optr[yptr[q]] = q
                 /\ Kid(yptr[q]) /\ parent[yptr[q]] = parent[q]
  <1>1. \A q \in Proc : ~Kid(q) => parent[q] = NULL /\ yptr[q] = NULL /\ optr[q] = NULL
    BY DEF Links
  <1>2. \A q \in Proc : Kid(q) => /\ parent[q] \in Proc /\ Live(parent[q])
                                  /\ pc[parent[q]] # "dead"
    BY DEF Links
  <1>3. \A p \in Proc : cptr[p] # NULL =>
           cptr[p] \in Proc /\ Kid(cptr[p]) /\ parent[cptr[p]] = p
    BY DEF Links, LinkTypes
  <1>4. \A q \in Proc : optr[q] # NULL =>
           /\ optr[q] \in Proc /\ Kid(q) /\ Kid(optr[q])
           /\ parent[optr[q]] = parent[q]
           /\ yptr[optr[q]] = q
           /\ cptr[parent[q]] # optr[q]
    BY <1>1 DEF Links, LinkTypes
  <1>5. \A q \in Proc : Kid(q) /\ cptr[parent[q]] = q =>
           yptr[q] = NULL \/ pc[parent[q]] = "reparent"
    BY DEF Links
  <1>6. ASSUME NEW q \in Proc, Kid(q), cptr[parent[q]] # q
        PROVE  /\ yptr[q] \in Proc /\ optr[yptr[q]] = q
               /\ Kid(yptr[q]) /\ parent[yptr[q]] = parent[q]
    <2>1. yptr[q] # NULL /\ optr[yptr[q]] = q
      BY <1>6 DEF Links
    <2>2. yptr[q] \in Proc /\ q # NULL
      BY <2>1 DEF LinkTypes
    <2> QED  BY <1>4, <2>1, <2>2
  <1> QED  BY <1>1, <1>2, <1>3, <1>4, <1>5, <1>6

\* set_links puts the new child at the head of the chain.
LEMMA ForkFamily ==
    ASSUME LinkTypes, Family, current \in Proc, Live(current), NEW c \in User, ~Live(c),
           set_links(c), state' = [state EXCEPT ![c] = "UNINIT"],
           \A p \in Proc : pc[p] # "reparent",
           \A p \in Proc : p \notin {c, current} => pc'[p] = pc[p],
           pc'[current] = "forkwake"
    PROVE  Family'
  <1> DEFINE o == cptr[current]
  <1>0. /\ c \in Proc /\ c # current /\ c # idleproc /\ c # NULL /\ NULL \notin Proc
        /\ Links /\ Rooted /\ Chained
    BY DEF LinkTypes, Family
  <1>1. /\ parent'[c] = current /\ \A q \in Proc : q # c => parent'[q] = parent[q]
        /\ optr'[c] = o /\ \A q \in Proc : q # c => optr'[q] = optr[q]
        /\ cptr'[current] = c /\ \A q \in Proc : q # current => cptr'[q] = cptr[q]
        /\ \A q \in Proc : yptr'[q] = IF q = o THEN c ELSE IF q = c THEN NULL ELSE yptr[q]
    BY <1>0 DEF set_links, LinkTypes
  <1>2. \A q \in Proc : Live(q)' <=> Live(q) \/ q = c
    BY <1>0 DEF Live, LinkTypes
  <1>3. \A q \in Proc : Kid(q)' <=> Kid(q) \/ q = c
    BY <1>0, <1>2 DEF Kid
  <1> HIDE DEF o
  <1>4. ~Kid(c)
    BY DEF Kid
  <1>5. o # NULL => o \in Proc /\ Kid(o) /\ parent[o] = current /\ o # c
    BY <1>0, <1>4, LinkFacts DEF o
  <1>6. \A q \in Proc : Kid(q) => parent[q] # c
    BY <1>0, <1>4, LinkFacts
  <1>7. \A q \in Proc : Kid(q) /\ parent[q] = current /\ cptr[current] = q => q = o
    BY DEF o
  <1>8. Links'
    <2>1. ASSUME NEW q \in Proc, ~Kid(q)'
          PROVE  parent'[q] = NULL /\ yptr'[q] = NULL /\ optr'[q] = NULL
      BY <1>0, <1>1, <1>3, <1>5, <2>1, LinkFacts
    <2>2. ASSUME NEW q \in Proc, Kid(q)'
          PROVE  /\ parent'[q] \in Proc /\ Live(parent[q])'
                 /\ pc'[parent'[q]] # "dead"
      <3>1. CASE q = c
        <4>1. state'[current] # "FREE"
          BY <1>2 DEF Live
        <4> QED  BY <1>1, <3>1, <4>1 DEF Live
      <3>2. CASE q # c
        <4>1. Kid(q) /\ parent'[q] = parent[q] /\ parent[q] \in Proc /\ Live(parent[q])
              /\ parent[q] # c /\ pc[parent[q]] # "dead"
          BY <1>0, <1>1, <1>3, <1>6, <2>2, <3>2, LinkFacts
        <4>2. state'[parent[q]] # "FREE"
          BY <1>2, <4>1 DEF Live
        <4> QED  BY <4>1, <4>2 DEF Live
      <3> QED  BY <3>1, <3>2
    <2>3. ASSUME NEW p \in Proc, cptr'[p] # NULL
          PROVE  Kid(cptr[p])' /\ parent'[cptr'[p]] = p
      <3>1. CASE p = current
        BY <1>0, <1>1, <1>3, <3>1 DEF Kid, Live
      <3>2. CASE p # current
        <4>1. /\ cptr'[p] = cptr[p] /\ cptr[p] \in Proc /\ Kid(cptr[p])
              /\ parent[cptr[p]] = p /\ cptr[p] # c
          BY <1>0, <1>1, <1>4, <2>3, <3>2, LinkFacts
        <4> QED  BY <1>1, <1>3, <4>1 DEF Kid, Live
      <3> QED  BY <3>1, <3>2
    <2>4. ASSUME NEW q \in Proc, optr'[q] # NULL
          PROVE  /\ optr'[q] \in Proc /\ Kid(optr'[q]) /\ optr'[q] # c
                 /\ parent'[optr'[q]] = parent'[q]
                 /\ yptr'[optr'[q]] = q
                 /\ cptr'[parent'[q]] # optr'[q]
      <3>1. CASE q = c
        BY <1>0, <1>1, <1>5, <2>4, <3>1
      <3>2. CASE q # c
        <4>1. /\ optr'[q] = optr[q] /\ optr[q] \in Proc /\ Kid(q) /\ Kid(optr[q])
              /\ parent[optr[q]] = parent[q] /\ yptr[optr[q]] = q
              /\ cptr[parent[q]] # optr[q] /\ parent[q] \in Proc
          BY <1>0, <1>1, <2>4, <3>2, LinkFacts
        <4>2. optr[q] # c /\ optr[q] # o
          <5>1. optr[q] # c
            BY <1>4, <4>1
          <5>2. optr[q] = o => o # NULL /\ cptr[current] # o
            BY <1>0, <1>5, <4>1
          <5> QED  BY <5>1, <5>2 DEF o
        <4> QED  BY <1>0, <1>1, <3>2, <4>1, <4>2
      <3> QED  BY <3>1, <3>2
    <2>5. ASSUME NEW q \in Proc, Kid(q)'
          PROVE  IF cptr'[parent'[q]] = q
                 THEN yptr'[q] = NULL \/ pc'[parent'[q]] = "reparent"
                 ELSE yptr'[q] # NULL /\ optr'[yptr'[q]] = q
      <3>1. CASE q = c
        BY <1>0, <1>1, <1>5, <3>1
      <3>2. CASE q # c /\ q = o
        <4>1. Kid(q) /\ parent'[q] = current /\ yptr'[q] = c
          BY <1>0, <1>1, <1>5, <3>2
        <4> QED  BY <1>0, <1>1, <3>2, <4>1
      <3>3. CASE q # c /\ q # o
        <4>1. /\ Kid(q) /\ parent'[q] = parent[q] /\ yptr'[q] = yptr[q] /\ parent[q] \in Proc
          BY <1>0, <1>1, <1>3, <2>5, <3>3, LinkFacts
        <4>2. CASE cptr[parent[q]] = q
          <5>1. parent[q] # current
            BY <3>3, <4>2 DEF o
          <5>2. yptr[q] = NULL
            BY <1>0, <4>1, <4>2, LinkFacts
          <5> QED  BY <1>1, <4>1, <4>2, <5>1, <5>2
        <4>3. CASE cptr[parent[q]] # q
          <5>1. yptr[q] \in Proc /\ optr[yptr[q]] = q /\ Kid(yptr[q])
            BY <1>0, <4>1, <4>3, LinkFacts
          <5>2. cptr'[parent[q]] # q
            BY <1>1, <3>3, <4>1, <4>3
          <5> QED  BY <1>0, <1>1, <1>4, <4>1, <5>1, <5>2
        <4> QED  BY <4>2, <4>3
      <3> QED  BY <3>1, <3>2, <3>3
    <2>6. \A q \in Proc : optr'[q] # NULL => Kid(optr[q])'
      BY <1>3, <2>4 DEF Kid, Live
    <2> QED  BY <2>1, <2>2, <2>3, <2>4, <2>5, <2>6 DEF Links
  <1>9. Rooted'
    <2> SUFFICES ASSUME NEW S \in SUBSET User, S # {}, \A q \in S : Live(q)'
                 PROVE  \E q \in S : parent'[q] \notin S
      BY DEF Rooted
    <2>1. User \subseteq Proc
      BY DEF LinkTypes
    <2>2. CASE S \ {c} = {}
      <3>1. S = {c}
        BY <2>2
      <3> QED  BY <1>0, <1>1, <3>1
    <2>3. CASE S \ {c} # {}
      <3> DEFINE R == S \ {c}
      <3>1. R \in SUBSET User /\ R # {} /\ \A q \in R : Live(q)
        BY <1>2, <2>1, <2>3
      <3>2. PICK q \in R : parent[q] \notin R
        <4> HIDE DEF R
        <4> QED  BY <1>0, <3>1 DEF Rooted
      <3>3. q \in Proc /\ q # c /\ Kid(q)
        BY <2>1, <3>1, <3>2 DEF Kid, LinkTypes
      <3>4. parent'[q] = parent[q] /\ parent[q] # c
        BY <1>1, <1>6, <3>3
      <3> QED  BY <3>2, <3>4
    <2> QED  BY <2>2, <2>3
  <1>10. Chained'
    <2> SUFFICES ASSUME NEW S \in SUBSET Proc, S # {}, \A q \in S : Kid(q)'
                 PROVE  \E q \in S : cptr'[parent'[q]] = q \/ yptr'[q] \notin S
      BY DEF Chained
    <2>1. CASE c \in S
      BY <1>1, <2>1
    <2>2. CASE c \notin S
      <3>1. \A q \in S : Kid(q) /\ q \in Proc /\ q # c
        BY <1>3, <2>2
      <3>2. PICK q \in S : cptr[parent[q]] = q \/ yptr[q] \notin S
        BY <1>0, <3>1 DEF Chained
      <3>3. CASE q = o
        <4>1. yptr'[q] = c
          BY <1>1, <3>1, <3>3
        <4> QED  BY <2>2, <4>1
      <3>4. CASE q # o
        <4>1. yptr'[q] = yptr[q] /\ parent'[q] = parent[q] /\ parent[q] \in Proc
          BY <1>0, <1>1, <3>1, <3>4, LinkFacts
        <4>2. cptr[parent[q]] = q => parent[q] # current
          BY <3>4 DEF o
        <4> QED  BY <1>1, <3>2, <4>1, <4>2
      <3> QED  BY <3>3, <3>4
    <2> QED  BY <2>1, <2>2
  <1> QED  BY <1>8, <1>9, <1>10 DEF Family

\* do_fork makes the child, up to wakeup_proc.
LEMMA ForkLife ==
    ASSUME Inv, Life,
           \/ \E c \in User : SysFork(c)
           \/ \E c \in User : InitMainFork(c)
    PROVE  Life'
  <1>1. PICK c \in User : Runs /\ pc[current] \in {"user", "initfork"} /\ do_fork(c)
    BY Running DEF SysFork, InitMainFork, At
  <1>2. LinkTypes
    BY LinkTypesOK
  <1>3. /\ current \in Proc /\ current # idleproc /\ insched = FALSE /\ irq = FALSE
        /\ state[current] = "RUNNABLE" /\ wait_state[current] = "NONE"
        /\ pc[current] = "user" => current \in User /\ current # initproc
        /\ c \in Proc /\ c # current /\ c # idleproc /\ c # initproc /\ state[c] = "FREE"
        /\ state \in [Proc -> {"FREE", "UNINIT", "SLEEPING", "RUNNABLE", "ZOMBIE"}]
        /\ pc \in [Proc -> Labels] /\ arg \in [Proc -> Proc \cup {NULL}]
    BY <1>1, <1>2 DEF Runs, do_fork, Live, LinkTypes, Inv, SchedType
  <1> DEFINE start == IF kthread[current] THEN "kmain" ELSE "user"
  <1>4. /\ UNCHANGED <<wait_state, exiting, current, insched, irq, timer_list>>
        /\ halted' = halted
        /\ state' = [state EXCEPT ![c] = "UNINIT"]
        /\ set_links(c)
        /\ nr_process' = nr_process + 1
        /\ kthread' = [kthread EXCEPT ![c] = kthread[current]]
        /\ pc' = [pc EXCEPT ![c] = start, ![current] = "forkwake"]
        /\ arg' = [arg EXCEPT ![current] = c]
    BY <1>1, <1>3 DEF do_fork, Check
  <1>5. start \in {"kmain", "user"}
    OBVIOUS
  <1> HIDE DEF start
  <1>6. /\ wait_state' = wait_state /\ exiting' = exiting /\ current' = current
        /\ insched' = insched /\ irq' = irq /\ timer_list' = timer_list
        /\ state'[c] = "UNINIT" /\ \A p \in Proc : p # c => state'[p] = state[p]
        /\ pc'[c] = start /\ pc'[current] = "forkwake"
        /\ \A p \in Proc : p \notin {c, current} => pc'[p] = pc[p]
        /\ arg'[current] = c /\ \A p \in Proc : p # current => arg'[p] = arg[p]
    BY <1>3, <1>4
  <1>7. /\ parent'[c] = current
        /\ \A p \in Proc : p # c => parent'[p] = parent[p]
        /\ \A p \in Proc : p # current => cptr'[p] = cptr[p]
    BY <1>2, <1>3, <1>4 DEF set_links, LinkTypes
  <1>8. LifeType' /\ halted' # "PANIC"
    <2>1. kthread' \in [Proc -> BOOLEAN]
      BY <1>3, <1>4 DEF Life, LifeType
    <2>2. /\ cptr' \in [Proc -> Proc \cup {NULL}]
          /\ yptr' \in [Proc -> Proc \cup {NULL}]
          /\ optr' \in [Proc -> Proc \cup {NULL}]
      BY <1>2, <1>3, <1>4 DEF set_links, LinkTypes
    <2> QED  BY <1>4, <1>6, <2>1, <2>2 DEF Life, LifeType
  <1>9. \A p \in Proc : pc[p] \notin Passing
    BY <1>1 DEF Life, Places, Passing
  <1>10. wait_state[c] = "NONE"
    BY <1>3 DEF Life, Places
  <1>11. Places'
    <2>1. ASSUME NEW p \in Proc
          PROVE  /\ state'[p] = "SLEEPING" <=> wait_state'[p] # "NONE"
                 /\ wait_state'[p] = "CHILD" => pc'[p] = "waitwake"
                 /\ wait_state'[p] = "TIMER" => pc'[p] = "sleepwake"
                 /\ state'[p] \in {"ZOMBIE", "FREE"} <=> pc'[p] \in {"notify", "reparent", "dead"}
                 /\ state'[p] = "FREE" => pc'[p] = "dead"
                 /\ state'[p] = "UNINIT" => pc'[p] \in {"user", "kmain"}
                 /\ pc'[p] \in Passing => p = current' /\ ~insched'
                 /\ pc'[p] = "forkwake" => arg'[p] \in User /\ state'[arg'[p]] = "UNINIT"
      <3>1. CASE p = c
        BY <1>3, <1>5, <1>6, <1>10, <3>1 DEF Passing
      <3>2. CASE p = current
        BY <1>3, <1>6, <3>2
      <3>3. CASE p \notin {c, current}
        <4>1. pc'[p] = pc[p] /\ state'[p] = state[p] /\ pc[p] \notin Passing /\ pc[p] # "forkwake"
          BY <1>6, <1>9, <3>3 DEF Passing
        <4> QED  BY <1>6, <4>1 DEF Life, Places
      <3> QED  BY <3>1, <3>2, <3>3
    <2>2. pc'[current'] # "dead"
      BY <1>6
    <2> QED  BY <2>1, <2>2 DEF Places
  <1>12. Threads'
    <2>1. /\ pc'[idleproc] = "idle" /\ state'[idleproc] = "RUNNABLE"
          /\ pc'[initproc] = IF current = initproc THEN "forkwake" ELSE pc[initproc]
          /\ current # initproc => arg'[initproc] = arg[initproc] /\ cptr'[initproc] = cptr[initproc]
      BY <1>2, <1>3, <1>6, <1>7 DEF Life, Threads, LinkTypes
    <2>2. \A p \in User : pc'[p] \notin {"idle", "initfork", "initdone"}
      BY <1>2, <1>3, <1>5, <1>6 DEF Life, Threads, LinkTypes
    <2>3. kthread'[initproc] /\ ~exiting'[initproc]
      <3>1. kthread'[initproc] = kthread[initproc]
        BY <1>2, <1>3, <1>4 DEF Life, LifeType, LinkTypes
      <3> QED  BY <1>6, <3>1, Zenon DEF Life, Threads
    <2>4. /\ parent'[idleproc] = NULL
          /\ parent'[initproc] = idleproc
          /\ \A q \in Proc : parent'[q] = idleproc => q = initproc
      BY <1>2, <1>3, <1>7 DEF Life, Threads, LinkTypes
    <2>5. /\ pc'[initproc] \in {"initfork", "forkwake", "forkfiles", "wait", "waitwake", "initdone"}
          /\ pc'[initproc] \notin {"forkwake", "forkfiles"} => arg'[initproc] = NULL
          /\ pc'[initproc] = "initdone" => cptr'[initproc] = NULL
      BY <2>1 DEF Life, Threads
    <2> QED  BY <2>1, <2>2, <2>3, <2>4, <2>5 DEF Threads
  <1>13. Family'
    <2>1. Live(current) /\ ~Live(c)
      BY <1>3 DEF Live
    <2>2. \A p \in Proc : pc[p] # "reparent"
      BY <1>9 DEF Passing
    <2>3. Family
      BY DEF Life
    <2> QED  BY <1>2, <1>3, <1>4, <1>6, <2>1, <2>2, <2>3, ForkFamily
  <1>14. Waits'
    <2> SUFFICES ASSUME NEW p \in Proc, wait_state[p] = "CHILD"
                 PROVE  /\ \E q \in Proc : Live(q)' /\ parent'[q] = p /\ arg'[p] \in {NULL, q}
                        /\ \A q \in Proc :
                              parent'[q] = p /\ arg'[p] \in {NULL, q} => state'[q] # "ZOMBIE"
      BY <1>6 DEF Waits
    <2>1. p # current /\ p # c /\ arg'[p] = arg[p]
      BY <1>3, <1>6, <1>10
    <2>2. PICK q \in Proc : Live(q) /\ parent[q] = p /\ arg[p] \in {NULL, q}
      BY DEF Life, Waits
    <2>3. q # c /\ state'[q] = state[q] /\ parent'[q] = parent[q]
      BY <1>3, <1>6, <1>7, <2>2 DEF Live
    <2>4. \A r \in Proc : parent[r] = p /\ arg[p] \in {NULL, r} => state[r] # "ZOMBIE"
      <3>1. \A r \in Proc : pc[r] # "notify"
        BY <1>9 DEF Passing
      <3> QED  BY <3>1 DEF Life, Waits
    <2>5. \A r \in Proc : parent'[r] = p => r # c /\ parent[r] = p /\ state'[r] = state[r]
      BY <1>6, <1>7, <2>1
    <2>6. Live(q)'
      BY <2>2, <2>3 DEF Live
    <2> QED  BY <2>1, <2>2, <2>3, <2>4, <2>5, <2>6
  <1>15. Clock'
    <2>1. c \notin TimerProcs(timer_list) /\ current \notin TimerProcs(timer_list)
      <3>1. pc[c] = "dead"
        BY <1>3 DEF Life, Places
      <3> QED  BY <1>1, <3>1 DEF Life, Clock
    <2>2. \A p \in TimerProcs(timer_list) : p \in Proc /\ pc'[p] = "sleepwake"
      BY <1>6, <2>1 DEF Life, Clock
    <2> QED  BY <1>6, <2>2 DEF Life, Clock
  <1>16. Census'
    <2> DEFINE L == {p \in Proc : Live(p)}
    <2>1. {p \in Proc : Live(p)}' = L \cup {c}
      BY <1>3, <1>6 DEF Live
    <2>2. IsFiniteSet(L) /\ nr_process = Cardinality(L)
      BY DEF Life, Census
    <2>3. c \notin L
      BY <1>3 DEF Live
    <2> HIDE DEF L
    <2>4. IsFiniteSet(L \cup {c}) /\ Cardinality(L \cup {c}) = Cardinality(L) + 1
      BY <2>2, <2>3, FS_AddElement
    <2> QED  BY <1>4, <2>1, <2>2, <2>4 DEF Census
  <1> QED  BY <1>8, <1>11, <1>12, <1>13, <1>14, <1>15, <1>16 DEF Life

\* One turn of the loop of do_exit moves the youngest child to the head of the
\* chain of initproc's children.
LEMMA ReparentFamily ==
    ASSUME LinkTypes, Family, current \in User, pc[current] = "reparent",
           Live(initproc), pc[initproc] # "dead", parent[initproc] = idleproc,
           NEW c, c = cptr[current], c # NULL,
           parent'[c] = initproc, \A q \in Proc : q # c => parent'[q] = parent[q],
           optr'[c] = cptr[initproc], \A q \in Proc : q # c => optr'[q] = optr[q],
           cptr'[current] = optr[c], cptr'[initproc] = c,
           \A q \in Proc : q \notin {current, initproc} => cptr'[q] = cptr[q],
           \A q \in Proc : yptr'[q] = IF q = c THEN NULL
                                       ELSE IF q = cptr[initproc] THEN c ELSE yptr[q],
           pc' = pc, \A p \in Proc : state'[p] = "FREE" <=> state[p] = "FREE"
    PROVE  Family'
  <1> DEFINE o == cptr[initproc]
  <1>0. /\ current \in Proc /\ current # initproc /\ initproc \in Proc /\ initproc \notin User
        /\ current # idleproc /\ NULL \notin Proc
        /\ Links /\ Rooted /\ Chained
    BY DEF LinkTypes, Family
  <1>1. c \in Proc /\ Kid(c) /\ parent[c] = current /\ c # initproc
    BY <1>0, LinkFacts DEF LinkTypes
  <1>2. /\ parent'[c] = initproc /\ \A q \in Proc : q # c => parent'[q] = parent[q]
        /\ optr'[c] = o /\ \A q \in Proc : q # c => optr'[q] = optr[q]
        /\ cptr'[current] = optr[c] /\ cptr'[initproc] = c
        /\ \A q \in Proc : q \notin {current, initproc} => cptr'[q] = cptr[q]
        /\ \A q \in Proc : yptr'[q] = IF q = c THEN NULL ELSE IF q = o THEN c ELSE yptr[q]
    OBVIOUS
  <1>3. \A q \in Proc : Live(q)' <=> Live(q)
    BY DEF Live
  <1>4. \A q \in Proc : Kid(q)' <=> Kid(q)
    BY <1>3 DEF Kid
  <1>5. o # NULL => o \in Proc /\ Kid(o) /\ parent[o] = initproc /\ o # c
    BY <1>0, <1>1, LinkFacts
  <1>6. o = cptr[initproc] /\ c = cptr[current]
    OBVIOUS
  <1> HIDE DEF o
  <1>7. Links'
    <2>1. ASSUME NEW q \in Proc, ~Kid(q)
          PROVE  parent'[q] = NULL /\ yptr'[q] = NULL /\ optr'[q] = NULL
      BY <1>0, <1>1, <1>2, <1>5, <2>1, LinkFacts
    <2>2. ASSUME NEW q \in Proc, Kid(q)
          PROVE  /\ parent'[q] \in Proc /\ Live(parent'[q])
                 /\ pc[parent'[q]] # "dead"
      BY <1>0, <1>2, <2>2, LinkFacts
    <2>3. ASSUME NEW p \in Proc, cptr'[p] # NULL
          PROVE  cptr'[p] \in Proc /\ Kid(cptr'[p]) /\ parent'[cptr'[p]] = p
      <3>1. CASE p = current
        <4>1. /\ optr[c] # NULL /\ optr[c] \in Proc /\ Kid(optr[c]) /\ parent[optr[c]] = current
              /\ cptr[current] # optr[c]
          BY <1>0, <1>1, <1>2, <2>3, <3>1, LinkFacts
        <4> QED  BY <1>2, <1>6, <3>1, <4>1
      <3>2. CASE p = initproc
        BY <1>1, <1>2, <3>2
      <3>3. CASE p \notin {current, initproc}
        <4>1. /\ cptr'[p] = cptr[p] /\ cptr[p] \in Proc /\ Kid(cptr[p]) /\ parent[cptr[p]] = p
          BY <1>0, <1>2, <2>3, <3>3, LinkFacts
        <4> QED  BY <1>1, <1>2, <3>3, <4>1
      <3> QED  BY <3>1, <3>2, <3>3
    <2>4. ASSUME NEW q \in Proc, optr'[q] # NULL
          PROVE  /\ optr'[q] \in Proc /\ Kid(optr'[q])
                 /\ parent'[optr'[q]] = parent'[q]
                 /\ yptr'[optr'[q]] = q
                 /\ cptr'[parent'[q]] # optr'[q]
      <3>1. CASE q = c
        BY <1>0, <1>1, <1>2, <1>5, <2>4, <3>1
      <3>2. CASE q # c
        <4> DEFINE r == optr[q]
        <4>1. /\ optr'[q] = r /\ r \in Proc /\ Kid(q) /\ Kid(r) /\ r # NULL
              /\ parent[r] = parent[q] /\ yptr[r] = q
              /\ cptr[parent[q]] # r /\ parent[q] \in Proc
          BY <1>0, <1>2, <2>4, <3>2, LinkFacts
        <4>2. yptr[optr[c]] = c \/ optr[c] = NULL
          BY <1>0, <1>1, LinkFacts
        <4>3. parent'[q] = parent[q]
          BY <1>2, <3>2
        <4> HIDE DEF r
        <4>4. r # c /\ r # o /\ r # optr[c]
          BY <1>1, <1>5, <1>6, <3>2, <4>1, <4>2
        <4>5. parent'[r] = parent[r] /\ yptr'[r] = yptr[r]
          BY <1>2, <4>1, <4>4
        <4>6. cptr'[parent[q]] # r
          BY <1>2, <4>1, <4>4
        <4> QED  BY <4>1, <4>3, <4>5, <4>6
      <3> QED  BY <3>1, <3>2
    <2>5. ASSUME NEW q \in Proc, Kid(q)
          PROVE  IF cptr'[parent'[q]] = q
                 THEN yptr'[q] = NULL \/ pc[parent'[q]] = "reparent"
                 ELSE yptr'[q] # NULL /\ optr'[yptr'[q]] = q
      <3>1. CASE q = c
        BY <1>2, <3>1
      <3>2. CASE q # c /\ q = o
        <4>1. parent'[q] = initproc /\ yptr'[q] = c /\ c # NULL /\ optr'[c] = q
          BY <1>0, <1>2, <1>5, <3>2
        <4> QED  BY <1>2, <3>2, <4>1
      <3>3. CASE q # c /\ q # o
        <4>1. parent'[q] = parent[q] /\ yptr'[q] = yptr[q] /\ parent[q] \in Proc
          BY <1>0, <1>2, <2>5, <3>3, LinkFacts
        <4>2. CASE cptr[parent[q]] = q
          <5>1. parent[q] \notin {current, initproc}
            BY <1>6, <3>3, <4>2
          <5>2. yptr[q] = NULL \/ pc[parent[q]] = "reparent"
            BY <1>0, <2>5, <4>2, LinkFacts
          <5>3. cptr'[parent'[q]] = q
            BY <1>2, <4>1, <4>2, <5>1
          <5> QED  BY <4>1, <5>2, <5>3
        <4>3. CASE cptr[parent[q]] # q
          <5>1. yptr[q] \in Proc /\ optr[yptr[q]] = q
            BY <1>0, <2>5, <4>3, LinkFacts
          <5>2. CASE yptr[q] = c
            <6>1. parent[q] = current
              <7>1. optr[c] # NULL /\ q = optr[c]
                BY <1>0, <5>1, <5>2
              <7> QED  BY <1>0, <1>1, <7>1, LinkFacts
            <6>2. cptr'[parent'[q]] = q
              BY <1>2, <4>1, <5>1, <5>2, <6>1
            <6> QED  BY <4>1, <6>1, <6>2
          <5>3. CASE yptr[q] # c
            <6>1. optr'[yptr[q]] = q /\ yptr[q] # NULL
              BY <1>0, <1>2, <5>1, <5>3
            <6>2. cptr'[parent[q]] # q
              <7>1. optr[c] = q => yptr[q] = c
                BY <1>0, <1>1, LinkFacts
              <7> QED  BY <1>2, <3>3, <4>1, <4>3, <5>3, <7>1
            <6> QED  BY <4>1, <6>1, <6>2
          <5> QED  BY <5>2, <5>3
        <4> QED  BY <4>2, <4>3
      <3> QED  BY <3>1, <3>2, <3>3
    <2>6. \A q \in Proc : Kid(q)' => Live(parent[q])'
      <3> SUFFICES ASSUME NEW q \in Proc, Kid(q)  PROVE state'[parent'[q]] # "FREE"
        BY <1>4 DEF Live
      <3> QED  BY <2>2 DEF Live
    <2>7. \A p \in Proc : cptr'[p] # NULL => Kid(cptr[p])'
      BY <1>4, <2>3 DEF Kid, Live
    <2>8. \A q \in Proc : optr'[q] # NULL => Kid(optr[q])'
      BY <1>4, <2>4 DEF Kid, Live
    <2> QED  BY <1>4, <2>1, <2>2, <2>3, <2>4, <2>5, <2>6, <2>7, <2>8 DEF Links
  <1>8. Rooted'
    <2> SUFFICES ASSUME NEW S \in SUBSET User, S # {}, \A q \in S : Live(q)'
                 PROVE  \E q \in S : parent'[q] \notin S
      BY DEF Rooted
    <2>1. User \subseteq Proc
      BY DEF LinkTypes
    <2>2. \A q \in S : Live(q)
      BY <1>3, <2>1
    <2>3. PICK q \in S : parent[q] \notin S
      BY <1>0, <2>2 DEF Rooted
    <2> QED  BY <1>0, <1>2, <2>1, <2>3
  <1>9. Chained'
    <2> SUFFICES ASSUME NEW S \in SUBSET Proc, S # {}, \A q \in S : Kid(q)'
                 PROVE  \E q \in S : cptr'[parent'[q]] = q \/ yptr'[q] \notin S
      BY DEF Chained
    <2>1. CASE c \in S
      BY <1>2, <2>1
    <2>2. CASE c \notin S
      <3>1. \A q \in S : Kid(q) /\ q \in Proc /\ q # c
        BY <1>4, <2>2
      <3>2. PICK q \in S : cptr[parent[q]] = q \/ yptr[q] \notin S
        BY <1>0, <3>1 DEF Chained
      <3>3. CASE q = o
        <4>1. yptr'[q] = c
          BY <1>2, <3>1, <3>3
        <4> QED  BY <2>2, <4>1
      <3>4. CASE q # o
        <4>1. yptr'[q] = yptr[q] /\ parent'[q] = parent[q] /\ parent[q] \in Proc
          BY <1>0, <1>2, <3>1, <3>4, LinkFacts
        <4>2. cptr[parent[q]] = q => parent[q] \notin {current, initproc}
          BY <1>6, <3>1, <3>4
        <4>3. cptr[parent[q]] = q => cptr'[parent'[q]] = q
          BY <1>2, <4>1, <4>2
        <4> QED  BY <3>2, <4>1, <4>3
      <3> QED  BY <3>3, <3>4
    <2> QED  BY <2>1, <2>2
  <1> QED  BY <1>7, <1>8, <1>9 DEF Family

\* The step of do_exit as a whole.
LEMMA ReparentLife ==
    ASSUME Inv, Life, ExitReparent  PROVE Life'
  <1> DEFINE c == cptr[current]
             o == cptr[initproc]
  <1>1. Runs /\ pc[current] = "reparent" /\ c # NULL
    BY Running DEF ExitReparent, At
  <1>2. LinkTypes
    BY LinkTypesOK
  <1>3. /\ current \in User /\ current \in Proc /\ current # initproc
        /\ halted = "NO" /\ insched = FALSE /\ irq = FALSE
        /\ c \in Proc /\ initproc \in Proc
        /\ wait_state \in [Proc -> {"NONE", "CHILD", "TIMER"}]
        /\ pc \in [Proc -> Labels]
    BY <1>1, <1>2 DEF Runs, LinkTypes, Inv, SchedType, Life, LifeType
  <1>4. /\ cptr' = [cptr EXCEPT ![current] = optr[c], ![initproc] = c]
        /\ optr' = [optr EXCEPT ![c] = o]
        /\ yptr' = [p \in Proc |-> IF p = c THEN NULL ELSE IF p = o THEN c ELSE yptr[p]]
        /\ parent' = [parent EXCEPT ![c] = initproc]
        /\ IF AdoptionWakes(c) THEN wakeup_proc(initproc) ELSE NoWakeup
        /\ exiting' = exiting /\ kthread' = kthread /\ pc' = pc /\ arg' = arg
        /\ current' = current /\ insched' = insched /\ irq' = irq
        /\ timer_list' = timer_list /\ nr_process' = nr_process
    BY DEF ExitReparent
  <1>5. /\ o \in Proc \cup {NULL} /\ optr[c] \in Proc \cup {NULL}
        /\ c = cptr[current] /\ o = cptr[initproc]
        /\ Kid(c) /\ parent[c] = current
    BY <1>1, <1>2, <1>3 DEF LinkTypes, Life, Family, Links
  <1> HIDE DEF c, o
  <1>6. /\ parent'[c] = initproc /\ \A q \in Proc : q # c => parent'[q] = parent[q]
        /\ optr'[c] = o /\ \A q \in Proc : q # c => optr'[q] = optr[q]
        /\ cptr'[current] = optr[c] /\ cptr'[initproc] = c
        /\ \A q \in Proc : q \notin {current, initproc} => cptr'[q] = cptr[q]
        /\ \A q \in Proc : yptr'[q] = IF q = c THEN NULL ELSE IF q = o THEN c ELSE yptr[q]
    BY <1>2, <1>3, <1>4 DEF LinkTypes
  <1>7. /\ cptr' \in [Proc -> Proc \cup {NULL}]
        /\ yptr' \in [Proc -> Proc \cup {NULL}]
        /\ optr' \in [Proc -> Proc \cup {NULL}]
    BY <1>2, <1>3, <1>4, <1>5 DEF LinkTypes
  <1>8. /\ pc[initproc] \in {"initfork", "forkwake", "forkfiles", "wait", "waitwake", "initdone"}
        /\ parent[initproc] = idleproc
    BY DEF Life, Threads
  <1>9. /\ pc[initproc] \notin Passing
        /\ wait_state[initproc] = "CHILD" => state[initproc] = "SLEEPING"
    BY <1>3 DEF Life, Places
  <1>10. PICK w \in {idleproc, initproc} :
            /\ Woken(w) /\ halted' = halted
            /\ AdoptionWakes(c) => w = initproc
    <2>1. CASE AdoptionWakes(c)
      <3>1. state[initproc] = "SLEEPING" /\ wakeup_proc(initproc)
        BY <1>4, <1>9, <2>1 DEF AdoptionWakes
      <3> QED  BY <1>3, <3>1, WakeEffect DEF Woken
    <2>2. CASE ~AdoptionWakes(c)
      <3>1. UNCHANGED <<state, wait_state>> /\ halted' = halted
        BY <1>4, <2>2 DEF NoWakeup
      <3> QED  BY <2>2, <3>1, NobodyWoken
    <2> QED  BY <2>1, <2>2
  <1>11. w \in Proc
    BY <1>2 DEF LinkTypes
  <1>12. /\ state'[w] = "RUNNABLE" /\ wait_state'[w] = "NONE"
         /\ \A p \in Proc : p # w => state'[p] = state[p] /\ wait_state'[p] = wait_state[p]
         /\ state[w] \in {"UNINIT", "SLEEPING", "RUNNABLE"}
    BY <1>2, <1>3, <1>10, <1>11 DEF Woken, LinkTypes
  <1>13. wait_state' \in [Proc -> {"NONE", "CHILD", "TIMER"}] /\ Places'
    <2>1. "reparent" \in Labels /\ WakeGoto("reparent")
      BY <1>1, <1>3, <1>4 DEF WakeGoto, Labels
    <2>2. pc'[current] # "forkwake"
      BY <1>1, <1>4
    <2> QED  BY <1>4, <1>10, <1>11, <2>1, <2>2, WakePlaces
  <1>14. LifeType' /\ halted' # "PANIC"
    BY <1>4, <1>7, <1>10, <1>13 DEF Life, LifeType
  <1>15. Threads'
    <2>1. kthread'[initproc] /\ ~exiting'[initproc]
      BY <1>4, Zenon DEF Life, Threads
    <2>2. state'[idleproc] = "RUNNABLE"
      BY <1>2, <1>12 DEF Life, Threads, LinkTypes
    <2>3. pc'[initproc] # "initdone" /\ pc[initproc] \notin {"forkwake", "forkfiles", "initdone"}
      BY <1>4, <1>9 DEF Passing
    <2>4. /\ parent'[idleproc] = NULL
          /\ parent'[initproc] = idleproc
          /\ \A q \in Proc : parent'[q] = idleproc => q = initproc
      <3>1. c # idleproc /\ c # initproc
        BY <1>2, <1>3, <1>5, <1>8 DEF Kid, LinkTypes
      <3> QED  BY <1>2, <1>6, <3>1 DEF Life, Threads, LinkTypes
    <2> QED  BY <1>4, <2>1, <2>2, <2>3, <2>4 DEF Life, Threads
  <1>16. Family'
    <2>1. Live(initproc)
      BY <1>3, <1>8 DEF Life, Places, Live
    <2>2. \A p \in Proc : state'[p] = "FREE" <=> state[p] = "FREE"
      BY <1>12
    <2>3. Family /\ pc[initproc] # "dead"
      BY <1>8 DEF Life
    <2>4. \A q \in Proc : yptr'[q] = IF q = c THEN NULL
                                     ELSE IF q = cptr[initproc] THEN c ELSE yptr[q]
      BY <1>6 DEF o
    <2>5. optr'[c] = cptr[initproc] /\ pc' = pc
      BY <1>4, <1>5, <1>6
    <2>6. /\ parent'[c] = initproc /\ \A q \in Proc : q # c => parent'[q] = parent[q]
          /\ \A q \in Proc : q # c => optr'[q] = optr[q]
          /\ cptr'[current] = optr[c] /\ cptr'[initproc] = c
          /\ \A q \in Proc : q \notin {current, initproc} => cptr'[q] = cptr[q]
      BY <1>6
    <2>7. /\ current \in User /\ pc[current] = "reparent" /\ c = cptr[current] /\ c # NULL
          /\ parent[initproc] = idleproc
      BY <1>1, <1>3, <1>5, <1>8
    <2> QED  BY <1>2, <2>1, <2>2, <2>3, <2>4, <2>5, <2>6, <2>7, ReparentFamily
  <1>17. Waits'
    <2>1. ASSUME NEW p \in Proc, wait_state'[p] = "CHILD"
          PROVE  /\ wait_state[p] = "CHILD" /\ p # w /\ p # current /\ arg'[p] = arg[p]
                 /\ \E q \in Proc : Live(q) /\ parent[q] = p /\ arg[p] \in {NULL, q}
                 /\ \A q \in Proc : parent[q] = p /\ arg[p] \in {NULL, q} => state[q] # "ZOMBIE"
      <3>1. p # w /\ wait_state[p] = "CHILD" /\ arg'[p] = arg[p]
        BY <1>4, <1>12, <2>1
      <3>2. pc[p] = "waitwake"
        BY <3>1 DEF Life, Places
      <3>3. /\ \E q \in Proc : Live(q) /\ parent[q] = p /\ arg[p] \in {NULL, q}
            /\ \A q \in Proc : parent[q] = p /\ arg[p] \in {NULL, q} /\ state[q] = "ZOMBIE" =>
                  q = current /\ pc[q] = "notify"
        BY <3>1 DEF Life, Waits
      <3> QED  BY <1>1, <3>1, <3>2, <3>3
    <2>2. ASSUME NEW p \in Proc, wait_state'[p] = "CHILD"
          PROVE  \E q \in Proc : Live(q)' /\ parent'[q] = p /\ arg'[p] \in {NULL, q}
      <3>1. PICK q \in Proc : Live(q) /\ parent[q] = p /\ arg[p] \in {NULL, q}
        BY <2>1, <2>2
      <3>2. parent'[q] = p
        BY <1>5, <1>6, <2>1, <2>2, <3>1
      <3>3. Live(q)'
        BY <1>12, <3>1 DEF Live
      <3> QED  BY <2>1, <2>2, <3>1, <3>2, <3>3
    <2>3. ASSUME NEW p \in Proc, wait_state'[p] = "CHILD", NEW q \in Proc,
                 parent'[q] = p, arg'[p] \in {NULL, q}
          PROVE  state'[q] # "ZOMBIE"
      <3>1. CASE q = c
        <4>1. p = initproc /\ ~AdoptionWakes(c)
          BY <1>6, <1>10, <2>1, <2>3, <3>1
        <4>2. state[q] # "ZOMBIE"
          BY <2>1, <2>3, <3>1, <4>1 DEF AdoptionWakes
        <4> QED  BY <1>12, <4>2
      <3>2. CASE q # c
        <4>1. state[q] # "ZOMBIE"
          BY <1>6, <2>1, <2>3, <3>2
        <4> QED  BY <1>12, <4>1
      <3> QED  BY <3>1, <3>2
    <2> QED  BY <2>2, <2>3 DEF Waits
  <1>18. Clock'
    <2>1. \A p \in Proc : wait_state'[p] = "TIMER" => wait_state[p] = "TIMER"
      BY <1>12
    <2> QED  BY <1>4, <2>1 DEF Life, Clock
  <1>19. Census'
    BY <1>4, <1>12, CensusFrame DEF Life
  <1> QED  BY <1>13, <1>14, <1>15, <1>16, <1>17, <1>18, <1>19 DEF Life

\* remove_links takes a dead child out of the chain.
LEMMA ReapFamily ==
    ASSUME LinkTypes, Family, current \in Proc, Live(current), pc'[current] # "dead",
           NEW q \in Proc, Kid(q), parent[q] = current, pc[q] = "dead", q # current,
           NEW y, y = yptr[q], NEW o, o = optr[q],
           \A p \in Proc : pc[p] # "reparent",
           \A p \in Proc : p # current => pc'[p] = pc[p],
           \A p \in Proc : yptr'[p] = IF p = q THEN NULL ELSE IF p = o THEN y ELSE yptr[p],
           \A p \in Proc : optr'[p] = IF p = q THEN NULL ELSE IF p = y THEN o ELSE optr[p],
           \A p \in Proc : cptr'[p] = IF y = NULL /\ p = current THEN o ELSE cptr[p],
           parent'[q] = NULL, \A p \in Proc : p # q => parent'[p] = parent[p],
           state'[q] = "FREE", \A p \in Proc : p # q => state'[p] = state[p]
    PROVE  Family'
  <1>0. /\ NULL \notin Proc /\ User \subseteq Proc
        /\ Links /\ Rooted /\ Chained
    BY DEF LinkTypes, Family
  <1>1. \A p \in Proc : Live(p)' <=> Live(p) /\ p # q
    BY DEF Live
  <1>2. \A p \in Proc : Kid(p)' <=> Kid(p) /\ p # q
    BY <1>1 DEF Kid
  <1>3. \A k \in Proc : Kid(k) => /\ parent[k] # q /\ parent[k] \in Proc /\ Live(parent[k])
                                  /\ pc[parent[k]] # "dead"
    BY <1>0, LinkFacts
  <1>4. cptr[current] = q => y = NULL
    BY <1>0, LinkFacts
  <1>5. o # NULL => /\ o \in Proc /\ Kid(o) /\ parent[o] = current /\ yptr[o] = q
                    /\ cptr[current] # o
    BY <1>0, LinkFacts
  <1>6. cptr[current] # q => y \in Proc /\ optr[y] = q /\ Kid(y) /\ parent[y] = current
    BY <1>0, LinkFacts
  <1>7. cptr[current] = q <=> y = NULL
    BY <1>0, <1>4, <1>6
  <1>8. o # q /\ y # q
    <2>1. {q} \in SUBSET Proc /\ {q} # {} /\ \A r \in {q} : Kid(r)
      OBVIOUS
    <2>2. \E r \in {q} : cptr[parent[r]] = r \/ yptr[r] \notin {q}
      BY <1>0, <2>1 DEF Chained
    <2>3. cptr[current] = q \/ y # q
      BY <2>2
    <2>4. q # NULL
      BY <1>0
    <2>5. y # q
      BY <1>7, <2>3, <2>4
    <2>6. o # q
      BY <1>5, <2>4, <2>5
    <2> QED  BY <2>5, <2>6
  <1>9. \A k \in Proc : optr[k] = q => k = y
    BY <1>0, LinkFacts
  <1>10. \A k \in Proc : optr[k] = o /\ o # NULL => k = q
    BY <1>0, <1>5, LinkFacts
  <1>11. Links'
    <2>1. ASSUME NEW k \in Proc, ~Kid(k)'
          PROVE  parent'[k] = NULL /\ yptr'[k] = NULL /\ optr'[k] = NULL
      <3>1. CASE k = q
        BY <3>1
      <3>2. CASE k # q
        <4>1. ~Kid(k)
          BY <1>2, <2>1, <3>2
        <4>2. k # o /\ k # y
          BY <1>0, <1>5, <1>6, <1>7, <4>1
        <4> QED  BY <1>0, <3>2, <4>1, <4>2, LinkFacts
      <3> QED  BY <3>1, <3>2
    <2>2. ASSUME NEW k \in Proc, Kid(k)'
          PROVE  /\ parent'[k] \in Proc /\ Live(parent[k])'
                 /\ pc'[parent'[k]] # "dead"
      <3>1. /\ parent'[k] = parent[k] /\ parent[k] # q /\ parent[k] \in Proc
            /\ Live(parent[k]) /\ pc[parent[k]] # "dead"
        BY <1>2, <1>3, <2>2
      <3>2. state'[parent[k]] # "FREE"
        BY <3>1 DEF Live
      <3> QED  BY <3>1, <3>2 DEF Live
    <2>3. ASSUME NEW p \in Proc, cptr'[p] # NULL
          PROVE  cptr'[p] \in Proc /\ Kid(cptr'[p]) /\ cptr'[p] # q /\ parent'[cptr'[p]] = p
      <3>1. CASE y = NULL /\ p = current
        BY <1>5, <1>8, <2>3, <3>1
      <3>2. CASE ~(y = NULL /\ p = current)
        <4>1. cptr'[p] = cptr[p] /\ cptr[p] \in Proc /\ Kid(cptr[p]) /\ parent[cptr[p]] = p
          BY <1>0, <2>3, <3>2, LinkFacts
        <4>2. cptr[p] # q
          BY <1>7, <3>2, <4>1
        <4> QED  BY <4>1, <4>2
      <3> QED  BY <3>1, <3>2
    <2>4. ASSUME NEW k \in Proc, optr'[k] # NULL
          PROVE  /\ optr'[k] \in Proc /\ Kid(optr'[k]) /\ optr'[k] # q
                 /\ parent'[optr'[k]] = parent'[k]
                 /\ yptr'[optr'[k]] = k
                 /\ cptr'[parent'[k]] # optr'[k]
      <3>1. k # q
        BY <2>4
      <3>2. CASE k = y
        <4>1. optr'[k] = o /\ o # NULL /\ y # NULL
          BY <1>0, <2>4, <3>1, <3>2
        <4>2. parent'[k] = current /\ Kid(k)
          BY <1>6, <1>7, <3>1, <3>2, <4>1
        <4>3. o \in Proc /\ Kid(o) /\ o # q /\ parent'[o] = current /\ yptr'[o] = y
          BY <1>5, <1>8, <4>1
        <4>4. cptr'[current] # o
          BY <1>5, <4>1
        <4> QED  BY <3>2, <4>1, <4>2, <4>3, <4>4
      <3>3. CASE k # y
        <4>1. /\ optr'[k] = optr[k] /\ optr[k] # NULL
          BY <2>4, <3>1, <3>3
        <4>2. /\ optr[k] \in Proc /\ Kid(k) /\ Kid(optr[k]) /\ parent[k] \in Proc
              /\ parent[optr[k]] = parent[k] /\ yptr[optr[k]] = k
              /\ cptr[parent[k]] # optr[k]
          BY <1>0, <4>1, LinkFacts
        <4>3. optr[k] # q /\ optr[k] # o
          BY <1>9, <1>10, <3>1, <3>3, <4>1
        <4>4. /\ parent'[optr[k]] = parent[k] /\ parent'[k] = parent[k]
              /\ yptr'[optr[k]] = k
          BY <3>1, <4>2, <4>3
        <4>5. cptr'[parent[k]] # optr[k]
          BY <4>2, <4>3
        <4> QED  BY <4>1, <4>2, <4>3, <4>4, <4>5
      <3> QED  BY <3>2, <3>3
    <2>5. ASSUME NEW k \in Proc, Kid(k)'
          PROVE  IF cptr'[parent'[k]] = k
                 THEN yptr'[k] = NULL \/ pc'[parent'[k]] = "reparent"
                 ELSE yptr'[k] # NULL /\ optr'[yptr'[k]] = k
      <3>1. Kid(k) /\ k # q /\ parent'[k] = parent[k] /\ parent[k] \in Proc
        BY <1>2, <1>3, <2>5
      <3>2. CASE k = o
        <4>0. o # NULL /\ parent[k] = current /\ yptr'[k] = y
          BY <1>0, <1>5, <3>1, <3>2
        <4>1. CASE y = NULL
          BY <3>1, <3>2, <4>0, <4>1
        <4>2. CASE y # NULL
          <5>1. y \in Proc /\ y # q
            BY <1>6, <1>7, <1>8, <4>2
          <5>2. optr'[y] = o
            BY <5>1
          <5>3. cptr'[current] # k
            BY <1>5, <3>2, <4>0, <4>2
          <5> QED  BY <3>1, <3>2, <4>0, <4>2, <5>2, <5>3
        <4> QED  BY <4>1, <4>2
      <3>3. CASE k # o
        <4>1. yptr'[k] = yptr[k]
          BY <3>1, <3>3
        <4>2. CASE cptr[parent[k]] = k
          <5>1. yptr[k] = NULL
            BY <1>0, <3>1, <4>2, LinkFacts
          <5>2. cptr'[parent[k]] = k
            BY <1>7, <3>1, <4>2
          <5> QED  BY <3>1, <4>1, <5>1, <5>2
        <4>3. CASE cptr[parent[k]] # k
          <5>1. yptr[k] \in Proc /\ optr[yptr[k]] = k
            BY <1>0, <3>1, <4>3, LinkFacts
          <5>2. yptr[k] # q
            BY <3>3, <5>1
          <5>3. yptr[k] # y
            BY <1>0, <1>6, <1>7, <3>1, <5>1
          <5>4. optr'[yptr[k]] = k
            BY <5>1, <5>2, <5>3
          <5>5. cptr'[parent[k]] # k
            BY <3>1, <3>3, <4>3
          <5> QED  BY <1>0, <3>1, <4>1, <5>1, <5>4, <5>5
        <4> QED  BY <4>2, <4>3
      <3> QED  BY <3>2, <3>3
    <2>6. \A p \in Proc : cptr'[p] # NULL => Kid(cptr[p])'
      BY <1>2, <2>3 DEF Kid, Live
    <2>7. \A p \in Proc : optr'[p] # NULL => Kid(optr[p])'
      BY <1>2, <2>4 DEF Kid, Live
    <2> QED  BY <2>1, <2>2, <2>3, <2>4, <2>5, <2>6, <2>7 DEF Links
  <1>12. Rooted'
    <2> SUFFICES ASSUME NEW S \in SUBSET User, S # {}, \A k \in S : Live(k)'
                 PROVE  \E k \in S : parent'[k] \notin S
      BY DEF Rooted
    <2>1. \A k \in S : Live(k) /\ k # q /\ k \in Proc
      BY <1>0, <1>1
    <2>2. PICK k \in S : parent[k] \notin S
      BY <1>0, <2>1 DEF Rooted
    <2> QED  BY <2>1, <2>2
  <1>13. Chained'
    <2> SUFFICES ASSUME NEW S \in SUBSET Proc, S # {}, \A k \in S : Kid(k)'
                 PROVE  \E k \in S : cptr'[parent'[k]] = k \/ yptr'[k] \notin S
      BY DEF Chained
    <2>1. \A k \in S : Kid(k) /\ k \in Proc /\ k # q /\ parent'[k] = parent[k]
      BY <1>2
    <2>2. \A k \in S : cptr[parent[k]] = k => cptr'[parent[k]] = k
      BY <1>3, <1>7, <2>1
    <2>3. CASE o \notin S
      <3>1. PICK k \in S : cptr[parent[k]] = k \/ yptr[k] \notin S
        BY <1>0, <2>1 DEF Chained
      <3>2. yptr'[k] = yptr[k]
        BY <2>1, <2>3
      <3> QED  BY <2>1, <2>2, <3>1, <3>2
    <2>4. CASE o \in S
      <3> DEFINE R == S \cup {q}
      <3>1. R \in SUBSET Proc /\ R # {} /\ \A k \in R : Kid(k)
        BY <2>1
      <3>2. PICK k \in R : cptr[parent[k]] = k \/ yptr[k] \notin R
        <4> HIDE DEF R
        <4> QED  BY <1>0, <3>1 DEF Chained
      <3>3. o # NULL /\ yptr'[o] = y /\ parent'[o] = current /\ yptr[o] = q
        BY <1>0, <1>5, <1>8, <2>1, <2>4
      <3>4. CASE k = q
        <4>1. CASE y = NULL
          <5>1. cptr'[current] = o
            BY <4>1
          <5> QED  BY <2>4, <3>3, <5>1
        <4>2. CASE y # NULL
          <5>1. y \notin S
            BY <1>7, <3>2, <3>4, <4>2
          <5> QED  BY <2>4, <3>3, <5>1
        <4> QED  BY <4>1, <4>2
      <3>5. CASE k # q
        <4>1. k \in S
          BY <3>5
        <4>2. CASE cptr[parent[k]] = k
          BY <2>1, <2>2, <4>1, <4>2
        <4>3. CASE yptr[k] \notin R
          <5>1. k # o
            BY <3>3, <4>3
          <5>2. yptr'[k] = yptr[k]
            BY <2>1, <4>1, <5>1
          <5> QED  BY <4>1, <4>3, <5>2
        <4> QED  BY <3>2, <4>2, <4>3
      <3> QED  BY <3>4, <3>5
    <2> QED  BY <2>3, <2>4
  <1> QED  BY <1>11, <1>12, <1>13 DEF Family

\* do_wait frees the zombie it has found.
LEMMA ReapLife ==
    ASSUME Inv, Life, NEW q \in Proc, WaitReap(q)  PROVE Life'
  <1>1. Runs /\ pc[current] = "wait" /\ Found(q)
    BY Running DEF WaitReap, At
  <1>2. LinkTypes /\ Links /\ Chained
    BY LinkTypesOK DEF Life, Family
  <1>3. /\ current \in Proc /\ current # idleproc /\ insched = FALSE /\ irq = FALSE
        /\ state[current] = "RUNNABLE" /\ wait_state[current] = "NONE"
        /\ pc \in [Proc -> Labels] /\ arg \in [Proc -> Proc \cup {NULL}]
        /\ exiting \in [Proc -> BOOLEAN]
    BY <1>1 DEF Runs, Inv, SchedType, Life, LifeType
  <1>4. state[q] = "ZOMBIE" /\ q # current /\ Live(q)
    BY <1>1, <1>3 DEF Found, Live
  <1>5. q # idleproc /\ q # initproc /\ pc[q] = "dead" /\ wait_state[q] = "NONE"
    <2>1. /\ pc[q] \in {"notify", "reparent", "dead"} /\ wait_state[q] = "NONE"
          /\ pc[q] \in Passing => q = current
      BY <1>4 DEF Life, Places
    <2>2. pc[q] = "dead"
      BY <1>4, <2>1 DEF Passing
    <2> QED  BY <2>1, <2>2 DEF Life, Threads
  <1>6. Kid(q) /\ q \in User
    BY <1>2, <1>4, <1>5 DEF Kid, LinkTypes
  <1>7. parent[q] = current
    <2>1. CASE arg[current] # NULL
      BY <1>1, <2>1 DEF Found
    <2>2. CASE arg[current] = NULL
      <3>1. PICK n \in DOMAIN Sibling(current) : Sibling(current)[n] = q
        BY <1>1, <2>2 DEF Found
      <3>2. n \in 1 .. Cardinality(Proc) /\ q # NULL
        BY <1>2, <1>3, <3>1, SiblingIs DEF LinkTypes
      <3> QED  BY <1>2, <1>3, <3>1, <3>2, SiblingKids
    <2> QED  BY <2>1, <2>2
  <1> DEFINE y == yptr[q]
             o == optr[q]
  <1>8. /\ remove_links(q) /\ kfree(q) /\ halted' = halted
        /\ wait_state' = wait_state /\ kthread' = kthread /\ current' = current
        /\ irq' = irq /\ timer_list' = timer_list
        /\ IF current = initproc THEN Goto("wait") /\ insched' = TRUE ELSE SyscallReturn
    BY <1>5 DEF WaitReap, Check
  <1>9. /\ \A p \in Proc : yptr'[p] = IF p = q THEN NULL ELSE IF p = o THEN y ELSE yptr[p]
        /\ \A p \in Proc : optr'[p] = IF p = q THEN NULL ELSE IF p = y THEN o ELSE optr[p]
        /\ \A p \in Proc : cptr'[p] = IF y = NULL /\ p = current THEN o ELSE cptr[p]
        /\ parent'[q] = NULL /\ \A p \in Proc : p # q => parent'[p] = parent[p]
        /\ cptr' \in [Proc -> Proc \cup {NULL}]
        /\ yptr' \in [Proc -> Proc \cup {NULL}]
        /\ optr' \in [Proc -> Proc \cup {NULL}]
        /\ nr_process' = nr_process - 1
    <2>1. /\ yptr' = [p \in Proc |-> IF p = q THEN NULL ELSE IF p = o THEN y ELSE yptr[p]]
          /\ optr' = [p \in Proc |-> IF p = q THEN NULL ELSE IF p = y THEN o ELSE optr[p]]
          /\ cptr' = IF y = NULL THEN [cptr EXCEPT ![current] = o] ELSE cptr
          /\ parent' = [parent EXCEPT ![q] = NULL]
          /\ nr_process' = nr_process - 1
      BY <1>7, <1>8 DEF remove_links, CptrWithout
    <2>2. y \in Proc \cup {NULL} /\ o \in Proc \cup {NULL}
      BY <1>2 DEF LinkTypes
    <2> HIDE DEF y, o
    <2>3. /\ yptr' \in [Proc -> Proc \cup {NULL}]
          /\ optr' \in [Proc -> Proc \cup {NULL}]
      BY <1>2, <2>1, <2>2 DEF LinkTypes
    <2>4. /\ cptr' \in [Proc -> Proc \cup {NULL}]
          /\ \A p \in Proc : cptr'[p] = IF y = NULL /\ p = current THEN o ELSE cptr[p]
      BY <1>2, <1>3, <2>1, <2>2 DEF LinkTypes
    <2>5. parent'[q] = NULL /\ \A p \in Proc : p # q => parent'[p] = parent[p]
      BY <1>2, <2>1 DEF LinkTypes
    <2> QED  BY <2>1, <2>3, <2>4, <2>5
  <1>10. /\ state'[q] = "FREE" /\ \A p \in Proc : p # q => state'[p] = state[p]
         /\ arg'[current] = NULL /\ \A p \in Proc : p \notin {q, current} => arg'[p] = arg[p]
    BY <1>2, <1>3, <1>4, <1>8 DEF kfree, LinkTypes
  <1>11. exiting' \in [Proc -> BOOLEAN] /\ exiting'[initproc] = exiting[initproc]
    BY <1>2, <1>3, <1>5, <1>8 DEF kfree, LinkTypes
  <1>12. PICK l \in {"wait", "trapret"} :
            /\ Goto(l) /\ (l = "wait" <=> current = initproc)
            /\ insched' = (l = "wait")
    BY <1>3, <1>8 DEF SyscallReturn
  <1>13. pc'[current] = l /\ \A p \in Proc : p # current => pc'[p] = pc[p]
    BY <1>3, <1>12 DEF Goto
  <1>14. \A p \in Proc : pc[p] \notin Passing
    BY <1>1 DEF Life, Places, Passing
  <1> HIDE DEF y, o
  <1>15. LifeType' /\ halted' # "PANIC"
    BY <1>8, <1>9, <1>11 DEF Life, LifeType
  <1>16. Places'
    <2>1. ASSUME NEW p \in Proc
          PROVE  /\ state'[p] = "SLEEPING" <=> wait_state'[p] # "NONE"
                 /\ wait_state'[p] = "CHILD" => pc'[p] = "waitwake"
                 /\ wait_state'[p] = "TIMER" => pc'[p] = "sleepwake"
                 /\ state'[p] \in {"ZOMBIE", "FREE"} <=> pc'[p] \in {"notify", "reparent", "dead"}
                 /\ state'[p] = "FREE" => pc'[p] = "dead"
                 /\ state'[p] = "UNINIT" => pc'[p] \in {"user", "kmain"}
                 /\ pc'[p] \in Passing => p = current' /\ ~insched'
                 /\ pc'[p] # "forkwake"
      <3>1. CASE p = q
        BY <1>4, <1>5, <1>8, <1>10, <1>13, <3>1 DEF Passing
      <3>2. CASE p = current
        BY <1>3, <1>4, <1>8, <1>10, <1>12, <1>13, <3>2 DEF Passing
      <3>3. CASE p \notin {q, current}
        <4>1. pc'[p] = pc[p] /\ state'[p] = state[p] /\ pc[p] \notin Passing /\ pc[p] # "forkwake"
          BY <1>10, <1>13, <1>14, <3>3 DEF Passing
        <4> QED  BY <1>8, <4>1 DEF Life, Places
      <3> QED  BY <3>1, <3>2, <3>3
    <2>2. pc'[current'] # "dead"
      BY <1>8, <1>13
    <2> QED  BY <2>1, <2>2 DEF Places
  <1>17. Threads'
    <2>1. /\ pc'[idleproc] = "idle" /\ state'[idleproc] = "RUNNABLE"
          /\ pc'[initproc] = IF current = initproc THEN "wait" ELSE pc[initproc]
          /\ arg'[initproc] = IF current = initproc THEN NULL ELSE arg[initproc]
      BY <1>2, <1>3, <1>5, <1>10, <1>12, <1>13 DEF Life, Threads, LinkTypes
    <2>2. \A p \in User : pc'[p] \notin {"idle", "initfork", "initdone"}
      BY <1>2, <1>13 DEF Life, Threads, LinkTypes
    <2>3. kthread'[initproc] /\ ~exiting'[initproc]
      BY <1>8, <1>11, Zenon DEF Life, Threads
    <2>4. /\ parent'[idleproc] = NULL
          /\ parent'[initproc] = idleproc
          /\ \A p \in Proc : parent'[p] = idleproc => p = initproc
      BY <1>2, <1>5, <1>9 DEF Life, Threads, LinkTypes
    <2>5. pc[initproc] \notin {"forkwake", "forkfiles", "initdone"}
      BY <1>2, <1>14 DEF Passing, LinkTypes
    <2> QED  BY <2>1, <2>2, <2>3, <2>4, <2>5 DEF Life, Threads
  <1>18. Family'
    <2>1. Live(current) /\ pc'[current] # "dead"
      BY <1>3, <1>13 DEF Live
    <2>2. \A p \in Proc : pc[p] # "reparent"
      BY <1>14 DEF Passing
    <2>3. Family /\ LinkTypes
      BY <1>2 DEF Life
    <2>4. y = yptr[q] /\ o = optr[q]
      BY DEF y, o
    <2> QED
      BY <1>3, <1>4, <1>5, <1>6, <1>7, <1>9, <1>10, <1>13, <2>1, <2>2, <2>3, <2>4, ReapFamily
  <1>19. Waits'
    <2> SUFFICES ASSUME NEW p \in Proc, wait_state[p] = "CHILD"
                 PROVE  /\ \E k \in Proc : Live(k)' /\ parent'[k] = p /\ arg'[p] \in {NULL, k}
                        /\ \A k \in Proc :
                              parent'[k] = p /\ arg'[p] \in {NULL, k} => state'[k] # "ZOMBIE"
      BY <1>8 DEF Waits
    <2>1. p # current /\ p # q /\ arg'[p] = arg[p]
      BY <1>3, <1>5, <1>10
    <2>2. PICK k \in Proc : Live(k) /\ parent[k] = p /\ arg[p] \in {NULL, k}
      BY DEF Life, Waits
    <2>3. state'[k] = state[k] /\ parent'[k] = parent[k]
      BY <1>7, <1>9, <1>10, <2>1, <2>2
    <2>4. \A r \in Proc : parent[r] = p /\ arg[p] \in {NULL, r} => state[r] # "ZOMBIE"
      <3>1. \A r \in Proc : pc[r] # "notify"
        BY <1>14 DEF Passing
      <3> QED  BY <3>1 DEF Life, Waits
    <2>5. \A r \in Proc : parent'[r] = p => parent[r] = p /\ state'[r] = state[r]
      BY <1>2, <1>9, <1>10 DEF LinkTypes
    <2>6. Live(k)'
      BY <2>2, <2>3 DEF Live
    <2> QED  BY <2>1, <2>2, <2>3, <2>4, <2>5, <2>6
  <1>20. Clock'
    <2>1. current \notin TimerProcs(timer_list)
      BY <1>1 DEF Life, Clock
    <2>2. \A p \in TimerProcs(timer_list) : p \in Proc /\ pc'[p] = "sleepwake"
      BY <1>13, <2>1 DEF Life, Clock
    <2>3. ~irq => TL!NotDue(timer_list)
      BY DEF Life, Clock
    <2> QED  BY <1>8, <2>2, <2>3 DEF Life, Clock
  <1>21. Census'
    <2> DEFINE L == {p \in Proc : Live(p)}
    <2>1. {p \in Proc : Live(p)}' = L \ {q}
      BY <1>10 DEF Live
    <2>2. IsFiniteSet(L) /\ nr_process = Cardinality(L)
      BY DEF Life, Census
    <2>3. q \in L
      BY <1>4
    <2> HIDE DEF L
    <2>4. IsFiniteSet(L \ {q}) /\ Cardinality(L \ {q}) = Cardinality(L) - 1
      BY <2>2, <2>3, FS_RemoveElement
    <2> QED  BY <1>9, <2>1, <2>2, <2>4 DEF Census
  <1> QED  BY <1>15, <1>16, <1>17, <1>18, <1>19, <1>20, <1>21 DEF Life

-----------------------------------------------------------------------------
(* The theorems about the life of a process.                               *)

\* Every step keeps the invariant, provided that copy_files does not fail and
\* that nobody kills initproc, which do_kill allows and init_main does not expect.
LEMMA LifeStep ==
    ASSUME FilesOutcomes = {TRUE}, initproc \notin KillTargets, Inv, Life, [Next]_vars
    PROVE  Life'
  <1>1. Inv'
    BY SchedStep
  <1>2. CASE UserStep
    BY <1>2, ForkLife, QuietCalls, WakeSteps, FallSteps DEF UserStep
  <1>3. CASE KernelStep
    <2>1. ASSUME NEW q \in Proc, WaitReap(q)  PROVE Life'
      BY <2>1, ReapLife
    <2> QED
      BY <1>1, <1>3, <2>1, ForkLife, QuietCalls, QuietReturns, WakeSteps, FallSteps,
         ReparentLife, SchedLife
      DEF KernelStep
  <1>4. CASE Tick \/ IrqStep
    BY <1>4, TickLife, ExpireLife DEF IrqStep
  <1>5. CASE UNCHANGED vars
    BY <1>5, TickLife
  <1> QED  BY <1>2, <1>3, <1>4, <1>5 DEF Next, Stopped

\* The invariant of the whole kernel holds in every reachable state.
THEOREM LifeInvariant ==
    ASSUME FilesOutcomes = {TRUE}, initproc \notin KillTargets
    PROVE  Spec => [](Inv /\ Life)
  BY SchedInit, LifeInit, SchedStep, LifeStep, PTL DEF Spec

\* The state of the kernel keeps its type, nr_process and the deltas of the
\* timers included.
THEOREM KernelTypes ==
    ASSUME FilesOutcomes = {TRUE}, initproc \notin KillTargets
    PROVE  Spec => []TypeOK
  <1>1. Inv /\ Life => TypeOK
    <2> SUFFICES ASSUME Inv, Life  PROVE TypeOK
      OBVIOUS
    <2>1. nr_process \in Nat
      BY FS_CardinalityType DEF Life, Census
    <2>2. timer_list \in Seq(Timer)
      BY DEF Life, Clock
    <2> QED  BY <2>1, <2>2 DEF TypeOK, Inv, SchedType, Life, LifeType
  <1> QED  BY <1>1, LifeInvariant, PTL

\* For any number of processes and any limits: no assert of the process code
\* fails, initproc finds nobody left when the machine stops, and do_exit never
\* returns.
THEOREM KernelNeverPanics ==
    ASSUME FilesOutcomes = {TRUE}, initproc \notin KillTargets
    PROVE  Spec => []NoPanic
  <1>1. Life => NoPanic
    BY DEF Life, Places, NoPanic
  <1> QED  BY <1>1, LifeInvariant, PTL

\* For any number of processes: the family links are consistent and nr_process
\* counts the processes (set_links, remove_links, do_exit).
THEOREM FamilyLinksOK ==
    ASSUME FilesOutcomes = {TRUE}, initproc \notin KillTargets
    PROVE  Spec => []FamilyOK
  <1>1. Inv /\ Life => FamilyOK
    <2> SUFFICES ASSUME Inv, Life  PROVE FamilyOK
      OBVIOUS
    <2>1. LinkTypes /\ Links /\ Chained
      BY LinkTypesOK DEF Life, Family
    <2>2. ASSUME NEW p \in Proc
          PROVE  {q \in Proc : Live(q) /\ parent[q] = p} = Range(Sibling(p)) \ {NULL}
      <3> DEFINE N == Cardinality(Proc)
                 sib == Sibling(p)
      <3>1. /\ \A n \in 1 .. N : sib[n] # NULL =>
                  sib[n] \in Proc /\ Kid(sib[n]) /\ parent[sib[n]] = p
            /\ \A q \in Proc : Kid(q) /\ parent[q] = p => \E n \in 1 .. N : sib[n] = q
            /\ DOMAIN sib = 1 .. N
        BY <2>1, SiblingIs, SiblingKids, SiblingAll
      <3>2. \A q \in Proc : Live(q) /\ parent[q] = p => Kid(q)
        BY <2>1 DEF Kid, Life, Threads, LinkTypes
      <3>3. \A q \in Proc : q # NULL
        BY <2>1 DEF LinkTypes
      <3>4. Range(sib) = {sib[n] : n \in 1 .. N}
        BY <3>1 DEF Range
      <3> HIDE DEF N, sib
      <3> QED  BY <3>1, <3>2, <3>3, <3>4 DEF Kid, sib
    <2>3. ASSUME NEW q \in Proc, Live(q), q # idleproc
          PROVE  /\ optr[q] # NULL => yptr[optr[q]] = q
                 /\ pc[parent[q]] # "reparent" => (yptr[q] = NULL <=> cptr[parent[q]] = q)
      <3>1. Kid(q)
        BY <2>3 DEF Kid
      <3> QED  BY <2>1, <3>1, LinkFacts DEF LinkTypes
    <2> QED  BY <2>2, <2>3 DEF FamilyOK, Life, Census
  <1> QED  BY <1>1, LifeInvariant, PTL

\* For any number of processes and sleep times: no wake-up is lost (do_wait,
\* do_exit, do_sleep, run_timer_list).
THEOREM NoLostWakeup ==
    ASSUME FilesOutcomes = {TRUE}, initproc \notin KillTargets
    PROVE  Spec => []SleeperHasWaker
  <1>1. Inv /\ Life => SleeperHasWaker
    <2> SUFFICES ASSUME Inv, Life  PROVE SleeperHasWaker
      OBVIOUS
    <2>1. \A p \in TimerProcs(timer_list) : Live(p) /\ pc[p] = "sleepwake"
      BY DEF Life, Clock, Places, Live
    <2>2. ASSUME NEW p \in Proc, state[p] = "SLEEPING"
          PROVE  \/ wait_state[p] = "TIMER" /\ p \in TimerProcs(timer_list)
                 \/ /\ wait_state[p] = "CHILD"
                    /\ \E q \in Proc : Live(q) /\ parent[q] = p /\ arg[p] \in {NULL, q}
                    /\ \A q \in Proc : parent[q] = p /\ arg[p] \in {NULL, q} /\ state[q] = "ZOMBIE" =>
                          q = current /\ pc[q] = "notify"
      <3>1. wait_state[p] \in {"CHILD", "TIMER"}
        BY <2>2 DEF Life, LifeType, Places
      <3> QED  BY <3>1 DEF Life, Clock, Waits
    <2> QED  BY <2>1, <2>2 DEF SleeperHasWaker
  <1> QED  BY <1>1, LifeInvariant, PTL

\* For any number of processes: an orphan belongs to initproc, once its parent
\* has handed it over (do_exit).
THEOREM NoOrphans ==
    ASSUME FilesOutcomes = {TRUE}, initproc \notin KillTargets
    PROVE  Spec => []OrphansAdopted
  <1>1. Inv /\ Life => OrphansAdopted
    <2> SUFFICES ASSUME Inv, Life, NEW q \in Proc, Live(q), q # idleproc
                 PROVE  /\ parent[q] # NULL /\ Live(parent[q])
                        /\ state[parent[q]] = "ZOMBIE" =>
                              parent[q] = current /\ pc[current] \in {"notify", "reparent"}
      BY DEF OrphansAdopted
    <2>1. LinkTypes /\ Links
      BY LinkTypesOK DEF Life, Family
    <2>2. parent[q] \in Proc /\ Live(parent[q]) /\ pc[parent[q]] # "dead"
      BY <2>1, LinkFacts DEF Kid
    <2>3. state[parent[q]] = "ZOMBIE" => pc[parent[q]] \in {"notify", "reparent"}
      BY <2>2 DEF Life, Places
    <2>4. pc[parent[q]] \in {"notify", "reparent"} => parent[q] = current
      BY <2>2 DEF Life, Places, Passing
    <2> QED  BY <2>1, <2>2, <2>3, <2>4 DEF LinkTypes
  <1> QED  BY <1>1, LifeInvariant, PTL

=============================================================================
