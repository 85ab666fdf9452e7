------------------------------- MODULE Kernel -------------------------------
(***************************************************************************)
(* The life of a process in the lab8 kernel: fork, exit, wait, kill, sleep *)
(* and yield (lab8/kern/process/proc.c), the scheduler core and its        *)
(* round-robin class (lab8/kern/schedule/sched.c and default_sched.c), and *)
(* the clock interrupt with the way back from a trap (lab8/kern/trap/      *)
(* trap.c).                                                                *)
(*                                                                         *)
(* There is one hart.  A trap enters the kernel with interrupts off, so a  *)
(* system call of a user process is interrupted by nothing until it calls  *)
(* schedule.  Kernel threads (idleproc, initproc, and user_main until it   *)
(* execs) run with interrupts on except between local_intr_save and        *)
(* local_intr_restore; an interrupt taken in the kernel never reschedules. *)
(* A step of the model is a piece of code in which no interrupt can make a *)
(* difference; pc[p] is where process p goes on, and insched says that the *)
(* running process is about to call schedule.                              *)
(*                                                                         *)
(* A process is named by its proc_struct, one of a fixed set of slots that *)
(* do_fork takes and do_wait gives back.  A pid names the same process as  *)
(* its slot as long as pids are unique, which module PidAlloc shows.       *)
(***************************************************************************)
EXTENDS Timers, Functions

CONSTANTS
    User,               \* the proc_structs do_fork may allocate
    idleproc, initproc, \* the two processes made by proc_init
    NULL,               \* the null pointer, and "any child" for do_wait
    MAX_PROCESS,        \* limit on nr_process
    MAX_TIME_SLICE,     \* ticks a process may run
    SleepTimes,         \* arguments of sys_sleep
    KillTargets,        \* processes whose pid sys_kill is called with
    FilesOutcomes       \* whether copy_files may succeed, fail, or both

Proc == User \cup {idleproc, initproc}

ASSUME KernelAssumption ==
    /\ idleproc # initproc
    /\ {idleproc, initproc} \cap User = {} /\ IsFiniteSet(User)
    /\ NULL \notin Proc
    /\ MAX_PROCESS \in Nat /\ MAX_PROCESS > 2
    /\ MAX_TIME_SLICE \in Nat \ {0}
    /\ SleepTimes \subseteq Nat \ {0}
    /\ KillTargets \subseteq User \cup {initproc}
    /\ FilesOutcomes \subseteq BOOLEAN

VARIABLES
    state,          \* proc->state; FREE is a slot that is not allocated
    wait_state,     \* proc->wait_state: NONE, CHILD (WT_CHILD), TIMER (WT_TIMER)
    exiting,        \* proc->flags & PF_EXITING
    need_resched,   \* proc->need_resched
    kthread,        \* the process runs in supervisor mode with interrupts on
    parent, cptr, yptr, optr,   \* the family links
    time_slice,     \* proc->time_slice
    pc,             \* where the process goes on
    arg,            \* a local of do_wait (the pid) and of do_fork (the child)
    current,        \* the process on the hart
    insched,        \* current is about to call schedule
    irq,            \* the clock interrupt is being handled
    run_list,       \* the run queue of the round-robin class
    timer_list,     \* armed timers, see Timers
    nr_process,     \* number of processes
    halted          \* NO; OFF after init_main's checks; PANIC

links == <<parent, cptr, yptr, optr>>
queue == <<run_list, time_slice>>
vars  == <<state, wait_state, exiting, need_resched, kthread, links, queue,
           pc, arg, current, insched, irq, timer_list, nr_process, halted>>

Labels == {"user", "trapret", "exit", "notify", "reparent", "dead",
           "forkwake", "forkfiles", "wait", "waitwake", "sleepwake",
           "idle", "initfork", "initdone", "kmain"}

Timer == [proc : Proc, expires : Nat]

TypeOK ==
    /\ state \in [Proc -> {"FREE", "UNINIT", "SLEEPING", "RUNNABLE", "ZOMBIE"}]
    /\ wait_state \in [Proc -> {"NONE", "CHILD", "TIMER"}]
    /\ exiting \in [Proc -> BOOLEAN]
    /\ need_resched \in [Proc -> BOOLEAN]
    /\ kthread \in [Proc -> BOOLEAN]
    /\ parent \in [Proc -> Proc \cup {NULL}]
    /\ cptr \in [Proc -> Proc \cup {NULL}]
    /\ yptr \in [Proc -> Proc \cup {NULL}]
    /\ optr \in [Proc -> Proc \cup {NULL}]
    /\ time_slice \in [Proc -> 0 .. MAX_TIME_SLICE]
    /\ pc \in [Proc -> Labels]
    /\ arg \in [Proc -> Proc \cup {NULL}]
    /\ current \in Proc
    /\ insched \in BOOLEAN
    /\ irq \in BOOLEAN
    /\ run_list \in Seq(Proc \ {idleproc})
    /\ timer_list \in Seq(Timer)
    /\ nr_process \in Nat
    /\ halted \in {"NO", "OFF", "PANIC"}

-----------------------------------------------------------------------------
(* Shared pieces of code.                                                  *)

Live(p) == state[p] # "FREE"

\* current is at label l and executes there.
At(l) == halted = "NO" /\ ~irq /\ ~insched /\ pc[current] = l

Goto(l) == pc' = [pc EXCEPT ![current] = l]

\* An assert or a panic of the code.
Check(ok) == halted' = IF ok THEN halted ELSE "PANIC"

\* Interrupts are on: in user mode, and in kernel threads outside the critical
\* section of do_exit.  The other critical sections are single steps.
SIE == IF kthread[current]
       THEN pc[current] \notin {"notify", "reparent"}
       ELSE pc[current] = "user" /\ ~insched

\* Mutant: the slice is not refilled.
RefilledNot(p) == time_slice

\* RR_enqueue refills a slice that is used up.
Refilled(p) ==
    [time_slice EXCEPT ![p] = IF @ = 0 \/ @ > MAX_TIME_SLICE THEN MAX_TIME_SLICE ELSE @]

\* Mutant: a stack instead of a queue.
QueuedFirst(p) == <<p>> \o run_list

\* RR_enqueue adds before run_list, that is at the tail.
Queued(p) == Append(run_list, p)

InQueue(p) == \E i \in DOMAIN run_list : run_list[i] = p

\* sched_class_enqueue and RR_enqueue, with its assert that the process is not on
\* the queue already.  idleproc is never queued.
Enqueue(p) ==
    IF p = idleproc
    THEN UNCHANGED <<queue, halted>>
    ELSE /\ run_list' = Queued(p)
         /\ time_slice' = Refilled(p)
         /\ Check(~InQueue(p))

\* wakeup_proc: make p runnable and queue it, unless it is the process that
\* runs.  A process that is runnable is left alone with a warning, and p must not
\* be a zombie.
wakeup_proc(p) ==
    IF state[p] \in {"RUNNABLE", "ZOMBIE"}
    THEN /\ Check(state[p] # "ZOMBIE")
         /\ UNCHANGED <<state, wait_state, queue>>
    ELSE /\ state' = [state EXCEPT ![p] = "RUNNABLE"]
         /\ wait_state' = [wait_state EXCEPT ![p] = "NONE"]
         /\ IF p = current THEN UNCHANGED <<queue, halted>> ELSE Enqueue(p)

\* Nothing is woken.
NoWakeup == UNCHANGED <<state, wait_state, queue, halted>>

\* A system call goes back to user mode through the end of trap.
SyscallReturn == Goto("trapret") /\ UNCHANGED insched

-----------------------------------------------------------------------------
(* do_fork.                                                                *)

\* Mutant: the link back from the older sibling is not set.
set_links_NoYptr(c) ==
    /\ parent' = [parent EXCEPT ![c] = current]
    /\ optr' = [optr EXCEPT ![c] = cptr[current]]
    /\ cptr' = [cptr EXCEPT ![current] = c]
    /\ yptr' = [yptr EXCEPT ![c] = NULL]

\* set_links: c becomes the youngest child of current.
set_links(c) ==
    /\ parent' = [parent EXCEPT ![c] = current]
    /\ optr' = [optr EXCEPT ![c] = cptr[current]]
    /\ yptr' = [p \in Proc |-> IF p = cptr[current] THEN c
                               ELSE IF p = c THEN NULL ELSE yptr[p]]
    /\ cptr' = [cptr EXCEPT ![current] = c]

\* do_fork up to wakeup_proc.  alloc_proc gives c the values of a free slot, see
\* kfree.  Where the child starts depends on who forks: a user process returns
\* from the same system call in user mode, init_main makes the thread user_main.
do_fork(c) ==
    /\ nr_process < MAX_PROCESS
    /\ c \in User /\ ~Live(c)
    /\ Check(wait_state[current] = "NONE")
    /\ state' = [state EXCEPT ![c] = "UNINIT"]
    /\ set_links(c)
    /\ nr_process' = nr_process + 1
    /\ kthread' = [kthread EXCEPT ![c] = kthread[current]]
    /\ pc' = [pc EXCEPT ![c] = IF kthread[current] THEN "kmain" ELSE "user",
                        ![current] = "forkwake"]
    /\ arg' = [arg EXCEPT ![current] = c]
    /\ UNCHANGED <<wait_state, exiting, need_resched, queue, current, insched,
                   irq, timer_list>>

ForkWake ==
    /\ At("forkwake")
    /\ wakeup_proc(arg[current])
    /\ Goto("forkfiles")
    /\ UNCHANGED <<exiting, need_resched, kthread, links, arg, current, insched,
                   irq, timer_list, nr_process>>

\* The end of do_fork: copy_files.  When it fails the child, which is linked and
\* runnable by now, is freed.  The call returns to the parent: a user process
\* goes back to user mode, init_main goes on to its loop.
ForkFiles ==
    /\ At("forkfiles")
    /\ \E ok \in FilesOutcomes :
          state' = IF ok THEN state ELSE [state EXCEPT ![arg[current]] = "FREE"]
    /\ arg' = [arg EXCEPT ![current] = NULL]
    /\ Goto(IF kthread[current] THEN "wait" ELSE "trapret")
    /\ UNCHANGED <<wait_state, exiting, need_resched, kthread, links, queue,
                   current, insched, irq, timer_list, nr_process, halted>>

-----------------------------------------------------------------------------
(* do_exit.                                                                *)

\* The process is a zombie before it turns interrupts off.  initproc must not
\* get here.
DoExit ==
    /\ At("exit")
    /\ Check(current \notin {idleproc, initproc})
    /\ state' = [state EXCEPT ![current] = "ZOMBIE"]
    /\ Goto("notify")
    /\ UNCHANGED <<wait_state, exiting, need_resched, kthread, links, queue, arg,
                   current, insched, irq, timer_list, nr_process>>

\* Mutant: the parent is not told.
NotifyWakesNever == FALSE

\* The parent sleeps in do_wait.
NotifyWakes == wait_state[parent[current]] = "CHILD"

\* Wake the parent if it waits for a child.  A process without a parent would
\* fault here.
ExitNotify ==
    /\ At("notify")
    /\ IF parent[current] = NULL
       THEN Check(FALSE) /\ UNCHANGED <<state, wait_state, queue>>
       ELSE IF NotifyWakes THEN wakeup_proc(parent[current]) ELSE NoWakeup
    /\ Goto("reparent")
    /\ UNCHANGED <<exiting, need_resched, kthread, links, arg, current, insched,
                   irq, timer_list, nr_process>>

\* Mutant: initproc is not told of the zombies it inherits.
AdoptionWakesNever(c) == FALSE

\* initproc waits, and the child it is given is a zombie already.
AdoptionWakes(c) == state[c] = "ZOMBIE" /\ wait_state[initproc] = "CHILD"

\* One turn of the loop that gives the children to initproc: move the youngest
\* one, and wake initproc if it waits and the child is a zombie.
ExitReparent ==
    /\ At("reparent")
    /\ cptr[current] # NULL
    /\ LET c == cptr[current]
       IN  /\ cptr' = [cptr EXCEPT ![current] = optr[c], ![initproc] = c]
           /\ optr' = [optr EXCEPT ![c] = cptr[initproc]]
           /\ yptr' = [p \in Proc |-> IF p = c THEN NULL
                                      ELSE IF p = cptr[initproc] THEN c ELSE yptr[p]]
           /\ parent' = [parent EXCEPT ![c] = initproc]
           /\ IF AdoptionWakes(c)
              THEN wakeup_proc(initproc) ELSE NoWakeup
    /\ UNCHANGED <<exiting, need_resched, kthread, pc, arg, current, insched,
                   irq, timer_list, nr_process>>

\* No child is left: schedule, and never come back.
ExitSchedule ==
    /\ At("reparent")
    /\ cptr[current] = NULL
    /\ insched' = TRUE
    /\ Goto("dead")
    /\ UNCHANGED <<state, wait_state, exiting, need_resched, kthread, links, queue,
                   arg, current, irq, timer_list, nr_process, halted>>

-----------------------------------------------------------------------------
(* do_wait.                                                                *)

\* The children of p in the order of the links: cptr, then optr by optr.
Sibling(p) ==
    LET sib[n \in 1 .. Cardinality(Proc)] ==
            IF n = 1 THEN cptr[p]
            ELSE IF sib[n - 1] = NULL THEN NULL ELSE optr[sib[n - 1]]
    IN  sib

\* The child that the label "repeat" of do_wait stops at: the child asked for,
\* or the first zombie in the order of the links.
Found(q) ==
    /\ state[q] = "ZOMBIE"
    /\ IF arg[current] # NULL
       THEN q = arg[current] /\ parent[q] = current
       ELSE LET sib == Sibling(current)
            IN  \E n \in DOMAIN sib :
                   /\ sib[n] = q
                   /\ \A m \in 1 .. n - 1 : state[sib[m]] # "ZOMBIE"

haskid ==
    IF arg[current] # NULL
    THEN Live(arg[current]) /\ parent[arg[current]] = current
    ELSE cptr[current] # NULL

\* Mutant: the parent keeps pointing to the youngest child when it is removed.
CptrKept(q) == cptr

\* remove_links takes q out of the chain of its siblings.
CptrWithout(q) ==
    IF yptr[q] = NULL THEN [cptr EXCEPT ![parent[q]] = optr[q]] ELSE cptr

remove_links(q) ==
    /\ yptr' = [p \in Proc |-> IF p = q THEN NULL
                               ELSE IF p = optr[q] THEN yptr[q] ELSE yptr[p]]
    /\ optr' = [p \in Proc |-> IF p = q THEN NULL
                               ELSE IF p = yptr[q] THEN optr[q] ELSE optr[p]]
    /\ cptr' = CptrWithout(q)
    /\ parent' = [parent EXCEPT ![q] = NULL]
    /\ nr_process' = nr_process - 1

\* The slot goes back to the values that alloc_proc gives a new process.
kfree(q) ==
    /\ state' = [state EXCEPT ![q] = "FREE"]
    /\ exiting' = [exiting EXCEPT ![q] = FALSE]
    /\ time_slice' = [time_slice EXCEPT ![q] = 0]
    /\ arg' = [arg EXCEPT ![q] = NULL, ![current] = NULL]

\* A zombie is found: free it and return 0.  init_main then calls schedule and
\* waits again.
WaitReap(q) ==
    /\ At("wait")
    /\ Found(q)
    /\ Check(q \notin {idleproc, initproc})
    /\ remove_links(q)
    /\ kfree(q)
    /\ IF current = initproc
       THEN Goto("wait") /\ insched' = TRUE
       ELSE SyscallReturn
    /\ UNCHANGED <<wait_state, need_resched, kthread, run_list, current, irq,
                   timer_list>>

\* There is a child to wait for: sleep.
WaitSleep ==
    /\ At("wait")
    /\ haskid
    /\ \A q \in Proc : ~Found(q)
    /\ state' = [state EXCEPT ![current] = "SLEEPING"]
    /\ wait_state' = [wait_state EXCEPT ![current] = "CHILD"]
    /\ insched' = TRUE
    /\ Goto("waitwake")
    /\ UNCHANGED <<exiting, need_resched, kthread, links, queue, arg, current, irq,
                   timer_list, nr_process, halted>>

\* do_wait returns -E_BAD_PROC; init_main leaves its loop.
WaitNoChild ==
    /\ At("wait")
    /\ ~haskid
    /\ arg' = [arg EXCEPT ![current] = NULL]
    /\ Goto(IF current = initproc THEN "initdone" ELSE "trapret")
    /\ UNCHANGED <<state, wait_state, exiting, need_resched, kthread, links, queue,
                   current, insched, irq, timer_list, nr_process, halted>>

\* schedule has returned: a killed process exits, others look again.
WaitWake ==
    /\ At("waitwake")
    /\ Goto(IF exiting[current] THEN "exit" ELSE "wait")
    /\ UNCHANGED <<state, wait_state, exiting, need_resched, kthread, links, queue,
                   arg, current, insched, irq, timer_list, nr_process, halted>>

-----------------------------------------------------------------------------
(* The system calls, made in user mode.                                    *)

SysFork(c) == At("user") /\ do_fork(c)

\* do_exit, called by sys_exit, and by do_execve when it fails after it has closed
\* the files of the process.
SysExit ==
    /\ At("user")
    /\ Goto("exit")
    /\ UNCHANGED <<state, wait_state, exiting, need_resched, kthread, links, queue,
                   arg, current, insched, irq, timer_list, nr_process, halted>>

\* do_wait with a pid, or with NULL for any child.
SysWait(q) ==
    /\ At("user")
    /\ arg' = [arg EXCEPT ![current] = q]
    /\ Goto("wait")
    /\ UNCHANGED <<state, wait_state, exiting, need_resched, kthread, links, queue,
                   current, insched, irq, timer_list, nr_process, halted>>

\* do_kill of a process that has not been killed yet.  Both wait states of this
\* model carry WT_INTERRUPTED.
SysKill(q) ==
    /\ At("user")
    /\ Live(q) /\ ~exiting[q]
    /\ exiting' = [exiting EXCEPT ![q] = TRUE]
    /\ IF wait_state[q] # "NONE" THEN wakeup_proc(q) ELSE NoWakeup
    /\ SyscallReturn
    /\ UNCHANGED <<need_resched, kthread, links, arg, current, irq, timer_list,
                   nr_process>>

\* do_sleep up to schedule.
SysSleep(t) ==
    /\ At("user")
    /\ state' = [state EXCEPT ![current] = "SLEEPING"]
    /\ wait_state' = [wait_state EXCEPT ![current] = "TIMER"]
    /\ timer_list' = add_timer(timer_list, current, t)
    /\ Check(current \notin TimerProcs(timer_list))
    /\ insched' = TRUE
    /\ Goto("sleepwake")
    /\ UNCHANGED <<exiting, need_resched, kthread, links, queue, arg, current, irq,
                   nr_process>>

\* Mutant: the timer is not deleted when the sleeper was woken early.
SleepWakeKeepTimer ==
    /\ At("sleepwake")
    /\ SyscallReturn
    /\ UNCHANGED <<state, wait_state, exiting, need_resched, kthread, links, queue,
                   arg, current, irq, timer_list, nr_process, halted>>

\* do_sleep after schedule: the timer is still armed if the sleeper was killed.
SleepWake ==
    /\ At("sleepwake")
    /\ timer_list' = del_timer(timer_list, current)
    /\ SyscallReturn
    /\ UNCHANGED <<state, wait_state, exiting, need_resched, kthread, links, queue,
                   arg, current, irq, nr_process, halted>>

SysYield ==
    /\ At("user")
    /\ need_resched' = [need_resched EXCEPT ![current] = TRUE]
    /\ SyscallReturn
    /\ UNCHANGED <<state, wait_state, exiting, kthread, links, queue, arg, current,
                   irq, timer_list, nr_process, halted>>

\* A call that returns without touching this state: do_fork without memory or
\* above MAX_PROCESS, do_kill of no process or of a killed one, do_execve, an
\* exception, and the calls that are not about processes.  Those of the file
\* system may sleep; modules Stdin and Semaphore have these sleeps.
SysOther ==
    /\ At("user")
    /\ SyscallReturn
    /\ UNCHANGED <<state, wait_state, exiting, need_resched, kthread, links, queue,
                   arg, current, irq, timer_list, nr_process, halted>>

\* The end of trap, on the way back to user mode: a killed process exits, a
\* process whose slice is used up is rescheduled.  When schedule returns the
\* process goes straight to user mode.
TrapReturn ==
    /\ At("trapret")
    /\ Goto(IF exiting[current] THEN "exit" ELSE "user")
    /\ insched' = (need_resched[current] /\ ~exiting[current])
    /\ UNCHANGED <<state, wait_state, exiting, need_resched, kthread, links, queue,
                   arg, current, irq, timer_list, nr_process, halted>>

-----------------------------------------------------------------------------
(* The kernel threads.                                                     *)

\* init_main creates user_main.
InitMainFork(c) == At("initfork") /\ do_fork(c)

\* user_main becomes a user process: kernel_execve leaves through __trapret.
UserMainExec ==
    /\ At("kmain")
    /\ kthread' = [kthread EXCEPT ![current] = FALSE]
    /\ Goto("user")
    /\ UNCHANGED <<state, wait_state, exiting, need_resched, links, queue, arg,
                   current, insched, irq, timer_list, nr_process, halted>>

\* do_execve fails: the thread exits.
UserMainExecFails ==
    /\ At("kmain")
    /\ Goto("exit")
    /\ UNCHANGED <<state, wait_state, exiting, need_resched, kthread, links, queue,
                   arg, current, insched, irq, timer_list, nr_process, halted>>

\* The end of init_main: its asserts.  When they hold it returns to do_exit, which
\* stops the machine because initproc exits: the normal end.
InitMainEnd ==
    /\ At("initdone")
    /\ halted' = IF /\ cptr[initproc] = NULL /\ yptr[initproc] = NULL
                    /\ optr[initproc] = NULL
                    /\ nr_process = 2
                    /\ \A p \in User : ~Live(p)
                 THEN "OFF" ELSE "PANIC"
    /\ UNCHANGED <<state, wait_state, exiting, need_resched, kthread, links, queue,
                   pc, arg, current, insched, irq, timer_list, nr_process>>

\* cpu_idle.
IdleLoop ==
    /\ At("idle")
    /\ need_resched[idleproc]
    /\ insched' = TRUE
    /\ UNCHANGED <<state, wait_state, exiting, need_resched, kthread, links, queue,
                   pc, arg, current, irq, timer_list, nr_process, halted>>

-----------------------------------------------------------------------------
(* The scheduler and the clock.                                            *)

\* Mutant: the running process is put back even if it sleeps or is dead.
RequeuedAlways == current # idleproc

\* Mutant: idleproc is put back as well.
RequeuedIdle == state[current] = "RUNNABLE"

\* schedule puts the running process back if it is still runnable;
\* sched_class_enqueue leaves idleproc out.
Requeued == state[current] = "RUNNABLE" /\ current # idleproc

\* schedule, RR_pick_next, RR_dequeue and proc_run.
Schedule ==
    /\ halted = "NO" /\ ~irq /\ insched
    /\ LET ready == IF Requeued THEN Queued(current) ELSE run_list
       IN  /\ time_slice' = IF Requeued THEN Refilled(current) ELSE time_slice
           /\ current' = IF ready = <<>> THEN idleproc ELSE Head(ready)
           /\ run_list' = IF ready = <<>> THEN <<>> ELSE Tail(ready)
           /\ Check(Requeued => ~InQueue(current))
    /\ need_resched' = [need_resched EXCEPT ![current] = FALSE]
    /\ insched' = FALSE
    /\ UNCHANGED <<state, wait_state, exiting, kthread, links, pc, arg, irq,
                   timer_list, nr_process>>

\* The clock interrupt, up to the loop of run_timer_list.
Tick ==
    /\ halted = "NO" /\ ~irq
    /\ SIE
    /\ irq' = TRUE
    /\ timer_list' = Shift(timer_list, 1, 0 - 1)
    /\ Check(timer_list # <<>> => Head(timer_list).expires # 0)
    /\ UNCHANGED <<state, wait_state, exiting, need_resched, kthread, links, queue,
                   pc, arg, current, insched, nr_process>>

HeadDue == timer_list # <<>> /\ Head(timer_list).expires = 0

\* Mutant: the timer is removed, its process sleeps on.
TimerExpireNoWake ==
    /\ halted = "NO" /\ irq
    /\ HeadDue
    /\ timer_list' = del_timer(timer_list, Head(timer_list).proc)
    /\ UNCHANGED <<state, wait_state, exiting, need_resched, kthread, links, queue,
                   pc, arg, current, insched, irq, nr_process, halted>>

\* One turn of the loop of run_timer_list.
TimerExpire ==
    /\ halted = "NO" /\ irq
    /\ HeadDue
    /\ wakeup_proc(Head(timer_list).proc)
    /\ timer_list' = del_timer(timer_list, Head(timer_list).proc)
    /\ UNCHANGED <<exiting, need_resched, kthread, links, pc, arg, current, insched,
                   irq, nr_process>>

\* RR_proc_tick for current, and the return from the interrupt: through the end
\* of trap when it came from user mode.
TickEnd ==
    /\ halted = "NO" /\ irq
    /\ ~HeadDue
    /\ IF current = idleproc
       THEN /\ need_resched' = [need_resched EXCEPT ![idleproc] = TRUE]
            /\ UNCHANGED time_slice
       ELSE LET left == IF time_slice[current] > 0 THEN time_slice[current] - 1 ELSE 0
            IN  /\ time_slice' = [time_slice EXCEPT ![current] = left]
                /\ need_resched' = [need_resched EXCEPT ![current] = @ \/ left = 0]
    /\ IF pc[current] = "user" /\ ~insched THEN Goto("trapret") ELSE UNCHANGED pc
    /\ irq' = FALSE
    /\ UNCHANGED <<state, wait_state, exiting, kthread, links, run_list, arg,
                   current, insched, timer_list, nr_process, halted>>

-----------------------------------------------------------------------------
\* proc_init and sched_init are done: idleproc runs cpu_idle, initproc is queued.
Init ==
    /\ state = [p \in Proc |-> IF p \in User THEN "FREE" ELSE "RUNNABLE"]
    /\ wait_state = [p \in Proc |-> "NONE"]
    /\ exiting = [p \in Proc |-> FALSE]
    /\ need_resched = [p \in Proc |-> p = idleproc]
    /\ kthread = [p \in Proc |-> p \notin User]
    /\ parent = [p \in Proc |-> IF p = initproc THEN idleproc ELSE NULL]
    /\ cptr = [p \in Proc |-> IF p = idleproc THEN initproc ELSE NULL]
    /\ yptr = [p \in Proc |-> NULL]
    /\ optr = [p \in Proc |-> NULL]
    /\ time_slice = [p \in Proc |-> IF p = initproc THEN MAX_TIME_SLICE ELSE 0]
    /\ pc = [p \in Proc |-> IF p = idleproc THEN "idle"
                            ELSE IF p = initproc THEN "initfork" ELSE "dead"]
    /\ arg = [p \in Proc |-> NULL]
    /\ current = idleproc
    /\ insched = FALSE
    /\ irq = FALSE
    /\ run_list = <<initproc>>
    /\ timer_list = <<>>
    /\ nr_process = 2
    /\ halted = "NO"

\* What a user program may do next.
UserStep ==
    \/ \E c \in User : SysFork(c)
    \/ \E q \in User \cup {NULL} : SysWait(q)
    \/ \E q \in KillTargets : SysKill(q)
    \/ \E t \in SleepTimes : SysSleep(t)
    \/ SysExit
    \/ SysYield
    \/ SysOther

\* What the kernel does next on behalf of the running process.
KernelStep ==
    \/ \E c \in User : InitMainFork(c)
    \/ ForkWake \/ ForkFiles
    \/ DoExit \/ ExitNotify \/ ExitReparent \/ ExitSchedule
    \/ \E q \in Proc : WaitReap(q)
    \/ WaitSleep \/ WaitNoChild \/ WaitWake
    \/ SleepWake
    \/ TrapReturn
    \/ UserMainExec \/ UserMainExecFails
    \/ InitMainEnd
    \/ IdleLoop
    \/ Schedule

IrqStep == TimerExpire \/ TickEnd

\* The machine has stopped.
Stopped == halted # "NO" /\ UNCHANGED vars

Next ==
    \/ UserStep
    \/ KernelStep
    \/ Tick
    \/ IrqStep
    \/ Stopped

Spec == Init /\ [][Next]_vars

\* The hart executes: an interrupt handler and a kernel path make progress, the
\* latter between two ticks, and the clock keeps ticking.  The timer interrupt
\* stays pending while interrupts are off and is taken when they are on again,
\* hence strong fairness of Tick.  Nothing is assumed of user programs.
Fairness ==
    /\ WF_vars(IrqStep)
    /\ SF_vars(KernelStep)
    /\ SF_vars(Tick)

FairSpec == Spec /\ Fairness

-----------------------------------------------------------------------------
(* Safety.                                                                 *)

\* The run queue holds exactly the runnable processes that are not running,
\* each of them once: no runnable process is ever lost, and neither a sleeping,
\* a dead nor a freed process is ever picked (wakeup_proc, schedule, RR_enqueue).
RunQueueExact ==
    halted = "NO" =>
        /\ \A i, j \in DOMAIN run_list : run_list[i] = run_list[j] => i = j
        /\ \A p \in Proc :
              InQueue(p) <=> /\ state[p] = "RUNNABLE"
                             /\ p \notin {current, idleproc}

\* No assert of the process code fails and do_exit never returns: waking a
\* zombie, queueing a process twice, a due timer left at the head of the list,
\* initproc exiting, and init_main finding a process at shutdown.
NoPanic ==
    /\ halted # "PANIC"
    /\ pc[current] = "dead" => insched \/ halted # "NO"

\* The family links (set_links, remove_links, do_exit): the children of p are
\* chained from cptr by optr, youngest first, yptr points back, and nr_process
\* counts the processes.  While p hands its children to initproc the first of
\* those left still points to a sibling that has gone.
FamilyOK ==
    /\ \A p \in Proc :
          {q \in Proc : Live(q) /\ parent[q] = p} = Range(Sibling(p)) \ {NULL}
    /\ \A q \in Proc : Live(q) /\ q # idleproc =>
          /\ optr[q] # NULL => yptr[optr[q]] = q
          /\ pc[parent[q]] # "reparent" =>
                (yptr[q] = NULL <=> cptr[parent[q]] = q)
    /\ nr_process = Cardinality({p \in Proc : Live(p)})

\* No lost wake-up.  A process asleep in do_sleep has its timer armed; a process
\* asleep in do_wait has a child to wait for, and none that is a zombie already,
\* except for one that is about to wake it.  A timer, which lives on a kernel
\* stack, is armed only while its process is inside do_sleep.
SleeperHasWaker ==
    halted = "NO" =>
    /\ \A p \in Proc : state[p] = "SLEEPING" =>
        \/ wait_state[p] = "TIMER" /\ p \in TimerProcs(timer_list)
        \/ /\ wait_state[p] = "CHILD"
           /\ LET kids == {q \in Proc : /\ Live(q) /\ parent[q] = p
                                        /\ arg[p] \in {NULL, q}}
              IN  /\ kids # {}
                  /\ \A q \in kids : state[q] = "ZOMBIE" =>
                        q = current /\ pc[q] = "notify"
    /\ \A p \in TimerProcs(timer_list) : Live(p) /\ pc[p] = "sleepwake"

\* Every process has a live parent; a dead one only while it is still handing
\* its children over, so no orphan is left where nobody reaps it (do_exit).
OrphansAdopted ==
    \A q \in Proc : Live(q) /\ q # idleproc =>
        /\ parent[q] # NULL
        /\ Live(parent[q])
        /\ state[parent[q]] = "ZOMBIE" =>
              parent[q] = current /\ pc[current] \in {"notify", "reparent"}

\* A process that has used up its time slice does not go on unnoticed: the
\* request to reschedule it is pending (RR_proc_tick, RR_enqueue).
SliceUsedUp ==
    current # idleproc /\ time_slice[current] = 0 => need_resched[current]

\* What the scheduler relies on, as an inductive invariant: a process on the
\* queue has ticks left, the process that executes is runnable until it is
\* inside do_exit, idleproc never leaves its loop, and the child that do_fork is
\* about to wake exists.
SchedInv ==
    /\ RunQueueExact
    /\ SliceUsedUp
    /\ halted = "NO" =>
          /\ \A p \in Proc : InQueue(p) => time_slice[p] > 0
          /\ insched \/ state[current] = "RUNNABLE" \/ pc[current] \in {"notify", "reparent"}
          /\ pc[idleproc] = "idle" /\ state[idleproc] = "RUNNABLE"
          /\ \A p \in Proc : pc[p] = "forkwake" => arg[p] \in User /\ state[p] = "RUNNABLE"

-----------------------------------------------------------------------------
(* Liveness.                                                               *)

\* Round robin starves nobody: a queued process gets the hart, whatever the
\* other processes do.
NoStarvation ==
    \A p \in Proc : InQueue(p) ~> (current = p \/ halted # "NO")

\* Every sleep ends: a process that calls do_sleep runs again, because its timer
\* expires or because it is killed.
SleepEnds ==
    \A p \in Proc :
        (wait_state[p] = "TIMER")
            ~> (halted # "NO" \/ (current = p /\ state[p] = "RUNNABLE"))

\* initproc does not sleep through its zombies: when it has been given one it
\* comes back to the scan of do_wait, and reaps.
InitReaps ==
    (\E q \in User : state[q] = "ZOMBIE" /\ parent[q] = initproc)
        ~> (halted # "NO" \/ (current = initproc /\ pc[initproc] = "wait"))

\* "PF_EXITING: getting shutdown": a process that has been killed exits.
KilledExits ==
    \A p \in User : exiting[p] ~> (state[p] \in {"ZOMBIE", "FREE"} \/ halted # "NO")

\* "NOTE: only after do_wait function, all resources of the child proces are
\* free": no proc_struct that is linked or queued has been given back.
LinkedIsAllocated ==
    \A p \in User : InQueue(p) \/ parent[p] # NULL => Live(p)

=============================================================================
