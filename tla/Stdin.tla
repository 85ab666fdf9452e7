------------------------------- MODULE Stdin --------------------------------
(***************************************************************************)
(* The keyboard device of lab8 (kern/fs/devs/dev_stdin.c) and the wait     *)
(* queue its readers sleep on (kern/sync/wait.c).                          *)
(*                                                                         *)
(* The clock interrupt polls the console and puts the character into a     *)
(* ring buffer; processes read from it, and sleep while it is empty.  Both *)
(* sides run with interrupts off and a reader gives up the hart only in    *)
(* schedule, so a step of the model is what happens between two calls of   *)
(* schedule, or one interrupt.  The scheduler of module Kernel is reduced  *)
(* to what it promises: any runnable process may go on.                    *)
(*                                                                         *)
(* The n-th character typed is the number n.                               *)
(***************************************************************************)
EXTENDS Integers, Sequences, SequencesExt

CONSTANTS
    Reader,             \* processes that read from stdin
    STDIN_BUFSIZE,
    Lengths,            \* the lengths they ask for
    MaxTyped            \* bound: characters typed

ASSUME StdinAssumption ==
    /\ STDIN_BUFSIZE \in Nat \ {0}
    /\ Lengths \subseteq Nat \ {0}
    /\ MaxTyped \in Nat

VARIABLES
    stdin_buffer, p_rpos, p_wpos,
    wait_queue,         \* the readers on the queue, first to wake first
    wakeup_flags,       \* of the wait_t of a reader: INTERRUPTED or KBD
    pc,                 \* user, read (inside schedule, in dev_stdin_read), dead
    runnable,           \* proc->state = PROC_RUNNABLE
    killed,             \* PF_EXITING
    todo,               \* len - ret of the call
    typed,              \* characters typed
    accepted,           \* history: the characters p_wpos was advanced for
    consumed            \* history: the characters read, in the order of reading

buffer == <<stdin_buffer, p_rpos, p_wpos>>
vars == <<buffer, wait_queue, wakeup_flags, pc, runnable, killed, todo, typed,
          accepted, consumed>>

TypeOK ==
    /\ stdin_buffer \in [0 .. STDIN_BUFSIZE - 1 -> Nat]
    /\ p_rpos \in Nat /\ p_wpos \in Nat
    /\ wait_queue \in Seq(Reader)
    /\ wakeup_flags \in [Reader -> {"INTERRUPTED", "KBD"}]
    /\ pc \in [Reader -> {"user", "read", "dead"}]
    /\ runnable \in [Reader -> BOOLEAN]
    /\ killed \in [Reader -> BOOLEAN]
    /\ todo \in [Reader -> Nat]
    /\ typed \in Nat
    /\ accepted \in Seq(Nat)
    /\ consumed \in Seq(Nat)

Init ==
    /\ stdin_buffer = [i \in 0 .. STDIN_BUFSIZE - 1 |-> 0]
    /\ p_rpos = 0 /\ p_wpos = 0
    /\ wait_queue = <<>>
    /\ wakeup_flags = [r \in Reader |-> "INTERRUPTED"]
    /\ pc = [r \in Reader |-> "user"]
    /\ runnable = [r \in Reader |-> TRUE]
    /\ killed = [r \in Reader |-> FALSE]
    /\ todo = [r \in Reader |-> 0]
    /\ typed = 0
    /\ accepted = <<>>
    /\ consumed = <<>>

-----------------------------------------------------------------------------
Waiting(r) == \E i \in DOMAIN wait_queue : wait_queue[i] = r

\* Mutant: the buffer takes one character too many.
RoomPlusOne == p_wpos - p_rpos <= STDIN_BUFSIZE

\* The buffer is not full.
Room == p_wpos - p_rpos < STDIN_BUFSIZE

\* Mutant: wakeup_first instead of wakeup_queue.
wakeup_queue_First ==
    /\ wakeup_flags' = [r \in Reader |->
                          IF wait_queue # <<>> /\ r = Head(wait_queue)
                          THEN "KBD" ELSE wakeup_flags[r]]
    /\ runnable' = [r \in Reader |->
                      runnable[r] \/ (wait_queue # <<>> /\ r = Head(wait_queue))]
    /\ wait_queue' = IF wait_queue = <<>> THEN <<>> ELSE Tail(wait_queue)

\* wakeup_queue(wait_queue, WT_KBD, 1): wakeup_wait for every reader on the
\* queue, and the queue is empty.  A reader that do_kill has woken is still on the
\* queue; its flags are overwritten and wakeup_proc leaves it runnable.
wakeup_queue ==
    /\ wakeup_flags' = [r \in Reader |-> IF Waiting(r) THEN "KBD" ELSE wakeup_flags[r]]
    /\ runnable' = [r \in Reader |-> runnable[r] \/ Waiting(r)]
    /\ wait_queue' = <<>>

\* dev_stdin_write, from the clock interrupt.  The character is stored before
\* the room is checked: in a full buffer it takes the place of the oldest one.
dev_stdin_write ==
    /\ typed < MaxTyped
    /\ typed' = typed + 1
    /\ stdin_buffer' = [stdin_buffer EXCEPT ![p_wpos % STDIN_BUFSIZE] = typed + 1]
    /\ IF Room
       THEN p_wpos' = p_wpos + 1 /\ accepted' = Append(accepted, typed + 1)
       ELSE UNCHANGED <<p_wpos, accepted>>
    /\ wakeup_queue
    /\ UNCHANGED <<p_rpos, pc, killed, todo, consumed>>

\* The call is over: at the end of its trap a killed process exits, the others return
\* to user mode.
Return(r) == pc' = [pc EXCEPT ![r] = IF killed[r] THEN "dead" ELSE "user"]

\* Mutant: the loop empties the buffer whatever the length asked for.
TakenAll(n) == p_wpos - p_rpos

\* The characters that the loop of dev_stdin_read takes before it ends or sleeps.
Taken(n) == IF p_wpos - p_rpos < n THEN p_wpos - p_rpos ELSE n

\* The loop of dev_stdin_read with n characters to go: take what is there, and
\* sleep if that is not enough.  rest is the wait queue without r's own entry.
ReadLoop(r, n, rest) ==
    LET taken == Taken(n)
    IN  /\ p_rpos' = p_rpos + taken
        /\ consumed' = consumed \o [i \in 1 .. taken |->
                          stdin_buffer[(p_rpos + i - 1) % STDIN_BUFSIZE]]
        /\ todo' = [todo EXCEPT ![r] = n - taken]
        /\ IF taken = n
           THEN /\ Return(r)
                /\ wait_queue' = rest
                /\ UNCHANGED <<wakeup_flags, runnable>>
           ELSE /\ pc' = [pc EXCEPT ![r] = "read"]
                /\ wait_queue' = Append(rest, r)
                /\ wakeup_flags' = [wakeup_flags EXCEPT ![r] = "INTERRUPTED"]
                /\ runnable' = [runnable EXCEPT ![r] = FALSE]
        /\ UNCHANGED <<stdin_buffer, p_wpos, killed, typed, accepted>>

ReadCall(r, len) ==
    /\ pc[r] = "user"
    /\ ReadLoop(r, len, wait_queue)

\* Mutant: an interrupted reader stays on the queue.
LeftQueueNot(r) == wait_queue

\* wait_current_del: off the queue, if still on it.
LeftQueue(r) ==
    IF Waiting(r)
    THEN RemoveAt(wait_queue, CHOOSE i \in DOMAIN wait_queue : wait_queue[i] = r)
    ELSE wait_queue

\* schedule has returned: a key was pressed, or the reader was interrupted.
ReadResume(r) ==
    /\ pc[r] = "read" /\ runnable[r]
    /\ IF wakeup_flags[r] = "KBD"
       THEN ReadLoop(r, todo[r], LeftQueue(r))
       ELSE /\ Return(r)
            /\ wait_queue' = LeftQueue(r)
            /\ UNCHANGED <<buffer, wakeup_flags, runnable, killed, todo, typed,
                           accepted, consumed>>

do_kill(r) ==
    /\ pc[r] # "dead" /\ ~killed[r]
    /\ killed' = [killed EXCEPT ![r] = TRUE]
    /\ runnable' = [runnable EXCEPT ![r] = TRUE]
    /\ UNCHANGED <<buffer, wait_queue, wakeup_flags, pc, todo, typed, accepted, consumed>>

\* A process killed in user mode exits at the end of its next trap, which may come
\* only after another call of read.
TrapExit(r) ==
    /\ pc[r] = "user" /\ killed[r]
    /\ pc' = [pc EXCEPT ![r] = "dead"]
    /\ UNCHANGED <<buffer, wait_queue, wakeup_flags, runnable, killed, todo, typed,
                   accepted, consumed>>

\* The end of the bounded input: nobody can go on.
Quiet ==
    /\ typed = MaxTyped
    /\ \A r \in Reader : pc[r] = "dead" \/ ~runnable[r]
    /\ UNCHANGED vars

Next ==
    \/ dev_stdin_write
    \/ \E r \in Reader : \/ \E len \in Lengths : ReadCall(r, len)
                         \/ ReadResume(r)
                         \/ do_kill(r) \/ TrapExit(r)
    \/ Quiet

\* A runnable process gets the hart (Kernel!NoStarvation).
Spec == Init /\ [][Next]_vars /\ \A r \in Reader : WF_vars(ReadResume(r))

-----------------------------------------------------------------------------
\* No reader is forgotten (dev_stdin_read, wakeup_queue): a reader that sleeps is
\* on the queue, so the next key wakes it; nobody is on the queue while a
\* character is waiting to be read; and nobody is on it twice, or after its call,
\* when the entry on its kernel stack is gone.
NoReaderForgotten ==
    /\ \A r \in Reader : ~runnable[r] => Waiting(r)
    /\ wait_queue # <<>> => p_rpos = p_wpos
    /\ \A r \in Reader : Waiting(r) => pc[r] = "read"
    /\ \A i, j \in DOMAIN wait_queue : wait_queue[i] = wait_queue[j] => i = j

\* The ring buffer over any number of wrap-arounds: at most STDIN_BUFSIZE
\* characters are unread, and they are the accepted ones in the order typed.
\* Only the oldest may have been replaced, by a key that came when the buffer was
\* full.
UnreadInOrder ==
    /\ p_rpos <= p_wpos /\ p_wpos - p_rpos <= STDIN_BUFSIZE
    /\ Len(accepted) = p_wpos
    /\ \A i \in p_rpos .. p_wpos - 1 :
          LET c == stdin_buffer[i % STDIN_BUFSIZE]
          IN  \/ c = accepted[i + 1]
              \/ i = p_rpos /\ c > accepted[i + 1] /\ c \notin Range(accepted)

\* Until a key has been dropped, the readers together get every character once
\* and in the order typed, however their calls interleave.
ReadInOrder ==
    Len(accepted) = typed => \A i \in DOMAIN consumed : consumed[i] = i

=============================================================================
