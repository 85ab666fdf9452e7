--------------------------- MODULE StdinPidProofs ---------------------------
(***************************************************************************)
(* Proofs about two small components that work with interrupts off.        *)
(* The keyboard, for any number of readers, any buffer size and any amount *)
(* of input: no reader is forgotten, the ring buffer keeps the characters  *)
(* in order, and the readers get them in order.                            *)
(* get_pid, for every MAX_PID and MAX_PROCESS that pass its static_assert: *)
(* it never hands out a pid in use.                                        *)
(***************************************************************************)
EXTENDS Stdin, PidAlloc, SeqLemmas, TLAPS

-----------------------------------------------------------------------------
(* The keyboard.                                                           *)

\* The types the argument needs, and that the read position never overtakes the
\* write position.
PosInv ==
    /\ p_rpos \in Nat /\ p_wpos \in Nat /\ p_rpos <= p_wpos
    /\ wait_queue \in Seq(Reader)
    /\ pc \in [Reader -> {"user", "read", "dead"}]
    /\ runnable \in [Reader -> BOOLEAN]
    /\ todo \in [Reader -> Nat]

Inv == PosInv /\ NoReaderForgotten

\* NoReaderForgotten in the notation of SeqLemmas.
LEMMA ForgottenNotation ==
    /\ \A r : Waiting(r) <=> On(wait_queue, r)
    /\ NoReaderForgotten <=>
          /\ \A r \in Reader : ~runnable[r] => On(wait_queue, r)
          /\ wait_queue # <<>> => p_rpos = p_wpos
          /\ \A r \in Reader : On(wait_queue, r) => pc[r] = "read"
          /\ Once(wait_queue)
  BY DEF Waiting, NoReaderForgotten, Once, On

\* The same in the state after a step.
LEMMA ForgottenNotationNext ==
    NoReaderForgotten' <=>
        /\ \A r \in Reader : ~runnable'[r] => On(wait_queue', r)
        /\ wait_queue' # <<>> => p_rpos' = p_wpos'
        /\ \A r \in Reader : On(wait_queue', r) => pc'[r] = "read"
        /\ Once(wait_queue')
  BY DEF Waiting, NoReaderForgotten, Once, On

\* The queue is empty when the device is initialised.
LEMMA StdinInit == Init => Inv
  <1> SUFFICES ASSUME Init  PROVE Inv
    OBVIOUS
  <1>1. PosInv
    BY DEF Init, PosInv
  <1>2. NoReaderForgotten
    BY DEF Init, NoReaderForgotten, Waiting
  <1> QED  BY <1>1, <1>2 DEF Inv

\* wait_current_del takes the reader off the queue and nobody else.
LEMMA LeftQueueProperties ==
    ASSUME Inv, NEW r \in Reader
    PROVE  /\ LeftQueue(r) \in Seq(Reader)
           /\ Once(LeftQueue(r))
           /\ \A x : On(LeftQueue(r), x) <=> On(wait_queue, x) /\ x # r
           /\ LeftQueue(r) # <<>> => wait_queue # <<>>
  <1>1. /\ wait_queue \in Seq(Reader) /\ Once(wait_queue)
        /\ Waiting(r) <=> On(wait_queue, r)
    BY ForgottenNotation DEF Inv, PosInv
  <1>2. CASE ~Waiting(r)
    BY <1>1, <1>2 DEF LeftQueue
  <1>3. CASE Waiting(r)
    <2> DEFINE i == CHOOSE i \in DOMAIN wait_queue : wait_queue[i] = r
    <2>1. i \in DOMAIN wait_queue /\ wait_queue[i] = r
      BY <1>3 DEF Waiting
    <2>2. LeftQueue(r) = RemoveAt(wait_queue, i)
      BY <1>3 DEF LeftQueue
    <2> HIDE DEF i
    <2>3. wait_queue # <<>>
      BY <2>1
    <2> QED  BY <1>1, <2>1, <2>2, <2>3, RemoveOnce
  <1> QED  BY <1>2, <1>3

\* The loop of dev_stdin_read: a reader goes to sleep only when it has emptied
\* the buffer.
LEMMA LoopStep ==
    ASSUME Inv, NEW r \in Reader, NEW n \in Nat, NEW rest \in Seq(Reader),
           Once(rest), \A x : On(rest, x) <=> On(wait_queue, x) /\ x # r,
           rest # <<>> => wait_queue # <<>>,
           runnable[r], ReadLoop(r, n, rest)
    PROVE  Inv'
  <1> DEFINE unread == p_wpos - p_rpos
             taken  == IF unread < n THEN unread ELSE n
  <1>1. /\ p_rpos \in Nat /\ p_wpos \in Nat /\ p_rpos <= p_wpos
        /\ pc \in [Reader -> {"user", "read", "dead"}]
        /\ runnable \in [Reader -> BOOLEAN]
        /\ todo \in [Reader -> Nat]
        /\ \A q \in Reader : ~runnable[q] => On(wait_queue, q)
        /\ wait_queue # <<>> => p_rpos = p_wpos
        /\ \A q \in Reader : On(wait_queue, q) => pc[q] = "read"
    BY ForgottenNotation DEF Inv, PosInv
  <1>2. /\ p_rpos' = p_rpos + taken /\ p_wpos' = p_wpos
        /\ todo' = [todo EXCEPT ![r] = n - taken]
    BY DEF ReadLoop, Taken
  <1>3. taken \in Nat /\ n - taken \in Nat /\ taken <= unread
    BY <1>1
  <1>4. /\ p_rpos' \in Nat /\ p_wpos' \in Nat /\ p_rpos' <= p_wpos'
        /\ rest # <<>> => p_rpos' = p_wpos'
        /\ taken # n => p_rpos' = p_wpos'
    BY <1>1, <1>2, <1>3
  <1>5. todo' \in [Reader -> Nat]
    BY <1>1, <1>2, <1>3
  <1>6. CASE taken = n
    <2>1. /\ pc' = [pc EXCEPT ![r] = IF killed[r] THEN "dead" ELSE "user"]
          /\ wait_queue' = rest
          /\ runnable' = runnable
      BY <1>6 DEF ReadLoop, Return, Taken
    <2>2. pc' \in [Reader -> {"user", "read", "dead"}]
      BY <1>1, <2>1
    <2>3. NoReaderForgotten'
      BY <1>1, <1>4, <2>1, ForgottenNotationNext
    <2> QED  BY <1>1, <1>4, <1>5, <2>1, <2>2, <2>3 DEF Inv, PosInv
  <1>7. CASE taken # n
    <2>1. /\ pc' = [pc EXCEPT ![r] = "read"]
          /\ wait_queue' = Append(rest, r)
          /\ runnable' = [runnable EXCEPT ![r] = FALSE]
      BY <1>7 DEF ReadLoop, Taken
    <2>2. /\ wait_queue' \in Seq(Reader)
          /\ Once(wait_queue')
          /\ \A x : On(wait_queue', x) <=> On(rest, x) \/ x = r
      BY <2>1, AppendOnce
    <2>3. /\ pc' \in [Reader -> {"user", "read", "dead"}]
          /\ runnable' \in [Reader -> BOOLEAN]
      BY <1>1, <2>1
    <2>4. NoReaderForgotten'
      BY <1>1, <1>4, <1>7, <2>1, <2>2, ForgottenNotationNext
    <2> QED  BY <1>4, <1>5, <2>2, <2>3, <2>4 DEF Inv, PosInv
  <1> QED  BY <1>6, <1>7

\* Every step keeps the invariant.
LEMMA StdinStep == Inv /\ [Next]_vars => Inv'
  <1> SUFFICES ASSUME Inv, [Next]_vars  PROVE Inv'
    OBVIOUS
  <1>1. /\ p_rpos \in Nat /\ p_wpos \in Nat /\ p_rpos <= p_wpos
        /\ wait_queue \in Seq(Reader)
        /\ pc \in [Reader -> {"user", "read", "dead"}]
        /\ runnable \in [Reader -> BOOLEAN]
        /\ todo \in [Reader -> Nat]
        /\ \A q \in Reader : ~runnable[q] => On(wait_queue, q)
        /\ wait_queue # <<>> => p_rpos = p_wpos
        /\ \A q \in Reader : On(wait_queue, q) => pc[q] = "read"
        /\ Once(wait_queue)
    BY ForgottenNotation DEF Inv, PosInv
  <1>2. CASE dev_stdin_write
    <2>1. /\ wait_queue' = <<>>
          /\ runnable' = [r \in Reader |-> runnable[r] \/ Waiting(r)]
          /\ p_rpos' = p_rpos /\ pc' = pc /\ todo' = todo
          /\ p_wpos' \in {p_wpos, p_wpos + 1}
      BY <1>2 DEF dev_stdin_write, wakeup_queue
    <2>2. \A r \in Reader : runnable'[r]
      BY <1>1, <2>1, ForgottenNotation
    <2>3. runnable' \in [Reader -> BOOLEAN]
      BY <2>1
    <2>4. wait_queue' \in Seq(Reader) /\ Once(wait_queue') /\ \A x : ~On(wait_queue', x)
      BY <2>1 DEF Once, On
    <2>5. NoReaderForgotten'
      BY <2>1, <2>2, <2>4, ForgottenNotationNext
    <2>6. p_wpos' \in Nat /\ p_rpos' <= p_wpos'
      BY <1>1, <2>1
    <2> QED  BY <1>1, <2>1, <2>3, <2>4, <2>5, <2>6 DEF Inv, PosInv
  <1>3. ASSUME NEW r \in Reader, NEW len \in Lengths, ReadCall(r, len)  PROVE Inv'
    <2>1. len \in Nat
      BY StdinAssumption
    <2>2. ReadLoop(r, len, wait_queue) /\ pc[r] = "user"
      BY <1>3 DEF ReadCall
    <2>3. ~On(wait_queue, r) /\ runnable[r]
      BY <1>1, <2>2
    <2> QED  BY <1>1, <2>1, <2>2, <2>3, LoopStep
  <1>4. ASSUME NEW r \in Reader, ReadResume(r)  PROVE Inv'
    <2>1. /\ LeftQueue(r) \in Seq(Reader)
          /\ Once(LeftQueue(r))
          /\ \A x : On(LeftQueue(r), x) <=> On(wait_queue, x) /\ x # r
          /\ LeftQueue(r) # <<>> => wait_queue # <<>>
      BY LeftQueueProperties
    <2>2. runnable[r] /\ todo[r] \in Nat
      BY <1>1, <1>4 DEF ReadResume
    <2>3. CASE wakeup_flags[r] = "KBD"
      <3>1. ReadLoop(r, todo[r], LeftQueue(r))
        BY <1>4, <2>3 DEF ReadResume
      <3> QED  BY <2>1, <2>2, <3>1, LoopStep
    <2>4. CASE wakeup_flags[r] # "KBD"
      <3>1. /\ wait_queue' = LeftQueue(r)
            /\ pc' = [pc EXCEPT ![r] = IF killed[r] THEN "dead" ELSE "user"]
            /\ UNCHANGED <<p_rpos, p_wpos, runnable, todo>>
        BY <1>4, <2>4 DEF ReadResume, Return, buffer
      <3>2. pc' \in [Reader -> {"user", "read", "dead"}]
        BY <1>1, <3>1
      <3>3. NoReaderForgotten'
        BY <1>1, <2>1, <2>2, <3>1, ForgottenNotationNext
      <3> QED  BY <1>1, <2>1, <3>1, <3>2, <3>3 DEF Inv, PosInv
    <2> QED  BY <2>3, <2>4
  <1>5. ASSUME NEW r \in Reader, do_kill(r)  PROVE Inv'
    <2>1. /\ UNCHANGED <<p_rpos, p_wpos, wait_queue, todo>>
          /\ runnable' = [runnable EXCEPT ![r] = TRUE]
          /\ pc' = pc
      BY <1>5 DEF do_kill, buffer
    <2>2. /\ runnable' \in [Reader -> BOOLEAN]
          /\ \A q \in Reader : runnable[q] => runnable'[q]
      BY <1>1, <2>1
    <2>3. NoReaderForgotten'
      BY <1>1, <2>1, <2>2, ForgottenNotationNext
    <2> QED  BY <1>1, <2>1, <2>2, <2>3 DEF Inv, PosInv
  <1>6. CASE UNCHANGED vars
    <2>1. UNCHANGED <<p_rpos, p_wpos, wait_queue, todo, runnable, pc>>
      BY <1>6 DEF vars, buffer
    <2>2. NoReaderForgotten'
      BY <1>1, <2>1, ForgottenNotationNext
    <2> QED  BY <1>1, <2>1, <2>2 DEF Inv, PosInv
  <1>7. ASSUME NEW r \in Reader, TrapExit(r)  PROVE Inv'
    <2>1. /\ UNCHANGED <<p_rpos, p_wpos, wait_queue, todo, runnable>>
          /\ pc' = [pc EXCEPT ![r] = "dead"] /\ pc[r] = "user"
      BY <1>7 DEF TrapExit, buffer
    <2>2. /\ pc' \in [Reader -> {"user", "read", "dead"}]
          /\ \A q \in Reader : pc[q] = "read" => pc'[q] = "read"
      BY <1>1, <2>1
    <2>3. NoReaderForgotten'
      BY <1>1, <2>1, <2>2, ForgottenNotationNext
    <2> QED  BY <1>1, <2>1, <2>2, <2>3 DEF Inv, PosInv
  <1> QED  BY <1>2, <1>3, <1>4, <1>5, <1>6, <1>7 DEF Next, Quiet

\* For any number of readers, any buffer and any input: a reader that sleeps is on
\* the wait queue, and nobody is on the queue while there is a character to read
\* (dev_stdin_read, dev_stdin_write, wakeup_queue).
THEOREM ReadersAreWoken == Spec => []NoReaderForgotten
  <1>1. Inv => NoReaderForgotten
    BY DEF Inv
  <1> QED  BY <1>1, StdinInit, StdinStep, PTL DEF Spec


-----------------------------------------------------------------------------
\* The ring buffer.  Besides UnreadInOrder: no character accepted or stored is
\* later than the last one typed, so a key that comes when the buffer is full is
\* new.
RingInv ==
    /\ TypeOK
    /\ \A i \in 1 .. Len(accepted) : accepted[i] <= typed
    /\ \A i \in 0 .. STDIN_BUFSIZE - 1 : stdin_buffer[i] <= typed
    /\ UnreadInOrder

\* While every key has been accepted, the i-th of them is i, and so is the i-th
\* character read; what is unread is where the read position will look for it.
OrderInv ==
    /\ Len(accepted) <= typed
    /\ Len(consumed) = p_rpos
    /\ Len(accepted) = typed =>
          /\ \A i \in p_rpos .. p_wpos - 1 : stdin_buffer[i % STDIN_BUFSIZE] = i + 1
          /\ \A i \in DOMAIN consumed : consumed[i] = i

BufferInv == RingInv /\ OrderInv

\* The device starts with an empty buffer.
LEMMA BufferInit == Init => BufferInv
  <1> SUFFICES ASSUME Init  PROVE BufferInv
    OBVIOUS
  <1>1. TypeOK
    BY StdinAssumption DEF Init, TypeOK
  <1>2. UnreadInOrder
    BY StdinAssumption DEF Init, UnreadInOrder
  <1>3. OrderInv
    BY DEF Init, OrderInv
  <1>4. /\ \A i \in 1 .. Len(accepted) : accepted[i] <= typed
        /\ \A i \in 0 .. STDIN_BUFSIZE - 1 : stdin_buffer[i] <= typed
    BY DEF Init
  <1> QED  BY <1>1, <1>2, <1>3, <1>4 DEF BufferInv, RingInv

\* A key: it goes into the next cell, or in a full buffer into the oldest one.
LEMMA WriteKeepsBuffer ==
    ASSUME Inv, Inv', BufferInv, dev_stdin_write
    PROVE  BufferInv'
  <1> DEFINE B == STDIN_BUFSIZE
             c == typed + 1
  <1>1. /\ B \in Nat \ {0}
        /\ p_rpos \in Nat /\ p_wpos \in Nat /\ p_rpos <= p_wpos /\ p_wpos - p_rpos <= B
        /\ stdin_buffer \in [0 .. B - 1 -> Nat]
        /\ typed \in Nat
        /\ accepted \in Seq(Nat) /\ consumed \in Seq(Nat)
        /\ Len(accepted) = p_wpos
    BY StdinAssumption DEF BufferInv, RingInv, TypeOK, UnreadInOrder
  <1>2. /\ typed' = c /\ c \in Nat /\ c > typed
        /\ stdin_buffer' = [stdin_buffer EXCEPT ![p_wpos % B] = c]
        /\ UNCHANGED <<p_rpos, consumed, killed>>
        /\ wakeup_flags' = [r \in Reader |-> IF Waiting(r) THEN "KBD" ELSE wakeup_flags[r]]
    BY <1>1 DEF dev_stdin_write, wakeup_queue
  <1>3. p_wpos % B \in 0 .. B - 1 /\ \A i \in Nat : i % B \in 0 .. B - 1
    BY <1>1, ModCell
  <1>4. /\ \A i \in 1 .. Len(accepted) : accepted[i] <= typed /\ accepted[i] \in Nat
        /\ \A i \in 0 .. B - 1 : stdin_buffer[i] <= typed
    BY <1>1, ElementOfSeq DEF BufferInv, RingInv
  <1>5. /\ stdin_buffer' \in [0 .. B - 1 -> Nat]
        /\ \A i \in 0 .. B - 1 : stdin_buffer'[i] <= typed'
    <2> HIDE DEF B
    <2>1. stdin_buffer' \in [0 .. B - 1 -> Nat]
      BY <1>1, <1>2, <1>3
    <2>2. \A i \in 0 .. B - 1 : stdin_buffer'[i] = c \/ stdin_buffer'[i] = stdin_buffer[i]
      BY <1>1, <1>2, <1>3
    <2>3. \A i \in 0 .. B - 1 : stdin_buffer[i] \in Nat
      BY <1>1
    <2> QED  BY <1>1, <1>2, <1>4, <2>1, <2>2, <2>3
  <1>6. wakeup_flags' \in [Reader -> {"INTERRUPTED", "KBD"}]
    BY <1>2 DEF BufferInv, RingInv, TypeOK
  <1>6a. /\ p_rpos' \in Nat /\ consumed' \in Seq(Nat)
         /\ killed' \in [Reader -> BOOLEAN]
    BY <1>1, <1>2 DEF BufferInv, RingInv, TypeOK
  <1>6b. /\ wait_queue' \in Seq(Reader)
         /\ pc' \in [Reader -> {"user", "read", "dead"}]
         /\ runnable' \in [Reader -> BOOLEAN]
         /\ todo' \in [Reader -> Nat]
    BY DEF Inv, PosInv
  \* The cells of the unread characters other than the one stored into keep theirs.
  <1>7. ASSUME NEW i \in p_rpos .. p_wpos - 1, p_wpos - i < B
        PROVE  stdin_buffer'[i % B] = stdin_buffer[i % B]
    <2>1. i \in Nat /\ i < p_wpos
      BY <1>1
    <2>2. i % B # p_wpos % B
      BY <1>1, <1>7, <2>1, ModDistinct
    <2> HIDE DEF B, c
    <2> QED  BY <1>1, <1>2, <1>3, <2>1, <2>2
  <1>8. CASE Room
    <2>1. /\ p_wpos' = p_wpos + 1 /\ accepted' = Append(accepted, c)
          /\ p_wpos - p_rpos < B
      BY <1>8 DEF dev_stdin_write, Room
    <2>2. /\ accepted' \in Seq(Nat) /\ Len(accepted') = p_wpos + 1
          /\ \A i \in 1 .. p_wpos : accepted'[i] = accepted[i]
          /\ accepted'[p_wpos + 1] = c
      BY <1>1, <1>2, <2>1, AppendProperties
    <2>3. TypeOK'
      <3>1. p_wpos' \in Nat /\ typed' \in Nat
        BY <1>1, <1>2, <2>1
      <3> QED  BY <1>5, <1>6, <1>6a, <1>6b, <2>2, <3>1 DEF TypeOK
    <2>4. \A i \in 1 .. Len(accepted') : accepted'[i] <= typed'
      <3>1. ASSUME NEW i \in 1 .. p_wpos + 1  PROVE accepted'[i] <= c
        <4>1. CASE i = p_wpos + 1
          BY <2>2, <4>1, <1>2
        <4>2. CASE i # p_wpos + 1
          <5>1. i \in 1 .. p_wpos
            BY <1>1, <4>2
          <5>2. accepted'[i] = accepted[i] /\ accepted[i] <= typed /\ accepted[i] \in Nat
            BY <1>1, <1>4, <2>2, <5>1
          <5> QED  BY <1>1, <1>2, <5>2
        <4> QED  BY <4>1, <4>2
      <3> QED  BY <1>2, <2>2, <3>1
    <2>5. \A i \in p_rpos .. p_wpos - 1 :
             stdin_buffer'[i % B] = stdin_buffer[i % B] /\ accepted'[i + 1] = accepted[i + 1]
      <3>1. \A i \in p_rpos .. p_wpos - 1 : p_wpos - i < B /\ i + 1 \in 1 .. p_wpos
        BY <1>1, <2>1
      <3> QED  BY <1>7, <2>2, <3>1
    <2>6. stdin_buffer'[p_wpos % B] = accepted'[p_wpos + 1]
      <3> HIDE DEF B, c
      <3> QED  BY <1>1, <1>2, <1>3, <2>2
    <2>7. \A i \in Nat : stdin_buffer[i % B] \in Nat /\ stdin_buffer[i % B] <= typed
      <3> HIDE DEF B
      <3> QED  BY <1>1, <1>3, <1>4
    <2>8. ASSUME NEW i \in p_rpos .. p_wpos'- 1
          PROVE  \/ stdin_buffer'[i % B] = accepted'[i + 1]
                 \/ /\ i = p_rpos
                    /\ stdin_buffer'[i % B] > accepted'[i + 1]
                    /\ stdin_buffer'[i % B] \notin Range(accepted')
      <3>1. CASE i = p_wpos
        BY <2>6, <3>1
      <3>2. CASE i # p_wpos
        <4>1. i \in p_rpos .. p_wpos - 1 /\ i \in Nat
          BY <1>1, <2>1, <3>2
        <4>2. \/ stdin_buffer[i % B] = accepted[i + 1]
              \/ /\ i = p_rpos
                 /\ stdin_buffer[i % B] > accepted[i + 1]
                 /\ stdin_buffer[i % B] \notin Range(accepted)
          BY <4>1 DEF BufferInv, RingInv, UnreadInOrder
        <4>3. ASSUME stdin_buffer[i % B] \notin Range(accepted)
              PROVE  stdin_buffer[i % B] \notin Range(accepted')
          <5>1. stdin_buffer[i % B] # c
            <6>1. stdin_buffer[i % B] \in Nat /\ stdin_buffer[i % B] <= typed
              BY <2>7, <4>1
            <6> QED  BY <1>1, <1>2, <6>1
          <5>2. \A k \in DOMAIN accepted' : k = p_wpos + 1 \/ k \in 1 .. p_wpos
            BY <1>1, <2>2, LenProperties
          <5>3. \A k \in 1 .. p_wpos : accepted'[k] # stdin_buffer[i % B]
            BY <1>1, <2>2, <4>3, LenProperties DEF Range
          <5> QED  BY <2>2, <5>1, <5>2, <5>3 DEF Range
        <4> QED  BY <2>5, <4>1, <4>2, <4>3
      <3> QED  BY <3>1, <3>2
    <2>9. UnreadInOrder'
      <3>1. p_rpos' <= p_wpos' /\ p_wpos' - p_rpos' <= B /\ Len(accepted') = p_wpos'
        BY <1>1, <1>2, <2>1, <2>2
      <3>2. p_rpos' = p_rpos
        BY <1>2
      <3> QED  BY <2>8, <3>1, <3>2 DEF UnreadInOrder
    <2>10. OrderInv'
      <3>1. Len(accepted) <= typed /\ Len(consumed) = p_rpos
        BY DEF BufferInv, OrderInv
      <3>2. Len(accepted') <= typed' /\ Len(consumed') = p_rpos'
        BY <1>1, <1>2, <2>1, <2>2, <3>1
      <3>3. ASSUME Len(accepted') = typed'
            PROVE  /\ \A i \in p_rpos .. p_wpos' - 1 : stdin_buffer'[i % B] = i + 1
                   /\ \A i \in DOMAIN consumed' : consumed'[i] = i
        <4>1. Len(accepted) = typed
          BY <1>1, <1>2, <2>2, <3>3
        <4>2. /\ \A i \in p_rpos .. p_wpos - 1 : stdin_buffer[i % B] = i + 1
              /\ \A i \in DOMAIN consumed : consumed[i] = i
          BY <4>1 DEF BufferInv, OrderInv
        <4>3. stdin_buffer'[p_wpos % B] = p_wpos + 1
          BY <1>1, <2>2, <2>6, <4>1
        <4>4. \A i \in p_rpos .. p_wpos' - 1 : i = p_wpos \/ i \in p_rpos .. p_wpos - 1
          BY <1>1, <2>1
        <4> QED  BY <1>2, <2>5, <4>2, <4>3, <4>4
      <3> QED  BY <1>2, <3>2, <3>3 DEF OrderInv
    <2> QED  BY <1>5, <2>3, <2>4, <2>9, <2>10 DEF BufferInv, RingInv
  <1>9. CASE ~Room
    <2>1. p_wpos' = p_wpos /\ accepted' = accepted /\ p_wpos = p_rpos + B
      BY <1>1, <1>9 DEF dev_stdin_write, Room
    <2>2. TypeOK'
      <3>1. p_wpos' \in Nat /\ typed' \in Nat /\ accepted' \in Seq(Nat)
        BY <1>1, <1>2, <2>1
      <3> QED  BY <1>5, <1>6, <1>6a, <1>6b, <3>1 DEF TypeOK
    <2>3. \A i \in 1 .. Len(accepted') : accepted'[i] <= typed'
      <3>1. accepted' = accepted /\ typed' \in Nat /\ typed' > typed /\ typed \in Nat
        BY <1>1, <1>2, <2>1
      <3> QED  BY <1>4, <3>1
    <2>4. stdin_buffer'[p_rpos % B] = c
      <3>1. p_wpos % B = p_rpos % B
        BY <1>1, <2>1, ModAround
      <3> HIDE DEF B, c
      <3> QED  BY <1>1, <1>2, <1>3, <3>1
    <2>5. ASSUME NEW i \in p_rpos .. p_wpos - 1
          PROVE  \/ stdin_buffer'[i % B] = accepted[i + 1]
                 \/ /\ i = p_rpos
                    /\ stdin_buffer'[i % B] > accepted[i + 1]
                    /\ stdin_buffer'[i % B] \notin Range(accepted)
      <3>1. i + 1 \in 1 .. p_wpos
        BY <1>1
      <3>2. CASE i = p_rpos
        <4>1. accepted[i + 1] \in Nat /\ accepted[i + 1] <= typed
          BY <1>1, <1>4, <3>1
        <4>2. c > accepted[i + 1]
          BY <1>1, <4>1
        <4>3. c \notin Range(accepted)
          BY <1>1, <1>4, LenProperties DEF Range
        <4> QED  BY <2>4, <3>2, <4>2, <4>3
      <3>3. CASE i # p_rpos
        <4>1. p_wpos - i < B
          BY <1>1, <2>1, <3>3
        <4>2. stdin_buffer[i % B] = accepted[i + 1]
          BY <3>3 DEF BufferInv, RingInv, UnreadInOrder
        <4> QED  BY <1>7, <4>1, <4>2
      <3> QED  BY <3>2, <3>3
    <2>6. UnreadInOrder'
      BY <1>1, <1>2, <2>1, <2>5 DEF UnreadInOrder
    <2>7. OrderInv'
      <3>1. Len(accepted) <= typed /\ Len(consumed) = p_rpos
        BY DEF BufferInv, OrderInv
      <3>2. /\ Len(accepted') <= typed' /\ Len(accepted') # typed'
            /\ Len(consumed') = p_rpos'
        BY <1>1, <1>2, <2>1, <3>1
      <3> QED  BY <3>2 DEF OrderInv
    <2> QED  BY <1>5, <2>2, <2>3, <2>6, <2>7 DEF BufferInv, RingInv
  <1> QED  BY <1>8, <1>9

\* A read: what it takes are the oldest unread characters, in their order.
LEMMA ReadKeepsBuffer ==
    ASSUME Inv, Inv', BufferInv, NEW r \in Reader, NEW n \in Nat, NEW rest,
           ReadLoop(r, n, rest)
    PROVE  BufferInv'
  <1> DEFINE B == STDIN_BUFSIZE
             unread == p_wpos - p_rpos
             taken  == IF unread < n THEN unread ELSE n
             got    == [i \in 1 .. taken |-> stdin_buffer[(p_rpos + i - 1) % B]]
  <1>1. /\ B \in Nat \ {0}
        /\ p_rpos \in Nat /\ p_wpos \in Nat /\ p_rpos <= p_wpos /\ p_wpos - p_rpos <= B
        /\ stdin_buffer \in [0 .. B - 1 -> Nat]
        /\ typed \in Nat
        /\ accepted \in Seq(Nat) /\ consumed \in Seq(Nat)
        /\ Len(accepted) = p_wpos
        /\ Len(consumed) = p_rpos
    BY StdinAssumption DEF BufferInv, RingInv, OrderInv, TypeOK, UnreadInOrder
  <1>2. /\ p_rpos' = p_rpos + taken
        /\ consumed' = consumed \o got
        /\ UNCHANGED <<stdin_buffer, p_wpos, killed, typed, accepted>>
    BY DEF ReadLoop, Taken
  <1>3. wakeup_flags' \in [Reader -> {"INTERRUPTED", "KBD"}]
    <2>1. wakeup_flags \in [Reader -> {"INTERRUPTED", "KBD"}]
      BY DEF BufferInv, RingInv, TypeOK
    <2>2. \/ wakeup_flags' = wakeup_flags
          \/ wakeup_flags' = [wakeup_flags EXCEPT ![r] = "INTERRUPTED"]
      BY DEF ReadLoop
    <2> QED  BY <2>1, <2>2
  <1>4. taken \in Nat /\ taken <= unread
    BY <1>1
  <1>5. /\ p_rpos' \in Nat /\ p_rpos <= p_rpos' /\ p_rpos' <= p_wpos
        /\ p_wpos - p_rpos' <= B
        /\ taken = 0 \/ p_rpos < p_rpos'
    BY <1>1, <1>2, <1>4
  <1>6. /\ got \in Seq(Nat) /\ Len(got) = taken
        /\ \A i \in 1 .. taken : got[i] = stdin_buffer[(p_rpos + i - 1) % B]
    <2> HIDE DEF taken, B
    <2>1. \A i \in 1 .. taken : p_rpos + i - 1 \in Nat
      BY <1>1, <1>4
    <2>2. \A i \in 1 .. taken : (p_rpos + i - 1) % B \in 0 .. B - 1
      BY <1>1, <2>1, ModCell
    <2>3. \A i \in 1 .. taken : stdin_buffer[(p_rpos + i - 1) % B] \in Nat
      BY <1>1, <2>2
    <2>4. got \in [1 .. taken -> Nat]
      BY <2>3
    <2> QED  BY <1>4, <2>4
  <1> HIDE DEF got
  <1>7. /\ consumed' \in Seq(Nat) /\ Len(consumed') = p_rpos + taken
        /\ \A i \in 1 .. p_rpos + taken :
              consumed'[i] = IF i <= p_rpos THEN consumed[i] ELSE got[i - p_rpos]
    <2> HIDE DEF taken, B
    <2>1. consumed \in Seq(Nat) /\ got \in Seq(Nat)
      BY <1>1, <1>6
    <2>2. /\ consumed \o got \in Seq(Nat)
          /\ Len(consumed \o got) = Len(consumed) + Len(got)
          /\ \A i \in 1 .. Len(consumed) + Len(got) :
                (consumed \o got)[i] =
                    IF i <= Len(consumed) THEN consumed[i] ELSE got[i - Len(consumed)]
      BY <2>1, ConcatProperties
    <2>3. Len(consumed) = p_rpos /\ Len(got) = taken /\ consumed' = consumed \o got
      BY <1>1, <1>2, <1>6
    <2> QED  BY <2>2, <2>3
  <1> HIDE DEF taken
  <1>8. TypeOK'
    BY <1>1, <1>2, <1>3, <1>5, <1>7 DEF TypeOK, Inv, PosInv, BufferInv, RingInv
  <1>9. UnreadInOrder'
    <2>1. ASSUME NEW i \in p_rpos' .. p_wpos - 1
          PROVE  \/ stdin_buffer[i % B] = accepted[i + 1]
                 \/ /\ i = p_rpos'
                    /\ stdin_buffer[i % B] > accepted[i + 1]
                    /\ stdin_buffer[i % B] \notin Range(accepted)
      <3>1. i \in p_rpos .. p_wpos - 1 /\ (i = p_rpos => i = p_rpos')
        BY <1>1, <1>5
      <3> QED  BY <3>1 DEF BufferInv, RingInv, UnreadInOrder
    <2> QED  BY <1>1, <1>2, <1>5, <2>1 DEF UnreadInOrder
  <1>10. OrderInv'
    <2>1. Len(accepted) <= typed
      BY DEF BufferInv, OrderInv
    <2>2. ASSUME Len(accepted) = typed
          PROVE  /\ \A i \in p_rpos' .. p_wpos - 1 : stdin_buffer[i % B] = i + 1
                 /\ \A i \in DOMAIN consumed' : consumed'[i] = i
      <3>1. /\ \A i \in p_rpos .. p_wpos - 1 : stdin_buffer[i % B] = i + 1
            /\ \A i \in DOMAIN consumed : consumed[i] = i
        BY <2>2 DEF BufferInv, OrderInv
      <3>2. \A i \in p_rpos' .. p_wpos - 1 : i \in p_rpos .. p_wpos - 1
        BY <1>1, <1>5
      <3>3. ASSUME NEW i \in 1 .. p_rpos + taken  PROVE consumed'[i] = i
        <4>1. CASE i <= p_rpos
          <5>1. i \in DOMAIN consumed
            BY <1>1, <1>4, <4>1, LenProperties
          <5> QED  BY <1>7, <3>1, <4>1, <5>1
        <4>2. CASE ~(i <= p_rpos)
          <5>1. i - p_rpos \in 1 .. taken /\ i - 1 \in p_rpos .. p_wpos - 1
            BY <1>1, <1>4, <4>2
          <5>2. consumed'[i] = stdin_buffer[(p_rpos + (i - p_rpos) - 1) % B]
            BY <1>6, <1>7, <4>2, <5>1
          <5>3. p_rpos + (i - p_rpos) - 1 = i - 1
            BY <1>1, <1>4
          <5>4. stdin_buffer[(i - 1) % B] = (i - 1) + 1
            BY <3>1, <5>1
          <5>5. (i - 1) + 1 = i
            BY <1>1, <1>4
          <5> QED  BY <5>2, <5>3, <5>4, <5>5
        <4> QED  BY <4>1, <4>2
      <3>4. DOMAIN consumed' = 1 .. p_rpos + taken
        BY <1>7, LenProperties
      <3> QED  BY <3>1, <3>2, <3>3, <3>4
    <2> QED  BY <1>2, <1>7, <2>1, <2>2 DEF OrderInv
  <1> QED  BY <1>2, <1>8, <1>9, <1>10 DEF BufferInv, RingInv

\* Every step keeps the buffer and what has been read in order.
LEMMA BufferStep == Inv /\ Inv' /\ BufferInv /\ [Next]_vars => BufferInv'
  <1> SUFFICES ASSUME Inv, Inv', BufferInv, [Next]_vars  PROVE BufferInv'
    OBVIOUS
  <1>1. ASSUME UNCHANGED <<buffer, typed, accepted, consumed>>,
               wakeup_flags' \in [Reader -> {"INTERRUPTED", "KBD"}],
               killed' \in [Reader -> BOOLEAN]
        PROVE  BufferInv'
    <2>1. TypeOK'
      BY <1>1 DEF TypeOK, buffer, Inv, PosInv, BufferInv, RingInv
    <2>2. UnreadInOrder'
      BY <1>1 DEF UnreadInOrder, buffer, BufferInv, RingInv
    <2>3. OrderInv'
      BY <1>1 DEF OrderInv, buffer, BufferInv
    <2> QED  BY <1>1, <2>1, <2>2, <2>3 DEF BufferInv, RingInv, buffer
  <1>2. /\ wakeup_flags \in [Reader -> {"INTERRUPTED", "KBD"}]
        /\ killed \in [Reader -> BOOLEAN]
        /\ todo \in [Reader -> Nat]
    BY DEF BufferInv, RingInv, TypeOK
  <1>3. CASE dev_stdin_write
    BY <1>3, WriteKeepsBuffer
  <1>4. ASSUME NEW r \in Reader, NEW len \in Lengths, ReadCall(r, len)  PROVE BufferInv'
    <2>1. len \in Nat
      BY StdinAssumption
    <2> QED  BY <1>4, <2>1, ReadKeepsBuffer DEF ReadCall
  <1>5. ASSUME NEW r \in Reader, ReadResume(r)  PROVE BufferInv'
    <2>1. todo[r] \in Nat
      BY <1>2
    <2>2. CASE wakeup_flags[r] = "KBD"
      BY <1>5, <2>1, <2>2, ReadKeepsBuffer DEF ReadResume
    <2>3. CASE wakeup_flags[r] # "KBD"
      <3>1. UNCHANGED <<buffer, wakeup_flags, killed, typed, accepted, consumed>>
        BY <1>5, <2>3 DEF ReadResume
      <3> QED  BY <1>1, <1>2, <3>1
    <2> QED  BY <2>2, <2>3
  <1>6. ASSUME NEW r \in Reader, do_kill(r)  PROVE BufferInv'
    <2>1. /\ UNCHANGED <<buffer, wakeup_flags, typed, accepted, consumed>>
          /\ killed' = [killed EXCEPT ![r] = TRUE]
      BY <1>6 DEF do_kill
    <2>2. killed' \in [Reader -> BOOLEAN]
      BY <1>2, <2>1
    <2> QED  BY <1>1, <1>2, <2>1, <2>2
  <1>7. CASE UNCHANGED vars
    BY <1>1, <1>2, <1>7 DEF vars
  <1>8. ASSUME NEW r \in Reader, TrapExit(r)  PROVE BufferInv'
    <2>1. UNCHANGED <<buffer, wakeup_flags, killed, typed, accepted, consumed>>
      BY <1>8 DEF TrapExit
    <2> QED  BY <1>1, <1>2, <2>1
  <1> QED  BY <1>3, <1>4, <1>5, <1>6, <1>7, <1>8 DEF Next, Quiet

\* The invariant of the buffer holds throughout.
LEMMA BufferAlways == Spec => [](Inv /\ BufferInv)
  <1>1. Init => Inv /\ BufferInv
    BY StdinInit, BufferInit
  <1>2. Inv /\ BufferInv /\ [Next]_vars => (Inv /\ BufferInv)'
    BY StdinStep, BufferStep
  <1> QED  BY <1>1, <1>2, PTL DEF Spec

\* Types of the keyboard device, for any number of readers and any input.
THEOREM StdinTypes == Spec => []TypeOK
  <1>1. Inv /\ BufferInv => TypeOK
    BY DEF BufferInv, RingInv
  <1> QED  BY <1>1, BufferAlways, PTL

\* For every size of the buffer and however often the positions wrap around: the
\* unread characters are the accepted ones in the order typed, and only the oldest
\* may have been replaced, by a later key (dev_stdin_write, dev_stdin_read).
THEOREM RingKeepsOrder == Spec => []UnreadInOrder
  <1>1. Inv /\ BufferInv => UnreadInOrder
    BY DEF BufferInv, RingInv
  <1> QED  BY <1>1, BufferAlways, PTL

\* Until a key is dropped the readers together get every character once, in the
\* order typed, however their calls interleave (dev_stdin_read).
THEOREM ReadersGetAll == Spec => []ReadInOrder
  <1>1. Inv /\ BufferInv => ReadInOrder
    BY DEF BufferInv, OrderInv, ReadInOrder
  <1> QED  BY <1>1, BufferAlways, PTL


-----------------------------------------------------------------------------
(* get_pid.                                                                *)

\* The initial state satisfies the invariant.
LEMMA PidInvInit == PidInit => PidInv
  BY PidAssumption
  DEF PidInit, PidInv, PidTypeOK, UniquePids, WindowFree, ScannedFree

\* A new pid that no process on the list has keeps the pids distinct.
LEMMA ReturnKeepsUnique ==
    ASSUME PidInv, NEW pid \in 1 .. MAX_PID - 1,
           \A i \in DOMAIN proc_list : proc_list[i] # pid,
           ReturnPid(pid)
    PROVE  /\ UniquePids'
           /\ proc_list' \in Seq(Nat)
           /\ \A i \in DOMAIN proc_list' :
                 \/ proc_list'[i] = pid
                 \/ \E j \in DOMAIN proc_list : proc_list'[i] = proc_list[j]
  <1>1. /\ proc_list \in Seq(Nat)
        /\ pid \in Nat
        /\ MAX_PID \in Nat
    BY PidAssumption DEF PidInv, PidTypeOK
  <1>2. /\ proc_list' \in Seq(Nat)
        /\ Len(proc_list') = Len(proc_list) + 1
        /\ \A i \in DOMAIN proc_list' :
              proc_list'[i] = IF i = 1 THEN pid ELSE proc_list[i - 1]
    BY <1>1 DEF ReturnPid
  <1>3. /\ DOMAIN proc_list = 1 .. Len(proc_list)
        /\ DOMAIN proc_list' = 1 .. Len(proc_list) + 1
        /\ Len(proc_list) \in Nat
    BY <1>1, <1>2, LenProperties
  <1>4. \A i \in DOMAIN proc_list' : i = 1 \/ i - 1 \in DOMAIN proc_list
    BY <1>3
  <1>5. ASSUME NEW i \in DOMAIN proc_list', NEW j \in DOMAIN proc_list',
               proc_list'[i] = proc_list'[j]
        PROVE  i = j
    <2>1. CASE i = 1 /\ j = 1
      BY <2>1
    <2>2. CASE i = 1 /\ j # 1
      BY <1>2, <1>4, <1>5, <2>2
    <2>3. CASE i # 1 /\ j = 1
      BY <1>2, <1>4, <1>5, <2>3
    <2>4. CASE i # 1 /\ j # 1
      <3>1. i - 1 \in DOMAIN proc_list /\ j - 1 \in DOMAIN proc_list
        BY <1>4, <2>4
      <3>2. proc_list[i - 1] = proc_list[j - 1]
        BY <1>2, <1>5, <2>4
      <3>3. i - 1 = j - 1
        BY <3>1, <3>2 DEF PidInv, UniquePids
      <3> QED  BY <1>3, <3>3
    <2> QED  BY <2>1, <2>2, <2>3, <2>4
  <1>6. \A i \in DOMAIN proc_list' : proc_list'[i] \in 1 .. MAX_PID - 1
    BY <1>2, <1>4 DEF PidInv, UniquePids
  <1>7. \A i \in DOMAIN proc_list' :
           \/ proc_list'[i] = pid
           \/ \E j \in DOMAIN proc_list : proc_list'[i] = proc_list[j]
    BY <1>2, <1>4
  <1> QED  BY <1>2, <1>5, <1>6, <1>7 DEF UniquePids

\* Every step of get_pid, do_fork and do_wait preserves the invariant.
LEMMA PidStep == PidInv /\ [PidNext]_pid_vars => PidInv'
  <1> SUFFICES ASSUME PidInv, [PidNext]_pid_vars  PROVE PidInv'
    OBVIOUS
  <1> USE PidAssumption
  <1>1. CASE TakeFromWindow
    <2>1. /\ last_pid + 1 \in 1 .. MAX_PID - 1
          /\ \A i \in DOMAIN proc_list : proc_list[i] # last_pid + 1
      BY <1>1 DEF TakeFromWindow, MayFork, PidInv, PidTypeOK, WindowFree
    <2>2. ReturnPid(last_pid + 1)
      BY <1>1 DEF TakeFromWindow
    <2>3. /\ UniquePids'
          /\ proc_list' \in Seq(Nat)
          /\ \A i \in DOMAIN proc_list' :
                \/ proc_list'[i] = last_pid + 1
                \/ \E j \in DOMAIN proc_list : proc_list'[i] = proc_list[j]
      BY <2>1, <2>2, ReturnKeepsUnique
    <2>4. PidTypeOK' /\ cursor' = 0 /\ cursor' <= Len(proc_list') + 1
      BY <1>1, <2>3 DEF TakeFromWindow, ReturnPid, PidInv, PidTypeOK
    <2>5. WindowFree'
      <3>1. /\ last_pid' = last_pid + 1 /\ next_safe' = next_safe
            /\ last_pid \in Int /\ next_safe \in Int
            /\ \A i \in DOMAIN proc_list :
                  ~(last_pid < proc_list[i] /\ proc_list[i] < next_safe)
        BY <1>1 DEF TakeFromWindow, MayFork, PidInv, PidTypeOK, WindowFree
      <3>2. \A i \in DOMAIN proc_list : proc_list[i] \in Int
        BY DEF PidInv, PidTypeOK
      <3>3. ASSUME NEW i \in DOMAIN proc_list'
            PROVE  ~(last_pid' < proc_list'[i] /\ proc_list'[i] < next_safe')
        <4>1. CASE proc_list'[i] = last_pid + 1
          BY <3>1, <4>1
        <4>2. CASE \E j \in DOMAIN proc_list : proc_list'[i] = proc_list[j]
          BY <3>1, <3>2, <4>2
        <4> QED  BY <2>3, <4>1, <4>2
      <3> QED  BY <3>3 DEF WindowFree
    <2>6. ScannedFree'
      BY <2>3, <2>4 DEF ScannedFree
    <2> QED  BY <2>3, <2>4, <2>5, <2>6 DEF PidInv
  <1>2. CASE StartScan
    BY <1>2 DEF StartScan, MayFork, PidInv, PidTypeOK, UniquePids, WindowFree, ScannedFree
  <1>3. CASE SkipUsed
    <2>1. /\ proc_list \in Seq(Nat) /\ DOMAIN proc_list = 1 .. Len(proc_list)
          /\ cursor \in 1 .. Len(proc_list)
          /\ last_pid \in 1 .. MAX_PID - 1 /\ next_safe \in 1 .. MAX_PID
          /\ Len(proc_list) \in Nat
      BY <1>3, LenProperties DEF SkipUsed, Scanning, PidInv, PidTypeOK
    <2>2. CASE last_pid + 1 >= next_safe
      BY <1>3, <2>1, <2>2 DEF SkipUsed, PidInv, PidTypeOK, UniquePids, WindowFree, ScannedFree
    <2>3. CASE ~(last_pid + 1 >= next_safe)
      <3>1. /\ proc_list' = proc_list /\ next_safe' = next_safe
            /\ last_pid' = last_pid + 1 /\ cursor' = cursor + 1
            /\ proc_list[cursor] = last_pid
            /\ last_pid + 1 < next_safe
        BY <1>3, <2>1, <2>3 DEF SkipUsed
      <3>2. ASSUME NEW i \in DOMAIN proc_list, i < cursor + 1
            PROVE  /\ proc_list[i] # last_pid + 1
                   /\ ~(last_pid + 1 < proc_list[i] /\ proc_list[i] < next_safe)
        <4>1. i = cursor \/ i < cursor
          BY <2>1, <3>2
        <4>2. proc_list[i] \in Nat
          BY <2>1, ElementOfSeq
        <4>3. CASE i = cursor
          BY <2>1, <3>1, <4>3
        <4>4. CASE i < cursor
          BY <2>1, <3>1, <4>2, <4>4 DEF PidInv, ScannedFree
        <4> QED  BY <4>1, <4>3, <4>4
      <3>3. ScannedFree'
        BY <3>1, <3>2 DEF ScannedFree
      <3>4. PidTypeOK' /\ cursor' # 0 /\ last_pid' < MAX_PID /\ cursor' <= Len(proc_list') + 1
        BY <2>1, <3>1 DEF PidTypeOK
      <3> QED  BY <3>1, <3>3, <3>4 DEF PidInv, UniquePids, WindowFree
    <2> QED  BY <2>2, <2>3
  <1>4. CASE Narrow
    BY <1>4 DEF Narrow, Scanning, PidInv, PidTypeOK, UniquePids, WindowFree, ScannedFree
  <1>5. CASE EndScan
    <2>1. /\ last_pid \in 1 .. MAX_PID - 1
          /\ \A i \in DOMAIN proc_list : proc_list[i] # last_pid
      BY <1>5 DEF EndScan, PidInv, PidTypeOK, ScannedFree
    <2>2. ReturnPid(last_pid)
      BY <1>5 DEF EndScan
    <2>3. /\ UniquePids'
          /\ proc_list' \in Seq(Nat)
          /\ \A i \in DOMAIN proc_list' :
                \/ proc_list'[i] = last_pid
                \/ \E j \in DOMAIN proc_list : proc_list'[i] = proc_list[j]
      BY <2>1, <2>2, ReturnKeepsUnique
    <2>4. PidTypeOK' /\ cursor' = 0 /\ cursor' <= Len(proc_list') + 1
      BY <1>5, <2>3 DEF EndScan, ReturnPid, PidInv, PidTypeOK
    <2>5. WindowFree'
      <3>1. /\ last_pid' = last_pid /\ next_safe' = next_safe
            /\ last_pid \in Int
            /\ \A i \in DOMAIN proc_list :
                  ~(last_pid < proc_list[i] /\ proc_list[i] < next_safe)
        BY <1>5 DEF EndScan, PidInv, PidTypeOK, ScannedFree
      <3>2. ASSUME NEW i \in DOMAIN proc_list'
            PROVE  ~(last_pid' < proc_list'[i] /\ proc_list'[i] < next_safe')
        <4>1. CASE proc_list'[i] = last_pid
          BY <3>1, <4>1
        <4>2. CASE \E j \in DOMAIN proc_list : proc_list'[i] = proc_list[j]
          BY <3>1, <4>2
        <4> QED  BY <2>3, <4>1, <4>2
      <3> QED  BY <3>2 DEF WindowFree
    <2>6. ScannedFree'
      BY <2>3, <2>4 DEF ScannedFree
    <2> QED  BY <2>3, <2>4, <2>5, <2>6 DEF PidInv
  <1>6. ASSUME NEW i \in DOMAIN proc_list, Reap(i)  PROVE PidInv'
    <2>1. /\ proc_list \in Seq(Nat)
          /\ i \in 1 .. Len(proc_list)
      BY DEF PidInv, PidTypeOK
    <2>2. /\ proc_list' \in Seq(Nat)
          /\ Len(proc_list') = Len(proc_list) - 1
          /\ \A j \in 1 .. Len(proc_list) - 1 :
                proc_list'[j] = IF j < i THEN proc_list[j] ELSE proc_list[j + 1]
      BY <2>1, <1>6, RemoveAtProperties DEF Reap
    <2>3. /\ DOMAIN proc_list = 1 .. Len(proc_list)
          /\ DOMAIN proc_list' = 1 .. Len(proc_list) - 1
          /\ Len(proc_list) \in Nat
      BY <2>1, <2>2, LenProperties
    <2> DEFINE old(j) == IF j < i THEN j ELSE j + 1
    <2>4. \A j \in DOMAIN proc_list' :
             old(j) \in DOMAIN proc_list /\ proc_list'[j] = proc_list[old(j)]
      <3>1. ASSUME NEW j \in DOMAIN proc_list'
            PROVE  old(j) \in DOMAIN proc_list /\ proc_list'[j] = proc_list[old(j)]
        <4>1. CASE j < i
          <5>1. j \in 1 .. Len(proc_list) - 1 /\ j \in DOMAIN proc_list
            BY <2>3
          <5>2. old(j) = j
            BY <4>1
          <5>3. proc_list'[j] = proc_list[j]
            BY <2>2, <4>1, <5>1
          <5> QED  BY <5>1, <5>2, <5>3
        <4>2. CASE ~(j < i)
          <5>1. j \in 1 .. Len(proc_list) - 1 /\ j + 1 \in DOMAIN proc_list
            BY <2>3
          <5>2. old(j) = j + 1
            BY <4>2
          <5>3. proc_list'[j] = proc_list[j + 1]
            BY <2>2, <4>2, <5>1
          <5> QED  BY <5>1, <5>2, <5>3
        <4> QED  BY <4>1, <4>2
      <3> QED  BY <3>1
    <2>5. \A j, k \in DOMAIN proc_list' : old(j) = old(k) => j = k
      <3>1. i \in Int /\ \A j \in DOMAIN proc_list' : j \in Int
        BY <2>1, <2>3
      <3>2. \A j, k \in Int : old(j) = old(k) => j = k
        BY <3>1
      <3> QED  BY <3>1, <3>2
    <2> HIDE DEF old
    <2>6. /\ cursor = 0 /\ cursor' = 0
          /\ last_pid' = last_pid /\ next_safe' = next_safe
      BY <1>6 DEF Reap
    <2>7. UniquePids'
      BY <2>4, <2>5 DEF PidInv, UniquePids
    <2>8. WindowFree'
      BY <2>4, <2>6 DEF PidInv, WindowFree
    <2>9. ScannedFree'
      BY <2>3, <2>6 DEF ScannedFree
    <2>10. PidTypeOK' /\ cursor' <= Len(proc_list') + 1
      BY <2>2, <2>3, <2>6 DEF PidInv, PidTypeOK
    <2> QED  BY <2>6, <2>7, <2>8, <2>9, <2>10 DEF PidInv
  <1>7. CASE UNCHANGED pid_vars
    BY <1>7 DEF pid_vars, PidInv, PidTypeOK, UniquePids, WindowFree, ScannedFree
  <1> QED
    BY <1>1, <1>2, <1>3, <1>4, <1>5, <1>6, <1>7 DEF PidNext

\* The whole invariant of get_pid for every process table size: between calls no
\* live process has a pid inside the window last_pid .. next_safe, and during a scan
\* the entries passed are outside the window it has narrowed so far.
THEOREM PidInvariant == PidSpec => []PidInv
  BY PidInvInit, PidStep, PTL DEF PidSpec

\* get_pid keeps its promise for every process table size: live processes
\* have different pids, all of them valid, and the window is free of pids in use.
THEOREM PidsAreUnique == PidSpec => [](UniquePids /\ WindowFree)
  <1>1. PidInv => UniquePids /\ WindowFree
    BY DEF PidInv
  <1> QED  BY PidInvariant, <1>1, PTL

=============================================================================
