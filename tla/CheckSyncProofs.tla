--------------------------- MODULE CheckSyncProofs --------------------------
(***************************************************************************)
(* check_sync for any number of philosophers and of meals: both halves     *)
(* keep their invariants and implement Dining.  For each half, an          *)
(* invariant that every step keeps, and that every step is a step of       *)
(* Dining or leaves it alone; then the two together.                       *)
(***************************************************************************)
EXTENDS CheckSync, SeqLemmas, FiniteSetTheorems, TLAPS

-----------------------------------------------------------------------------
(* The philosophers with semaphores.                                       *)

\* What the table and the semaphore of philosopher i say at each place: only i
\* sleeps on s[i], and it does so only behind its down and before the grant.
SemaSeat(i) ==
        /\ s[i].wait_queue \in {<<>>, <<i>>}
        /\ s[i].wait_queue = <<i>> =>
              pc_sema[i] = "eat" /\ state_sema[i] = "HUNGRY" /\ s[i].value = 0
        /\ s[i].wait_queue = <<>> =>
              \/ /\ pc_sema[i] \in {"think", "take", "testleft", "testright", "putdone", "quit"}
                 /\ state_sema[i] = "THINKING" /\ s[i].value = 0
              \/ /\ pc_sema[i] \in {"taken", "wait"}
                 /\ \/ state_sema[i] = "HUNGRY" /\ s[i].value = 0
                    \/ state_sema[i] = "EATING" /\ s[i].value = 1
              \/ /\ pc_sema[i] \in {"eat", "put"}
                 /\ state_sema[i] = "EATING" /\ s[i].value = 0
        /\ pc_sema[i] # "quit" => iter_sema[i] < TIMES

\* The table never has two neighbours EATING.
SemaNeighbours ==
    \A i \in Sema!Phil : state_sema[i] = "EATING" =>
        state_sema[Sema!LEFT(i)] # "EATING" /\ state_sema[Sema!RIGHT(i)] # "EATING"

SemaInv == Sema!TypeOK /\ SemaNeighbours /\ \A i \in Sema!Phil : SemaSeat(i)

\* The table is a ring.
LEMMA SemaRing ==
    ASSUME NEW i \in Sema!Phil
    PROVE  /\ Sema!LEFT(i) \in Sema!Phil /\ Sema!RIGHT(i) \in Sema!Phil
           /\ Sema!LEFT(i) # i /\ Sema!RIGHT(i) # i
           /\ Sema!LEFT(Sema!RIGHT(i)) = i /\ Sema!RIGHT(Sema!LEFT(i)) = i
  BY PhilAssumption, RingNeighbours DEF Sema!Phil, Sema!LEFT, Sema!RIGHT

\* up and down of sem.c, by cases.
LEMMA UpDown ==
    ASSUME NEW x \in Sema!Semaphores(Sema!Phil), NEW p \in Sema!Phil
    PROVE  /\ x.value \in Nat /\ x.wait_queue \in Seq(Sema!Phil)
           /\ Sema!up(x) \in Sema!Semaphores(Sema!Phil) /\ Sema!down(x, p) \in Sema!Semaphores(Sema!Phil)
           /\ x.wait_queue = <<>> => Sema!up(x).value = x.value + 1 /\ Sema!up(x).wait_queue = <<>>
           /\ x.wait_queue = <<p>> => Sema!up(x).value = x.value /\ Sema!up(x).wait_queue = <<>>
           /\ x.value > 0 => /\ Sema!down(x, p).value = x.value - 1
                             /\ Sema!down(x, p).wait_queue = x.wait_queue
           /\ x.value = 0 /\ x.wait_queue = <<>> =>
                 Sema!down(x, p).value = 0 /\ Sema!down(x, p).wait_queue = <<p>>
  <1>1. x.value \in Nat /\ x.wait_queue \in Seq(Sema!Phil)
    BY DEF Sema!Semaphores
  <1>2. Sema!up(x) \in Sema!Semaphores(Sema!Phil)
    <2>1. x.wait_queue # <<>> => Tail(x.wait_queue) \in Seq(Sema!Phil)
      BY <1>1, HeadTailProperties
    <2>2. CASE x.wait_queue = <<>>
      BY <1>1, <2>2 DEF Sema!up, Sema!Semaphores
    <2>3. CASE x.wait_queue # <<>>
      <3> DEFINE t == Tail(x.wait_queue)
      <3>1. t \in Seq(Sema!Phil) /\ Sema!up(x) = [x EXCEPT !.wait_queue = t]
        BY <2>1, <2>3 DEF Sema!up
      <3> HIDE DEF t
      <3> QED  BY <3>1 DEF Sema!Semaphores
    <2> QED  BY <2>2, <2>3
  <1>3. Sema!down(x, p) \in Sema!Semaphores(Sema!Phil)
    <2>1. Append(x.wait_queue, p) \in Seq(Sema!Phil)
      BY <1>1, AppendProperties
    <2>2. x.value > 0 => x.value - 1 \in Nat
      BY <1>1
    <2> QED  BY <1>1, <2>1, <2>2 DEF Sema!down, Sema!Semaphores
  <1>4. x.wait_queue = <<>> => Sema!up(x).value = x.value + 1 /\ Sema!up(x).wait_queue = <<>>
    BY DEF Sema!up, Sema!Semaphores
  <1>5. x.wait_queue = <<p>> => Sema!up(x).value = x.value /\ Sema!up(x).wait_queue = <<>>
    <2>1. <<p>> # <<>> /\ Tail(<<p>>) = <<>>
      OBVIOUS
    <2> QED  BY <2>1 DEF Sema!up, Sema!Semaphores
  <1>6. x.value > 0 => /\ Sema!down(x, p).value = x.value - 1
                       /\ Sema!down(x, p).wait_queue = x.wait_queue
    BY DEF Sema!down, Sema!Semaphores
  <1>7. x.value = 0 /\ x.wait_queue = <<>> =>
           Sema!down(x, p).value = 0 /\ Sema!down(x, p).wait_queue = <<p>>
    <2>1. Append(<<>>, p) = <<p>>
      OBVIOUS
    <2> QED  BY <2>1 DEF Sema!down, Sema!Semaphores
  <1> QED  BY <1>1, <1>2, <1>3, <1>4, <1>5, <1>6, <1>7

\* Nobody has sat down when check_sync starts.
LEMMA SemaInit == Sema!Init => SemaInv
  <1> SUFFICES ASSUME Sema!Init  PROVE SemaInv
    OBVIOUS
  <1>1. Sema!TypeOK
    <2>1. \A v \in Nat : Sema!sem_init(v) \in Sema!Semaphores(Sema!Phil)
      BY DEF Sema!Semaphores, Sema!sem_init
    <2>2. /\ mutex \in Sema!Semaphores(Sema!Phil)
          /\ s \in [Sema!Phil -> Sema!Semaphores(Sema!Phil)]
      BY <2>1 DEF Sema!Init
    <2>3. iter_sema \in [Sema!Phil -> 0 .. TIMES]
      BY PhilAssumption DEF Sema!Init
    <2>4. /\ state_sema \in [Sema!Phil -> {"THINKING", "HUNGRY", "EATING"}]
          /\ pc_sema \in [Sema!Phil -> Sema!Labels]
      BY DEF Sema!Init, Sema!Labels
    <2> QED  BY <2>2, <2>3, <2>4 DEF Sema!TypeOK
  <1>2. SemaNeighbours
    BY DEF Sema!Init, SemaNeighbours
  <1>3. ASSUME NEW i \in Sema!Phil  PROVE SemaSeat(i)
    <2>1. s[i].wait_queue = <<>> /\ s[i].value = 0
      BY DEF Sema!Init, Sema!sem_init
    <2>2. /\ pc_sema[i] = "think" /\ state_sema[i] = "THINKING"
          /\ iter_sema[i] < TIMES /\ <<i>> # <<>>
      BY PhilAssumption DEF Sema!Init
    <2> QED  BY <2>1, <2>2 DEF SemaSeat
  <1> QED  BY <1>1, <1>2, <1>3 DEF SemaInv

\* The grant of phi_test_sema: the philosopher tested was hungry and neither
\* neighbour eats; it is woken if it sleeps on its semaphore, and otherwise finds a
\* unit there.
LEMMA TestKeepsTable ==
    ASSUME SemaInv, NEW st \in [Sema!Phil -> {"THINKING", "HUNGRY", "EATING"}],
           NEW j \in Sema!Phil, Sema!phi_test_sema(st, j),
           \A k \in Sema!Phil : st[k] = "EATING" =>
               st[Sema!LEFT(k)] # "EATING" /\ st[Sema!RIGHT(k)] # "EATING"
    PROVE  /\ state_sema' \in [Sema!Phil -> {"THINKING", "HUNGRY", "EATING"}]
           /\ s' \in [Sema!Phil -> Sema!Semaphores(Sema!Phil)]
           /\ SemaNeighbours'
           /\ \A k \in Sema!Phil : k # j => state_sema'[k] = st[k] /\ s'[k] = s[k]
           /\ \/ state_sema'[j] = st[j] /\ s'[j] = s[j]
              \/ /\ st[j] = "HUNGRY" /\ state_sema'[j] = "EATING"
                 /\ st[Sema!LEFT(j)] # "EATING" /\ st[Sema!RIGHT(j)] # "EATING"
                 /\ s'[j].wait_queue = <<>>
                 /\ s'[j].value = IF s[j].wait_queue = <<>> THEN s[j].value + 1
                                  ELSE s[j].value
  <1>1. /\ s \in [Sema!Phil -> Sema!Semaphores(Sema!Phil)]
        /\ s[j] \in Sema!Semaphores(Sema!Phil)
        /\ s[j].wait_queue \in {<<>>, <<j>>}
    BY DEF SemaInv, Sema!TypeOK, SemaSeat
  <1>2. CASE Sema!MayEat(st, j)
    <2>1. /\ state_sema' = [st EXCEPT ![j] = "EATING"]
          /\ s' = [s EXCEPT ![j] = Sema!up(s[j])]
      BY <1>2 DEF Sema!phi_test_sema
    <2>2. st[j] = "HUNGRY" /\ st[Sema!LEFT(j)] # "EATING" /\ st[Sema!RIGHT(j)] # "EATING"
      BY <1>2 DEF Sema!MayEat
    <2>3. /\ Sema!up(s[j]) \in Sema!Semaphores(Sema!Phil)
          /\ Sema!up(s[j]).wait_queue = <<>>
          /\ Sema!up(s[j]).value = IF s[j].wait_queue = <<>> THEN s[j].value + 1 ELSE s[j].value
      BY <1>1, UpDown
    <2>4. /\ state_sema' \in [Sema!Phil -> {"THINKING", "HUNGRY", "EATING"}]
          /\ s' \in [Sema!Phil -> Sema!Semaphores(Sema!Phil)]
          /\ s'[j] = Sema!up(s[j]) /\ state_sema'[j] = "EATING"
          /\ \A k \in Sema!Phil : k # j => state_sema'[k] = st[k] /\ s'[k] = s[k]
      BY <1>1, <2>1, <2>3
    <2>5. ASSUME NEW k \in Sema!Phil, state_sema'[k] = "EATING"
          PROVE  state_sema'[Sema!LEFT(k)] # "EATING" /\ state_sema'[Sema!RIGHT(k)] # "EATING"
      <3>1. CASE k = j
        BY <2>2, <2>4, <3>1, SemaRing
      <3>2. CASE k # j
        <4>1. Sema!LEFT(k) \in Sema!Phil /\ Sema!RIGHT(k) \in Sema!Phil
          BY SemaRing
        <4>2. Sema!LEFT(k) # j /\ Sema!RIGHT(k) # j
          BY <2>2, <2>4, <2>5, <3>2, SemaRing
        <4> QED  BY <2>4, <2>5, <3>2, <4>1, <4>2
      <3> QED  BY <3>1, <3>2
    <2> QED  BY <2>2, <2>3, <2>4, <2>5 DEF SemaNeighbours
  <1>3. CASE ~Sema!MayEat(st, j)
    <2>1. state_sema' = st /\ s' = s
      BY <1>3 DEF Sema!phi_test_sema
    <2> QED  BY <1>1, <2>1 DEF SemaNeighbours
  <1> QED  BY <1>2, <1>3

\* What a philosopher does, read off its place and its semaphore.
Does(i) ==
    CASE pc_sema[i] \in {"eat", "put"} /\ s[i].wait_queue = <<>> -> "EATING"
      [] pc_sema[i] \in {"think", "testleft", "testright", "putdone", "quit"} -> "THINKING"
      [] OTHER -> "HUNGRY"

\* What a philosopher does, read off the invariant.
LEMMA DoingIsDoes == SemaInv => \A i \in Sema!Phil : Sema!Doing(i) = Does(i)
  <1> SUFFICES ASSUME SemaInv, NEW i \in Sema!Phil  PROVE Sema!Doing(i) = Does(i)
    OBVIOUS
  <1>1. s[i].wait_queue \in {<<>>, <<i>>}
    BY DEF SemaInv, SemaSeat
  <1>2. Sema!SleepsOn(s[i], i) <=> s[i].wait_queue # <<>>
    BY <1>1 DEF Sema!SleepsOn
  <1> QED  BY <1>2 DEF Sema!Doing, Does

\* The same after a step.
LEMMA DoingIsDoesNext == SemaInv' => (\A i \in Sema!Phil : Sema!Doing(i) = Does(i))'
  BY DoingIsDoes, PTL

\* Every step of a philosopher keeps the invariant.
LEMMA SemaStepKeeps == ASSUME SemaInv, NEW i \in Sema!Phil, Sema!Step(i)  PROVE SemaInv'
  <1>1. /\ state_sema \in [Sema!Phil -> {"THINKING", "HUNGRY", "EATING"}]
        /\ mutex \in Sema!Semaphores(Sema!Phil)
        /\ s \in [Sema!Phil -> Sema!Semaphores(Sema!Phil)]
        /\ pc_sema \in [Sema!Phil -> Sema!Labels]
        /\ iter_sema \in [Sema!Phil -> 0 .. TIMES]
        /\ TIMES \in Nat
        /\ SemaNeighbours
        /\ \A k \in Sema!Phil : SemaSeat(k)
    BY PhilAssumption DEF SemaInv, Sema!TypeOK
  <1>2. /\ s[i] \in Sema!Semaphores(Sema!Phil)
        /\ s[i].value \in Nat
        /\ Sema!up(mutex) \in Sema!Semaphores(Sema!Phil) /\ Sema!down(mutex, i) \in Sema!Semaphores(Sema!Phil)
    BY <1>1, UpDown
  <1>3. \A l : Sema!At(i, l) => pc_sema[i] = l /\ s[i].wait_queue = <<>>
    <2>1. s[i].wait_queue = <<i>> => Sema!SleepsOn(s[i], i)
      BY DEF Sema!SleepsOn
    <2> QED  BY <1>1, <2>1 DEF Sema!At, Sema!Awake, SemaSeat
  <1>4. CASE Sema!Enter(i)
    <2>1. /\ mutex' = Sema!down(mutex, i)
          /\ UNCHANGED <<state_sema, s, iter_sema>>
          /\ \/ pc_sema[i] = "think" /\ pc_sema' = [pc_sema EXCEPT ![i] = "take"]
             \/ pc_sema[i] = "eat" /\ pc_sema' = [pc_sema EXCEPT ![i] = "put"]
          /\ s[i].wait_queue = <<>>
      BY <1>3, <1>4 DEF Sema!Enter, Sema!Goto
    <2>2. Sema!TypeOK'
      BY <1>1, <1>2, <2>1 DEF Sema!TypeOK, Sema!Labels
    <2>3. \A k \in Sema!Phil : SemaSeat(k)'
      BY <1>1, <2>1 DEF SemaSeat
    <2>4. SemaNeighbours'
      BY <1>1, <2>1 DEF SemaNeighbours
    <2> QED  BY <2>2, <2>3, <2>4 DEF SemaInv
  <1>5. CASE Sema!TakeTest(i)
    <2> DEFINE st == [state_sema EXCEPT ![i] = "HUNGRY"]
    <2>1. /\ Sema!phi_test_sema(st, i)
          /\ pc_sema' = [pc_sema EXCEPT ![i] = "taken"]
          /\ UNCHANGED <<mutex, iter_sema>>
          /\ pc_sema[i] = "take" /\ s[i].wait_queue = <<>>
      BY <1>3, <1>5 DEF Sema!TakeTest, Sema!Goto
    <2>2. /\ st \in [Sema!Phil -> {"THINKING", "HUNGRY", "EATING"}]
          /\ st[i] = "HUNGRY"
          /\ \A k \in Sema!Phil : k # i => st[k] = state_sema[k]
      BY <1>1
    <2> HIDE DEF st
    <2>3. \A k \in Sema!Phil : st[k] = "EATING" =>
             st[Sema!LEFT(k)] # "EATING" /\ st[Sema!RIGHT(k)] # "EATING"
      BY <1>1, <2>2, SemaRing DEF SemaNeighbours
    <2>4. /\ state_sema' \in [Sema!Phil -> {"THINKING", "HUNGRY", "EATING"}]
          /\ s' \in [Sema!Phil -> Sema!Semaphores(Sema!Phil)]
          /\ SemaNeighbours'
          /\ \A k \in Sema!Phil : k # i => state_sema'[k] = st[k] /\ s'[k] = s[k]
          /\ \/ state_sema'[i] = "HUNGRY" /\ s'[i] = s[i]
             \/ /\ state_sema'[i] = "EATING"
                /\ s'[i].wait_queue = <<>> /\ s'[i].value = s[i].value + 1
      BY <2>1, <2>2, <2>3, TestKeepsTable
    <2>5. s[i].value = 0 /\ iter_sema[i] < TIMES
      BY <1>1, <2>1 DEF SemaSeat
    <2>6. SemaSeat(i)'
      <3>1. pc_sema'[i] = "taken" /\ iter_sema'[i] < TIMES
        BY <1>1, <2>1, <2>5
      <3>2. s'[i].wait_queue = <<>>
        BY <2>1, <2>4
      <3>3. \/ state_sema'[i] = "HUNGRY" /\ s'[i].value = 0
            \/ state_sema'[i] = "EATING" /\ s'[i].value = 1
        BY <2>4, <2>5
      <3> QED  BY <3>1, <3>2, <3>3 DEF SemaSeat
    <2>7. ASSUME NEW k \in Sema!Phil, k # i  PROVE SemaSeat(k)'
      <3>1. /\ state_sema'[k] = state_sema[k] /\ s'[k] = s[k]
            /\ pc_sema'[k] = pc_sema[k] /\ iter_sema' = iter_sema
        BY <1>1, <2>1, <2>2, <2>4, <2>7
      <3> QED  BY <1>1, <3>1 DEF SemaSeat
    <2>8. Sema!TypeOK'
      BY <1>1, <2>1, <2>4 DEF Sema!TypeOK, Sema!Labels
    <2> QED  BY <2>4, <2>6, <2>7, <2>8 DEF SemaInv
  <1>6. CASE Sema!TakeLeave(i)
    <2>1. /\ mutex' = Sema!up(mutex)
          /\ UNCHANGED <<state_sema, s, iter_sema>>
          /\ pc_sema[i] = "taken" /\ pc_sema' = [pc_sema EXCEPT ![i] = "wait"]
          /\ s[i].wait_queue = <<>>
      BY <1>3, <1>6 DEF Sema!TakeLeave, Sema!Goto
    <2>2. Sema!TypeOK'
      BY <1>1, <1>2, <2>1 DEF Sema!TypeOK, Sema!Labels
    <2>3. \A k \in Sema!Phil : SemaSeat(k)'
      BY <1>1, <2>1 DEF SemaSeat
    <2>4. SemaNeighbours'
      BY <1>1, <2>1 DEF SemaNeighbours
    <2> QED  BY <2>2, <2>3, <2>4 DEF SemaInv
  <1>7. CASE Sema!TakeWait(i)
    <2>1. /\ s' = [s EXCEPT ![i] = Sema!down(s[i], i)]
          /\ UNCHANGED <<state_sema, mutex, iter_sema>>
          /\ pc_sema[i] = "wait" /\ pc_sema' = [pc_sema EXCEPT ![i] = "eat"]
          /\ s[i].wait_queue = <<>>
      BY <1>3, <1>7 DEF Sema!TakeWait, Sema!Goto
    <2>2. /\ Sema!down(s[i], i) \in Sema!Semaphores(Sema!Phil)
          /\ s[i].value > 0 => /\ Sema!down(s[i], i).value = s[i].value - 1
                               /\ Sema!down(s[i], i).wait_queue = <<>>
          /\ s[i].value = 0 => /\ Sema!down(s[i], i).value = 0
                               /\ Sema!down(s[i], i).wait_queue = <<i>>
      BY <1>2, <2>1, UpDown
    <2>3. /\ s' \in [Sema!Phil -> Sema!Semaphores(Sema!Phil)] /\ s'[i] = Sema!down(s[i], i)
          /\ pc_sema' \in [Sema!Phil -> Sema!Labels] /\ pc_sema'[i] = "eat"
          /\ \A k \in Sema!Phil : k # i => s'[k] = s[k] /\ pc_sema'[k] = pc_sema[k]
      BY <1>1, <2>1, <2>2 DEF Sema!Labels
    <2>4. SemaSeat(i)'
      <3>1. \/ state_sema[i] = "HUNGRY" /\ s[i].value = 0
            \/ state_sema[i] = "EATING" /\ s[i].value = 1
        BY <1>1, <2>1 DEF SemaSeat
      <3>2. \/ /\ state_sema[i] = "HUNGRY" /\ s'[i].value = 0
               /\ s'[i].wait_queue = <<i>>
            \/ /\ state_sema[i] = "EATING" /\ s'[i].value = 0
               /\ s'[i].wait_queue = <<>>
        BY <2>2, <2>3, <3>1
      <3>3. iter_sema'[i] < TIMES /\ <<i>> # <<>>
        BY <1>1, <2>1 DEF SemaSeat
      <3> QED  BY <2>1, <2>3, <3>2, <3>3 DEF SemaSeat
    <2>5. \A k \in Sema!Phil : k # i => SemaSeat(k)'
      BY <1>1, <2>1, <2>3 DEF SemaSeat
    <2>6. Sema!TypeOK'
      BY <1>1, <2>1, <2>3 DEF Sema!TypeOK
    <2>7. SemaNeighbours'
      BY <1>1, <2>1 DEF SemaNeighbours
    <2> QED  BY <2>4, <2>5, <2>6, <2>7 DEF SemaInv
  <1>8. CASE Sema!PutThinking(i)
    <2>1. /\ state_sema' = [state_sema EXCEPT ![i] = "THINKING"]
          /\ UNCHANGED <<mutex, s, iter_sema>>
          /\ pc_sema[i] = "put" /\ pc_sema' = [pc_sema EXCEPT ![i] = "testleft"]
          /\ s[i].wait_queue = <<>>
      BY <1>3, <1>8 DEF Sema!PutThinking, Sema!Goto
    <2>2. Sema!TypeOK'
      BY <1>1, <1>2, <2>1 DEF Sema!TypeOK, Sema!Labels
    <2>3. \A k \in Sema!Phil : SemaSeat(k)'
      BY <1>1, <2>1 DEF SemaSeat
    <2>4. SemaNeighbours'
      BY <1>1, <2>1, SemaRing DEF SemaNeighbours
    <2> QED  BY <2>2, <2>3, <2>4 DEF SemaInv
  <1>9. CASE Sema!PutTest(i)
    <2>1. PICK j \in Sema!Phil :
             /\ Sema!phi_test_sema(state_sema, j)
             /\ j # i
             /\ UNCHANGED <<mutex, iter_sema>>
             /\ \/ pc_sema[i] = "testleft" /\ pc_sema' = [pc_sema EXCEPT ![i] = "testright"]
                \/ pc_sema[i] = "testright" /\ pc_sema' = [pc_sema EXCEPT ![i] = "putdone"]
             /\ s[i].wait_queue = <<>>
      BY <1>3, <1>9, SemaRing DEF Sema!PutTest, Sema!Goto
    <2>2. /\ state_sema' \in [Sema!Phil -> {"THINKING", "HUNGRY", "EATING"}]
          /\ s' \in [Sema!Phil -> Sema!Semaphores(Sema!Phil)]
          /\ SemaNeighbours'
          /\ \A k \in Sema!Phil : k # j => state_sema'[k] = state_sema[k] /\ s'[k] = s[k]
          /\ \/ state_sema'[j] = state_sema[j] /\ s'[j] = s[j]
             \/ /\ state_sema[j] = "HUNGRY" /\ state_sema'[j] = "EATING"
                /\ s'[j].wait_queue = <<>>
                /\ s'[j].value = IF s[j].wait_queue = <<>> THEN s[j].value + 1
                                 ELSE s[j].value
      <3>1. \A k \in Sema!Phil : state_sema[k] = "EATING" =>
               state_sema[Sema!LEFT(k)] # "EATING" /\ state_sema[Sema!RIGHT(k)] # "EATING"
        BY <1>1 DEF SemaNeighbours
      <3>2. /\ Sema!phi_test_sema(state_sema, j)
            /\ state_sema \in [Sema!Phil -> {"THINKING", "HUNGRY", "EATING"}]
        BY <1>1, <2>1
      <3> QED  BY <3>1, <3>2, TestKeepsTable
    <2>3. \A k \in Sema!Phil : k # i => pc_sema'[k] = pc_sema[k]
      BY <1>1, <2>1
    <2>4. SemaSeat(i)'
      <3>1. /\ state_sema[i] = "THINKING" /\ s[i].value = 0 /\ iter_sema[i] < TIMES
        BY <1>1, <2>1 DEF SemaSeat
      <3>2. pc_sema'[i] \in {"testright", "putdone"} /\ s'[i] = s[i]
            /\ state_sema'[i] = state_sema[i]
        BY <1>1, <2>1, <2>2
      <3>3. /\ s'[i].wait_queue = <<>> /\ s'[i].value = 0 /\ state_sema'[i] = "THINKING"
            /\ iter_sema'[i] < TIMES
        BY <2>1, <3>1, <3>2
      <3> QED  BY <3>2, <3>3 DEF SemaSeat
    <2>5. SemaSeat(j)'
      <3>1. pc_sema'[j] = pc_sema[j] /\ iter_sema' = iter_sema
        BY <2>1, <2>3
      <3>2. CASE state_sema'[j] = state_sema[j] /\ s'[j] = s[j]
        BY <1>1, <3>1, <3>2 DEF SemaSeat
      <3>3. CASE ~(state_sema'[j] = state_sema[j] /\ s'[j] = s[j])
        <4>1. CASE s[j].wait_queue = <<>>
          <5>1. /\ pc_sema[j] \in {"taken", "wait"} /\ s[j].value = 0
                /\ iter_sema[j] < TIMES
            BY <1>1, <2>2, <3>3, <4>1 DEF SemaSeat
          <5>2. s'[j].wait_queue = <<>> /\ s'[j].value = 1 /\ state_sema'[j] = "EATING"
            BY <2>2, <3>3, <4>1, <5>1
          <5> QED  BY <3>1, <5>1, <5>2 DEF SemaSeat
        <4>2. CASE s[j].wait_queue = <<j>>
          BY <1>1, <2>2, <3>1, <3>3, <4>2 DEF SemaSeat
        <4> QED  BY <1>1, <4>1, <4>2 DEF SemaSeat
      <3> QED  BY <3>2, <3>3
    <2>6. ASSUME NEW k \in Sema!Phil, k # i, k # j  PROVE SemaSeat(k)'
      <3>1. /\ pc_sema'[k] = pc_sema[k] /\ iter_sema' = iter_sema
            /\ state_sema'[k] = state_sema[k] /\ s'[k] = s[k]
        BY <2>1, <2>2, <2>3, <2>6
      <3> QED  BY <1>1, <3>1 DEF SemaSeat
    <2>7. Sema!TypeOK'
      BY <1>1, <2>1, <2>2 DEF Sema!TypeOK, Sema!Labels
    <2> QED  BY <2>2, <2>4, <2>5, <2>6, <2>7 DEF SemaInv
  <1>10. CASE Sema!PutLeave(i)
    <2>1. /\ mutex' = Sema!up(mutex)
          /\ UNCHANGED <<state_sema, s>>
          /\ iter_sema' = [iter_sema EXCEPT ![i] = iter_sema[i] + 1]
          /\ pc_sema[i] = "putdone"
          /\ pc_sema' = [pc_sema EXCEPT ![i] = IF iter_sema[i] + 1 < TIMES THEN "think" ELSE "quit"]
          /\ s[i].wait_queue = <<>>
      BY <1>3, <1>10 DEF Sema!PutLeave, Sema!Goto, Sema!Again
    <2>2. iter_sema[i] < TIMES /\ iter_sema[i] + 1 \in 0 .. TIMES
      BY <1>1, <2>1 DEF SemaSeat
    <2>3. Sema!TypeOK'
      BY <1>1, <1>2, <2>1, <2>2 DEF Sema!TypeOK, Sema!Labels
    <2>4. \A k \in Sema!Phil : SemaSeat(k)'
      BY <1>1, <2>1, <2>2 DEF SemaSeat
    <2>5. SemaNeighbours'
      BY <1>1, <2>1 DEF SemaNeighbours
    <2> QED  BY <2>3, <2>4, <2>5 DEF SemaInv
  <1> QED  BY <1>4, <1>5, <1>6, <1>7, <1>8, <1>9, <1>10 DEF Sema!Step

\* GrantsMatch is part of the invariant.
LEMMA SemaGrants == SemaInv => Sema!GrantsMatch
  <1> SUFFICES ASSUME SemaInv, NEW i \in Sema!Phil
               PROVE  /\ s[i].value <= 1
                      /\ s[i].value = 1 =>
                            pc_sema[i] \in {"taken", "wait"} /\ state_sema[i] = "EATING"
                      /\ Sema!Doing(i) = "EATING" => state_sema[i] = "EATING"
                      /\ state_sema[i] = "EATING" =>
                            s[i].value = 1 \/ Sema!Doing(i) = "EATING"
                      /\ Sema!SleepsOn(s[i], i) => state_sema[i] = "HUNGRY" /\ s[i].value = 0
    BY DEF Sema!GrantsMatch
  <1>1. SemaSeat(i) /\ Sema!Doing(i) = Does(i)
    BY DoingIsDoes DEF SemaInv
  <1>2. Sema!SleepsOn(s[i], i) => s[i].wait_queue = <<i>>
    BY <1>1 DEF SemaSeat, Sema!SleepsOn
  <1>3. s[i].value \in {0, 1}
    BY <1>1 DEF SemaSeat
  <1>4. Does(i) = "EATING" <=> pc_sema[i] \in {"eat", "put"} /\ s[i].wait_queue = <<>>
    BY DEF Does
  <1> QED  BY <1>1, <1>2, <1>3, <1>4 DEF SemaSeat

\* Only the philosophers of the table say what is done.
semaDoing == [i \in Sema!Phil |-> Sema!Doing(i)]

\* Everybody thinks at the start, as in Dining.
LEMMA SemaRefinesInit == Sema!Init => Sema!Promise!Init
  BY DEF Sema!Init, Sema!Promise!Init, Sema!Promise!Phil, Sema!Phil, Sema!Doing

\* A step of a philosopher is a step of Dining, by it or by the neighbour it
\* wakes, or changes nothing that Dining speaks of.
LEMMA SemaStepRefines ==
    ASSUME SemaInv, SemaInv', NEW i \in Sema!Phil, Sema!Step(i)
    PROVE  Sema!Promise!Next \/ semaDoing' = semaDoing
  <1>1. /\ pc_sema \in [Sema!Phil -> Sema!Labels] /\ s \in [Sema!Phil -> Sema!Semaphores(Sema!Phil)]
        /\ SemaNeighbours /\ \A k \in Sema!Phil : SemaSeat(k)
    BY DEF SemaInv, Sema!TypeOK
  <1>2. \A k \in Sema!Phil : semaDoing[k] = Does(k) /\ semaDoing'[k] = Does(k)'
    BY DoingIsDoes, DoingIsDoesNext DEF semaDoing
  <1>3. \A l : Sema!At(i, l) => pc_sema[i] = l /\ s[i].wait_queue = <<>>
    <2>1. s[i].wait_queue = <<i>> => Sema!SleepsOn(s[i], i)
      BY DEF Sema!SleepsOn
    <2> QED  BY <1>1, <2>1 DEF Sema!At, Sema!Awake, SemaSeat
  <1>4. \A k \in Sema!Phil : semaDoing[k] = "EATING" => state_sema[k] = "EATING"
    BY SemaGrants DEF Sema!GrantsMatch, semaDoing
  \* It is enough to look at the philosophers whose doing changes.
  <1>5. ASSUME \A k \in Sema!Phil : Does(k)' = Does(k)  PROVE semaDoing' = semaDoing
    BY <1>2, <1>5 DEF semaDoing
  <1>6. ASSUME NEW j \in Sema!Phil, \A k \in Sema!Phil : k # j => Does(k)' = Does(k)
        PROVE  semaDoing' = [semaDoing EXCEPT ![j] = Does(j)']
    BY <1>2, <1>6 DEF semaDoing
  \* A meal granted may begin.
  <1>7. ASSUME NEW j \in Sema!Phil, Does(j) = "HUNGRY", Does(j)' = "EATING",
               state_sema[Sema!LEFT(j)] # "EATING", state_sema[Sema!RIGHT(j)] # "EATING",
               \A k \in Sema!Phil : k # j => Does(k)' = Does(k)
        PROVE  Sema!Promise!Next
    <2>1. /\ semaDoing[j] = "HUNGRY"
          /\ semaDoing[Sema!LEFT(j)] # "EATING" /\ semaDoing[Sema!RIGHT(j)] # "EATING"
      BY <1>2, <1>4, <1>7, SemaRing
    <2>2. semaDoing' = [semaDoing EXCEPT ![j] = "EATING"]
      BY <1>6, <1>7
    <2>3. Sema!Promise!Eat(j)
      BY <2>1, <2>2 DEF Sema!Promise!Eat, Sema!Promise!LEFT, Sema!Promise!RIGHT, Sema!LEFT, Sema!RIGHT, semaDoing
    <2> QED  BY <2>3 DEF Sema!Promise!Next, Sema!Promise!Phil, Sema!Phil
  <1>8. CASE Sema!Enter(i)
    <2>1. /\ UNCHANGED s
          /\ \/ pc_sema[i] = "think" /\ pc_sema' = [pc_sema EXCEPT ![i] = "take"]
             \/ pc_sema[i] = "eat" /\ pc_sema' = [pc_sema EXCEPT ![i] = "put"]
      BY <1>8 DEF Sema!Enter, Sema!At, Sema!Goto
    <2>2. \A k \in Sema!Phil : k # i => Does(k)' = Does(k)
      BY <1>1, <2>1 DEF Does
    <2>3. CASE pc_sema[i] = "eat"
      <3>1. Does(i)' = Does(i)
        BY <1>1, <2>1, <2>3 DEF Does
      <3> QED  BY <1>5, <2>2, <3>1
    <2>4. CASE pc_sema[i] # "eat"
      <3>1. Does(i) = "THINKING" /\ Does(i)' = "HUNGRY"
        BY <1>1, <2>1, <2>4 DEF Does
      <3>2. semaDoing[i] = "THINKING" /\ semaDoing' = [semaDoing EXCEPT ![i] = "HUNGRY"]
        BY <1>2, <1>6, <2>2, <3>1
      <3>3. Sema!Promise!GetHungry(i)
        BY <3>2 DEF Sema!Promise!GetHungry, semaDoing
      <3> QED  BY <3>3 DEF Sema!Promise!Next, Sema!Promise!Phil, Sema!Phil
    <2> QED  BY <2>3, <2>4
  <1>9. CASE Sema!TakeTest(i)
    <2>1. /\ \A k \in Sema!Phil : k # i => s'[k] = s[k]
          /\ pc_sema[i] = "take" /\ pc_sema' = [pc_sema EXCEPT ![i] = "taken"]
      BY <1>1, <1>9 DEF Sema!TakeTest, Sema!phi_test_sema, Sema!At, Sema!Goto
    <2>2. \A k \in Sema!Phil : Does(k)' = Does(k)
      BY <1>1, <2>1 DEF Does
    <2> QED  BY <1>5, <2>2
  <1>10. CASE Sema!TakeLeave(i)
    <2>1. /\ UNCHANGED s
          /\ pc_sema[i] = "taken" /\ pc_sema' = [pc_sema EXCEPT ![i] = "wait"]
      BY <1>10 DEF Sema!TakeLeave, Sema!At, Sema!Goto
    <2>2. \A k \in Sema!Phil : Does(k)' = Does(k)
      BY <1>1, <2>1 DEF Does
    <2> QED  BY <1>5, <2>2
  <1>11. CASE Sema!TakeWait(i)
    <2>1. /\ s' = [s EXCEPT ![i] = Sema!down(s[i], i)]
          /\ UNCHANGED state_sema
          /\ pc_sema[i] = "wait" /\ pc_sema' = [pc_sema EXCEPT ![i] = "eat"]
      BY <1>11 DEF Sema!TakeWait, Sema!At, Sema!Goto
    <2>2. \A k \in Sema!Phil : k # i => Does(k)' = Does(k)
      BY <1>1, <2>1 DEF Does
    <2>3. Does(i) = "HUNGRY" /\ pc_sema'[i] = "eat"
      BY <1>1, <2>1 DEF Does
    <2>4. CASE s'[i].wait_queue = <<>>
      <3>1. state_sema'[i] = "EATING"
        BY <2>3, <2>4 DEF SemaInv, SemaSeat
      <3>2. Does(i)' = "EATING"
        BY <2>3, <2>4 DEF Does
      <3>3. state_sema[Sema!LEFT(i)] # "EATING" /\ state_sema[Sema!RIGHT(i)] # "EATING"
        BY <1>1, <2>1, <3>1 DEF SemaNeighbours
      <3> QED  BY <1>7, <2>2, <2>3, <3>2, <3>3
    <2>5. CASE s'[i].wait_queue # <<>>
      <3>1. Does(i)' = "HUNGRY"
        BY <2>3, <2>5 DEF Does
      <3> QED  BY <1>5, <2>2, <2>3, <3>1
    <2> QED  BY <2>4, <2>5
  <1>12. CASE Sema!PutThinking(i)
    <2>1. /\ UNCHANGED s
          /\ pc_sema[i] = "put" /\ pc_sema' = [pc_sema EXCEPT ![i] = "testleft"]
          /\ s[i].wait_queue = <<>>
      BY <1>3, <1>12 DEF Sema!PutThinking, Sema!Goto
    <2>2. \A k \in Sema!Phil : k # i => Does(k)' = Does(k)
      BY <1>1, <2>1 DEF Does
    <2>3. Does(i) = "EATING" /\ Does(i)' = "THINKING"
      BY <1>1, <2>1 DEF Does
    <2>4. semaDoing[i] = "EATING" /\ semaDoing' = [semaDoing EXCEPT ![i] = "THINKING"]
      BY <1>2, <1>6, <2>2, <2>3
    <2>5. Sema!Promise!Finish(i)
      BY <2>4 DEF Sema!Promise!Finish, semaDoing
    <2> QED  BY <2>5 DEF Sema!Promise!Next, Sema!Promise!Phil, Sema!Phil
  <1>13. CASE Sema!PutTest(i)
    <2>1. PICK j \in Sema!Phil :
             /\ Sema!phi_test_sema(state_sema, j)
             /\ j # i
             /\ \/ pc_sema[i] = "testleft" /\ pc_sema' = [pc_sema EXCEPT ![i] = "testright"]
                \/ pc_sema[i] = "testright" /\ pc_sema' = [pc_sema EXCEPT ![i] = "putdone"]
      BY <1>13, SemaRing DEF Sema!PutTest, Sema!At, Sema!Goto
    <2>2. /\ \A k \in Sema!Phil : k # j => s'[k] = s[k]
          /\ \/ s'[j] = s[j]
             \/ Sema!MayEat(state_sema, j)
      BY <1>1, <2>1 DEF Sema!phi_test_sema
    <2>3. \A k \in Sema!Phil : k # j => Does(k)' = Does(k)
      BY <1>1, <2>1, <2>2 DEF Does
    <2>4. pc_sema'[j] = pc_sema[j]
      BY <1>1, <2>1
    <2>5. CASE Does(j)' = Does(j)
      BY <1>5, <2>3, <2>5
    <2>6. CASE Does(j)' # Does(j)
      <3>1. s'[j] # s[j] /\ Sema!MayEat(state_sema, j)
        BY <2>2, <2>4, <2>6 DEF Does
      <3>2. /\ state_sema[j] = "HUNGRY"
            /\ state_sema[Sema!LEFT(j)] # "EATING" /\ state_sema[Sema!RIGHT(j)] # "EATING"
        BY <3>1 DEF Sema!MayEat
      <3>3. Does(j) # "EATING"
        <4>1. semaDoing[j] # "EATING"
          BY <1>4, <3>2
        <4> QED  BY <1>2, <4>1
      <3>4. pc_sema[j] \in {"eat", "put"} /\ Does(j) = "HUNGRY" /\ Does(j)' = "EATING"
        BY <2>4, <2>6, <3>3 DEF Does
      <3> QED  BY <1>7, <2>3, <3>2, <3>4
    <2> QED  BY <2>5, <2>6
  <1>14. CASE Sema!PutLeave(i)
    <2>1. /\ UNCHANGED s
          /\ pc_sema[i] = "putdone"
          /\ pc_sema' = [pc_sema EXCEPT ![i] = IF Sema!Again(i) THEN "think" ELSE "quit"]
      BY <1>14 DEF Sema!PutLeave, Sema!At, Sema!Goto
    <2>2. \A k \in Sema!Phil : Does(k)' = Does(k)
      BY <1>1, <2>1 DEF Does
    <2> QED  BY <1>5, <2>2
  <1> QED  BY <1>8, <1>9, <1>10, <1>11, <1>12, <1>13, <1>14 DEF Sema!Step

-----------------------------------------------------------------------------
(* The philosophers with a monitor.                                        *)

\* PhilMonitor counts with the same Cardinality.
LEMMA SameCardinality == \A S : Condvar!Cardinality(S) = Cardinality(S)
  BY DEF Condvar!Cardinality, Cardinality

\* Who sleeps where: on the mutex in the down of the two enters, on next in
\* cond_signal, and on condition i only philosopher i, in cond_wait.
QueuesOK ==
    /\ Once(mt_mutex.wait_queue) /\ Once(mt_next.wait_queue)
    /\ \A i \in Condvar!Phil :
          /\ On(mt_mutex.wait_queue, i) => pc_condvar[i] \in {"take", "put"}
          /\ On(mt_next.wait_queue, i) => pc_condvar[i] \in {"leftsignalled", "rightsignalled"}
          /\ cv_sem[i].wait_queue \in {<<>>, <<i>>}
          /\ cv_sem[i].wait_queue = <<i>> => pc_condvar[i] = "waited"

\* Philosopher i executes inside the monitor.
In(i) == pc_condvar[i] \in Condvar!Inside /\ Condvar!Awake(i)

\* One process inside, or the mutex is open; no unit is left in the others.
OneInside ==
    /\ mt_mutex.value \in {0, 1} /\ mt_next.value = 0
    /\ \A j \in Condvar!Phil : cv_sem[j].value = 0
    /\ \A i, j \in Condvar!Phil : In(i) /\ In(j) => i = j
    /\ mt_mutex.value = 1 <=> \A i \in Condvar!Phil : ~In(i)

\* What the table says of philosopher i at each place.  The first test of
\* phi_take_forks_condvar never signals, since nobody waits for i yet.
MonitorSeat(i) ==
           /\ pc_condvar[i] \in {"think", "take", "testleft", "leftsignalled", "testright",
                                 "rightsignalled", "putleave", "quit"} => state_condvar[i] = "THINKING"
           /\ pc_condvar[i] = "taketest" => state_condvar[i] = "HUNGRY"
           /\ pc_condvar[i] = "hungry" => state_condvar[i] \in {"HUNGRY", "EATING"}
           /\ pc_condvar[i] = "waited" =>
                         state_condvar[i] = IF cv_sem[i].wait_queue = <<i>> THEN "HUNGRY" ELSE "EATING"
           /\ pc_condvar[i] \in {"takeleave", "eat", "put"} => state_condvar[i] = "EATING"
           /\ pc_condvar[i] # "signalled"
           /\ pc_condvar[i] # "quit" => iter_condvar[i] < TIMES

\* The table never has two neighbours EATING.
MonitorNeighbours ==
    \A i \in Condvar!Phil : state_condvar[i] = "EATING" =>
        state_condvar[Condvar!LEFT(i)] # "EATING" /\ state_condvar[Condvar!RIGHT(i)] # "EATING"

\* Condvar!CountsExact, with the Cardinality that FiniteSetTheorems speaks of.
MonitorCounts ==
    /\ mt_next_count = Cardinality({i \in Condvar!Phil : pc_condvar[i] \in DOMAIN Condvar!Behind})
    /\ \A j \in Condvar!Phil : cv_count[j] = IF pc_condvar[j] = "waited" THEN 1 ELSE 0

MonitorInv ==
    /\ Condvar!TypeOK /\ QueuesOK /\ OneInside /\ MonitorCounts /\ MonitorNeighbours
    /\ \A i \in Condvar!Phil : MonitorSeat(i)

\* The table is a ring.
LEMMA MonitorRing ==
    ASSUME NEW i \in Condvar!Phil
    PROVE  /\ Condvar!LEFT(i) \in Condvar!Phil /\ Condvar!RIGHT(i) \in Condvar!Phil
           /\ Condvar!LEFT(i) # i /\ Condvar!RIGHT(i) # i
           /\ Condvar!LEFT(Condvar!RIGHT(i)) = i /\ Condvar!RIGHT(Condvar!LEFT(i)) = i
  BY PhilAssumption, RingNeighbours DEF Condvar!Phil, Condvar!LEFT, Condvar!RIGHT

\* up of sem.c: the first sleeper goes on, or the value grows.
LEMMA UpEffect ==
    ASSUME NEW x \in Condvar!Semaphores(Condvar!Phil)
    PROVE  /\ Condvar!up(x) \in Condvar!Semaphores(Condvar!Phil)
           /\ x.wait_queue = <<>> => Condvar!up(x).value = x.value + 1 /\ Condvar!up(x).wait_queue = <<>>
           /\ x.wait_queue # <<>> /\ Once(x.wait_queue) =>
                 /\ Condvar!up(x).value = x.value
                 /\ Once(Condvar!up(x).wait_queue)
                 /\ \E w \in Condvar!Phil :
                       /\ On(x.wait_queue, w)
                       /\ \A y : On(Condvar!up(x).wait_queue, y) <=> On(x.wait_queue, y) /\ y # w
  <1>1. x.value \in Nat /\ x.wait_queue \in Seq(Condvar!Phil)
    BY DEF Condvar!Semaphores
  <1>2. CASE x.wait_queue = <<>>
    BY <1>1, <1>2 DEF Condvar!up, Condvar!Semaphores
  <1>3. CASE x.wait_queue # <<>>
    <2> DEFINE q == x.wait_queue
               t == Tail(q)
    <2>1. t \in Seq(Condvar!Phil)
      BY <1>1, <1>3, HeadTailProperties
    <2>2. Condvar!up(x) = [x EXCEPT !.wait_queue = t]
      BY <1>3 DEF Condvar!up
    <2>3. Once(q) => /\ Head(q) \in Condvar!Phil /\ On(q, Head(q))
                     /\ Once(t) /\ \A y : On(t, y) <=> On(q, y) /\ y # Head(q)
      BY <1>1, <1>3, TailOnce
    <2> HIDE DEF t
    <2>4. Condvar!up(x) \in Condvar!Semaphores(Condvar!Phil) /\ Condvar!up(x).value = x.value /\ Condvar!up(x).wait_queue = t
      BY <2>1, <2>2 DEF Condvar!Semaphores
    <2> QED  BY <1>3, <2>3, <2>4
  <1> QED  BY <1>2, <1>3

\* down of sem.c: take the unit, or sleep.
LEMMA DownEffect ==
    ASSUME NEW x \in Condvar!Semaphores(Condvar!Phil), NEW p \in Condvar!Phil
    PROVE  /\ Condvar!down(x, p) \in Condvar!Semaphores(Condvar!Phil)
           /\ x.value > 0 => /\ Condvar!down(x, p).value = x.value - 1
                             /\ Condvar!down(x, p).wait_queue = x.wait_queue
           /\ x.value = 0 =>
                 /\ Condvar!down(x, p).value = 0
                 /\ \A y : On(Condvar!down(x, p).wait_queue, y) <=> On(x.wait_queue, y) \/ y = p
                 /\ Once(x.wait_queue) /\ ~On(x.wait_queue, p) =>
                       Once(Condvar!down(x, p).wait_queue)
                 /\ x.wait_queue = <<>> => Condvar!down(x, p).wait_queue = <<p>>
  <1>1. x.value \in Nat /\ x.wait_queue \in Seq(Condvar!Phil)
    BY DEF Condvar!Semaphores
  <1>2. CASE x.value > 0
    <2>1. x.value - 1 \in Nat
      BY <1>1, <1>2
    <2> QED  BY <1>1, <1>2, <2>1 DEF Condvar!down, Condvar!Semaphores
  <1>3. CASE ~(x.value > 0)
    <2> DEFINE q == Append(x.wait_queue, p)
    <2>1. /\ q \in Seq(Condvar!Phil)
          /\ \A y : On(q, y) <=> On(x.wait_queue, y) \/ y = p
          /\ Once(x.wait_queue) /\ ~On(x.wait_queue, p) => Once(q)
      BY <1>1, AppendOnce
    <2>2. x.wait_queue = <<>> => q = <<p>>
      OBVIOUS
    <2>3. Condvar!down(x, p) = [x EXCEPT !.wait_queue = q]
      BY <1>3 DEF Condvar!down
    <2> HIDE DEF q
    <2>4. /\ Condvar!down(x, p) \in Condvar!Semaphores(Condvar!Phil)
          /\ Condvar!down(x, p).value = x.value /\ Condvar!down(x, p).wait_queue = q
      BY <2>1, <2>3 DEF Condvar!Semaphores
    <2> QED  BY <1>3, <2>1, <2>2, <2>4
  <1> QED  BY <1>2, <1>3

\* Where cond_signal is left from.
LEMMA BehindProperties ==
    /\ DOMAIN Condvar!Behind = {"signalled", "leftsignalled", "rightsignalled"}
    /\ Condvar!Behind["signalled"] = "hungry"
    /\ Condvar!Behind["leftsignalled"] = "testright"
    /\ Condvar!Behind["rightsignalled"] = "putleave"
  BY DEF Condvar!Behind

\* Philosopher i sleeps nowhere.
Free(i) ==
    /\ ~On(mt_mutex.wait_queue, i) /\ ~On(mt_next.wait_queue, i)
    /\ cv_sem[i].wait_queue = <<>>

\* Only philosopher i sleeps on condition i, so that is all there is to look at.
LEMMA AwakeIsFree == QueuesOK => \A i \in Condvar!Phil : Condvar!Awake(i) <=> Free(i)
  <1> SUFFICES ASSUME QueuesOK, NEW i \in Condvar!Phil  PROVE Condvar!Awake(i) <=> Free(i)
    OBVIOUS
  <1>1. \A j \in Condvar!Phil : cv_sem[j].wait_queue \in {<<>>, <<j>>}
    BY DEF QueuesOK
  <1>2. \A j \in Condvar!Phil : Condvar!SleepsOn(cv_sem[j], i) <=> cv_sem[j].wait_queue # <<>> /\ j = i
    BY <1>1 DEF Condvar!SleepsOn
  <1>3. (\A j \in Condvar!Phil : ~Condvar!SleepsOn(cv_sem[j], i)) <=> cv_sem[i].wait_queue = <<>>
    BY <1>2
  <1>4. /\ Condvar!SleepsOn(mt_mutex, i) <=> On(mt_mutex.wait_queue, i)
        /\ Condvar!SleepsOn(mt_next, i) <=> On(mt_next.wait_queue, i)
    BY DEF Condvar!SleepsOn, On
  <1> QED  BY <1>3, <1>4 DEF Condvar!Awake, Free

\* The same after a step.
LEMMA AwakeIsFreeNext == QueuesOK' => (\A i \in Condvar!Phil : Condvar!Awake(i) <=> Free(i))'
  BY AwakeIsFree, PTL

\* monitor_init.
LEMMA MonitorInit == Condvar!Init => MonitorInv
  <1> SUFFICES ASSUME Condvar!Init  PROVE MonitorInv
    OBVIOUS
  <1>1. Condvar!TypeOK
    BY PhilAssumption DEF Condvar!Init, Condvar!TypeOK, Condvar!Labels, Condvar!Semaphores, Condvar!sem_init
  <1>2. QueuesOK
    <2>1. /\ mt_mutex.wait_queue = <<>> /\ mt_next.wait_queue = <<>>
          /\ \A i \in Condvar!Phil : cv_sem[i].wait_queue = <<>>
      BY DEF Condvar!Init, Condvar!sem_init
    <2>2. Once(<<>>) /\ \A i : ~On(<<>>, i) /\ <<i>> # <<>>
      BY DEF Once, On
    <2> QED  BY <2>1, <2>2 DEF QueuesOK
  <1>3. OneInside
    <2>1. \A i \in Condvar!Phil : ~In(i)
      BY DEF Condvar!Init, In, Condvar!Inside
    <2>2. /\ mt_mutex.value = 1 /\ mt_next.value = 0
          /\ \A j \in Condvar!Phil : cv_sem[j].value = 0
      BY DEF Condvar!Init, Condvar!sem_init
    <2> QED  BY <2>1, <2>2 DEF OneInside
  <1>4. MonitorCounts
    <2>1. {i \in Condvar!Phil : pc_condvar[i] \in DOMAIN Condvar!Behind} = {}
      BY BehindProperties DEF Condvar!Init
    <2>2. Cardinality({}) = 0
      BY FS_EmptySet
    <2> QED  BY <2>1, <2>2 DEF Condvar!Init, MonitorCounts
  <1>5. MonitorNeighbours
    BY MonitorRing DEF Condvar!Init, MonitorNeighbours
  <1>6. \A i \in Condvar!Phil : MonitorSeat(i)
    BY PhilAssumption DEF Condvar!Init, MonitorSeat
  <1> QED  BY <1>1, <1>2, <1>3, <1>4, <1>5, <1>6 DEF MonitorInv

\* While philosopher i executes inside the monitor everybody else inside sleeps.
LEMMA Alone ==
    ASSUME MonitorInv, NEW i \in Condvar!Phil, In(i)
    PROVE  /\ mt_mutex.value = 0
           /\ Free(i)
           /\ \A k \in Condvar!Phil : k # i /\ pc_condvar[k] \in Condvar!Inside => ~Free(k)
  <1>1. \A k \in Condvar!Phil : Condvar!Awake(k) <=> Free(k)
    BY AwakeIsFree DEF MonitorInv
  <1> QED  BY <1>1 DEF MonitorInv, OneInside, In

\* The state after a step in which only w is left executing inside the monitor.
LEMMA OnlyInside ==
    ASSUME QueuesOK', NEW w \in Condvar!Phil,
           mt_mutex'.value = 0, mt_next'.value = 0, \A j \in Condvar!Phil : cv_sem'[j].value = 0,
           \A k \in Condvar!Phil : pc_condvar'[k] \in Condvar!Inside /\ Free(k)' <=> k = w
    PROVE  OneInside'
  <1>1. \A k \in Condvar!Phil : Condvar!Awake(k)' <=> Free(k)'
    BY AwakeIsFreeNext
  <1>2. \A k \in Condvar!Phil : In(k)' <=> k = w
    BY <1>1 DEF In, Condvar!Inside
  <1> QED  BY <1>2 DEF OneInside

\* The state after a step in which nobody is left.
LEMMA NobodyInside ==
    ASSUME QueuesOK',
           mt_mutex'.value = 1, mt_next'.value = 0, \A j \in Condvar!Phil : cv_sem'[j].value = 0,
           \A k \in Condvar!Phil : ~(pc_condvar'[k] \in Condvar!Inside /\ Free(k)')
    PROVE  OneInside'
  <1>1. \A k \in Condvar!Phil : Condvar!Awake(k)' <=> Free(k)'
    BY AwakeIsFreeNext
  <1>2. \A k \in Condvar!Phil : ~In(k)'
    BY <1>1 DEF In, Condvar!Inside
  <1> QED  BY <1>2 DEF OneInside

\* A step inside the monitor that neither waits nor signals.
LEMMA LocalStep ==
    ASSUME MonitorInv, NEW i \in Condvar!Phil, In(i), NEW l \in Condvar!Inside,
           pc_condvar' = [pc_condvar EXCEPT ![i] = l],
           UNCHANGED <<mt_mutex, mt_next, cv_sem>>
    PROVE  QueuesOK' /\ OneInside'
  <1>1. /\ mt_mutex.value = 0 /\ Free(i)
        /\ \A k \in Condvar!Phil : k # i /\ pc_condvar[k] \in Condvar!Inside => ~Free(k)
    BY Alone
  <1>2. /\ pc_condvar'[i] = l
        /\ \A k \in Condvar!Phil : k # i => pc_condvar'[k] = pc_condvar[k]
        /\ \A k \in Condvar!Phil : Free(k)' <=> Free(k)
    BY DEF MonitorInv, Condvar!TypeOK, Free
  <1>3. QueuesOK'
    <2>1. <<i>> # <<>>
      OBVIOUS
    <2> QED  BY <1>1, <1>2, <2>1 DEF MonitorInv, QueuesOK, Free
  <1>4. \A k \in Condvar!Phil : pc_condvar'[k] \in Condvar!Inside /\ Free(k)' <=> k = i
    BY <1>1, <1>2
  <1>5. mt_mutex'.value = 0 /\ mt_next'.value = 0 /\ \A j \in Condvar!Phil : cv_sem'[j].value = 0
    BY <1>1 DEF MonitorInv, OneInside
  <1> QED  BY <1>3, <1>4, <1>5, OnlyInside

\* down(&(mtp->mutex)): philosopher i comes in from outside, or queues.
LEMMA EnterStep ==
    ASSUME MonitorInv, NEW i \in Condvar!Phil, pc_condvar[i] \in {"think", "eat"}, Condvar!Awake(i),
           NEW l \in {"take", "put"},
           pc_condvar' = [pc_condvar EXCEPT ![i] = l],
           mt_mutex' = Condvar!down(mt_mutex, i), UNCHANGED <<mt_next, cv_sem>>
    PROVE  mt_mutex' \in Condvar!Semaphores(Condvar!Phil) /\ QueuesOK' /\ OneInside'
  <1>1. /\ mt_mutex \in Condvar!Semaphores(Condvar!Phil)
        /\ QueuesOK /\ OneInside
        /\ \A k \in Condvar!Phil : Condvar!Awake(k) <=> Free(k)
        /\ Once(mt_mutex.wait_queue) /\ ~On(mt_mutex.wait_queue, i) /\ Free(i)
    BY AwakeIsFree DEF MonitorInv, Condvar!TypeOK, QueuesOK, Free
  <1>2. /\ pc_condvar'[i] = l
        /\ \A k \in Condvar!Phil : k # i => pc_condvar'[k] = pc_condvar[k]
    BY DEF MonitorInv, Condvar!TypeOK
  <1>3. mt_mutex' \in Condvar!Semaphores(Condvar!Phil)
    BY <1>1, DownEffect
  <1>4. CASE mt_mutex.value = 1
    <2>1. mt_mutex'.value = 0 /\ mt_mutex'.wait_queue = mt_mutex.wait_queue
      BY <1>1, <1>4, DownEffect
    <2>2. \A k \in Condvar!Phil : Free(k)' <=> Free(k)
      BY <2>1 DEF Free
    <2>3. QueuesOK'
      <3>1. <<i>> # <<>>
        OBVIOUS
      <3> QED  BY <1>1, <1>2, <2>1, <3>1 DEF QueuesOK, Free
    <2>4. \A k \in Condvar!Phil : pc_condvar[k] \in Condvar!Inside => ~Free(k)
      BY <1>1, <1>4 DEF OneInside, In
    <2>5. \A k \in Condvar!Phil : pc_condvar'[k] \in Condvar!Inside /\ Free(k)' <=> k = i
      BY <1>1, <1>2, <2>2, <2>4 DEF Condvar!Inside, Condvar!Labels
    <2>6. mt_next'.value = 0 /\ \A j \in Condvar!Phil : cv_sem'[j].value = 0
      BY <1>1 DEF OneInside
    <2> QED  BY <1>3, <2>1, <2>3, <2>5, <2>6, OnlyInside
  <1>5. CASE mt_mutex.value = 0
    <2>1. /\ mt_mutex'.value = 0
          /\ Once(mt_mutex'.wait_queue)
          /\ \A y : On(mt_mutex'.wait_queue, y) <=> On(mt_mutex.wait_queue, y) \/ y = i
      BY <1>1, <1>5, DownEffect
    <2>2. QueuesOK'
      <3>1. <<i>> # <<>>
        OBVIOUS
      <3> QED  BY <1>1, <1>2, <2>1, <3>1 DEF QueuesOK, Free
    <2>3. /\ ~Free(i)'
          /\ \A k \in Condvar!Phil : k # i => (Free(k)' <=> Free(k))
      BY <2>1 DEF Free
    <2>4. PICK w \in Condvar!Phil : In(w) /\ \A k \in Condvar!Phil : In(k) => k = w
      BY <1>1, <1>5 DEF OneInside
    <2>5. w # i
      BY <2>4 DEF In, Condvar!Inside
    <2>6. \A k \in Condvar!Phil : pc_condvar'[k] \in Condvar!Inside /\ Free(k)' <=> k = w
      BY <1>1, <1>2, <2>3, <2>4, <2>5 DEF In
    <2>7. mt_next'.value = 0 /\ \A j \in Condvar!Phil : cv_sem'[j].value = 0
      BY <1>1 DEF OneInside
    <2> QED  BY <1>3, <2>1, <2>2, <2>6, <2>7, OnlyInside
  <1> QED  BY <1>1, <1>3, <1>4, <1>5 DEF OneInside

\* The philosophers in cond_signal that have not gone on.
Signallers == {i \in Condvar!Phil : pc_condvar[i] \in DOMAIN Condvar!Behind}

\* They can be counted.
LEMMA SignallersFinite == IsFiniteSet(Signallers)
  <1>1. IsFiniteSet(Condvar!Phil)
    BY PhilAssumption, FS_Interval DEF Condvar!Phil
  <1> QED  BY <1>1, FS_Subset DEF Signallers

\* next_count > 0 says that somebody is in cond_signal.
LEMMA SomebodySignals ==
    MonitorInv => (mt_next_count > 0 <=> \E w \in Condvar!Phil : pc_condvar[w] \in DOMAIN Condvar!Behind)
  <1> SUFFICES ASSUME MonitorInv
               PROVE  mt_next_count > 0 <=> \E w \in Condvar!Phil : pc_condvar[w] \in DOMAIN Condvar!Behind
    OBVIOUS
  <1>1. mt_next_count = Cardinality(Signallers)
    BY DEF MonitorInv, MonitorCounts, Signallers
  <1>2. Cardinality(Signallers) \in Nat /\ (Cardinality(Signallers) = 0 <=> Signallers = {})
    BY SignallersFinite, FS_CardinalityType, FS_EmptySet
  <1> QED  BY <1>1, <1>2 DEF Signallers

\* The hand-over at the end of a monitor procedure and in cond_wait: a signaller
\* goes on if there is one, else the first at the mutex, else the mutex is open.
LEMMA HandOverStep ==
    ASSUME MonitorInv, NEW i \in Condvar!Phil, In(i), pc_condvar[i] \notin DOMAIN Condvar!Behind,
           Condvar!HandOver, NEW l, pc_condvar' = [pc_condvar EXCEPT ![i] = l],
           cv_sem' \in [Condvar!Phil -> Condvar!Semaphores(Condvar!Phil)],
           \A k \in Condvar!Phil : k # i => cv_sem'[k] = cv_sem[k],
           cv_sem'[i].value = 0,
           \/ l \in {"think", "eat", "quit"} /\ cv_sem'[i].wait_queue = <<>>
           \/ l = "waited" /\ cv_sem'[i].wait_queue = <<i>>
    PROVE  /\ mt_mutex' \in Condvar!Semaphores(Condvar!Phil) /\ mt_next' \in Condvar!Semaphores(Condvar!Phil)
           /\ QueuesOK' /\ OneInside'
  <1>1. /\ mt_mutex \in Condvar!Semaphores(Condvar!Phil) /\ mt_next \in Condvar!Semaphores(Condvar!Phil)
        /\ QueuesOK /\ OneInside
        /\ Once(mt_mutex.wait_queue) /\ Once(mt_next.wait_queue)
        /\ mt_mutex.value = 0 /\ mt_next.value = 0 /\ Free(i)
        /\ \A k \in Condvar!Phil : k # i /\ pc_condvar[k] \in Condvar!Inside => ~Free(k)
    BY Alone DEF MonitorInv, Condvar!TypeOK, QueuesOK, OneInside
  <1>2. /\ pc_condvar'[i] = l
        /\ \A k \in Condvar!Phil : k # i => pc_condvar'[k] = pc_condvar[k]
        /\ <<i>> # <<>>
    BY DEF MonitorInv, Condvar!TypeOK
  <1>3. ~(l \in Condvar!Inside /\ cv_sem'[i].wait_queue = <<>>)
    BY <1>2 DEF Condvar!Inside
  <1>4. \A j \in Condvar!Phil : cv_sem'[j].value = 0
    BY <1>1 DEF OneInside
  \* One process w is taken off its queue.
  <1>5. ASSUME NEW w \in Condvar!Phil,
               On(mt_mutex.wait_queue, w) \/ On(mt_next.wait_queue, w),
               mt_mutex' \in Condvar!Semaphores(Condvar!Phil), mt_next' \in Condvar!Semaphores(Condvar!Phil),
               mt_mutex'.value = 0, mt_next'.value = 0,
               Once(mt_mutex'.wait_queue), Once(mt_next'.wait_queue),
               \A y \in Condvar!Phil : On(mt_mutex'.wait_queue, y) <=> On(mt_mutex.wait_queue, y) /\ y # w,
               \A y \in Condvar!Phil : On(mt_next'.wait_queue, y) <=> On(mt_next.wait_queue, y) /\ y # w
        PROVE  QueuesOK' /\ OneInside'
    <2>1. QueuesOK'
      BY <1>1, <1>2, <1>5 DEF QueuesOK, Free
    <2>2. w # i /\ pc_condvar[w] \in Condvar!Inside /\ cv_sem[w].wait_queue = <<>>
      BY <1>1, <1>5 DEF QueuesOK, Free, Condvar!Inside, Condvar!Labels
    <2>3. /\ \A k \in Condvar!Phil : k # w /\ k # i => (Free(k)' <=> Free(k))
          /\ Free(w)'
      BY <1>5, <2>2 DEF Free
    <2>4. \A k \in Condvar!Phil : pc_condvar'[k] \in Condvar!Inside /\ Free(k)' <=> k = w
      <3>1. ~(pc_condvar'[i] \in Condvar!Inside /\ Free(i)')
        BY <1>2, <1>3 DEF Free
      <3> QED  BY <1>1, <1>2, <2>2, <2>3, <3>1
    <2> QED  BY <1>4, <1>5, <2>1, <2>4, OnlyInside
  <1>6. CASE mt_next_count > 0
    <2>1. mt_next' = Condvar!up(mt_next) /\ mt_mutex' = mt_mutex
      BY <1>6 DEF Condvar!HandOver
    <2>2. PICK b \in Condvar!Phil : pc_condvar[b] \in DOMAIN Condvar!Behind
      BY <1>6, SomebodySignals
    <2>3. On(mt_next.wait_queue, b)
      <3>1. b # i /\ pc_condvar[b] \in Condvar!Inside
        BY <2>2, BehindProperties DEF Condvar!Inside, Condvar!Labels
      <3>2. ~Free(b)
        BY <1>1, <3>1
      <3> QED  BY <1>1, <2>2, <3>2, BehindProperties DEF QueuesOK, Free
    <2>4. mt_next.wait_queue # <<>>
      BY <2>3 DEF On
    <2>5. PICK w \in Condvar!Phil :
             /\ On(mt_next.wait_queue, w)
             /\ \A y : On(mt_next'.wait_queue, y) <=> On(mt_next.wait_queue, y) /\ y # w
      <3>1. \E w \in Condvar!Phil :
              /\ On(mt_next.wait_queue, w)
              /\ \A y : On(Condvar!up(mt_next).wait_queue, y) <=> On(mt_next.wait_queue, y) /\ y # w
        BY <1>1, <2>4, UpEffect
      <3> QED  BY <2>1, <3>1
    <2>6. mt_next' \in Condvar!Semaphores(Condvar!Phil) /\ mt_next'.value = 0 /\ Once(mt_next'.wait_queue)
      BY <1>1, <2>1, <2>4, UpEffect
    <2>7. ~On(mt_mutex.wait_queue, w)
      BY <1>1, <2>5 DEF QueuesOK
    <2> QED  BY <1>1, <1>5, <2>1, <2>5, <2>6, <2>7
  <1>7. CASE ~(mt_next_count > 0)
    <2>1. mt_mutex' = Condvar!up(mt_mutex) /\ mt_next' = mt_next
      BY <1>7 DEF Condvar!HandOver
    <2>2. mt_mutex' \in Condvar!Semaphores(Condvar!Phil)
      BY <1>1, <2>1, UpEffect
    <2>3. \A k \in Condvar!Phil : ~On(mt_next.wait_queue, k)
      BY <1>1, <1>7, SomebodySignals, BehindProperties DEF QueuesOK
    <2>4. CASE mt_mutex.wait_queue # <<>>
      <3>1. PICK w \in Condvar!Phil :
               /\ On(mt_mutex.wait_queue, w)
               /\ \A y : On(mt_mutex'.wait_queue, y) <=> On(mt_mutex.wait_queue, y) /\ y # w
        <4>1. \E w \in Condvar!Phil :
                /\ On(mt_mutex.wait_queue, w)
                /\ \A y : On(Condvar!up(mt_mutex).wait_queue, y) <=> On(mt_mutex.wait_queue, y) /\ y # w
          BY <1>1, <2>4, UpEffect
        <4> QED  BY <2>1, <4>1
      <3>2. mt_mutex'.value = 0 /\ Once(mt_mutex'.wait_queue)
        BY <1>1, <2>1, <2>4, UpEffect
      <3> QED  BY <1>1, <1>5, <2>1, <2>2, <2>3, <3>1, <3>2
    <2>5. CASE mt_mutex.wait_queue = <<>>
      <3>1. mt_mutex'.value = 1 /\ mt_mutex'.wait_queue = mt_mutex.wait_queue
        BY <1>1, <2>1, <2>5, UpEffect
      <3>2. QueuesOK'
        BY <1>1, <1>2, <2>1, <3>1 DEF QueuesOK, Free
      <3>3. \A k \in Condvar!Phil : k # i => (Free(k)' <=> Free(k))
        BY <2>1, <3>1 DEF Free
      <3>4. \A k \in Condvar!Phil : ~(pc_condvar'[k] \in Condvar!Inside /\ Free(k)')
        <4>1. ~(pc_condvar'[i] \in Condvar!Inside /\ Free(i)')
          BY <1>2, <1>3 DEF Free
        <4> QED  BY <1>1, <1>2, <3>3, <4>1
      <3> QED  BY <1>1, <1>4, <2>1, <2>2, <3>1, <3>2, <3>4, NobodyInside
    <2> QED  BY <2>4, <2>5
  <1> QED  BY <1>6, <1>7

\* cond_signal with a waiter: the waiter goes on, and the signaller sleeps on next.
LEMMA SignalStep ==
    ASSUME MonitorInv, NEW i \in Condvar!Phil, In(i), NEW j \in Condvar!Phil, j # i, pc_condvar[j] = "waited",
           NEW l \in {"leftsignalled", "rightsignalled"},
           pc_condvar' = [pc_condvar EXCEPT ![i] = l],
           cv_sem' = [cv_sem EXCEPT ![j] = Condvar!up(cv_sem[j])],
           mt_next' = Condvar!down(mt_next, i), mt_mutex' = mt_mutex
    PROVE  /\ mt_next' \in Condvar!Semaphores(Condvar!Phil) /\ cv_sem' \in [Condvar!Phil -> Condvar!Semaphores(Condvar!Phil)]
           /\ cv_sem[j].wait_queue = <<j>> /\ cv_sem'[j].wait_queue = <<>>
           /\ QueuesOK' /\ OneInside'
  <1>1. /\ mt_next \in Condvar!Semaphores(Condvar!Phil) /\ cv_sem \in [Condvar!Phil -> Condvar!Semaphores(Condvar!Phil)]
        /\ QueuesOK /\ OneInside
        /\ Once(mt_next.wait_queue)
        /\ mt_mutex.value = 0 /\ mt_next.value = 0 /\ Free(i)
        /\ \A k \in Condvar!Phil : k # i /\ pc_condvar[k] \in Condvar!Inside => ~Free(k)
    BY Alone DEF MonitorInv, Condvar!TypeOK, QueuesOK, OneInside
  <1>2. /\ pc_condvar'[i] = l
        /\ \A k \in Condvar!Phil : k # i => pc_condvar'[k] = pc_condvar[k]
    BY DEF MonitorInv, Condvar!TypeOK
  <1>3. cv_sem[j].wait_queue = <<j>>
    <2>1. ~Free(j)
      BY <1>1 DEF Condvar!Inside, Condvar!Labels
    <2> QED  BY <1>1, <2>1 DEF QueuesOK, Free
  <1>4. Condvar!up(cv_sem[j]) \in Condvar!Semaphores(Condvar!Phil) /\ Condvar!up(cv_sem[j]).value = 0 /\ Condvar!up(cv_sem[j]).wait_queue = <<>>
    <2>1. Condvar!up(cv_sem[j]) \in Condvar!Semaphores(Condvar!Phil)
      BY <1>1, UpEffect
    <2>2. cv_sem[j].value = 0 /\ cv_sem[j] \in [value : Nat, wait_queue : Seq(Condvar!Phil)]
      BY <1>1 DEF OneInside, Condvar!Semaphores
    <2>3. <<j>> # <<>> /\ Tail(<<j>>) = <<>>
      OBVIOUS
    <2>4. Condvar!up(cv_sem[j]) = [cv_sem[j] EXCEPT !.wait_queue = <<>>]
      BY <1>3, <2>3 DEF Condvar!up
    <2> QED  BY <2>1, <2>2, <2>4
  <1>5. /\ cv_sem' \in [Condvar!Phil -> Condvar!Semaphores(Condvar!Phil)]
        /\ cv_sem'[j].value = 0 /\ cv_sem'[j].wait_queue = <<>>
        /\ \A k \in Condvar!Phil : k # j => cv_sem'[k] = cv_sem[k]
    BY <1>1, <1>4
  <1>6. /\ mt_next' \in Condvar!Semaphores(Condvar!Phil) /\ mt_next'.value = 0
        /\ Once(mt_next'.wait_queue)
        /\ \A y : On(mt_next'.wait_queue, y) <=> On(mt_next.wait_queue, y) \/ y = i
    <2>1. ~On(mt_next.wait_queue, i)
      BY <1>1 DEF Free
    <2> QED  BY <1>1, <2>1, DownEffect
  <1>7. QueuesOK'
    <2>1. <<i>> # <<>> /\ <<j>> # <<>>
      OBVIOUS
    <2>2. ASSUME NEW k \in Condvar!Phil
          PROVE  /\ On(mt_mutex'.wait_queue, k) => pc_condvar'[k] \in {"take", "put"}
                 /\ On(mt_next'.wait_queue, k) => pc_condvar'[k] \in {"leftsignalled", "rightsignalled"}
                 /\ cv_sem'[k].wait_queue \in {<<>>, <<k>>}
                 /\ cv_sem'[k].wait_queue = <<k>> => pc_condvar'[k] = "waited"
      <3>1. CASE k = i
        BY <1>1, <1>2, <1>5, <1>6, <2>1, <3>1 DEF QueuesOK, Free
      <3>2. CASE k # i
        BY <1>1, <1>2, <1>5, <1>6, <2>1, <3>2 DEF QueuesOK
      <3> QED  BY <3>1, <3>2
    <2> QED  BY <1>1, <1>6, <2>2 DEF QueuesOK
  <1>8. \A k \in Condvar!Phil : pc_condvar'[k] \in Condvar!Inside /\ Free(k)' <=> k = j
    <2>1. /\ Free(j)' /\ pc_condvar'[j] \in Condvar!Inside
      BY <1>1, <1>2, <1>5, <1>6 DEF Free, QueuesOK, Condvar!Inside, Condvar!Labels
    <2>2. ~Free(i)'
      BY <1>6 DEF Free
    <2>3. \A k \in Condvar!Phil : k # i /\ k # j => (Free(k)' <=> Free(k))
      BY <1>5, <1>6 DEF Free
    <2> QED  BY <1>1, <1>2, <2>1, <2>2, <2>3
  <1>9. mt_mutex'.value = 0 /\ \A k \in Condvar!Phil : cv_sem'[k].value = 0
    BY <1>1, <1>5 DEF OneInside
  <1> QED  BY <1>3, <1>5, <1>6, <1>7, <1>8, <1>9, OnlyInside

\* The counters, for a step of philosopher i that neither enters nor leaves
\* cond_signal, one that enters it and one that leaves it.
LEMMA CountKept ==
    ASSUME MonitorInv, NEW i \in Condvar!Phil, NEW l, pc_condvar' = [pc_condvar EXCEPT ![i] = l],
           pc_condvar[i] \notin DOMAIN Condvar!Behind, l \notin DOMAIN Condvar!Behind, mt_next_count' = mt_next_count
    PROVE  mt_next_count' = Cardinality({k \in Condvar!Phil : pc_condvar'[k] \in DOMAIN Condvar!Behind})
  <1>1. {k \in Condvar!Phil : pc_condvar'[k] \in DOMAIN Condvar!Behind} = Signallers
    BY DEF MonitorInv, Condvar!TypeOK, Signallers
  <1> QED  BY <1>1 DEF MonitorInv, MonitorCounts, Signallers

\* cond_signal counts itself in next_count before it sleeps.
LEMMA CountUp ==
    ASSUME MonitorInv, NEW i \in Condvar!Phil, NEW l, pc_condvar' = [pc_condvar EXCEPT ![i] = l],
           pc_condvar[i] \notin DOMAIN Condvar!Behind, l \in DOMAIN Condvar!Behind, mt_next_count' = mt_next_count + 1
    PROVE  mt_next_count' = Cardinality({k \in Condvar!Phil : pc_condvar'[k] \in DOMAIN Condvar!Behind})
  <1>1. {k \in Condvar!Phil : pc_condvar'[k] \in DOMAIN Condvar!Behind} = Signallers \cup {i}
    BY DEF MonitorInv, Condvar!TypeOK, Signallers
  <1>2. i \notin Signallers
    BY DEF Signallers
  <1>3. Cardinality(Signallers \cup {i}) = Cardinality(Signallers) + 1
    BY <1>2, SignallersFinite, FS_AddElement
  <1> QED  BY <1>1, <1>3 DEF MonitorInv, MonitorCounts, Signallers

\* cond_signal takes itself off next_count when it goes on.
LEMMA CountDown ==
    ASSUME MonitorInv, NEW i \in Condvar!Phil, NEW l, pc_condvar' = [pc_condvar EXCEPT ![i] = l],
           pc_condvar[i] \in DOMAIN Condvar!Behind, l \notin DOMAIN Condvar!Behind, mt_next_count' = mt_next_count - 1
    PROVE  /\ mt_next_count' = Cardinality({k \in Condvar!Phil : pc_condvar'[k] \in DOMAIN Condvar!Behind})
           /\ mt_next_count' \in Nat
  <1>1. {k \in Condvar!Phil : pc_condvar'[k] \in DOMAIN Condvar!Behind} = Signallers \ {i}
    BY DEF MonitorInv, Condvar!TypeOK, Signallers
  <1>2. i \in Signallers
    BY DEF Signallers
  <1>3. /\ Cardinality(Signallers \ {i}) = Cardinality(Signallers) - 1
        /\ IsFiniteSet(Signallers \ {i})
    BY <1>2, SignallersFinite, FS_RemoveElement
  <1>4. Cardinality(Signallers \ {i}) \in Nat
    BY <1>3, FS_CardinalityType
  <1> QED  BY <1>1, <1>3, <1>4 DEF MonitorInv, MonitorCounts, Signallers

\* The table after phi_test_condvar has let j eat.
LEMMA GrantKeepsNeighbours ==
    ASSUME MonitorInv, NEW j \in Condvar!Phil, Condvar!MayEat(j),
           state_condvar' = [state_condvar EXCEPT ![j] = "EATING"]
    PROVE  MonitorNeighbours'
  <1>1. /\ state_condvar[Condvar!LEFT(j)] # "EATING" /\ state_condvar[Condvar!RIGHT(j)] # "EATING"
        /\ state_condvar'[j] = "EATING"
        /\ \A k \in Condvar!Phil : k # j => state_condvar'[k] = state_condvar[k]
    BY DEF Condvar!MayEat, MonitorInv, Condvar!TypeOK
  <1> SUFFICES ASSUME NEW k \in Condvar!Phil, state_condvar'[k] = "EATING"
               PROVE  state_condvar'[Condvar!LEFT(k)] # "EATING" /\ state_condvar'[Condvar!RIGHT(k)] # "EATING"
    BY DEF MonitorNeighbours
  <1>2. CASE k = j
    BY <1>1, <1>2, MonitorRing
  <1>3. CASE k # j
    <2>1. Condvar!LEFT(k) \in Condvar!Phil /\ Condvar!RIGHT(k) \in Condvar!Phil /\ Condvar!LEFT(k) # j /\ Condvar!RIGHT(k) # j
      BY <1>1, <1>3, MonitorRing
    <2> QED  BY <1>1, <1>3, <2>1 DEF MonitorInv, MonitorNeighbours
  <1> QED  BY <1>2, <1>3

\* phi_put_forks_condvar tests a neighbour: if that one may eat it waits on its
\* condition, so cond_signal wakes it.
LEMMA TestNeighbour ==
    ASSUME MonitorInv, NEW i \in Condvar!Phil, In(i), NEW j \in Condvar!Phil, j # i,
           NEW l \in {"leftsignalled", "rightsignalled"},
           pc_condvar[i] \in {"testleft", "testright"},
           Condvar!phi_test_condvar(i, j, l), iter_condvar' = iter_condvar
    PROVE  MonitorInv'
  <1>1. /\ Condvar!TypeOK /\ QueuesOK /\ OneInside /\ MonitorCounts /\ MonitorNeighbours
        /\ \A k \in Condvar!Phil : MonitorSeat(k)
        /\ state_condvar \in [Condvar!Phil -> {"THINKING", "HUNGRY", "EATING"}]
        /\ pc_condvar \in [Condvar!Phil -> Condvar!Labels]
        /\ mt_next_count \in Nat
    BY DEF MonitorInv, Condvar!TypeOK
  <1>2. /\ Condvar!Behind[l] \in {"testright", "putleave"} /\ Condvar!Behind[l] \in Condvar!Inside
        /\ Condvar!Behind[l] \notin DOMAIN Condvar!Behind /\ l \in DOMAIN Condvar!Behind
        /\ pc_condvar[i] \notin DOMAIN Condvar!Behind
        /\ Condvar!Behind[l] \in Condvar!Labels /\ l \in Condvar!Labels
    BY BehindProperties DEF Condvar!Inside, Condvar!Labels
  <1>3. CASE Condvar!MayEat(j)
    <2>1. /\ pc_condvar[j] = "waited" /\ cv_count[j] = 1
      <3>1. pc_condvar[j] \in {"taketest", "hungry", "waited"}
        BY <1>1, <1>3 DEF Condvar!MayEat, MonitorSeat, Condvar!Labels
      <3>2. pc_condvar[j] \in {"taketest", "hungry"} => Free(j)
        BY <1>1 DEF QueuesOK, Free
      <3>3. ~Free(j)
        BY <3>1, Alone DEF Condvar!Inside, Condvar!Labels
      <3>4. pc_condvar[j] = "waited"
        BY <3>1, <3>2, <3>3
      <3> QED  BY <1>1, <3>4 DEF MonitorCounts
    <2>2. /\ state_condvar' = [state_condvar EXCEPT ![j] = "EATING"]
          /\ mt_next_count' = mt_next_count + 1
          /\ cv_sem' = [cv_sem EXCEPT ![j] = Condvar!up(cv_sem[j])]
          /\ mt_next' = Condvar!down(mt_next, i)
          /\ pc_condvar' = [pc_condvar EXCEPT ![i] = l]
          /\ UNCHANGED <<mt_mutex, cv_count>>
      BY <1>3, <2>1 DEF Condvar!phi_test_condvar, Condvar!Signal, Condvar!Goto
    <2>3. /\ mt_next' \in Condvar!Semaphores(Condvar!Phil) /\ cv_sem' \in [Condvar!Phil -> Condvar!Semaphores(Condvar!Phil)]
          /\ cv_sem'[j].wait_queue = <<>>
          /\ QueuesOK' /\ OneInside'
      BY <2>1, <2>2, SignalStep
    <2>4. /\ pc_condvar'[i] = l
          /\ state_condvar'[j] = "EATING"
          /\ \A k \in Condvar!Phil : k # i => pc_condvar'[k] = pc_condvar[k]
          /\ \A k \in Condvar!Phil : k # j => state_condvar'[k] = state_condvar[k] /\ cv_sem'[k] = cv_sem[k]
      BY <1>1, <2>2 DEF MonitorInv, Condvar!TypeOK
    <2>5. Condvar!TypeOK'
      BY <1>1, <1>2, <2>2, <2>3 DEF Condvar!TypeOK
    <2>6. MonitorCounts'
      <3>1. mt_next_count' = Cardinality({k \in Condvar!Phil : pc_condvar'[k] \in DOMAIN Condvar!Behind})
        BY <1>2, <2>2, CountUp
      <3>2. \A k \in Condvar!Phil : cv_count'[k] = IF pc_condvar'[k] = "waited" THEN 1 ELSE 0
        BY <1>1, <2>2, <2>4 DEF MonitorCounts
      <3> QED  BY <3>1, <3>2 DEF MonitorCounts
    <2>7. MonitorNeighbours'
      BY <1>3, <2>2, GrantKeepsNeighbours
    <2>8. ASSUME NEW k \in Condvar!Phil  PROVE MonitorSeat(k)'
      <3>1. CASE k = i
        <4>1. state_condvar[i] = "THINKING" /\ iter_condvar[i] < TIMES
          BY <1>1 DEF MonitorSeat
        <4> QED  BY <2>4, <3>1, <4>1 DEF MonitorSeat
      <3>2. CASE k = j
        <4>1. <<j>> # <<>> /\ iter_condvar[j] < TIMES
          BY <1>1, <2>1 DEF MonitorSeat
        <4>2. pc_condvar'[j] = "waited" /\ state_condvar'[j] = "EATING" /\ cv_sem'[j].wait_queue # <<j>>
          BY <2>1, <2>3, <2>4, <4>1
        <4> QED  BY <3>2, <4>1, <4>2 DEF MonitorSeat
      <3>3. CASE k # i /\ k # j
        <4>1. /\ pc_condvar'[k] = pc_condvar[k] /\ state_condvar'[k] = state_condvar[k] /\ cv_sem'[k] = cv_sem[k]
          BY <2>4, <3>3
        <4> QED  BY <1>1, <4>1 DEF MonitorSeat
      <3> QED  BY <3>1, <3>2, <3>3
    <2> QED  BY <2>3, <2>5, <2>6, <2>7, <2>8 DEF MonitorInv
  <1>4. CASE ~Condvar!MayEat(j)
    <2>1. /\ pc_condvar' = [pc_condvar EXCEPT ![i] = Condvar!Behind[l]]
          /\ UNCHANGED <<state_condvar, mt_mutex, mt_next, mt_next_count, cv_sem, cv_count>>
      BY <1>4 DEF Condvar!phi_test_condvar, Condvar!Goto, Condvar!monitor
    <2>2. QueuesOK' /\ OneInside'
      BY <1>2, <2>1, LocalStep
    <2>3. pc_condvar'[i] = Condvar!Behind[l] /\ \A k \in Condvar!Phil : k # i => pc_condvar'[k] = pc_condvar[k]
      BY <1>1, <2>1
    <2>4. Condvar!TypeOK'
      BY <1>1, <1>2, <2>1 DEF Condvar!TypeOK
    <2>5. MonitorCounts'
      <3>1. mt_next_count' = Cardinality({k \in Condvar!Phil : pc_condvar'[k] \in DOMAIN Condvar!Behind})
        BY <1>2, <2>1, CountKept
      <3>2. \A k \in Condvar!Phil : cv_count'[k] = IF pc_condvar'[k] = "waited" THEN 1 ELSE 0
        BY <1>1, <1>2, <2>1, <2>3 DEF MonitorCounts
      <3> QED  BY <3>1, <3>2 DEF MonitorCounts
    <2>6. MonitorNeighbours'
      BY <1>1, <2>1 DEF MonitorNeighbours
    <2>7. ASSUME NEW k \in Condvar!Phil  PROVE MonitorSeat(k)'
      <3>1. CASE k = i
        BY <1>1, <1>2, <2>1, <2>3, <3>1 DEF MonitorSeat
      <3>2. CASE k # i
        BY <1>1, <2>1, <2>3, <3>2 DEF MonitorSeat
      <3> QED  BY <3>1, <3>2
    <2> QED  BY <2>2, <2>4, <2>5, <2>6, <2>7 DEF MonitorInv
  <1> QED  BY <1>3, <1>4

\* A step of philosopher i that does not wait or signal: what is left to look at
\* is its own seat and count, the table and the number of signallers.
LEMMA LocalKeeps ==
    ASSUME MonitorInv, NEW i \in Condvar!Phil, In(i), NEW l \in Condvar!Inside,
           pc_condvar' = [pc_condvar EXCEPT ![i] = l],
           UNCHANGED <<mt_mutex, mt_next, cv_sem, iter_condvar>>,
           state_condvar' \in [Condvar!Phil -> {"THINKING", "HUNGRY", "EATING"}],
           cv_count' \in [Condvar!Phil -> Nat], mt_next_count' \in Nat,
           \A k \in Condvar!Phil : k # i => /\ state_condvar'[k] = state_condvar[k]
                                            /\ cv_count'[k] = cv_count[k],
           MonitorNeighbours', MonitorSeat(i)',
           cv_count'[i] = IF l = "waited" THEN 1 ELSE 0,
           mt_next_count' = Cardinality({k \in Condvar!Phil : pc_condvar'[k] \in DOMAIN Condvar!Behind})
    PROVE  MonitorInv'
  <1>1. QueuesOK' /\ OneInside'
    BY LocalStep
  <1>2. /\ pc_condvar'[i] = l /\ l \in Condvar!Labels
        /\ \A k \in Condvar!Phil : k # i => pc_condvar'[k] = pc_condvar[k]
    BY DEF MonitorInv, Condvar!TypeOK, Condvar!Inside
  <1>3. Condvar!TypeOK'
    BY <1>2 DEF MonitorInv, Condvar!TypeOK
  <1>4. MonitorCounts'
    BY <1>2 DEF MonitorInv, MonitorCounts
  <1>5. ASSUME NEW k \in Condvar!Phil, k # i  PROVE MonitorSeat(k)'
    <2>1. MonitorSeat(k) /\ pc_condvar'[k] = pc_condvar[k] /\ state_condvar'[k] = state_condvar[k]
      BY <1>2, <1>5 DEF MonitorInv
    <2> QED  BY <2>1 DEF MonitorSeat
  <1> QED  BY <1>1, <1>3, <1>4, <1>5 DEF MonitorInv

\* A step of philosopher i that hands the monitor over and leaves or waits.
LEMMA LeaveKeeps ==
    ASSUME MonitorInv, NEW i \in Condvar!Phil, In(i), pc_condvar[i] \notin DOMAIN Condvar!Behind, Condvar!HandOver,
           NEW l, pc_condvar' = [pc_condvar EXCEPT ![i] = l],
           cv_sem' \in [Condvar!Phil -> Condvar!Semaphores(Condvar!Phil)],
           \A k \in Condvar!Phil : k # i => /\ cv_sem'[k] = cv_sem[k] /\ iter_condvar'[k] = iter_condvar[k]
                                            /\ cv_count'[k] = cv_count[k],
           cv_sem'[i].value = 0,
           \/ l \in {"think", "eat", "quit"} /\ cv_sem'[i].wait_queue = <<>> /\ cv_count'[i] = 0
           \/ l = "waited" /\ cv_sem'[i].wait_queue = <<i>> /\ cv_count'[i] = 1,
           cv_count' \in [Condvar!Phil -> Nat], iter_condvar' \in [Condvar!Phil -> 0 .. TIMES],
           UNCHANGED <<state_condvar, mt_next_count>>,
           MonitorSeat(i)'
    PROVE  MonitorInv'
  <1>1. /\ mt_mutex' \in Condvar!Semaphores(Condvar!Phil) /\ mt_next' \in Condvar!Semaphores(Condvar!Phil)
        /\ QueuesOK' /\ OneInside'
    BY HandOverStep
  <1>2. /\ pc_condvar'[i] = l
        /\ \A k \in Condvar!Phil : k # i => pc_condvar'[k] = pc_condvar[k]
    BY DEF MonitorInv, Condvar!TypeOK
  <1>3. l \in Condvar!Labels /\ l \notin DOMAIN Condvar!Behind
    BY BehindProperties DEF Condvar!Labels
  <1>4. Condvar!TypeOK'
    BY <1>1, <1>2, <1>3 DEF MonitorInv, Condvar!TypeOK
  <1>5. MonitorCounts'
    <2>1. mt_next_count' = Cardinality({k \in Condvar!Phil : pc_condvar'[k] \in DOMAIN Condvar!Behind})
      BY <1>3, CountKept
    <2>2. \A k \in Condvar!Phil : cv_count'[k] = IF pc_condvar'[k] = "waited" THEN 1 ELSE 0
      BY <1>2 DEF MonitorInv, MonitorCounts
    <2> QED  BY <2>1, <2>2 DEF MonitorCounts
  <1>6. MonitorNeighbours'
    BY DEF MonitorInv, MonitorNeighbours
  <1>7. ASSUME NEW k \in Condvar!Phil, k # i  PROVE MonitorSeat(k)'
    <2>1. MonitorSeat(k) /\ pc_condvar'[k] = pc_condvar[k] /\ cv_sem'[k] = cv_sem[k] /\ iter_condvar'[k] = iter_condvar[k]
      BY <1>2, <1>7 DEF MonitorInv
    <2> QED  BY <2>1 DEF MonitorSeat
  <1> QED  BY <1>1, <1>4, <1>5, <1>6, <1>7 DEF MonitorInv

\* Every step of a philosopher keeps the invariant.
LEMMA MonitorStepKeeps == ASSUME MonitorInv, NEW i \in Condvar!Phil, Condvar!Step(i)  PROVE MonitorInv'
  <1>1. /\ state_condvar \in [Condvar!Phil -> {"THINKING", "HUNGRY", "EATING"}]
        /\ mt_next_count \in Nat
        /\ cv_sem \in [Condvar!Phil -> Condvar!Semaphores(Condvar!Phil)]
        /\ cv_count \in [Condvar!Phil -> Nat]
        /\ pc_condvar \in [Condvar!Phil -> Condvar!Labels]
        /\ iter_condvar \in [Condvar!Phil -> 0 .. TIMES]
        /\ TIMES \in Nat
        /\ MonitorSeat(i) /\ MonitorNeighbours
        /\ cv_count[i] = IF pc_condvar[i] = "waited" THEN 1 ELSE 0
    BY PhilAssumption DEF MonitorInv, Condvar!TypeOK, MonitorCounts
  <1>2. ASSUME NEW l \in Condvar!Inside, Condvar!At(i, l)
        PROVE  /\ pc_condvar[i] = l /\ In(i)
               /\ cv_sem[i].wait_queue = <<>> /\ cv_sem[i].value = 0
    <2>1. pc_condvar[i] = l /\ In(i)
      BY <1>2 DEF Condvar!At, In
    <2> QED  BY <2>1, Alone DEF MonitorInv, OneInside, Free
  <1>3. /\ {"take", "taketest", "hungry", "waited", "takeleave", "put", "testleft",
            "testright", "putleave"} \subseteq Condvar!Inside
        /\ {"take", "taketest", "hungry", "waited", "takeleave", "put", "testleft",
            "testright", "putleave"} \cap DOMAIN Condvar!Behind = {}
        /\ DOMAIN Condvar!Behind \subseteq Condvar!Inside
    BY BehindProperties DEF Condvar!Inside, Condvar!Labels
  <1>4. CASE Condvar!Enter(i)
    <2>1. PICK l \in {"take", "put"} :
             /\ pc_condvar' = [pc_condvar EXCEPT ![i] = l]
             /\ pc_condvar[i] = IF l = "take" THEN "think" ELSE "eat"
      BY <1>4 DEF Condvar!Enter, Condvar!At, Condvar!Goto
    <2>2. /\ Condvar!Awake(i) /\ mt_mutex' = Condvar!down(mt_mutex, i)
          /\ UNCHANGED <<state_condvar, mt_next, mt_next_count, cv_sem, cv_count, iter_condvar>>
      BY <1>4 DEF Condvar!Enter, Condvar!At
    <2>3. mt_mutex' \in Condvar!Semaphores(Condvar!Phil) /\ QueuesOK' /\ OneInside'
      BY <2>1, <2>2, EnterStep
    <2>4. /\ pc_condvar'[i] = l
          /\ \A k \in Condvar!Phil : k # i => pc_condvar'[k] = pc_condvar[k]
      BY <1>1, <2>1
    <2>5. Condvar!TypeOK'
      BY <2>1, <2>2, <2>3 DEF MonitorInv, Condvar!TypeOK, Condvar!Labels
    <2>6. MonitorCounts'
      <3>1. mt_next_count' = Cardinality({k \in Condvar!Phil : pc_condvar'[k] \in DOMAIN Condvar!Behind})
        BY <2>1, <2>2, CountKept, BehindProperties
      <3>2. \A k \in Condvar!Phil : cv_count'[k] = IF pc_condvar'[k] = "waited" THEN 1 ELSE 0
        BY <2>1, <2>2, <2>4 DEF MonitorInv, MonitorCounts
      <3> QED  BY <3>1, <3>2 DEF MonitorCounts
    <2>7. MonitorNeighbours'
      BY <1>1, <2>2 DEF MonitorNeighbours
    <2>8. ASSUME NEW k \in Condvar!Phil  PROVE MonitorSeat(k)'
      <3>1. CASE k = i
        BY <1>1, <2>1, <2>2, <2>4, <3>1 DEF MonitorSeat
      <3>2. CASE k # i
        <4>1. MonitorSeat(k) /\ pc_condvar'[k] = pc_condvar[k]
          BY <2>4, <3>2 DEF MonitorInv
        <4> QED  BY <2>2, <4>1 DEF MonitorSeat
      <3> QED  BY <3>1, <3>2
    <2> QED  BY <2>3, <2>5, <2>6, <2>7, <2>8 DEF MonitorInv
  <1>5. CASE Condvar!TakeHungry(i)
    <2>1. pc_condvar[i] = "take" /\ In(i)
      BY <1>2, <1>3, <1>5 DEF Condvar!TakeHungry
    <2>2. /\ state_condvar' = [state_condvar EXCEPT ![i] = "HUNGRY"]
          /\ pc_condvar' = [pc_condvar EXCEPT ![i] = "taketest"]
          /\ UNCHANGED <<mt_mutex, mt_next, mt_next_count, cv_sem, cv_count, iter_condvar>>
      BY <1>5 DEF Condvar!TakeHungry, Condvar!Goto, Condvar!monitor
    <2>3. MonitorSeat(i)' /\ MonitorNeighbours'
      BY <1>1, <2>1, <2>2, MonitorRing DEF MonitorSeat, MonitorNeighbours
    <2>4. mt_next_count' = Cardinality({k \in Condvar!Phil : pc_condvar'[k] \in DOMAIN Condvar!Behind})
      BY <1>3, <2>1, <2>2, CountKept
    <2> QED  BY <1>1, <1>3, <2>1, <2>2, <2>3, <2>4, LocalKeeps
  <1>6. CASE Condvar!TakeTest(i)
    <2>1. pc_condvar[i] = "taketest" /\ In(i)
      BY <1>2, <1>3, <1>6 DEF Condvar!TakeTest
    <2>2. /\ pc_condvar' = [pc_condvar EXCEPT ![i] = "hungry"]
          /\ UNCHANGED <<mt_mutex, mt_next, mt_next_count, cv_sem, cv_count, iter_condvar>>
          /\ \/ state_condvar' = state_condvar
             \/ /\ Condvar!MayEat(i)
                /\ state_condvar' = [state_condvar EXCEPT ![i] = "EATING"]
      BY <1>1, <1>6, <2>1, BehindProperties
      DEF Condvar!TakeTest, Condvar!phi_test_condvar, Condvar!Signal, Condvar!Goto, Condvar!monitor
    <2>3. MonitorSeat(i)'
      BY <1>1, <2>1, <2>2 DEF MonitorSeat
    <2>4. MonitorNeighbours'
      <3>1. CASE state_condvar' = state_condvar
        BY <1>1, <3>1 DEF MonitorNeighbours
      <3>2. CASE state_condvar' # state_condvar
        BY <2>2, <3>2, GrantKeepsNeighbours
      <3> QED  BY <3>1, <3>2
    <2>5. mt_next_count' = Cardinality({k \in Condvar!Phil : pc_condvar'[k] \in DOMAIN Condvar!Behind})
      BY <1>3, <2>1, <2>2, CountKept
    <2> QED  BY <1>1, <1>3, <2>1, <2>2, <2>3, <2>4, <2>5, LocalKeeps
  <1>7. CASE Condvar!TakeWait(i)
    <2>1. /\ pc_condvar[i] = "hungry" /\ In(i)
          /\ cv_sem[i].wait_queue = <<>> /\ cv_sem[i].value = 0
      BY <1>2, <1>3, <1>7 DEF Condvar!TakeWait
    <2>2. CASE state_condvar[i] = "HUNGRY"
      <3>1. /\ cv_count' = [cv_count EXCEPT ![i] = cv_count[i] + 1]
            /\ Condvar!HandOver
            /\ cv_sem' = [cv_sem EXCEPT ![i] = Condvar!down(cv_sem[i], i)]
            /\ pc_condvar' = [pc_condvar EXCEPT ![i] = "waited"]
            /\ UNCHANGED <<state_condvar, mt_next_count, iter_condvar>>
        BY <1>7, <2>2 DEF Condvar!TakeWait, Condvar!Wait, Condvar!Goto
      <3>2. /\ Condvar!down(cv_sem[i], i) \in Condvar!Semaphores(Condvar!Phil)
            /\ Condvar!down(cv_sem[i], i).value = 0 /\ Condvar!down(cv_sem[i], i).wait_queue = <<i>>
        BY <1>1, <2>1, DownEffect
      <3>3. /\ cv_sem' \in [Condvar!Phil -> Condvar!Semaphores(Condvar!Phil)]
            /\ cv_sem'[i].value = 0 /\ cv_sem'[i].wait_queue = <<i>>
            /\ \A k \in Condvar!Phil : k # i => cv_sem'[k] = cv_sem[k]
        BY <1>1, <3>1, <3>2
      <3>4. /\ cv_count' \in [Condvar!Phil -> Nat] /\ cv_count'[i] = 1
            /\ \A k \in Condvar!Phil : k # i => cv_count'[k] = cv_count[k]
        BY <1>1, <2>1, <3>1
      <3>5. MonitorSeat(i)'
        BY <1>1, <2>1, <2>2, <3>1, <3>3 DEF MonitorSeat
      <3> QED  BY <1>1, <1>3, <2>1, <3>1, <3>3, <3>4, <3>5, LeaveKeeps
    <2>3. CASE state_condvar[i] # "HUNGRY"
      <3>1. /\ pc_condvar' = [pc_condvar EXCEPT ![i] = "takeleave"]
            /\ UNCHANGED <<state_condvar, mt_mutex, mt_next, mt_next_count, cv_sem, cv_count, iter_condvar>>
        BY <1>7, <2>3 DEF Condvar!TakeWait, Condvar!Goto, Condvar!monitor
      <3>2. MonitorSeat(i)' /\ MonitorNeighbours'
        BY <1>1, <2>1, <2>3, <3>1 DEF MonitorSeat, MonitorNeighbours
      <3>3. mt_next_count' = Cardinality({k \in Condvar!Phil : pc_condvar'[k] \in DOMAIN Condvar!Behind})
        BY <1>3, <2>1, <3>1, CountKept
      <3> QED  BY <1>1, <1>3, <2>1, <3>1, <3>2, <3>3, LocalKeeps
    <2> QED  BY <2>2, <2>3
  <1>8. CASE Condvar!WaitEnd(i)
    <2>1. /\ pc_condvar[i] = "waited" /\ In(i) /\ cv_sem[i].wait_queue = <<>>
      BY <1>2, <1>3, <1>8 DEF Condvar!WaitEnd
    <2>2. /\ cv_count' = [cv_count EXCEPT ![i] = cv_count[i] - 1]
          /\ pc_condvar' = [pc_condvar EXCEPT ![i] = "takeleave"]
          /\ UNCHANGED <<state_condvar, mt_mutex, mt_next, mt_next_count, cv_sem, iter_condvar>>
      BY <1>8 DEF Condvar!WaitEnd, Condvar!Goto
    <2>3. /\ cv_count' \in [Condvar!Phil -> Nat] /\ cv_count'[i] = 0
          /\ \A k \in Condvar!Phil : k # i => cv_count'[k] = cv_count[k]
      BY <1>1, <2>1, <2>2
    <2>4. MonitorSeat(i)' /\ MonitorNeighbours'
      <3>1. <<i>> # <<>>
        OBVIOUS
      <3> QED  BY <1>1, <2>1, <2>2, <3>1 DEF MonitorSeat, MonitorNeighbours
    <2>5. mt_next_count' = Cardinality({k \in Condvar!Phil : pc_condvar'[k] \in DOMAIN Condvar!Behind})
      BY <1>3, <2>1, <2>2, CountKept
    <2> QED  BY <1>1, <1>3, <2>1, <2>2, <2>3, <2>4, <2>5, LocalKeeps
  <1>9. CASE Condvar!TakeLeave(i)
    <2>1. /\ pc_condvar[i] = "takeleave" /\ In(i)
          /\ cv_sem[i].wait_queue = <<>> /\ cv_sem[i].value = 0
      BY <1>2, <1>3, <1>9 DEF Condvar!TakeLeave
    <2>2. /\ Condvar!HandOver
          /\ pc_condvar' = [pc_condvar EXCEPT ![i] = "eat"]
          /\ UNCHANGED <<state_condvar, mt_next_count, cv_sem, cv_count, iter_condvar>>
      BY <1>9 DEF Condvar!TakeLeave, Condvar!Goto
    <2>3. MonitorSeat(i)'
      BY <1>1, <2>1, <2>2 DEF MonitorSeat
    <2>4. cv_count[i] = 0
      BY <1>1, <2>1
    <2> QED  BY <1>1, <1>3, <2>1, <2>2, <2>3, <2>4, LeaveKeeps
  <1>10. CASE Condvar!PutThinking(i)
    <2>1. pc_condvar[i] = "put" /\ In(i)
      BY <1>2, <1>3, <1>10 DEF Condvar!PutThinking
    <2>2. /\ state_condvar' = [state_condvar EXCEPT ![i] = "THINKING"]
          /\ pc_condvar' = [pc_condvar EXCEPT ![i] = "testleft"]
          /\ UNCHANGED <<mt_mutex, mt_next, mt_next_count, cv_sem, cv_count, iter_condvar>>
      BY <1>10 DEF Condvar!PutThinking, Condvar!Goto, Condvar!monitor
    <2>3. MonitorSeat(i)' /\ MonitorNeighbours'
      BY <1>1, <2>1, <2>2, MonitorRing DEF MonitorSeat, MonitorNeighbours
    <2>4. mt_next_count' = Cardinality({k \in Condvar!Phil : pc_condvar'[k] \in DOMAIN Condvar!Behind})
      BY <1>3, <2>1, <2>2, CountKept
    <2> QED  BY <1>1, <1>3, <2>1, <2>2, <2>3, <2>4, LocalKeeps
  <1>11. CASE Condvar!PutTestLeft(i)
    <2>1. pc_condvar[i] = "testleft" /\ In(i)
      BY <1>2, <1>3, <1>11 DEF Condvar!PutTestLeft
    <2>2. Condvar!phi_test_condvar(i, Condvar!LEFT(i), "leftsignalled") /\ iter_condvar' = iter_condvar
      BY <1>11 DEF Condvar!PutTestLeft
    <2> QED  BY <2>1, <2>2, MonitorRing, TestNeighbour
  <1>12. CASE Condvar!PutTestRight(i)
    <2>1. pc_condvar[i] = "testright" /\ In(i)
      BY <1>2, <1>3, <1>12 DEF Condvar!PutTestRight
    <2>2. Condvar!phi_test_condvar(i, Condvar!RIGHT(i), "rightsignalled") /\ iter_condvar' = iter_condvar
      BY <1>12 DEF Condvar!PutTestRight
    <2> QED  BY <2>1, <2>2, MonitorRing, TestNeighbour
  <1>13. CASE Condvar!SignalEnd(i)
    <2>1. PICK l \in DOMAIN Condvar!Behind : Condvar!At(i, l) /\ pc_condvar' = [pc_condvar EXCEPT ![i] = Condvar!Behind[l]]
      BY <1>13 DEF Condvar!SignalEnd, Condvar!Goto
    <2>2. pc_condvar[i] = l /\ In(i)
      BY <1>2, <1>3, <2>1
    <2>3. /\ mt_next_count' = mt_next_count - 1
          /\ UNCHANGED <<state_condvar, mt_mutex, mt_next, cv_sem, cv_count, iter_condvar>>
      BY <1>13 DEF Condvar!SignalEnd
    <2>4. l \in {"leftsignalled", "rightsignalled"}
      BY <1>1, <2>2, BehindProperties DEF MonitorSeat
    <2>5. Condvar!Behind[l] \in {"testright", "putleave"}
      BY <2>4, BehindProperties
    <2>6. /\ mt_next_count' = Cardinality({k \in Condvar!Phil : pc_condvar'[k] \in DOMAIN Condvar!Behind})
          /\ mt_next_count' \in Nat
      BY <1>3, <2>1, <2>2, <2>3, <2>5, CountDown
    <2>7. MonitorSeat(i)' /\ MonitorNeighbours'
      BY <1>1, <2>1, <2>2, <2>3, <2>4, <2>5 DEF MonitorSeat, MonitorNeighbours
    <2>8. Condvar!Behind[l] \in Condvar!Inside /\ Condvar!Behind[l] # "waited" /\ cv_count'[i] = 0
      BY <1>1, <1>3, <2>2, <2>3, <2>4, <2>5
    <2> QED  BY <1>1, <2>1, <2>2, <2>3, <2>6, <2>7, <2>8, LocalKeeps
  <1>14. CASE Condvar!PutLeave(i)
    <2> DEFINE l == IF iter_condvar[i] + 1 < TIMES THEN "think" ELSE "quit"
    <2>1. /\ pc_condvar[i] = "putleave" /\ In(i)
          /\ cv_sem[i].wait_queue = <<>> /\ cv_sem[i].value = 0
      BY <1>2, <1>3, <1>14 DEF Condvar!PutLeave
    <2>2. /\ Condvar!HandOver
          /\ pc_condvar' = [pc_condvar EXCEPT ![i] = l]
          /\ iter_condvar' = [iter_condvar EXCEPT ![i] = iter_condvar[i] + 1]
          /\ UNCHANGED <<state_condvar, mt_next_count, cv_sem, cv_count>>
      BY <1>14 DEF Condvar!PutLeave, Condvar!Goto, Condvar!Again
    <2>3. iter_condvar[i] < TIMES /\ iter_condvar[i] + 1 \in 0 .. TIMES
      BY <1>1, <2>1 DEF MonitorSeat
    <2>4. /\ iter_condvar' \in [Condvar!Phil -> 0 .. TIMES]
          /\ \A k \in Condvar!Phil : k # i => iter_condvar'[k] = iter_condvar[k]
      BY <1>1, <2>2, <2>3
    <2>5. MonitorSeat(i)'
      BY <1>1, <2>1, <2>2, <2>3 DEF MonitorSeat
    <2>6. cv_count[i] = 0 /\ l \in {"think", "eat", "quit"}
      BY <1>1, <2>1
    <2> HIDE DEF l
    <2> QED  BY <1>1, <1>3, <2>1, <2>2, <2>4, <2>5, <2>6, LeaveKeeps
  <1> QED
    BY <1>4, <1>5, <1>6, <1>7, <1>8, <1>9, <1>10, <1>11, <1>12, <1>13, <1>14 DEF Condvar!Step

\* CountsExact is part of the invariant.
LEMMA MonitorCountsExact == MonitorCounts => Condvar!CountsExact
  <1> DEFINE S == {i \in Condvar!Phil : pc_condvar[i] \in DOMAIN Condvar!Behind}
  <1>1. Condvar!Cardinality(S) = Cardinality(S)
    BY SameCardinality
  <1> QED  BY <1>1 DEF MonitorCounts, Condvar!CountsExact

\* OneInMonitor is part of the invariant.
LEMMA MonitorHasOne == MonitorInv => Condvar!OneInMonitor
  <1> SUFFICES ASSUME MonitorInv  PROVE Condvar!OneInMonitor
    OBVIOUS
  <1>1. /\ OneInside
        /\ \A i \in Condvar!Phil : i \in Condvar!Active <=> In(i)
        /\ Condvar!Active \subseteq Condvar!Phil
    BY DEF MonitorInv, Condvar!Active, In
  <1>2. CASE mt_mutex.value = 1
    <2>1. Condvar!Active = {}
      BY <1>1, <1>2 DEF OneInside
    <2>2. Condvar!Cardinality(Condvar!Active) = 0
      BY <2>1, FS_EmptySet, SameCardinality
    <2> QED  BY <1>1, <1>2, <2>2 DEF Condvar!OneInMonitor, OneInside
  <1>3. CASE mt_mutex.value = 0
    <2>1. PICK w \in Condvar!Phil : In(w) /\ \A k \in Condvar!Phil : In(k) => k = w
      BY <1>1, <1>3 DEF OneInside
    <2>2. Condvar!Active = {w}
      BY <1>1, <2>1
    <2>3. Condvar!Cardinality(Condvar!Active) = 1
      BY <2>2, FS_Singleton, SameCardinality
    <2> QED  BY <1>1, <1>3, <2>3 DEF Condvar!OneInMonitor, OneInside
  <1> QED  BY <1>1, <1>2, <1>3 DEF OneInside

\* Only the philosophers of the table say what is done.
condvarDoing == [i \in Condvar!Phil |-> Condvar!Doing(i)]

\* Everybody thinks at the start, as in Dining.
LEMMA MonitorRefinesInit == Condvar!Init => Condvar!Promise!Init
  BY DEF Condvar!Init, Condvar!Promise!Init, Condvar!Promise!Phil, Condvar!Phil, Condvar!Doing

\* A step of a philosopher is a step of Dining by it, or changes nothing that
\* Dining speaks of.
LEMMA MonitorStepRefines ==
    ASSUME MonitorInv, NEW i \in Condvar!Phil, Condvar!Step(i)
    PROVE  Condvar!Promise!Next \/ condvarDoing' = condvarDoing
  <1>1. /\ pc_condvar \in [Condvar!Phil -> Condvar!Labels]
        /\ MonitorNeighbours /\ \A k \in Condvar!Phil : MonitorSeat(k)
    BY DEF MonitorInv, Condvar!TypeOK
  <1>2. \A k \in Condvar!Phil : condvarDoing[k] = "EATING" => state_condvar[k] = "EATING"
    BY <1>1 DEF condvarDoing, Condvar!Doing, MonitorSeat
  \* Only the place of i changes, so only its doing does.
  <1>3. ASSUME NEW l, pc_condvar' = [pc_condvar EXCEPT ![i] = l]
        PROVE  /\ pc_condvar'[i] = l
               /\ condvarDoing' = [condvarDoing EXCEPT ![i] = Condvar!Doing(i)']
    <2>1. pc_condvar'[i] = l /\ \A k \in Condvar!Phil : k # i => pc_condvar'[k] = pc_condvar[k]
      BY <1>1, <1>3
    <2>2. \A k \in Condvar!Phil : k # i => Condvar!Doing(k)' = Condvar!Doing(k)
      BY <2>1 DEF Condvar!Doing
    <2> QED  BY <2>1, <2>2 DEF condvarDoing
  <1>4. ASSUME NEW l, pc_condvar' = [pc_condvar EXCEPT ![i] = l], Condvar!Doing(i)' = Condvar!Doing(i)
        PROVE  condvarDoing' = condvarDoing
    <2>1. condvarDoing' = [condvarDoing EXCEPT ![i] = Condvar!Doing(i)]
      BY <1>3, <1>4
    <2> QED  BY <2>1 DEF condvarDoing
  <1>5. CASE Condvar!Enter(i)
    <2>1. \/ pc_condvar[i] = "think" /\ pc_condvar' = [pc_condvar EXCEPT ![i] = "take"]
          \/ pc_condvar[i] = "eat" /\ pc_condvar' = [pc_condvar EXCEPT ![i] = "put"]
      BY <1>5 DEF Condvar!Enter, Condvar!At, Condvar!Goto
    <2>2. CASE pc_condvar[i] = "eat"
      <3>1. Condvar!Doing(i)' = Condvar!Doing(i)
        BY <1>3, <2>1, <2>2 DEF Condvar!Doing
      <3> QED  BY <1>4, <2>1, <3>1
    <2>3. CASE pc_condvar[i] = "think"
      <3>1. condvarDoing[i] = "THINKING"
        BY <2>3 DEF condvarDoing, Condvar!Doing
      <3>1a. Condvar!Doing(i)' = "HUNGRY"
        BY <1>3, <2>1, <2>3 DEF Condvar!Doing
      <3>2. Condvar!Promise!GetHungry(i)
        BY <1>3, <2>1, <2>3, <3>1, <3>1a DEF Condvar!Promise!GetHungry, condvarDoing
      <3> QED  BY <3>2 DEF Condvar!Promise!Next, Condvar!Promise!Phil, Condvar!Phil
    <2> QED  BY <2>1, <2>2, <2>3
  <1>6. CASE Condvar!TakeLeave(i)
    <2>1. pc_condvar[i] = "takeleave" /\ pc_condvar' = [pc_condvar EXCEPT ![i] = "eat"]
      BY <1>6 DEF Condvar!TakeLeave, Condvar!At, Condvar!Goto
    <2>2. condvarDoing[i] = "HUNGRY"
      BY <2>1 DEF condvarDoing, Condvar!Doing
    <2>2a. Condvar!Doing(i)' = "EATING"
      BY <1>3, <2>1 DEF Condvar!Doing
    <2>3. condvarDoing[Condvar!LEFT(i)] # "EATING" /\ condvarDoing[Condvar!RIGHT(i)] # "EATING"
      <3>1. state_condvar[i] = "EATING"
        BY <1>1, <2>1 DEF MonitorSeat
      <3> QED  BY <1>1, <1>2, <3>1, MonitorRing DEF MonitorNeighbours
    <2>4. Condvar!Promise!Eat(i)
      BY <1>3, <2>1, <2>2, <2>2a, <2>3
      DEF Condvar!Promise!Eat, Condvar!Promise!LEFT, Condvar!Promise!RIGHT, Condvar!LEFT, Condvar!RIGHT, condvarDoing
    <2> QED  BY <2>4 DEF Condvar!Promise!Next, Condvar!Promise!Phil, Condvar!Phil
  <1>7. CASE Condvar!PutThinking(i)
    <2>1. pc_condvar[i] = "put" /\ pc_condvar' = [pc_condvar EXCEPT ![i] = "testleft"]
      BY <1>7 DEF Condvar!PutThinking, Condvar!At, Condvar!Goto
    <2>2. condvarDoing[i] = "EATING"
      BY <2>1 DEF condvarDoing, Condvar!Doing
    <2>2a. Condvar!Doing(i)' = "THINKING"
      BY <1>3, <2>1 DEF Condvar!Doing
    <2>3. Condvar!Promise!Finish(i)
      BY <1>3, <2>1, <2>2, <2>2a DEF Condvar!Promise!Finish, condvarDoing
    <2> QED  BY <2>3 DEF Condvar!Promise!Next, Condvar!Promise!Phil, Condvar!Phil
  <1>8. CASE Condvar!TakeHungry(i) \/ Condvar!TakeTest(i) \/ Condvar!TakeWait(i) \/ Condvar!WaitEnd(i)
    <2>1. PICK l \in {"taketest", "signalled", "hungry", "waited", "takeleave"} :
             pc_condvar' = [pc_condvar EXCEPT ![i] = l]
      BY <1>8, BehindProperties
      DEF Condvar!TakeHungry, Condvar!TakeTest, Condvar!TakeWait, Condvar!WaitEnd, Condvar!phi_test_condvar, Condvar!Signal, Condvar!Wait, Condvar!Goto
    <2>2. pc_condvar[i] \in {"take", "taketest", "hungry", "waited"}
      BY <1>8 DEF Condvar!TakeHungry, Condvar!TakeTest, Condvar!TakeWait, Condvar!WaitEnd, Condvar!At
    <2>3. Condvar!Doing(i) = "HUNGRY" /\ Condvar!Doing(i)' = "HUNGRY"
      BY <1>3, <2>1, <2>2 DEF Condvar!Doing
    <2> QED  BY <1>4, <2>1, <2>3
  <1>9. CASE Condvar!PutTestLeft(i) \/ Condvar!PutTestRight(i) \/ Condvar!PutLeave(i)
    <2>1. PICK l \in {"leftsignalled", "testright", "rightsignalled", "putleave", "think",
                      "quit"} :
             pc_condvar' = [pc_condvar EXCEPT ![i] = l]
      BY <1>9, BehindProperties
      DEF Condvar!PutTestLeft, Condvar!PutTestRight, Condvar!PutLeave, Condvar!phi_test_condvar, Condvar!Signal, Condvar!Goto
    <2>2. pc_condvar[i] \in {"testleft", "testright", "putleave"}
      BY <1>9 DEF Condvar!PutTestLeft, Condvar!PutTestRight, Condvar!PutLeave, Condvar!At
    <2>3. Condvar!Doing(i) = "THINKING" /\ Condvar!Doing(i)' = "THINKING"
      BY <1>3, <2>1, <2>2 DEF Condvar!Doing
    <2> QED  BY <1>4, <2>1, <2>3
  <1>10. CASE Condvar!SignalEnd(i)
    <2>1. PICK l \in DOMAIN Condvar!Behind : pc_condvar[i] = l /\ pc_condvar' = [pc_condvar EXCEPT ![i] = Condvar!Behind[l]]
      BY <1>10 DEF Condvar!SignalEnd, Condvar!At, Condvar!Goto
    <2>2. l \in {"leftsignalled", "rightsignalled"}
      BY <1>1, <2>1, BehindProperties DEF MonitorSeat
    <2>3. Condvar!Behind[l] \in {"testright", "putleave"}
      BY <2>2, BehindProperties
    <2>4. Condvar!Doing(i) = "THINKING" /\ Condvar!Doing(i)' = "THINKING"
      BY <1>3, <2>1, <2>2, <2>3 DEF Condvar!Doing
    <2> QED  BY <1>4, <2>1, <2>4
  <1> QED  BY <1>5, <1>6, <1>7, <1>8, <1>9, <1>10 DEF Condvar!Step

-----------------------------------------------------------------------------
(* check_sync.                                                             *)

\* Both halves at once; the one that does not run stands still.
Inv ==
    /\ checking \in {"semaphore", "monitor", "done"}
    /\ SemaInv
    /\ MonitorInv

-----------------------------------------------------------------------------
\* Both halves start in their invariants.
LEMMA CheckInit == Init => Inv
  <1> SUFFICES ASSUME Init  PROVE Inv
    OBVIOUS
  <1>1. Sema!Init /\ Condvar!Init
    BY DEF Init
  <1>2. SemaInv
    BY <1>1, PhilAssumption, SemaInit
  <1>3. MonitorInv
    BY <1>1, PhilAssumption, MonitorInit
  <1> QED  BY <1>2, <1>3 DEF Init, Inv

\* A half that stands still keeps its invariant.
LEMMA SemaStill == SemaInv /\ UNCHANGED semaVars => SemaInv'
  BY DEF semaVars, SemaInv, Sema!TypeOK, SemaNeighbours,
         SemaSeat

\* The half that does not run keeps its invariant: the monitor.
LEMMA CondvarStill ==
    MonitorInv /\ UNCHANGED condvarVars => MonitorInv'
  <1> SUFFICES ASSUME MonitorInv, UNCHANGED condvarVars
               PROVE  MonitorInv'
    OBVIOUS
  <1>1. Condvar!TypeOK'
    BY DEF condvarVars, MonitorInv, Condvar!TypeOK
  <1>2. QueuesOK'
    BY DEF condvarVars, MonitorInv, QueuesOK
  <1>3. OneInside'
    BY DEF condvarVars, MonitorInv, OneInside,
           In, Condvar!Awake
  <1>4. MonitorCounts'
    BY DEF condvarVars, MonitorInv, MonitorCounts
  <1>5. MonitorNeighbours'
    BY DEF condvarVars, MonitorInv, MonitorNeighbours
  <1>6. (\A i \in Condvar!Phil : MonitorSeat(i))'
    BY DEF condvarVars, MonitorInv, MonitorSeat
  <1> QED  BY <1>1, <1>2, <1>3, <1>4, <1>5, <1>6 DEF MonitorInv

\* Every step keeps the invariant.
LEMMA CheckStep == Inv /\ [Next]_vars => Inv'
  <1> SUFFICES ASSUME Inv, [Next]_vars  PROVE Inv'
    OBVIOUS
  <1>1. ASSUME NEW i \in Phil, SemaStep(i)  PROVE Inv'
    <2>1. Sema!Step(i) /\ i \in Sema!Phil
      BY <1>1 DEF SemaStep, Phil, Sema!Phil
    <2>2. SemaInv'
      BY <2>1, PhilAssumption, SemaStepKeeps DEF Inv
    <2>3. MonitorInv'
      BY <1>1, CondvarStill DEF SemaStep, Inv
    <2> QED  BY <1>1, <2>2, <2>3 DEF SemaStep, Inv
  <1>2. ASSUME NEW i \in Phil, CondvarStep(i)  PROVE Inv'
    <2>1. Condvar!Step(i) /\ i \in Condvar!Phil
      BY <1>2 DEF CondvarStep, Phil, Condvar!Phil
    <2>2. MonitorInv'
      BY <2>1, PhilAssumption, MonitorStepKeeps DEF Inv
    <2>3. SemaInv'
      BY <1>2, SemaStill DEF CondvarStep, Inv
    <2> QED  BY <1>2, <2>2, <2>3 DEF CondvarStep, Inv
  <1>3. CASE Reap
    <2>1. checking' \in {"semaphore", "monitor", "done"}
      BY <1>3 DEF Reap
    <2> QED  BY <1>3, <2>1, SemaStill, CondvarStill DEF Reap, Inv
  <1>4. CASE UNCHANGED vars
    BY <1>4, SemaStill, CondvarStill DEF vars, Inv
  <1> QED  BY <1>1, <1>2, <1>3, <1>4 DEF Next, Done

\* The invariant holds throughout.
LEMMA CheckAlways == Spec => []Inv
  BY CheckInit, CheckStep, PTL DEF Spec

\* Types of both halves, for any number of philosophers and of meals.
THEOREM CheckSyncTypes == Spec => []TypeOK
  <1>1. Inv => TypeOK
    BY DEF Inv, TypeOK, SemaInv, MonitorInv
  <1> QED  BY <1>1, CheckAlways, PTL

\* Around a table of any size a unit of s[i] is a meal granted and not begun, and the
\* table says EATING exactly from the grant to the end of the meal (phi_test_sema,
\* phi_take_forks_sema, phi_put_forks_sema).
THEOREM GrantsAlwaysMatch == Spec => []GrantsMatch
  <1>1. Inv => GrantsMatch
    BY PhilAssumption, SemaGrants DEF Inv, GrantsMatch
  <1> QED  BY <1>1, CheckAlways, PTL

\* The monitor excludes for any number of processes: at most one executes inside,
\* the mutex is open exactly when none does, and no unit is ever left in next or in a
\* condition variable (cond_wait, cond_signal, the two leaves).
THEOREM MonitorExcludes == Spec => []OneInMonitor
  <1>1. Inv => OneInMonitor
    BY PhilAssumption, MonitorHasOne DEF Inv, OneInMonitor
  <1> QED  BY <1>1, CheckAlways, PTL

\* The two counters of the monitor count the processes that wait, for any number of
\* them (cond_wait, cond_signal).
THEOREM CountersExact == Spec => []CountsExact
  <1>1. Inv => CountsExact
    BY MonitorCountsExact DEF Inv, CountsExact, MonitorInv
  <1> QED  BY <1>1, CheckAlways, PTL

-----------------------------------------------------------------------------
\* Every step of check_sync is a step of Dining, or no step of it, in both halves.
LEMMA CheckStepRefines ==
    ASSUME Inv, Inv', [Next]_vars
    PROVE  /\ [Sema!Promise!Next]_semaDoing
           /\ [Condvar!Promise!Next]_condvarDoing
  <1>1. ASSUME UNCHANGED semaVars  PROVE semaDoing' = semaDoing
    BY <1>1 DEF semaVars, semaDoing, Sema!Doing, Sema!SleepsOn
  <1>2. ASSUME UNCHANGED condvarVars  PROVE condvarDoing' = condvarDoing
    BY <1>2 DEF condvarVars, condvarDoing, Condvar!Doing
  <1>3. ASSUME NEW i \in Phil, SemaStep(i)
        PROVE  /\ Sema!Promise!Next \/ semaDoing' = semaDoing
               /\ condvarDoing' = condvarDoing
    <2>1. Sema!Step(i) /\ i \in Sema!Phil
      BY <1>3 DEF SemaStep, Phil, Sema!Phil
    <2>2. Sema!Promise!Next \/ semaDoing' = semaDoing
      BY <2>1, PhilAssumption, SemaStepRefines DEF Inv
    <2> QED  BY <1>2, <1>3, <2>2 DEF SemaStep
  <1>4. ASSUME NEW i \in Phil, CondvarStep(i)
        PROVE  /\ Condvar!Promise!Next \/ condvarDoing' = condvarDoing
               /\ semaDoing' = semaDoing
    <2>1. Condvar!Step(i) /\ i \in Condvar!Phil
      BY <1>4 DEF CondvarStep, Phil, Condvar!Phil
    <2>2. Condvar!Promise!Next \/ condvarDoing' = condvarDoing
      BY <2>1, PhilAssumption, MonitorStepRefines DEF Inv
    <2> QED  BY <1>1, <1>4, <2>2 DEF CondvarStep
  <1>5. CASE Reap \/ UNCHANGED vars
    BY <1>1, <1>2, <1>5 DEF Reap, vars
  <1> QED  BY <1>3, <1>4, <1>5 DEF Next, Done

\* Both solutions implement Dining for any number of philosophers and of meals:
\* nobody eats beside an eating neighbour (phi_take_forks_sema, phi_put_forks_sema,
\* phi_take_forks_condvar, phi_put_forks_condvar).
THEOREM BothImplementDining == Spec => ImplementsDining
  <1>1. Init => Sema!Promise!Init /\ Condvar!Promise!Init
    BY PhilAssumption,
       SemaRefinesInit, MonitorRefinesInit
    DEF Init
  <1>2. Inv /\ Inv' /\ [Next]_vars =>
           [Sema!Promise!Next]_semaDoing /\ [Condvar!Promise!Next]_condvarDoing
    BY CheckStepRefines
  <1>3. Spec => /\ Sema!Promise!Init /\ [][Sema!Promise!Next]_semaDoing
                /\ Condvar!Promise!Init /\ [][Condvar!Promise!Next]_condvarDoing
    BY <1>1, <1>2, CheckAlways, PTL DEF Spec
  <1> QED
    BY <1>3, PTL
    DEF ImplementsDining, Sema!ImplementsDining, Condvar!ImplementsDining,
        Sema!Promise!Spec, Condvar!Promise!Spec, semaDoing, condvarDoing

=============================================================================
