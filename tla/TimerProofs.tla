---------------------------- MODULE TimerProofs -----------------------------
(***************************************************************************)
(* Proofs about the timer list, for any processes and any sleep times:     *)
(* what add_timer and del_timer do to the delta list, that no timer that   *)
(* is due is ever left at its head between two ticks, and that the list    *)
(* implements Deadlines.                                                   *)
(***************************************************************************)
EXTENDS TimerList, SeqLemmas, FiniteSetTheorems, TLAPS

Entry == [proc : Proc, expires : Nat]

\* A process has at most one timer on the list.
OneEach(list) == \A i, j \in DOMAIN list : list[i].proc = list[j].proc => i = j

\* The head is not due.
NotDue(list) == list # <<>> => Head(list).expires # 0

-----------------------------------------------------------------------------
(* Shift.                                                                  *)

\* Changing a delta changes no owner, and nothing but that delta.
LEMMA ShiftEntry ==
    ASSUME NEW list \in Seq(Entry), NEW i, NEW d \in Int,
           i \in DOMAIN list => list[i].expires + d \in Nat
    PROVE  /\ Shift(list, i, d) \in Seq(Entry)
           /\ Len(Shift(list, i, d)) = Len(list)
           /\ \A j \in 1 .. Len(list) :
                 /\ Shift(list, i, d)[j].proc = list[j].proc
                 /\ Shift(list, i, d)[j].expires =
                       IF j = i THEN list[j].expires + d ELSE list[j].expires
                 /\ j # i => Shift(list, i, d)[j] = list[j]
  <1> DEFINE n == Len(list)
             s == Shift(list, i, d)
  <1>1. n \in Nat /\ DOMAIN list = 1 .. n /\ \A j \in 1 .. n : list[j] \in Entry
    BY LenProperties, ElementOfSeq
  <1>2. ASSUME NEW j \in 1 .. n
        PROVE  /\ s[j] \in Entry
               /\ s[j].proc = list[j].proc
               /\ s[j].expires = IF j = i THEN list[j].expires + d ELSE list[j].expires
               /\ j # i => s[j] = list[j]
    <2>1. list[j] \in Entry
      BY <1>1
    <2>2. CASE j = i
      <3>1. s[j] = [list[j] EXCEPT !.expires = @ + d]
        BY <1>1, <2>2 DEF Shift
      <3>2. list[j].expires + d \in Nat
        BY <1>1, <2>2
      <3> QED  BY <2>1, <2>2, <3>1, <3>2 DEF Entry
    <2>3. CASE j # i
      <3>1. s[j] = list[j]
        BY <1>1, <2>3 DEF Shift
      <3> QED  BY <2>1, <2>3, <3>1
    <2> QED  BY <2>2, <2>3
  <1>3. s = [j \in 1 .. n |-> s[j]]
    BY <1>1 DEF Shift
  <1> HIDE DEF n, s
  <1>4. s \in [1 .. n -> Entry]
    BY <1>2, <1>3
  <1>5. s \in Seq(Entry)
    BY <1>1, <1>4, SeqDef
  <1>6. Len(s) = n
    BY <1>1, <1>4, <1>5, LenProperties
  <1> QED  BY <1>2, <1>5, <1>6 DEF s, n

\* The decrement at the top of run_timer_list.
LEMMA ShiftHead ==
    ASSUME NEW list \in Seq(Entry), NotDue(list)
    PROVE  /\ Shift(list, 1, 0 - 1) \in Seq(Entry)
           /\ Len(Shift(list, 1, 0 - 1)) = Len(list)
           /\ \A j \in 1 .. Len(list) :
                 /\ Shift(list, 1, 0 - 1)[j].proc = list[j].proc
                 /\ Shift(list, 1, 0 - 1)[j].expires =
                       IF j = 1 THEN list[j].expires - 1 ELSE list[j].expires
  <1>1. Len(list) \in Nat /\ DOMAIN list = 1 .. Len(list)
    BY LenProperties
  <1>2. ASSUME 1 \in DOMAIN list  PROVE list[1].expires + (0 - 1) \in Nat
    <2>1. list # <<>> /\ Head(list) = list[1]
      BY <1>1, <1>2
    <2>2. list[1] \in Entry
      BY <1>1, <1>2, ElementOfSeq
    <2>3. list[1].expires \in Nat /\ list[1].expires # 0
      BY <2>1, <2>2 DEF NotDue, Entry
    <2> QED  BY <2>3
  <1>3. \A j \in 1 .. Len(list) : list[j].expires \in Nat
    <2>1. \A j \in 1 .. Len(list) : list[j] \in Entry
      BY <1>1, ElementOfSeq
    <2> QED  BY <2>1 DEF Entry
  <1>4. /\ Shift(list, 1, 0 - 1) \in Seq(Entry)
        /\ Len(Shift(list, 1, 0 - 1)) = Len(list)
        /\ \A j \in 1 .. Len(list) :
              /\ Shift(list, 1, 0 - 1)[j].proc = list[j].proc
              /\ Shift(list, 1, 0 - 1)[j].expires =
                    IF j = 1 THEN list[j].expires + (0 - 1) ELSE list[j].expires
    <2>1. 0 - 1 \in Int
      OBVIOUS
    <2> QED  BY <1>2, <2>1, ShiftEntry
  <1> QED  BY <1>3, <1>4

\* The owners of a list whose entries have the owners of another one.
LEMMA SameOwners ==
    ASSUME NEW list \in Seq(Entry), NEW other \in Seq(Entry),
           Len(other) = Len(list),
           \A j \in 1 .. Len(list) : other[j].proc = list[j].proc
    PROVE  /\ TimerProcs(other) = TimerProcs(list)
           /\ OneEach(list) => OneEach(other)
  <1>1. DOMAIN list = 1 .. Len(list) /\ DOMAIN other = 1 .. Len(list)
    BY LenProperties
  <1> QED  BY <1>1 DEF TimerProcs, OneEach

-----------------------------------------------------------------------------
(* add_timer.                                                              *)

\* What the loop of add_timer has left, entry by entry.
LEMMA LeftIs ==
    ASSUME NEW list \in Seq(Entry), NEW time \in Int
    PROVE  /\ Left(list, time) \in [1 .. Len(list) + 1 -> Int]
           /\ Left(list, time)[1] = time
           /\ \A i \in 1 .. Len(list) :
                 Left(list, time)[i + 1] = Left(list, time)[i] - list[i].expires
  <1> DEFINE n == Len(list)
             D(i) == IF i \in 1 .. n THEN list[i].expires ELSE 0
             F == [i \in Nat |-> [x \in Int |-> x - D(i)]]
             Body(g) == [i \in 1 .. n + 1 |->
                            IF i = 1 THEN time ELSE g[i - 1] - list[i - 1].expires]
  <1>1. n \in Nat /\ \A i \in 1 .. n : list[i].expires \in Nat
    <2>1. n \in Nat /\ \A i \in 1 .. n : list[i] \in Entry
      BY LenProperties, ElementOfSeq
    <2> QED  BY <2>1 DEF Entry
  <1>2. \A i \in Nat : D(i) \in Nat
    BY <1>1
  <1> HIDE DEF n
  <1>3. F \in [Nat -> [Int -> Int]]
    <2> HIDE DEF D
    <2> QED  BY <1>2
  <1>4. PICK f \in [1 .. n + 1 -> Int] :
           /\ f[1] = time
           /\ \A i \in 1 .. n : f[i + 1] = F[i][f[i]]
    <2> HIDE DEF F, D, Body
    <2>1. n \in Nat
      BY <1>1
    <2>2. \E f : Iterates(f, Int, time, F, n)
      BY <1>3, <2>1, StepByStep
    <2> QED  BY <2>2 DEF Iterates
  <1>5. \A i \in 1 .. n : f[i + 1] = f[i] - list[i].expires
    <2> SUFFICES ASSUME NEW i \in 1 .. n  PROVE f[i + 1] = f[i] - list[i].expires
      OBVIOUS
    <2>1. i \in Nat /\ f[i] \in Int
      BY <1>1
    <2>2. F[i][f[i]] = f[i] - D(i)
      BY <2>1
    <2> QED  BY <1>4, <2>2
  <1>6. f = Body(f)
    <2>1. f = [i \in 1 .. n + 1 |-> f[i]]
      OBVIOUS
    <2>2. ASSUME NEW i \in 1 .. n + 1
          PROVE  f[i] = IF i = 1 THEN time ELSE f[i - 1] - list[i - 1].expires
      <3>1. CASE i = 1
        BY <1>4, <3>1
      <3>2. CASE i # 1
        <4>1. i - 1 \in 1 .. n /\ (i - 1) + 1 = i
          BY <1>1, <3>2
        <4> QED  BY <1>5, <3>2, <4>1
      <3> QED  BY <3>1, <3>2
    <2> QED  BY <2>1, <2>2
  <1> DEFINE L == CHOOSE g : g = Body(g)
  <1>7. L = Body(L)
    <2> HIDE DEF Body
    <2> QED  BY <1>6
  <1>8. Left(list, time) = L
    BY DEF Left, n
  <1> HIDE DEF L
  <1>9. L[1] = time /\ \A i \in 1 .. n : L[i + 1] = L[i] - list[i].expires
    <2>1. ASSUME NEW i \in 1 .. n + 1
          PROVE  L[i] = IF i = 1 THEN time ELSE L[i - 1] - list[i - 1].expires
      BY <1>7
    <2>2. L[1] = time
      <3>1. 1 \in 1 .. n + 1
        BY <1>1
      <3> QED  BY <2>1, <3>1
    <2>3. ASSUME NEW i \in 1 .. n  PROVE L[i + 1] = L[i] - list[i].expires
      <3>1. i + 1 \in 1 .. n + 1 /\ i + 1 # 1 /\ (i + 1) - 1 = i
        BY <1>1
      <3> QED  BY <2>1, <3>1
    <2> QED  BY <2>2, <2>3
  <1>10. \A i \in 1 .. n + 1 : L[i] \in Int
    <2> DEFINE S == {k \in Nat : k + 1 \in 1 .. n + 1 => L[k + 1] \in Int}
    <2>1. 0 \in S
      BY <1>9
    <2>2. ASSUME NEW k \in Nat, k \in S  PROVE k + 1 \in S
      <3>1. ASSUME k + 2 \in 1 .. n + 1  PROVE L[k + 2] \in Int
        <4>1. k + 1 \in 1 .. n
          BY <1>1, <3>1
        <4>2. L[(k + 1) + 1] = L[k + 1] - list[k + 1].expires
          BY <1>9, <4>1
        <4>3. L[k + 1] \in Int
          BY <1>1, <2>2, <4>1
        <4> QED  BY <1>1, <4>1, <4>2, <4>3
      <3>2. (k + 1) + 1 = k + 2
        OBVIOUS
      <3> QED  BY <3>1, <3>2
    <2> HIDE DEF S
    <2>3. Nat \subseteq S
      BY <2>1, <2>2, SetInduction
    <2>4. ASSUME NEW i \in 1 .. n + 1  PROVE L[i] \in Int
      <3>1. i - 1 \in Nat /\ (i - 1) + 1 = i
        BY <1>1
      <3> QED  BY <2>3, <3>1 DEF S
    <2> QED  BY <2>4
  <1>11. L \in [1 .. n + 1 -> Int]
    <2>1. L = [i \in 1 .. n + 1 |-> L[i]]
      BY <1>7
    <2> QED  BY <1>10, <2>1
  <1> QED  BY <1>8, <1>9, <1>11 DEF n

\* The loop of add_timer passes the first entries and stops at the first later
\* one, with ticks left that are not negative.
LEMMA PassedIs ==
    ASSUME NEW list \in Seq(Entry), NEW time \in Nat
    PROVE  LET left == Left(list, time)
               k    == Cardinality(Passed(list, left))
           IN  /\ k \in 0 .. Len(list)
               /\ left[k + 1] \in Nat
               /\ \A j \in 1 .. k : left[j] >= list[j].expires
               /\ k < Len(list) => left[k + 1] < list[k + 1].expires
  <1> DEFINE left == Left(list, time)
             n    == Len(list)
             T    == {j \in 1 .. n : ~(left[j] >= list[j].expires)} \cup {n + 1}
  <1>1. n \in Nat /\ DOMAIN list = 1 .. n /\ \A j \in 1 .. n : list[j].expires \in Nat
    <2>1. n \in Nat /\ DOMAIN list = 1 .. n /\ \A j \in 1 .. n : list[j] \in Entry
      BY LenProperties, ElementOfSeq
    <2> QED  BY <2>1 DEF Entry
  <1>2. /\ left \in [1 .. n + 1 -> Int]
        /\ left[1] = time
        /\ \A i \in 1 .. n : left[i + 1] = left[i] - list[i].expires
    <2>1. time \in Int
      OBVIOUS
    <2> QED  BY <2>1, LeftIs
  <1> HIDE DEF left, n
  <1>3. T \subseteq Nat /\ T # {}
    BY <1>1
  <1>4. PICK m \in T : \A j \in T : m <= j
    BY <1>3, LeastNat
  <1>5. m \in 1 .. n + 1
    BY <1>1
  <1>6. \A j \in 1 .. m - 1 : left[j] >= list[j].expires
    BY <1>1, <1>4, <1>5
  <1>7. m <= n => ~(left[m] >= list[m].expires)
    BY <1>1, <1>5
  <1>8. Passed(list, left) = 1 .. m - 1
    <2>1. ASSUME NEW i \in 1 .. m - 1  PROVE i \in Passed(list, left)
      BY <1>1, <1>5, <1>6 DEF Passed
    <2>2. ASSUME NEW i \in Passed(list, left)  PROVE i \in 1 .. m - 1
      <3>1. i \in 1 .. n /\ \A j \in 1 .. i : left[j] >= list[j].expires
        BY <1>1 DEF Passed
      <3>2. ~(m <= i)
        BY <1>1, <1>5, <1>7, <3>1
      <3> QED  BY <1>5, <3>1, <3>2
    <2> QED  BY <2>1, <2>2
  <1>9. Cardinality(Passed(list, left)) = m - 1
    <2>1. 1 \in Int /\ m - 1 \in Int
      BY <1>5
    <2>2. Cardinality(1 .. m - 1) = IF 1 > m - 1 THEN 0 ELSE (m - 1) - 1 + 1
      BY <2>1, FS_Interval
    <2> QED  BY <1>5, <1>8, <2>2
  <1>10. left[m] \in Nat
    <2>1. CASE m = 1
      BY <1>2, <2>1
    <2>2. CASE m # 1
      <3>1. m - 1 \in 1 .. n /\ m - 1 \in 1 .. m - 1 /\ (m - 1) + 1 = m
        BY <1>1, <1>5, <2>2
      <3>2. left[m] = left[m - 1] - list[m - 1].expires
        BY <1>2, <3>1
      <3>3. left[m - 1] \in Int /\ left[m - 1] >= list[m - 1].expires
        BY <1>2, <1>6, <3>1, <1>1
      <3> QED  BY <1>1, <3>1, <3>2, <3>3
    <2> QED  BY <2>1, <2>2
  <1>11. m <= n => left[m] < list[m].expires
    BY <1>1, <1>7, <1>10
  <1> DEFINE k == Cardinality(Passed(list, left))
  <1>12. k = m - 1
    BY <1>9
  <1> HIDE DEF k
  <1>13. /\ k \in 0 .. n /\ k + 1 = m
         /\ k < n => m <= n
    BY <1>1, <1>5, <1>12
  <1> QED  BY <1>6, <1>10, <1>11, <1>12, <1>13 DEF k, left, n

\* What add_timer does to the list: the new entry goes to one position, with the
\* ticks that are left there; the entry behind it gives these ticks up.
LEMMA AddTimer ==
    ASSUME NEW list \in Seq(Entry), NEW p \in Proc, NEW t \in Nat
    PROVE  LET left == Left(list, t)
               pos  == Cardinality(Passed(list, left)) + 1
               new  == add_timer(list, p, t)
           IN  /\ new \in Seq(Entry)
               /\ Len(new) = Len(list) + 1
               /\ pos \in 1 .. Len(list) + 1
               /\ new[pos] = [proc |-> p, expires |-> left[pos]]
               /\ \A j \in 1 .. pos - 1 : new[j] = list[j]
               /\ \A j \in pos .. Len(list) :
                     /\ new[j + 1].proc = list[j].proc
                     /\ new[j + 1].expires =
                           IF j = pos THEN list[j].expires - left[pos] ELSE list[j].expires
  <1> DEFINE left == Left(list, t)
             n    == Len(list)
             pos  == Cardinality(Passed(list, left)) + 1
             rest == Shift(list, pos, 0 - left[pos])
             e    == [proc |-> p, expires |-> left[pos]]
             new  == add_timer(list, p, t)
  <1>1. n \in Nat /\ DOMAIN list = 1 .. n /\ \A j \in 1 .. n : list[j].expires \in Nat
    <2>1. n \in Nat /\ DOMAIN list = 1 .. n /\ \A j \in 1 .. n : list[j] \in Entry
      BY LenProperties, ElementOfSeq
    <2> QED  BY <2>1 DEF Entry
  <1>2. /\ pos \in 1 .. n + 1
        /\ left[pos] \in Nat
        /\ pos <= n => left[pos] < list[pos].expires
    <2> DEFINE k == Cardinality(Passed(list, left))
    <2>1. /\ k \in 0 .. n
          /\ left[k + 1] \in Nat
          /\ k < n => left[k + 1] < list[k + 1].expires
      BY PassedIs
    <2> HIDE DEF k, left, n
    <2> QED  BY <1>1, <2>1 DEF k
  <1>3. new = InsertAt(rest, pos, e)
    BY DEF add_timer
  <1> HIDE DEF left, pos, n, new
  <1>4. /\ rest \in Seq(Entry)
        /\ Len(rest) = n
        /\ \A j \in 1 .. n :
              /\ rest[j].proc = list[j].proc
              /\ rest[j].expires = IF j = pos THEN list[j].expires + (0 - left[pos])
                                   ELSE list[j].expires
              /\ j # pos => rest[j] = list[j]
    <2>1. 0 - left[pos] \in Int
      BY <1>2
    <2>2. pos \in DOMAIN list => list[pos].expires + (0 - left[pos]) \in Nat
      BY <1>1, <1>2
    <2> QED  BY <2>1, <2>2, ShiftEntry DEF n
  <1>5. e \in Entry
    BY <1>2 DEF Entry
  <1> HIDE DEF rest, e
  <1>6. /\ new \in Seq(Entry)
        /\ Len(new) = n + 1
        /\ new[pos] = e
        /\ \A j \in 1 .. pos - 1 : new[j] = rest[j]
        /\ \A j \in pos .. n : new[j + 1] = rest[j]
    <2>1. pos \in 1 .. Len(rest) + 1
      BY <1>2, <1>4
    <2>2. rest \in Seq(Entry) /\ n = Len(rest)
      BY <1>4
    <2> DEFINE ins == InsertAt(rest, pos, e)
    <2>3. /\ ins \in Seq(Entry)
          /\ Len(ins) = Len(rest) + 1
          /\ ins[pos] = e
          /\ \A j \in 1 .. pos - 1 : ins[j] = rest[j]
          /\ \A j \in pos .. Len(rest) : ins[j + 1] = rest[j]
      <3> HIDE DEF ins
      <3>0. ins = InsertAt(rest, pos, e)
        BY DEF ins
      <3>1. ins \in Seq(Entry)
        BY <1>5, <2>1, <2>2, <3>0, InsertAtProperties
      <3>2. Len(ins) = Len(rest) + 1
        BY <1>5, <2>1, <2>2, <3>0, InsertAtProperties
      <3>3. ins[pos] = e
        BY <1>5, <2>1, <2>2, <3>0, InsertAtProperties
      <3>4. \A j \in 1 .. pos - 1 : ins[j] = rest[j]
        BY <1>5, <2>1, <2>2, <3>0, InsertAtProperties
      <3>5. \A j \in pos .. Len(rest) : ins[j + 1] = rest[j]
        BY <1>5, <2>1, <2>2, <3>0, InsertAtProperties
      <3> QED  BY <3>1, <3>2, <3>3, <3>4, <3>5
    <2> QED  BY <1>3, <2>2, <2>3
  <1>8. ASSUME NEW j \in 1 .. pos - 1  PROVE new[j] = list[j]
    <2>1. j \in 1 .. n /\ j # pos
      BY <1>1, <1>2
    <2> QED  BY <1>4, <1>6, <2>1
  <1>9. ASSUME NEW j \in pos .. n
        PROVE  /\ new[j + 1].proc = list[j].proc
               /\ new[j + 1].expires =
                     IF j = pos THEN list[j].expires - left[pos] ELSE list[j].expires
    <2>1. j \in 1 .. n
      BY <1>1, <1>2
    <2>2. new[j + 1] = rest[j]
      BY <1>6
    <2> QED  BY <1>1, <1>2, <1>4, <2>1, <2>2
  <1> QED  BY <1>2, <1>6, <1>8, <1>9 DEF e, new, pos, left, n

\* add_timer arms one timer more and leaves none that is due at the head.
LEMMA AddKeeps ==
    ASSUME NEW list \in Seq(Entry), OneEach(list), NotDue(list),
           NEW p \in Proc, p \notin TimerProcs(list), NEW t \in Nat \ {0}
    PROVE  /\ add_timer(list, p, t) \in Seq(Entry)
           /\ OneEach(add_timer(list, p, t))
           /\ TimerProcs(add_timer(list, p, t)) = TimerProcs(list) \cup {p}
           /\ NotDue(add_timer(list, p, t))
  <1> DEFINE left == Left(list, t)
             n    == Len(list)
             pos  == Cardinality(Passed(list, left)) + 1
             new  == add_timer(list, p, t)
  <1>0. t \in Nat
    OBVIOUS
  <1>1. /\ new \in Seq(Entry)
        /\ Len(new) = n + 1
        /\ pos \in 1 .. n + 1
        /\ new[pos] = [proc |-> p, expires |-> left[pos]]
        /\ \A j \in 1 .. pos - 1 : new[j] = list[j]
        /\ \A j \in pos .. n :
              /\ new[j + 1].proc = list[j].proc
              /\ new[j + 1].expires =
                    IF j = pos THEN list[j].expires - left[pos] ELSE list[j].expires
    BY <1>0, AddTimer, Zenon
  <1>2. left[1] = t
    BY <1>0, LeftIs
  <1>3. n \in Nat /\ DOMAIN list = 1 .. n /\ DOMAIN new = 1 .. n + 1
    BY <1>1, LenProperties
  <1> HIDE DEF left, pos, new, n
  <1> DEFINE at(j) == IF j < pos THEN j ELSE j + 1
             own(j) == new[j].proc
  <1>4. own(pos) = p
    BY <1>1
  <1>5. ASSUME NEW j \in 1 .. n  PROVE at(j) \in 1 .. n + 1 /\ at(j) # pos /\ own(at(j)) = list[j].proc
    <2>1. CASE j < pos
      BY <1>1, <1>3, <2>1
    <2>2. CASE ~(j < pos)
      BY <1>1, <1>3, <2>2
    <2> QED  BY <2>1, <2>2
  <1>6. ASSUME NEW i \in 1 .. n + 1, i # pos
        PROVE  \E j \in 1 .. n : i = at(j)
    <2>1. CASE i < pos
      <3>1. i \in 1 .. n /\ at(i) = i
        BY <1>1, <1>3, <2>1
      <3> QED  BY <3>1
    <2>2. CASE ~(i < pos)
      <3>1. i - 1 \in 1 .. n /\ at(i - 1) = i
        BY <1>1, <1>3, <1>6, <2>2
      <3> QED  BY <3>1
    <2> QED  BY <2>1, <2>2
  <1>7. OneEach(new)
    <2> SUFFICES ASSUME NEW a \in 1 .. n + 1, NEW b \in 1 .. n + 1, own(a) = own(b)
                 PROVE  a = b
      BY <1>3 DEF OneEach
    <2> HIDE DEF at, own
    <2>0. \A j \in 1 .. n : list[j].proc # p
      BY <1>3 DEF TimerProcs
    <2>1. CASE a = pos /\ b # pos
      BY <1>4, <1>5, <1>6, <2>0, <2>1
    <2>2. CASE a # pos /\ b = pos
      BY <1>4, <1>5, <1>6, <2>0, <2>2
    <2>3. CASE a # pos /\ b # pos
      <3>1. PICK i \in 1 .. n : a = at(i)
        BY <1>6, <2>3
      <3>2. PICK j \in 1 .. n : b = at(j)
        BY <1>6, <2>3
      <3>3. list[i].proc = list[j].proc
        BY <1>5, <3>1, <3>2
      <3> QED  BY <1>3, <3>1, <3>2, <3>3 DEF OneEach
    <2> QED  BY <2>1, <2>2, <2>3
  <1>8. TimerProcs(new) = TimerProcs(list) \cup {p}
    <2>1. TimerProcs(new) = {own(i) : i \in 1 .. n + 1}
      BY <1>3 DEF TimerProcs
    <2>2. TimerProcs(list) = {list[j].proc : j \in 1 .. n}
      BY <1>3 DEF TimerProcs
    <2>3. pos \in 1 .. n + 1
      BY <1>1
    <2> HIDE DEF at, own
    <2> QED  BY <1>4, <1>5, <1>6, <2>1, <2>2, <2>3
  <1>9. NotDue(new)
    <2>1. Head(new) = new[1]
      BY <1>1, <1>3
    <2>2. CASE pos = 1
      <3>1. new[1].expires = t
        BY <1>1, <1>2, <2>2
      <3> QED  BY <2>1, <3>1 DEF NotDue
    <2>3. CASE pos # 1
      <3>1. new[1] = list[1] /\ list # <<>> /\ Head(list) = list[1]
        BY <1>1, <1>3, <2>3 DEF n
      <3> QED  BY <2>1, <3>1 DEF NotDue
    <2> QED  BY <2>2, <2>3
  <1> QED  BY <1>1, <1>7, <1>8, <1>9 DEF new

-----------------------------------------------------------------------------
(* del_timer.                                                              *)

\* What del_timer does to the list: the entry of p goes, and the entry behind it
\* takes its delta over.
LEMMA DelTimer ==
    ASSUME NEW list \in Seq(Entry), NEW p, p \in TimerProcs(list)
    PROVE  LET pos == CHOOSE i \in DOMAIN list : list[i].proc = p
               new == del_timer(list, p)
           IN  /\ pos \in 1 .. Len(list) /\ list[pos].proc = p
               /\ new \in Seq(Entry)
               /\ Len(new) = Len(list) - 1
               /\ \A j \in 1 .. pos - 1 : new[j] = list[j]
               /\ \A j \in pos .. Len(list) - 1 :
                     /\ new[j].proc = list[j + 1].proc
                     /\ new[j].expires =
                           IF j = pos THEN list[j + 1].expires + list[pos].expires
                           ELSE list[j + 1].expires
  <1> DEFINE n    == Len(list)
             pos  == CHOOSE i \in DOMAIN list : list[i].proc = p
             d    == list[pos].expires
             rest == Shift(list, pos + 1, d)
             new  == del_timer(list, p)
  <1>1. n \in Nat /\ DOMAIN list = 1 .. n /\ \A j \in 1 .. n : list[j].expires \in Nat
    <2>1. n \in Nat /\ DOMAIN list = 1 .. n /\ \A j \in 1 .. n : list[j] \in Entry
      BY LenProperties, ElementOfSeq
    <2> QED  BY <2>1 DEF Entry
  <1>2. pos \in 1 .. n /\ list[pos].proc = p
    <2>1. \E i \in DOMAIN list : list[i].proc = p
      BY DEF TimerProcs
    <2> QED  BY <1>1, <2>1
  <1>3. new = RemoveAt(rest, pos)
    BY DEF del_timer
  <1> HIDE DEF pos, new, n
  <1>4. d \in Nat
    BY <1>1, <1>2
  <1> HIDE DEF d
  <1>5. /\ rest \in Seq(Entry)
        /\ Len(rest) = n
        /\ \A j \in 1 .. n :
              /\ rest[j].proc = list[j].proc
              /\ rest[j].expires = IF j = pos + 1 THEN list[j].expires + d
                                   ELSE list[j].expires
              /\ j # pos + 1 => rest[j] = list[j]
    <2>1. pos + 1 \in DOMAIN list => list[pos + 1].expires + d \in Nat
      BY <1>1, <1>2, <1>4
    <2>2. d \in Int
      BY <1>4
    <2> QED  BY <2>1, <2>2, ShiftEntry DEF n
  <1> HIDE DEF rest
  <1>6. /\ new \in Seq(Entry)
        /\ Len(new) = n - 1
        /\ \A j \in 1 .. n - 1 : new[j] = IF j < pos THEN rest[j] ELSE rest[j + 1]
    <2>1. pos \in 1 .. Len(rest) /\ rest \in Seq(Entry)
      BY <1>2, <1>5
    <2>2. new \in Seq(Entry)
      BY <1>3, <2>1, RemoveAtProperties
    <2>3. Len(new) = Len(rest) - 1
      BY <1>3, <2>1, RemoveAtProperties
    <2>4. \A j \in 1 .. Len(rest) - 1 : new[j] = IF j < pos THEN rest[j] ELSE rest[j + 1]
      BY <1>3, <2>1, RemoveAtProperties
    <2> QED  BY <1>5, <2>2, <2>3, <2>4
  <1>7. ASSUME NEW j \in 1 .. pos - 1  PROVE new[j] = list[j]
    <2>1. j \in 1 .. n /\ j \in 1 .. n - 1 /\ j < pos /\ j # pos + 1
      BY <1>1, <1>2
    <2> QED  BY <1>5, <1>6, <2>1
  <1>8. ASSUME NEW j \in pos .. n - 1
        PROVE  /\ new[j].proc = list[j + 1].proc
               /\ new[j].expires = IF j = pos THEN list[j + 1].expires + d
                                   ELSE list[j + 1].expires
    <2>1. /\ j \in 1 .. n - 1 /\ j + 1 \in 1 .. n /\ ~(j < pos)
          /\ j + 1 = pos + 1 <=> j = pos
      BY <1>1, <1>2
    <2>2. new[j] = rest[j + 1]
      BY <1>6, <2>1
    <2> QED  BY <1>5, <2>1, <2>2
  <1> QED  BY <1>2, <1>6, <1>7, <1>8 DEF new, pos, n, d

\* del_timer disarms one timer and leaves none that is due at the head.
LEMMA DelKeeps ==
    ASSUME NEW list \in Seq(Entry), OneEach(list), NEW p
    PROVE  /\ del_timer(list, p) \in Seq(Entry)
           /\ OneEach(del_timer(list, p))
           /\ TimerProcs(del_timer(list, p)) = TimerProcs(list) \ {p}
           /\ NotDue(list) => NotDue(del_timer(list, p))
  <1>1. CASE p \notin TimerProcs(list)
    BY <1>1 DEF del_timer
  <1>2. CASE p \in TimerProcs(list)
    <2> DEFINE n    == Len(list)
               pos  == CHOOSE i \in DOMAIN list : list[i].proc = p
               new  == del_timer(list, p)
    <2>1. /\ pos \in 1 .. n /\ list[pos].proc = p
          /\ new \in Seq(Entry)
          /\ Len(new) = n - 1
          /\ \A j \in 1 .. pos - 1 : new[j] = list[j]
          /\ \A j \in pos .. n - 1 :
                /\ new[j].proc = list[j + 1].proc
                /\ new[j].expires =
                      IF j = pos THEN list[j + 1].expires + list[pos].expires
                      ELSE list[j + 1].expires
      BY <1>2, DelTimer
    <2> HIDE DEF pos, new, n
    <2>2. n \in Nat /\ DOMAIN list = 1 .. n /\ DOMAIN new = 1 .. n - 1
      BY <2>1, LenProperties DEF n
    <2>3. \A j \in 1 .. n : list[j].expires \in Nat
      <3>1. \A j \in 1 .. n : list[j] \in Entry
        BY <2>2, ElementOfSeq DEF n
      <3> QED  BY <3>1 DEF Entry
    <2> DEFINE from(j) == IF j < pos THEN j ELSE j + 1
               own(j) == new[j].proc
    <2>4. ASSUME NEW j \in 1 .. n - 1
          PROVE  from(j) \in 1 .. n /\ from(j) # pos /\ own(j) = list[from(j)].proc
      <3>1. CASE j < pos
        BY <2>1, <2>2, <3>1
      <3>2. CASE ~(j < pos)
        BY <2>1, <2>2, <3>2
      <3> QED  BY <3>1, <3>2
    <2>5. ASSUME NEW i \in 1 .. n, i # pos
          PROVE  \E j \in 1 .. n - 1 : i = from(j)
      <3>1. CASE i < pos
        <4>1. i \in 1 .. n - 1 /\ from(i) = i
          BY <2>1, <2>2, <3>1
        <4> QED  BY <4>1
      <3>2. CASE ~(i < pos)
        <4>1. i - 1 \in 1 .. n - 1 /\ from(i - 1) = i
          BY <2>1, <2>2, <2>5, <3>2
        <4> QED  BY <4>1
      <3> QED  BY <3>1, <3>2
    <2>6. ASSUME NEW i \in 1 .. n - 1, NEW j \in 1 .. n - 1, from(i) = from(j)  PROVE i = j
      BY <2>1, <2>2, <2>6
    <2>7. OneEach(new)
      <3> SUFFICES ASSUME NEW a \in 1 .. n - 1, NEW b \in 1 .. n - 1, own(a) = own(b)
                   PROVE  a = b
        BY <2>2 DEF OneEach
      <3> HIDE DEF from, own
      <3>1. from(a) = from(b)
        BY <2>2, <2>4 DEF OneEach
      <3> QED  BY <2>6, <3>1
    <2>8. TimerProcs(new) = TimerProcs(list) \ {p}
      <3>1. TimerProcs(new) = {own(i) : i \in 1 .. n - 1}
        BY <2>2 DEF TimerProcs
      <3>2. TimerProcs(list) = {list[j].proc : j \in 1 .. n}
        BY <2>2 DEF TimerProcs
      <3>3. pos \in 1 .. n /\ list[pos].proc = p
        BY <2>1
      <3>4. \A i \in 1 .. n : i # pos => list[i].proc # p
        BY <2>2, <3>3 DEF OneEach
      <3> HIDE DEF from, own
      <3> QED  BY <2>4, <2>5, <3>1, <3>2, <3>3, <3>4
    <2>9. ASSUME NotDue(list), new # <<>>  PROVE Head(new).expires # 0
      <3>1. Head(new) = new[1] /\ n >= 2
        BY <2>1, <2>2, <2>9
      <3>2. list # <<>> /\ Head(list) = list[1]
        BY <2>2, <3>1 DEF n
      <3>3. list[1].expires # 0
        BY <2>9, <3>2 DEF NotDue
      <3>4. CASE pos = 1
        <4>1. new[1].expires = list[2].expires + list[1].expires
          BY <2>1, <2>2, <3>1, <3>4
        <4>2. list[1].expires \in Nat /\ list[2].expires \in Nat
          BY <2>2, <2>3, <3>1
        <4> QED  BY <3>1, <3>3, <4>1, <4>2
      <3>5. CASE pos # 1
        <4>1. new[1] = list[1]
          BY <2>1, <2>2, <3>5
        <4> QED  BY <3>1, <3>3, <4>1
      <3> QED  BY <3>4, <3>5
    <2> QED  BY <2>1, <2>7, <2>8, <2>9 DEF new, NotDue
  <1> QED  BY <1>1, <1>2

-----------------------------------------------------------------------------
(* The deltas added up.                                                    *)

\* S[i] is the number of ticks until entry i is due.
IsSum(S, list) ==
    /\ S \in [0 .. Len(list) -> Nat]
    /\ S[0] = 0
    /\ \A i \in 1 .. Len(list) : S[i] = S[i - 1] + list[i].expires

\* The deltas are natural numbers.
LEMMA EntryTypes ==
    ASSUME NEW list \in Seq(Entry)
    PROVE  /\ Len(list) \in Nat /\ DOMAIN list = 1 .. Len(list)
           /\ \A j \in 1 .. Len(list) : list[j].proc \in Proc /\ list[j].expires \in Nat
  <1>1. Len(list) \in Nat /\ DOMAIN list = 1 .. Len(list)
    BY LenProperties
  <1>2. \A j \in 1 .. Len(list) : list[j] \in Entry
    BY <1>1, ElementOfSeq
  <1> QED  BY <1>1, <1>2 DEF Entry

\* The deltas of a list can be added up.
LEMMA SumExists ==
    ASSUME NEW list \in Seq(Entry)
    PROVE  \E S : IsSum(S, list)
  <1> DEFINE n == Len(list)
             L == Left(list, 0)
             S == [i \in 0 .. n |-> 0 - L[i + 1]]
  <1>1. n \in Nat /\ \A j \in 1 .. n : list[j].expires \in Nat
    BY EntryTypes
  <1>2. /\ L \in [1 .. n + 1 -> Int]
        /\ L[1] = 0
        /\ \A i \in 1 .. n : L[i + 1] = L[i] - list[i].expires
    <2>1. 0 \in Int
      OBVIOUS
    <2> QED  BY <2>1, LeftIs
  <1> HIDE DEF n, L
  <1>3. ASSUME NEW i \in 1 .. n  PROVE S[i] = S[i - 1] + list[i].expires
    <2>1. i \in 0 .. n /\ i - 1 \in 0 .. n /\ i \in 1 .. n + 1 /\ i + 1 \in 1 .. n + 1
      BY <1>1
    <2>2. S[i] = 0 - L[i + 1] /\ S[i - 1] = 0 - L[(i - 1) + 1] /\ (i - 1) + 1 = i
      BY <2>1
    <2>3. L[i] \in Int /\ L[i + 1] = L[i] - list[i].expires /\ list[i].expires \in Nat
      BY <1>1, <1>2, <2>1
    <2> HIDE DEF S
    <2> QED  BY <2>2, <2>3
  <1>4. S[0] = 0
    BY <1>1, <1>2
  <1> DEFINE T == {k \in Nat : k \in 0 .. n => S[k] \in Nat}
  <1>5. 0 \in T
    BY <1>4
  <1>6. ASSUME NEW k \in Nat, k \in T  PROVE k + 1 \in T
    <2>1. ASSUME k + 1 \in 0 .. n  PROVE S[k + 1] \in Nat
      <3>1. k \in 0 .. n /\ k + 1 \in 1 .. n /\ (k + 1) - 1 = k
        BY <1>1, <2>1
      <3>2. S[k] \in Nat /\ list[k + 1].expires \in Nat
        BY <1>1, <1>6, <3>1
      <3>3. S[k + 1] = S[(k + 1) - 1] + list[k + 1].expires
        BY <1>3, <3>1
      <3> HIDE DEF S
      <3> QED  BY <3>1, <3>2, <3>3
    <2> HIDE DEF S
    <2> QED  BY <2>1
  <1> HIDE DEF T
  <1>7. Nat \subseteq T
    BY <1>5, <1>6, SetInduction
  <1>8. \A k \in 0 .. n : S[k] \in Nat
    <2> SUFFICES ASSUME NEW k \in 0 .. n  PROVE S[k] \in Nat
      OBVIOUS
    <2>1. k \in T
      BY <1>7
    <2> HIDE DEF S
    <2> QED  BY <2>1 DEF T
  <1>9. S = [i \in 0 .. n |-> S[i]]
    OBVIOUS
  <1> HIDE DEF S
  <1>10. S \in [0 .. n -> Nat]
    BY <1>8, <1>9
  <1> QED  BY <1>3, <1>4, <1>10 DEF IsSum, n

\* Later entries are due later or together.
LEMMA SumGrows ==
    ASSUME NEW list \in Seq(Entry), NEW S, IsSum(S, list)
    PROVE  \A i, j \in 0 .. Len(list) : i <= j => S[i] <= S[j]
  <1> DEFINE n == Len(list)
  <1>1. n \in Nat /\ \A j \in 1 .. n : list[j].expires \in Nat
    BY EntryTypes
  <1>2. /\ \A i \in 0 .. n : S[i] \in Nat
        /\ \A i \in 1 .. n : S[i] = S[i - 1] + list[i].expires
    BY DEF IsSum
  <1> HIDE DEF n
  <1> SUFFICES ASSUME NEW i \in 0 .. n  PROVE \A j \in 0 .. n : i <= j => S[i] <= S[j]
    BY DEF n
  <1> DEFINE T == {k \in Nat : i + k <= n => S[i] <= S[i + k]}
  <1>3. 0 \in T
    BY <1>2
  <1>4. ASSUME NEW k \in Nat, k \in T  PROVE k + 1 \in T
    <2>1. ASSUME i + (k + 1) <= n  PROVE S[i] <= S[i + (k + 1)]
      <3>1. /\ i + (k + 1) \in 1 .. n /\ (i + (k + 1)) - 1 = i + k
            /\ i + k \in 0 .. n /\ i + k <= n
        BY <1>1, <2>1
      <3>2. S[i + (k + 1)] = S[i + k] + list[i + (k + 1)].expires
        BY <1>2, <3>1
      <3>3. S[i] <= S[i + k]
        BY <1>4, <3>1
      <3>4. S[i] \in Nat /\ S[i + k] \in Nat /\ list[i + (k + 1)].expires \in Nat
        BY <1>1, <1>2, <3>1
      <3> QED  BY <3>2, <3>3, <3>4
    <2> QED  BY <2>1
  <1> HIDE DEF T
  <1>5. Nat \subseteq T
    BY <1>3, <1>4, SetInduction
  <1>6. ASSUME NEW j \in 0 .. n, i <= j  PROVE S[i] <= S[j]
    <2>1. j - i \in Nat /\ i + (j - i) = j /\ j <= n
      BY <1>1, <1>6
    <2>2. j - i \in T
      BY <1>5, <2>1
    <2> QED  BY <2>1, <2>2 DEF T
  <1> QED  BY <1>6

\* TicksLeft for any list.
Ticks(list, p) ==
    LET pos == CHOOSE i \in DOMAIN list : list[i].proc = p
        sum[i \in 0 .. pos] ==
            IF i = 0 THEN 0 ELSE sum[i - 1] + list[i].expires
    IN  sum[pos]

\* The recursive function of TicksLeft adds the deltas up.
LEMMA TicksIs ==
    ASSUME NEW list \in Seq(Entry), OneEach(list), NEW S, IsSum(S, list),
           NEW m \in 1 .. Len(list)
    PROVE  Ticks(list, list[m].proc) = S[m]
  <1> DEFINE n == Len(list)
             pos == CHOOSE i \in DOMAIN list : list[i].proc = list[m].proc
             Body(g) == [i \in 0 .. pos |-> IF i = 0 THEN 0 ELSE g[i - 1] + list[i].expires]
             f == [i \in 0 .. m |-> S[i]]
             L == CHOOSE g : g = Body(g)
  <1>1. n \in Nat /\ DOMAIN list = 1 .. n /\ m \in 1 .. n
    BY EntryTypes
  <1>2. pos = m
    BY <1>1 DEF OneEach
  <1>3. Ticks(list, list[m].proc) = L[pos]
    BY DEF Ticks
  <1> HIDE DEF pos, n
  <1>4. /\ S[0] = 0
        /\ \A i \in 1 .. n : S[i] = S[i - 1] + list[i].expires
    BY DEF IsSum, n
  <1>5. f = Body(f)
    <2>1. ASSUME NEW i \in 0 .. m
          PROVE  f[i] = IF i = 0 THEN 0 ELSE f[i - 1] + list[i].expires
      <3>1. CASE i = 0
        BY <1>4, <3>1
      <3>2. CASE i # 0
        <4>1. i \in 1 .. n /\ i - 1 \in 0 .. m
          BY <1>1, <3>2
        <4> QED  BY <1>4, <3>2, <4>1
      <3> QED  BY <3>1, <3>2
    <2>2. f = [i \in 0 .. m |-> f[i]]
      OBVIOUS
    <2> HIDE DEF f
    <2> QED  BY <1>2, <2>1, <2>2
  <1>6. L = Body(L)
    <2> HIDE DEF Body
    <2> QED  BY <1>5
  <1> HIDE DEF L, f
  <1>7. \A i \in 0 .. m : L[i] = IF i = 0 THEN 0 ELSE L[i - 1] + list[i].expires
    BY <1>2, <1>6
  <1> HIDE DEF Body
  <1> DEFINE T == {k \in Nat : k \in 0 .. m => L[k] = S[k]}
  <1>8. 0 \in T
    <2>1. 0 \in 0 .. m
      BY <1>1
    <2> QED  BY <1>4, <1>7, <2>1
  <1>9. ASSUME NEW k \in Nat, k \in T  PROVE k + 1 \in T
    <2>1. ASSUME k + 1 \in 0 .. m  PROVE L[k + 1] = S[k + 1]
      <3>1. /\ k \in 0 .. m /\ k + 1 \in 1 .. n /\ (k + 1) - 1 = k /\ k + 1 # 0
        BY <1>1, <2>1
      <3>2. L[k + 1] = L[k] + list[k + 1].expires
        BY <1>7, <2>1, <3>1
      <3>3. S[k + 1] = S[k] + list[k + 1].expires
        BY <1>4, <3>1
      <3>4. L[k] = S[k]
        BY <1>9, <3>1
      <3> QED  BY <3>2, <3>3, <3>4
    <2> QED  BY <2>1
  <1> HIDE DEF T
  <1>10. m \in T
    <2>1. m \in Nat
      BY <1>1
    <2> QED  BY <1>8, <1>9, <2>1, SetInduction
  <1>11. L[m] = S[m]
    <2>1. m \in 0 .. m
      BY <1>1
    <2> QED  BY <1>10, <2>1 DEF T
  <1> QED  BY <1>2, <1>3, <1>11

\* new is list with an entry of p at pos that is due in t ticks, and every other one
\* is due when it was; the ones behind p are due later.
Arms(list, S, new, Z, pos, p, t) ==
    /\ IsSum(Z, new)
    /\ Len(new) = Len(list) + 1
    /\ new[pos].proc = p /\ Z[pos] = t
    /\ \A j \in 1 .. pos - 1 : new[j].proc = list[j].proc /\ Z[j] = S[j]
    /\ \A j \in pos .. Len(list) :
          new[j + 1].proc = list[j].proc /\ Z[j + 1] = S[j] /\ S[j] > t

\* new is list without the entry of p at pos, and every other one is due when it was.
Disarms(list, S, new, Z, pos, p) ==
    /\ IsSum(Z, new)
    /\ Len(new) = Len(list) - 1
    /\ list[pos].proc = p
    /\ \A j \in 1 .. pos - 1 : new[j].proc = list[j].proc /\ Z[j] = S[j]
    /\ \A j \in pos .. Len(list) - 1 : new[j].proc = list[j + 1].proc /\ Z[j] = S[j + 1]

\* add_timer leaves the other deadlines alone and puts its own behind the ones that
\* are not later.
LEMMA AddSum ==
    ASSUME NEW list \in Seq(Entry), NEW p \in Proc, NEW t \in Nat, NEW S, IsSum(S, list)
    PROVE  \E pos \in 1 .. Len(list) + 1 : \E Z :
              Arms(list, S, add_timer(list, p, t), Z, pos, p, t)
  <1> DEFINE left == Left(list, t)
             n    == Len(list)
             pos  == Cardinality(Passed(list, left)) + 1
             new  == add_timer(list, p, t)
             Z    == [i \in 0 .. n + 1 |-> IF i < pos THEN S[i]
                                           ELSE IF i = pos THEN t ELSE S[i - 1]]
  <1>1. /\ new \in Seq(Entry)
        /\ Len(new) = n + 1
        /\ pos \in 1 .. n + 1
        /\ new[pos] = [proc |-> p, expires |-> left[pos]]
        /\ \A j \in 1 .. pos - 1 : new[j] = list[j]
        /\ \A j \in pos .. n :
              /\ new[j + 1].proc = list[j].proc
              /\ new[j + 1].expires =
                    IF j = pos THEN list[j].expires - left[pos] ELSE list[j].expires
    BY AddTimer, Zenon
  <1>2. pos <= n => left[pos] < list[pos].expires
    <2> DEFINE k == Cardinality(Passed(list, left))
    <2>1. /\ k \in 0 .. n
          /\ k < n => left[k + 1] < list[k + 1].expires
      BY PassedIs
    <2> HIDE DEF k, left, n
    <2>2. pos = k + 1 /\ n \in Nat
      BY EntryTypes DEF k, n
    <2> HIDE DEF pos
    <2> QED  BY <2>1, <2>2
  <1>3. n \in Nat /\ \A j \in 1 .. n : list[j].expires \in Nat
    BY EntryTypes
  <1>4. /\ left \in [1 .. n + 1 -> Int]
        /\ left[1] = t
        /\ \A i \in 1 .. n : left[i + 1] = left[i] - list[i].expires
    <2>1. t \in Int
      OBVIOUS
    <2> QED  BY <2>1, LeftIs
  <1>5. /\ \A i \in 0 .. n : S[i] \in Nat
        /\ S[0] = 0
        /\ \A i \in 1 .. n : S[i] = S[i - 1] + list[i].expires
    BY DEF IsSum
  <1>6. \A i, j \in 0 .. n : i <= j => S[i] <= S[j]
    BY SumGrows
  <1> HIDE DEF left, n, pos, new
  \* What is left at an entry, and what the entries before it add up to.
  <1>7. \A i \in 1 .. n + 1 : left[i] = t - S[i - 1]
    <2> DEFINE T == {k \in Nat : k \in 0 .. n => left[k + 1] = t - S[k]}
    <2>1. 0 \in T
      BY <1>4, <1>5
    <2>2. ASSUME NEW k \in Nat, k \in T  PROVE k + 1 \in T
      <3>1. ASSUME k + 1 \in 0 .. n  PROVE left[(k + 1) + 1] = t - S[k + 1]
        <4>1. k \in 0 .. n /\ k + 1 \in 1 .. n /\ (k + 1) - 1 = k
          BY <1>3, <3>1
        <4>2. left[(k + 1) + 1] = left[k + 1] - list[k + 1].expires
          BY <1>4, <4>1
        <4>3. S[k + 1] = S[k] + list[k + 1].expires
          BY <1>5, <4>1
        <4>4. left[k + 1] = t - S[k]
          BY <2>2, <4>1
        <4>5. S[k] \in Nat /\ list[k + 1].expires \in Nat
          BY <1>3, <1>5, <4>1
        <4> QED  BY <4>2, <4>3, <4>4, <4>5
      <3> QED  BY <3>1
    <2> HIDE DEF T
    <2>3. Nat \subseteq T
      BY <2>1, <2>2, SetInduction
    <2>4. ASSUME NEW i \in 1 .. n + 1  PROVE left[i] = t - S[i - 1]
      <3>1. i - 1 \in Nat /\ i - 1 \in 0 .. n /\ (i - 1) + 1 = i
        BY <1>3
      <3>2. i - 1 \in T
        BY <2>3, <3>1
      <3> QED  BY <3>1, <3>2 DEF T
    <2> QED  BY <2>4
  <1>8. left[pos] = t - S[pos - 1] /\ S[pos - 1] \in Nat /\ pos - 1 \in 0 .. n
    BY <1>1, <1>3, <1>5, <1>7
  <1>9. ASSUME NEW j \in pos .. n  PROVE S[j] > t
    <2>1. pos \in 1 .. n /\ pos <= n /\ j \in 0 .. n /\ pos \in 0 .. n
      BY <1>1, <1>3
    <2>2. S[pos] = S[pos - 1] + list[pos].expires /\ list[pos].expires \in Nat
      BY <1>3, <1>5, <2>1
    <2>3. S[pos] > t
      BY <1>2, <1>8, <2>1, <2>2
    <2>4. S[pos] <= S[j] /\ S[pos] \in Nat /\ S[j] \in Nat
      BY <1>5, <1>6, <2>1
    <2> QED  BY <2>3, <2>4
  <1>10. \A i \in 0 .. n + 1 : Z[i] \in Nat
    <2> SUFFICES ASSUME NEW i \in 0 .. n + 1  PROVE Z[i] \in Nat
      OBVIOUS
    <2>1. CASE i < pos
      BY <1>1, <1>3, <1>5, <2>1
    <2>2. CASE i = pos
      BY <2>2
    <2>3. CASE i > pos
      <3>1. i - 1 \in 0 .. n
        BY <1>1, <1>3, <2>3
      <3> QED  BY <1>1, <1>5, <2>3, <3>1
    <2> QED  BY <1>1, <2>1, <2>2, <2>3
  <1>11. ASSUME NEW i \in 1 .. n + 1  PROVE Z[i] = Z[i - 1] + new[i].expires
    <2>1. CASE i < pos
      <3>1. i \in 1 .. n /\ i \in 1 .. pos - 1 /\ i - 1 < pos /\ i - 1 \in 0 .. n + 1 /\ i \in 0 .. n + 1
        BY <1>1, <1>3, <2>1
      <3>2. Z[i] = S[i] /\ Z[i - 1] = S[i - 1]
        BY <2>1, <3>1
      <3>3. new[i] = list[i]
        BY <1>1, <3>1
      <3> QED  BY <1>5, <3>1, <3>2, <3>3
    <2>2. CASE i = pos
      <3>1. i - 1 < pos /\ i - 1 \in 0 .. n + 1 /\ i \in 0 .. n + 1 /\ ~(i < pos)
        BY <1>1, <1>3, <2>2
      <3>2. Z[i] = t /\ Z[i - 1] = S[i - 1]
        BY <2>2, <3>1
      <3>3. new[i].expires = left[pos]
        BY <1>1, <2>2
      <3> QED  BY <1>8, <2>2, <3>2, <3>3
    <2>3. CASE i = pos + 1
      <3>1. /\ i - 1 = pos /\ pos \in pos .. n /\ i - 1 \in 0 .. n + 1 /\ i \in 0 .. n + 1
            /\ pos \in 1 .. n /\ ~(i < pos) /\ i # pos
        BY <1>1, <1>3, <2>3
      <3>2. Z[i] = S[pos] /\ Z[i - 1] = t
        BY <3>1
      <3>3. new[pos + 1].expires = list[pos].expires - left[pos]
        BY <1>1, <3>1
      <3>4. S[pos] = S[pos - 1] + list[pos].expires /\ list[pos].expires \in Nat
        BY <1>3, <1>5, <3>1
      <3> HIDE DEF Z
      <3> QED  BY <1>8, <2>3, <3>2, <3>3, <3>4
    <2>4. CASE i > pos + 1
      <3>1. /\ i - 1 \in pos .. n /\ i - 1 \in 0 .. n + 1 /\ i \in 0 .. n + 1
            /\ i - 1 \in 1 .. n /\ ~(i < pos) /\ i # pos /\ ~(i - 1 < pos) /\ i - 1 # pos
            /\ (i - 1) + 1 = i
        BY <1>1, <1>3, <2>4
      <3>2. Z[i] = S[i - 1] /\ Z[i - 1] = S[(i - 1) - 1]
        BY <3>1
      <3>3. new[i].expires = list[i - 1].expires
        BY <1>1, <3>1
      <3>4. S[i - 1] = S[(i - 1) - 1] + list[i - 1].expires
        BY <1>5, <3>1
      <3> HIDE DEF Z
      <3> QED  BY <3>2, <3>3, <3>4
    <2> QED  BY <1>1, <1>3, <2>1, <2>2, <2>3, <2>4
  <1>12. Z = [i \in 0 .. n + 1 |-> Z[i]] /\ Z[0] = 0
    BY <1>1, <1>3, <1>5
  <1>13. /\ \A j \in 1 .. pos - 1 : Z[j] = S[j]
         /\ Z[pos] = t
         /\ \A j \in pos .. n : Z[j + 1] = S[j]
    BY <1>1, <1>3
  <1> HIDE DEF Z
  <1>14. Z \in [0 .. n + 1 -> Nat]
    BY <1>10, <1>12
  <1>15. IsSum(Z, new)
    BY <1>1, <1>11, <1>12, <1>14 DEF IsSum
  <1>16. \A j \in 1 .. pos - 1 : new[j].proc = list[j].proc
    BY <1>1
  <1>17. new[pos].proc = p
    BY <1>1
  <1>18. pos \in 1 .. Len(list) + 1 /\ Arms(list, S, new, Z, pos, p, t)
    BY <1>1, <1>9, <1>13, <1>15, <1>16, <1>17 DEF n, Arms
  <1> QED  BY <1>18 DEF new

\* del_timer leaves the other deadlines alone.
LEMMA DelSum ==
    ASSUME NEW list \in Seq(Entry), NEW p, p \in TimerProcs(list), NEW S, IsSum(S, list)
    PROVE  \E pos \in 1 .. Len(list) : \E Z :
              Disarms(list, S, del_timer(list, p), Z, pos, p)
  <1> DEFINE n    == Len(list)
             pos  == CHOOSE i \in DOMAIN list : list[i].proc = p
             new  == del_timer(list, p)
             Z    == [i \in 0 .. n - 1 |-> IF i < pos THEN S[i] ELSE S[i + 1]]
  <1>1. /\ pos \in 1 .. n /\ list[pos].proc = p
        /\ new \in Seq(Entry)
        /\ Len(new) = n - 1
        /\ \A j \in 1 .. pos - 1 : new[j] = list[j]
        /\ \A j \in pos .. n - 1 :
              /\ new[j].proc = list[j + 1].proc
              /\ new[j].expires =
                    IF j = pos THEN list[j + 1].expires + list[pos].expires
                    ELSE list[j + 1].expires
    <2>1. p \in TimerProcs(list)
      OBVIOUS
    <2> HIDE DEF Z
    <2> QED  BY <2>1, DelTimer
  <1>2. n \in Nat /\ \A j \in 1 .. n : list[j].expires \in Nat
    BY EntryTypes
  <1>3. /\ \A i \in 0 .. n : S[i] \in Nat
        /\ S[0] = 0
        /\ \A i \in 1 .. n : S[i] = S[i - 1] + list[i].expires
    BY DEF IsSum
  <1> HIDE DEF n, pos, new
  <1>4. \A i \in 0 .. n - 1 : Z[i] \in Nat
    <2> SUFFICES ASSUME NEW i \in 0 .. n - 1  PROVE Z[i] \in Nat
      OBVIOUS
    <2>1. i \in 0 .. n /\ i + 1 \in 0 .. n
      BY <1>2
    <2> QED  BY <1>3, <2>1
  <1>5. ASSUME NEW i \in 1 .. n - 1  PROVE Z[i] = Z[i - 1] + new[i].expires
    <2>0. i - 1 \in 0 .. n - 1 /\ i \in 0 .. n - 1 /\ i \in 1 .. n /\ i + 1 \in 1 .. n
          /\ (i + 1) - 1 = i /\ (i - 1) + 1 = i
      BY <1>2
    <2>1. CASE i < pos
      <3>1. i \in 1 .. pos - 1 /\ i - 1 < pos
        BY <1>1, <2>1
      <3>2. Z[i] = S[i] /\ Z[i - 1] = S[i - 1]
        BY <2>0, <2>1, <3>1
      <3> HIDE DEF Z
      <3> QED  BY <1>1, <1>3, <2>0, <3>1, <3>2
    <2>2. CASE i = pos
      <3>1. i \in pos .. n - 1 /\ i - 1 < pos /\ ~(i < pos)
        BY <1>1, <2>0, <2>2
      <3>2. Z[i] = S[i + 1] /\ Z[i - 1] = S[i - 1]
        BY <2>0, <3>1
      <3>3. new[i].expires = list[i + 1].expires + list[i].expires
        BY <1>1, <2>2, <3>1
      <3>4. S[i + 1] = S[i] + list[i + 1].expires /\ S[i] = S[i - 1] + list[i].expires
        BY <1>3, <2>0
      <3>5. list[i + 1].expires \in Nat /\ list[i].expires \in Nat /\ S[i - 1] \in Nat
        BY <1>2, <1>3, <2>0
      <3> HIDE DEF Z
      <3> QED  BY <3>2, <3>3, <3>4, <3>5
    <2>3. CASE i > pos
      <3>1. i \in pos .. n - 1 /\ ~(i - 1 < pos) /\ ~(i < pos) /\ i # pos
        BY <1>1, <2>0, <2>3
      <3>2. Z[i] = S[i + 1] /\ Z[i - 1] = S[i]
        BY <2>0, <3>1
      <3>3. new[i].expires = list[i + 1].expires
        BY <1>1, <3>1
      <3>4. S[i + 1] = S[i] + list[i + 1].expires
        BY <1>3, <2>0
      <3> HIDE DEF Z
      <3> QED  BY <3>2, <3>3, <3>4
    <2> QED  BY <1>1, <2>1, <2>2, <2>3
  <1>6. Z = [i \in 0 .. n - 1 |-> Z[i]] /\ Z[0] = 0
    BY <1>1, <1>2, <1>3
  <1>7. /\ \A j \in 1 .. pos - 1 : Z[j] = S[j]
        /\ \A j \in pos .. n - 1 : Z[j] = S[j + 1]
    BY <1>1, <1>2
  <1> HIDE DEF Z
  <1>8. Z \in [0 .. n - 1 -> Nat]
    BY <1>4, <1>6
  <1>9. IsSum(Z, new)
    BY <1>1, <1>5, <1>6, <1>8 DEF IsSum
  <1>10. \A j \in 1 .. pos - 1 : new[j].proc = list[j].proc
    BY <1>1
  <1>11. pos \in 1 .. Len(list) /\ Disarms(list, S, new, Z, pos, p)
    BY <1>1, <1>7, <1>9, <1>10 DEF n, Disarms
  <1> QED  BY <1>11 DEF new

\* A tick brings every deadline closer by one.
LEMMA TickSum ==
    ASSUME NEW list \in Seq(Entry), NotDue(list), NEW S, IsSum(S, list)
    PROVE  LET Z == [i \in 0 .. Len(list) |-> IF i = 0 THEN 0 ELSE S[i] - 1]
           IN  /\ IsSum(Z, Shift(list, 1, 0 - 1))
               /\ \A i \in 1 .. Len(list) : S[i] > 0
  <1> DEFINE n   == Len(list)
             new == Shift(list, 1, 0 - 1)
             Z   == [i \in 0 .. n |-> IF i = 0 THEN 0 ELSE S[i] - 1]
  <1>1. /\ Len(new) = n
        /\ \A j \in 1 .. n :
              new[j].expires = IF j = 1 THEN list[j].expires - 1 ELSE list[j].expires
    BY ShiftHead
  <1>2. n \in Nat /\ DOMAIN list = 1 .. n /\ \A j \in 1 .. n : list[j].expires \in Nat
    BY EntryTypes
  <1>3. /\ \A i \in 0 .. n : S[i] \in Nat
        /\ S[0] = 0
        /\ \A i \in 1 .. n : S[i] = S[i - 1] + list[i].expires
    BY DEF IsSum
  <1>4. \A i, j \in 0 .. n : i <= j => S[i] <= S[j]
    BY SumGrows
  <1>5. ASSUME NEW i \in 1 .. n  PROVE S[i] > 0
    <2>1. 1 \in 1 .. n /\ 1 \in 0 .. n /\ i \in 0 .. n /\ 1 <= i /\ 1 - 1 = 0
      BY <1>2
    <2>2. list # <<>> /\ Head(list) = list[1]
      BY <1>2, <2>1
    <2>3. list[1].expires # 0 /\ list[1].expires \in Nat
      BY <1>2, <2>1, <2>2 DEF NotDue
    <2>4. S[1] = list[1].expires
      BY <1>3, <2>1, <2>3
    <2>5. S[1] <= S[i] /\ S[i] \in Nat
      BY <1>3, <1>4, <2>1
    <2> QED  BY <2>3, <2>4, <2>5
  <1> HIDE DEF n, new
  <1>6. \A i \in 0 .. n : Z[i] \in Nat
    <2> SUFFICES ASSUME NEW i \in 0 .. n  PROVE Z[i] \in Nat
      OBVIOUS
    <2>1. i # 0 => i \in 1 .. n
      BY <1>2
    <2>2. i # 0 => S[i] \in Nat /\ S[i] > 0
      BY <1>3, <1>5, <2>1
    <2> QED  BY <2>2
  <1>7. ASSUME NEW i \in 1 .. n  PROVE Z[i] = Z[i - 1] + new[i].expires
    <2>1. i \in 0 .. n /\ i - 1 \in 0 .. n /\ i # 0
      BY <1>2
    <2>2. S[i] = S[i - 1] + list[i].expires /\ S[i - 1] \in Nat /\ list[i].expires \in Nat
      BY <1>2, <1>3, <2>1
    <2>3. CASE i = 1
      <3>1. Z[i] = S[i] - 1 /\ Z[i - 1] = 0 /\ S[i - 1] = 0
        BY <1>3, <2>1, <2>3
      <3>2. new[i].expires = list[i].expires - 1
        BY <1>1, <2>3
      <3> HIDE DEF Z
      <3> QED  BY <2>2, <3>1, <3>2
    <2>4. CASE i # 1
      <3>1. Z[i] = S[i] - 1 /\ Z[i - 1] = S[i - 1] - 1
        BY <2>1, <2>4
      <3>2. new[i].expires = list[i].expires
        BY <1>1, <2>4
      <3> HIDE DEF Z
      <3> QED  BY <2>2, <3>1, <3>2
    <2> QED  BY <2>3, <2>4
  <1>8. Z = [i \in 0 .. n |-> Z[i]] /\ Z[0] = 0
    BY <1>2
  <1> HIDE DEF Z
  <1>9. Z \in [0 .. n -> Nat]
    BY <1>6, <1>8
  <1>10. IsSum(Z, new)
    BY <1>1, <1>7, <1>8, <1>9 DEF IsSum
  <1> QED  BY <1>5, <1>10 DEF Z, new, n

-----------------------------------------------------------------------------
(* Deadlines, process by process.                                          *)

\* A timer that is armed has its own deadline and moves no other.
LEMMA AddTicks ==
    ASSUME NEW list \in Seq(Entry), OneEach(list), NEW p \in Proc, NEW t \in Nat,
           add_timer(list, p, t) \in Seq(Entry), OneEach(add_timer(list, p, t))
    PROVE  /\ Ticks(add_timer(list, p, t), p) = t
           /\ \A q \in TimerProcs(list) : Ticks(add_timer(list, p, t), q) = Ticks(list, q)
  <1> DEFINE n   == Len(list)
             new == add_timer(list, p, t)
  <1>1. PICK S : IsSum(S, list)
    BY SumExists
  <1>2a. PICK pos \in 1 .. n + 1 : \E Z : Arms(list, S, new, Z, pos, p, t)
    BY <1>1, AddSum
  <1>2b. PICK Z : Arms(list, S, new, Z, pos, p, t)
    BY <1>2a
  <1>2. /\ IsSum(Z, new)
        /\ Len(new) = n + 1
        /\ new[pos].proc = p /\ Z[pos] = t
        /\ \A j \in 1 .. pos - 1 : new[j].proc = list[j].proc /\ Z[j] = S[j]
        /\ \A j \in pos .. n : /\ new[j + 1].proc = list[j].proc
                               /\ Z[j + 1] = S[j] /\ S[j] > t
    BY <1>2b DEF Arms
  <1>3. n \in Nat /\ DOMAIN list = 1 .. n
    BY EntryTypes
  <1>4. \A m \in 1 .. n + 1 : Ticks(new, new[m].proc) = Z[m]
    <2> HIDE DEF n
    <2>1. new \in Seq(Entry) /\ OneEach(new) /\ IsSum(Z, new) /\ Len(new) = n + 1
      BY <1>2
    <2> HIDE DEF new
    <2> QED  BY <2>1, TicksIs
  <1>5. \A m \in 1 .. n : Ticks(list, list[m].proc) = S[m]
    BY <1>1, TicksIs
  <1> HIDE DEF n, new
  <1>6. Ticks(new, p) = t
    BY <1>2, <1>4
  <1>7. ASSUME NEW q \in TimerProcs(list)  PROVE Ticks(new, q) = Ticks(list, q)
    <2>1. PICK m \in 1 .. n : list[m].proc = q
      BY <1>3 DEF TimerProcs
    <2>2. CASE m < pos
      <3>1. m \in 1 .. pos - 1 /\ m \in 1 .. n + 1
        BY <1>3, <2>2
      <3>2. new[m].proc = q /\ Z[m] = S[m]
        BY <1>2, <2>1, <3>1
      <3> QED  BY <1>4, <1>5, <2>1, <3>1, <3>2
    <2>3. CASE ~(m < pos)
      <3>1. m \in pos .. n /\ m + 1 \in 1 .. n + 1
        BY <1>3, <2>3
      <3>2. new[m + 1].proc = q /\ Z[m + 1] = S[m]
        BY <1>2, <2>1, <3>1
      <3> QED  BY <1>4, <1>5, <2>1, <3>1, <3>2
    <2> QED  BY <2>2, <2>3
  <1> QED  BY <1>6, <1>7 DEF new

\* A timer that is disarmed or fires moves no other deadline.
LEMMA DelTicks ==
    ASSUME NEW list \in Seq(Entry), OneEach(list), NEW p, p \in TimerProcs(list),
           del_timer(list, p) \in Seq(Entry), OneEach(del_timer(list, p))
    PROVE  \A q \in TimerProcs(list) \ {p} : Ticks(del_timer(list, p), q) = Ticks(list, q)
  <1> DEFINE n   == Len(list)
             new == del_timer(list, p)
  <1>1. PICK S : IsSum(S, list)
    BY SumExists
  <1>2a. PICK pos \in 1 .. n : \E Z : Disarms(list, S, new, Z, pos, p)
    BY <1>1, DelSum
  <1>2b. PICK Z : Disarms(list, S, new, Z, pos, p)
    BY <1>2a
  <1>2. /\ IsSum(Z, new)
        /\ Len(new) = n - 1
        /\ list[pos].proc = p
        /\ \A j \in 1 .. pos - 1 : new[j].proc = list[j].proc /\ Z[j] = S[j]
        /\ \A j \in pos .. n - 1 : new[j].proc = list[j + 1].proc /\ Z[j] = S[j + 1]
    BY <1>2b DEF Disarms
  <1>3. n \in Nat /\ DOMAIN list = 1 .. n
    BY EntryTypes
  <1>4. \A m \in 1 .. n - 1 : Ticks(new, new[m].proc) = Z[m]
    <2> HIDE DEF n
    <2>1. new \in Seq(Entry) /\ OneEach(new) /\ IsSum(Z, new) /\ Len(new) = n - 1
      BY <1>2
    <2> HIDE DEF new
    <2> QED  BY <2>1, TicksIs
  <1>5. \A m \in 1 .. n : Ticks(list, list[m].proc) = S[m]
    BY <1>1, TicksIs
  <1> HIDE DEF n, new
  <1>6. ASSUME NEW q \in TimerProcs(list) \ {p}  PROVE Ticks(new, q) = Ticks(list, q)
    <2>1. PICK m \in 1 .. n : list[m].proc = q
      BY <1>3 DEF TimerProcs
    <2>2. m # pos
      BY <1>2, <1>6, <2>1
    <2>3. CASE m < pos
      <3>1. m \in 1 .. pos - 1 /\ m \in 1 .. n - 1
        BY <1>3, <2>3
      <3>2. new[m].proc = q /\ Z[m] = S[m]
        BY <1>2, <2>1, <3>1
      <3> QED  BY <1>4, <1>5, <2>1, <3>1, <3>2
    <2>4. CASE m > pos
      <3>1. m - 1 \in pos .. n - 1 /\ m - 1 \in 1 .. n - 1 /\ (m - 1) + 1 = m
        BY <1>3, <2>4
      <3>2. new[m - 1].proc = q /\ Z[m - 1] = S[m]
        BY <1>2, <2>1, <3>1
      <3> QED  BY <1>4, <1>5, <2>1, <3>1, <3>2
    <2> QED  BY <1>3, <2>2, <2>3, <2>4
  <1> QED  BY <1>6 DEF new

\* A tick counts every timer down by one, and no timer is due before it.
LEMMA TickTicks ==
    ASSUME NEW list \in Seq(Entry), OneEach(list), NotDue(list)
    PROVE  \A q \in TimerProcs(list) :
              /\ Ticks(list, q) > 0
              /\ Ticks(Shift(list, 1, 0 - 1), q) = Ticks(list, q) - 1
  <1> DEFINE n   == Len(list)
             new == Shift(list, 1, 0 - 1)
  <1>1. PICK S : IsSum(S, list)
    BY SumExists
  <1> DEFINE Z == [i \in 0 .. n |-> IF i = 0 THEN 0 ELSE S[i] - 1]
  <1>2. IsSum(Z, new) /\ \A i \in 1 .. n : S[i] > 0
    BY <1>1, TickSum
  <1>3. n \in Nat /\ DOMAIN list = 1 .. n
    BY EntryTypes
  <1>4. /\ new \in Seq(Entry) /\ Len(new) = n
        /\ \A j \in 1 .. n : new[j].proc = list[j].proc
    BY ShiftHead
  <1>5. OneEach(new)
    BY <1>4, SameOwners
  <1>6. \A m \in 1 .. n : Ticks(list, list[m].proc) = S[m]
    BY <1>1, TicksIs
  <1>7. \A m \in 1 .. n : Z[m] = S[m] - 1
    BY <1>3
  <1> HIDE DEF n, new, Z
  <1>8. \A m \in 1 .. n : Ticks(new, new[m].proc) = Z[m]
    BY <1>2, <1>4, <1>5, TicksIs
  <1>9. ASSUME NEW q \in TimerProcs(list)
        PROVE  Ticks(list, q) > 0 /\ Ticks(new, q) = Ticks(list, q) - 1
    <2>1. PICK m \in 1 .. n : list[m].proc = q
      BY <1>3 DEF TimerProcs
    <2> QED  BY <1>2, <1>4, <1>6, <1>7, <1>8, <2>1
  <1> QED  BY <1>9 DEF new

-----------------------------------------------------------------------------
(* Timers that are due together.                                           *)

\* x comes before y on the queue.
Before(queue, x, y) == \A i, j \in DOMAIN queue : queue[i] = x /\ queue[j] = y => i < j

\* Everybody on the queue comes before the one that is appended.
LEMMA AppendBefore ==
    ASSUME NEW queue \in Seq(Proc), NEW p \in Proc, ~On(queue, p), NEW x, x # p
    PROVE  /\ Before(Append(queue, p), x, p)
           /\ \A y : y # p /\ Before(queue, x, y) => Before(Append(queue, p), x, y)
  <1> DEFINE n == Len(queue)
             s == Append(queue, p)
  <1>1. n \in Nat /\ DOMAIN queue = 1 .. n
    BY LenProperties
  <1>2. /\ s \in Seq(Proc) /\ Len(s) = n + 1
        /\ \A i \in 1 .. n : s[i] = queue[i]
        /\ s[n + 1] = p
    BY AppendProperties
  <1>3. DOMAIN s = 1 .. n + 1
    BY <1>2, LenProperties
  <1>4. \A i \in 1 .. n + 1 : i = n + 1 \/ i \in 1 .. n
    BY <1>1
  <1>5. \A i \in 1 .. n : s[i] # p
    BY <1>1, <1>2 DEF On
  <1> HIDE DEF n, s
  <1>6. Before(s, x, p)
    <2> SUFFICES ASSUME NEW i \in 1 .. n + 1, NEW j \in 1 .. n + 1, s[i] = x, s[j] = p
                 PROVE  i < j
      BY <1>3 DEF Before
    <2>1. j = n + 1 /\ i \in 1 .. n
      BY <1>2, <1>4, <1>5
    <2> QED  BY <1>1, <2>1
  <1>7. ASSUME NEW y, y # p, Before(queue, x, y)  PROVE Before(s, x, y)
    <2> SUFFICES ASSUME NEW i \in 1 .. n + 1, NEW j \in 1 .. n + 1, s[i] = x, s[j] = y
                 PROVE  i < j
      BY <1>3 DEF Before
    <2>1. i \in 1 .. n /\ j \in 1 .. n
      BY <1>2, <1>4, <1>7
    <2> QED  BY <1>1, <1>2, <1>7, <2>1 DEF Before
  <1> QED  BY <1>6, <1>7 DEF s

\* Taking one off leaves the others in their order.
LEMMA RemoveBefore ==
    ASSUME NEW queue \in Seq(Proc), NEW k \in DOMAIN queue,
           NEW x, NEW y, Before(queue, x, y)
    PROVE  Before(RemoveAt(queue, k), x, y)
  <1> DEFINE n == Len(queue)
             s == RemoveAt(queue, k)
             from(j) == IF j < k THEN j ELSE j + 1
  <1>1. n \in Nat /\ DOMAIN queue = 1 .. n /\ k \in 1 .. n
    BY LenProperties
  <1>2. /\ s \in Seq(Proc) /\ Len(s) = n - 1
        /\ \A j \in 1 .. n - 1 : s[j] = IF j < k THEN queue[j] ELSE queue[j + 1]
    BY <1>1, RemoveAtProperties
  <1>3. DOMAIN s = 1 .. n - 1
    BY <1>2, LenProperties
  <1> HIDE DEF n, s
  <1>4. \A j \in 1 .. n - 1 : from(j) \in 1 .. n /\ s[j] = queue[from(j)]
    BY <1>1, <1>2
  <1>5. \A i, j \in 1 .. n - 1 : from(i) < from(j) => i < j
    BY <1>1
  <1> HIDE DEF from
  <1>6. ASSUME NEW i \in 1 .. n - 1, NEW j \in 1 .. n - 1, s[i] = x, s[j] = y
        PROVE  i < j
    <2>1. from(i) < from(j)
      BY <1>1, <1>4, <1>6 DEF Before
    <2> QED  BY <1>5, <2>1
  <1> QED  BY <1>3, <1>6 DEF Before, s

\* Timers that are due together are on the list in the order of the queue.
InOrder(S, list, queue) ==
    /\ IsSum(S, list)
    /\ \A a, b \in 1 .. Len(list) :
          a < b /\ S[a] = S[b] => Before(queue, list[a].proc, list[b].proc)

\* add_timer puts a timer behind the ones that are due with it.
LEMMA AddOrder ==
    ASSUME NEW list \in Seq(Entry), NEW p \in Proc, NEW t \in Nat,
           p \notin TimerProcs(list),
           NEW queue \in Seq(Proc), ~On(queue, p), NEW S, InOrder(S, list, queue)
    PROVE  \E Z : InOrder(Z, add_timer(list, p, t), Append(queue, p))
  <1> DEFINE n   == Len(list)
             new == add_timer(list, p, t)
             far == Append(queue, p)
  <1>1. IsSum(S, list)
    BY DEF InOrder
  <1>2a. PICK pos \in 1 .. n + 1 : \E Z : Arms(list, S, new, Z, pos, p, t)
    BY <1>1, AddSum
  <1>2b. PICK Z : Arms(list, S, new, Z, pos, p, t)
    BY <1>2a
  <1>2. /\ IsSum(Z, new)
        /\ Len(new) = n + 1
        /\ new[pos].proc = p /\ Z[pos] = t
        /\ \A j \in 1 .. pos - 1 : new[j].proc = list[j].proc /\ Z[j] = S[j]
        /\ \A j \in pos .. n : /\ new[j + 1].proc = list[j].proc
                               /\ Z[j + 1] = S[j] /\ S[j] > t
    BY <1>2b DEF Arms
  <1>3. n \in Nat /\ DOMAIN list = 1 .. n
    BY EntryTypes
  <1>4. \A a, b \in 1 .. n :
           a < b /\ S[a] = S[b] => Before(queue, list[a].proc, list[b].proc)
    BY DEF InOrder
  <1>5. \A j \in 1 .. n : list[j].proc # p
    BY <1>3 DEF TimerProcs
  <1>6. \A x : x # p => /\ Before(far, x, p)
                        /\ \A y : y # p /\ Before(queue, x, y) => Before(far, x, y)
    BY AppendBefore
  <1> HIDE DEF n, new, far
  <1> DEFINE from(j) == IF j < pos THEN j ELSE j - 1
  <1>7. \A j \in 1 .. n + 1 : j # pos =>
           from(j) \in 1 .. n /\ new[j].proc = list[from(j)].proc /\ Z[j] = S[from(j)]
    <2> SUFFICES ASSUME NEW j \in 1 .. n + 1, j # pos
                 PROVE  from(j) \in 1 .. n /\ new[j].proc = list[from(j)].proc /\ Z[j] = S[from(j)]
      OBVIOUS
    <2>1. CASE j < pos
      <3>1. from(j) = j /\ j \in 1 .. pos - 1 /\ j \in 1 .. n
        BY <1>3, <2>1
      <3> QED  BY <1>2, <3>1
    <2>2. CASE j > pos
      <3>1. from(j) = j - 1 /\ j - 1 \in pos .. n /\ j - 1 \in 1 .. n /\ (j - 1) + 1 = j
        BY <1>3, <2>2
      <3> QED  BY <1>2, <3>1
    <2> QED  BY <2>1, <2>2
  <1>8. \A a, b \in 1 .. n + 1 : a # pos /\ b # pos /\ a < b => from(a) < from(b)
    BY <1>3
  <1>9. \A b \in 1 .. n + 1 : b > pos => Z[b] > t
    <2> SUFFICES ASSUME NEW b \in 1 .. n + 1, b > pos  PROVE Z[b] > t
      OBVIOUS
    <2>1. b - 1 \in pos .. n /\ (b - 1) + 1 = b
      BY <1>3
    <2> QED  BY <1>2, <2>1
  <1> HIDE DEF from
  <1>10. ASSUME NEW a \in 1 .. n + 1, NEW b \in 1 .. n + 1, a < b, Z[a] = Z[b]
         PROVE  Before(far, new[a].proc, new[b].proc)
    <2>1. a # pos
      <3>1. ~(t > t)
        OBVIOUS
      <3> QED  BY <1>2, <1>9, <1>10, <3>1
    <2>2. new[a].proc # p /\ from(a) \in 1 .. n
      BY <1>5, <1>7, <2>1
    <2>3. CASE b = pos
      BY <1>2, <1>6, <2>2, <2>3
    <2>4. CASE b # pos
      <3>1. /\ from(a) \in 1 .. n /\ from(b) \in 1 .. n /\ from(a) < from(b)
            /\ S[from(a)] = S[from(b)]
            /\ new[a].proc = list[from(a)].proc /\ new[b].proc = list[from(b)].proc
        BY <1>7, <1>8, <1>10, <2>1, <2>4
      <3>2. Before(queue, new[a].proc, new[b].proc)
        BY <1>4, <3>1
      <3>3. new[b].proc # p
        BY <1>5, <3>1
      <3> QED  BY <1>6, <2>2, <3>2, <3>3
    <2> QED  BY <2>3, <2>4
  <1>11. InOrder(Z, new, far)
    BY <1>2, <1>10 DEF InOrder
  <1> QED  BY <1>11 DEF new, far

\* del_timer leaves the others in their order.
LEMMA DelOrder ==
    ASSUME NEW list \in Seq(Entry), NEW p, p \in TimerProcs(list),
           NEW queue \in Seq(Proc), NEW k \in DOMAIN queue,
           NEW S, InOrder(S, list, queue)
    PROVE  \E Z : InOrder(Z, del_timer(list, p), RemoveAt(queue, k))
  <1> DEFINE n   == Len(list)
             new == del_timer(list, p)
             far == RemoveAt(queue, k)
  <1>1. IsSum(S, list)
    BY DEF InOrder
  <1>2a. PICK pos \in 1 .. n : \E Z : Disarms(list, S, new, Z, pos, p)
    BY <1>1, DelSum
  <1>2b. PICK Z : Disarms(list, S, new, Z, pos, p)
    BY <1>2a
  <1>2. /\ IsSum(Z, new)
        /\ Len(new) = n - 1
        /\ list[pos].proc = p
        /\ \A j \in 1 .. pos - 1 : new[j].proc = list[j].proc /\ Z[j] = S[j]
        /\ \A j \in pos .. n - 1 : new[j].proc = list[j + 1].proc /\ Z[j] = S[j + 1]
    BY <1>2b DEF Disarms
  <1>3. n \in Nat
    BY EntryTypes
  <1>4. \A a, b \in 1 .. n :
           a < b /\ S[a] = S[b] => Before(queue, list[a].proc, list[b].proc)
    BY DEF InOrder
  <1>5. \A x, y : Before(queue, x, y) => Before(far, x, y)
    BY RemoveBefore
  <1> HIDE DEF n, new, far
  <1> DEFINE from(j) == IF j < pos THEN j ELSE j + 1
  <1>6. \A j \in 1 .. n - 1 :
           from(j) \in 1 .. n /\ new[j].proc = list[from(j)].proc /\ Z[j] = S[from(j)]
    <2> SUFFICES ASSUME NEW j \in 1 .. n - 1
                 PROVE  from(j) \in 1 .. n /\ new[j].proc = list[from(j)].proc /\ Z[j] = S[from(j)]
      OBVIOUS
    <2>1. CASE j < pos
      <3>1. from(j) = j /\ j \in 1 .. pos - 1 /\ j \in 1 .. n
        BY <1>3, <2>1
      <3> QED  BY <1>2, <3>1
    <2>2. CASE ~(j < pos)
      <3>1. from(j) = j + 1 /\ j \in pos .. n - 1 /\ j + 1 \in 1 .. n
        BY <1>3, <2>2
      <3> QED  BY <1>2, <3>1
    <2> QED  BY <2>1, <2>2
  <1>7. \A a, b \in 1 .. n - 1 : a < b => from(a) < from(b)
    BY <1>3
  <1> HIDE DEF from
  <1>8. ASSUME NEW a \in 1 .. n - 1, NEW b \in 1 .. n - 1, a < b, Z[a] = Z[b]
        PROVE  Before(far, new[a].proc, new[b].proc)
    <2>1. /\ from(a) \in 1 .. n /\ from(b) \in 1 .. n /\ from(a) < from(b)
          /\ S[from(a)] = S[from(b)]
          /\ new[a].proc = list[from(a)].proc /\ new[b].proc = list[from(b)].proc
      BY <1>6, <1>7, <1>8
    <2> QED  BY <1>4, <1>5, <2>1
  <1>9. InOrder(Z, new, far)
    BY <1>2, <1>8 DEF InOrder
  <1> QED  BY <1>9 DEF new, far

\* After a tick the same timers are due together.
LEMMA TickOrder ==
    ASSUME NEW list \in Seq(Entry), NotDue(list), NEW queue,
           NEW S, InOrder(S, list, queue)
    PROVE  \E Z : InOrder(Z, Shift(list, 1, 0 - 1), queue)
  <1> DEFINE n   == Len(list)
             new == Shift(list, 1, 0 - 1)
             Z   == [i \in 0 .. n |-> IF i = 0 THEN 0 ELSE S[i] - 1]
  <1>1. IsSum(S, list)
    BY DEF InOrder
  <1>2. IsSum(Z, new)
    BY <1>1, TickSum
  <1>3. n \in Nat /\ \A m \in 1 .. n : S[m] \in Nat
    BY <1>1, EntryTypes DEF IsSum
  <1>4. Len(new) = n /\ \A j \in 1 .. n : new[j].proc = list[j].proc
    BY ShiftHead
  <1>5. \A m \in 1 .. n : Z[m] = S[m] - 1
    BY <1>3
  <1>6. \A a, b \in 1 .. n :
           a < b /\ S[a] = S[b] => Before(queue, list[a].proc, list[b].proc)
    BY DEF InOrder
  <1> HIDE DEF n, new, Z
  <1>7. \A a, b \in 1 .. n : Z[a] = Z[b] => S[a] = S[b]
    BY <1>3, <1>5
  <1>8. InOrder(Z, new, queue)
    BY <1>2, <1>4, <1>6, <1>7 DEF InOrder
  <1> QED  BY <1>8 DEF new

-----------------------------------------------------------------------------
(* The timer list at work.                                                 *)

\* HeadNotDue with what it needs: deltas are not negative, and a process has at most
\* one timer.
TimerInv ==
    /\ timer_list \in Seq(Entry)
    /\ ticking \in BOOLEAN
    /\ OneEach(timer_list)
    /\ ~ticking => NotDue(timer_list)

\* The list starts empty.
LEMMA TimerInit == Init => TimerInv
  <1>1. <<>> \in Seq(Entry)
    OBVIOUS
  <1>2. OneEach(<<>>) /\ NotDue(<<>>)
    BY DEF OneEach, NotDue
  <1> QED  BY <1>1, <1>2 DEF Init, TimerInv

\* Every step keeps the list well formed.
LEMMA TimerStep ==
    ASSUME TimerInv, [Next]_vars  PROVE TimerInv'
  <1> USE DEF TimerInv
  <1>1. ASSUME NEW p \in Proc, NEW t \in Times, Arm(p, t)  PROVE TimerInv'
    <2>1. t \in Nat \ {0}
      BY TimesAssumption
    <2>2. /\ ticking = FALSE /\ ticking' = ticking
          /\ p \notin TimerProcs(timer_list)
          /\ timer_list' = add_timer(timer_list, p, t)
      BY <1>1 DEF Arm
    <2> QED  BY <2>1, <2>2, AddKeeps
  <1>2. ASSUME NEW p \in Proc, Cancel(p)  PROVE TimerInv'
    BY <1>2, DelKeeps DEF Cancel
  <1>3. CASE TickStart
    <2> DEFINE new == Shift(timer_list, 1, 0 - 1)
    <2>1. timer_list' = new /\ ticking' = TRUE /\ NotDue(timer_list)
      BY <1>3 DEF TickStart
    <2>2. /\ new \in Seq(Entry)
          /\ Len(new) = Len(timer_list)
          /\ \A j \in 1 .. Len(timer_list) : new[j].proc = timer_list[j].proc
      BY <2>1, ShiftHead
    <2> HIDE DEF new
    <2>3. OneEach(new)
      BY <2>2, SameOwners
    <2> QED  BY <2>1, <2>2, <2>3
  <1>4. CASE Expire
    BY <1>4, DelKeeps DEF Expire
  <1>5. CASE TickEnd
    BY <1>5 DEF TickEnd, HeadDue, NotDue
  <1>6. CASE UNCHANGED vars
    BY <1>6 DEF vars
  <1> QED  BY <1>1, <1>2, <1>3, <1>4, <1>5, <1>6 DEF Next

\* For any processes and sleep times, and whatever the order in which timers are
\* armed, cancelled and fired: the assert at the top of run_timer_list holds.
THEOREM NoTimerLeftBehind == Spec => []HeadNotDue
  <1>1. TimerInv => HeadNotDue
    BY DEF TimerInv, HeadNotDue, HeadDue, NotDue
  <1> QED  BY <1>1, TimerInit, TimerStep, PTL DEF Spec

-----------------------------------------------------------------------------
(* The delta list implements independent countdowns.                       *)

\* The history is that of the list, and timers that are due together are on the
\* list in the order in which they were armed.
ArmedInv ==
    /\ armed \in Seq(Proc) /\ Once(armed)
    /\ \A x : On(armed, x) <=> x \in TimerProcs(timer_list)
    /\ \E S : InOrder(S, timer_list, armed)

\* Nothing is armed at the start.
LEMMA ArmedInit == Init => ArmedInv
  <1> SUFFICES ASSUME Init  PROVE ArmedInv
    OBVIOUS
  <1>1. timer_list = <<>> /\ armed = <<>> /\ Len(<<>>) = 0
    BY DEF Init
  <1>2. InOrder([i \in 0 .. 0 |-> 0], <<>>, <<>>)
    BY DEF InOrder, IsSum
  <1>3. Once(<<>>) /\ <<>> \in Seq(Proc) /\ \A x : ~On(<<>>, x) /\ x \notin TimerProcs(<<>>)
    BY DEF Once, On, TimerProcs
  <1> QED  BY <1>1, <1>2, <1>3 DEF ArmedInv

\* What Disarm does: one entry goes.
LEMMA DisarmEffect ==
    ASSUME TimerInv, ArmedInv, NEW p \in TimerProcs(timer_list), Disarm(p),
           timer_list' = del_timer(timer_list, p)
    PROVE  ArmedInv'
  <1> DEFINE k == CHOOSE i \in DOMAIN armed : armed[i] = p
  <1>1. k \in DOMAIN armed /\ armed[k] = p
    <2>1. \E i \in DOMAIN armed : armed[i] = p
      BY DEF ArmedInv, On
    <2> QED  BY <2>1
  <1>2. armed' = RemoveAt(armed, k)
    BY DEF Disarm
  <1> HIDE DEF k
  <1>3. /\ armed' \in Seq(Proc) /\ Once(armed')
        /\ \A x : On(armed', x) <=> On(armed, x) /\ x # p
    BY <1>1, <1>2, RemoveOnce DEF ArmedInv
  <1>4. TimerProcs(timer_list') = TimerProcs(timer_list) \ {p}
    BY DelKeeps DEF TimerInv
  <1>5. \E Z : InOrder(Z, timer_list', armed')
    <2>1. PICK S : InOrder(S, timer_list, armed)
      BY DEF ArmedInv
    <2>2. timer_list \in Seq(Entry) /\ armed \in Seq(Proc)
      BY DEF TimerInv, ArmedInv
    <2> QED  BY <1>1, <1>2, <2>1, <2>2, DelOrder
  <1> QED  BY <1>3, <1>4, <1>5 DEF ArmedInv

\* Every step keeps the order among timers that are due together.
LEMMA ArmedStep ==
    ASSUME TimerInv, ArmedInv, [Next]_vars  PROVE ArmedInv'
  <1>0. timer_list \in Seq(Entry) /\ OneEach(timer_list)
    BY DEF TimerInv
  <1>1. ASSUME NEW p \in Proc, NEW t \in Times, Arm(p, t)  PROVE ArmedInv'
    <2>1. t \in Nat \ {0} /\ t \in Nat
      BY TimesAssumption
    <2>2. /\ NotDue(timer_list)
          /\ p \notin TimerProcs(timer_list)
          /\ timer_list' = add_timer(timer_list, p, t)
          /\ armed' = Append(armed, p)
      BY <1>1 DEF Arm, TimerInv
    <2>3. armed \in Seq(Proc) /\ Once(armed) /\ ~On(armed, p)
      BY <2>2 DEF ArmedInv
    <2>4. /\ armed' \in Seq(Proc) /\ Once(armed')
          /\ \A x : On(armed', x) <=> On(armed, x) \/ x = p
      BY <2>2, <2>3, AppendOnce
    <2>5. TimerProcs(timer_list') = TimerProcs(timer_list) \cup {p}
      BY <1>0, <2>1, <2>2, AddKeeps
    <2>6. \E Z : InOrder(Z, timer_list', armed')
      <3>1. PICK S : InOrder(S, timer_list, armed)
        BY DEF ArmedInv
      <3> QED  BY <1>0, <2>1, <2>2, <2>3, <3>1, AddOrder
    <2> QED  BY <2>4, <2>5, <2>6 DEF ArmedInv
  <1>2. ASSUME NEW p \in Proc, Cancel(p)  PROVE ArmedInv'
    BY <1>2, DisarmEffect DEF Cancel
  <1>3. CASE TickStart
    <2> DEFINE new == Shift(timer_list, 1, 0 - 1)
    <2>1. timer_list' = new /\ armed' = armed /\ NotDue(timer_list)
      BY <1>3 DEF TickStart, TimerInv
    <2>2. TimerProcs(new) = TimerProcs(timer_list)
      BY <1>0, <2>1, ShiftHead, SameOwners
    <2>3. \E Z : InOrder(Z, new, armed)
      <3>1. PICK S : InOrder(S, timer_list, armed)
        BY DEF ArmedInv
      <3> QED  BY <1>0, <2>1, <3>1, TickOrder
    <2> HIDE DEF new
    <2> QED  BY <2>1, <2>2, <2>3 DEF ArmedInv
  <1>4. CASE Expire
    <2>1. Head(timer_list).proc \in TimerProcs(timer_list)
      <3>1. timer_list # <<>>
        BY <1>4 DEF Expire, HeadDue
      <3>2. Head(timer_list) = timer_list[1] /\ 1 \in DOMAIN timer_list
        BY <1>0, <3>1, EmptySeq, LenProperties
      <3> QED  BY <3>2 DEF TimerProcs
    <2> QED  BY <1>4, <2>1, DisarmEffect DEF Expire
  <1>5. CASE TickEnd \/ UNCHANGED vars
    BY <1>5 DEF TickEnd, vars, ArmedInv
  <1> QED  BY <1>1, <1>2, <1>3, <1>4, <1>5 DEF Next

\* The countdowns that a list stands for.
Countdowns(list) == [p \in TimerProcs(list) |-> Ticks(list, p)]

remaining == [p \in TimerProcs(timer_list) |-> TicksLeft(p)]

\* The countdowns of the refinement mapping are those of the list, before and after a
\* step.
LEMMA RemainingIs ==
    /\ remaining = Countdowns(timer_list)
    /\ remaining' = Countdowns(timer_list')
  <1>1. \A p : TicksLeft(p) = Ticks(timer_list, p)
    BY Zenon DEF TicksLeft, Ticks
  <1>2. \A p : TicksLeft(p)' = Ticks(timer_list', p)
    BY Zenon DEF TicksLeft, Ticks
  <1> QED  BY <1>1, <1>2 DEF remaining, Countdowns, TimerProcs

\* A timer that leaves the list is forgotten by Deadlines.
LEMMA DisarmRefines ==
    ASSUME TimerInv, TimerInv', NEW p \in TimerProcs(timer_list), Disarm(p),
           timer_list' = del_timer(timer_list, p)
    PROVE  Promise!Forget(p)
  <1>1. \A s, i : Promise!RemoveAt(s, i) = RemoveAt(s, i)
    BY Zenon DEF Promise!RemoveAt, RemoveAt
  <1>2. armed' = Promise!RemoveAt(armed, CHOOSE i \in DOMAIN armed : armed[i] = p)
    BY <1>1 DEF Disarm
  <1>3. TimerProcs(timer_list') = TimerProcs(timer_list) \ {p}
    BY DelKeeps DEF TimerInv
  <1>4. \A q \in TimerProcs(timer_list) \ {p} : Ticks(timer_list', q) = Ticks(timer_list, q)
    BY DelTicks DEF TimerInv
  <1>5. remaining' = [q \in DOMAIN remaining \ {p} |-> remaining[q]]
    BY <1>3, <1>4, RemainingIs DEF Countdowns
  <1> QED  BY <1>2, <1>5 DEF Promise!Forget, remaining

\* Every step is a step of Deadlines or leaves it alone: the decrement of the head is
\* the tick, a turn of the loop fires the oldest timer that is due.
LEMMA TimerRefines ==
    ASSUME TimerInv, TimerInv', ArmedInv, [Next]_vars
    PROVE  [Promise!Next]_(Promise!vars)
  <1>0. timer_list \in Seq(Entry) /\ OneEach(timer_list)
    BY DEF TimerInv
  <1>1. ASSUME NEW p \in Proc, NEW t \in Times, Arm(p, t)  PROVE Promise!Arm(p, t)
    <2>1. t \in Nat \ {0} /\ t \in Nat
      BY TimesAssumption
    <2>2. /\ NotDue(timer_list)
          /\ p \notin TimerProcs(timer_list)
          /\ timer_list' = add_timer(timer_list, p, t)
          /\ armed' = Append(armed, p)
      BY <1>1 DEF Arm, TimerInv
    <2>3. TimerProcs(timer_list') = TimerProcs(timer_list) \cup {p}
      BY <1>0, <2>1, <2>2, AddKeeps
    <2>4. /\ Ticks(timer_list', p) = t
          /\ \A q \in TimerProcs(timer_list) : Ticks(timer_list', q) = Ticks(timer_list, q)
      BY <1>0, <2>1, <2>2, AddTicks DEF TimerInv
    <2>5. remaining' = [q \in DOMAIN remaining \cup {p} |-> IF q = p THEN t ELSE remaining[q]]
      BY <2>2, <2>3, <2>4, RemainingIs DEF Countdowns
    <2>6. woken' = woken
      BY <1>1 DEF Arm
    <2> QED  BY <2>2, <2>5, <2>6 DEF Promise!Arm, remaining
  <1>2. ASSUME NEW p \in Proc, Cancel(p)  PROVE Promise!Cancel(p)
    <2>1. p \in DOMAIN remaining /\ Promise!Forget(p) /\ woken' = woken
      BY <1>2, DisarmRefines DEF Cancel, remaining
    <2>2. remaining[p] # 0
      <3>1. NotDue(timer_list) /\ p \in TimerProcs(timer_list)
        BY <1>2 DEF Cancel, TimerInv
      <3>2. Ticks(timer_list, p) > 0
        BY <1>0, <3>1, TickTicks
      <3>3. remaining[p] = Ticks(timer_list, p)
        BY <3>1, RemainingIs DEF Countdowns
      <3> QED  BY <3>2, <3>3
    <2> QED  BY <2>1, <2>2 DEF Promise!Cancel, Promise!Due, remaining
  <1>3. CASE TickStart
    <2> DEFINE new == Shift(timer_list, 1, 0 - 1)
    <2>1. timer_list' = new /\ armed' = armed /\ NotDue(timer_list)
      BY <1>3 DEF TickStart, TimerInv
    <2>2. TimerProcs(new) = TimerProcs(timer_list)
      BY <1>0, <2>1, ShiftHead, SameOwners
    <2>3. \A q \in TimerProcs(timer_list) :
             Ticks(timer_list, q) > 0 /\ Ticks(new, q) = Ticks(timer_list, q) - 1
      BY <1>0, <2>1, TickTicks
    <2> HIDE DEF new
    <2>4. /\ \A q \in DOMAIN remaining : remaining[q] > 0
          /\ remaining' = [q \in DOMAIN remaining |-> remaining[q] - 1]
      BY <2>1, <2>2, <2>3, RemainingIs DEF Countdowns
    <2>5. Promise!Tick
      BY <1>3, <2>1, <2>4 DEF TickStart, Promise!Tick, remaining
    <2> QED  BY <2>5 DEF Promise!Next
  <1>4. CASE Expire
    <2> DEFINE p == Head(timer_list).proc
    <2>1. timer_list # <<>> /\ Head(timer_list).expires = 0
      BY <1>4 DEF Expire, HeadDue
    <2>2. Head(timer_list) = timer_list[1] /\ 1 \in 1 .. Len(timer_list)
      BY <1>0, <2>1, EmptySeq, LenProperties
    <2>3. DOMAIN timer_list = 1 .. Len(timer_list) /\ p \in Proc /\ Len(timer_list) \in Nat
      BY <1>0, <2>2, EntryTypes
    <2>4. p \in TimerProcs(timer_list)
      BY <2>2, <2>3 DEF TimerProcs
    <2>5. PICK S : InOrder(S, timer_list, armed)
      BY DEF ArmedInv
    <2>6. S[1] = 0
      <3>1. IsSum(S, timer_list)
        BY <2>5 DEF InOrder
      <3>2. S[1] = S[1 - 1] + timer_list[1].expires /\ S[0] = 0 /\ 1 - 1 = 0
        BY <2>2, <3>1 DEF IsSum
      <3> QED  BY <2>1, <2>2, <3>2
    <2>7. \A m \in 1 .. Len(timer_list) : Ticks(timer_list, timer_list[m].proc) = S[m]
      BY <1>0, <2>5, TicksIs DEF InOrder
    <2>8. Ticks(timer_list, p) = 0
      BY <2>2, <2>6, <2>7
    <2> HIDE DEF p
    <2>9. ASSUME NEW i \in DOMAIN armed, NEW j \in DOMAIN armed,
                 armed[j] = p, armed[i] \in TimerProcs(timer_list),
                 Ticks(timer_list, armed[i]) = 0
          PROVE  j <= i
      <3>1. PICK m \in 1 .. Len(timer_list) : timer_list[m].proc = armed[i]
        BY <2>3, <2>9 DEF TimerProcs
      <3>2. i \in Nat /\ j \in Nat
        <4>1. armed \in Seq(Proc)
          BY DEF ArmedInv
        <4>2. DOMAIN armed = 1 .. Len(armed) /\ Len(armed) \in Nat
          BY <4>1, LenProperties
        <4> QED  BY <4>2
      <3>3. CASE m = 1
        <4>1. armed[i] = armed[j]
          BY <2>2, <2>9, <3>1, <3>3 DEF p
        <4>2. i = j
          BY <4>1 DEF ArmedInv, Once
        <4> QED  BY <3>2, <4>2
      <3>4. CASE m # 1
        <4>1. 1 < m /\ S[1] = S[m]
          BY <2>3, <2>6, <2>7, <2>9, <3>1, <3>4
        <4>2. Before(armed, timer_list[1].proc, timer_list[m].proc)
          BY <2>2, <2>5, <4>1 DEF InOrder
        <4>3. j < i
          BY <2>2, <2>9, <3>1, <4>2 DEF Before, p
        <4> QED  BY <3>2, <4>3
      <3> QED  BY <3>3, <3>4
    <2>10. DOMAIN remaining = TimerProcs(timer_list)
           /\ \A q \in TimerProcs(timer_list) : remaining[q] = Ticks(timer_list, q)
      BY RemainingIs DEF Countdowns
    <2>11. Promise!Forget(p)
      BY <1>4, <2>4, DisarmRefines DEF Expire, p
    <2>12. Promise!Fire(p)
      <3> DEFINE due(q) == q \in DOMAIN remaining /\ remaining[q] = 0
      <3>1. \A q : Promise!Due(q) <=> due(q)
        BY DEF Promise!Due, remaining
      <3>2. due(p)
        BY <2>4, <2>8, <2>10
      <3>3. \A i, j \in DOMAIN armed : armed[j] = p /\ due(armed[i]) => j <= i
        BY <2>9, <2>10
      <3>4. woken' = Append(woken, p)
        BY <1>4 DEF Expire, p
      <3> HIDE DEF due
      <3> QED  BY <2>11, <3>1, <3>2, <3>3, <3>4 DEF Promise!Fire
    <2> QED  BY <2>3, <2>12 DEF Promise!Next
  <1>5. CASE TickEnd \/ UNCHANGED vars
    <2>1. timer_list' = timer_list /\ armed' = armed /\ woken' = woken
      BY <1>5 DEF TickEnd, vars
    <2>2. remaining' = remaining
      BY <2>1, RemainingIs
    <2> QED  BY <2>1, <2>2 DEF Promise!vars, remaining
  <1> QED  BY <1>1, <1>2, <1>3, <1>4, <1>5 DEF Next, Promise!Next

\* For any processes and sleep times the delta list implements independent
\* countdowns: arming or cancelling a timer moves no other deadline, a timer that is not
\* cancelled before wakes its process at its own tick, and processes whose timers are due
\* together are woken in the order in which those were armed (add_timer, del_timer,
\* run_timer_list).
THEOREM DeltaListKeepsDeadlines == Spec => ImplementsDeadlines
  <1>1. Init => Promise!Init
    <2> SUFFICES ASSUME Init  PROVE Promise!Init
      OBVIOUS
    <2>1. timer_list = <<>> /\ armed = <<>> /\ woken = <<>>
      BY DEF Init
    <2>2. TimerProcs(<<>>) = {}
      BY DEF TimerProcs
    <2>3. remaining = <<>>
      BY <2>1, <2>2 DEF remaining
    <2> QED  BY <2>1, <2>3 DEF Promise!Init, remaining
  <1>2. TimerInv /\ TimerInv' /\ ArmedInv /\ [Next]_vars => [Promise!Next]_(Promise!vars)
    BY TimerRefines
  <1> QED
    BY <1>1, <1>2, TimerInit, ArmedInit, TimerStep, ArmedStep, PTL
    DEF Spec, ImplementsDeadlines, Promise!Spec

=============================================================================
