----------------------------- MODULE SeqLemmas ------------------------------
(***************************************************************************)
(* Facts about the sequences that stand for the kernel's linked lists:     *)
(* what inserting and removing an entry does to the entries of a list, and *)
(* that a list without repetitions stays one; positions in a ring;         *)
(* induction over the natural numbers with sets in the place of formulas;  *)
(* sums over finite sets; and a rule for loops.                            *)
(***************************************************************************)
EXTENDS Integers, Sequences, SequencesExt, SequenceTheorems, FiniteSetTheorems,
        WellFoundedInduction, TLAPS

\* What RemoveAt does to a sequence: the entries behind position i move up.
LEMMA RemoveAtProperties ==
    ASSUME NEW S, NEW s \in Seq(S), NEW i \in 1 .. Len(s)
    PROVE  /\ RemoveAt(s, i) \in Seq(S)
           /\ Len(RemoveAt(s, i)) = Len(s) - 1
           /\ \A j \in 1 .. Len(s) - 1 :
                 RemoveAt(s, i)[j] = IF j < i THEN s[j] ELSE s[j + 1]
  <1> DEFINE front == SubSeq(s, 1, i - 1)
             back  == SubSeq(s, i + 1, Len(s))
  <1>1. Len(s) \in Nat /\ \A j \in 1 .. Len(s) : s[j] \in S
    BY LenProperties, ElementOfSeq
  <1>2. /\ front \in Seq(S)
        /\ Len(front) = i - 1
        /\ \A j \in 1 .. i - 1 : front[j] = s[j]
    BY <1>1, SubSeqProperties
  <1>3. /\ back \in Seq(S)
        /\ Len(back) = Len(s) - i
        /\ \A j \in 1 .. Len(s) - i : back[j] = s[i + j]
    BY <1>1, SubSeqProperties
  <1> HIDE DEF front, back
  <1>4. /\ front \o back \in Seq(S)
        /\ Len(front \o back) = Len(front) + Len(back)
        /\ \A j \in 1 .. Len(front) + Len(back) :
              (front \o back)[j] =
                  IF j <= Len(front) THEN front[j] ELSE back[j - Len(front)]
    BY <1>2, <1>3, ConcatProperties
  <1>5. Len(front) + Len(back) = Len(s) - 1
    BY <1>1, <1>2, <1>3
  <1>6. ASSUME NEW j \in 1 .. Len(s) - 1
        PROVE  (front \o back)[j] = IF j < i THEN s[j] ELSE s[j + 1]
    <2>1. CASE j < i
      BY <1>1, <1>2, <1>4, <1>5, <2>1
    <2>2. CASE ~(j < i)
      <3>1. j - (i - 1) \in 1 .. Len(s) - i
        BY <1>1, <2>2
      <3>2. back[j - (i - 1)] = s[i + (j - (i - 1))]
        BY <1>3, <3>1
      <3>3. (front \o back)[j] = back[j - (i - 1)]
        BY <1>1, <1>2, <1>4, <1>5, <2>2
      <3>4. i + (j - (i - 1)) = j + 1
        BY <1>1
      <3> QED  BY <2>2, <3>2, <3>3, <3>4
    <2> QED  BY <2>1, <2>2
  <1> QED  BY <1>4, <1>5, <1>6 DEF RemoveAt, front, back

\* What InsertAt does to the type of a sequence.
LEMMA InsertAtType ==
    ASSUME NEW S, NEW s \in Seq(S), NEW i \in 1 .. Len(s) + 1, NEW e \in S
    PROVE  InsertAt(s, i, e) \in Seq(S)
  <1>1. Len(s) \in Nat /\ \A j \in 1 .. Len(s) : s[j] \in S
    BY LenProperties, ElementOfSeq
  <1>2. /\ SubSeq(s, 1, i - 1) \in Seq(S)
        /\ SubSeq(s, i, Len(s)) \in Seq(S)
    BY <1>1, SubSeqProperties
  <1>3. <<e>> \in Seq(S)
    OBVIOUS
  <1>4. SubSeq(s, 1, i - 1) \o <<e>> \in Seq(S)
    BY <1>2, <1>3, ConcatProperties
  <1> QED  BY <1>2, <1>4, ConcatProperties DEF InsertAt

\* What InsertAt does to a sequence: the entries from position i on move back.
LEMMA InsertAtProperties ==
    ASSUME NEW S, NEW s \in Seq(S), NEW i \in 1 .. Len(s) + 1, NEW e \in S
    PROVE  /\ InsertAt(s, i, e) \in Seq(S)
           /\ Len(InsertAt(s, i, e)) = Len(s) + 1
           /\ InsertAt(s, i, e)[i] = e
           /\ \A j \in 1 .. i - 1 : InsertAt(s, i, e)[j] = s[j]
           /\ \A j \in i .. Len(s) : InsertAt(s, i, e)[j + 1] = s[j]
  <1> DEFINE front == SubSeq(s, 1, i - 1)
             back  == SubSeq(s, i, Len(s))
             upto  == front \o <<e>>
  <1>1. Len(s) \in Nat /\ \A j \in 1 .. Len(s) : s[j] \in S
    BY LenProperties, ElementOfSeq
  <1>2. /\ front \in Seq(S)
        /\ Len(front) = i - 1
        /\ \A j \in 1 .. i - 1 : front[j] = s[j]
    BY <1>1, SubSeqProperties
  <1>3. /\ back \in Seq(S)
        /\ Len(back) = Len(s) - i + 1
        /\ \A j \in 1 .. Len(s) - i + 1 : back[j] = s[i + j - 1]
    BY <1>1, SubSeqProperties
  <1>4. <<e>> \in Seq(S) /\ Len(<<e>>) = 1 /\ <<e>>[1] = e
    OBVIOUS
  <1> HIDE DEF front, back
  <1>5. /\ upto \in Seq(S)
        /\ Len(upto) = i
        /\ \A j \in 1 .. i : upto[j] = IF j < i THEN s[j] ELSE e
    <2>1. /\ upto \in Seq(S)
          /\ Len(upto) = Len(front) + Len(<<e>>)
          /\ \A j \in 1 .. Len(front) + Len(<<e>>) :
                upto[j] = IF j <= Len(front) THEN front[j] ELSE <<e>>[j - Len(front)]
      BY <1>2, <1>4, ConcatProperties
    <2> HIDE DEF upto
    <2>2. ASSUME NEW j \in 1 .. i  PROVE upto[j] = IF j < i THEN s[j] ELSE e
      <3>1. CASE j < i
        BY <1>2, <1>4, <2>1, <3>1
      <3>2. CASE j = i
        <4>1. upto[j] = <<e>>[1]
          BY <1>2, <1>4, <2>1, <3>2
        <4> QED  BY <1>4, <3>2, <4>1
      <3> QED  BY <3>1, <3>2
    <2> QED  BY <1>2, <1>4, <2>1, <2>2
  <1> HIDE DEF upto
  <1>6. /\ upto \o back \in Seq(S)
        /\ Len(upto \o back) = Len(upto) + Len(back)
        /\ \A j \in 1 .. Len(upto) + Len(back) :
              (upto \o back)[j] =
                  IF j <= Len(upto) THEN upto[j] ELSE back[j - Len(upto)]
    BY <1>3, <1>5, ConcatProperties
  <1>7. Len(upto) + Len(back) = Len(s) + 1
    BY <1>1, <1>3, <1>5
  <1>8. (upto \o back)[i] = e
    BY <1>1, <1>5, <1>6, <1>7
  <1>9. ASSUME NEW j \in 1 .. i - 1  PROVE (upto \o back)[j] = s[j]
    BY <1>1, <1>5, <1>6, <1>7
  <1>10. ASSUME NEW j \in i .. Len(s)  PROVE (upto \o back)[j + 1] = s[j]
    <2>1. (j + 1) - i \in 1 .. Len(s) - i + 1 /\ i + ((j + 1) - i) - 1 = j
      BY <1>1
    <2>2. (upto \o back)[j + 1] = back[(j + 1) - i]
      BY <1>1, <1>5, <1>6, <1>7
    <2> QED  BY <1>3, <2>1, <2>2
  <1>11. InsertAt(s, i, e) = upto \o back
    BY DEF InsertAt, upto, front, back
  <1> QED  BY <1>6, <1>7, <1>8, <1>9, <1>10, <1>11

\* InsertAt keeps every entry and adds one.
LEMMA InsertAtHolds ==
    ASSUME NEW S, NEW s \in Seq(S), NEW i \in 1 .. Len(s) + 1, NEW e \in S
    PROVE  /\ \A j \in DOMAIN s : \E k \in DOMAIN InsertAt(s, i, e) : InsertAt(s, i, e)[k] = s[j]
           /\ \E k \in DOMAIN InsertAt(s, i, e) : InsertAt(s, i, e)[k] = e
  <1> DEFINE t == InsertAt(s, i, e)
  <1>1. /\ t \in Seq(S) /\ Len(t) = Len(s) + 1 /\ t[i] = e
        /\ \A j \in 1 .. i - 1 : t[j] = s[j]
        /\ \A j \in i .. Len(s) : t[j + 1] = s[j]
    BY InsertAtProperties
  <1> HIDE DEF t
  <1>2. Len(s) \in Nat /\ DOMAIN s = 1 .. Len(s) /\ DOMAIN t = 1 .. Len(s) + 1
    BY <1>1
  <1>3. ASSUME NEW j \in 1 .. Len(s)  PROVE \E k \in DOMAIN t : t[k] = s[j]
    <2>1. CASE j < i
      BY <1>1, <1>2, <2>1
    <2>2. CASE j >= i
      <3>1. j + 1 \in DOMAIN t /\ t[j + 1] = s[j]
        BY <1>1, <1>2, <2>2
      <3> QED  BY <3>1
    <2> QED  BY <1>2, <2>1, <2>2
  <1> QED  BY <1>1, <1>2, <1>3 DEF t

\* The list s has no entry twice, and e is on the list s.
Once(s) == \A i, j \in DOMAIN s : s[i] = s[j] => i = j

On(s, e) == \E i \in DOMAIN s : s[i] = e

\* A list_add at the tail: one entry more, and still no repetition if the entry
\* is new.
LEMMA AppendOnce ==
    ASSUME NEW S, NEW s \in Seq(S), NEW e \in S
    PROVE  /\ Append(s, e) \in Seq(S)
           /\ \A x : On(Append(s, e), x) <=> On(s, x) \/ x = e
           /\ Once(s) /\ ~On(s, e) => Once(Append(s, e))
  <1>1. /\ Append(s, e) \in Seq(S)
        /\ Len(Append(s, e)) = Len(s) + 1
        /\ \A i \in 1 .. Len(s) : Append(s, e)[i] = s[i]
        /\ Append(s, e)[Len(s) + 1] = e
    BY AppendProperties
  <1>2. /\ Len(s) \in Nat
        /\ DOMAIN s = 1 .. Len(s)
        /\ DOMAIN Append(s, e) = 1 .. Len(s) + 1
    BY <1>1, LenProperties
  <1>3. \A i \in 1 .. Len(s) + 1 : i \in 1 .. Len(s) \/ i = Len(s) + 1
    BY <1>2
  <1>4. /\ \A i \in 1 .. Len(s) : i \in 1 .. Len(s) + 1
        /\ Len(s) + 1 \in 1 .. Len(s) + 1
    BY <1>2
  <1>5. ASSUME NEW x  PROVE On(Append(s, e), x) <=> On(s, x) \/ x = e
    <2>1. ASSUME On(Append(s, e), x)  PROVE On(s, x) \/ x = e
      BY <1>1, <1>2, <1>3, <2>1 DEF On
    <2>2. ASSUME On(s, x) \/ x = e  PROVE On(Append(s, e), x)
      BY <1>1, <1>2, <1>4, <2>2 DEF On
    <2> QED  BY <2>1, <2>2
  <1>6. ASSUME Once(s), ~On(s, e)  PROVE Once(Append(s, e))
    <2> SUFFICES ASSUME NEW i \in 1 .. Len(s) + 1, NEW j \in 1 .. Len(s) + 1,
                        Append(s, e)[i] = Append(s, e)[j]
                 PROVE  i = j
      BY <1>2 DEF Once
    <2>1. CASE i \in 1 .. Len(s) /\ j \in 1 .. Len(s)
      BY <1>1, <1>2, <1>6, <2>1 DEF Once
    <2>2. CASE i \in 1 .. Len(s) /\ j = Len(s) + 1
      BY <1>1, <1>2, <1>6, <2>2 DEF On
    <2>3. CASE i = Len(s) + 1 /\ j \in 1 .. Len(s)
      BY <1>1, <1>2, <1>6, <2>3 DEF On
    <2>4. CASE i = Len(s) + 1 /\ j = Len(s) + 1
      BY <2>4
    <2> QED  BY <1>3, <2>1, <2>2, <2>3, <2>4
  <1> QED  BY <1>1, <1>5, <1>6

\* A list_del of the first entry: that entry, and only that one, is gone.
LEMMA TailOnce ==
    ASSUME NEW S, NEW s \in Seq(S), s # <<>>, Once(s)
    PROVE  /\ Head(s) \in S /\ On(s, Head(s))
           /\ Tail(s) \in Seq(S)
           /\ Once(Tail(s))
           /\ \A x : On(Tail(s), x) <=> On(s, x) /\ x # Head(s)
  <1>1. /\ Head(s) \in S
        /\ Tail(s) \in Seq(S)
        /\ Len(Tail(s)) = Len(s) - 1
        /\ \A i \in 1 .. Len(Tail(s)) : Tail(s)[i] = s[i + 1]
    BY HeadTailProperties
  <1>2. Len(s) \in Nat \ {0} /\ Head(s) = s[1]
    BY EmptySeq
  <1>3. /\ DOMAIN s = 1 .. Len(s)
        /\ DOMAIN Tail(s) = 1 .. Len(s) - 1
    BY <1>1, LenProperties
  <1>4. /\ \A i \in 1 .. Len(s) - 1 : i + 1 \in 1 .. Len(s) /\ i + 1 # 1
        /\ \A i \in 1 .. Len(s) : i = 1 \/ (i - 1 \in 1 .. Len(s) - 1 /\ (i - 1) + 1 = i)
        /\ 1 \in 1 .. Len(s)
    BY <1>2
  <1>5. On(s, Head(s))
    BY <1>2, <1>3, <1>4 DEF On
  <1>6. Once(Tail(s))
    <2> SUFFICES ASSUME NEW i \in 1 .. Len(s) - 1, NEW j \in 1 .. Len(s) - 1,
                        Tail(s)[i] = Tail(s)[j]
                 PROVE  i = j
      BY <1>3 DEF Once
    <2>1. s[i + 1] = s[j + 1]
      BY <1>1
    <2>2. i + 1 = j + 1
      BY <1>3, <1>4, <2>1 DEF Once
    <2> QED  BY <1>2, <2>2
  <1>7. ASSUME NEW x  PROVE On(Tail(s), x) <=> On(s, x) /\ x # Head(s)
    <2>1. ASSUME On(Tail(s), x)  PROVE On(s, x) /\ x # Head(s)
      <3>1. PICK i \in 1 .. Len(s) - 1 : Tail(s)[i] = x
        BY <1>3, <2>1 DEF On
      <3>2. s[i + 1] = x /\ i + 1 \in DOMAIN s /\ i + 1 # 1
        BY <1>1, <1>3, <1>4, <3>1
      <3> QED  BY <1>2, <1>3, <1>4, <3>2 DEF On, Once
    <2>2. ASSUME On(s, x), x # Head(s)  PROVE On(Tail(s), x)
      <3>1. PICK i \in 1 .. Len(s) : s[i] = x
        BY <1>3, <2>2 DEF On
      <3>2. i - 1 \in 1 .. Len(s) - 1 /\ (i - 1) + 1 = i
        BY <1>2, <1>4, <2>2, <3>1
      <3>3. Tail(s)[i - 1] = x
        BY <1>1, <3>1, <3>2
      <3> QED  BY <1>3, <3>2, <3>3 DEF On
    <2> QED  BY <2>1, <2>2
  <1> QED  BY <1>1, <1>5, <1>6, <1>7

\* Removing the only entry for an element removes the element.
LEMMA RemoveOnce ==
    ASSUME NEW S, NEW s \in Seq(S), Once(s), NEW i \in DOMAIN s
    PROVE  /\ RemoveAt(s, i) \in Seq(S)
           /\ Once(RemoveAt(s, i))
           /\ \A x : On(RemoveAt(s, i), x) <=> On(s, x) /\ x # s[i]
  <1> DEFINE t == RemoveAt(s, i)
  <1>1. Len(s) \in Nat /\ DOMAIN s = 1 .. Len(s)
    BY LenProperties
  <1>2. /\ t \in Seq(S)
        /\ Len(t) = Len(s) - 1
        /\ \A j \in 1 .. Len(s) - 1 : t[j] = IF j < i THEN s[j] ELSE s[j + 1]
    BY <1>1, RemoveAtProperties
  <1>3. DOMAIN t = 1 .. Len(s) - 1
    BY <1>2, LenProperties
  <1> HIDE DEF t
  <1> DEFINE k(j) == IF j < i THEN j ELSE j + 1
  <1>3a. \A j \in 1 .. Len(s) - 1 :
           k(j) \in DOMAIN s /\ k(j) # i /\ t[j] = s[k(j)]
    BY <1>1, <1>2
  <1>4. Once(t)
    <2> SUFFICES ASSUME NEW a \in 1 .. Len(s) - 1, NEW b \in 1 .. Len(s) - 1, t[a] = t[b]
                 PROVE  a = b
      BY <1>3 DEF Once
    <2>1. k(a) = k(b)
      <3>1. /\ k(a) \in DOMAIN s /\ k(b) \in DOMAIN s
            /\ s[k(a)] = s[k(b)]
        BY <1>3a
      <3> HIDE DEF k
      <3> QED  BY <3>1 DEF Once
    <2> QED  BY <1>1, <2>1
  <1>5. ASSUME NEW x  PROVE On(t, x) <=> On(s, x) /\ x # s[i]
    <2>1. ASSUME On(t, x)  PROVE On(s, x) /\ x # s[i]
      <3>1. PICK j \in 1 .. Len(s) - 1 : t[j] = x
        BY <1>3, <2>1 DEF On
      <3>2. k(j) \in DOMAIN s /\ s[k(j)] = x /\ k(j) # i
        BY <1>3a, <3>1
      <3> HIDE DEF k
      <3> QED  BY <3>2 DEF On, Once
    <2>2. ASSUME On(s, x), x # s[i]  PROVE On(t, x)
      <3>1. PICK m \in 1 .. Len(s) : s[m] = x /\ m # i
        BY <1>1, <2>2 DEF On
      <3>2. CASE m < i
        <4>1. m \in 1 .. Len(s) - 1 /\ t[m] = x
          BY <1>1, <1>2, <3>1, <3>2
        <4> QED  BY <1>3, <4>1 DEF On
      <3>3. CASE m > i
        <4>1. m - 1 \in 1 .. Len(s) - 1 /\ t[m - 1] = x
          BY <1>1, <1>2, <3>1, <3>3
        <4> QED  BY <1>3, <4>1 DEF On
      <3> QED  BY <1>1, <3>1, <3>2, <3>3
    <2> QED  BY <2>1, <2>2
  <1> QED  BY <1>2, <1>4, <1>5 DEF t

-----------------------------------------------------------------------------
(* Positions in a ring.                                                    *)

\* Two positions of a ring buffer of size B less than B apart are different cells.
LEMMA ModDistinct ==
    ASSUME NEW B \in Nat \ {0}, NEW a \in Nat, NEW b \in Nat, a < b, b - a < B
    PROVE  a % B # b % B
  <1> SUFFICES ASSUME a % B = b % B  PROVE FALSE
    OBVIOUS
  <1> DEFINE qa == a \div B
             qb == b \div B
  <1>1. /\ qa \in Int /\ qb \in Int
        /\ a = B * qa + (a % B) /\ b = B * qb + (b % B)
    OBVIOUS
  <1> HIDE DEF qa, qb
  <1>2. a % B \in Int /\ b % B \in Int
    OBVIOUS
  <1>3. b - a = B * qb - B * qa
    BY <1>1, <1>2
  <1>4. B * qb - B * qa = B * (qb - qa)
    BY <1>1
  <1>5. B * (qb - qa) > 0 /\ B * (qb - qa) < B
    BY <1>3, <1>4
  <1>6. qb - qa \in Int
    BY <1>1
  <1> QED  BY <1>5, <1>6

\* One turn around the buffer comes back to the same cell.
LEMMA ModAround ==
    ASSUME NEW B \in Nat \ {0}, NEW a \in Nat
    PROVE  (a + B) % B = a % B
  <1> DEFINE q == a \div B
             r == a % B
  <1>1. /\ q \in Int /\ r \in 0 .. B - 1
        /\ a = B * q + r
    OBVIOUS
  <1> HIDE DEF q, r
  <1>2. a + B = B * (q + 1) + r
    BY <1>1
  <1>3. (B * (q + 1) + r) % B = r
    BY <1>1
  <1> QED  BY <1>2, <1>3 DEF r

\* Every position has a cell.
LEMMA ModCell ==
    ASSUME NEW B \in Nat \ {0}, NEW a \in Nat
    PROVE  a % B \in 0 .. B - 1
  OBVIOUS

\* The neighbours of a place in a ring of n > 1 places.
LEMMA RingNeighbours ==
    ASSUME NEW n \in Nat, n > 1, NEW i \in 0 .. n - 1
    PROVE  LET left(k) == (k - 1 + n) % n
               right(k) == (k + 1) % n
           IN  /\ left(i) \in 0 .. n - 1 /\ right(i) \in 0 .. n - 1
               /\ left(i) # i /\ right(i) # i
               /\ left(right(i)) = i /\ right(left(i)) = i
  <1> DEFINE left(k) == (k - 1 + n) % n
             right(k) == (k + 1) % n
  <1>1. \A k \in 0 .. n - 1 : left(k) = IF k = 0 THEN n - 1 ELSE k - 1
    OBVIOUS
  <1>2. \A k \in 0 .. n - 1 : right(k) = IF k = n - 1 THEN 0 ELSE k + 1
    OBVIOUS
  <1> HIDE DEF left, right
  <1>3. /\ left(i) \in 0 .. n - 1 /\ right(i) \in 0 .. n - 1
        /\ left(i) # i /\ right(i) # i
    BY <1>1, <1>2
  <1>4. left(right(i)) = i /\ right(left(i)) = i
    BY <1>1, <1>2
  <1> QED  BY <1>3, <1>4 DEF left, right

-----------------------------------------------------------------------------
(* Induction.                                                              *)

\* A set of natural numbers that is not empty has a least element: the initial
\* segments 0 .. n are finite, and strict inclusion of finite sets is well founded.
LEMMA LeastNat ==
    ASSUME NEW T, T \subseteq Nat, T # {}
    PROVE  \E n \in T : \A m \in T : n <= m
  <1> DEFINE F == {0 .. n : n \in T}
             R == StrictSubsetOrdering(Nat)
  <1>1. F \subseteq FiniteSubsetsOf(Nat)
    <2> SUFFICES ASSUME NEW n \in T  PROVE 0 .. n \in FiniteSubsetsOf(Nat)
      OBVIOUS
    <2>1. IsFiniteSet(0 .. n)
      BY FS_Interval
    <2> QED  BY <2>1 DEF FiniteSubsetsOf
  <1>2. F # {}
    OBVIOUS
  <1>3. PICK x \in F : \A y \in F : ~(<<y, x>> \in R)
    <2> HIDE DEF F
    <2> QED  BY <1>1, <1>2, FS_StrictSubsetOrderingWellFounded, WFMin
  <1>4. PICK n \in T : x = 0 .. n
    OBVIOUS
  <1>5. ASSUME NEW m \in T, m < n  PROVE FALSE
    <2>1. 0 .. m \in F
      OBVIOUS
    <2>2. /\ 0 .. m \in SUBSET Nat /\ x \in SUBSET Nat
          /\ 0 .. m \subseteq x /\ 0 .. m # x
      BY <1>4, <1>5
    <2>3. <<0 .. m, x>> \in R
      BY <2>2 DEF StrictSubsetOrdering
    <2> QED  BY <1>3, <2>1, <2>3
  <1> QED  BY <1>5

\* Induction: a set that holds 0 and is closed under successor holds every number.
LEMMA SetInduction ==
    ASSUME NEW S, 0 \in S, \A n \in Nat : n \in S => n + 1 \in S
    PROVE  Nat \subseteq S
  <1> SUFFICES ASSUME Nat \ S # {}  PROVE FALSE
    OBVIOUS
  <1>1. PICK n \in Nat \ S : \A m \in Nat \ S : n <= m
    <2>1. Nat \ S \subseteq Nat
      OBVIOUS
    <2> QED  BY <2>1, LeastNat
  <1>2. n - 1 \in Nat /\ n - 1 \in S
    BY <1>1
  <1> QED  BY <1>1, <1>2

\* f is the function on 1 .. n + 1 with the given first value, in which F leads from
\* one value to the next.
Iterates(f, X, first, F, n) ==
    /\ f \in [1 .. n + 1 -> X]
    /\ f[1] = first
    /\ \A i \in 1 .. n : f[i + 1] = F[i][f[i]]

\* A function may be defined by its first value and by the step from one value to
\* the next.
LEMMA StepByStep ==
    ASSUME NEW X, NEW first \in X, NEW F \in [Nat -> [X -> X]], NEW n \in Nat
    PROVE  \E f : Iterates(f, X, first, F, n)
  <1> DEFINE Good(k, f) == /\ f[1] = first
                           /\ \A i \in 1 .. k : f[i + 1] = F[i][f[i]]
             S == {k \in Nat : \E f \in [1 .. k + 1 -> X] : Good(k, f)}
  <1>1. 0 \in S
    <2>1. [i \in 1 .. 1 |-> first] \in [1 .. 0 + 1 -> X]
      OBVIOUS
    <2>2. Good(0, [i \in 1 .. 1 |-> first])
      OBVIOUS
    <2> QED  BY <2>1, <2>2
  <1>2. ASSUME NEW k \in Nat, k \in S  PROVE k + 1 \in S
    <2>1. PICK f \in [1 .. k + 1 -> X] : Good(k, f)
      BY <1>2
    <2> DEFINE g == [i \in 1 .. k + 2 |-> IF i <= k + 1 THEN f[i] ELSE F[k + 1][f[k + 1]]]
    <2>2. F[k + 1][f[k + 1]] \in X
      OBVIOUS
    <2>3. g \in [1 .. (k + 1) + 1 -> X]
      BY <2>2
    <2>4. Good(k + 1, g)
      <3>1. g[1] = first
        BY <2>1
      <3>2. ASSUME NEW i \in 1 .. k + 1  PROVE g[i + 1] = F[i][g[i]]
        <4>1. CASE i <= k
          BY <2>1, <4>1
        <4>2. CASE i = k + 1
          BY <4>2
        <4> QED  BY <4>1, <4>2
      <3> QED  BY <3>1, <3>2
    <2>5. \E h \in [1 .. (k + 1) + 1 -> X] : Good(k + 1, h)
      BY <2>3, <2>4
    <2> HIDE DEF Good
    <2> QED  BY <2>5
  <1> HIDE DEF S
  <1>3. n \in S
    BY <1>1, <1>2, SetInduction
  <1> QED  BY <1>3 DEF S, Iterates

-----------------------------------------------------------------------------
(* Finite sets: the greatest and the least element, and sums.              *)

\* A finite set of integers has a greatest element.
LEMMA MaxOfSet ==
    ASSUME NEW q, q # {}, IsFiniteSet(q), q \subseteq Int
    PROVE  Max(q) \in q /\ \A i \in q : i <= Max(q)
  <1>1. ASSUME NEW k \in Nat, NEW t \in SUBSET Int, IsFiniteSet(t), Cardinality(t) = k
         PROVE t = {} \/ \E x \in t : \A y \in t : y <= x
    <2> DEFINE S == {n \in Nat : \A r \in SUBSET Int : IsFiniteSet(r) /\ Cardinality(r) = n /\ r # {}
                        => \E x \in r : \A y \in r : y <= x}
    <2>1. 0 \in S
      BY FS_EmptySet
    <2>2. ASSUME NEW n \in Nat, n \in S PROVE n + 1 \in S
      <3> SUFFICES ASSUME NEW r \in SUBSET Int, IsFiniteSet(r), Cardinality(r) = n + 1, r # {}
                   PROVE  \E x \in r : \A y \in r : y <= x
        OBVIOUS
      <3>1. PICK z \in r : TRUE
        OBVIOUS
      <3>2. IsFiniteSet(r \ {z}) /\ Cardinality(r \ {z}) = n
        <4>1. /\ IsFiniteSet(r \ {z})
              /\ Cardinality(r \ {z}) = IF z \in r THEN Cardinality(r) - 1 ELSE Cardinality(r)
          BY FS_RemoveElement
        <4> QED BY <4>1
      <3>3. CASE r \ {z} = {}
        BY <3>3
      <3>4. CASE r \ {z} # {}
        <4>1. PICK x \in r \ {z} : \A y \in r \ {z} : y <= x
          BY <2>2, <3>2, <3>4
        <4>2. CASE z <= x
          BY <4>1, <4>2
        <4>3. CASE x <= z
          BY <4>1, <4>3
        <4> QED BY <4>2, <4>3
      <3> QED BY <3>3, <3>4
    <2> HIDE DEF S
    <2>3. k \in S
      BY <2>1, <2>2, SetInduction
    <2> QED BY <1>1, <2>3 DEF S
  <1>2. Cardinality(q) \in Nat
    BY FS_CardinalityType
  <1>3. \E x \in q : \A y \in q : y <= x
    BY <1>1, <1>2
  <1>4. Max(q) = CHOOSE x \in q : \A y \in q : x >= y
    BY DEF Max
  <1> QED BY <1>3, <1>4

\* The least element of a set of natural numbers.
LEMMA MinOfSet ==
    ASSUME NEW q, q # {}, q \subseteq Nat
    PROVE  Min(q) \in q /\ \A i \in q : Min(q) <= i
  <1>1. \E x \in q : \A y \in q : x <= y
    BY LeastNat
  <1>2. Min(q) = CHOOSE x \in q : \A y \in q : x <= y
    BY DEF Min
  <1> QED  BY <1>1, <1>2

\* Induction over the subsets of a finite set: a collection that holds the empty set
\* and every subset from which one chosen element less is in the collection.
LEMMA SubsetInduction ==
    ASSUME NEW S, IsFiniteSet(S), NEW C, {} \in C,
           \A T \in SUBSET S : T # {} => (CHOOSE x \in T : TRUE) \in T,
           \A T \in SUBSET S : T # {} /\ T \ {CHOOSE x \in T : TRUE} \in C => T \in C
    PROVE  SUBSET S \subseteq C
  <1> DEFINE N == {n \in Nat : \A T \in SUBSET S : Cardinality(T) = n => T \in C}
  <1>1. \A T \in SUBSET S : IsFiniteSet(T) /\ Cardinality(T) \in Nat
    BY FS_Subset, FS_CardinalityType
  <1>2. 0 \in N
    BY <1>1, FS_EmptySet
  <1>3. ASSUME NEW n \in Nat, n \in N  PROVE n + 1 \in N
    <2> SUFFICES ASSUME NEW T \in SUBSET S, Cardinality(T) = n + 1  PROVE T \in C
      OBVIOUS
    <2>1. T # {}
      BY FS_EmptySet
    <2> DEFINE x == CHOOSE x \in T : TRUE
    <2>2. x \in T
      BY <2>1
    <2> HIDE DEF x
    <2>3. Cardinality(T \ {x}) = n
      <3>1. Cardinality(T \ {x}) = IF x \in T THEN Cardinality(T) - 1 ELSE Cardinality(T)
        BY <1>1, FS_RemoveElement
      <3> QED  BY <2>2, <3>1
    <2>4. T \ {x} \in C
      BY <1>3, <2>3
    <2> QED  BY <2>1, <2>4 DEF x
  <1> HIDE DEF N
  <1>4. Nat \subseteq N
    BY <1>2, <1>3, SetInduction
  <1> QED  BY <1>1, <1>4 DEF N

\* The partial sums of f over the subsets of S, in the order SumFunctionOnSet takes.
Sums(it, f, S) ==
    /\ it[{}] = 0
    /\ \A T \in SUBSET S : T # {} =>
          LET x == CHOOSE x \in T : TRUE IN it[T] = f[x] + it[T \ {x}]

\* SumFunctionOnSet is the last of its partial sums.
LEMMA SumsExist ==
    ASSUME NEW f, NEW S, IsFiniteSet(S)
    PROVE  \E it : Sums(it, f, S) /\ SumFunctionOnSet(f, S) = it[S]
  <1> DEFINE D(k) == {T \in SUBSET S : Cardinality(T) <= k}
             Rest(T) == T \ {CHOOSE x \in T : TRUE}
             Val(it, T) == IF T = {} THEN 0
                           ELSE f[CHOOSE x \in T : TRUE] + it[T \ {CHOOSE x \in T : TRUE}]
             F(it, k) == it = [T \in D(k) |-> Val(it, T)]
             N == {k \in Nat : \E it : F(it, k)}
  <1>1. \A T \in SUBSET S : IsFiniteSet(T) /\ Cardinality(T) \in Nat
    BY FS_Subset, FS_CardinalityType
  <1>2. ASSUME NEW T \in SUBSET S, T # {}
        PROVE  Rest(T) \in SUBSET S /\ Cardinality(Rest(T)) = Cardinality(T) - 1
    <2> DEFINE x == CHOOSE x \in T : TRUE
    <2>1. x \in T
      BY <1>2
    <2> HIDE DEF x
    <2>2. Cardinality(T \ {x}) = Cardinality(T) - 1
      BY <1>1, <2>1, FS_RemoveElement
    <2> QED  BY <2>2 DEF x
  <1>3. 0 \in N
    <2>1. \A T \in D(0) : T = {}
      BY <1>1, FS_EmptySet
    <2> DEFINE it == [T \in D(0) |-> 0]
    <2>2. F(it, 0)
      BY <2>1
    <2> QED  BY <2>2
  <1>4. ASSUME NEW k \in Nat, k \in N  PROVE k + 1 \in N
    <2>1. PICK it : F(it, k)
      BY <1>4
    <2> DEFINE new == [T \in D(k + 1) |-> Val(it, T)]
    <2>2. ASSUME NEW T \in D(k + 1), T # {}
          PROVE  new[Rest(T)] = it[Rest(T)]
      <3>1. Rest(T) \in D(k) /\ Rest(T) \in D(k + 1)
        <4>1. T \in SUBSET S /\ Cardinality(T) <= k + 1 /\ Cardinality(T) \in Nat
          BY <1>1
        <4>2. Rest(T) \in SUBSET S /\ Cardinality(Rest(T)) = Cardinality(T) - 1
          BY <1>2, <2>2, <4>1
        <4> HIDE DEF Rest
        <4> QED  BY <4>1, <4>2
      <3>2. it[Rest(T)] = Val(it, Rest(T))
        <4> HIDE DEF Val, Rest, D
        <4> QED  BY <2>1, <3>1 
      <3>3. new[Rest(T)] = Val(it, Rest(T))
        <4> HIDE DEF Val, Rest, D
        <4> QED  BY <3>1
      <3> QED  BY <3>2, <3>3
    <2>3. F(new, k + 1)
      <3>1. ASSUME NEW T \in D(k + 1)  PROVE Val(new, T) = Val(it, T)
        <4>1. CASE T = {}
          BY <4>1
        <4>2. CASE T # {}
          <5>1. new[Rest(T)] = it[Rest(T)]
            BY <2>2, <4>2
          <5> HIDE DEF new
          <5> QED  BY <4>2, <5>1
        <4> QED  BY <4>1, <4>2
      <3> HIDE DEF Val, D
      <3> QED  BY <3>1
    <2> HIDE DEF F
    <2> QED  BY <2>3
  <1>5. Nat \subseteq N
    <2> HIDE DEF N
    <2> QED  BY <1>3, <1>4, SetInduction
  <1>6. SUBSET S = D(Cardinality(S))
    BY FS_Subset, FS_CardinalityType
  <1>7. \E it : it = [T \in SUBSET S |-> Val(it, T)]
    <2>1. Cardinality(S) \in N
      BY <1>1, <1>5
    <2> HIDE DEF Val, D
    <2> QED  BY <1>6, <2>1
  <1> DEFINE it == CHOOSE it : it = [T \in SUBSET S |-> Val(it, T)]
  <1>8. it = [T \in SUBSET S |-> Val(it, T)]
    <2> HIDE DEF Val
    <2> QED BY <1>7
  <1>9. SumFunctionOnSet(f, S) = it[S]
    BY DEF SumFunctionOnSet, FoldFunctionOnSet, MapThenFoldSet
  <1> HIDE DEF it
  <1>10. Sums(it, f, S)
    <2>1. ASSUME NEW T \in SUBSET S  PROVE it[T] = Val(it, T)
      <3> HIDE DEF Val
      <3> QED BY <1>8
    <2> QED  BY <2>1 DEF Sums
  <1> QED  BY <1>9, <1>10

\* A sum of natural numbers is a natural number, and none of them exceeds it.
LEMMA SumOfNats ==
    ASSUME NEW S, IsFiniteSet(S), NEW f, \A x \in S : f[x] \in Nat
    PROVE  /\ SumFunctionOnSet(f, S) \in Nat
           /\ \A x \in S : f[x] <= SumFunctionOnSet(f, S)
  <1>1. PICK it : Sums(it, f, S) /\ SumFunctionOnSet(f, S) = it[S]
    BY SumsExist
  <1> DEFINE C == {T \in SUBSET S : it[T] \in Nat /\ \A x \in T : f[x] <= it[T]}
  <1>2. {} \in C
    BY <1>1 DEF Sums
  <1>3. ASSUME NEW T \in SUBSET S, T # {}, T \ {CHOOSE x \in T : TRUE} \in C  PROVE T \in C
    <2> DEFINE x == CHOOSE x \in T : TRUE
    <2>1. x \in T
      BY <1>3
    <2>2. it[T] = f[x] + it[T \ {x}]
      BY <1>1, <1>3 DEF Sums
    <2>3. it[T \ {x}] \in Nat /\ \A y \in T \ {x} : f[y] <= it[T \ {x}]
      BY <1>3
    <2> HIDE DEF x, C
    <2>4. f[x] \in Nat
      BY <2>1
    <2>5. ASSUME NEW y \in T  PROVE f[y] <= it[T]
      <3>1. f[y] \in Nat
        OBVIOUS
      <3>2. CASE y = x
        BY <2>2, <2>3, <2>4, <3>2
      <3>3. CASE y # x
        <4>1. f[y] <= it[T \ {x}]
          BY <2>3, <3>3
        <4> QED  BY <2>2, <2>3, <2>4, <3>1, <4>1
      <3> QED  BY <3>2, <3>3
    <2>6. it[T] \in Nat
      BY <2>2, <2>3, <2>4
    <2> QED  BY <2>5, <2>6 DEF C
  <1> HIDE DEF C
  <1>4. S \in C
    <2>1. \A T \in SUBSET S : T # {} => (CHOOSE x \in T : TRUE) \in T
      OBVIOUS
    <2>2. SUBSET S \subseteq C
      BY <1>2, <1>3, <2>1, SubsetInduction
    <2> QED  BY <2>2
  <1> QED  BY <1>1, <1>4 DEF C

\* Changing one term changes the sum by as much.
LEMMA SumChange ==
    ASSUME NEW S, IsFiniteSet(S), NEW f, \A x \in S : f[x] \in Int,
           NEW g, \A x \in S : g[x] \in Int, NEW z \in S,
           \A x \in S : x # z => g[x] = f[x]
    PROVE  SumFunctionOnSet(g, S) = SumFunctionOnSet(f, S) - f[z] + g[z]
  <1>1. PICK it : Sums(it, f, S) /\ SumFunctionOnSet(f, S) = it[S]
    BY SumsExist
  <1>2. PICK jt : Sums(jt, g, S) /\ SumFunctionOnSet(g, S) = jt[S]
    BY SumsExist
  <1> DEFINE C == {T \in SUBSET S : /\ it[T] \in Int /\ jt[T] \in Int
                                    /\ jt[T] = IF z \in T THEN it[T] - f[z] + g[z] ELSE it[T]}
  <1>3. {} \in C
    BY <1>1, <1>2 DEF Sums
  <1>4. ASSUME NEW T \in SUBSET S, T # {}, T \ {CHOOSE x \in T : TRUE} \in C  PROVE T \in C
    <2> DEFINE x == CHOOSE x \in T : TRUE
    <2>1. x \in T
      BY <1>4
    <2>2. it[T] = f[x] + it[T \ {x}] /\ jt[T] = g[x] + jt[T \ {x}]
      BY <1>1, <1>2, <1>4 DEF Sums
    <2>3. /\ it[T \ {x}] \in Int /\ jt[T \ {x}] \in Int
          /\ jt[T \ {x}] = IF z \in T \ {x} THEN it[T \ {x}] - f[z] + g[z] ELSE it[T \ {x}]
      BY <1>4
    <2> HIDE DEF x
    <2>4. f[x] \in Int /\ g[x] \in Int /\ f[z] \in Int /\ g[z] \in Int
      BY <2>1
    <2>5. CASE x = z
      BY <2>1, <2>2, <2>3, <2>4, <2>5
    <2>6. CASE x # z
      <3>1. g[x] = f[x]
        BY <2>1, <2>6
      <3> QED BY <2>1, <2>2, <2>3, <2>4, <2>6, <3>1
    <2> QED  BY <2>5, <2>6
  <1> HIDE DEF C
  <1>5. S \in C
    <2>1. \A T \in SUBSET S : T # {} => (CHOOSE x \in T : TRUE) \in T
      OBVIOUS
    <2>2. SUBSET S \subseteq C
      BY <1>3, <1>4, <2>1, SubsetInduction
    <2> QED  BY <2>2
  <1> QED  BY <1>1, <1>2, <1>5 DEF C

\* A sum of zeros.
LEMMA SumOfZeros ==
    ASSUME NEW S, IsFiniteSet(S), NEW f, \A x \in S : f[x] = 0
    PROVE  SumFunctionOnSet(f, S) = 0
  <1>1. PICK it : Sums(it, f, S) /\ SumFunctionOnSet(f, S) = it[S]
    BY SumsExist
  <1> DEFINE C == {T \in SUBSET S : it[T] = 0}
  <1>2. {} \in C
    BY <1>1 DEF Sums
  <1>3. ASSUME NEW T \in SUBSET S, T # {}, T \ {CHOOSE x \in T : TRUE} \in C  PROVE T \in C
    <2> DEFINE x == CHOOSE x \in T : TRUE
    <2>1. x \in T
      BY <1>3
    <2>2. it[T] = f[x] + it[T \ {x}] /\ it[T \ {x}] = 0
      BY <1>1, <1>3 DEF Sums
    <2> QED  BY <2>1, <2>2
  <1> HIDE DEF C
  <1>4. S \in C
    <2>1. \A T \in SUBSET S : T # {} => (CHOOSE x \in T : TRUE) \in T
      OBVIOUS
    <2>2. SUBSET S \subseteq C
      BY <1>2, <1>3, <2>1, SubsetInduction
    <2> QED  BY <2>2
  <1> QED  BY <1>1, <1>4 DEF C

-----------------------------------------------------------------------------
(* The rule for loops: what a fold over a sequence computes has the        *)
(* invariant of the loop, if the first state has it and one turn of the    *)
(* loop keeps it.  The two operators are parameters of this module, since  *)
(* a prover cannot choose an operator: a module that uses the rule gives   *)
(* them with INSTANCE, and no other lemma speaks of them.                  *)

CONSTANTS
    LoopBody(_, _, _),  \* the body: what surrounds the loop, the state, the element
    LoopInv(_, _, _)    \* the invariant: what surrounds the loop, the turns, the state

LoopFold(e, s, seq) == FoldLeft(LAMBDA v, x : LoopBody(e, v, x), s, seq)

\* The states of the loop, by the positions of the sequence that it has gone through.
Solves(it, e, s, seq) ==
    it = [q \in SUBSET DOMAIN seq |->
             IF q = {} THEN s ELSE LoopBody(e, it[q \ {Max(q)}], seq[Max(q)])]

\* The states of a loop over a finite sequence exist.
LEMMA SolutionExists ==
    ASSUME NEW e, NEW s, NEW seq, NEW n \in Nat, DOMAIN seq = 1 .. n
    PROVE  \E it : Solves(it, e, s, seq)
  <1> DEFINE D(k) == {q \in SUBSET (1 .. n) : Cardinality(q) <= k}
             F(f, k) == f = [q \in D(k) |-> IF q = {} THEN s ELSE LoopBody(e, f[q \ {Max(q)}], seq[Max(q)])]
             S == {k \in Nat : \E f : F(f, k)}
  <1>1. \A q \in SUBSET (1 .. n) : IsFiniteSet(q) /\ Cardinality(q) \in 0 .. n
    <2>1. IsFiniteSet(1 .. n) /\ Cardinality(1 .. n) = n
      BY FS_Interval
    <2> SUFFICES ASSUME NEW q \in SUBSET (1 .. n)
                 PROVE  IsFiniteSet(q) /\ Cardinality(q) \in 0 .. n
      OBVIOUS
    <2>2. IsFiniteSet(q) /\ Cardinality(q) <= Cardinality(1 .. n)
      BY <2>1, FS_Subset
    <2>3. Cardinality(q) \in Nat
      BY <2>2, FS_CardinalityType
    <2> QED BY <2>1, <2>2, <2>3
  <1>2. \A q \in SUBSET (1 .. n) : q # {} => /\ Max(q) \in q /\ q \ {Max(q)} \in SUBSET (1 .. n)
                                             /\ Cardinality(q \ {Max(q)}) = Cardinality(q) - 1
    <2> SUFFICES ASSUME NEW q \in SUBSET (1 .. n), q # {}
                 PROVE  /\ Max(q) \in q /\ q \ {Max(q)} \in SUBSET (1 .. n)
                        /\ Cardinality(q \ {Max(q)}) = Cardinality(q) - 1
      OBVIOUS
    <2>1. IsFiniteSet(q) /\ q \subseteq Int
      BY <1>1
    <2>2. Max(q) \in q
      BY <2>1, MaxOfSet
    <2> QED BY <2>1, <2>2, FS_RemoveElement
  <1>3. 0 \in S
    <2>1. \A q \in D(0) : q = {}
      BY <1>1, FS_EmptySet
    <2> DEFINE f == [q \in D(0) |-> s]
    <2>2. F(f, 0)
      BY <2>1
    <2> QED BY <2>2
  <1>4. ASSUME NEW k \in Nat, k \in S PROVE k + 1 \in S
    <2>1. PICK f : F(f, k)
      BY <1>4
    <2> DEFINE g == [q \in D(k + 1) |-> IF q = {} THEN s ELSE LoopBody(e, f[q \ {Max(q)}], seq[Max(q)])]
    <2>2. ASSUME NEW q \in D(k + 1), q # {}
          PROVE  g[q \ {Max(q)}] = f[q \ {Max(q)}]
      <3> DEFINE r == q \ {Max(q)}
      <3>1. r \in D(k) /\ r \in D(k + 1)
        <4>1. q \in SUBSET (1 .. n) /\ Cardinality(q) <= k + 1 /\ Cardinality(q) \in Nat
          BY <1>1, <2>2
        <4>2. r \in SUBSET (1 .. n) /\ Cardinality(r) = Cardinality(q) - 1
          BY <1>2, <2>2, <4>1
        <4> QED BY <4>1, <4>2
      <3>2. f[r] = IF r = {} THEN s ELSE LoopBody(e, f[r \ {Max(r)}], seq[Max(r)])
        BY <2>1, <3>1
      <3>3. g[r] = IF r = {} THEN s ELSE LoopBody(e, f[r \ {Max(r)}], seq[Max(r)])
        BY <3>1
      <3> QED BY <3>2, <3>3
    <2>3. F(g, k + 1)
      BY <2>2
    <2> HIDE DEF F
    <2> QED BY <2>3
  <1>5. n \in S
    <2> HIDE DEF S
    <2> QED BY <1>3, <1>4, SetInduction
  <1>6. D(n) = SUBSET (1 .. n)
    BY <1>1
  <1> QED BY <1>5, <1>6 DEF Solves

\* The rule for loops.
LEMMA FoldInvariant ==
    ASSUME NEW e, NEW s, NEW seq, NEW n \in Nat, DOMAIN seq = 1 .. n,
           LoopInv(e, 0, s),
           \A k \in 1 .. n : \A v : LoopInv(e, k - 1, v) => LoopInv(e, k, LoopBody(e, v, seq[k]))
    PROVE  LoopInv(e, n, LoopFold(e, s, seq))
  <1> DEFINE it == CHOOSE it : Solves(it, e, s, seq)
  <1>1. Solves(it, e, s, seq)
    BY SolutionExists
  <1>2. LoopFold(e, s, seq) = it[DOMAIN seq]
    BY DEF LoopFold, FoldLeft, MapThenFoldSet, Solves
  <1> HIDE DEF it
  <1> DEFINE S == {k \in Nat : k <= n => LoopInv(e, k, it[1 .. k])}
  <1>3. 0 \in S
    <2>1. 1 .. 0 = {}
      OBVIOUS
    <2>2. it[{}] = s
      BY <1>1 DEF Solves
    <2> QED BY <2>1, <2>2
  <1>4. ASSUME NEW k \in Nat, k \in S PROVE k + 1 \in S
    <2> SUFFICES ASSUME k + 1 <= n PROVE LoopInv(e, k + 1, it[1 .. k + 1])
      OBVIOUS
    <2>1. Max(1 .. k + 1) = k + 1
      <3>1. IsFiniteSet(1 .. k + 1)
        BY FS_Interval
      <3>2. 1 .. k + 1 # {} /\ 1 .. k + 1 \subseteq Int
        OBVIOUS
      <3>3. Max(1 .. k + 1) \in 1 .. k + 1 /\ \A i \in 1 .. k + 1 : i <= Max(1 .. k + 1)
        BY <3>1, <3>2, MaxOfSet
      <3>4. k + 1 \in 1 .. k + 1
        OBVIOUS
      <3> QED BY <3>3, <3>4
    <2>2. (1 .. k + 1) \ {k + 1} = 1 .. k
      OBVIOUS
    <2>3. it[1 .. k + 1] = LoopBody(e, it[1 .. k], seq[k + 1])
      <3>1. 1 .. k + 1 \in SUBSET DOMAIN seq /\ 1 .. k + 1 # {}
        OBVIOUS
      <3> QED BY <1>1, <2>1, <2>2, <3>1 DEF Solves
    <2>4. LoopInv(e, k, it[1 .. k])
      BY <1>4
    <2>5. k + 1 \in 1 .. n /\ (k + 1) - 1 = k
      OBVIOUS
    <2> QED BY <2>3, <2>4, <2>5
  <1>5. n \in S
    <2> HIDE DEF S
    <2> QED BY <1>3, <1>4, SetInduction
  <1> QED BY <1>2, <1>5

=============================================================================
