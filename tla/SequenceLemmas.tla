---------------------------- MODULE SequenceLemmas ----------------------------
(***************************************************************************)
(* What the operators of SequencesExt return, element by element, and      *)
(* sequences without repetitions: the facts that the proofs about caches   *)
(* and lists share.                                                        *)
(***************************************************************************)
EXTENDS Integers, SequencesExt, SequenceTheorems, FiniteSetTheorems, WellFoundedInduction, TLAPS

\* No element of s is in it twice.
Injective(s) == \A i, j \in DOMAIN s : s[i] = s[j] => i = j

\* The least index at which something holds, when it is known.
LEMMA LeastIs ==
  ASSUME NEW S \in SUBSET Nat, NEW p \in S, \A y \in S : p <= y
  PROVE  Min(S) = p
  <1>1. \A x \in S : (\A y \in S : x <= y) => x = p
    OBVIOUS
  <1> QED
    BY <1>1 DEF Min

\* Sets of numbers have a least element.
LEMMA LeastExists ==
  ASSUME NEW S \in SUBSET Nat, S # {}
  PROVE  Min(S) \in S /\ \A y \in S : Min(S) <= y
  <1>1. PICK x \in S : \A y \in S : ~(<<y, x>> \in OpToRel(<, Nat))
    BY NatLessThanWellFounded, WFMin
  <1>2. OpToRel(<, Nat) = {ss \in Nat \X Nat : ss[1] < ss[2]}
    BY Zenon DEF OpToRel
  <1>3. \A y \in S : ~(<<y, x>> \in {ss \in Nat \X Nat : ss[1] < ss[2]})
    BY <1>1, <1>2, Zenon
  <1>4. ASSUME NEW y \in S, y < x PROVE <<y, x>> \in {ss \in Nat \X Nat : ss[1] < ss[2]}
    BY <1>4
  <1>5. \A y \in S : ~(y < x)
    BY <1>3, <1>4, Zenon
  <1>6. \A y \in S : x <= y
    BY <1>5
  <1> QED
    BY <1>6 DEF Min

\* Elements of a concatenation.
LEMMA ConcatGives ==
  ASSUME NEW T, NEW s \in Seq(T), NEW t \in Seq(T)
  PROVE  /\ s \o t \in Seq(T) /\ Len(s \o t) = Len(s) + Len(t)
         /\ \A i \in 1 .. Len(s) : (s \o t)[i] = s[i]
         /\ \A i \in Len(s) + 1 .. Len(s) + Len(t) : (s \o t)[i] = t[i - Len(s)]
  OBVIOUS

\* What SequencesExt removes and inserts, element by element.
LEMMA RemoveAtGives ==
  ASSUME NEW T, NEW s \in Seq(T), NEW p \in 1 .. Len(s)
  PROVE  /\ RemoveAt(s, p) \in Seq(T) /\ Len(RemoveAt(s, p)) = Len(s) - 1
         /\ \A i \in 1 .. Len(s) - 1 :
              RemoveAt(s, p)[i] = IF i < p THEN s[i] ELSE s[i + 1]
  <1> DEFINE a == SubSeq(s, 1, p - 1)
             b == SubSeq(s, p + 1, Len(s))
  <1>1. a \in Seq(T) /\ Len(a) = p - 1 /\ \A i \in 1 .. p - 1 : a[i] = s[i]
    BY SubSeqProperties
  <1>2. b \in Seq(T) /\ Len(b) = Len(s) - p /\ \A i \in 1 .. Len(s) - p : b[i] = s[p + i]
    BY SubSeqProperties
  <1>3. RemoveAt(s, p) = a \o b
    BY DEF RemoveAt
  <1> HIDE DEF a, b
  <1>4. /\ a \o b \in Seq(T) /\ Len(a \o b) = Len(s) - 1
        /\ \A i \in 1 .. p - 1 : (a \o b)[i] = a[i]
        /\ \A i \in p .. Len(s) - 1 : (a \o b)[i] = b[i - (p - 1)]
    <2>1. /\ a \o b \in Seq(T) /\ Len(a \o b) = Len(a) + Len(b)
          /\ \A i \in 1 .. Len(a) : (a \o b)[i] = a[i]
          /\ \A i \in Len(a) + 1 .. Len(a) + Len(b) : (a \o b)[i] = b[i - Len(a)]
      BY <1>1, <1>2, ConcatGives
    <2>2. Len(a) + Len(b) = Len(s) - 1 /\ Len(a) + 1 = p
      BY <1>1, <1>2
    <2> QED
      BY <1>1, <2>1, <2>2
  <1>5. ASSUME NEW i \in 1 .. Len(s) - 1
        PROVE  (a \o b)[i] = IF i < p THEN s[i] ELSE s[i + 1]
    <2>1. CASE i < p
      BY <1>1, <1>4, <2>1
    <2>2. CASE ~(i < p)
      <3>1. i \in p .. Len(s) - 1 /\ i - (p - 1) \in 1 .. Len(s) - p /\ p + (i - (p - 1)) = i + 1
        BY <2>2
      <3> QED
        BY <1>2, <1>4, <2>2, <3>1
    <2> QED
      BY <2>1, <2>2
  <1> QED
    BY <1>3, <1>4, <1>5

\* r is s with e put at index p.
PutsAt(T, s, p, e, r) ==
  /\ r \in Seq(T) /\ Len(r) = Len(s) + 1
  /\ \A i \in 1 .. Len(s) + 1 : r[i] = IF i < p THEN s[i] ELSE IF i = p THEN e ELSE s[i - 1]

\* InsertAt puts its element where it says.
LEMMA InsertAtGives ==
  ASSUME NEW T, NEW s \in Seq(T), NEW p \in 1 .. Len(s) + 1, NEW e \in T
  PROVE  PutsAt(T, s, p, e, InsertAt(s, p, e))
  <1> DEFINE a == SubSeq(s, 1, p - 1)
             c == a \o <<e>>
             b == SubSeq(s, p, Len(s))
  <1>1. a \in Seq(T) /\ Len(a) = p - 1 /\ \A i \in 1 .. p - 1 : a[i] = s[i]
    BY SubSeqProperties
  <1>2. /\ b \in Seq(T) /\ Len(b) = Len(s) + 1 - p
        /\ \A i \in 1 .. Len(s) + 1 - p : b[i] = s[p + i - 1]
    BY SubSeqProperties
  <1>3. InsertAt(s, p, e) = c \o b
    BY DEF InsertAt
  <1> HIDE DEF a, b
  <1>4. c \in Seq(T) /\ Len(c) = p /\ c[p] = e /\ \A i \in 1 .. p - 1 : c[i] = s[i]
    BY <1>1
  <1> HIDE DEF c
  <1>5. /\ c \o b \in Seq(T) /\ Len(c \o b) = Len(s) + 1
        /\ \A i \in 1 .. p : (c \o b)[i] = c[i]
        /\ \A i \in p + 1 .. Len(s) + 1 : (c \o b)[i] = b[i - p]
    BY <1>2, <1>4, ConcatGives
  <1>6. ASSUME NEW i \in 1 .. Len(s) + 1
        PROVE  (c \o b)[i] = IF i < p THEN s[i] ELSE IF i = p THEN e ELSE s[i - 1]
    <2>1. CASE i <= p
      BY <1>4, <1>5, <2>1
    <2>2. CASE i > p
      <3>1. i \in p + 1 .. Len(s) + 1 /\ i - p \in 1 .. Len(s) + 1 - p /\ p + (i - p) - 1 = i - 1
        BY <2>2
      <3> QED
        BY <1>2, <1>5, <2>2, <3>1
    <2>3. i <= p \/ i > p
      OBVIOUS
    <2> QED
      BY <2>1, <2>2, <2>3, Zenon
  <1> QED
    BY <1>3, <1>5, <1>6 DEF PutsAt

\* The index of an element of a sequence without repetitions.
LEMMA IndexIs ==
  ASSUME NEW T, NEW s \in Seq(T), Injective(s), NEW p \in 1 .. Len(s), NEW e, e = s[p]
  PROVE  LET I == {i \in 1 .. Len(s) : s[i] = e} IN I # {} /\ Min(I) = p
  <1>1. {i \in 1 .. Len(s) : s[i] = e} = {p}
    BY DEF Injective
  <1> QED
    BY <1>1, LeastIs

\* RemoveFirst removes the only occurrence.
LEMMA RemoveFirstIs ==
  ASSUME NEW T, NEW s \in Seq(T), Injective(s), NEW p \in 1 .. Len(s), NEW e, e = s[p]
  PROVE  RemoveFirst(s, e) = RemoveAt(s, p)
  BY IndexIs DEF RemoveFirst, SelectInSeq

\* It removes nothing when there is none.
LEMMA RemoveNothing ==
  ASSUME NEW s, NEW e, \A i \in 1 .. Len(s) : s[i] # e
  PROVE  RemoveFirst(s, e) = s
  BY DEF RemoveFirst

\* The removed element is gone and the rest does not repeat.
LEMMA RemoveAtInjective ==
  ASSUME NEW T, NEW s \in Seq(T), Injective(s), NEW p \in 1 .. Len(s)
  PROVE  /\ Injective(RemoveAt(s, p))
         /\ \A i \in DOMAIN RemoveAt(s, p) : RemoveAt(s, p)[i] # s[p]
  <1> DEFINE r == RemoveAt(s, p)
  <1>1. /\ r \in Seq(T) /\ Len(r) = Len(s) - 1
        /\ \A i \in 1 .. Len(s) - 1 : r[i] = IF i < p THEN s[i] ELSE s[i + 1]
    BY RemoveAtGives
  <1> HIDE DEF r
  <1>2. DOMAIN r = 1 .. Len(s) - 1 /\ DOMAIN s = 1 .. Len(s) /\ Len(s) \in Nat
    BY <1>1
  <1>3. \A i, j \in 1 .. Len(s) : s[i] = s[j] => i = j
    BY <1>2 DEF Injective
  <1>4. ASSUME NEW i \in 1 .. Len(s) - 1 PROVE r[i] # s[p]
    BY <1>1, <1>2, <1>3
  <1>5. ASSUME NEW i \in 1 .. Len(s) - 1, NEW j \in 1 .. Len(s) - 1, r[i] = r[j] PROVE i = j
    BY <1>1, <1>2, <1>3, <1>5
  <1> QED
    BY <1>2, <1>4, <1>5 DEF Injective, r

\* r is s without its element at p.
DropsAt(T, s, p, r) ==
  /\ r \in Seq(T) /\ Len(r) = Len(s) - 1
  /\ \A i \in 1 .. Len(s) - 1 : r[i] = IF i < p THEN s[i] ELSE s[i + 1]
  /\ Injective(r) /\ \A i \in DOMAIN r : r[i] # s[p]

\* The same for RemoveFirst.
LEMMA RemovedGives ==
  ASSUME NEW T, NEW s \in Seq(T), Injective(s), NEW p \in 1 .. Len(s), NEW e, e = s[p]
  PROVE  DropsAt(T, s, p, RemoveFirst(s, e))
  <1>1. RemoveFirst(s, e) = RemoveAt(s, p)
    BY RemoveFirstIs
  <1>2. /\ RemoveAt(s, p) \in Seq(T) /\ Len(RemoveAt(s, p)) = Len(s) - 1
        /\ \A i \in 1 .. Len(s) - 1 : RemoveAt(s, p)[i] = IF i < p THEN s[i] ELSE s[i + 1]
    BY RemoveAtGives
  <1>3. /\ Injective(RemoveAt(s, p))
        /\ \A i \in DOMAIN RemoveAt(s, p) : RemoveAt(s, p)[i] # s[p]
    BY RemoveAtInjective
  <1> QED
    BY <1>1, <1>2, <1>3 DEF DropsAt

\* The sequence RemoveFirst gives is known by its elements.
LEMMA RemovedIs ==
  ASSUME NEW T, NEW s \in Seq(T), Injective(s), NEW p \in 1 .. Len(s), NEW e, e = s[p],
         NEW r \in Seq(T), Len(r) = Len(s) - 1,
         \A i \in 1 .. Len(s) - 1 : r[i] = IF i < p THEN s[i] ELSE s[i + 1]
  PROVE  r = RemoveFirst(s, e)
  <1> DEFINE x == RemoveFirst(s, e)
  <1>1. DropsAt(T, s, p, x)
    BY RemovedGives
  <1> HIDE DEF x
  <1>2. /\ x \in Seq(T) /\ Len(x) = Len(s) - 1
        /\ \A i \in 1 .. Len(s) - 1 : x[i] = IF i < p THEN s[i] ELSE s[i + 1]
    BY <1>1 DEF DropsAt
  <1>3. \A i \in 1 .. Len(r) : x[i] = r[i]
    BY <1>2
  <1>4. x = r
    BY <1>2, <1>3, SeqEqual
  <1> QED
    BY <1>4 DEF x

\* RemoveFirst of the first element shifts the others.
LEMMA FirstRemoved ==
  ASSUME NEW T, NEW s \in Seq(T), Injective(s), Len(s) >= 1,
         NEW r \in Seq(T), Len(r) = Len(s) - 1, \A i \in 1 .. Len(s) - 1 : r[i] = s[i + 1]
  PROVE  r = RemoveFirst(s, s[1])
  <1>1. \A i \in 1 .. Len(s) - 1 : r[i] = IF i < 1 THEN s[i] ELSE s[i + 1]
    OBVIOUS
  <1>2. 1 \in 1 .. Len(s)
    OBVIOUS
  <1> QED
    BY <1>1, <1>2, RemovedIs

\* r is s with its element at p moved to the end.
MovesAt(T, s, p, r) ==
  /\ r \in Seq(T) /\ Len(r) = Len(s)
  /\ \A i \in 1 .. Len(s) :
       r[i] = IF i < p THEN s[i] ELSE IF i < Len(s) THEN s[i + 1] ELSE s[p]

\* An element that is removed and appended moves to the end.
LEMMA MovedGives ==
  ASSUME NEW T, NEW s \in Seq(T), Injective(s), NEW p \in 1 .. Len(s), NEW e, e = s[p]
  PROVE  MovesAt(T, s, p, Append(RemoveFirst(s, e), e))
  <1> DEFINE x == RemoveFirst(s, e)
  <1>1. /\ x \in Seq(T) /\ Len(x) = Len(s) - 1
        /\ \A i \in 1 .. Len(s) - 1 : x[i] = IF i < p THEN s[i] ELSE s[i + 1]
    BY RemovedGives DEF DropsAt
  <1>2. e \in T /\ Len(s) \in Nat
    OBVIOUS
  <1> HIDE DEF x
  <1>3. /\ Append(x, e) \in Seq(T) /\ Len(Append(x, e)) = Len(s)
        /\ \A i \in 1 .. Len(s) - 1 : Append(x, e)[i] = x[i]
        /\ Append(x, e)[Len(s)] = e
    BY <1>1, <1>2, AppendProperties
  <1>4. ASSUME NEW i \in 1 .. Len(s)
        PROVE  Append(x, e)[i] = IF i < p THEN s[i] ELSE IF i < Len(s) THEN s[i + 1] ELSE s[p]
    <2>1. CASE i = Len(s)
      BY <1>2, <1>3, <2>1
    <2>2. CASE i # Len(s)
      <3>1. i \in 1 .. Len(s) - 1
        BY <1>2, <2>2
      <3> QED
        BY <1>1, <1>3, <3>1
    <2> QED
      BY <2>1, <2>2
  <1> QED
    BY <1>3, <1>4 DEF x, MovesAt

\* The sequence with an element moved to its end is known by its elements.
LEMMA MovedIs ==
  ASSUME NEW T, NEW s \in Seq(T), Injective(s), NEW p \in 1 .. Len(s), NEW e, e = s[p],
         NEW r \in Seq(T), Len(r) = Len(s),
         \A i \in 1 .. Len(s) :
           r[i] = IF i < p THEN s[i] ELSE IF i < Len(s) THEN s[i + 1] ELSE s[p]
  PROVE  r = Append(RemoveFirst(s, e), e)
  <1> DEFINE x == Append(RemoveFirst(s, e), e)
  <1>1. MovesAt(T, s, p, x)
    BY MovedGives
  <1> HIDE DEF x
  <1>2. /\ x \in Seq(T) /\ Len(x) = Len(s)
        /\ \A i \in 1 .. Len(s) :
             x[i] = IF i < p THEN s[i] ELSE IF i < Len(s) THEN s[i + 1] ELSE s[p]
    BY <1>1 DEF MovesAt
  <1>3. \A i \in 1 .. Len(r) : x[i] = r[i]
    BY <1>2
  <1>4. x = r
    BY <1>2, <1>3, SeqEqual
  <1> QED
    BY <1>4 DEF x

--------------------------------------------------------------------------------
(* std::list. *)

\* The elements of a sequence.
Rng(s) == {s[i] : i \in 1 .. Len(s)}

\* The elements after a removal and after an append.
LEMMA DroppedRange ==
  ASSUME NEW T, NEW s \in Seq(T), Injective(s), NEW p \in 1 .. Len(s), NEW r, DropsAt(T, s, p, r)
  PROVE  Rng(r) = Rng(s) \ {s[p]}
  <1>1. /\ Len(s) \in Nat /\ r \in Seq(T) /\ Len(r) = Len(s) - 1 /\ DOMAIN r = 1 .. Len(s) - 1
        /\ \A i \in 1 .. Len(s) - 1 : r[i] = IF i < p THEN s[i] ELSE s[i + 1]
        /\ \A i \in 1 .. Len(s) - 1 : r[i] # s[p]
    BY DEF DropsAt
  <1>2. ASSUME NEW i \in 1 .. Len(s) - 1 PROVE r[i] \in Rng(s)
    <2>1. i \in 1 .. Len(s) /\ i + 1 \in 1 .. Len(s)
      BY <1>1
    <2> QED
      BY <1>1, <2>1 DEF Rng
  <1>3. ASSUME NEW i \in 1 .. Len(s), i # p PROVE s[i] \in Rng(r)
    <2>1. CASE i < p
      <3>1. i \in 1 .. Len(s) - 1
        BY <1>1, <2>1
      <3> QED
        BY <1>1, <2>1, <3>1 DEF Rng
    <2>2. CASE ~(i < p)
      <3>1. i - 1 \in 1 .. Len(s) - 1 /\ ~(i - 1 < p) /\ (i - 1) + 1 = i
        BY <1>1, <1>3, <2>2
      <3>2. r[i - 1] = s[i]
        BY <1>1, <3>1
      <3> QED
        BY <1>1, <3>1, <3>2 DEF Rng
    <2> QED
      BY <2>1, <2>2
  <1> QED
    BY <1>1, <1>2, <1>3 DEF Rng

\* Append adds its element.
LEMMA AppendedRange ==
  ASSUME NEW T, NEW s \in Seq(T), NEW e \in T
  PROVE  Rng(Append(s, e)) = Rng(s) \cup {e}
  <1> DEFINE a == Append(s, e)
  <1>1. /\ Len(s) \in Nat /\ Len(a) = Len(s) + 1
        /\ \A i \in 1 .. Len(s) : a[i] = s[i]
        /\ a[Len(s) + 1] = e
    BY AppendProperties
  <1> HIDE DEF a
  <1>2. \A i \in 1 .. Len(a) : a[i] \in Rng(s) \cup {e}
    BY <1>1 DEF Rng
  <1>3. /\ \A i \in 1 .. Len(s) : i \in 1 .. Len(a)
        /\ Len(s) + 1 \in 1 .. Len(a)
    BY <1>1
  <1>4. e \in Rng(a) /\ \A i \in 1 .. Len(s) : s[i] \in Rng(a)
    BY <1>1, <1>3 DEF Rng
  <1>5. Rng(a) = Rng(s) \cup {e}
    BY <1>2, <1>4 DEF Rng
  <1> QED
    BY <1>5 DEF a

\* An append of something new repeats nothing.
LEMMA AppendedInjective ==
  ASSUME NEW T, NEW s \in Seq(T), Injective(s), NEW e \in T, e \notin Rng(s)
  PROVE  Injective(Append(s, e))
  <1> DEFINE a == Append(s, e)
  <1>1. /\ Len(s) \in Nat /\ a \in Seq(T) /\ Len(a) = Len(s) + 1
        /\ \A i \in 1 .. Len(s) : a[i] = s[i]
        /\ a[Len(s) + 1] = e
    BY AppendProperties
  <1> HIDE DEF a
  <1>2. \A i, j \in 1 .. Len(s) : s[i] = s[j] => i = j
    BY DEF Injective
  <1>3. \A i \in 1 .. Len(s) : s[i] # e
    BY DEF Rng
  <1>4. DOMAIN a = 1 .. Len(s) + 1
    BY <1>1
  <1>5. ASSUME NEW i \in 1 .. Len(s) + 1, NEW j \in 1 .. Len(s) + 1, a[i] = a[j] PROVE i = j
    <2>1. i \in 1 .. Len(s) \/ i = Len(s) + 1
      BY <1>1
    <2>2. j \in 1 .. Len(s) \/ j = Len(s) + 1
      BY <1>1
    <2> QED
      BY <1>1, <1>2, <1>3, <1>5, <2>1, <2>2
  <1>6. Injective(a)
    BY <1>4, <1>5 DEF Injective
  <1> QED
    BY <1>6 DEF a

\* A property of the numbers up to n holds of them all if it goes on from each to the next.
LEMMA Induction ==
  ASSUME NEW n \in Nat, NEW S \in SUBSET (0 .. n), 0 \in S,
         \A i \in 0 .. n : i \in S /\ i < n => i + 1 \in S
  PROVE  S = 0 .. n
  <1> DEFINE R == (0 .. n) \ S
  <1> SUFFICES ASSUME R # {} PROVE FALSE
    OBVIOUS
  <1>1. R \in SUBSET Nat
    OBVIOUS
  <1>2. PICK l \in R : \A y \in R : l <= y
    <2> HIDE DEF R
    <2> QED
      BY <1>1, LeastExists
  <1>3. l \in 1 .. n /\ l - 1 \in 0 .. n /\ l - 1 < n /\ (l - 1) + 1 = l
    BY <1>2
  <1>4. l - 1 \in S
    BY <1>2, <1>3
  <1> QED
    BY <1>2, <1>3, <1>4

\* What is left of a sequence from a place on.
LEMMA RestGives ==
  ASSUME NEW T, NEW s \in Seq(T), NEW i \in 1 .. Len(s) + 1
  PROVE  /\ SubSeq(s, i, Len(s)) \in Seq(T) /\ Len(SubSeq(s, i, Len(s))) = Len(s) - i + 1
         /\ \A j \in 1 .. Len(s) - i + 1 : SubSeq(s, i, Len(s))[j] = s[i + j - 1]
  <1>1. \A j \in i .. Len(s) : s[j] \in T
    OBVIOUS
  <1> QED
    BY <1>1, SubSeqProperties

\* The rest from a place on begins with the element there.
LEMMA RestIs ==
  ASSUME NEW T, NEW s \in Seq(T), NEW i \in 1 .. Len(s)
  PROVE  SubSeq(s, i, Len(s)) = <<s[i]>> \o SubSeq(s, i + 1, Len(s))
  <1> DEFINE n == Len(s)
             a == <<s[i]>>
             b == SubSeq(s, i + 1, n)
             c == SubSeq(s, i, n)
  <1>1. c \in Seq(T) /\ Len(c) = n - i + 1 /\ \A j \in 1 .. n - i + 1 : c[j] = s[i + j - 1]
    BY RestGives
  <1>2. b \in Seq(T) /\ Len(b) = n - i /\ \A j \in 1 .. n - i : b[j] = s[i + j]
    <2>1. i + 1 \in 1 .. n + 1 /\ n - (i + 1) + 1 = n - i /\ \A j \in 1 .. n - i : (i + 1) + j - 1 = i + j
      OBVIOUS
    <2> DEFINE k == i + 1
    <2> HIDE DEF k
    <2>2. SubSeq(s, k, n) \in Seq(T) /\ Len(SubSeq(s, k, n)) = n - k + 1
          /\ \A j \in 1 .. n - k + 1 : SubSeq(s, k, n)[j] = s[k + j - 1]
      <3>1. k \in 1 .. n + 1
        BY <2>1 DEF k
      <3> QED
        BY <3>1, RestGives
    <2> QED
      BY <2>1, <2>2 DEF k
  <1>3. a \in Seq(T) /\ Len(a) = 1 /\ a[1] = s[i] /\ n \in Nat
    OBVIOUS
  <1> HIDE DEF a, b, c
  <1>4. /\ a \o b \in Seq(T) /\ Len(a \o b) = 1 + (n - i)
        /\ \A j \in 1 .. 1 : (a \o b)[j] = a[j]
        /\ \A j \in 2 .. 1 + (n - i) : (a \o b)[j] = b[j - 1]
    <2>1. /\ a \o b \in Seq(T) /\ Len(a \o b) = Len(a) + Len(b)
          /\ \A j \in 1 .. Len(a) : (a \o b)[j] = a[j]
          /\ \A j \in Len(a) + 1 .. Len(a) + Len(b) : (a \o b)[j] = b[j - Len(a)]
      BY <1>2, <1>3, ConcatGives
    <2> QED
      BY <1>2, <1>3, <2>1
  <1>5. ASSUME NEW j \in 1 .. n - i + 1 PROVE c[j] = (a \o b)[j]
    <2>1. c[j] = s[i + j - 1]
      BY <1>1
    <2>2. CASE j = 1
      BY <1>3, <1>4, <2>1, <2>2
    <2>3. CASE j # 1
      <3>1. j - 1 \in 1 .. n - i /\ j \in 2 .. 1 + (n - i) /\ i + (j - 1) = i + j - 1
        BY <1>3, <2>3
      <3>2. (a \o b)[j] = b[j - 1]
        BY <1>4, <3>1
      <3>3. b[j - 1] = s[i + (j - 1)]
        BY <1>2, <3>1
      <3> QED
        BY <2>1, <3>1, <3>2, <3>3
    <2> QED
      BY <2>2, <2>3
  <1>6. c = a \o b
    <2>1. Len(c) = Len(a \o b) /\ \A j \in 1 .. Len(c) : c[j] = (a \o b)[j]
      BY <1>1, <1>3, <1>4, <1>5
    <2> QED
      BY <1>1, <1>4, <2>1, SeqEqual
  <1> QED
    BY <1>6 DEF a, b, c

\* A new element that is put into a sequence.
LEMMA PutRange ==
  ASSUME NEW T, NEW s \in Seq(T), Injective(s), NEW q \in 1 .. Len(s) + 1, NEW e \in T, e \notin Rng(s),
         NEW r, PutsAt(T, s, q, e, r)
  PROVE  Rng(r) = Rng(s) \cup {e} /\ Injective(r)
  <1> DEFINE n == Len(s)
             g(i) == IF i < q THEN i ELSE i - 1
  <1>1. /\ n \in Nat /\ q \in Nat /\ 1 <= q /\ q <= n + 1 /\ Len(r) = n + 1 /\ DOMAIN r = 1 .. n + 1
        /\ \A i, j \in 1 .. n : s[i] = s[j] => i = j
        /\ r[q] = e /\ q \in 1 .. n + 1
    BY DEF PutsAt, Injective
  <1>2. \A i \in 1 .. n + 1 : i # q => g(i) \in 1 .. n /\ r[i] = s[g(i)]
    <2> SUFFICES ASSUME NEW i \in 1 .. n + 1, i # q PROVE g(i) \in 1 .. n /\ r[i] = s[g(i)]
      OBVIOUS
    <2>1. r[i] = IF i < q THEN s[i] ELSE IF i = q THEN e ELSE s[i - 1]
      BY DEF PutsAt
    <2> QED
      BY <1>1, <2>1
  <1>3. \A i, j \in 1 .. n + 1 : i # q /\ j # q /\ g(i) = g(j) => i = j
    BY <1>1
  <1>4. \A j \in 1 .. n : \E i \in 1 .. n + 1 : i # q /\ g(i) = j
    <2> SUFFICES ASSUME NEW j \in 1 .. n PROVE \E i \in 1 .. n + 1 : i # q /\ g(i) = j
      OBVIOUS
    <2>1. CASE j < q
      BY <1>1, <2>1
    <2>2. CASE ~(j < q)
      <3>1. j + 1 \in 1 .. n + 1 /\ j + 1 # q /\ ~(j + 1 < q) /\ (j + 1) - 1 = j
        BY <1>1, <2>2
      <3> QED
        BY <3>1
    <2> QED
      BY <2>1, <2>2
  <1> HIDE DEF g
  <1>5. Injective(r)
    <2> SUFFICES ASSUME NEW i \in 1 .. n + 1, NEW j \in 1 .. n + 1, r[i] = r[j] PROVE i = j
      BY <1>1 DEF Injective
    <2>1. \A k \in 1 .. n + 1 : k # q => r[k] # e
      BY <1>2 DEF Rng
    <2>2. CASE i = q \/ j = q
      BY <1>1, <2>1, <2>2
    <2>3. CASE i # q /\ j # q
      BY <1>1, <1>2, <1>3, <2>3
    <2> QED
      BY <2>2, <2>3
  <1>6. Rng(r) \subseteq Rng(s) \cup {e}
    BY <1>1, <1>2 DEF Rng
  <1>7. e \in Rng(r)
    BY <1>1 DEF Rng
  <1>8. ASSUME NEW j \in 1 .. n PROVE s[j] \in Rng(r)
    <2>1. PICK i \in 1 .. n + 1 : i # q /\ g(i) = j
      BY <1>4
    <2> QED
      BY <1>1, <1>2, <2>1 DEF Rng
  <1>9. Rng(s) \subseteq Rng(r)
    BY <1>8 DEF Rng
  <1> QED
    BY <1>5, <1>6, <1>7, <1>9

\* At the end InsertAt is Append, and at the front RemoveAt is Tail.
LEMMA AtTheEnds ==
  ASSUME NEW T, NEW s \in Seq(T)
  PROVE  /\ \A e \in T : InsertAt(s, Len(s) + 1, e) = Append(s, e)
         /\ s # <<>> => RemoveAt(s, 1) = Tail(s)
  <1>1. ASSUME NEW e \in T PROVE InsertAt(s, Len(s) + 1, e) = Append(s, e)
    <2> DEFINE n == Len(s)
               q == n + 1
               r == InsertAt(s, q, e)
               a == Append(s, e)
    <2>1. n \in Nat /\ q \in 1 .. n + 1
      OBVIOUS
    <2> HIDE DEF q
    <2>2. PutsAt(T, s, q, e, r)
      BY <2>1, InsertAtGives
    <2>3. a \in Seq(T) /\ Len(a) = n + 1 /\ a[n + 1] = e /\ \A i \in 1 .. n : a[i] = s[i]
      BY AppendProperties
    <2>4. r \in Seq(T) /\ Len(r) = n + 1
          /\ \A i \in 1 .. n + 1 : r[i] = IF i < q THEN s[i] ELSE IF i = q THEN e ELSE s[i - 1]
      BY <2>2 DEF PutsAt
    <2> HIDE DEF r, a
    <2>5. \A i \in 1 .. n + 1 : r[i] = a[i]
      BY <2>1, <2>3, <2>4 DEF q
    <2>6. r = a
      BY <2>3, <2>4, <2>5, SeqEqual
    <2> QED
      BY <2>6 DEF r, a, q
  <1>2. ASSUME s # <<>> PROVE RemoveAt(s, 1) = Tail(s)
    <2> DEFINE r == RemoveAt(s, 1)
               a == Tail(s)
    <2>1. Len(s) \in Nat /\ 1 \in 1 .. Len(s)
      BY <1>2, EmptySeq
    <2>2. r \in Seq(T) /\ Len(r) = Len(s) - 1
          /\ \A i \in 1 .. Len(s) - 1 : r[i] = IF i < 1 THEN s[i] ELSE s[i + 1]
      BY <2>1, RemoveAtGives
    <2>3. a \in Seq(T) /\ Len(a) = Len(s) - 1 /\ \A i \in 1 .. Len(s) - 1 : a[i] = s[i + 1]
      BY <1>2, HeadTailProperties
    <2> HIDE DEF r, a
    <2>4. \A i \in 1 .. Len(r) : r[i] = a[i]
      BY <2>1, <2>2, <2>3
    <2>5. r = a
      BY <2>2, <2>3, <2>4, SeqEqual
    <2> QED
      BY <2>5 DEF r, a
  <1> QED
    BY <1>1, <1>2

\* There is no function from a set to a smaller one that keeps its elements apart.
LEMMA NotInto ==
  ASSUME NEW S, IsFiniteSet(S), NEW T, IsFiniteSet(T), Cardinality(T) < Cardinality(S),
         NEW f \in [S -> T], \A x, y \in S : f[x] = f[y] => x = y
  PROVE  FALSE
  BY FS_PigeonHole
===============================================================================
