------------------------------ MODULE ListProofs ------------------------------
(***************************************************************************)
(* The doubly linked list implements ListSpec.                             *)
(*                                                                         *)
(* The inductive invariant ListInv: the nodes are those of some sequence   *)
(* without repetitions and the head, each linked to the next of them and   *)
(* back, and the last to the head (RingOf).  That walk, a recursive        *)
(* function, returns this sequence (WalkIs) and that getNode finds its     *)
(* elements from either end (GetNodeIs) follows by induction on places.    *)
(* link and unlink change it by one element (Linked, Unlinked), and each   *)
(* call is matched with the call of ListSpec (the lemmas ...Maps).         *)
(***************************************************************************)
EXTENDS DoublyLinkedList, SequenceLemmas

\* The node at a place of the ring; the head is before the first and behind the last.
Place(s, i) == IF i \in 1 .. Len(s) THEN s[i] ELSE Head0

Addresses == 1 .. MaxNodes

\* nd has the nodes of s, linked in this order.
RingOf(nd, s) ==
  /\ s \in Seq(Addresses) /\ Injective(s)
  /\ DOMAIN nd = Rng(s) \cup {Head0}
  /\ nd[Head0] \in [prev : Int, next : Int]
  /\ \A i \in 1 .. Len(s) : nd[s[i]] \in [prev : Int, next : Int, value : Elements]
  /\ \A i \in 0 .. Len(s) :
       nd[Place(s, i)].next = Place(s, i + 1) /\ nd[Place(s, i + 1)].prev = Place(s, i)

IsRing(s) == RingOf(node, s)

\* Places that differ have different nodes, but for the two of the head.
LEMMA PlacesDiffer ==
  ASSUME NEW nd, NEW s, RingOf(nd, s)
  PROVE  /\ Len(s) \in Nat
         /\ \A i, j \in 0 .. Len(s) : Place(s, i) = Place(s, j) => i = j
         /\ \A i, j \in 1 .. Len(s) + 1 : Place(s, i) = Place(s, j) => i = j
         /\ \A i \in 0 .. Len(s) + 1 : Place(s, i) \in DOMAIN nd
         /\ \A m \in DOMAIN nd : \E i \in 0 .. Len(s) : m = Place(s, i)
         /\ Head0 \notin Rng(s) /\ \A i \in 1 .. Len(s) : s[i] # Head0 /\ Place(s, i) = s[i]
         /\ Place(s, 0) = Head0 /\ Place(s, Len(s) + 1) = Head0
  <1>1. /\ s \in Seq(Addresses) /\ Len(s) \in Nat /\ Injective(s) /\ DOMAIN s = 1 .. Len(s)
        /\ DOMAIN nd = Rng(s) \cup {Head0} /\ \A i \in 1 .. Len(s) : s[i] \in Addresses
    BY DEF RingOf
  <1>2. Head0 = 0 /\ Head0 \notin Addresses
    BY NodesAssumption DEF Head0, Addresses
  <1>3. \A i \in 1 .. Len(s) : Place(s, i) = s[i] /\ s[i] # Head0
    BY <1>1, <1>2 DEF Place
  <1>4. Place(s, 0) = Head0 /\ Place(s, Len(s) + 1) = Head0
    BY <1>1 DEF Place
  <1>5. \A i, j \in 1 .. Len(s) : s[i] = s[j] => i = j
    BY <1>1 DEF Injective
  <1>6. Head0 \notin Rng(s)
    BY <1>3 DEF Rng
  <1>7. \A i, j \in 0 .. Len(s) : Place(s, i) = Place(s, j) => i = j
    <2>1. \A i \in 0 .. Len(s) : i = 0 \/ i \in 1 .. Len(s)
      BY <1>1
    <2> QED
      BY <1>3, <1>4, <1>5, <2>1
  <1>8. \A i, j \in 1 .. Len(s) + 1 : Place(s, i) = Place(s, j) => i = j
    <2>1. \A i \in 1 .. Len(s) + 1 : i = Len(s) + 1 \/ i \in 1 .. Len(s)
      BY <1>1
    <2> QED
      BY <1>3, <1>4, <1>5, <2>1
  <1>9. \A i \in 0 .. Len(s) + 1 : Place(s, i) \in DOMAIN nd
    BY <1>1, <1>3, <1>4 DEF Rng
  <1>10. \A m \in DOMAIN nd : \E i \in 0 .. Len(s) : m = Place(s, i)
    <2> SUFFICES ASSUME NEW m \in DOMAIN nd PROVE \E i \in 0 .. Len(s) : m = Place(s, i)
      OBVIOUS
    <2>1. CASE m = Head0
      BY <1>1, <1>4, <2>1
    <2>2. CASE m # Head0
      <3>1. PICK i \in 1 .. Len(s) : m = s[i]
        BY <1>1, <2>2 DEF Rng
      <3> QED
        BY <1>1, <1>3, <3>1
    <2> QED
      BY <2>1, <2>2
  <1> QED
    BY <1>1, <1>3, <1>4, <1>6, <1>7, <1>8, <1>9, <1>10

\* walk from a node ends at the head with the rest of the ring.
LEMMA WalkIs ==
  ASSUME NEW s, IsRing(s)
  PROVE  /\ walk = [m \in DOMAIN node |-> IF m = Head0 THEN <<>> ELSE <<m>> \o walk[node[m].next]]
         /\ Forward = s
  <1> DEFINE n == Len(s)
             rest(i) == SubSeq(s, i, n)
  <1>1. RingOf(node, s)
    BY DEF IsRing
  <1>2. /\ n \in Nat
        /\ \A i, j \in 0 .. n : Place(s, i) = Place(s, j) => i = j
        /\ \A m \in DOMAIN node : \E i \in 0 .. n : m = Place(s, i)
        /\ \A i \in 1 .. n : s[i] # Head0 /\ Place(s, i) = s[i]
        /\ Place(s, 0) = Head0 /\ Place(s, n + 1) = Head0
        /\ \A i \in 0 .. n + 1 : Place(s, i) \in DOMAIN node
    BY <1>1, PlacesDiffer
  <1>3. \A i \in 0 .. n : node[Place(s, i)].next = Place(s, i + 1)
    BY <1>1 DEF RingOf
  <1>4. s \in Seq(Addresses)
    BY <1>1 DEF RingOf
  <1>5. rest(n + 1) = <<>> /\ rest(1) = s
    <2>1. rest(n + 1) = <<>>
      BY <1>2, SubSeqEmpty
    <2>2. /\ SubSeq(s, 1, Len(s)) \in Seq(Addresses) /\ Len(SubSeq(s, 1, Len(s))) = Len(s) - 1 + 1
          /\ \A j \in 1 .. Len(s) - 1 + 1 : SubSeq(s, 1, Len(s))[j] = s[1 + j - 1]
      <3>1. 1 \in 1 .. Len(s) + 1
        BY <1>2
      <3> QED
        BY <1>4, <3>1, RestGives
    <2> QED
      BY <1>2, <1>4, <2>1, <2>2, SeqEqual
  <1>6. \A i \in 1 .. n : rest(i) = <<s[i]>> \o rest(i + 1)
    BY <1>4, RestIs
  <1> DEFINE isAt(m, i) == /\ m = Place(s, i) /\ (m = Head0 <=> i = n + 1)
                           /\ i <= n => node[m].next = Place(s, i + 1)
  <1>7. ASSUME NEW m \in DOMAIN node
        PROVE  \E i \in 1 .. n + 1 : isAt(m, i)
    <2>1. PICK i \in 0 .. n : m = Place(s, i)
      BY <1>2
    <2>2. CASE i = 0
      <3>1. n + 1 \in 1 .. n + 1 /\ m = Place(s, n + 1) /\ m = Head0 /\ ~(n + 1 <= n)
        BY <1>2, <2>1, <2>2
      <3> QED
        BY <3>1
    <2>3. CASE i # 0
      <3>1. i \in 1 .. n /\ i \in 1 .. n + 1 /\ i # n + 1
        BY <1>2, <2>3
      <3> QED
        BY <1>2, <1>3, <2>1, <3>1
    <2> QED
      BY <2>2, <2>3
  <1> DEFINE place(m) == CHOOSE i \in 1 .. n + 1 : m = Place(s, i)
             g == [m \in DOMAIN node |-> rest(place(m))]
  <1>8. \A i \in 1 .. n + 1 : place(Place(s, i)) = i
    BY <1>1, PlacesDiffer
  <1>9. \A i \in 1 .. n + 1 : Place(s, i) \in DOMAIN node /\ g[Place(s, i)] = rest(i)
    <2> HIDE DEF place, rest
    <2>1. \A i \in 1 .. n + 1 : Place(s, i) \in DOMAIN node
      BY <1>2
    <2>2. \A m \in DOMAIN node : g[m] = rest(place(m))
      OBVIOUS
    <2> HIDE DEF g
    <2> QED
      BY <1>8, <2>1, <2>2
  <1> HIDE DEF g, place, rest
  <1>10. ASSUME NEW m \in DOMAIN node
         PROVE  g[m] = IF m = Head0 THEN <<>> ELSE <<m>> \o g[node[m].next]
    <2>1. PICK i \in 1 .. n + 1 : isAt(m, i)
      <3> HIDE DEF isAt
      <3> QED
        BY <1>7
    <2>2. g[m] = rest(i)
      BY <1>9, <2>1
    <2>3. CASE i = n + 1
      BY <1>5, <2>1, <2>2, <2>3
    <2>4. CASE i # n + 1
      <3>1. i \in 1 .. n /\ i + 1 \in 1 .. n + 1 /\ i <= n
        BY <1>2, <2>4
      <3>2. m = s[i] /\ m # Head0 /\ g[node[m].next] = rest(i + 1)
        BY <1>2, <1>9, <2>1, <2>4, <3>1
      <3> QED
        BY <1>6, <2>2, <3>1, <3>2
    <2> QED
      BY <2>3, <2>4
  <1>11. walk = [m \in DOMAIN node |-> IF m = Head0 THEN <<>> ELSE <<m>> \o walk[node[m].next]]
    <2>1. g = [m \in DOMAIN node |-> IF m = Head0 THEN <<>> ELSE <<m>> \o g[node[m].next]]
      <3>1. DOMAIN g = DOMAIN node /\ g = [m \in DOMAIN g |-> g[m]]
        BY DEF g
      <3> QED
        BY <1>10, <3>1
    <2> QED
      BY <2>1 DEF walk
  <1> DEFINE S == {i \in 0 .. n : walk[Place(s, n + 1 - i)] = rest(n + 1 - i)}
  <1>12. S = 0 .. n
    <2>1. 0 \in S
      <3>1. walk[Head0] = <<>> /\ n + 1 - 0 = n + 1 /\ 0 \in 0 .. n
        BY <1>2, <1>11
      <3> QED
        BY <1>2, <1>5, <3>1
    <2>2. ASSUME NEW i \in 0 .. n, i \in S, i < n PROVE i + 1 \in S
      <3> DEFINE j == n + 1 - (i + 1)
      <3>1. j \in 1 .. n /\ j + 1 = n + 1 - i /\ i + 1 \in 0 .. n /\ j \in 0 .. n /\ j \in 0 .. n + 1
        BY <1>2, <2>2
      <3>2. walk[Place(s, j + 1)] = rest(j + 1)
        BY <2>2, <3>1
      <3> HIDE DEF j
      <3>3. Place(s, j) = s[j] /\ s[j] # Head0 /\ s[j] \in DOMAIN node /\ node[s[j]].next = Place(s, j + 1)
        BY <1>2, <1>3, <3>1
      <3>4. walk[s[j]] = <<s[j]>> \o walk[Place(s, j + 1)]
        BY <1>11, <3>3
      <3>5. walk[Place(s, j)] = rest(j)
        BY <1>6, <3>1, <3>2, <3>3, <3>4
      <3> QED
        BY <3>1, <3>5 DEF j
    <2>3. S \in SUBSET (0 .. n) /\ n \in Nat
      BY <1>2
    <2> HIDE DEF S
    <2> QED
      BY <2>1, <2>2, <2>3, Induction
  <1>13. walk[Place(s, 1)] = rest(1)
    <2>1. n \in 0 .. n /\ n + 1 - n = 1
      BY <1>2
    <2> QED
      BY <1>12, <2>1
  <1>14. node[Head0].next = Place(s, 1)
    <2>1. 0 \in 0 .. n /\ 0 + 1 = 1
      BY <1>2
    <2> QED
      BY <1>2, <1>3, <2>1
  <1> QED
    BY <1>5, <1>11, <1>13, <1>14 DEF Forward

\* A walk of count steps, given the places it passes.
LEMMA StepsAre ==
  ASSUME NEW from, NEW direction, NEW count \in Nat, NEW p, p[0] = from,
         \A i \in 0 .. count : i < count => node[p[i]][direction] = p[i + 1]
  PROVE  steps(from, direction, count) = p[count]
  <1> DEFINE g == [i \in 0 .. count |-> p[i]]
             Is(f) == f = [i \in 0 .. count |-> IF i = 0 THEN from ELSE node[f[i - 1]][direction]]
             go == CHOOSE f : Is(f)
  <1>1. Is(g)
    <2>1. ASSUME NEW i \in 0 .. count
          PROVE  p[i] = IF i = 0 THEN from ELSE node[g[i - 1]][direction]
      <3>1. CASE i = 0
        BY <3>1
      <3>2. CASE i # 0
        <4>1. i - 1 \in 0 .. count /\ i - 1 < count /\ (i - 1) + 1 = i
          BY <3>2
        <4>2. g[i - 1] = p[i - 1]
          BY <4>1
        <4> HIDE DEF g
        <4> QED
          BY <3>2, <4>1, <4>2
      <3> QED
        BY <3>1, <3>2
    <2> QED
      BY <2>1
  <1>2. Is(go)
    <2> HIDE DEF Is
    <2> QED
      BY <1>1
  <1>3. steps(from, direction, count) = go[count]
    BY DEF steps
  <1> HIDE DEF go
  <1> DEFINE S == {i \in 0 .. count : go[i] = p[i]}
  <1>4. 0 \in S
    BY <1>2
  <1>5. ASSUME NEW i \in 0 .. count, i \in S, i < count PROVE i + 1 \in S
    <2>1. i + 1 \in 0 .. count /\ i + 1 # 0 /\ (i + 1) - 1 = i
      BY <1>5
    <2>2. go[i + 1] = node[go[i]][direction]
      BY <1>2, <2>1
    <2> QED
      BY <1>5, <2>1, <2>2
  <1>6. S \in SUBSET (0 .. count)
    OBVIOUS
  <1> HIDE DEF S
  <1>7. S = 0 .. count
    BY <1>4, <1>5, <1>6, Induction
  <1> QED
    BY <1>3, <1>7 DEF S

\* Counting from the front and from the back finds the node at an index.
LEMMA GetNodeIs ==
  ASSUME NEW s, IsRing(s), NEW index \in Int
  PROVE  /\ index \in 0 .. Len(s) - 1 => getNode(index) = s[index + 1] /\ s[index + 1] # Head0
         /\ index \notin 0 .. Len(s) - 1 => getNode(index) = Head0
  <1> DEFINE n == Len(s)
  <1>1. RingOf(node, s)
    BY DEF IsRing
  <1>2. /\ n \in Nat /\ \A i \in 1 .. n : s[i] # Head0 /\ Place(s, i) = s[i]
        /\ Place(s, 0) = Head0 /\ Place(s, n + 1) = Head0
    BY <1>1, PlacesDiffer
  <1>3. \A i \in 0 .. n : node[Place(s, i)].next = Place(s, i + 1) /\ node[Place(s, i + 1)].prev = Place(s, i)
    BY <1>1 DEF RingOf
  <1>4. size = n
    BY WalkIs DEF size
  <1>5. CASE index \notin 0 .. n - 1
    <2>1. index < 0 \/ index >= n
      BY <1>2, <1>5
    <2> QED
      BY <1>4, <1>5, <2>1 DEF getNode
  <1>6. CASE index \in 0 .. n - 1
    <2>1. ~(index < 0 \/ index >= size) /\ index + 1 \in 1 .. n /\ index \in Nat
      BY <1>2, <1>4, <1>6
    <2>2. steps(node[Head0].next, "next", index) = s[index + 1]
      <3> DEFINE p == [i \in 0 .. index |-> s[i + 1]]
      <3>1. p[0] = node[Head0].next /\ p[index] = s[index + 1]
        <4>1. 0 \in 0 .. n /\ 0 + 1 = 1 /\ 1 \in 1 .. n
          BY <1>2, <2>1
        <4>2. p[0] = s[1] /\ p[index] = s[index + 1]
          BY <2>1
        <4> HIDE DEF p
        <4> QED
          BY <1>2, <1>3, <4>1, <4>2
      <3>2. ASSUME NEW i \in 0 .. index, i < index PROVE node[p[i]]["next"] = p[i + 1]
        <4>1. p[i] = s[i + 1] /\ p[i + 1] = s[i + 1 + 1]
          BY <3>2
        <4>2. i + 1 \in 1 .. n /\ i + 1 \in 0 .. n /\ i + 1 + 1 \in 1 .. n
          BY <1>2, <2>1, <3>2
        <4> HIDE DEF p
        <4> QED
          BY <1>2, <1>3, <4>1, <4>2
      <3> HIDE DEF p
      <3>3. steps(node[Head0].next, "next", index) = p[index]
        BY <2>1, <3>1, <3>2, StepsAre
      <3> QED
        BY <3>1, <3>3
    <2>3. steps(node[Head0].prev, "prev", size - index - 1) = s[index + 1]
      <3> DEFINE c == n - index - 1
                 p == [i \in 0 .. c |-> s[n - i]]
      <3>1. c \in Nat /\ size - index - 1 = c /\ n - c = index + 1 /\ c < n /\ n \in 1 .. n
        BY <1>2, <1>4, <2>1
      <3> HIDE DEF c
      <3>2. p[0] = node[Head0].prev /\ p[c] = s[index + 1]
        <4>1. p[0] = s[n] /\ p[c] = s[index + 1]
          <5>1. 0 \in 0 .. c /\ c \in 0 .. c /\ n - 0 = n
            BY <1>2, <3>1
          <5> QED
            BY <3>1, <5>1
        <4> HIDE DEF p
        <4>2. n \in 0 .. n
          BY <1>2
        <4> QED
          BY <1>2, <1>3, <3>1, <4>1, <4>2
      <3>3. ASSUME NEW i \in 0 .. c, i < c PROVE node[p[i]]["prev"] = p[i + 1]
        <4>1. p[i] = s[n - i] /\ p[i + 1] = s[n - (i + 1)]
          BY <3>1, <3>3
        <4>2. n - i \in 1 .. n /\ n - (i + 1) \in 0 .. n /\ n - (i + 1) \in 1 .. n /\ (n - (i + 1)) + 1 = n - i
          BY <1>2, <3>1, <3>3
        <4> HIDE DEF p
        <4> QED
          BY <1>2, <1>3, <4>1, <4>2
      <3> HIDE DEF p
      <3>4. steps(node[Head0].prev, "prev", c) = p[c]
        BY <3>1, <3>2, <3>3, StepsAre
      <3> QED
        BY <3>1, <3>2, <3>4
    <2>4. getNode(index) = s[index + 1]
      BY <2>1, <2>2, <2>3 DEF getNode
    <2> QED
      BY <1>2, <1>6, <2>1, <2>4
  <1> QED
    BY <1>5, <1>6

\* What link makes of the nodes.
Links(nd, nd2, p, n, new, v) ==
  /\ DOMAIN nd2 = DOMAIN nd \cup {new}
  /\ nd2[new] = [prev |-> p, next |-> n, value |-> v]
  /\ \A m \in DOMAIN nd :
       nd2[m] = [nd[m] EXCEPT !.prev = IF m = n THEN new ELSE @, !.next = IF m = p THEN new ELSE @]

\* A node d that was node m, with other links.
Relinked(nd, m, x, y, d) ==
  /\ d.prev = x /\ d.next = y
  /\ m = Head0 => d \in [prev : Int, next : Int]
  /\ m # Head0 => d \in [prev : Int, next : Int, value : Elements] /\ d.value = nd[m].value

\* A node of the ring after its links have changed.
LEMMA NodeChanged ==
  ASSUME NEW nd, NEW s, RingOf(nd, s), NEW m \in DOMAIN nd, NEW x \in Int, NEW y \in Int,
         NEW d, d = [nd[m] EXCEPT !.prev = x, !.next = y]
  PROVE  Relinked(nd, m, x, y, d)
  <1>1. CASE m = Head0
    BY <1>1 DEF RingOf, Relinked
  <1>2. CASE m # Head0
    <2>1. nd[m] \in [prev : Int, next : Int, value : Elements]
      BY <1>2 DEF RingOf, Rng
    <2> QED
      BY <1>2, <2>1 DEF Relinked
  <1> QED
    BY <1>1, <1>2

\* The links of a node of the ring are numbers.
LEMMA LinksAreNumbers ==
  ASSUME NEW nd, NEW s, RingOf(nd, s), NEW m \in DOMAIN nd
  PROVE  nd[m].prev \in Int /\ nd[m].next \in Int
  <1>1. CASE m = Head0
    BY <1>1 DEF RingOf
  <1>2. CASE m # Head0
    <2>1. nd[m] \in [prev : Int, next : Int, value : Elements]
      BY <1>2 DEF RingOf, Rng
    <2> QED
      BY <2>1
  <1> QED
    BY <1>1, <1>2

\* nd2 is the ring of nd with a new node at place q of s.
HasLinked(nd, nd2, s, q, new, v) ==
  /\ RingOf(nd2, InsertAt(s, q, new))
  /\ nd2[new].value = v
  /\ \A i \in 1 .. Len(s) : nd2[s[i]].value = nd[s[i]].value

\* A new node before the one at place q.
LEMMA Linked ==
  ASSUME NEW nd, NEW s, RingOf(nd, s), NEW q \in 1 .. Len(s) + 1, NEW new \in Addresses,
         new \notin DOMAIN nd, NEW v \in Elements,
         NEW nd2, Links(nd, nd2, Place(s, q - 1), Place(s, q), new, v)
  PROVE  HasLinked(nd, nd2, s, q, new, v)
  <1> DEFINE n == Len(s)
             r == InsertAt(s, q, new)
             before == Place(s, q - 1)
             behind == Place(s, q)
  <1>1. /\ n \in Nat
        /\ \A i, j \in 0 .. n : Place(s, i) = Place(s, j) => i = j
        /\ \A i, j \in 1 .. n + 1 : Place(s, i) = Place(s, j) => i = j
        /\ \A i \in 0 .. n + 1 : Place(s, i) \in DOMAIN nd
        /\ \A i \in 1 .. n : s[i] # Head0 /\ Place(s, i) = s[i]
        /\ Place(s, 0) = Head0 /\ Place(s, n + 1) = Head0
    BY PlacesDiffer
  <1>2. /\ s \in Seq(Addresses) /\ Injective(s) /\ DOMAIN nd = Rng(s) \cup {Head0}
        /\ \A i \in 0 .. n : nd[Place(s, i)].next = Place(s, i + 1) /\ nd[Place(s, i + 1)].prev = Place(s, i)
    BY DEF RingOf
  <1>3. /\ DOMAIN nd2 = DOMAIN nd \cup {new}
        /\ nd2[new] = [prev |-> before, next |-> behind, value |-> v]
        /\ \A m \in DOMAIN nd :
             nd2[m] = [nd[m] EXCEPT !.prev = IF m = behind THEN new ELSE @,
                                    !.next = IF m = before THEN new ELSE @]
    BY DEF Links
  <1>4. PutsAt(Addresses, s, q, new, r)
    BY <1>2, InsertAtGives
  <1>5. /\ r \in Seq(Addresses) /\ Len(r) = n + 1
        /\ \A i \in 1 .. n + 1 : r[i] = IF i < q THEN s[i] ELSE IF i = q THEN new ELSE s[i - 1]
    BY <1>4 DEF PutsAt
  <1> HIDE DEF r, before, behind
  <1>6. \A i \in 0 .. n + 2 : Place(r, i) = IF i < q THEN Place(s, i) ELSE IF i = q THEN new
                                            ELSE Place(s, i - 1)
    <2> SUFFICES ASSUME NEW i \in 0 .. n + 2
                 PROVE  Place(r, i) = IF i < q THEN Place(s, i) ELSE IF i = q THEN new
                                      ELSE Place(s, i - 1)
      OBVIOUS
    <2>1. q \in Nat /\ q >= 1 /\ q <= n + 1
      BY <1>1
    <2>2. CASE i = 0
      <3>1. i < q /\ i \notin 1 .. Len(r) /\ i \notin 1 .. Len(s)
        BY <1>5, <2>1, <2>2
      <3> QED
        BY <3>1 DEF Place
    <2>3. CASE i = n + 2
      <3>1. ~(i < q) /\ i # q /\ i \notin 1 .. Len(r) /\ i - 1 \notin 1 .. Len(s)
        BY <1>1, <1>5, <2>1, <2>3
      <3> QED
        BY <3>1 DEF Place
    <2>4. CASE i \in 1 .. n + 1
      <3>1. Place(r, i) = r[i]
        BY <1>5, <2>4 DEF Place
      <3>2. (i < q => i \in 1 .. Len(s)) /\ (~(i < q) /\ i # q => i - 1 \in 1 .. Len(s))
        BY <1>1, <2>1, <2>4
      <3> QED
        BY <1>5, <2>4, <3>1, <3>2 DEF Place
    <2> QED
      BY <1>1, <2>2, <2>3, <2>4
  <1>7. ASSUME NEW m \in DOMAIN nd
        PROVE  Relinked(nd, m, IF m = behind THEN new ELSE nd[m].prev,
                               IF m = before THEN new ELSE nd[m].next, nd2[m])
    <2> DEFINE x == IF m = behind THEN new ELSE nd[m].prev
               y == IF m = before THEN new ELSE nd[m].next
               d == nd2[m]
    <2>1. d = [nd[m] EXCEPT !.prev = x, !.next = y]
      BY <1>3
    <2>2. x \in Int /\ y \in Int
      BY LinksAreNumbers DEF Addresses
    <2> HIDE DEF x, y, d
    <2>3. Relinked(nd, m, x, y, d)
      BY <2>1, <2>2, NodeChanged
    <2> QED
      BY <2>3 DEF x, y, d
  <1>8. \A m \in DOMAIN nd : /\ nd2[m].prev = IF m = behind THEN new ELSE nd[m].prev
                            /\ nd2[m].next = IF m = before THEN new ELSE nd[m].next
    BY <1>7 DEF Relinked
  <1>9. /\ nd2[Head0] \in [prev : Int, next : Int]
        /\ \A i \in 1 .. n : /\ nd2[s[i]] \in [prev : Int, next : Int, value : Elements]
                              /\ nd2[s[i]].value = nd[s[i]].value
    <2>1. Head0 \in DOMAIN nd /\ \A i \in 1 .. n : s[i] \in DOMAIN nd /\ s[i] # Head0
      BY <1>1, <1>2 DEF Rng
    <2> QED
      BY <1>7, <2>1 DEF Relinked
  <1>10. /\ nd2[new] \in [prev : Int, next : Int, value : Elements]
         /\ nd2[new].prev = before /\ nd2[new].next = behind /\ nd2[new].value = v
    <2>1. before \in Int /\ behind \in Int
      <3>1. \A i \in 1 .. n : s[i] \in Int
        <4>1. \A i \in 1 .. n : s[i] \in Addresses
          BY <1>2
        <4>2. Addresses \subseteq Int
          BY DEF Addresses
        <4> QED
          BY <4>1, <4>2
      <3> QED
        BY <3>1 DEF before, behind, Place, Head0
    <2>2. nd2[new] = [prev |-> before, next |-> behind, value |-> v]
      BY <1>3
    <2> QED
      BY <2>1, <2>2
  <1>11. ASSUME NEW i \in 0 .. n + 1
         PROVE  nd2[Place(r, i)].next = Place(r, i + 1)
    <2>1. q \in Nat /\ q >= 1 /\ q <= n + 1 /\ q - 1 \in 0 .. n /\ i \in 0 .. n + 2 /\ i + 1 \in 0 .. n + 2
      BY <1>1
    <2>2. CASE i < q
      <3>1. i \in 0 .. n /\ (i # q - 1 => i + 1 < q) /\ (i = q - 1 => i + 1 = q) /\ i \in 0 .. n + 1
        BY <1>1, <2>1, <2>2
      <3>2. Place(r, i) = Place(s, i) /\ Place(s, i) \in DOMAIN nd
        BY <1>1, <1>6, <2>1, <2>2, <3>1
      <3>3. CASE i = q - 1
        BY <1>6, <1>8, <2>1, <3>1, <3>2, <3>3 DEF before
      <3>4. CASE i # q - 1
        <4>1. Place(s, i) # before
          BY <1>1, <2>1, <3>1, <3>4 DEF before
        <4> QED
          BY <1>2, <1>6, <1>8, <2>1, <3>1, <3>2, <3>4, <4>1
      <3> QED
        BY <3>3, <3>4
    <2>3. CASE i = q
      <3>1. Place(r, i) = new /\ ~(i + 1 < q) /\ i + 1 # q /\ (i + 1) - 1 = q
        BY <1>6, <2>1, <2>3
      <3>2. Place(r, i + 1) = Place(s, q)
        BY <1>6, <2>1, <3>1
      <3> QED
        BY <1>10, <3>1, <3>2 DEF behind
    <2>4. CASE i > q
      <3>1. /\ i - 1 \in 0 .. n /\ i - 1 # q - 1 /\ ~(i < q) /\ i # q /\ i - 1 \in 0 .. n + 1
            /\ ~(i + 1 < q) /\ i + 1 # q /\ (i + 1) - 1 = (i - 1) + 1
        BY <1>1, <2>1, <2>4
      <3>2. Place(r, i) = Place(s, i - 1) /\ Place(s, i - 1) \in DOMAIN nd
        BY <1>1, <1>6, <2>1, <3>1
      <3>3. Place(r, i + 1) = Place(s, (i - 1) + 1)
        BY <1>6, <2>1, <3>1
      <3>4. Place(s, i - 1) # before
        BY <1>1, <2>1, <3>1 DEF before
      <3> QED
        BY <1>2, <1>8, <3>1, <3>2, <3>3, <3>4
    <2> QED
      BY <2>1, <2>2, <2>3, <2>4
  <1>12. ASSUME NEW i \in 0 .. n + 1
         PROVE  nd2[Place(r, i + 1)].prev = Place(r, i)
    <2>1. q \in Nat /\ q >= 1 /\ q <= n + 1 /\ q \in 1 .. n + 1 /\ i \in 0 .. n + 2 /\ i + 1 \in 0 .. n + 2
      BY <1>1
    <2>2. CASE i + 1 < q
      <3>1. i \in 0 .. n /\ i < q /\ i + 1 # q /\ i + 1 \in 1 .. n + 1 /\ i + 1 \in 0 .. n + 1
        BY <1>1, <2>1, <2>2
      <3>2. Place(r, i + 1) = Place(s, i + 1) /\ Place(s, i + 1) \in DOMAIN nd /\ Place(r, i) = Place(s, i)
        BY <1>1, <1>6, <2>1, <2>2, <3>1
      <3>3. Place(s, i + 1) # behind
        BY <1>1, <2>1, <3>1 DEF behind
      <3> QED
        BY <1>2, <1>8, <3>1, <3>2, <3>3
    <2>3. CASE i + 1 = q
      <3>1. i < q /\ i = q - 1
        BY <2>1, <2>3
      <3>2. Place(r, i + 1) = new /\ Place(r, i) = Place(s, q - 1)
        BY <1>6, <2>1, <2>3, <3>1
      <3> QED
        BY <1>10, <3>2 DEF before
    <2>4. CASE i = q
      <3>1. ~(i + 1 < q) /\ i + 1 # q /\ (i + 1) - 1 = q /\ ~(i < q) /\ q \in 0 .. n + 1
        BY <1>1, <2>1, <2>4
      <3>2. Place(r, i + 1) = behind /\ Place(r, i) = new /\ behind \in DOMAIN nd
        BY <1>1, <1>6, <2>1, <2>4, <3>1 DEF behind
      <3> QED
        BY <1>8, <3>2
    <2>5. CASE i > q
      <3>1. /\ i - 1 \in 0 .. n /\ ~(i < q) /\ i # q /\ ~(i + 1 < q) /\ i + 1 # q
            /\ (i + 1) - 1 = (i - 1) + 1 /\ (i - 1) + 1 \in 1 .. n + 1 /\ (i - 1) + 1 # q
            /\ (i - 1) + 1 \in 0 .. n + 1
        BY <1>1, <2>1, <2>5
      <3>2. Place(r, i) = Place(s, i - 1) /\ Place(s, (i - 1) + 1) \in DOMAIN nd
        BY <1>1, <1>6, <2>1, <3>1
      <3>3. Place(r, i + 1) = Place(s, (i - 1) + 1)
        BY <1>6, <2>1, <3>1
      <3>4. Place(s, (i - 1) + 1) # behind
        BY <1>1, <2>1, <3>1 DEF behind
      <3> QED
        BY <1>2, <1>8, <3>1, <3>2, <3>3, <3>4
    <2> QED
      BY <2>1, <2>2, <2>3, <2>4, <2>5
  <1>13. Rng(r) = Rng(s) \cup {new} /\ Injective(r)
    <2>1. new \notin Rng(s)
      BY <1>2
    <2> QED
      BY <1>2, <1>4, <2>1, PutRange
  <1>14. \A i \in 1 .. Len(r) : nd2[r[i]] \in [prev : Int, next : Int, value : Elements]
    <2> SUFFICES ASSUME NEW i \in 1 .. n + 1
                 PROVE  nd2[r[i]] \in [prev : Int, next : Int, value : Elements]
      BY <1>5
    <2>1. q \in Nat /\ (i < q => i \in 1 .. n) /\ (~(i < q) /\ i # q => i - 1 \in 1 .. n)
      BY <1>1
    <2> QED
      BY <1>5, <1>9, <1>10, <2>1
  <1>15. RingOf(nd2, r)
    <2>1. DOMAIN nd2 = Rng(r) \cup {Head0}
      BY <1>2, <1>3, <1>13
    <2> QED
      BY <1>5, <1>9, <1>11, <1>12, <1>13, <1>14, <2>1 DEF RingOf
  <1> QED
    BY <1>9, <1>10, <1>15 DEF r, HasLinked

\* What unlink makes of the nodes.
Unlinks(nd, nd2, i) ==
  /\ DOMAIN nd2 = DOMAIN nd \ {i}
  /\ \A m \in DOMAIN nd \ {i} :
       nd2[m] = [nd[m] EXCEPT !.prev = IF m = nd[i].next THEN nd[i].prev ELSE @,
                              !.next = IF m = nd[i].prev THEN nd[i].next ELSE @]

\* The node at place q is deleted.
LEMMA Unlinked ==
  ASSUME NEW nd, NEW s, RingOf(nd, s), NEW q \in 1 .. Len(s), NEW nd2, Unlinks(nd, nd2, s[q])
  PROVE  /\ RingOf(nd2, RemoveAt(s, q))
         /\ \A i \in 1 .. Len(s) : i # q => nd2[s[i]].value = nd[s[i]].value
  <1> DEFINE n == Len(s)
             r == RemoveAt(s, q)
             before == Place(s, q - 1)
             behind == Place(s, q + 1)
  <1>1. /\ n \in Nat
        /\ \A i, j \in 0 .. n : Place(s, i) = Place(s, j) => i = j
        /\ \A i, j \in 1 .. n + 1 : Place(s, i) = Place(s, j) => i = j
        /\ \A i \in 0 .. n + 1 : Place(s, i) \in DOMAIN nd
        /\ \A i \in 1 .. n : s[i] # Head0 /\ Place(s, i) = s[i]
        /\ Place(s, 0) = Head0 /\ Place(s, n + 1) = Head0
    BY PlacesDiffer
  <1>2. /\ s \in Seq(Addresses) /\ Injective(s) /\ DOMAIN nd = Rng(s) \cup {Head0}
        /\ \A i \in 0 .. n : nd[Place(s, i)].next = Place(s, i + 1) /\ nd[Place(s, i + 1)].prev = Place(s, i)
    BY DEF RingOf
  <1>3. q \in Nat /\ 1 <= q /\ q <= n /\ q - 1 \in 0 .. n /\ q \in 0 .. n /\ (q - 1) + 1 = q
    BY <1>1
  <1>4. nd[s[q]].prev = before /\ nd[s[q]].next = behind
    BY <1>1, <1>2, <1>3
  <1>5. DropsAt(Addresses, s, q, r)
    <2>1. RemoveFirst(s, s[q]) = r
      BY <1>2, RemoveFirstIs
    <2> QED
      BY <1>2, <2>1, RemovedGives
  <1>6. Rng(r) = Rng(s) \ {s[q]}
    BY <1>2, <1>5, DroppedRange
  <1>7. /\ r \in Seq(Addresses) /\ Len(r) = n - 1 /\ Injective(r)
        /\ \A i \in 1 .. n - 1 : r[i] = IF i < q THEN s[i] ELSE s[i + 1]
    BY <1>5 DEF DropsAt
  <1>8. /\ DOMAIN nd2 = DOMAIN nd \ {s[q]}
        /\ \A m \in DOMAIN nd \ {s[q]} :
             nd2[m] = [nd[m] EXCEPT !.prev = IF m = behind THEN before ELSE @,
                                    !.next = IF m = before THEN behind ELSE @]
    BY <1>4 DEF Unlinks
  <1> HIDE DEF r, before, behind
  <1>9. \A i \in 0 .. n : Place(r, i) = IF i < q THEN Place(s, i) ELSE Place(s, i + 1)
    <2> SUFFICES ASSUME NEW i \in 0 .. n
                 PROVE  Place(r, i) = IF i < q THEN Place(s, i) ELSE Place(s, i + 1)
      OBVIOUS
    <2>1. CASE i = 0
      <3>1. i < q /\ i \notin 1 .. Len(r) /\ i \notin 1 .. Len(s)
        BY <1>3, <1>7, <2>1
      <3> QED
        BY <3>1 DEF Place
    <2>2. CASE i = n
      <3>1. ~(i < q) /\ i \notin 1 .. Len(r) /\ i + 1 \notin 1 .. Len(s)
        BY <1>1, <1>3, <1>7, <2>2
      <3> QED
        BY <3>1 DEF Place
    <2>3. CASE i \in 1 .. n - 1
      <3>1. Place(r, i) = r[i] /\ i \in 1 .. Len(s) /\ i + 1 \in 1 .. Len(s)
        BY <1>1, <1>7, <2>3 DEF Place
      <3> QED
        BY <1>7, <2>3, <3>1 DEF Place
    <2> QED
      BY <1>1, <2>1, <2>2, <2>3
  <1>10. ASSUME NEW m \in DOMAIN nd \ {s[q]}
         PROVE  Relinked(nd, m, IF m = behind THEN before ELSE nd[m].prev,
                                IF m = before THEN behind ELSE nd[m].next, nd2[m])
    <2> DEFINE x == IF m = behind THEN before ELSE nd[m].prev
               y == IF m = before THEN behind ELSE nd[m].next
               d == nd2[m]
    <2>1. d = [nd[m] EXCEPT !.prev = x, !.next = y]
      BY <1>8
    <2>2. x \in Int /\ y \in Int
      <3>1. before \in Int /\ behind \in Int
        <4>1. s[q] \in DOMAIN nd
          BY <1>2 DEF Rng
        <4> QED
          BY <1>4, <4>1, LinksAreNumbers
      <3> QED
        BY <3>1, LinksAreNumbers
    <2> HIDE DEF x, y, d
    <2>3. Relinked(nd, m, x, y, d)
      BY <2>1, <2>2, NodeChanged
    <2> QED
      BY <2>3 DEF x, y, d
  <1>11. \A m \in DOMAIN nd \ {s[q]} : /\ nd2[m].prev = IF m = behind THEN before ELSE nd[m].prev
                                      /\ nd2[m].next = IF m = before THEN behind ELSE nd[m].next
    BY <1>10 DEF Relinked
  <1>12. /\ nd2[Head0] \in [prev : Int, next : Int]
         /\ \A i \in 1 .. n : i # q => /\ nd2[s[i]] \in [prev : Int, next : Int, value : Elements]
                                       /\ nd2[s[i]].value = nd[s[i]].value
    <2>1. /\ Head0 \in DOMAIN nd \ {s[q]}
          /\ \A i \in 1 .. n : i # q => s[i] \in DOMAIN nd \ {s[q]} /\ s[i] # Head0
      <3>1. \A i \in 1 .. n : i # q => s[i] # s[q]
        BY <1>2 DEF Injective
      <3> QED
        BY <1>1, <1>2, <3>1 DEF Rng
    <2> QED
      BY <1>10, <2>1 DEF Relinked
  <1>13. \A i \in 0 .. n + 1 : i # q => Place(s, i) \in DOMAIN nd \ {s[q]}
    <2> SUFFICES ASSUME NEW i \in 0 .. n + 1, i # q PROVE Place(s, i) # s[q]
      BY <1>1
    <2>1. CASE i = n + 1
      BY <1>1, <2>1
    <2>2. CASE i # n + 1
      <3>1. i \in 0 .. n
        BY <1>1, <2>2
      <3> QED
        BY <1>1, <1>3, <3>1
    <2> QED
      BY <2>1, <2>2
  <1>14. ASSUME NEW i \in 0 .. n - 1 PROVE nd2[Place(r, i)].next = Place(r, i + 1)
    <2>1. i \in 0 .. n /\ i + 1 \in 0 .. n /\ i + 1 \in 0 .. n + 1 /\ i \in 0 .. n + 1
      BY <1>1
    <2>2. CASE i < q - 1
      <3>1. i < q /\ i + 1 < q /\ i # q - 1 /\ i # q
        BY <1>3, <2>2
      <3>2. Place(r, i) = Place(s, i) /\ Place(r, i + 1) = Place(s, i + 1)
        BY <1>9, <2>1, <3>1
      <3>3. Place(s, i) \in DOMAIN nd \ {s[q]} /\ Place(s, i) # before
        BY <1>1, <1>3, <1>13, <2>1, <3>1 DEF before
      <3> QED
        BY <1>2, <1>11, <2>1, <3>2, <3>3
    <2>3. CASE i = q - 1
      <3>1. i < q /\ ~(i + 1 < q) /\ i # q /\ (i + 1) + 1 = q + 1
        BY <1>3, <2>3
      <3>2. Place(r, i) = before /\ Place(r, i + 1) = behind
        BY <1>9, <2>1, <2>3, <3>1 DEF before, behind
      <3>3. before \in DOMAIN nd \ {s[q]}
        BY <1>13, <2>1, <2>3, <3>1 DEF before
      <3> QED
        BY <1>11, <3>2, <3>3
    <2>4. CASE i >= q
      <3>1. ~(i < q) /\ ~(i + 1 < q) /\ i + 1 # q - 1 /\ i + 1 # q
        BY <1>3, <2>4
      <3>2. Place(r, i) = Place(s, i + 1) /\ Place(r, i + 1) = Place(s, (i + 1) + 1)
        BY <1>9, <2>1, <3>1
      <3>3. Place(s, i + 1) \in DOMAIN nd \ {s[q]} /\ Place(s, i + 1) # before
        BY <1>1, <1>3, <1>13, <2>1, <3>1 DEF before
      <3> QED
        BY <1>2, <1>11, <2>1, <3>2, <3>3
    <2> QED
      BY <1>3, <2>2, <2>3, <2>4
  <1>15. ASSUME NEW i \in 0 .. n - 1 PROVE nd2[Place(r, i + 1)].prev = Place(r, i)
    <2>1. i \in 0 .. n /\ i + 1 \in 0 .. n /\ i + 1 \in 0 .. n + 1 /\ i + 1 \in 1 .. n + 1
          /\ (i + 1) + 1 \in 0 .. n + 1 /\ (i + 1) + 1 \in 1 .. n + 1 /\ q + 1 \in 1 .. n + 1
      BY <1>1, <1>3
    <2>2. CASE i + 1 < q
      <3>1. i < q /\ i + 1 # q + 1 /\ i + 1 # q
        BY <1>3, <2>2
      <3>2. Place(r, i) = Place(s, i) /\ Place(r, i + 1) = Place(s, i + 1)
        BY <1>9, <2>1, <2>2, <3>1
      <3>3. Place(s, i + 1) \in DOMAIN nd \ {s[q]} /\ Place(s, i + 1) # behind
        BY <1>1, <1>3, <1>13, <2>1, <3>1 DEF behind
      <3> QED
        BY <1>2, <1>11, <2>1, <3>2, <3>3
    <2>3. CASE i + 1 = q
      <3>1. i < q /\ ~(i + 1 < q) /\ (i + 1) + 1 = q + 1 /\ q + 1 # q /\ q + 1 \in 0 .. n + 1 /\ i = q - 1
        BY <1>3, <2>1, <2>3
      <3>2. Place(r, i) = before /\ Place(r, i + 1) = behind
        BY <1>9, <2>1, <3>1 DEF before, behind
      <3>3. behind \in DOMAIN nd \ {s[q]}
        BY <1>13, <3>1 DEF behind
      <3> QED
        BY <1>11, <3>2, <3>3
    <2>4. CASE i >= q
      <3>1. ~(i < q) /\ ~(i + 1 < q) /\ (i + 1) + 1 # q /\ (i + 1) + 1 # q + 1
        BY <1>3, <2>4
      <3>2. Place(r, i) = Place(s, i + 1) /\ Place(r, i + 1) = Place(s, (i + 1) + 1)
        BY <1>9, <2>1, <3>1
      <3>3. Place(s, (i + 1) + 1) \in DOMAIN nd \ {s[q]} /\ Place(s, (i + 1) + 1) # behind
        BY <1>1, <1>3, <1>13, <2>1, <3>1 DEF behind
      <3> QED
        BY <1>2, <1>11, <2>1, <3>2, <3>3
    <2> QED
      BY <1>3, <2>2, <2>3, <2>4
  <1>16. \A i \in 1 .. Len(r) : nd2[r[i]] \in [prev : Int, next : Int, value : Elements]
    <2> SUFFICES ASSUME NEW i \in 1 .. n - 1
                 PROVE  nd2[r[i]] \in [prev : Int, next : Int, value : Elements]
      BY <1>7
    <2>1. i \in 1 .. n /\ i + 1 \in 1 .. n /\ (i < q => i # q) /\ (~(i < q) => i + 1 # q)
      BY <1>1, <1>3
    <2> QED
      BY <1>7, <1>12, <2>1
  <1>17. RingOf(nd2, r)
    <2>1. DOMAIN nd2 = Rng(r) \cup {Head0}
      BY <1>1, <1>2, <1>6, <1>8
    <2>2. 0 .. Len(r) = 0 .. n - 1
      BY <1>7
    <2> QED
      BY <1>7, <1>12, <1>14, <1>15, <1>16, <2>1, <2>2 DEF RingOf
  <1> QED
    BY <1>12, <1>17 DEF r

\* A ring has no more nodes than there are addresses, and a free one while it has fewer.
LEMMA RoomIs ==
  ASSUME NEW s \in Seq(Addresses), Injective(s)
  PROVE  /\ Len(s) <= MaxNodes
         /\ Len(s) < MaxNodes => \E a \in Addresses : a \notin Rng(s)
  <1> DEFINE n == Len(s)
             I == 1 .. n
  <1>1. n \in Nat /\ MaxNodes \in Nat /\ s \in [I -> Addresses]
    BY NodesAssumption
  <1>2. IsFiniteSet(I) /\ Cardinality(I) = n
    BY <1>1, FS_Interval
  <1>3. IsFiniteSet(Addresses) /\ Cardinality(Addresses) = MaxNodes
    BY <1>1, FS_Interval DEF Addresses
  <1>4. \A i, j \in I : s[i] = s[j] => i = j
    BY <1>1 DEF Injective
  <1>5. ASSUME n > MaxNodes PROVE FALSE
    <2>1. Cardinality(Addresses) < Cardinality(I)
      BY <1>1, <1>2, <1>3, <1>5
    <2> HIDE DEF I
    <2> QED
      BY <1>1, <1>2, <1>3, <1>4, <2>1, NotInto
  <1>6. ASSUME n < MaxNodes, \A a \in Addresses : a \in Rng(s) PROVE FALSE
    <2> DEFINE g == [a \in Addresses |-> CHOOSE j \in I : s[j] = a]
    <2>1. \A a \in Addresses : \E j \in I : s[j] = a
      BY <1>1, <1>6 DEF Rng
    <2>4. Cardinality(I) < Cardinality(Addresses)
      BY <1>1, <1>2, <1>3, <1>6
    <2> HIDE DEF I
    <2>2. \A a \in Addresses : g[a] \in I /\ s[g[a]] = a
      BY <2>1
    <2>3. g \in [Addresses -> I]
      BY <2>2
    <2> HIDE DEF g
    <2>5. \A x, y \in Addresses : g[x] = g[y] => x = y
      BY <2>2
    <2> QED
      BY <1>2, <1>3, <2>3, <2>4, <2>5, NotInto
  <1> QED
    BY <1>1, <1>5, <1>6

\* What is seen of a ring.
Shows(s) ==
  /\ Forward = s /\ size = Len(s) /\ Len(s) \in Nat
  /\ Listed \in Seq(Elements) /\ Len(Listed) = Len(s)
  /\ \A i \in 1 .. Len(s) : Listed[i] = node[s[i]].value

RingsShow == \A s : IsRing(s) => Shows(s)

\* A ring of nodes is seen as the sequence of their values.
LEMMA Shown == RingsShow
  <1> SUFFICES ASSUME NEW s, IsRing(s) PROVE Shows(s)
    BY DEF RingsShow
  <1>1. Forward = s /\ s \in Seq(Addresses) /\ DOMAIN s = 1 .. Len(s) /\ Len(s) \in Nat
    BY WalkIs DEF IsRing, RingOf
  <1>2. Listed = [i \in 1 .. Len(s) |-> node[s[i]].value] /\ size = Len(s)
    BY <1>1 DEF Listed, size
  <1>3. \A i \in 1 .. Len(s) : node[s[i]].value \in Elements
    <2>1. \A i \in 1 .. Len(s) : node[s[i]] \in [prev : Int, next : Int, value : Elements]
      BY DEF IsRing, RingOf
    <2> QED
      BY <2>1
  <1>4. Listed \in [1 .. Len(s) -> Elements]
    BY <1>2, <1>3
  <1>5. Listed \in Seq(Elements) /\ Len(Listed) = Len(s)
    BY <1>1, <1>4
  <1>6. \A i \in 1 .. Len(s) : Listed[i] = node[s[i]].value
    BY <1>2
  <1> QED
    BY <1>1, <1>2, <1>5, <1>6 DEF Shows

\* What is seen after a step that ends with the ring r.
LEMMA ShownNext ==
  ASSUME NEW r, RingOf(node', r)
  PROVE  /\ IsRing(r)' /\ Listed' \in Seq(Elements) /\ Len(Listed') = Len(r)
         /\ \A i \in 1 .. Len(r) : Listed'[i] = node'[r[i]].value
  <1>1. IsRing(r)'
    BY DEF IsRing
  <1>2. RingsShow'
    BY Shown, PTL
  <1>3. Shows(r)'
    BY <1>1, <1>2 DEF RingsShow
  <1> QED
    BY <1>1, <1>3 DEF Shows

\* A new node before place q puts its value there.
LEMMA LinkStep ==
  ASSUME NEW s, IsRing(s), NEW q \in 1 .. Len(s) + 1, NEW v \in Elements, NEW new \in Addresses,
         new \notin DOMAIN node, Links(node, node', Place(s, q - 1), Place(s, q), new, v)
  PROVE  IsRing(InsertAt(s, q, new))' /\ Listed' = InsertAt(Listed, q, v)
  <1> DEFINE n == Len(s)
             r == InsertAt(s, q, new)
             c == InsertAt(Listed, q, v)
  <1>1. RingOf(node, s) /\ s \in Seq(Addresses) /\ n \in Nat
    BY DEF IsRing, RingOf
  <1>2. /\ RingOf(node', r) /\ node'[new].value = v
        /\ \A i \in 1 .. n : node'[s[i]].value = node[s[i]].value
    <2> DEFINE nd2 == node'
    <2>1. Links(node, nd2, Place(s, q - 1), Place(s, q), new, v)
      OBVIOUS
    <2> HIDE DEF nd2
    <2>2. HasLinked(node, nd2, s, q, new, v)
      BY <1>1, <2>1, Linked
    <2> QED
      BY <2>2 DEF HasLinked, nd2
  <1>3. Listed \in Seq(Elements) /\ Len(Listed) = n /\ \A i \in 1 .. n : Listed[i] = node[s[i]].value
    BY Shown DEF RingsShow, Shows
  <1>4. /\ r \in Seq(Addresses) /\ Len(r) = n + 1
        /\ \A i \in 1 .. n + 1 : r[i] = IF i < q THEN s[i] ELSE IF i = q THEN new ELSE s[i - 1]
    <2>1. PutsAt(Addresses, s, q, new, r)
      BY <1>1, InsertAtGives
    <2> QED
      BY <2>1 DEF PutsAt
  <1>5. /\ c \in Seq(Elements) /\ Len(c) = n + 1
        /\ \A i \in 1 .. n + 1 : c[i] = IF i < q THEN Listed[i] ELSE IF i = q THEN v ELSE Listed[i - 1]
    <2>1. q \in 1 .. Len(Listed) + 1
      BY <1>3
    <2>2. PutsAt(Elements, Listed, q, v, c)
      BY <1>3, <2>1, InsertAtGives
    <2> QED
      BY <1>3, <2>2 DEF PutsAt
  <1> HIDE DEF r, c
  <1>6. /\ IsRing(r)' /\ Listed' \in Seq(Elements) /\ Len(Listed') = n + 1
        /\ \A i \in 1 .. n + 1 : Listed'[i] = node'[r[i]].value
    BY <1>2, <1>4, ShownNext
  <1>7. ASSUME NEW i \in 1 .. n + 1 PROVE Listed'[i] = c[i]
    <2>1. q \in Nat /\ (i < q => i \in 1 .. n) /\ (~(i < q) /\ i # q => i - 1 \in 1 .. n)
      BY <1>1
    <2>2. Listed'[i] = node'[r[i]].value
      BY <1>6
    <2>3. CASE i < q
      <3>1. r[i] = s[i] /\ c[i] = Listed[i]
        BY <1>4, <1>5, <2>3
      <3> QED
        BY <1>2, <1>3, <2>1, <2>2, <2>3, <3>1
    <2>4. CASE i = q
      <3>1. r[i] = new /\ c[i] = v
        BY <1>4, <1>5, <2>1, <2>4
      <3> QED
        BY <1>2, <2>2, <3>1
    <2>5. CASE ~(i < q) /\ i # q
      <3>1. r[i] = s[i - 1] /\ c[i] = Listed[i - 1]
        BY <1>4, <1>5, <2>5
      <3> QED
        BY <1>2, <1>3, <2>1, <2>2, <2>5, <3>1
    <2> QED
      BY <2>3, <2>4, <2>5
  <1>8. Listed' = c
    BY <1>5, <1>6, <1>7, SeqEqual
  <1> QED
    BY <1>6, <1>8 DEF r, c

\* The node at place q is deleted, and its value with it.
LEMMA UnlinkStep ==
  ASSUME NEW s, IsRing(s), NEW q \in 1 .. Len(s), unlink(s[q])
  PROVE  IsRing(RemoveAt(s, q))' /\ Listed' = RemoveAt(Listed, q)
  <1> DEFINE n == Len(s)
             r == RemoveAt(s, q)
             c == RemoveAt(Listed, q)
  <1>1. RingOf(node, s) /\ s \in Seq(Addresses) /\ n \in Nat
    BY DEF IsRing, RingOf
  <1>2. Unlinks(node, node', s[q])
    BY DEF unlink, Unlinks
  <1>3. RingOf(node', r) /\ \A i \in 1 .. n : i # q => node'[s[i]].value = node[s[i]].value
    BY <1>1, <1>2, Unlinked
  <1>4. Listed \in Seq(Elements) /\ Len(Listed) = n /\ \A i \in 1 .. n : Listed[i] = node[s[i]].value
    BY Shown DEF RingsShow, Shows
  <1>5. /\ r \in Seq(Addresses) /\ Len(r) = n - 1
        /\ \A i \in 1 .. n - 1 : r[i] = IF i < q THEN s[i] ELSE s[i + 1]
    BY <1>1, RemoveAtGives
  <1>6. /\ c \in Seq(Elements) /\ Len(c) = n - 1
        /\ \A i \in 1 .. n - 1 : c[i] = IF i < q THEN Listed[i] ELSE Listed[i + 1]
    <2>1. q \in 1 .. Len(Listed)
      BY <1>4
    <2> QED
      BY <1>4, <2>1, RemoveAtGives
  <1> HIDE DEF r, c
  <1>7. /\ IsRing(r)' /\ Listed' \in Seq(Elements) /\ Len(Listed') = n - 1
        /\ \A i \in 1 .. n - 1 : Listed'[i] = node'[r[i]].value
    BY <1>3, <1>5, ShownNext
  <1>8. ASSUME NEW i \in 1 .. n - 1 PROVE Listed'[i] = c[i]
    <2>1. q \in Nat /\ i \in 1 .. n /\ i + 1 \in 1 .. n /\ (i < q => i # q) /\ (~(i < q) => i + 1 # q)
      BY <1>1
    <2>2. Listed'[i] = node'[r[i]].value
      BY <1>7
    <2>3. CASE i < q
      <3>1. r[i] = s[i] /\ c[i] = Listed[i]
        BY <1>5, <1>6, <2>3
      <3> QED
        BY <1>3, <1>4, <2>1, <2>2, <2>3, <3>1
    <2>4. CASE ~(i < q)
      <3>1. r[i] = s[i + 1] /\ c[i] = Listed[i + 1]
        BY <1>5, <1>6, <2>4
      <3> QED
        BY <1>3, <1>4, <2>1, <2>2, <2>4, <3>1
    <2> QED
      BY <2>3, <2>4
  <1>9. Listed' = c
    BY <1>6, <1>7, <1>8, SeqEqual
  <1> QED
    BY <1>7, <1>9 DEF r, c

\* link takes a free address while there is room.
LEMMA LinkMaps ==
  ASSUME NEW s, IsRing(s), room, NEW q \in 1 .. Len(s) + 1, NEW v \in Elements,
         link(Place(s, q - 1), Place(s, q), v)
  PROVE  (\E t : IsRing(t)') /\ Listed' = InsertAt(Listed, q, v)
  <1> DEFINE X == 1 .. MaxNodes \ DOMAIN node
             w == CHOOSE a \in X : \A b \in X : a <= b
             after(a) == [m \in DOMAIN node \cup {a} |->
                           IF m = a THEN [prev |-> Place(s, q - 1), next |-> Place(s, q), value |-> v]
                           ELSE [node[m] EXCEPT !.prev = IF m = Place(s, q) THEN a ELSE @,
                                                !.next = IF m = Place(s, q - 1) THEN a ELSE @]]
  <1>1. /\ s \in Seq(Addresses) /\ Injective(s) /\ DOMAIN node = Rng(s) \cup {Head0}
        /\ Len(s) < MaxNodes
    BY Shown DEF IsRing, RingOf, RingsShow, Shows, room
  <1>2. X # {} /\ X \in SUBSET Nat
    <2>1. PICK a \in Addresses : a \notin Rng(s)
      BY <1>1, RoomIs
    <2>2. a \in 1 .. MaxNodes /\ a # Head0
      BY NodesAssumption DEF Addresses, Head0
    <2> QED
      BY <1>1, <2>1, <2>2, NodesAssumption
  <1>3. \E a \in X : \A b \in X : a <= b
    <2> HIDE DEF X
    <2> QED
      BY <1>2, LeastExists
  <1>4. w \in X /\ node' = after(w)
    BY <1>3 DEF link
  <1>5. PICK new : new = w
    OBVIOUS
  <1> HIDE DEF w
  <1>6. new \in Addresses /\ new \notin DOMAIN node
    BY <1>4, <1>5 DEF Addresses
  <1>7. node' = after(new)
    <2> HIDE DEF after
    <2> QED
      BY <1>4, <1>5
  <1>8. Links(node, node', Place(s, q - 1), Place(s, q), new, v)
    BY <1>6, <1>7 DEF Links
  <1>9. IsRing(InsertAt(s, q, new))' /\ Listed' = InsertAt(Listed, q, v)
    BY <1>6, <1>8, LinkStep
  <1> QED
    BY <1>9

\* What ListSpec calls by the names of SequencesExt.
LEMMA SamePlain ==
  ASSUME NEW T, NEW s \in Seq(T)
  PROVE  /\ \A i, e : Plain!InsertAt(s, i, e) = InsertAt(s, i, e)
         /\ \A i : Plain!RemoveAt(s, i) = RemoveAt(s, i)
  BY DEF Plain!InsertAt, InsertAt, Plain!RemoveAt, RemoveAt

\* What a step that leaves the nodes alone leaves of the list.
LEMMA SameNodes ==
  ASSUME NEW s, IsRing(s), UNCHANGED node
  PROVE  (\E t : IsRing(t)') /\ Listed' = Listed
  <1>1. RingOf(node', s)
    BY DEF IsRing
  <1>2. /\ IsRing(s)' /\ Listed' \in Seq(Elements) /\ Len(Listed') = Len(s)
        /\ \A i \in 1 .. Len(s) : Listed'[i] = node'[s[i]].value
    BY <1>1, ShownNext
  <1>3. /\ Listed \in Seq(Elements) /\ Len(Listed) = Len(s)
        /\ \A i \in 1 .. Len(s) : Listed[i] = node[s[i]].value
    BY Shown DEF RingsShow, Shows
  <1>4. Len(Listed') = Len(Listed) /\ \A i \in 1 .. Len(Listed') : Listed'[i] = Listed[i]
    BY <1>2, <1>3
  <1>5. Listed' = Listed
    BY <1>2, <1>3, <1>4, SeqEqual
  <1> QED
    BY <1>2, <1>5

\* The neighbours of a place.
LEMMA Neighbours ==
  ASSUME NEW s, IsRing(s)
  PROVE  /\ Len(s) \in Nat /\ Len(s) <= MaxNodes
         /\ Place(s, 0) = Head0 /\ Place(s, Len(s) + 1) = Head0
         /\ node[Head0].next = Place(s, 1) /\ node[Head0].prev = Place(s, Len(s))
         /\ \A i \in 1 .. Len(s) : Place(s, i) = s[i] /\ s[i] # Head0 /\ node[s[i]].prev = Place(s, i - 1)
  <1>1. RingOf(node, s) /\ s \in Seq(Addresses) /\ Injective(s)
    BY DEF IsRing, RingOf
  <1>2. /\ Len(s) \in Nat /\ Place(s, 0) = Head0 /\ Place(s, Len(s) + 1) = Head0
        /\ \A i \in 1 .. Len(s) : s[i] # Head0 /\ Place(s, i) = s[i]
    BY <1>1, PlacesDiffer
  <1>3. \A i \in 0 .. Len(s) : node[Place(s, i)].next = Place(s, i + 1) /\ node[Place(s, i + 1)].prev = Place(s, i)
    BY <1>1 DEF RingOf
  <1>4. node[Head0].next = Place(s, 1) /\ node[Head0].prev = Place(s, Len(s))
    <2>1. 0 \in 0 .. Len(s) /\ 0 + 1 = 1 /\ Len(s) \in 0 .. Len(s)
      BY <1>2
    <2> QED
      BY <1>2, <1>3, <2>1
  <1>5. ASSUME NEW i \in 1 .. Len(s) PROVE node[s[i]].prev = Place(s, i - 1)
    <2>1. i - 1 \in 0 .. Len(s) /\ (i - 1) + 1 = i
      BY <1>2
    <2> QED
      BY <1>2, <1>3, <2>1
  <1> QED
    BY <1>1, <1>2, <1>4, <1>5, RoomIs

\* What a step keeps, and what it does to the sequence.
Follows == (\E t : IsRing(t)') /\ Plain!Next

\* insertFirst inserts before index 0.
LEMMA FirstMaps ==
  ASSUME NEW s, IsRing(s), NEW v \in Elements, insertFirst(v)
  PROVE  Follows
  <1>1. /\ Len(s) \in Nat /\ Place(s, 0) = Head0 /\ node[Head0].next = Place(s, 1)
        /\ 1 \in 1 .. Len(s) + 1 /\ 1 - 1 = 0
    BY Neighbours
  <1>2. room /\ link(Place(s, 1 - 1), Place(s, 1), v) /\ listCall' = <<"insert", 0, v, TRUE>>
    BY <1>1 DEF insertFirst
  <1>3. (\E t : IsRing(t)') /\ Listed' = InsertAt(Listed, 1, v)
    BY <1>1, <1>2, LinkMaps
  <1>4. Plain!InsertAt(Listed, 1, v) = InsertAt(Listed, 1, v)
    BY Shown, SamePlain DEF RingsShow, Shows
  <1>5. Plain!Insert(0, v)
    <2>1. Plain!Before(0) = TRUE /\ 0 + 1 = 1
      BY DEF Plain!Before
    <2>2. listCall' = <<"insert", 0, v, Plain!Before(0)>>
      BY <1>2, <2>1
    <2> QED
      BY <1>3, <1>4, <2>1, <2>2 DEF Plain!Insert
  <1>6. 0 \in -1 .. MaxNodes
    BY NodesAssumption
  <1> QED
    BY <1>3, <1>5, <1>6 DEF Follows, Plain!Next

\* insertLast appends.
LEMMA LastMaps ==
  ASSUME NEW s, IsRing(s), NEW v \in Elements, insertLast(v)
  PROVE  Follows
  <1> DEFINE q == Len(s) + 1
  <1>1. Len(s) \in Nat /\ Place(s, q) = Head0 /\ node[Head0].prev = Place(s, Len(s))
    BY Neighbours
  <1>2. q \in 1 .. Len(s) + 1 /\ q - 1 = Len(s)
    BY <1>1
  <1> HIDE DEF q
  <1>3. room /\ link(Place(s, q - 1), Place(s, q), v) /\ listCall' = <<"insertLast", v>>
    BY <1>1, <1>2 DEF insertLast
  <1>4. (\E t : IsRing(t)') /\ Listed' = InsertAt(Listed, q, v)
    BY <1>2, <1>3, LinkMaps
  <1>5. Listed \in Seq(Elements) /\ Len(Listed) = Len(s)
    BY Shown DEF RingsShow, Shows
  <1>6. InsertAt(Listed, Len(Listed) + 1, v) = Append(Listed, v)
    BY <1>5, AtTheEnds
  <1>7. Plain!InsertLast(v)
    BY <1>3, <1>4, <1>5, <1>6 DEF Plain!InsertLast, q
  <1> QED
    BY <1>4, <1>7 DEF Follows, Plain!Next

\* insert before another index, or at one that has no node.
LEMMA InsertsMaps ==
  ASSUME NEW s, IsRing(s), NEW v \in Elements, NEW index \in -1 .. MaxNodes, insert(index, v)
  PROVE  Follows
  <1>1. Listed \in Seq(Elements) /\ Len(Listed) = Len(s) /\ Len(s) \in Nat
    BY Shown DEF RingsShow, Shows
  <1>2. /\ index \in 0 .. Len(s) - 1 => getNode(index) = s[index + 1] /\ s[index + 1] # Head0
        /\ index \notin 0 .. Len(s) - 1 => getNode(index) = Head0
    BY NodesAssumption, GetNodeIs
  <1>3. index # 0 /\ (Plain!Before(index) <=> index \in 0 .. Len(s) - 1)
    <2>1. index # 0
      BY DEF insert
    <2>2. Plain!Before(index) <=> index \in 1 .. Len(Listed) - 1
      BY <2>1 DEF Plain!Before
    <2> QED
      BY <1>1, <2>1, <2>2, NodesAssumption
  <1>4. CASE index \in 0 .. Len(s) - 1
    <2> DEFINE q == index + 1
    <2>1. q \in 1 .. Len(s) + 1 /\ q \in 1 .. Len(s)
      BY <1>1, <1>4
    <2>2. getNode(index) = s[q] /\ s[q] # Head0 /\ Plain!Before(index)
      BY <1>2, <1>3, <1>4
    <2> HIDE DEF q
    <2>3. Place(s, q) = s[q] /\ node[s[q]].prev = Place(s, q - 1)
      BY <2>1, Neighbours
    <2>4. room /\ link(Place(s, q - 1), Place(s, q), v) /\ listCall' = <<"insert", index, v, TRUE>>
      BY <2>2, <2>3 DEF insert
    <2>5. (\E t : IsRing(t)') /\ Listed' = InsertAt(Listed, q, v)
      BY <2>1, <2>4, LinkMaps
    <2>6. Plain!InsertAt(Listed, q, v) = InsertAt(Listed, q, v)
      BY <1>1, SamePlain
    <2>7. Plain!Insert(index, v)
      BY <2>2, <2>4, <2>5, <2>6 DEF Plain!Insert, q
    <2> QED
      BY <2>5, <2>7 DEF Follows, Plain!Next
  <1>5. CASE index \notin 0 .. Len(s) - 1
    <2>1. UNCHANGED node /\ listCall' = <<"insert", index, v, FALSE>> /\ ~Plain!Before(index)
      BY <1>2, <1>3, <1>5 DEF insert
    <2>2. (\E t : IsRing(t)') /\ Listed' = Listed
      BY <2>1, SameNodes
    <2>3. Plain!Insert(index, v)
      <3>1. Plain!Before(index) = FALSE
        BY <2>1 DEF Plain!Before
      <3>2. listCall' = <<"insert", index, v, Plain!Before(index)>>
        BY <2>1, <3>1
      <3> QED
        BY <2>1, <2>2, <3>2 DEF Plain!Insert
    <2> QED
      BY <2>2, <2>3 DEF Follows, Plain!Next
  <1> QED
    BY <1>4, <1>5

\* remove at an index, with or without a node there.
LEMMA RemoveMaps ==
  ASSUME NEW s, IsRing(s), NEW index \in -1 .. MaxNodes, remove(index)
  PROVE  Follows
  <1>1. Listed \in Seq(Elements) /\ Len(Listed) = Len(s) /\ Len(s) \in Nat
    BY Shown DEF RingsShow, Shows
  <1>2. /\ index \in 0 .. Len(s) - 1 => getNode(index) = s[index + 1] /\ s[index + 1] # Head0
        /\ index \notin 0 .. Len(s) - 1 => getNode(index) = Head0
    BY NodesAssumption, GetNodeIs
  <1>3. CASE index \in 0 .. Len(s) - 1
    <2> DEFINE q == index + 1
    <2>1. q \in 1 .. Len(s) /\ index \in 0 .. Len(Listed) - 1
      BY <1>1, <1>3
    <2>2. getNode(index) = s[q] /\ s[q] # Head0
      BY <1>2, <1>3
    <2> HIDE DEF q
    <2>3. unlink(s[q]) /\ listCall' = <<"remove", index, TRUE>>
      BY <2>2 DEF remove
    <2>4. IsRing(RemoveAt(s, q))' /\ Listed' = RemoveAt(Listed, q)
      BY <2>1, <2>3, UnlinkStep
    <2>5. Plain!RemoveAt(Listed, q) = RemoveAt(Listed, q)
      BY <1>1, SamePlain
    <2>6. Plain!Delete(index)
      BY <2>1, <2>3, <2>4, <2>5 DEF Plain!Delete, q
    <2> QED
      BY <2>4, <2>6 DEF Follows, Plain!Next
  <1>4. CASE index \notin 0 .. Len(s) - 1
    <2>1. UNCHANGED node /\ listCall' = <<"remove", index, FALSE>> /\ index \notin 0 .. Len(Listed) - 1
      BY <1>1, <1>2, <1>4 DEF remove
    <2>2. (\E t : IsRing(t)') /\ Listed' = Listed
      BY <2>1, SameNodes
    <2>3. Plain!Delete(index)
      <3>1. (index \in 0 .. Len(Listed) - 1) = FALSE
        BY <2>1
      <3>2. listCall' = <<"remove", index, index \in 0 .. Len(Listed) - 1>>
        BY <2>1, <3>1, Zenon
      <3> QED
        BY <2>1, <2>2, <3>2 DEF Plain!Delete
    <2> QED
      BY <2>2, <2>3 DEF Follows, Plain!Next
  <1> QED
    BY <1>3, <1>4

\* pop takes the first element and returns it, if there is one.
LEMMA PopMaps ==
  ASSUME NEW s, IsRing(s), pop
  PROVE  Follows
  <1>1. /\ Listed \in Seq(Elements) /\ Len(Listed) = Len(s) /\ Len(s) \in Nat
        /\ \A i \in 1 .. Len(s) : Listed[i] = node[s[i]].value
    BY Shown DEF RingsShow, Shows
  <1>2. /\ 0 \in 0 .. Len(s) - 1 => getNode(0) = s[0 + 1] /\ s[0 + 1] # Head0
        /\ 0 \notin 0 .. Len(s) - 1 => getNode(0) = Head0
    BY GetNodeIs
  <1>3. CASE Len(s) > 0
    <2>1. 0 \in 0 .. Len(s) - 1 /\ 0 + 1 = 1 /\ 1 \in 1 .. Len(s)
      BY <1>1, <1>3
    <2>2. Listed # <<>> /\ Head(Listed) = Listed[1]
      BY <1>1, <1>3
    <2>3. getNode(0) = s[1] /\ s[1] # Head0 /\ get(0) = << Listed[1] >>
      BY <1>1, <1>2, <2>1 DEF get
    <2>4. unlink(s[1]) /\ listCall' = <<"pop", << Head(Listed) >> >>
      BY <2>2, <2>3 DEF pop
    <2>5. IsRing(RemoveAt(s, 1))' /\ Listed' = RemoveAt(Listed, 1)
      BY <2>1, <2>4, UnlinkStep
    <2>6. RemoveAt(Listed, 1) = Tail(Listed)
      BY <1>1, <2>2, AtTheEnds
    <2>7. Plain!Pop
      BY <2>2, <2>4, <2>5, <2>6 DEF Plain!Pop
    <2> QED
      BY <2>5, <2>7 DEF Follows, Plain!Next
  <1>4. CASE ~(Len(s) > 0)
    <2>1. 0 \notin 0 .. Len(s) - 1 /\ Listed = <<>>
      BY <1>1, <1>4
    <2>2. UNCHANGED node /\ listCall' = <<"pop", <<>> >>
      BY <1>2, <2>1 DEF pop, get
    <2>3. (\E t : IsRing(t)') /\ Listed' = Listed
      BY <2>2, SameNodes
    <2>4. Plain!Pop
      BY <2>1, <2>2, <2>3 DEF Plain!Pop
    <2> QED
      BY <2>3, <2>4 DEF Follows, Plain!Next
  <1> QED
    BY <1>3, <1>4

\* The list is a ring in some order.
ListInv == \E s : IsRing(s)

\* The head alone is a ring.
LEMMA ListBegins == dllInit => ListInv /\ Plain!Init
  <1> SUFFICES ASSUME dllInit PROVE ListInv /\ Plain!Init
    OBVIOUS
  <1> DEFINE s == << >>
  <1>1. s \in Seq(Addresses) /\ Len(s) = 0 /\ Injective(s) /\ Rng(s) = {}
    BY DEF Injective, Rng
  <1>2. Place(s, 0) = Head0 /\ Place(s, 1) = Head0
    BY <1>1 DEF Place
  <1>3. DOMAIN node = {Head0} /\ node[Head0] = [prev |-> Head0, next |-> Head0] /\ Head0 \in Int
    BY DEF dllInit, Head0
  <1> HIDE DEF s
  <1>4. IsRing(s)
    <2>1. \A i \in 0 .. Len(s) : i = 0 /\ i + 1 = 1
      BY <1>1
    <2> QED
      BY <1>1, <1>2, <1>3, <2>1 DEF IsRing, RingOf
  <1>5. Listed \in Seq(Elements) /\ Len(Listed) = 0
    BY <1>1, <1>4, Shown DEF RingsShow, Shows
  <1>6. Listed = <<>> /\ listCall = <<>>
    BY <1>5 DEF dllInit
  <1> QED
    BY <1>4, <1>6 DEF ListInv, Plain!Init

\* Every call keeps the ring and is a call of ListSpec.
LEMMA ListContinues ==
  ListInv /\ [dllNext]_dllVars => ListInv' /\ [Plain!Next]_<<Listed, listCall>>
  <1> SUFFICES ASSUME ListInv, [dllNext]_dllVars
               PROVE  ListInv' /\ [Plain!Next]_<<Listed, listCall>>
    OBVIOUS
  <1>1. PICK s : IsRing(s)
    BY DEF ListInv
  <1>2. CASE UNCHANGED dllVars
    <2>1. UNCHANGED node /\ UNCHANGED listCall
      BY <1>2 DEF dllVars
    <2>2. (\E t : IsRing(t)') /\ Listed' = Listed
      BY <1>1, <2>1, SameNodes
    <2> QED
      BY <2>1, <2>2 DEF ListInv
  <1>3. CASE dllNext
    <2>1. Follows
      <3>1. ASSUME NEW v \in Elements, insertFirst(v) PROVE Follows
        BY <1>1, <3>1, FirstMaps
      <3>2. ASSUME NEW v \in Elements, insertLast(v) PROVE Follows
        BY <1>1, <3>2, LastMaps
      <3>3. ASSUME NEW v \in Elements, NEW index \in -1 .. MaxNodes, insert(index, v) PROVE Follows
        BY <1>1, <3>3, InsertsMaps
      <3>4. ASSUME NEW index \in -1 .. MaxNodes, remove(index) PROVE Follows
        BY <1>1, <3>4, RemoveMaps
      <3>5. CASE removeLast
        <4>1. size = Len(s) /\ Len(s) \in Nat /\ Len(s) <= MaxNodes
          BY <1>1, Shown, Neighbours DEF RingsShow, Shows
        <4>2. size - 1 \in -1 .. MaxNodes
          BY <4>1, NodesAssumption
        <4> QED
          BY <3>4, <3>5, <4>2 DEF removeLast
      <3>6. CASE pop
        BY <1>1, <3>6, PopMaps
      <3> QED
        BY <1>3, <3>1, <3>2, <3>3, <3>4, <3>5, <3>6 DEF dllNext
    <2> QED
      BY <2>1 DEF Follows, ListInv
  <1> QED
    BY <1>2, <1>3

\* A ring reads the same in both directions, and by index.
LEMMA RingsAreRings == ListInv => Ring /\ Indexed
  <1> SUFFICES ASSUME NEW s, IsRing(s) PROVE Ring /\ Indexed
    BY DEF ListInv
  <1>1. RingOf(node, s) /\ s \in Seq(Addresses) /\ DOMAIN node = Rng(s) \cup {Head0}
    BY DEF IsRing, RingOf
  <1>2. /\ Forward = s /\ size = Len(s) /\ Len(s) \in Nat
        /\ \A i \in 1 .. Len(s) : Listed[i] = node[s[i]].value
    BY Shown DEF RingsShow, Shows
  <1>3. /\ Place(s, 0) = Head0 /\ Place(s, Len(s) + 1) = Head0
        /\ \A m \in DOMAIN node : \E i \in 0 .. Len(s) : m = Place(s, i)
    BY <1>1, PlacesDiffer
  <1>4. \A i \in 0 .. Len(s) : node[Place(s, i)].next = Place(s, i + 1) /\ node[Place(s, i + 1)].prev = Place(s, i)
    BY <1>1 DEF RingOf
  <1>5. ASSUME NEW m \in DOMAIN node
        PROVE  node[node[m].next].prev = m /\ node[node[m].prev].next = m
    <2>1. PICK i \in 0 .. Len(s) : m = Place(s, i)
      BY <1>3
    <2>2. node[node[m].next].prev = m
      BY <1>4, <2>1
    <2>3. PICK j \in 0 .. Len(s) : m = Place(s, j + 1)
      <3>1. CASE i = 0
        BY <1>2, <1>3, <2>1, <3>1
      <3>2. CASE i # 0
        <4>1. i - 1 \in 0 .. Len(s) /\ (i - 1) + 1 = i
          BY <1>2, <3>2
        <4> QED
          BY <2>1, <4>1
      <3> QED
        BY <3>1, <3>2
    <2>4. node[node[m].prev].next = m
      BY <1>4, <2>3
    <2> QED
      BY <2>2, <2>4
  <1>6. ToSet(Forward) = Rng(s)
    BY <1>1, <1>2 DEF ToSet, Rng
  <1>7. ASSUME NEW index \in -1 .. MaxNodes
        PROVE  get(index) = IF index \in 0 .. size - 1 THEN << Listed[index + 1] >> ELSE <<>>
    <2>1. /\ index \in 0 .. Len(s) - 1 => getNode(index) = s[index + 1] /\ s[index + 1] # Head0
          /\ index \notin 0 .. Len(s) - 1 => getNode(index) = Head0
      BY NodesAssumption, GetNodeIs
    <2>2. index \in 0 .. Len(s) - 1 => index + 1 \in 1 .. Len(s)
      BY <1>2, NodesAssumption
    <2> QED
      BY <1>2, <2>1, <2>2 DEF get
  <1> QED
    BY <1>1, <1>5, <1>6, <1>7 DEF Ring, Indexed

\* The ring of nodes of linear.cpp, its links changed two nodes at a time, implements the
\* sequence of ListSpec: each call does to the sequence what it says and answers as it
\* should, no node is lost or linked twice, and both directions agree, whatever the number
\* of nodes.
THEOREM ListImplements == dllSpec => ListIsASequence
  <1>1. dllInit => ListInv /\ Plain!Init
    BY ListBegins
  <1>2. ListInv /\ [dllNext]_dllVars => ListInv' /\ [Plain!Next]_<<Listed, listCall>>
    BY ListContinues
  <1>3. ListInv => Ring /\ Indexed
    BY RingsAreRings
  <1> QED
    BY <1>1, <1>2, <1>3, PTL DEF dllSpec, ListIsASequence
===============================================================================
