--------------------------------- MODULE Heaps ---------------------------------
(***************************************************************************)
(* data_structure::heap (heap.cpp).  The binary heap is an array: element  *)
(* i of the code is heaps[i + 1] here, and the array ends at size, as an   *)
(* element behind it is written before it is read.  The leftist and the    *)
(* skew heap are two heaps that are inserted into, emptied from the        *)
(* minimum on, and merged into one another.  Such a heap is a value: Null  *)
(* or a node; npl is the null path length of a leftist node.               *)
(***************************************************************************)
EXTENDS Naturals, SequencesExt

CONSTANTS Kind,       \* "binary", "leftist" or "skew"
          Numbers,    \* the keys
          MaxNodes    \* capacity of the binary heap; bound: nodes of both other heaps

VARIABLES heaps, call

vars == <<heaps, call>>

--------------------------------------------------------------------------------
(* The binary heap. *)

BinaryInit == heaps = <<>> /\ call = <<>>

Parent(i) == i \div 2

\* The key moves up while it is smaller than its parent.
filterUp(a, start) ==
  LET up[i \in 1 .. start, b \in Seq(Numbers)] ==
        IF i = 1 \/ b[i] >= b[Parent(i)] THEN b
        ELSE up[Parent(i), [b EXCEPT ![i] = b[Parent(i)], ![Parent(i)] = b[i]]]
  IN up[start, a]

\* The key moves down while it is greater than its smaller child.
filterDown(a, start) ==
  LET end == Len(a)
      selected(i, b) == IF 2 * i < end /\ b[2 * i] > b[2 * i + 1] THEN 2 * i + 1 ELSE 2 * i
      sink[i \in 1 .. end + 1, b \in Seq(Numbers)] ==
        LET c == selected(i, b)
        IN IF 2 * i > end THEN b
           ELSE IF b[i] <= b[c] THEN b
           ELSE sink[c, [b EXCEPT ![i] = b[c], ![c] = b[i]]]
  IN sink[start, a]

binaryInsert(k) ==
  \/ /\ Len(heaps) < MaxNodes
     /\ heaps' = filterUp(Append(heaps, k), Len(heaps) + 1)
     /\ call' = <<"insert", 1, k>>
  \/ /\ Len(heaps) >= MaxNodes
     /\ UNCHANGED heaps
     /\ call' = <<"refused", 1, k>>

\* The first element with the key; 0 stands for -1.
getIndex(k) == SelectInSeq(heaps, LAMBDA j : j = k)

\* The last element takes the place of the removed one and moves down.
binaryRemove(k) ==
  /\ heaps' = IF getIndex(k) = 0 THEN heaps
              ELSE filterDown(Front([heaps EXCEPT ![getIndex(k)] = Last(heaps)]), getIndex(k))
  /\ call' = <<"remove", 1, k>>

BinaryNext == \E k \in Numbers : binaryInsert(k) \/ binaryRemove(k)

--------------------------------------------------------------------------------
(* The leftist and the skew heap. *)

Null == <<>>

Init == heaps = [h \in 1 .. 2 |-> Null] /\ call = <<>>

createNode(k) == [key |-> k, left |-> Null, right |-> Null, npl |-> 0]

\* The shorter null path goes to the right.
leftist(d, merged) ==
  LET swap == d.left = Null \/ d.left.npl < merged.npl
      l == IF swap THEN merged ELSE d.left
      r == IF swap THEN d.left ELSE merged
  IN [key |-> d.key, left |-> l, right |-> r,
      npl |-> IF r = Null THEN 0
              ELSE IF r.npl < l.npl THEN r.npl + 1 ELSE l.npl + 1]

\* The children always change places.
skew(d, merged) == [d EXCEPT !.left = merged, !.right = d.left]

RECURSIVE mergeNode(_, _)
mergeNode(d, s) ==
  IF d = Null THEN s
  ELSE IF s = Null THEN d
  ELSE LET top == IF d.key > s.key THEN s ELSE d
           other == IF d.key > s.key THEN d ELSE s
           merged == mergeNode(top.right, other)
       IN IF Kind = "leftist" THEN leftist(top, merged) ELSE skew(top, merged)

RECURSIVE KeysOf(_)
KeysOf(t) == IF t = Null THEN <<>> ELSE <<t.key>> \o KeysOf(t.left) \o KeysOf(t.right)

insert(h, k) ==
  /\ Len(KeysOf(heaps[1])) + Len(KeysOf(heaps[2])) < MaxNodes
  /\ heaps' = [heaps EXCEPT ![h] = mergeNode(@, createNode(k))]
  /\ call' = <<"insert", h, k>>

remove(h) ==
  /\ heaps' = [heaps EXCEPT ![h] = IF @ = Null THEN Null ELSE mergeNode(@.left, @.right)]
  /\ call' = <<"removeMinimum", h>>

\* A heap is merged into another one, never into itself.
merge(d, s) ==
  /\ d # s
  /\ heaps' = [heaps EXCEPT ![d] = mergeNode(heaps[d], heaps[s]), ![s] = Null]
  /\ call' = <<"merge", d, s>>

Next ==
  \E h \in 1 .. 2 :
    \/ remove(h)
    \/ \E k \in Numbers : insert(h, k)
    \/ \E s \in 1 .. 2 : merge(h, s)

--------------------------------------------------------------------------------
\* "The binary heap (min heap).": every element is at least as great as its parent.
MinHeap == \A i \in 2 .. Len(heaps) : heaps[Parent(i)] <= heaps[i]

\* A call keeps the heap in order, with exactly one exception: remove only filters down,
\* and leaves a last element that is smaller than the parent of its new place there.
KeepsTheOrder ==
  LET i == getIndex(call'[3])
      misplaced == call'[1] = "remove" /\ i > 1 /\ Last(heaps) < heaps[Parent(i)]
  IN MinHeap => (MinHeap' <=> ~misplaced)

RECURSIVE HasShape(_)
HasShape(t) ==
  t # Null =>
    /\ HasShape(t.left) /\ HasShape(t.right)
    /\ \A c \in {t.left, t.right} \ {Null} : t.key <= c.key
    /\ Kind = "leftist" =>
         /\ t.left = Null => t.right = Null
         /\ t.right # Null => t.right.npl <= t.left.npl
         /\ t.npl = IF t.right = Null THEN 0 ELSE t.right.npl + 1

\* Every node is a minimum of its subtree; the right path of a leftist heap is the
\* shortest one, and its length the one stored.
Shaped == \A h \in 1 .. 2 : HasShape(heaps[h])

BinaryAbstract == INSTANCE SortedBags WITH
  Objects <- {1}, Duplicates <- TRUE, Limit <- MaxNodes, keys <- <<SortSeq(heaps, <)>>

Abstract == INSTANCE SortedBags WITH
  Objects <- 1 .. 2, Duplicates <- TRUE, Limit <- MaxNodes,
  keys <- [h \in 1 .. 2 |-> SortSeq(KeysOf(heaps[h]), <)]
================================================================================
