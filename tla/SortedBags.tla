------------------------------ MODULE SortedBags ------------------------------
(***************************************************************************)
(* What the trees and heaps of data_structure promise: bags of keys, kept  *)
(* in order, that keys are inserted into and removed from.                 *)
(***************************************************************************)
EXTENDS Naturals, SequencesExt

CONSTANTS Numbers,      \* the keys
          Objects,      \* the trees or heaps
          Duplicates,   \* a key may be present more than once
          Limit         \* the keys an object may hold

VARIABLES keys,   \* the keys of each object, in ascending order
          call    \* the last call

vars == <<keys, call>>

Init == keys = [o \in Objects |-> <<>>] /\ call = <<>>

Put(s, k) == SelectSeq(s, LAMBDA j : j <= k) \o <<k>> \o SelectSeq(s, LAMBDA j : j > k)

Insert(o, k) ==
  /\ Len(keys[o]) < Limit
  /\ keys' = IF ~Duplicates /\ Contains(keys[o], k) THEN keys
             ELSE [keys EXCEPT ![o] = Put(@, k)]
  /\ call' = <<"insert", o, k>>

Refuse(o, k) == Len(keys[o]) >= Limit /\ UNCHANGED keys /\ call' = <<"refused", o, k>>

\* One occurrence of the key is removed, if there is one.
Delete(o, k) ==
  /\ keys' = [keys EXCEPT ![o] = RemoveFirst(@, k)]
  /\ call' = <<"remove", o, k>>

RemoveMinimum(o) ==
  /\ keys' = [keys EXCEPT ![o] = IF @ = <<>> THEN @ ELSE Tail(@)]
  /\ call' = <<"removeMinimum", o>>

Merge(d, s) ==
  /\ d # s
  /\ keys' = [keys EXCEPT ![d] = FoldLeft(Put, @, keys[s]), ![s] = <<>>]
  /\ call' = <<"merge", d, s>>

Splay(o, k) == UNCHANGED keys /\ call' = <<"splay", o, k>>

Next ==
  \E o \in Objects :
    \/ RemoveMinimum(o)
    \/ \E k \in Numbers : Insert(o, k) \/ Refuse(o, k) \/ Delete(o, k) \/ Splay(o, k)
    \/ \E s \in Objects : Merge(o, s)

Spec == Init /\ [][Next]_vars
================================================================================
