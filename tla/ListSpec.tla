-------------------------------- MODULE ListSpec --------------------------------
(***************************************************************************)
(* What the lists of data_structure/source/linear.cpp promise: a sequence  *)
(* with insertion before and removal at an index from 0 on.                *)
(***************************************************************************)
EXTENDS Integers, SequencesExt

CONSTANTS Values, MaxNodes

VARIABLES list, call

Init == list = <<>> /\ call = <<>>

Before(index) == index = 0 \/ index \in 1 .. Len(list) - 1

Insert(index, v) ==
  /\ list' = IF Before(index) THEN InsertAt(list, index + 1, v) ELSE list
  /\ call' = <<"insert", index, v, Before(index)>>

InsertLast(v) == list' = Append(list, v) /\ call' = <<"insertLast", v>>

Delete(index) ==
  LET present == index \in 0 .. Len(list) - 1
  IN /\ list' = IF present THEN RemoveAt(list, index + 1) ELSE list
     /\ call' = <<"remove", index, present>>

Pop ==
  /\ list' = IF list = <<>> THEN list ELSE Tail(list)
  /\ call' = <<"pop", IF list = <<>> THEN <<>> ELSE <<Head(list)>> >>

Next ==
  \/ \E v \in Values : InsertLast(v) \/ \E index \in -1 .. MaxNodes : Insert(index, v)
  \/ Pop \/ \E index \in -1 .. MaxNodes : Delete(index)

Spec == Init /\ [][Next]_<<list, call>>
================================================================================
