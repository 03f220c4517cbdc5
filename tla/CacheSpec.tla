------------------------------- MODULE CacheSpec -------------------------------
(***************************************************************************)
(* What the caches of data_structure/include/cache.hpp promise: at most    *)
(* Capacity elements, and a full cache gives up the one its policy names,  *)
(*   FIFO  the element inserted first,                                     *)
(*   LRU   the one not used for the longest time,                          *)
(*   LFU   the least used one, and of several the one not used for the     *)
(*         longest time.                                                   *)
(***************************************************************************)
EXTENDS Naturals, SequencesExt

CONSTANTS Keys, Values, Capacity

VARIABLES
  policy,    \* "FIFO", "LRU" or "LFU", for ever
  recency,   \* the cached keys, from the least to the most recently used
  value,     \* the value of each cached key
  uses,      \* how often each cached key was used (LFU)
  size,      \* what size() returns
  result     \* the last operation and what it returned

vars == <<policy, recency, value, uses, size, result>>

Policies == {"FIFO", "LRU", "LFU"}

Cached == Range(recency)

Init ==
  /\ policy \in Policies
  /\ recency = <<>> /\ value = <<>> /\ uses = <<>> /\ size = 0 /\ result = <<>>

\* The element to give up: the first of the candidates.
Candidate(k) == policy = "LFU" => \A j \in Cached : uses[k] <= uses[j]
Victim == recency[SelectInSeq(recency, Candidate)]

Use(k) ==
  /\ recency' = IF policy = "FIFO" THEN recency ELSE Append(RemoveFirst(recency, k), k)
  /\ uses' = IF policy = "LFU" THEN [uses EXCEPT ![k] = @ + 1] ELSE uses

Insert(k, v) ==
  /\ k \notin Cached
  /\ LET kept == IF Len(recency) < Capacity THEN recency ELSE RemoveFirst(recency, Victim)
         with(f, x) == [j \in Range(kept) \cup {k} |-> IF j = k THEN x ELSE f[j]]
     IN /\ recency' = Append(kept, k)
        /\ value' = with(value, v)
        /\ uses' = with(uses, 1)
  /\ result' = <<"insert">>

Update(k, v) ==
  /\ k \in Cached
  /\ value' = [value EXCEPT ![k] = v]
  /\ Use(k)
  /\ result' = <<"insert">>

Erase(k) ==
  /\ recency' = RemoveFirst(recency, k)
  /\ value' = Restrict(value, Cached \ {k})
  /\ uses' = Restrict(uses, Cached \ {k})
  /\ result' = <<"erase", k \in Cached>>

\* A peek is not a use.
Find(k, peek) ==
  /\ IF k \in Cached /\ ~peek THEN Use(k) ELSE UNCHANGED <<recency, uses>>
  /\ result' = IF k \notin Cached THEN <<"find", peek>>
               ELSE IF policy = "LFU" THEN <<"find", peek, value[k], uses'[k]>>
               ELSE <<"find", peek, value[k]>>
  /\ UNCHANGED value

Next ==
  /\ \E k \in Keys :
       \/ Erase(k)
       \/ \E v \in Values : Insert(k, v) \/ Update(k, v)
       \/ \E peek \in BOOLEAN : Find(k, peek)
  /\ size' = Len(recency')
  /\ UNCHANGED policy

Spec == Init /\ [][Next]_vars
================================================================================
