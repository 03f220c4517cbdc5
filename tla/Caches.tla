--------------------------------- MODULE Caches ---------------------------------
(***************************************************************************)
(* data_structure::cache (cache.hpp): the caches FIFO, LRU and LFU.  Each  *)
(* has a list of slots and a map from keys to slots.                       *)
(*   FIFO  The list begins with the unused slots and goes on with the used *)
(*         ones, the oldest first; an unused slot has no key.              *)
(*   LRU   The list begins with the used slots, the last used first, and   *)
(*         goes on with the unused ones from listEnd, whose keys and       *)
(*         values are stale.                                               *)
(*   LFU   The same, but in any order; a multimap from use counts to slots *)
(*         has an entry for each used slot, its lfuPosition.               *)
(* A behaviour is one of the cache that kind names.  The calls on ranges   *)
(* are the calls on their elements, one after the other.                   *)
(***************************************************************************)
EXTENDS Naturals, SequencesExt

(* std::list as the caches use it: a sequence of nodes that never repeats one.  An
   iterator is the node it points to, or End; splice moves a node and leaves every
   iterator where it is. *)
End == 0

position(list, it) == IF it = End THEN Len(list) + 1
                      ELSE SelectInSeq(list, LAMBDA node : node = it)

at(list, i) == IF i <= Len(list) THEN list[i] ELSE End
begin(list) == at(list, 1)
next(list, it) == at(list, position(list, it) + 1)
prev(list, it) == at(list, position(list, it) - 1)

\* list.splice(before, list, node).
splice(list, before, node) ==
  LET rest == RemoveFirst(list, node)
  IN IF before = node THEN list ELSE InsertAt(rest, position(rest, before), node)

--------------------------------------------------------------------------------
CONSTANTS Keys, Values, Capacity,
          NoKey,          \* keyedPosition without a value
          DefaultValue,   \* Value{}
          MaxUses         \* bound: uses of an element of LFU

\* A cache has a slot at least: insert into one without would be undefined.
ASSUME CacheAssumption == Capacity \in Nat \ {0} /\ NoKey \notin Keys /\ MaxUses \in Nat

VARIABLES
  kind,
  list,            \* fifoList, lruList or openSlotList: the order of the slots
  listEnd,         \* lruListEnd or openSlotListEnd: iterator to the first unused slot
  key,             \* keyedPosition of each slot: its key
  value,           \* value of each slot
  keyedElements,   \* the slot of each key
  usedSize,
  lfuList,         \* the entries <<count, slot>> of the multimap
  recent,          \* history of LFU: the cached keys, the most recently used one last
  call             \* the last call and what it returned

vars == <<kind, list, listEnd, key, value, keyedElements, usedSize, lfuList, recent, call>>

Slots == 1 .. Capacity

\* FIFO has no end of its list to keep; it is left alone.
Init ==
  /\ kind \in {"FIFO", "LRU", "LFU"}
  /\ list = [i \in Slots |-> i]
  /\ listEnd = begin(list)
  /\ key = [s \in Slots |-> NoKey]
  /\ value = [s \in Slots |-> DefaultValue]
  /\ keyedElements = <<>>
  /\ usedSize = 0
  /\ lfuList = <<>> /\ recent = <<>>
  /\ call = <<>>

\* keyedElements.emplace and keyedElements.erase.
With(keyed, k, slot) == [j \in DOMAIN keyed \cup {k} |-> IF j = k THEN slot ELSE keyed[j]]
Without(keyed, k) == Restrict(keyed, DOMAIN keyed \ {k})

Stored(k) == k \in DOMAIN keyedElements

--------------------------------------------------------------------------------
(* FIFO *)

fifoOnly == UNCHANGED <<listEnd, lfuList, recent>>

fifoDoInsert(k, v) ==
  LET slot == begin(list)
  IN /\ list' = splice(list, End, slot)
     /\ usedSize' = IF key[slot] = NoKey THEN usedSize + 1 ELSE usedSize
     /\ value' = [value EXCEPT ![slot] = v]
     /\ key' = [key EXCEPT ![slot] = k]
     /\ keyedElements' = With(Without(keyedElements, key[slot]), k, slot)

fifoDoUpdate(k, v) ==
  /\ value' = [value EXCEPT ![keyedElements[k]] = v]
  /\ UNCHANGED <<list, key, keyedElements, usedSize>>

fifoDoErase(slot) ==
  /\ list' = splice(list, begin(list), slot)
  /\ key' = [key EXCEPT ![slot] = NoKey]
  /\ keyedElements' = Without(keyedElements, key[slot])
  /\ usedSize' = usedSize - 1
  /\ UNCHANGED value

fifoInsert(k, v) ==
  /\ IF Stored(k) THEN fifoDoUpdate(k, v) ELSE fifoDoInsert(k, v)
  /\ call' = <<"insert">>
  /\ fifoOnly

fifoErase(k) ==
  /\ IF Stored(k) THEN fifoDoErase(keyedElements[k])
     ELSE UNCHANGED <<list, key, value, keyedElements, usedSize>>
  /\ call' = <<"erase", Stored(k)>>
  /\ fifoOnly

fifoFind(k) ==
  /\ call' = IF Stored(k) THEN <<"find", FALSE, value[keyedElements[k]]>> ELSE <<"find", FALSE>>
  /\ UNCHANGED <<list, key, value, keyedElements, usedSize>>
  /\ fifoOnly

fifoNext == \E k \in Keys : fifoErase(k) \/ fifoFind(k) \/ \E v \in Values : fifoInsert(k, v)

--------------------------------------------------------------------------------
(* LRU.  doErase and doPrune yield what doInsert goes on from. *)

lruOnly == UNCHANGED <<lfuList, recent>>

\* The slot goes behind the used ones.
unused(slot) == IF slot # prev(list, listEnd) THEN splice(list, listEnd, slot) ELSE list

lruDoErase(slot) ==
  [list |-> unused(slot), end |-> prev(unused(slot), listEnd),
   keyed |-> Without(keyedElements, key[slot]), used |-> usedSize - 1]

lruKept == [list |-> list, end |-> listEnd, keyed |-> keyedElements, used |-> usedSize]

lruDoPrune == IF usedSize > 0 THEN lruDoErase(Last(list)) ELSE lruKept

lruDoAccess(slots, slot) == splice(slots, begin(slots), slot)

lruDoInsert(k, v) ==
  LET base == IF usedSize >= Capacity THEN lruDoPrune ELSE lruKept
  IN /\ keyedElements' = With(base.keyed, k, base.end)
     /\ value' = [value EXCEPT ![base.end] = v]
     /\ key' = [key EXCEPT ![base.end] = k]
     /\ listEnd' = next(base.list, base.end)
     /\ usedSize' = base.used + 1
     /\ list' = lruDoAccess(base.list, base.end)

lruDoUpdate(k, v) ==
  /\ value' = [value EXCEPT ![keyedElements[k]] = v]
  /\ list' = lruDoAccess(list, keyedElements[k])
  /\ UNCHANGED <<listEnd, key, keyedElements, usedSize>>

lruInsert(k, v) ==
  /\ IF Stored(k) THEN lruDoUpdate(k, v) ELSE lruDoInsert(k, v)
  /\ call' = <<"insert">>
  /\ lruOnly

lruErase(k) ==
  /\ LET rest == IF Stored(k) THEN lruDoErase(keyedElements[k]) ELSE lruKept
     IN /\ list' = rest.list /\ listEnd' = rest.end
        /\ keyedElements' = rest.keyed /\ usedSize' = rest.used
  /\ call' = <<"erase", Stored(k)>>
  /\ UNCHANGED <<key, value>>
  /\ lruOnly

MutLruFind(k, peek) ==   \* peek is ignored
  /\ list' = IF Stored(k) THEN lruDoAccess(list, keyedElements[k]) ELSE list
  /\ call' = IF Stored(k) THEN <<"find", peek, value[keyedElements[k]]>> ELSE <<"find", peek>>
  /\ UNCHANGED <<listEnd, key, value, keyedElements, usedSize>>
  /\ lruOnly

lruFind(k, peek) ==
  /\ list' = IF Stored(k) /\ ~peek THEN lruDoAccess(list, keyedElements[k]) ELSE list
  /\ call' = IF Stored(k) THEN <<"find", peek, value[keyedElements[k]]>> ELSE <<"find", peek>>
  /\ UNCHANGED <<listEnd, key, value, keyedElements, usedSize>>
  /\ lruOnly

lruNext ==
  \E k \in Keys :
    \/ lruErase(k)
    \/ \E v \in Values : lruInsert(k, v)
    \/ \E peek \in BOOLEAN : lruFind(k, peek)

--------------------------------------------------------------------------------
(* LFU.  The multimap is in the order of the counts and, among equals, of  *)
(* insertion; an iterator into it is an index.                             *)

lfuPosition(slot) == SelectInSeq(lfuList, LAMBDA entry : entry[2] = slot)
refcount(slot) == lfuList[lfuPosition(slot)][1]

\* lfuList.erase(elem.lfuPosition), and lfuList.emplace, which goes behind its equals.
erased(slot) == RemoveAt(lfuList, lfuPosition(slot))
upperBound(entries, count) ==
  LET first == SelectInSeq(entries, LAMBDA entry : entry[1] > count)
  IN IF first = 0 THEN Len(entries) + 1 ELSE first
emplace(entries, count, slot) == InsertAt(entries, upperBound(entries, count), <<count, slot>>)

lfuDoErase(slot) ==
  [list |-> unused(slot), end |-> prev(unused(slot), listEnd),
   keyed |-> Without(keyedElements, key[slot]), used |-> usedSize - 1,
   lfu |-> erased(slot), recent |-> RemoveFirst(recent, key[slot])]

lfuKept == [list |-> list, end |-> listEnd, keyed |-> keyedElements, used |-> usedSize,
            lfu |-> lfuList, recent |-> recent]

lfuDoPrune == IF usedSize > 0 THEN lfuDoErase(lfuList[1][2]) ELSE lfuKept

lfuDoInsert(k, v) ==
  LET base == IF usedSize >= Capacity THEN lfuDoPrune ELSE lfuKept
  IN /\ keyedElements' = With(base.keyed, k, base.end)
     /\ lfuList' = emplace(base.lfu, 1, base.end)
     /\ value' = [value EXCEPT ![base.end] = v]
     /\ key' = [key EXCEPT ![base.end] = k]
     /\ list' = base.list
     /\ listEnd' = next(base.list, base.end)
     /\ usedSize' = base.used + 1
     /\ recent' = Append(base.recent, k)

lfuDoAccess(slot) ==
  /\ refcount(slot) < MaxUses
  /\ lfuList' = emplace(erased(slot), refcount(slot) + 1, slot)
  /\ recent' = Append(RemoveFirst(recent, key[slot]), key[slot])

lfuDoUpdate(k, v) ==
  /\ value' = [value EXCEPT ![keyedElements[k]] = v]
  /\ lfuDoAccess(keyedElements[k])
  /\ UNCHANGED <<list, listEnd, key, keyedElements, usedSize>>

lfuInsert(k, v) ==
  /\ IF Stored(k) THEN lfuDoUpdate(k, v) ELSE lfuDoInsert(k, v)
  /\ call' = <<"insert">>

lfuErase(k) ==
  /\ LET rest == IF Stored(k) THEN lfuDoErase(keyedElements[k]) ELSE lfuKept
     IN /\ list' = rest.list /\ listEnd' = rest.end
        /\ keyedElements' = rest.keyed /\ lfuList' = rest.lfu
        /\ usedSize' = rest.used /\ recent' = rest.recent
  /\ call' = <<"erase", Stored(k)>>
  /\ UNCHANGED <<key, value>>

\* findWithRefcount; find returns the value alone.
lfuFind(k, peek) ==
  /\ IF Stored(k) /\ ~peek THEN lfuDoAccess(keyedElements[k]) ELSE UNCHANGED <<lfuList, recent>>
  /\ call' = IF ~Stored(k) THEN <<"find", peek>>
             ELSE <<"find", peek, value[keyedElements[k]],
                    IF peek THEN refcount(keyedElements[k]) ELSE refcount(keyedElements[k]) + 1>>
  /\ UNCHANGED <<list, listEnd, key, value, keyedElements, usedSize>>

lfuNext ==
  \E k \in Keys :
    \/ lfuErase(k)
    \/ \E v \in Values : lfuInsert(k, v)
    \/ \E peek \in BOOLEAN : lfuFind(k, peek)

--------------------------------------------------------------------------------
Next ==
  /\ \/ kind = "FIFO" /\ fifoNext
     \/ kind = "LRU" /\ lruNext
     \/ kind = "LFU" /\ lfuNext
  /\ UNCHANGED kind

Spec == Init /\ [][Next]_vars

\* The cached keys, from the least to the most recently used, and the counts of LFU.
Recency ==
  CASE kind = "FIFO" -> [i \in 1 .. usedSize |-> key[list[Capacity - usedSize + i]]]
    [] kind = "LRU"  -> [i \in 1 .. usedSize |-> key[list[usedSize + 1 - i]]]
    [] OTHER         -> recent
Uses == [k \in DOMAIN keyedElements |-> IF kind = "LFU" THEN refcount(keyedElements[k]) ELSE 1]

Abstract == INSTANCE CacheSpec WITH
  policy <- kind, recency <- Recency, uses <- Uses, size <- usedSize, result <- call,
  value <- [k \in DOMAIN keyedElements |-> value[keyedElements[k]]]

IsCache == kind \in Abstract!Policies

\* Each cache, with its slots, iterators and maps, behaves as the cache of its
\* policy: what it returns, what it keeps and what it gives up.
CachesFollowTheirPolicy ==
  /\ IsCache => Abstract!Init
  /\ [][IsCache => [Abstract!Next]_(Abstract!vars)]_vars
================================================================================
