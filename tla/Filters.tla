-------------------------------- MODULE Filters --------------------------------
(***************************************************************************)
(* data_structure::filter.                                                 *)
(*                                                                         *)
(* Quotient: a key is its hash of QBits + RBits bits, what the filter knows *)
(* of it.  The filter has 2^QBits slots; a slot holds a remainder and three *)
(* flags, for a run of this quotient that is somewhere (o), for a remainder *)
(* that continues a run (c) and for one that is not in the slot of its     *)
(* quotient (s).  A slot without flags is empty.                           *)
(*                                                                         *)
(* Bloom: a key is its pair of hashes; the bits that are set, the count of *)
(* the entries and the last answer are kept.                               *)
(***************************************************************************)
EXTENDS Sequences, FiniteSets, Loops

CONSTANTS QBits, RBits,      \* Quotient: the bits of a quotient and of a remainder
          Capacity,          \* Bloom: the expected entries,
          filterBitsNum,     \* the bits, which the code computes from them,
          hashFuncNum        \* and the hash functions

VARIABLES filter,
          call,
          inserted  \* history of a Bloom filter: the keys since it was last empty

vars == <<filter, call, inserted>>

--------------------------------------------------------------------------------
(* Quotient *)

capacity == 2^QBits
Slots    == 0 .. capacity - 1
Hashes   == 0 .. 2^(QBits + RBits) - 1

Empty == [o |-> FALSE, c |-> FALSE, s |-> FALSE, r |-> 0]
New   == [slot |-> [i \in Slots |-> Empty], entries |-> 0]
QuotientInit == filter = New /\ call = <<>> /\ inserted = {}

hashToQuotient(h)  == (h \div 2^RBits) % capacity
hashToRemainder(h) == h % 2^RBits

isEmptyElement(e) == ~(e.o \/ e.c \/ e.s)
isClusterStart(e) == e.o /\ ~e.c /\ ~e.s
isRunStart(e)     == ~e.c /\ (e.o \/ e.s)

increase(i) == (i + 1) % capacity
decrease(i) == (i - 1) % capacity

--------------------------------------------------------------------------------
RECURSIVE NextOccupied(_, _), RunEnd(_, _), ClusterFrom(_, _), RunFrom(_, _, _, _)

\* The first slot from i on that is occupied, and that starts no continuation.
NextOccupied(f, i) == IF f[i].o THEN i ELSE NextOccupied(f, increase(i))
RunEnd(f, i) == IF f[i].c THEN RunEnd(f, increase(i)) ELSE i

ClusterFrom(f, i) == IF f[i].s THEN ClusterFrom(f, decrease(i)) ELSE i

RunFrom(f, start, slot, quot) ==
  IF start = quot THEN slot
  ELSE RunFrom(f, NextOccupied(f, increase(start)), RunEnd(f, increase(slot)), quot)

\* Back to the start of the cluster, then one run for every occupied slot.
findRunIndex(f, quot) ==
  LET start == ClusterFrom(f, quot) IN RunFrom(f, start, start, quot)

\* The slot of the run from slot on at which the remainder r is, or would be.
RECURSIVE Seek(_, _, _)
Seek(f, slot, r) ==
  IF f[slot].r >= r THEN slot
  ELSE IF f[increase(slot)].c THEN Seek(f, increase(slot), r) ELSE increase(slot)

MutFound(f, start, slot, r) == f[slot].r = r   \* the slot behind the run counts too

\* Whether the run that Seek went through has r at that slot.
Found(f, start, slot, r) == f[slot].r = r /\ (slot = start \/ f[slot].c)

--------------------------------------------------------------------------------
\* Every element from slot to the first empty one moves on by one; the occupied flags
\* stay with their slots.
RECURSIVE insertAt(_, _, _)
insertAt(f, slot, elem) ==
  LET prev == f[slot]
      set(e) == [f EXCEPT ![slot] = e]
  IN IF isEmptyElement(prev) THEN set(elem)
     ELSE insertAt(set([elem EXCEPT !.o = @ \/ prev.o]), increase(slot),
                   [prev EXCEPT !.s = TRUE, !.o = FALSE])

Entry(r) == [Empty EXCEPT !.r = r]

Put(q, h) ==
  LET hq == hashToQuotient(h)
      hr == hashToRemainder(h)
      run == q.slot[hq].o
      f == [q.slot EXCEPT ![hq].o = TRUE]
      start == findRunIndex(f, hq)
      slot == IF run THEN Seek(f, start, hr) ELSE start
      headed == IF run /\ slot = start THEN [f EXCEPT ![start].c = TRUE] ELSE f
      entry == [Entry(hr) EXCEPT !.c = run /\ slot # start, !.s = slot # hq]
  IN IF isEmptyElement(q.slot[hq])
     THEN [slot |-> [q.slot EXCEPT ![hq] = [Entry(hr) EXCEPT !.o = TRUE]], entries |-> q.entries + 1]
     ELSE IF run /\ Found(f, start, slot, hr) THEN q
     ELSE [slot |-> insertAt(headed, slot, entry), entries |-> q.entries + 1]

insert(h) ==
  LET room == filter.entries < capacity
  IN /\ filter' = IF room THEN Put(filter, h) ELSE filter
     /\ call' = <<"insert", h, room>>

mayContain(q, h) ==
  LET hq == hashToQuotient(h)
      start == findRunIndex(q.slot, hq)
  IN IF ~q.slot[hq].o THEN FALSE
     ELSE Found(q.slot, start, Seek(q.slot, start, hashToRemainder(h)), hashToRemainder(h))

--------------------------------------------------------------------------------
\* The elements behind start move back by one, to the end of the cluster; quot is the
\* quotient of the run that is moved, and a run that comes to its slot is not shifted
\* any more.
RECURSIVE RemoveFrom(_, _, _, _, _)
RemoveFrom(f, orig, slot, curr, quot) ==
  LET scanPos == increase(slot)
      next == f[scanPos]
      q == IF isRunStart(next) THEN NextOccupied(f, increase(quot)) ELSE quot
      home == isRunStart(next) /\ curr.o /\ slot = q
      moved == [next EXCEPT !.s = @ /\ ~home, !.o = curr.o]
  IN IF isEmptyElement(next) \/ isClusterStart(next) \/ scanPos = orig
     THEN [f EXCEPT ![slot] = Empty]
     ELSE RemoveFrom([f EXCEPT ![slot] = moved], orig, scanPos, next, q)

removeAt(f, start, quot) == RemoveFrom(f, start, start, f[start], quot)

\* What takes the place of the start of a run is the start of a run.
NewRunStart(f, slot, hq) ==
  LET e == [f[slot] EXCEPT !.c = FALSE]
  IN [f EXCEPT ![slot] = [e EXCEPT !.s = @ /\ ~(slot = hq /\ isRunStart(e))]]

Take(q, h) ==
  LET hq == hashToQuotient(h)
      hr == hashToRemainder(h)
      start == findRunIndex(q.slot, hq)
      slot == Seek(q.slot, start, hr)
      first == isRunStart(q.slot[slot])
      alone == first /\ ~q.slot[increase(slot)].c
      f == IF alone THEN [q.slot EXCEPT ![hq].o = FALSE] ELSE q.slot
      g == removeAt(f, slot, hq)
  IN IF ~q.slot[hq].o \/ q.entries = 0 THEN q
     ELSE IF ~Found(q.slot, start, slot, hr) THEN q
     ELSE [slot |-> IF first THEN NewRunStart(g, slot, hq) ELSE g, entries |-> q.entries - 1]

remove(h) == filter' = Take(filter, h) /\ call' = <<"remove", h>>

clear == filter' = New /\ call' = <<"clear">>

--------------------------------------------------------------------------------
\* The hashes of a filter in the order of its iterator: from the first cluster on,
\* with the quotient of the run that each remainder is in.
RECURSIVE IterateFrom(_, _, _, _)
IterateFrom(q, index, quot, out) ==
  LET e == q.slot[index]
      now == IF isClusterStart(e) THEN index
             ELSE IF isRunStart(e) THEN NextOccupied(q.slot, increase(quot)) ELSE quot
  IN IF Len(out) = q.entries THEN out
     ELSE IterateFrom(q, increase(index), now,
                      IF isEmptyElement(e) THEN out ELSE Append(out, now * 2^RBits + e.r))

Iterate(q) ==
  IF q.entries = 0 THEN <<>>
  ELSE IterateFrom(q, Least({i \in Slots : isClusterStart(q.slot[i])}), 0, <<>>)

\* Another filter of the same bits, filled with the hashes of S, is inserted into this
\* one, as far as there is room.
Filled(S) ==
  LET in[T \in SUBSET S] == IF T = {} THEN New ELSE Put(in[T \ {Least(T)}], Least(T))
  IN in[S]

merge(S) ==
  LET hashes == Iterate(Filled(S))
  IN /\ filter' = Up(1, Len(hashes),
                     LAMBDA i, q : IF q.entries < capacity THEN Put(q, hashes[i]) ELSE q, filter)
     /\ call' = <<"merge", S>>

QuotientNext ==
  /\ \/ \E h \in Hashes : insert(h) \/ remove(h)
     \/ \E S \in SUBSET Hashes : Cardinality(S) = 2 /\ merge(S)
     \/ clear
  /\ UNCHANGED inserted

Quotient == QuotientInit /\ [][QuotientNext]_vars

--------------------------------------------------------------------------------
Members(q) == {h \in Hashes : mayContain(q, h)}

\* The filter is the set of the hashes that were inserted and not removed: it answers
\* for exactly these, counts them and lists them.
IsASet ==
  /\ filter.entries = Cardinality(Members(filter))
  /\ {Iterate(filter)[i] : i \in DOMAIN Iterate(filter)} = Members(filter)

StepsAreSetSteps ==
  /\ call'[1] = "insert" => Members(filter') = Members(filter) \cup (IF call'[3] THEN {call'[2]} ELSE {})
  /\ call'[1] = "remove" => Members(filter') = Members(filter) \ {call'[2]}
  /\ call'[1] = "merge" =>
       LET all == Members(filter) \cup call'[2]
       IN IF Cardinality(all) <= capacity THEN Members(filter') = all
          ELSE Members(filter) \subseteq Members(filter') /\ filter'.entries = capacity
  /\ call'[1] = "clear" => Members(filter') = {}

--------------------------------------------------------------------------------
(* Bloom *)

Keys == (0 .. filterBitsNum - 1) \X (0 .. filterBitsNum - 1)

NewBloom  == [bits |-> {}, entries |-> 0]
BloomInit == filter = NewBloom /\ call = <<>> /\ inserted = {}

\* Double hashing: the positions of a key.
bloomHash(key) == {(key[1] + i * key[2]) % filterBitsNum : i \in 0 .. hashFuncNum - 1}

bloomInsert(key) ==
  /\ filter.entries <= Capacity
  /\ filter' = [bits |-> filter.bits \cup bloomHash(key), entries |-> filter.entries + 1]
  /\ call' = <<"insert", filter'.entries <= Capacity>>
  /\ inserted' = inserted \cup {key}

bloomMayContain(key) == bloomHash(key) \subseteq filter.bits

bloomClear == filter' = NewBloom /\ call' = <<"clear">> /\ inserted' = {}

BloomNext == bloomClear \/ \E key \in Keys : bloomInsert(key)

Bloom == BloomInit /\ [][BloomNext]_vars

--------------------------------------------------------------------------------
\* A key that was inserted is never denied, and a filter without entries denies all.
NeverForgets ==
  /\ \A key \in inserted : bloomMayContain(key)
  /\ filter.entries = 0 => \A key \in Keys : ~bloomMayContain(key)
================================================================================
