-------------------------------- MODULE MemoryPool --------------------------------
(***************************************************************************)
(* utility::memory::Memory: blocks of BlockSize bytes that are cut into    *)
(* slots of SlotSize bytes behind a header, the link to the block before   *)
(* and its padding.  An address is a pair of a block and an offset.  Every *)
(* call holds the recursive mutex, so a call is one step.                  *)
(***************************************************************************)
EXTENDS Naturals, Sequences

CONSTANTS BlockSize, SlotSize, Header,
          MaxBlocks   \* bound: blocks made

VARIABLES pool,     \* [blocks, currentSlot, freeSlots]; no block: blocks = 0
          call,
          held      \* history: what was acquired and not released

vars == <<pool, call, held>>

Init ==
  /\ pool = [blocks |-> 0, currentSlot |-> Header, freeSlots |-> <<>>]
  /\ call = <<>>
  /\ held = {}

MutExhausted ==   \* lastSlot counted from the body of the block
  pool.blocks = 0 \/ pool.currentSlot >= Header + BlockSize

\* The last block is used up when the next slot would start at its end or behind.
exhausted == pool.blocks = 0 \/ pool.currentSlot >= BlockSize

\* A released slot goes first, the one released last before the others; a new block
\* is made when there is none and the last block is used up.
acquire ==
  LET reuse == pool.freeSlots # <<>>
      block == IF exhausted THEN pool.blocks + 1 ELSE pool.blocks
      slot == IF exhausted THEN Header ELSE pool.currentSlot
      res == IF reuse THEN Head(pool.freeSlots) ELSE <<block, slot>>
  IN /\ reuse \/ block <= MaxBlocks
     /\ pool' = IF reuse THEN [pool EXCEPT !.freeSlots = Tail(@)]
                ELSE [pool EXCEPT !.blocks = block, !.currentSlot = slot + SlotSize]
     /\ held' = held \cup {res}
     /\ call' = <<"acquire", res>>

release(res) ==
  /\ pool' = [pool EXCEPT !.freeSlots = <<res>> \o @]
  /\ held' = held \ {res}
  /\ call' = <<"release", res>>

Next == acquire \/ \E res \in held : release(res)

Spec == Init /\ [][Next]_vars

--------------------------------------------------------------------------------
Units(a) == {<<a[1], a[2] + k>> : k \in 0 .. SlotSize - 1}

free == {pool.freeSlots[i] : i \in DOMAIN pool.freeSlots}

\* The slots fill the blocks to the end.  Nothing in the code asks for it.
SlotsFit == \E n \in 1 .. BlockSize : Header + n * SlotSize = BlockSize

IsWhole(a) == a[2] + SlotSize <= BlockSize
IsUsedUp(n) == n < pool.blocks \/ exhausted

\* What is held or free begins in its block behind the header; no two share memory, and
\* nothing is held and free.
Apart ==
  /\ \A a \in held \cup free : a[1] \in 1 .. pool.blocks /\ Header <= a[2] /\ a[2] < BlockSize
  /\ \A a, b \in held \cup free : a # b => Units(a) \cap Units(b) = {}
  /\ held \cap free = {}

\* A slot that ends behind its block is the last one in it.  There is one in every block
\* that is used up, unless the slots fill the block: lastSlot is the end of the block, and
\* not the last slot that has room.
OnlyTheLastOverruns ==
  /\ \A a, b \in held \cup free : a[1] = b[1] /\ a[2] < b[2] => IsWhole(a)
  /\ \A n \in 1 .. pool.blocks :
       (\A a \in held \cup free : a[1] = n => IsWhole(a)) <=> (SlotsFit \/ ~IsUsedUp(n))

\* An acquired resource is one that nobody holds.
AcquiresAreFresh == \A res \in held : call' # <<"acquire", res>>
================================================================================
