----------------------------- MODULE UtilityProofs -----------------------------
(***************************************************************************)
(* Proofs about ReadWriteLock for every finite set of threads, about Timer *)
(* for any number of starts, about MemoryPool for any sizes of blocks and  *)
(* resources, and about FDStream for any buffer and file.                  *)
(*                                                                         *)
(* Mutual exclusion of the counters is not inductive by itself: it needs   *)
(* the counters to be the cardinalities of their holders (IInv), so that a *)
(* test such as writer = 0 means that nobody is inside.  The slots of the  *)
(* pool are apart because each lies whole steps behind its header, below   *)
(* currentSlot of the last block, and a block that is used up has the one  *)
(* that reaches its end (PoolInv).  The file of a stream is increasing     *)
(* because the buffer behind it is, whatever a failed flush has left of it *)
(* (StreamInv).                                                            *)
(***************************************************************************)
EXTENDS MCUtility, FiniteSetTheorems, SequenceTheorems, TLAPS

\* The threads at given labels form a finite set.
LEMMA AtFinite == ASSUME NEW labels PROVE IsFiniteSet(At(labels))
  BY ThreadsAssumption, FS_Subset, At(labels) \subseteq Threads DEF At

\* A counter is zero exactly when it has no holder.
LEMMA ZeroMeansNone ==
  ASSUME CountersMatchHolders
  PROVE  /\ reader = 0 <=> Readers = {}
         /\ writer = 0 <=> Writers = {}
  <1>1. IsFiniteSet(Readers) /\ IsFiniteSet(Writers)
    BY AtFinite DEF Readers, Writers
  <1>2. QED
    BY <1>1, FS_EmptySet DEF CountersMatchHolders

\* The invariant holds initially: nobody is inside.
LEMMA InitIInv == Init => IInv
  <1> SUFFICES ASSUME Init PROVE IInv
    OBVIOUS
  <1>1. Readers = {} /\ Writers = {}
    BY DEF Init, Readers, Writers, At
  <1>2. CountersMatchHolders
    BY <1>1, FS_EmptySet DEF Init, CountersMatchHolders
  <1>3. TypeOK /\ WriterIsAlone /\ StageOneExclusive
    BY <1>1 DEF Init, TypeOK, Labels, WriterIsAlone, StageOneExclusive, At
  <1>4. QED
    BY <1>2, <1>3 DEF IInv

\* Every step of the lock preserves the invariant.
LEMMA StepIInv == IInv /\ [Next]_vars => IInv'
  <1> SUFFICES ASSUME IInv, [Next]_vars PROVE IInv'
    OBVIOUS
  <1> USE DEF IInv
  <1>0. /\ IsFiniteSet(Readers) /\ IsFiniteSet(Writers)
        /\ Cardinality(Readers) \in Nat /\ Cardinality(Writers) \in Nat
    BY AtFinite, FS_CardinalityType DEF Readers, Writers
  <1>1. ASSUME NEW t \in Threads, ReadLockEnter(t) PROVE IInv'
    <2>1. Readers' = Readers /\ Writers' = Writers
      BY <1>1 DEF ReadLockEnter, Goto, Readers, Writers, At, TypeOK
    <2>2. QED
      BY <1>1, <2>1 DEF ReadLockEnter, Goto, TypeOK, Labels, CountersMatchHolders,
         WriterIsAlone, StageOneExclusive, At
  <1>2. ASSUME NEW t \in Threads, WriteLockEnter(t) PROVE IInv'
    <2>1. Readers' = Readers /\ Writers' = Writers
      BY <1>2 DEF WriteLockEnter, Goto, Readers, Writers, At, TypeOK
    <2>2. QED
      BY <1>2, <2>1 DEF WriteLockEnter, Goto, TypeOK, Labels, CountersMatchHolders,
         WriterIsAlone, StageOneExclusive, At
  <1>3. ASSUME NEW t \in Threads, ReadLockCheck(t) PROVE IInv'
    <2>1. CASE writer = 0
      <3>1. Writers = {} /\ t \notin Readers
        BY <1>3, <2>1, ZeroMeansNone DEF ReadLockCheck, CondWait, Goto, Readers, At
      <3>2. Readers' = Readers \cup {t} /\ Writers' = Writers
        BY <1>3, <2>1 DEF ReadLockCheck, CondWait, Goto, Readers, Writers, At, TypeOK
      <3>3. Cardinality(Readers') = Cardinality(Readers) + 1
        BY <1>0, <3>1, <3>2, FS_AddElement
      <3>4. CountersMatchHolders' /\ WriterIsAlone'
        BY <1>3, <2>1, <3>1, <3>2, <3>3
        DEF ReadLockCheck, CountersMatchHolders, WriterIsAlone
      <3>5. TypeOK' /\ StageOneExclusive'
        BY <1>3, <2>1 DEF ReadLockCheck, CondWait, Goto, TypeOK, Labels, StageOneExclusive, At
      <3>6. QED
        BY <3>4, <3>5
    <2>2. CASE writer # 0
      <3>1. UNCHANGED <<pc, rwShared, rwExcl, reader, writer>> /\ waiting' \in SUBSET Threads
        BY <1>3, <2>2 DEF ReadLockCheck, CondWait, Goto, TypeOK
      <3>2. QED
        BY <3>1 DEF TypeOK, CountersMatchHolders, WriterIsAlone, StageOneExclusive,
           Readers, Writers, At
    <2>3. QED
      BY <2>1, <2>2
  <1>4. ASSUME NEW t \in Threads, ReadLockLeave(t) PROVE IInv'
    <2>1. Readers' = Readers /\ Writers' = Writers
      BY <1>4 DEF ReadLockLeave, Goto, Readers, Writers, At, TypeOK
    <2>2. QED
      BY <1>4, <2>1 DEF ReadLockLeave, Goto, TypeOK, Labels, CountersMatchHolders,
         WriterIsAlone, StageOneExclusive, At
  <1>5. ASSUME NEW t \in Threads, ReadUnlock(t) PROVE IInv'
    <2>1. t \in Readers /\ Readers' = Readers \ {t} /\ Writers' = Writers
      BY <1>5 DEF ReadUnlock, Goto, Readers, Writers, At, TypeOK
    <2>2. Cardinality(Readers') = Cardinality(Readers) - 1 /\ Cardinality(Readers') \in Nat
      BY <1>0, <2>1, FS_RemoveElement, FS_CardinalityType
    <2>3. QED
      BY <1>5, <2>1, <2>2 DEF ReadUnlock, Goto, TypeOK, Labels, CountersMatchHolders,
         WriterIsAlone, StageOneExclusive, At
  <1>6. ASSUME NEW t \in Threads, WriteLockCheck(t) PROVE IInv'
    <2>1. CASE reader = 0 /\ writer = 0
      <3>1. Readers = {} /\ Writers = {}
        BY <2>1, ZeroMeansNone
      <3>2. Writers' = Writers \cup {t} /\ Readers' = Readers
        BY <1>6, <2>1 DEF WriteLockCheck, CondWait, Goto, Readers, Writers, At, TypeOK
      <3>3. Cardinality(Writers') = Cardinality(Writers) + 1
        BY <1>0, <3>1, <3>2, FS_AddElement
      <3>4. CountersMatchHolders' /\ WriterIsAlone'
        BY <1>6, <2>1, <3>1, <3>2, <3>3
        DEF WriteLockCheck, CountersMatchHolders, WriterIsAlone
      <3>5. TypeOK' /\ StageOneExclusive'
        BY <1>6, <2>1 DEF WriteLockCheck, CondWait, Goto, TypeOK, Labels, StageOneExclusive, At
      <3>6. QED
        BY <3>4, <3>5
    <2>2. CASE ~(reader = 0 /\ writer = 0)
      <3>1. UNCHANGED <<pc, rwShared, rwExcl, reader, writer>> /\ waiting' \in SUBSET Threads
        BY <1>6, <2>2 DEF WriteLockCheck, CondWait, Goto, TypeOK
      <3>2. QED
        BY <3>1 DEF TypeOK, CountersMatchHolders, WriterIsAlone, StageOneExclusive,
           Readers, Writers, At
    <2>3. QED
      BY <2>1, <2>2
  <1>7. ASSUME NEW t \in Threads, WriteLockLeave(t) PROVE IInv'
    <2>1. Readers' = Readers /\ Writers' = Writers
      BY <1>7 DEF WriteLockLeave, Goto, Readers, Writers, At, TypeOK
    <2>2. QED
      BY <1>7, <2>1 DEF WriteLockLeave, Goto, TypeOK, Labels, CountersMatchHolders,
         WriterIsAlone, StageOneExclusive, At
  <1>8. ASSUME NEW t \in Threads, WriteUnlock(t) PROVE IInv'
    <2>1. t \in Writers /\ Writers' = Writers \ {t} /\ Readers' = Readers
      BY <1>8 DEF WriteUnlock, Goto, Readers, Writers, At, TypeOK
    <2>2. Cardinality(Writers') = Cardinality(Writers) - 1 /\ Cardinality(Writers') \in Nat
      BY <1>0, <2>1, FS_RemoveElement, FS_CardinalityType
    <2>3. QED
      BY <1>8, <2>1, <2>2 DEF WriteUnlock, Goto, TypeOK, Labels, CountersMatchHolders,
         WriterIsAlone, StageOneExclusive, At
  <1>9. ASSUME NEW t \in Threads, NotifyAll(t) PROVE IInv'
    <2>1. Readers' = Readers /\ Writers' = Writers
      BY <1>9 DEF NotifyAll, Goto, Readers, Writers, At, TypeOK
    <2>2. QED
      BY <1>9, <2>1 DEF NotifyAll, Goto, TypeOK, Labels, CountersMatchHolders,
         WriterIsAlone, StageOneExclusive, At
  <1>10. ASSUME NEW t \in Threads, SpuriousWakeup(t) PROVE IInv'
    BY <1>10 DEF SpuriousWakeup, TypeOK, CountersMatchHolders, WriterIsAlone,
       StageOneExclusive, Readers, Writers, At
  <1>11. CASE UNCHANGED vars
    BY <1>11 DEF vars, TypeOK, CountersMatchHolders, WriterIsAlone, StageOneExclusive,
       Readers, Writers, At
  <1>12. QED
    BY <1>1, <1>2, <1>3, <1>4, <1>5, <1>6, <1>7, <1>8, <1>9, <1>10, <1>11 DEF Next, Step

\* A thread blocks only on a held lock, an unlock leaves its caller about to
\* notify, and a notification wakes everybody.
LEMMA StepSleepers ==
  IInv /\ SleepersHaveAWaker /\ [Next]_vars => SleepersHaveAWaker'
  <1> SUFFICES ASSUME IInv, SleepersHaveAWaker, [Next]_vars PROVE SleepersHaveAWaker'
    OBVIOUS
  <1> USE DEF Readers, Writers, At, Goto, SleepersHaveAWaker
  <1>0. /\ pc \in [Threads -> Labels]
        /\ reader = 0 <=> Readers = {}
        /\ writer = 0 <=> Writers = {}
    BY ZeroMeansNone DEF IInv, TypeOK
  <1>1. ASSUME NEW t \in Threads, ReadLockEnter(t) PROVE SleepersHaveAWaker'
    BY <1>0, <1>1 DEF ReadLockEnter
  <1>2. ASSUME NEW t \in Threads, WriteLockEnter(t) PROVE SleepersHaveAWaker'
    BY <1>0, <1>2 DEF WriteLockEnter
  <1>3. ASSUME NEW t \in Threads, ReadLockCheck(t) PROVE SleepersHaveAWaker'
    BY <1>0, <1>3 DEF ReadLockCheck, CondWait
  <1>4. ASSUME NEW t \in Threads, WriteLockCheck(t) PROVE SleepersHaveAWaker'
    BY <1>0, <1>4 DEF WriteLockCheck, CondWait
  <1>5. ASSUME NEW t \in Threads, ReadLockLeave(t) \/ WriteLockLeave(t)
        PROVE SleepersHaveAWaker'
    BY <1>0, <1>5 DEF ReadLockLeave, WriteLockLeave
  <1>6. ASSUME NEW t \in Threads, ReadUnlock(t) \/ WriteUnlock(t)
        PROVE SleepersHaveAWaker'
    BY <1>0, <1>6 DEF ReadUnlock, WriteUnlock
  <1>7. ASSUME NEW t \in Threads, NotifyAll(t) PROVE SleepersHaveAWaker'
    BY <1>7 DEF NotifyAll
  <1>8. ASSUME NEW t \in Threads, SpuriousWakeup(t) PROVE SleepersHaveAWaker'
    BY <1>8 DEF SpuriousWakeup
  <1>9. CASE UNCHANGED vars
    BY <1>9 DEF vars
  <1>10. QED
    BY <1>1, <1>2, <1>3, <1>4, <1>5, <1>6, <1>7, <1>8, <1>9 DEF Next, Step

\* Every step of the two-stage lock is a step of the plain lock, or changes
\* neither its readers nor its writers.
LEMMA StepRefines ==
  IInv /\ [Next]_vars => [Abstract!LockNext]_(Abstract!lockVars)
  <1> SUFFICES ASSUME IInv, [Next]_vars
               PROVE  Abstract!LockNext \/ UNCHANGED <<Readers, Writers>>
    BY DEF Abstract!lockVars
  <1> USE DEF Readers, Writers, At, Goto
  <1>0. /\ pc \in [Threads -> Labels]
        /\ reader = 0 <=> Readers = {}
        /\ writer = 0 <=> Writers = {}
    BY ZeroMeansNone DEF IInv, TypeOK
  <1>1. ASSUME NEW t \in Threads, ReadLockCheck(t)
        PROVE  Abstract!AcquireRead(t) \/ UNCHANGED <<Readers, Writers>>
    BY <1>0, <1>1 DEF ReadLockCheck, CondWait, Abstract!AcquireRead, Abstract!CanRead
  <1>2. ASSUME NEW t \in Threads, WriteLockCheck(t)
        PROVE  Abstract!AcquireWrite(t) \/ UNCHANGED <<Readers, Writers>>
    BY <1>0, <1>2 DEF WriteLockCheck, CondWait, Abstract!AcquireWrite, Abstract!CanWrite
  <1>3. ASSUME NEW t \in Threads, ReadUnlock(t) PROVE Abstract!ReleaseRead(t)
    BY <1>0, <1>3 DEF ReadUnlock, Abstract!ReleaseRead
  <1>4. ASSUME NEW t \in Threads, WriteUnlock(t) PROVE Abstract!ReleaseWrite(t)
    BY <1>0, <1>4 DEF WriteUnlock, Abstract!ReleaseWrite
  <1>5. ASSUME NEW t \in Threads,
               \/ ReadLockEnter(t) \/ WriteLockEnter(t) \/ ReadLockLeave(t)
               \/ WriteLockLeave(t) \/ NotifyAll(t) \/ SpuriousWakeup(t)
        PROVE  UNCHANGED <<Readers, Writers>>
    BY <1>0, <1>5 DEF ReadLockEnter, WriteLockEnter, ReadLockLeave, WriteLockLeave,
       NotifyAll, SpuriousWakeup
  <1>6. CASE UNCHANGED vars
    BY <1>6 DEF vars
  <1>7. QED
    <2> HIDE DEF Readers, Writers
    <2> QED BY <1>1, <1>2, <1>3, <1>4, <1>5, <1>6 DEF Next, Step, Abstract!LockNext

\* The inductive invariant of the lock: its state has its type, and the counters
\* and rwLock are held by exactly the threads inside readLock and writeLock.
THEOREM LockInvariant == Spec => []IInv
  BY InitIInv, StepIInv, PTL DEF Spec

\* readLock and writeLock exclude each other, for any number of threads.
THEOREM MutualExclusion == Spec => []WriterIsAlone
  BY LockInvariant, PTL DEF IInv

\* The counters reader and writer never drift from the threads inside the lock,
\* so that neither unlock can take them below zero.
THEOREM CountersAreExact == Spec => []CountersMatchHolders
  BY LockInvariant, PTL DEF IInv

\* The notify_all of the unlocks is enough: no thread sleeps in cond.wait when
\* nobody is left to wake it.
THEOREM NoLostWakeup == Spec => []SleepersHaveAWaker
  <1>1. Init => SleepersHaveAWaker
    BY DEF Init, SleepersHaveAWaker
  <1>2. QED
    BY <1>1, LockInvariant, StepSleepers, PTL DEF Spec

\* The two-stage lock implements the plain readers-writer lock.
THEOREM Refinement == Spec => ImplementsRWLock
  <1>1. Init => Abstract!LockInit
    BY DEF Init, Abstract!LockInit, Readers, Writers, At
  <1>2. QED
    BY <1>1, LockInvariant, StepRefines, PTL DEF Spec, ImplementsRWLock, Abstract!LockSpec
--------------------------------------------------------------------------------
(* The timer. *)

\* A worker that has called back after the request has seen it, or sees it in its next
\* test: it does not wait again.
TimerInv ==
  /\ upc \in {"idle", "notify", "join"} /\ token \in BOOLEAN /\ late \in {0, 1}
  /\ worker \in {"none", "test", "wait", "fire", "callback", "exited"}
  /\ late = 1 => token /\ worker \in {"callback", "test", "exited", "none"}

LEMMA TimerInit == T!Init => TimerInv
  <1> SUFFICES ASSUME T!Init PROVE TimerInv
    OBVIOUS
  <1>1. token \in BOOLEAN /\ late = 0 /\ upc = "idle" /\ worker = "none"
    BY Zenon DEF T!Init
  <1> QED
    BY <1>1 DEF TimerInv

LEMMA TimerStep == TimerInv /\ [T!Next]_timerVars => TimerInv'
  <1> SUFFICES ASSUME TimerInv, [T!Next]_timerVars PROVE TimerInv'
    OBVIOUS
  <1> USE DEF TimerInv
  <1>1. ASSUME NEW p \in BOOLEAN, T!Start(p) PROVE TimerInv'
    <2>1. upc' = "idle"
      BY <1>1 DEF T!Start
    <2>2. CASE worker # "none"
      <3>1. UNCHANGED <<worker, token, late>>
        BY <1>1, <2>2 DEF T!Start, T!isRunning
      <3> QED
        BY <2>1, <3>1
    <2>3. CASE worker = "none"
      <3>1. token' \in BOOLEAN
        BY <1>1, <2>3, Zenon DEF T!Start, T!isRunning
      <3>2. worker' = "test" /\ late' = 0
        BY <1>1, <2>3, Zenon DEF T!Start, T!isRunning
      <3> QED
        BY <2>1, <3>1, <3>2
    <2> QED
      BY <2>2, <2>3
  <1>2. CASE T!Stop \/ T!StopNotify \/ T!StopJoin
    BY <1>2 DEF T!Stop, T!StopNotify, T!StopJoin, T!isRunning
  <1>3. CASE T!WorkerTest \/ T!WorkerTimeout \/ T!WorkerSpurious
    BY <1>3 DEF T!WorkerTest, T!WorkerTimeout, T!WorkerSpurious, T!WorkerGoto, T!stop_requested
  <1>4. CASE T!CallbackBegins \/ T!CallbackReturns
    BY <1>4 DEF T!CallbackBegins, T!CallbackReturns, T!WorkerGoto
  <1>5. CASE T!Terminated \/ UNCHANGED timerVars
    BY <1>5 DEF T!Terminated, T!vars, timerVars
  <1> QED
    BY <1>1, <1>2, <1>3, <1>4, <1>5, Zenon DEF T!Next, T!WorkerStep

\* In each part a step is one of the timer, or leaves the timer alone.
LEMMA PartsOfTheTimer == /\ PartInit => T!Init
                         /\ [PartNext]_allVars => [T!Next]_timerVars
BY DEF PartInit, PartNext, allVars

\* After stop() has requested the stop the worker begins at most one callback, however the
\* request falls between its tests and waits, for any number of starts.
THEOREM OneLateCallback == PartSpec => []AtMostOneLateCallback
<1>1. TimerInv => AtMostOneLateCallback
  BY DEF TimerInv, AtMostOneLateCallback, T!AtMostOneLateCallback
<1> QED
  BY <1>1, TimerInit, TimerStep, PartsOfTheTimer, PTL DEF PartSpec

--------------------------------------------------------------------------------
(* The memory pool. *)

Address == Nat \X Nat
Used == held \cup M!free

PoolTypes ==
  /\ pool \in [blocks : Nat, currentSlot : Nat, freeSlots : Seq(Address)]
  /\ held \subseteq Address
  /\ pool.blocks > 0 => Header <= pool.currentSlot

\* What was given out lies in its block, in the last one before the current slot.
Within ==
  \A a \in Used :
    /\ a[1] \in 1 .. pool.blocks /\ Header <= a[2] /\ a[2] < BlockSize
    /\ a[1] = pool.blocks => a[2] + SlotSize <= pool.currentSlot

\* Slots of one block are the size of a slot apart.
Spaced ==
  \A a, b \in Used : a # b /\ a[1] = b[1] => a[2] + SlotSize <= b[2] \/ b[2] + SlotSize <= a[2]

\* A slot is free once, or held.
Once ==
  /\ held \cap M!free = {}
  /\ \A i, j \in DOMAIN pool.freeSlots : i # j => pool.freeSlots[i] # pool.freeSlots[j]

\* Where the slots fill the block, whole slots are left behind the current one.
Whole ==
  M!SlotsFit =>
    /\ pool.blocks > 0 => \E n \in Nat : pool.currentSlot + n * SlotSize = BlockSize
    /\ \A a \in Used : a[2] + SlotSize <= BlockSize

\* Slots lie whole steps behind the header.
Steps(offset) == \E k \in Nat : offset = Header + k * SlotSize
OnSteps == \A a \in Used : Steps(a[2])

\* The last block is given out up to the current slot, and those before it to their ends.
Filled ==
  /\ pool.blocks > 0 =>
       /\ Steps(pool.currentSlot)
       /\ \E a \in Used : a[1] = pool.blocks /\ a[2] + SlotSize = pool.currentSlot
  /\ \A n \in 1 .. pool.blocks :
       n < pool.blocks => \E a \in Used : a[1] = n /\ a[2] + SlotSize >= BlockSize

PoolInv == PoolTypes /\ Within /\ Spaced /\ Once /\ Whole /\ OnSteps /\ Filled

LEMMA PoolInit == M!Init => PoolInv
  <1> SUFFICES ASSUME M!Init PROVE PoolInv
    OBVIOUS
  <1>1. pool = [blocks |-> 0, currentSlot |-> Header, freeSlots |-> <<>>] /\ held = {}
    BY DEF M!Init
  <1>2. M!free = {}
    BY <1>1 DEF M!free
  <1> QED
    BY <1>1, <1>2, SizesAssumption DEF PoolInv, PoolTypes, Within, Spaced, Once, Whole, OnSteps,
       Filled, Used

\* acquire takes the slot that was released last: it moves from the free slots to what
\* is held.
LEMMA ReuseStep ==
  ASSUME PoolInv, pool.freeSlots # <<>>, M!acquire
  PROVE  /\ PoolInv' /\ M!AcquiresAreFresh
  <1> DEFINE res == Head(pool.freeSlots)
  <1>1. /\ pool' = [pool EXCEPT !.freeSlots = Tail(@)]
        /\ held' = held \cup {res} /\ call' = <<"acquire", res>>
    BY DEF M!acquire
  <1>2. /\ pool.freeSlots \in Seq(Address) /\ pool'.freeSlots = Tail(pool.freeSlots)
        /\ pool'.blocks = pool.blocks /\ pool'.currentSlot = pool.currentSlot
        /\ pool' \in [blocks : Nat, currentSlot : Nat, freeSlots : Seq(Address)]
    <2>1. Tail(pool.freeSlots) \in Seq(Address)
      BY DEF PoolInv, PoolTypes
    <2> QED
      BY <1>1, <2>1 DEF PoolInv, PoolTypes
  <1>3. /\ res \in M!free /\ res \in Address
        /\ \A i \in DOMAIN pool'.freeSlots :
             i + 1 \in DOMAIN pool.freeSlots /\ pool'.freeSlots[i] = pool.freeSlots[i + 1]
        /\ 1 \in DOMAIN pool.freeSlots /\ res = pool.freeSlots[1]
    BY <1>2 DEF M!free
  <1>4. M!free' \subseteq M!free \ {res}
    BY <1>2, <1>3 DEF M!free, PoolInv, Once
  <1>5. Used' = Used
    <2>1. M!free \subseteq M!free' \cup {res}
      <3> SUFFICES ASSUME NEW i \in DOMAIN pool.freeSlots, i # 1
                   PROVE  pool.freeSlots[i] \in M!free'
        BY <1>3 DEF M!free
      <3>1. i - 1 \in DOMAIN Tail(pool.freeSlots) /\ Tail(pool.freeSlots)[i - 1] = pool.freeSlots[i]
        BY <1>2
      <3> QED
        BY <1>2, <3>1 DEF M!free
    <2> QED
      BY <1>1, <1>3, <1>4, <2>1 DEF Used
  <1>6. PoolTypes' /\ Within' /\ Spaced' /\ Whole' /\ OnSteps' /\ Filled'
    BY <1>1, <1>2, <1>3, <1>5 DEF PoolInv, PoolTypes, Within, Spaced, Whole, OnSteps, Filled, Steps,
       M!SlotsFit
  <1>7. held' \cap M!free' = {}
    BY <1>1, <1>4 DEF PoolInv, Once
  <1>8. Once'
    BY <1>2, <1>3, <1>7 DEF PoolInv, Once
  <1>9. M!AcquiresAreFresh
    BY <1>1, <1>3 DEF M!AcquiresAreFresh, PoolInv, Once
  <1> QED
    BY <1>6, <1>8, <1>9 DEF PoolInv

\* acquire takes the current slot, in the last block or in a new one.
LEMMA CarveStep ==
  ASSUME PoolInv, pool.freeSlots = <<>>, M!acquire
  PROVE  /\ PoolInv' /\ M!AcquiresAreFresh
  <1> DEFINE block == IF M!exhausted THEN pool.blocks + 1 ELSE pool.blocks
             slot == IF M!exhausted THEN Header ELSE pool.currentSlot
             res == <<block, slot>>
  <1>1. /\ pool' = [pool EXCEPT !.blocks = block, !.currentSlot = slot + SlotSize]
        /\ held' = held \cup {res} /\ call' = <<"acquire", res>>
    BY DEF M!acquire
  <1>2. /\ pool.blocks \in Nat /\ pool.currentSlot \in Nat /\ SlotSize \in Nat /\ SlotSize > 0
        /\ block \in Nat /\ slot \in Nat /\ BlockSize \in Nat /\ Header \in Nat
    BY SizesAssumption DEF PoolInv, PoolTypes
  <1>3. /\ pool'.blocks = block /\ pool'.currentSlot = slot + SlotSize
        /\ pool'.freeSlots = <<>> /\ M!free = {} /\ M!free' = {}
        /\ pool' \in [blocks : Nat, currentSlot : Nat, freeSlots : Seq(Address)]
    <2> HIDE DEF block, slot
    <2>1. slot + SlotSize \in Nat
      BY <1>2
    <2>2. /\ pool'.blocks = block /\ pool'.currentSlot = slot + SlotSize /\ pool'.freeSlots = <<>>
          /\ pool' \in [blocks : Nat, currentSlot : Nat, freeSlots : Seq(Address)]
      BY <1>1, <1>2, <2>1 DEF PoolInv, PoolTypes
    <2> QED
      BY <2>2 DEF M!free
  <1>4. block > 0 /\ Header <= slot /\ slot < BlockSize /\ block >= pool.blocks
    BY <1>2, SizesAssumption DEF M!exhausted, PoolInv, PoolTypes
  <1>5. \A a \in held : a \in Address /\ a[1] \in Nat /\ a[2] \in Nat /\ a[1] <= pool.blocks
    BY <1>2 DEF PoolInv, PoolTypes, Within, Used, Address
  <1>6. \A a \in held : a[1] = block => a[2] + SlotSize <= slot
    BY <1>2, <1>5 DEF PoolInv, Within, Used, M!exhausted
  <1>7. Used' = Used \cup {res} /\ Used = held /\ res \notin held /\ res[1] = block /\ res[2] = slot
    BY <1>1, <1>2, <1>3, <1>5, <1>6 DEF Used
  <1> HIDE DEF block, slot, res
  <1>8. PoolTypes'
    <2>1. res \in Address
      BY <1>2 DEF res, Address
    <2> QED
      BY <1>1, <1>2, <1>3, <1>4, <2>1 DEF PoolInv, PoolTypes
  <1>9. Within'
    BY <1>2, <1>3, <1>4, <1>5, <1>6, <1>7 DEF PoolInv, Within
  <1>10. Spaced'
    BY <1>5, <1>6, <1>7 DEF PoolInv, Spaced
  <1>11. Whole'
    <2> SUFFICES ASSUME M!SlotsFit PROVE
          /\ \E n \in Nat : pool'.currentSlot + n * SlotSize = BlockSize
          /\ \A a \in Used' : a[2] + SlotSize <= BlockSize
      BY DEF Whole, M!SlotsFit
    <2>1. PICK n \in Nat : slot + n * SlotSize = BlockSize
      <3>1. CASE M!exhausted
        <4>1. PICK n \in 1 .. BlockSize : Header + n * SlotSize = BlockSize
          BY DEF M!SlotsFit
        <4>2. n \in Nat /\ slot + n * SlotSize = BlockSize
          BY <3>1, <4>1, <1>2 DEF slot
        <4> QED
          BY <4>2, Zenon
      <3>2. CASE ~M!exhausted
        BY <3>2, <1>2 DEF M!exhausted, PoolInv, Whole, slot
      <3> QED
        BY <3>1, <3>2
    <2>2. n # 0
      BY <2>1, <1>2, <1>4
    <2>3. n - 1 \in Nat /\ n * SlotSize = (n - 1) * SlotSize + SlotSize
      BY <2>2, <1>2
    <2>4. (n - 1) * SlotSize \in Nat
      BY <2>3, <1>2
    <2>5. pool'.currentSlot + (n - 1) * SlotSize = BlockSize /\ slot + SlotSize <= BlockSize
      BY <2>1, <2>3, <2>4, <1>2, <1>3
    <2> QED
      BY <2>3, <2>5, <1>7 DEF PoolInv, Whole
  <1>12. Once' /\ M!AcquiresAreFresh
    BY <1>1, <1>3, <1>7 DEF Once, M!AcquiresAreFresh
  <1>13. Steps(slot) /\ Steps(slot + SlotSize)
    <2>1. PICK k \in Nat : slot = Header + k * SlotSize
      <3>1. CASE M!exhausted
        <4>1. 0 \in Nat /\ slot = Header + 0 * SlotSize
          BY <3>1, <1>2 DEF slot
        <4> QED
          BY <4>1, Zenon
      <3>2. CASE ~M!exhausted
        BY <3>2, <1>2 DEF M!exhausted, PoolInv, Filled, Steps, slot
      <3> QED
        BY <3>1, <3>2
    <2>2. k + 1 \in Nat /\ slot + SlotSize = Header + (k + 1) * SlotSize
      BY <2>1, <1>2
    <2> QED
      BY <2>1, <2>2 DEF Steps
  <1>14. OnSteps'
    BY <1>7, <1>13 DEF PoolInv, OnSteps, Steps
  <1>15. Filled'
    <2>1. Steps(pool.currentSlot)' /\ res \in Used'
      BY <1>3, <1>7, <1>13 DEF Steps
    <2>2. ASSUME NEW n \in 1 .. block, n < block
          PROVE  \E a \in Used : a[1] = n /\ a[2] + SlotSize >= BlockSize
      <3>1. CASE n < pool.blocks
        BY <3>1, <2>2, <1>2 DEF PoolInv, Filled
      <3>2. CASE n = pool.blocks
        <4>1. pool.blocks > 0 /\ pool.currentSlot >= BlockSize
          BY <3>2, <2>2, <1>2 DEF block, M!exhausted
        <4> QED
          BY <3>2, <4>1 DEF PoolInv, Filled
      <3> QED
        BY <3>1, <3>2, <2>2, <1>2 DEF block
    <2> QED
      BY <2>1, <2>2, <1>3, <1>7 DEF Filled, Steps
  <1> QED
    BY <1>8, <1>9, <1>10, <1>11, <1>12, <1>14, <1>15 DEF PoolInv

\* release puts a slot that is held before the free ones.
LEMMA ReleaseStep ==
  ASSUME PoolInv, NEW res \in held, M!release(res)
  PROVE  PoolInv' /\ M!AcquiresAreFresh
  <1>1. /\ pool' = [pool EXCEPT !.freeSlots = <<res>> \o @]
        /\ held' = held \ {res} /\ call' = <<"release", res>>
    BY DEF M!release
  <1>2. /\ res \in Address /\ pool.freeSlots \in Seq(Address)
        /\ pool'.freeSlots = <<res>> \o pool.freeSlots
        /\ pool'.blocks = pool.blocks /\ pool'.currentSlot = pool.currentSlot
        /\ pool' \in [blocks : Nat, currentSlot : Nat, freeSlots : Seq(Address)]
    <2>1. res \in Address /\ pool.freeSlots \in Seq(Address)
      BY DEF PoolInv, PoolTypes
    <2>2. <<res>> \o pool.freeSlots \in Seq(Address)
      BY <2>1
    <2> QED
      BY <1>1, <2>1, <2>2 DEF PoolInv, PoolTypes
  <1>3. /\ pool'.freeSlots[1] = res
        /\ \A i \in DOMAIN pool'.freeSlots :
             \/ i = 1
             \/ i - 1 \in DOMAIN pool.freeSlots /\ pool'.freeSlots[i] = pool.freeSlots[i - 1]
        /\ \A i \in DOMAIN pool'.freeSlots : i \in Nat
    <2> DEFINE s == pool.freeSlots
               t == <<res>> \o s
    <2>1. s \in Seq(Address) /\ pool'.freeSlots = t
      BY <1>2
    <2>2. /\ Len(t) = 1 + Len(s) /\ t[1] = res
          /\ \A i \in 1 .. Len(t) : i = 1 \/ (i - 1 \in 1 .. Len(s) /\ t[i] = s[i - 1])
      BY <2>1
    <2>3. DOMAIN t = 1 .. Len(t) /\ DOMAIN s = 1 .. Len(s) /\ Len(t) \in Nat
      BY <2>1
    <2> HIDE DEF s, t
    <2>4. \A i \in DOMAIN t : i \in Nat /\ (i = 1 \/ (i - 1 \in DOMAIN s /\ t[i] = s[i - 1]))
      BY <2>2, <2>3
    <2> QED
      BY <2>1, <2>2, <2>4 DEF s
  <1>4. M!free' \subseteq M!free \cup {res}
    BY <1>3 DEF M!free
  <1>5. Used' = Used
    <2>1. M!free \cup {res} \subseteq M!free'
      <3> DEFINE s == pool.freeSlots
                 t == <<res>> \o s
      <3>1. s \in Seq(Address) /\ pool'.freeSlots = t
        BY <1>2
      <3>2. 1 \in DOMAIN t /\ t[1] = res
        BY <3>1, <1>2
      <3>3. \A i \in DOMAIN s : i + 1 \in DOMAIN t /\ t[i + 1] = s[i]
        BY <3>1, <1>2
      <3> HIDE DEF s, t
      <3>4. M!free = {s[i] : i \in DOMAIN s} /\ M!free' = {t[i] : i \in DOMAIN t}
        BY <3>1 DEF M!free, s
      <3> QED
        BY <3>2, <3>3, <3>4
    <2> QED
      BY <1>1, <1>4, <2>1 DEF Used
  <1>6. PoolTypes' /\ Within' /\ Spaced' /\ Whole' /\ OnSteps' /\ Filled'
    BY <1>1, <1>2, <1>5 DEF PoolInv, PoolTypes, Within, Spaced, Whole, OnSteps, Filled, Steps,
       M!SlotsFit
  <1>7. held' \cap M!free' = {}
    BY <1>1, <1>4 DEF PoolInv, Once
  <1>8. \A i \in DOMAIN pool.freeSlots : pool.freeSlots[i] # res
    BY DEF PoolInv, Once, M!free
  <1>9. Once'
    BY <1>3, <1>7, <1>8 DEF PoolInv, Once
  <1> QED
    BY <1>1, <1>6, <1>9 DEF PoolInv, M!AcquiresAreFresh

LEMMA PoolStep == PoolInv /\ [M!Next]_poolVars => PoolInv' /\ [M!AcquiresAreFresh]_poolVars
  <1>1. ASSUME PoolInv, M!acquire PROVE PoolInv' /\ M!AcquiresAreFresh
    BY <1>1, ReuseStep, CarveStep
  <1>2. ASSUME PoolInv, NEW res \in held, M!release(res) PROVE PoolInv' /\ M!AcquiresAreFresh
    BY <1>2, ReleaseStep
  <1>3. ASSUME PoolInv, UNCHANGED poolVars PROVE PoolInv'
    BY <1>3 DEF poolVars, PoolInv, PoolTypes, Within, Spaced, Once, Whole, OnSteps, Filled, Steps,
       Used, M!free, M!SlotsFit
  <1> QED
    BY <1>1, <1>2, <1>3 DEF M!Next

\* Slots that are the size of a slot apart share no byte.
LEMMA SpacedIsApart == PoolInv => M!Apart
  <1> SUFFICES ASSUME PoolInv PROVE M!Apart
    OBVIOUS
  <1>1. \A a \in Used : a \in Address /\ a[1] \in Nat /\ a[2] \in Nat
    BY DEF PoolInv, PoolTypes, Used, M!free, Address
  <1>2. ASSUME NEW a \in Used, NEW b \in Used, a # b PROVE M!Units(a) \cap M!Units(b) = {}
    <2>1. SUFFICES ASSUME NEW k \in 0 .. SlotSize - 1, NEW l \in 0 .. SlotSize - 1,
                          a[1] = b[1], a[2] + k = b[2] + l
                   PROVE  FALSE
      BY DEF M!Units
    <2> QED
      BY <1>1, <1>2, <2>1, SizesAssumption DEF PoolInv, Spaced
  <1> QED
    BY <1>2 DEF M!Apart, PoolInv, Within, Once, Used

\* A slot that ends where its block ends tells that the slots fill the block.
LEMMA EndsMeet ==
  ASSUME NEW k \in Nat, Header + k * SlotSize + SlotSize = BlockSize
  PROVE  M!SlotsFit
  <1> DEFINE n == k + 1
  <1>1. /\ SlotSize \in Nat /\ SlotSize - 1 \in Nat /\ Header \in Nat /\ BlockSize \in Nat /\ n \in Nat
        /\ n >= 1 /\ k * SlotSize + SlotSize = n * SlotSize
    BY SizesAssumption
  <1>2. n * (SlotSize - 1) \in Nat /\ n * SlotSize = n * (SlotSize - 1) + n
    BY <1>1
  <1> HIDE DEF n
  <1>3. n * SlotSize \in Nat /\ Header + n * SlotSize = BlockSize
    BY <1>1, <1>2
  <1>4. n \in 1 .. BlockSize
    BY <1>1, <1>2, <1>3
  <1> QED
    BY <1>3, <1>4 DEF M!SlotsFit

\* The slots before the last one of a block are whole; the last one of a block that is
\* used up ends at the end of the block or behind it.
LEMMA FilledOverruns == PoolInv => M!OnlyTheLastOverruns
  <1> SUFFICES ASSUME PoolInv PROVE M!OnlyTheLastOverruns
    OBVIOUS
  <1> USE DEF M!IsWhole
  <1>1. \A a \in Used : a \in Address /\ a[1] \in Nat /\ a[2] \in Nat
    BY DEF PoolInv, PoolTypes, Used, M!free, Address
  <1>2. /\ pool.blocks \in Nat /\ pool.currentSlot \in Nat
        /\ SlotSize \in Nat /\ BlockSize \in Nat /\ Header \in Nat
    BY SizesAssumption DEF PoolInv, PoolTypes
  <1>3. ASSUME NEW a \in Used, NEW b \in Used, a[1] = b[1], a[2] < b[2] PROVE M!IsWhole(a)
    BY <1>1, <1>2, <1>3 DEF PoolInv, Spaced, Within
  <1>4. ASSUME NEW n \in 1 .. pool.blocks, ~M!IsUsedUp(n), NEW a \in Used, a[1] = n
        PROVE  M!IsWhole(a)
    BY <1>1, <1>2, <1>4 DEF M!IsUsedUp, M!exhausted, PoolInv, Within
  <1>5. ASSUME NEW n \in 1 .. pool.blocks, M!IsUsedUp(n),
               \A a \in Used : a[1] = n => M!IsWhole(a)
        PROVE  M!SlotsFit
    <2>1. PICK a \in Used : a[1] = n /\ a[2] + SlotSize >= BlockSize
      BY <1>2, <1>5 DEF M!IsUsedUp, M!exhausted, PoolInv, Filled
    <2>2. a[2] + SlotSize = BlockSize
      BY <1>1, <1>2, <1>5, <2>1
    <2>3. PICK k \in Nat : a[2] = Header + k * SlotSize
      BY DEF PoolInv, OnSteps, Steps
    <2> QED
      BY <2>2, <2>3, EndsMeet
  <1>6. M!SlotsFit => \A a \in Used : M!IsWhole(a)
    BY DEF PoolInv, Whole
  <1> QED
    BY <1>3, <1>4, <1>5, <1>6 DEF M!OnlyTheLastOverruns, Used

\* In each part a step is one of the pool, or leaves the pool alone.
LEMMA PartsOfThePool == /\ PartInit => M!Init
                        /\ [PartNext]_allVars => [M!Next]_poolVars
BY DEF PartInit, PartNext, allVars

\* Through any sequence of calls and for any sizes, acquire returns a resource that nobody
\* holds, and the slots of the pool begin in their blocks and do not overlap; those that end
\* behind their blocks are the last ones of the blocks that are used up, if the slots do not
\* fill the blocks.
THEOREM SlotsStayApart == PartSpec => ResourcesAreApart
<1> QED
  BY PoolInit, PoolStep, SpacedIsApart, FilledOverruns, PartsOfThePool, PTL DEF PartSpec, ResourcesAreApart

--------------------------------------------------------------------------------
(* The stream buffer. *)

WriterTypes ==
  [mode : {"write"}, fd : BOOLEAN, area : BOOLEAN, buffer : Seq(Nat), bad : BOOLEAN,
   file : Seq(Nat), opens : Nat, put : Nat, accepted : Seq(Nat), failed : BOOLEAN,
   partway : BOOLEAN]

\* The numbers of s grow, up to top.
Rising(s, top) ==
  /\ \A i \in 1 .. Len(s) : s[i] <= top
  /\ \A i, j \in 1 .. Len(s) : i < j => s[i] < s[j]

\* What was taken and is not lost is in the file and then in the buffer.
WriterOK(h) ==
  /\ h \in WriterTypes
  /\ ~h.fd => h.buffer = <<>> /\ ~h.area
  /\ ~h.failed => h.file \o h.buffer = h.accepted /\ ~h.partway
  /\ ~h.partway => Rising(h.file \o h.buffer, h.put)

LEMMA RisingGoesOn ==
  ASSUME NEW s \in Seq(Nat), NEW top \in Nat, Rising(s, top)
  PROVE  Rising(s, top + 1) /\ Rising(Append(s, top + 1), top + 1)
  <1>1. \A i \in 1 .. Len(s) : s[i] \in Nat
    OBVIOUS
  <1>2. Rising(s, top + 1)
    BY <1>1 DEF Rising
  <1> DEFINE t == Append(s, top + 1)
  <1>3. /\ Len(t) = Len(s) + 1 /\ t[Len(s) + 1] = top + 1 /\ Len(s) \in Nat
        /\ \A i \in 1 .. Len(s) : t[i] = s[i]
    BY AppendProperties
  <1> HIDE DEF t
  <1>4. \A i \in 1 .. Len(t) : i \in 1 .. Len(s) \/ i = Len(s) + 1
    BY <1>3
  <1>5. \A i \in 1 .. Len(s) : s[i] < top + 1
    BY <1>1 DEF Rising
  <1>6. Rising(t, top + 1)
    BY <1>1, <1>3, <1>4, <1>5 DEF Rising
  <1> QED
    BY <1>2, <1>6 DEF t

LEMMA AppendBehind ==
  ASSUME NEW s \in Seq(Nat), NEW t \in Seq(Nat), NEW c \in Nat
  PROVE  s \o Append(t, c) = Append(s \o t, c)
  <1>1. s \o t \in Seq(Nat) /\ <<c>> \in Seq(Nat)
    BY ConcatProperties
  <1>2. Append(t, c) = t \o <<c>> /\ Append(s \o t, c) = (s \o t) \o <<c>>
    BY <1>1, AppendIsConcat
  <1> QED
    BY <1>1, <1>2, ConcatAssociative

LEMMA RisingBefore ==
  ASSUME NEW s \in Seq(Nat), NEW t \in Seq(Nat), NEW top \in Nat, Rising(s \o t, top)
  PROVE  Rising(s, top)
  <1>1. /\ Len(s \o t) = Len(s) + Len(t) /\ Len(s) \in Nat /\ Len(t) \in Nat
        /\ \A i \in 1 .. Len(s) : (s \o t)[i] = s[i]
    BY ConcatProperties
  <1>2. \A i \in 1 .. Len(s) : i \in 1 .. Len(s \o t)
    BY <1>1
  <1> QED
    BY <1>1, <1>2 DEF Rising

\* A flush that comes to its end moves the buffer into the file, and one that fails at
\* once leaves both.
LEMMA FlushKeeps ==
  ASSUME NEW h, WriterOK(h), h.fd, NEW n \in 0 .. Len(h.buffer)
  PROVE  LET f == D!Flushed(h, n)
         IN /\ WriterOK(f) /\ f.fd /\ f.put = h.put
            /\ f.failed \/ f.buffer = <<>>
  <1> DEFINE f == D!Flushed(h, n)
             written == SubSeq(h.buffer, 1, n)
             s == h.file \o written
             rest == IF n = Len(h.buffer) THEN <<>> ELSE h.buffer
             area == n = Len(h.buffer) \/ h.area
             failed == h.failed \/ n # Len(h.buffer)
             partway == h.partway \/ (n # Len(h.buffer) /\ n > 0)
  <1>1. h.buffer \in Seq(Nat) /\ h.file \in Seq(Nat) /\ n \in Nat /\ Len(h.buffer) \in Nat
    BY DEF WriterOK, WriterTypes
  <1>2. s \in Seq(Nat) /\ rest \in Seq(Nat)
    BY <1>1
  <1>3. area \in BOOLEAN /\ failed \in BOOLEAN /\ partway \in BOOLEAN
    BY Zenon
  <1>4. f = [h EXCEPT !.file = s, !.buffer = rest, !.area = area, !.failed = failed,
                      !.partway = partway]
    BY Zenon DEF D!Flushed
  <1> HIDE DEF s, f, rest, area, failed, partway
  <1>5. /\ f \in WriterTypes
        /\ f.fd /\ f.file = s /\ f.put = h.put /\ f.accepted = h.accepted
        /\ f.buffer = rest /\ f.failed = failed /\ f.partway = partway
    BY <1>2, <1>3, <1>4 DEF WriterOK, WriterTypes
  <1>6. WriterOK(f) /\ (f.failed \/ f.buffer = <<>>)
    <2>1. CASE n = Len(h.buffer)
      <3>1. written = h.buffer
        BY <1>1, <2>1, SubSeqFull
      <3>2. s = h.file \o h.buffer /\ s \o <<>> = s
        BY <1>1, <1>2, <3>1, ConcatEmptySeq DEF s
      <3>3. rest = <<>> /\ failed = h.failed /\ partway = h.partway
        BY <2>1 DEF rest, failed, partway, WriterOK, WriterTypes
      <3> QED
        BY <1>5, <3>2, <3>3 DEF WriterOK
    <2>2. CASE n # Len(h.buffer) /\ n = 0
      <3>1. s = h.file
        BY <1>1, <2>2, SubSeqEmpty, ConcatEmptySeq DEF s
      <3>2. rest = h.buffer /\ failed /\ partway = h.partway
        BY <2>2 DEF rest, failed, partway, WriterOK, WriterTypes
      <3> QED
        BY <1>5, <3>1, <3>2 DEF WriterOK
    <2>3. CASE n # Len(h.buffer) /\ n > 0
      BY <1>5, <2>3 DEF WriterOK, failed, partway
    <2> QED
      BY <1>1, <2>1, <2>2, <2>3
  <1> QED
    BY <1>5, <1>6 DEF f

\* A character that the stream takes comes last, and is greater than all before it.
LEMMA TakenKeeps ==
  ASSUME NEW h, WriterOK(h), h.fd
  PROVE  WriterOK(D!Taken([h EXCEPT !.put = @ + 1]))
  <1> DEFINE f == D!Taken([h EXCEPT !.put = @ + 1])
             c == h.put + 1
             b == Append(h.buffer, c)
             a == Append(h.accepted, c)
  <1>1. h.buffer \in Seq(Nat) /\ h.file \in Seq(Nat) /\ h.accepted \in Seq(Nat) /\ h.put \in Nat
    BY DEF WriterOK, WriterTypes
  <1>2. c \in Nat /\ b \in Seq(Nat) /\ a \in Seq(Nat) /\ h.file \o h.buffer \in Seq(Nat)
    BY <1>1
  <1>3. f = [h EXCEPT !.put = c, !.buffer = b, !.accepted = a]
    BY DEF D!Taken, WriterOK, WriterTypes
  <1>4. h.file \o b = Append(h.file \o h.buffer, c)
    BY <1>1, <1>2, AppendBehind
  <1>5. Rising(h.file \o h.buffer, h.put) => Rising(Append(h.file \o h.buffer, c), c)
    BY <1>1, <1>2, RisingGoesOn
  <1>6. a = Append(h.accepted, c)
    OBVIOUS
  <1> HIDE DEF f, a, b, c
  <1>7. /\ f \in WriterTypes
        /\ f.fd /\ f.file = h.file /\ f.buffer = b /\ f.put = c
        /\ f.accepted = a /\ f.failed = h.failed /\ f.partway = h.partway
    BY <1>2, <1>3 DEF WriterOK, WriterTypes
  <1>8. WriterOK(f)
    BY <1>4, <1>5, <1>6, <1>7 DEF WriterOK
  <1> QED
    BY <1>8 DEF f

\* A stream that goes bad keeps what it has.
LEMMA BadKeeps ==
  ASSUME NEW h, WriterOK(h), NEW p \in Nat, p = h.put \/ p = h.put + 1
  PROVE  WriterOK([h EXCEPT !.put = p, !.bad = TRUE])
  <1> DEFINE f == [h EXCEPT !.put = p, !.bad = TRUE]
  <1>1. h.put \in Nat /\ h.file \o h.buffer \in Seq(Nat)
    BY DEF WriterOK, WriterTypes
  <1>2. Rising(h.file \o h.buffer, h.put) => Rising(h.file \o h.buffer, p)
    BY <1>1, RisingGoesOn
  <1>3. /\ f \in WriterTypes
        /\ f.fd = h.fd /\ f.area = h.area /\ f.file = h.file /\ f.buffer = h.buffer /\ f.put = p
        /\ f.accepted = h.accepted /\ f.failed = h.failed /\ f.partway = h.partway
    BY DEF WriterOK, WriterTypes
  <1> HIDE DEF f
  <1>4. WriterOK(f)
    BY <1>2, <1>3 DEF WriterOK
  <1> QED
    BY <1>4 DEF f

LEMMA WriterStep ==
  ASSUME WriterOK(handle), D!Next PROVE WriterOK(handle')
  <1>1. handle.mode = "write"
    BY DEF WriterOK, WriterTypes
  <1>2. CASE D!Open
    <2>1. handle' = [handle EXCEPT !.fd = TRUE, !.buffer = <<>>, !.area = FALSE, !.opens = @ + 1]
      BY <1>2 DEF D!Open
    <2>2. handle.buffer = <<>>
      BY <1>2 DEF D!Open, WriterOK
    <2>3. <<>> \in Seq(Nat) /\ handle.opens + 1 \in Nat
      BY DEF WriterOK, WriterTypes
    <2>4. handle' \in WriterTypes
      BY <2>1, <2>3 DEF WriterOK, WriterTypes
    <2>5. /\ handle'.fd /\ handle'.file = handle.file /\ handle'.buffer = handle.buffer
          /\ handle'.put = handle.put /\ handle'.accepted = handle.accepted
          /\ handle'.failed = handle.failed /\ handle'.partway = handle.partway
      BY <2>1, <2>2 DEF WriterOK, WriterTypes
    <2> QED
      BY <2>4, <2>5 DEF WriterOK
  <1>3. CASE D!Put
    <2> DEFINE p == handle.put + 1
               h == [handle EXCEPT !.put = p]
    <2>1. /\ p \in Nat /\ h.fd = handle.fd /\ h.area = handle.area /\ h.buffer = handle.buffer
          /\ h.put = p
      BY DEF WriterOK, WriterTypes
    <2>2. handle' \in IF h.area /\ Len(h.buffer) < bufferSize THEN {D!Taken(h)} ELSE D!overflow(h)
      BY <1>3 DEF D!Put
    <2>3. CASE handle' = D!Taken(h) /\ handle.fd
      BY <2>3, TakenKeeps
    <2>4. CASE handle' = [h EXCEPT !.bad = TRUE]
      <3>1. [h EXCEPT !.bad = TRUE] = [handle EXCEPT !.put = p, !.bad = TRUE]
        OBVIOUS
      <3> QED
        BY <2>1, <2>4, <3>1, BadKeeps
    <2>5. ASSUME handle.fd, NEW n \in 0 .. Len(h.buffer),
                 LET f == D!Flushed(h, n)
                 IN  handle' = IF D!Succeeds(f) THEN D!Taken(f) ELSE [f EXCEPT !.bad = TRUE]
          PROVE  WriterOK(handle')
      <3> DEFINE f == D!Flushed(h, n)
                 g == D!Flushed(handle, n)
      <3>1. WriterOK(g) /\ g.put = handle.put /\ g.fd
        BY <2>1, <2>5, FlushKeeps
      <3>2. f = [g EXCEPT !.put = @ + 1]
        BY <2>1, <3>1 DEF D!Flushed, WriterOK, WriterTypes
      <3>3. WriterOK(D!Taken(f))
        BY <3>1, <3>2, TakenKeeps
      <3>4. WriterOK([f EXCEPT !.bad = TRUE])
        <4>1. [f EXCEPT !.bad = TRUE] = [g EXCEPT !.put = p, !.bad = TRUE]
          BY <3>1, <3>2
        <4> QED
          BY <2>1, <3>1, <4>1, BadKeeps
      <3> QED
        BY <2>5, <3>3, <3>4
    <2>6. CASE ~handle.fd
      <3>1. ~(h.area /\ Len(h.buffer) < bufferSize)
        BY <2>1, <2>6 DEF WriterOK
      <3> QED
        BY <2>1, <2>2, <2>4, <2>6, <3>1 DEF D!overflow
    <2>7. CASE handle.fd /\ h.area /\ Len(h.buffer) < bufferSize
      BY <2>2, <2>3, <2>7
    <2>8. CASE handle.fd /\ ~(h.area /\ Len(h.buffer) < bufferSize)
      <3>1. PICK n \in 0 .. Len(h.buffer) :
              LET f == D!Flushed(h, n)
              IN  handle' = IF D!Succeeds(f) THEN D!Taken(f) ELSE [f EXCEPT !.bad = TRUE]
        BY <2>1, <2>2, <2>8 DEF D!overflow, D!flush
      <3> QED
        BY <2>5, <2>8, <3>1
    <2> QED
      BY <2>6, <2>7, <2>8
  <1>4. CASE D!sync
    <2>1. PICK n \in 0 .. Len(handle.buffer) :
            LET f == D!Flushed(handle, n)
            IN  handle' = IF D!Succeeds(f) THEN f ELSE [f EXCEPT !.bad = TRUE]
      BY <1>4 DEF D!sync, D!flush
    <2> DEFINE f == D!Flushed(handle, n)
    <2>2. handle.fd
      BY <1>4 DEF D!sync
    <2>3. WriterOK(f)
      BY <2>2, FlushKeeps
    <2> HIDE DEF f
    <2>4. f.put \in Nat /\ [f EXCEPT !.bad = TRUE] = [f EXCEPT !.put = f.put, !.bad = TRUE]
      BY <2>3 DEF WriterOK, WriterTypes
    <2>5. WriterOK([f EXCEPT !.bad = TRUE])
      BY <2>3, <2>4, BadKeeps
    <2> QED
      BY <2>1, <2>3, <2>5 DEF f
  <1>5. CASE D!reset
    <2>1. PICK n \in 0 .. Len(handle.buffer) :
            handle' = [D!Flushed(handle, n) EXCEPT !.fd = FALSE, !.buffer = <<>>, !.area = FALSE]
      BY <1>5 DEF D!reset, D!flush
    <2> DEFINE f == D!Flushed(handle, n)
    <2>2. handle.fd
      BY <1>5 DEF D!reset
    <2>3. WriterOK(f) /\ (f.failed \/ f.buffer = <<>>)
      BY <2>2, FlushKeeps
    <2>4. handle' = [f EXCEPT !.fd = FALSE, !.buffer = <<>>, !.area = FALSE]
      BY <2>1
    <2> HIDE DEF f
    <2>5. handle' \in WriterTypes
      <3>1. <<>> \in Seq(Nat)
        OBVIOUS
      <3> QED
        BY <2>3, <2>4, <3>1 DEF WriterOK, WriterTypes
    <2>6. /\ ~handle'.fd /\ ~handle'.area /\ handle'.file = f.file /\ handle'.buffer = <<>>
          /\ handle'.put = f.put /\ handle'.accepted = f.accepted
          /\ handle'.failed = f.failed /\ handle'.partway = f.partway
      BY <2>3, <2>4 DEF WriterOK, WriterTypes
    <2>7. f.file \in Seq(Nat) /\ f.buffer \in Seq(Nat) /\ f.put \in Nat
      BY <2>3 DEF WriterOK, WriterTypes
    <2>8. f.file \o <<>> = f.file
      BY <2>7, ConcatEmptySeq
    <2>9. Rising(f.file \o f.buffer, f.put) => Rising(f.file, f.put)
      BY <2>7, RisingBefore
    <2> QED
      BY <2>3, <2>5, <2>6, <2>8, <2>9 DEF WriterOK
  <1>6. CASE D!Done
    BY <1>6 DEF D!Done
  <1> QED
    BY <1>1, <1>2, <1>3, <1>4, <1>5, <1>6 DEF D!Next, D!Get, D!Seek, D!seekoff, D!IsReader

\* What is buffered is what follows in the file, up to the place of the descriptor.
ReaderOK(h) ==
  /\ h \in [mode : {"read"}, fd : BOOLEAN, get : Seq(Nat), offset : Nat, place : Nat,
            astray : BOOLEAN]
  /\ ~h.astray =>
       /\ h.offset = h.place + Len(h.get)
       /\ \A i \in 1 .. Len(h.get) : h.get[i] = h.place + i

\* The character that is read is the one before the next.
LEMMA DeliveredKeeps ==
  ASSUME NEW h, ReaderOK(h), ~h.astray, h.get # <<>>
  PROVE  ReaderOK(D!Delivered(h))
  <1> DEFINE g == h.get
             t == Tail(g)
             f == D!Delivered(h)
  <1>1. g \in Seq(Nat) /\ h.place \in Nat /\ g # <<>>
    BY DEF ReaderOK
  <1>2. /\ t \in Seq(Nat) /\ Len(t) = Len(g) - 1 /\ Len(g) \in Nat
        /\ \A i \in 1 .. Len(t) : i + 1 \in 1 .. Len(g) /\ t[i] = g[i + 1]
    BY <1>1
  <1>3. f = [h EXCEPT !.get = t, !.place = h.place + 1] /\ h.place + 1 \in Nat
    BY <1>1 DEF D!Delivered
  <1> HIDE DEF t, f
  <1>4. /\ f \in [mode : {"read"}, fd : BOOLEAN, get : Seq(Nat), offset : Nat, place : Nat,
                   astray : BOOLEAN]
        /\ f.get = t /\ f.offset = h.offset /\ f.place = h.place + 1
    BY <1>2, <1>3 DEF ReaderOK
  <1>5. h.offset = (h.place + 1) + Len(t)
    BY <1>1, <1>2 DEF ReaderOK
  <1>6. \A i \in 1 .. Len(t) : t[i] = (h.place + 1) + i
    BY <1>1, <1>2 DEF ReaderOK
  <1>7. ReaderOK(f)
    BY <1>4, <1>5, <1>6 DEF ReaderOK
  <1> QED
    BY <1>7 DEF f

LEMMA ReaderStep ==
  ASSUME ReaderOK(handle), D!Next PROVE ReaderOK(handle')
  <1>1. handle.mode = "read" /\ handle.get \in Seq(Nat) /\ handle.offset \in Nat /\ handle.place \in Nat
    BY DEF ReaderOK
  <1>2. CASE D!Get
    <2>1. ~handle.astray
      BY <1>2 DEF D!Get, D!IsReader
    <2>2. CASE handle.get # <<>>
      BY <1>2, <2>1, <2>2, DeliveredKeeps DEF D!Get
    <2>3. CASE handle.get = <<>> /\ handle' # handle
      <3>1. PICK n \in Nat \ {0} :
              handle' = D!Delivered([handle EXCEPT !.get = [i \in 1 .. n |-> handle.offset + i],
                                                  !.offset = @ + n])
        <4>1. handle' \in D!underflow(handle)
          BY <1>2, <2>3 DEF D!Get
        <4> DEFINE rest == IF handle.offset < FileSize THEN FileSize - handle.offset ELSE 0
                   most == IF rest < bufferSize THEN rest ELSE bufferSize
        <4>2. most # 0
          BY <4>1, <2>3 DEF D!underflow
        <4>3. PICK n \in 1 .. most :
                handle' = D!Delivered([handle EXCEPT !.get = [i \in 1 .. n |-> handle.offset + i],
                                                    !.offset = @ + n])
          BY <4>1, <4>2, Zenon DEF D!underflow
        <4>4. most \in Nat
          BY <1>1, SizesAssumption
        <4>5. n \in Nat \ {0}
          BY <4>4
        <4> QED
          BY <4>3, <4>5, Zenon
      <3> DEFINE g == [i \in 1 .. n |-> handle.offset + i]
                 h == [handle EXCEPT !.get = g, !.offset = @ + n]
      <3>2. g \in Seq(Nat) /\ Len(g) = n /\ g # <<>> /\ \A i \in 1 .. n : g[i] = handle.offset + i
        BY <1>1
      <3>3. handle.offset + n \in Nat /\ handle.offset = handle.place
        BY <1>1, <2>1, <2>3 DEF ReaderOK
      <3> HIDE DEF g
      <3>4. /\ h \in [mode : {"read"}, fd : BOOLEAN, get : Seq(Nat), offset : Nat, place : Nat,
                       astray : BOOLEAN]
            /\ h.get = g /\ h.offset = handle.offset + n /\ h.place = handle.place /\ ~h.astray
        BY <2>1, <3>2, <3>3 DEF ReaderOK
      <3>5. ReaderOK(h)
        BY <3>2, <3>3, <3>4 DEF ReaderOK
      <3> QED
        BY <3>1, <3>2, <3>4, <3>5, DeliveredKeeps DEF g
    <2> QED
      BY <2>2, <2>3
  <1>3. CASE D!Seek
    <2>1. PICK off \in {-(FileSize + 1), -1, 0, 1}, way \in {"beg", "cur", "end"} :
            D!seekoff(off, way)
      BY <1>3 DEF D!Seek
    <2> DEFINE new == CASE way = "beg" -> off
                        [] way = "cur" -> off - Len(handle.get) + handle.offset
                        [] way = "end" -> off + FileSize
               meant == IF way = "cur" THEN handle.place + off ELSE new
    <2>2. ~handle.astray
      BY <2>1 DEF D!seekoff, D!IsReader
    <2>3. handle' =
            IF new >= 0 THEN [handle EXCEPT !.get = <<>>, !.offset = new, !.place = meant]
            ELSE IF way = "end" THEN [handle EXCEPT !.offset = FileSize, !.astray = TRUE]
            ELSE handle
      BY <2>1, Zenon DEF D!seekoff
    <2>4. new \in Int /\ meant = new
      <3>1. off \in Int /\ Len(handle.get) \in Nat
        BY <1>1, SizesAssumption
      <3>2. handle.offset = handle.place + Len(handle.get)
        BY <2>2 DEF ReaderOK
      <3>3. CASE way = "beg"
        BY <3>1, <3>3
      <3>4. CASE way = "cur"
        <4>1. new = off - Len(handle.get) + handle.offset /\ meant = handle.place + off
          BY <3>4
        <4> HIDE DEF new, meant
        <4> QED
          BY <1>1, <3>1, <3>2, <4>1
      <3>5. CASE way = "end"
        BY <3>1, <3>5, SizesAssumption
      <3> QED
        BY <3>3, <3>4, <3>5
    <2> HIDE DEF new, meant
    <2>5. CASE new >= 0
      <3>1. new \in Nat /\ <<>> \in Seq(Nat) /\ Len(<<>>) = 0
        BY <2>4, <2>5
      <3>2. handle' = [handle EXCEPT !.get = <<>>, !.offset = new, !.place = new]
        BY <2>3, <2>4, <2>5
      <3>3. /\ handle' \in [mode : {"read"}, fd : BOOLEAN, get : Seq(Nat), offset : Nat,
                             place : Nat, astray : BOOLEAN]
            /\ handle'.get = <<>> /\ handle'.offset = new /\ handle'.place = new
        BY <3>1, <3>2 DEF ReaderOK
      <3> QED
        BY <3>1, <3>3 DEF ReaderOK
    <2>6. CASE ~(new >= 0) /\ way = "end"
      <3>1. handle' = [handle EXCEPT !.offset = FileSize, !.astray = TRUE]
        BY <2>3, <2>6
      <3> QED
        BY <3>1, SizesAssumption DEF ReaderOK
    <2> QED
      BY <2>3, <2>5, <2>6
  <1>4. CASE D!Done
    BY <1>4 DEF D!Done
  <1> QED
    BY <1>1, <1>2, <1>3, <1>4 DEF D!Next, D!Open, D!Put, D!sync, D!reset, D!IsWriter

StreamInv == WriterOK(handle) \/ ReaderOK(handle)

LEMMA StreamInit == D!Init => StreamInv
  <1> SUFFICES ASSUME D!Init PROVE StreamInv
    OBVIOUS
  <1>1. CASE handle = D!Writer
    <2>1. handle \in WriterTypes
      BY <1>1 DEF D!Writer, WriterTypes
    <2>2. /\ handle.buffer = <<>> /\ handle.file = <<>> /\ handle.accepted = <<>> /\ ~handle.partway
          /\ ~handle.area /\ handle.put = 0
      BY <1>1 DEF D!Writer
    <2>3. <<>> \o <<>> = <<>> /\ Len(<<>>) = 0
      OBVIOUS
    <2>4. Rising(<<>>, 0)
      BY <2>3 DEF Rising
    <2> QED
      BY <2>1, <2>2, <2>3, <2>4 DEF StreamInv, WriterOK
  <1>2. CASE handle = D!Reader
    BY <1>2 DEF D!Reader, StreamInv, ReaderOK
  <1> QED
    BY <1>1, <1>2 DEF D!Init

LEMMA StreamStep == StreamInv /\ [D!Next]_handle => StreamInv'
  <1> SUFFICES ASSUME StreamInv, [D!Next]_handle PROVE WriterOK(handle') \/ ReaderOK(handle')
    BY DEF StreamInv, WriterOK, ReaderOK
  <1> QED
    BY WriterStep, ReaderStep DEF StreamInv

LEMMA PartsOfTheStream == /\ PartInit => D!Init
                          /\ [PartNext]_allVars => [D!Next]_handle
BY DEF PartInit, PartNext, allVars

LEMMA StreamIsRight == StreamInv => CharactersPassOnce
  <1>1. ASSUME WriterOK(handle) PROVE CharactersPassOnce
    <2>1. /\ handle.mode = "write" /\ handle.file \in Seq(Nat) /\ handle.buffer \in Seq(Nat)
          /\ handle.put \in Nat
      BY <1>1 DEF WriterOK, WriterTypes
    <2>2. ~handle.partway => Rising(handle.file, handle.put)
      BY <1>1, <2>1, RisingBefore DEF WriterOK
    <2>3. ASSUME NEW s \in Seq(Nat), NEW top \in Nat, Rising(s, top) PROVE D!IsIncreasing(s)
      <3>1. \A i \in 2 .. Len(s) : i - 1 \in 1 .. Len(s) /\ i \in 1 .. Len(s) /\ i - 1 < i
        OBVIOUS
      <3>2. \A i, j \in 1 .. Len(s) : i < j => s[i] < s[j]
        BY <2>3 DEF Rising
      <3> QED
        BY <3>1, <3>2 DEF D!IsIncreasing
    <2> QED
      <3>1. ~handle.partway => D!IsIncreasing(handle.file)
        BY <2>1, <2>2, <2>3
      <3> QED
        BY <1>1, <2>1, <3>1 DEF CharactersPassOnce, D!WritesArriveOnce, D!ReadsFollowTheFile, D!IsReader, WriterOK
  <1>2. ASSUME ReaderOK(handle) PROVE CharactersPassOnce
    BY <1>2 DEF CharactersPassOnce, D!WritesArriveOnce, D!ReadsFollowTheFile, D!IsReader, D!IsWriter,
                ReaderOK
  <1> QED
    BY <1>1, <1>2 DEF StreamInv

\* Through short writes and reads, full buffers, failures and opening again, for any sizes
\* of buffer and file: what a stream has taken is in the file or in the buffer, nothing is
\* twice in the file, and a reader reads on from where the last seek has promised.
THEOREM CharactersDoPass == PartSpec => []CharactersPassOnce
<1> QED
  BY StreamInit, StreamStep, StreamIsRight, PartsOfTheStream, PTL DEF PartSpec
================================================================================
