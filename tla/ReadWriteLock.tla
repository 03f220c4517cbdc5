----------------------------- MODULE ReadWriteLock -----------------------------
(***************************************************************************)
(* utility::common::ReadWriteLock (common.cpp) as LockGuard drives it.     *)
(*                                                                         *)
(* The lock has two stages.  A caller first takes the std::shared_mutex    *)
(* rwLock (shared to read, exclusive to write) and, still holding it,      *)
(* waits on cond until the counters reader and writer let it in; rwLock is *)
(* released when readLock/writeLock returns, so what a holder keeps is     *)
(* only its unit of a counter.                                             *)
(*                                                                         *)
(* The counters are read and written under mtx only, so one critical       *)
(* section of mtx is one step; the notify_all that follows each unlock is  *)
(* a step of its own.  A wait may also end spuriously.                     *)
(***************************************************************************)
EXTENDS Naturals, FiniteSets

CONSTANT Threads   \* the threads that use the lock

ASSUME ThreadsAssumption == IsFiniteSet(Threads)

VARIABLES
  pc,         \* where each thread is in LockGuard's constructor or destructor
  rwShared,   \* threads that hold rwLock through a std::shared_lock
  rwExcl,     \* threads that hold rwLock through a std::unique_lock
  reader,     \* the counter of readers
  writer,     \* the counter of writers
  waiting     \* threads blocked in cond.wait

vars == <<pc, rwShared, rwExcl, reader, writer, waiting>>

Labels == {"out", "rCheck", "rLeave", "reading", "rNotify",
                  "wCheck", "wLeave", "writing", "wNotify"}

TypeOK ==
  /\ pc \in [Threads -> Labels]
  /\ rwShared \in SUBSET Threads
  /\ rwExcl \in SUBSET Threads
  /\ reader \in Nat
  /\ writer \in Nat
  /\ waiting \in SUBSET Threads

Init ==
  /\ pc = [t \in Threads |-> "out"]
  /\ rwShared = {}
  /\ rwExcl = {}
  /\ reader = 0
  /\ writer = 0
  /\ waiting = {}

Goto(t, from, to) == pc[t] = from /\ pc' = [pc EXCEPT ![t] = to]

\* The predicate loop of cond.wait: pass and go to label next, or block.
CondWait(t, passes, here, next) ==
  /\ t \notin waiting
  /\ \/ /\ passes
        /\ Goto(t, here, next)
        /\ UNCHANGED waiting
     \/ /\ ~passes
        /\ pc[t] = here
        /\ waiting' = waiting \cup {t}
        /\ UNCHANGED pc

--------------------------------------------------------------------------------
\* readLock: take rwLock shared.
ReadLockEnter(t) ==
  /\ Goto(t, "out", "rCheck")
  /\ rwExcl = {}
  /\ rwShared' = rwShared \cup {t}
  /\ UNCHANGED <<rwExcl, reader, writer, waiting>>

\* readLock: under mtx, wait for writer = 0 and count the reader.
ReadLockCheck(t) ==
  /\ CondWait(t, writer = 0, "rCheck", "rLeave")
  /\ reader' = IF writer = 0 THEN reader + 1 ELSE reader
  /\ UNCHANGED <<rwShared, rwExcl, writer>>

\* readLock returns: rLock goes out of scope.
ReadLockLeave(t) ==
  /\ Goto(t, "rLeave", "reading")
  /\ rwShared' = rwShared \ {t}
  /\ UNCHANGED <<rwExcl, reader, writer, waiting>>

\* readUnlock, up to lock.unlock().
ReadUnlock(t) ==
  /\ Goto(t, "reading", "rNotify")
  /\ reader' = reader - 1
  /\ UNCHANGED <<rwShared, rwExcl, writer, waiting>>

\* writeLock: take rwLock exclusively.
WriteLockEnter(t) ==
  /\ Goto(t, "out", "wCheck")
  /\ rwExcl = {} /\ rwShared = {}
  /\ rwExcl' = {t}
  /\ UNCHANGED <<rwShared, reader, writer, waiting>>

MutWriteLockCheck(t) ==   \* the predicate forgets the active writer
  /\ CondWait(t, reader = 0, "wCheck", "wLeave")
  /\ writer' = IF reader = 0 THEN writer + 1 ELSE writer
  /\ UNCHANGED <<rwShared, rwExcl, reader>>

\* writeLock: under mtx, wait for both counters to be 0 and count the writer.
WriteLockCheck(t) ==
  LET free == reader = 0 /\ writer = 0
  IN /\ CondWait(t, free, "wCheck", "wLeave")
     /\ writer' = IF free THEN writer + 1 ELSE writer
     /\ UNCHANGED <<rwShared, rwExcl, reader>>

\* writeLock returns: wLock goes out of scope.
WriteLockLeave(t) ==
  /\ Goto(t, "wLeave", "writing")
  /\ rwExcl' = rwExcl \ {t}
  /\ UNCHANGED <<rwShared, reader, writer, waiting>>

MutWriteUnlock(t) ==   \* the counter is not given back
  /\ Goto(t, "writing", "wNotify")
  /\ UNCHANGED <<rwShared, rwExcl, reader, writer, waiting>>

\* writeUnlock, up to lock.unlock().
WriteUnlock(t) ==
  /\ Goto(t, "writing", "wNotify")
  /\ writer' = writer - 1
  /\ UNCHANGED <<rwShared, rwExcl, reader, waiting>>

MutNotifyAll(t) ==   \* a reader leaves without waking anybody
  /\ \/ Goto(t, "rNotify", "out") /\ UNCHANGED waiting
     \/ Goto(t, "wNotify", "out") /\ waiting' = {}
  /\ UNCHANGED <<rwShared, rwExcl, reader, writer>>

\* cond.notify_all() at the end of readUnlock and writeUnlock.
NotifyAll(t) ==
  /\ Goto(t, "rNotify", "out") \/ Goto(t, "wNotify", "out")
  /\ waiting' = {}
  /\ UNCHANGED <<rwShared, rwExcl, reader, writer>>

\* cond.wait returns without a notification and tests its predicate again.
SpuriousWakeup(t) ==
  /\ t \in waiting
  /\ waiting' = waiting \ {t}
  /\ UNCHANGED <<pc, rwShared, rwExcl, reader, writer>>

\* The steps a thread takes once it is inside LockGuard, or has to give it up.
Step(t) ==
  \/ ReadLockCheck(t)  \/ ReadLockLeave(t)  \/ ReadUnlock(t)
  \/ WriteLockCheck(t) \/ WriteLockLeave(t) \/ WriteUnlock(t)
  \/ NotifyAll(t)

Next ==
  \E t \in Threads :
    ReadLockEnter(t) \/ WriteLockEnter(t) \/ Step(t) \/ SpuriousWakeup(t)

Spec == Init /\ [][Next]_vars

(***************************************************************************)
(* A thread inside the lock is scheduled, and a LockGuard is a scoped      *)
(* object, so its holder eventually releases it.  Nothing is assumed about *)
(* entering: std::shared_mutex promises no order.                          *)
(***************************************************************************)
FairSpec == Spec /\ \A t \in Threads : WF_vars(Step(t))

--------------------------------------------------------------------------------
At(labels) == {t \in Threads : pc[t] \in labels}

Readers == At({"rLeave", "reading"})   \* threads counted in reader
Writers == At({"wLeave", "writing"})   \* threads counted in writer

\* The counters are exactly the holders: neither unlock can wrap below zero and
\* no unit is lost on the way through the two stages.
CountersMatchHolders ==
  /\ reader = Cardinality(Readers)
  /\ writer = Cardinality(Writers)

\* readLock/writeLock exclude each other: a writer is alone between writeLock
\* and writeUnlock, although it gives rwLock back as soon as it is in.
WriterIsAlone ==
  /\ Writers # {} => Readers = {}
  /\ \A t, u \in Writers : t = u

\* rwLock itself: one exclusive holder, and then no shared holder.
StageOneExclusive ==
  /\ rwShared = At({"rCheck", "rLeave"})
  /\ rwExcl = At({"wCheck", "wLeave"})
  /\ rwExcl # {} => rwShared = {}
  /\ \A t, u \in rwExcl : t = u

\* No wake-up is lost: a thread sleeps in cond.wait only while somebody holds the
\* lock or has still to call notify_all.
SleepersHaveAWaker ==
  waiting # {} => \/ Readers \cup Writers # {}
                  \/ At({"rNotify", "wNotify"}) # {}

IInv == TypeOK /\ CountersMatchHolders /\ WriterIsAlone /\ StageOneExclusive

\* A thread that has passed rwLock gets the lock: a stream of new readers cannot
\* starve the writer that waits for the old ones to drain, and vice versa.
EntrantsAreServed ==
  \A t \in Threads : /\ pc[t] = "wCheck" ~> pc[t] = "writing"
                     /\ pc[t] = "rCheck" ~> pc[t] = "reading"

Abstract == INSTANCE RWLockSpec WITH reading <- Readers, writing <- Writers

\* The two-stage lock implements the plain readers-writer lock.
ImplementsRWLock == Abstract!LockSpec
================================================================================
