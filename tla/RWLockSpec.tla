------------------------------ MODULE RWLockSpec ------------------------------
(***************************************************************************)
(* What utility::common::ReadWriteLock promises to a user of LockGuard:    *)
(* any number of readers, or one writer and nobody else.  The detailed     *)
(* lock (ReadWriteLock) implements this module; the logger uses the        *)
(* operators below for its fileLock.                                       *)
(***************************************************************************)
CONSTANT Threads

VARIABLES
  reading,   \* the threads that hold the lock in LockMode::read
  writing    \* the threads that hold the lock in LockMode::write

lockVars == <<reading, writing>>

CanRead  == writing = {}
CanWrite == writing = {} /\ reading = {}

LockInit == reading = {} /\ writing = {}

AcquireRead(t) ==
  /\ t \notin reading
  /\ CanRead
  /\ reading' = reading \cup {t}
  /\ UNCHANGED writing

AcquireWrite(t) ==
  /\ CanWrite
  /\ writing' = {t}
  /\ UNCHANGED reading

ReleaseRead(t) ==
  /\ t \in reading
  /\ reading' = reading \ {t}
  /\ UNCHANGED writing

ReleaseWrite(t) ==
  /\ t \in writing
  /\ writing' = writing \ {t}
  /\ UNCHANGED reading

LockNext ==
  \E t \in Threads :
    AcquireRead(t) \/ AcquireWrite(t) \/ ReleaseRead(t) \/ ReleaseWrite(t)

LockSpec == LockInit /\ [][LockNext]_lockVars
================================================================================
