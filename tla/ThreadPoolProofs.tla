--------------------------- MODULE ThreadPoolProofs ---------------------------
(***************************************************************************)
(* Proofs about ThreadPool for any workers and tasks.  The invariant that  *)
(* carries them is accepted = started \o taskQueue; the destructor's       *)
(* promise follows from it, from the two ends of a task's run              *)
(* (StartedIsHeldOrDone) and from the queue being empty once releaseReady  *)
(* is set (NothingAfterRelease).                                           *)
(***************************************************************************)
EXTENDS ThreadPool, SequenceTheorems, TLAPS

\* push on the queue is push on the concatenation.
LEMMA ConcatAppend ==
  ASSUME NEW S, NEW s \in Seq(S), NEW q \in Seq(S), NEW t \in S
  PROVE  s \o Append(q, t) = Append(s \o q, t)
  BY AppendIsConcat, ConcatAssociative, ConcatProperties, <<t>> \in Seq(S)

\* pop from the queue moves the border inside the concatenation.
LEMMA ConcatShift ==
  ASSUME NEW S, NEW s \in Seq(S), NEW q \in Seq(S), q # <<>>
  PROVE  /\ Head(q) \in S
         /\ Tail(q) \in Seq(S)
         /\ Append(s, Head(q)) \in Seq(S)
         /\ Append(s, Head(q)) \o Tail(q) = s \o q
  <1>1. Head(q) \in S /\ Tail(q) \in Seq(S) /\ q = <<Head(q)>> \o Tail(q)
    BY HeadTailProperties, HeadTailAppend, ConcatProperties
  <1>2. Append(s, Head(q)) = s \o <<Head(q)>> /\ Append(s, Head(q)) \in Seq(S)
    BY <1>1, AppendIsConcat, AppendProperties
  <1>3. <<Head(q)>> \in Seq(S)
    BY <1>1
  <1>4. QED
    BY <1>1, <1>2, <1>3, ConcatAssociative

\* The tasks of a sequence after a push.
LEMMA RangeAppend ==
  ASSUME NEW S, NEW s \in Seq(S), NEW t \in S
  PROVE  Range(Append(s, t)) = Range(s) \cup {t}
  <1>1. <<t>> \in Seq(S) /\ Range(<<t>>) = {t}
    BY DEF Range
  <1>2. Append(s, t) = s \o <<t>>
    BY AppendIsConcat
  <1>3. Range(s \o <<t>>) = Range(s) \cup Range(<<t>>)
    BY <1>1, RangeConcatenation
  <1>4. QED
    BY <1>1, <1>2, <1>3

LEMMA RangeInside == ASSUME NEW S, NEW s \in Seq(S) PROVE Range(s) \subseteq S
  BY DEF Range

\* The pool is created idle: nothing is queued, held or promised.
LEMMA InitIInv == ThreadInit => ThreadIInv
  <1> SUFFICES ASSUME ThreadInit PROVE ThreadIInv
    OBVIOUS
  <1> USE DEF ThreadInit
  <1>1. ThreadTypeOK
    <2>1. <<>> \in Seq(Tasks) /\ FALSE \in BOOLEAN
      OBVIOUS
    <2>2. QED
      BY <2>1, Zenon DEF ThreadTypeOK
  <1>2. Control
    BY DEF Control
  <1>3. Range(<<>>) = {} /\ Taken = {}
    BY DEF Range, Taken
  <1>4. StartedInOrder /\ StartedIsHeldOrDone
    BY <1>3, ConcatEmptySeq DEF StartedInOrder, StartedIsHeldOrDone
  <1>5. NothingAfterRelease /\ QueueHasAWorker /\ NobodyIsForgotten
    BY <1>3 DEF NothingAfterRelease, QueueHasAWorker, NobodyIsForgotten
  <1>6. QED
    BY <1>1, <1>2, <1>4, <1>5 DEF ThreadIInv

\* What is common to the two calls of enqueue that are accepted.
LEMMA AcceptKeeps ==
  ASSUME ThreadTypeOK, StartedInOrder, NothingAfterRelease, NEW t \in Tasks, Accept(t)
  PROVE  /\ taskQueue' \in Seq(Tasks) /\ accepted' \in Seq(Tasks)
         /\ taskQueue' # <<>>
         /\ StartedInOrder'
         /\ rejected' \cap Range(accepted)' = {}
  <1>1. taskQueue' \in Seq(Tasks) /\ accepted' \in Seq(Tasks) /\ taskQueue' # <<>>
    BY DEF ThreadTypeOK, Accept
  <1>2. StartedInOrder'
    <2>1. /\ started \in Seq(Tasks) /\ taskQueue \in Seq(Tasks)
          /\ accepted = started \o taskQueue
      BY DEF ThreadTypeOK, StartedInOrder
    <2>2. started \o Append(taskQueue, t) = Append(started \o taskQueue, t)
      BY <2>1, ConcatAppend
    <2>3. QED
      BY <2>1, <2>2 DEF Accept, StartedInOrder
  <1>3. Range(accepted)' = Range(accepted) \cup {t}
    BY RangeAppend DEF Accept, ThreadTypeOK
  <1>4. QED
    BY <1>1, <1>2, <1>3 DEF Accept, NothingAfterRelease

\* Every step of the pool preserves the invariant.
LEMMA StepIInv == ThreadIInv /\ [ThreadNext]_threadVars => ThreadIInv'
  <1> SUFFICES ASSUME ThreadIInv, [ThreadNext]_threadVars PROVE ThreadIInv'
    OBVIOUS
  <1> USE DEF ThreadIInv, history, WorkerAt, WorkerGoto
  <1>1. ASSUME NEW t \in Tasks, OwnerEnqueue(t) PROVE ThreadIInv'
    <2>1. Taken' = Taken
      BY <1>1 DEF OwnerEnqueue, Taken
    <2>2. ThreadTypeOK' /\ Control'
      BY <1>1, AcceptKeeps DEF OwnerEnqueue, ThreadTypeOK, Control, Accept
    <2>3. StartedInOrder' /\ StartedIsHeldOrDone'
      BY <1>1, <2>1, AcceptKeeps DEF OwnerEnqueue, StartedIsHeldOrDone, Accept
    <2>4. NothingAfterRelease'
      BY <1>1, AcceptKeeps DEF OwnerEnqueue, NothingAfterRelease, Accept
    <2>5. QueueHasAWorker' /\ NobodyIsForgotten'
      BY <1>1, AcceptKeeps DEF OwnerEnqueue, Accept, QueueHasAWorker, NobodyIsForgotten
    <2>6. QED
      BY <2>2, <2>3, <2>4, <2>5
  <1>2. ASSUME NEW w \in Workers, NEW t \in Tasks, TaskEnqueue(w, t) PROVE ThreadIInv'
    <2>1. Taken' = Taken
      BY <1>2 DEF TaskEnqueue, Taken, ThreadTypeOK
    <2>2. ThreadTypeOK' /\ Control'
      BY <1>2, AcceptKeeps DEF TaskEnqueue, ThreadTypeOK, Control, Accept
    <2>3. StartedInOrder' /\ StartedIsHeldOrDone'
      BY <1>2, <2>1, AcceptKeeps DEF TaskEnqueue, StartedIsHeldOrDone, Accept
    <2>4. NothingAfterRelease'
      BY <1>2, AcceptKeeps DEF TaskEnqueue, NothingAfterRelease, Accept, ThreadTypeOK
    <2>5. QueueHasAWorker' /\ NobodyIsForgotten'
      BY <1>2, AcceptKeeps DEF TaskEnqueue, Accept, QueueHasAWorker, NobodyIsForgotten, ThreadTypeOK
    <2>6. QED
      BY <2>2, <2>3, <2>4, <2>5
  <1>3. ASSUME NEW w \in Workers, WorkerTake(w) PROVE ThreadIInv'
    <2> DEFINE h == Head(taskQueue)
    <2>1. /\ h \in Tasks /\ taskQueue' \in Seq(Tasks) /\ started' \in Seq(Tasks)
          /\ started' \o taskQueue' = started \o taskQueue
          /\ Range(started)' = Range(started) \cup {h}
      BY <1>3, ConcatShift, RangeAppend DEF WorkerTake, ThreadTypeOK
    <2>2. /\ Taken' = Taken \cup {w} /\ w \notin Taken
          /\ thdTask' = [thdTask EXCEPT ![w] = h]
      BY <1>3 DEF WorkerTake, Taken, ThreadTypeOK
    <2>3. {thdTask'[v] : v \in Taken'} = {thdTask[v] : v \in Taken} \cup {h}
      BY <2>2 DEF ThreadTypeOK, Taken
    <2>4. ThreadTypeOK' /\ Control'
      BY <1>3, <2>1 DEF WorkerTake, ThreadTypeOK, Control
    <2>5. StartedInOrder' /\ StartedIsHeldOrDone'
      BY <1>3, <2>1, <2>3 DEF WorkerTake, StartedInOrder, StartedIsHeldOrDone
    <2>6. NothingAfterRelease' /\ QueueHasAWorker' /\ NobodyIsForgotten'
      BY <1>3 DEF WorkerTake, NothingAfterRelease, QueueHasAWorker, NobodyIsForgotten, ThreadTypeOK
    <2>7. QED
      BY <2>4, <2>5, <2>6
  <1>4. ASSUME NEW w \in Workers, TaskReturn(w) PROVE ThreadIInv'
    <2>1. /\ Taken' = Taken \ {w} /\ w \in Taken
          /\ thdTask' = [thdTask EXCEPT ![w] = None]
      BY <1>4 DEF TaskReturn, Taken, ThreadTypeOK
    <2>2. {thdTask[v] : v \in Taken} = {thdTask'[v] : v \in Taken'} \cup {thdTask[w]}
      BY <2>1 DEF ThreadTypeOK, Taken
    <2>3. StartedIsHeldOrDone' /\ thdTask[w] \in Tasks
      BY <1>4, <2>1, <2>2, RangeInside DEF TaskReturn, StartedIsHeldOrDone, ThreadTypeOK
    <2>4. ThreadTypeOK' /\ Control' /\ StartedInOrder'
      BY <1>4, <2>3 DEF TaskReturn, ThreadTypeOK, Control, StartedInOrder
    <2>5. NothingAfterRelease' /\ QueueHasAWorker' /\ NobodyIsForgotten'
      BY <1>4 DEF TaskReturn, NothingAfterRelease, QueueHasAWorker, NobodyIsForgotten, ThreadTypeOK
    <2>6. QED
      BY <2>3, <2>4, <2>5
  <1> USE DEF ThreadTypeOK, Control, StartedInOrder, StartedIsHeldOrDone, NothingAfterRelease,
              QueueHasAWorker, NobodyIsForgotten, Taken
  <1>5. ASSUME NEW w \in Workers, TaskNotify(w) PROVE ThreadIInv'
    BY <1>5 DEF TaskNotify, NotifyOne
  <1>6. CASE OwnerNotify
    BY <1>6, PoolAssumption DEF OwnerNotify, NotifyOne
  <1>7. ASSUME NEW w \in Workers, NEW t \in Tasks, TaskEnqueueThrows(w, t) PROVE ThreadIInv'
    BY <1>7 DEF TaskEnqueueThrows
  <1>8. ASSUME NEW w \in Workers, WorkerBlock(w) PROVE ThreadIInv'
    BY <1>8 DEF WorkerBlock
  <1>9. ASSUME NEW w \in Workers, WorkerExit(w) PROVE ThreadIInv'
    BY <1>9 DEF WorkerExit
  <1>10. ASSUME NEW w \in Workers, ProducerNotify(w) PROVE ThreadIInv'
    <2>1. ownerWaiting' \in BOOLEAN
      BY <1>10, Zenon DEF ProducerNotify
    <2>2. QED
      BY <1>10, <2>1 DEF ProducerNotify
  <1>11. CASE Destroy
    BY <1>11 DEF Destroy
  <1>12. CASE DtorWait
    <2>1. ownerWaiting' \in BOOLEAN /\ releaseReady' \in BOOLEAN
      BY <1>12, Zenon DEF DtorWait
    <2>2. QED
      BY <1>12, <2>1 DEF DtorWait
  <1>13. CASE DtorNotify
    BY <1>13 DEF DtorNotify
  <1>14. CASE DtorJoin
    BY <1>14 DEF DtorJoin
  <1>15. ASSUME NEW w \in Workers, SpuriousWorker(w) PROVE ThreadIInv'
    BY <1>15 DEF SpuriousWorker
  <1>16. CASE SpuriousOwner
    BY <1>16 DEF SpuriousOwner
  <1>17. CASE Terminated \/ UNCHANGED threadVars
    <2>1. UNCHANGED threadVars
      BY <1>17 DEF Terminated
    <2>2. QED
      BY <2>1, Zenon DEF threadVars
  <1>18. QED
    BY <1>1, <1>2, <1>3, <1>4, <1>5, <1>6, <1>7, <1>8, <1>9, <1>10, <1>11, <1>12,
       <1>13, <1>14, <1>15, <1>16, <1>17 DEF ThreadNext, WorkerStep, DtorStep

\* The inductive invariant of the pool.
THEOREM PoolInvariant == ThreadSpec => []ThreadIInv
  BY InitIInv, StepIInv, PTL DEF ThreadSpec

\* The workers start the accepted tasks in the order of their enqueue, each once.
THEOREM TasksStartInOrder == ThreadSpec => []StartedInOrder
  BY PoolInvariant, PTL DEF ThreadIInv

\* When ~Thread returns, every accepted task has run to its end.
THEOREM DestructorDrains == ThreadSpec => []DrainedWhenDone
  <1>1. ThreadIInv => DrainedWhenDone
    <2> SUFFICES ASSUME ThreadIInv, opc = "done" PROVE finished = Range(accepted)
      BY DEF DrainedWhenDone
    <2>1. taskQueue = <<>> /\ Taken = {}
      BY DEF ThreadIInv, Control, NothingAfterRelease, Taken
    <2>2. accepted = started
      BY <2>1, ConcatEmptySeq DEF ThreadIInv, ThreadTypeOK, StartedInOrder
    <2>3. QED
      BY <2>1, <2>2 DEF ThreadIInv, StartedIsHeldOrDone
  <1>2. QED
    BY <1>1, PoolInvariant, PTL

\* No notification of the pool is lost: a queued task has a worker that will look
\* at the queue, a blocked worker or destructor has somebody to wake it.
THEOREM NoLostWakeup == ThreadSpec => [](QueueHasAWorker /\ NobodyIsForgotten)
  BY PoolInvariant, PTL DEF ThreadIInv
================================================================================
