------------------------------ MODULE ThreadPool ------------------------------
(***************************************************************************)
(* utility::thread::Thread (thread.hpp, thread.cpp): a fixed pool of       *)
(* workers over one task queue, two condition variables and a destructor   *)
(* that drains the queue before it releases the workers.                   *)
(*                                                                         *)
(* The queue and releaseReady change under mtx only, so one critical       *)
(* section of mtx is one step.  The code unlocks before notify_one, so     *)
(* each notification is a later step of its own.                           *)
(*                                                                         *)
(* The owner of the pool enqueues tasks and then destroys the pool.  A     *)
(* task may enqueue tasks too, while the destructor runs: this is what the *)
(* logic_error of enqueue is for.                                          *)
(***************************************************************************)
EXTENDS Naturals, Sequences, FiniteSets, Functions

CONSTANTS
  Workers,   \* thdColl
  Tasks,     \* the tasks that may be enqueued, each once
  None       \* no task in thdTask

ASSUME PoolAssumption ==
  /\ IsFiniteSet(Workers) /\ Workers # {}
  /\ None \notin Tasks

VARIABLES
  taskQueue,      \* the queue of tasks
  releaseReady,   \* set by the destructor
  wpc,            \* where each worker is in workLoop
  thdTask,        \* the task a worker has taken
  blocked,        \* workers blocked in cond.wait
  opc,            \* where the owner is
  ownerWaiting,   \* the owner is blocked in producer.wait
  accepted,       \* history: the tasks enqueue has taken, in order
  started,        \* history: the tasks taken by workers, in order
  finished,       \* history: the tasks that have returned
  rejected        \* history: the tasks enqueue has thrown on

threadVars == <<taskQueue, releaseReady, wpc, thdTask, blocked, opc, ownerWaiting,
                accepted, started, finished, rejected>>

history == <<accepted, started, finished, rejected>>

ThreadTypeOK ==
  /\ taskQueue \in Seq(Tasks)
  /\ releaseReady \in BOOLEAN
  /\ wpc \in [Workers -> {"check", "tellProducer", "run", "tellWorker", "exited"}]
  /\ thdTask \in [Workers -> Tasks \cup {None}]
  /\ blocked \in SUBSET Workers
  /\ opc \in {"enqueue", "tellWorker", "wait", "tellAll", "join", "done"}
  /\ ownerWaiting \in BOOLEAN
  /\ accepted \in Seq(Tasks)
  /\ started \in Seq(Tasks)
  /\ finished \in SUBSET Tasks
  /\ rejected \in SUBSET Tasks

ThreadInit ==
  /\ taskQueue = <<>>
  /\ releaseReady = FALSE
  /\ wpc = [w \in Workers |-> "check"]
  /\ thdTask = [w \in Workers |-> None]
  /\ blocked = {}
  /\ opc = "enqueue"
  /\ ownerWaiting = FALSE
  /\ accepted = <<>>
  /\ started = <<>>
  /\ finished = {}
  /\ rejected = {}

WorkerAt(w, label) == wpc[w] = label /\ w \notin blocked
WorkerGoto(w, label) == wpc' = [wpc EXCEPT ![w] = label]

--------------------------------------------------------------------------------
\* enqueue under mtx, when it does not throw.
Accept(t) ==
  /\ ~releaseReady
  /\ t \notin Range(accepted) \cup rejected
  /\ taskQueue' = Append(taskQueue, t)
  /\ accepted' = Append(accepted, t)
  /\ UNCHANGED <<started, finished, rejected>>

\* cond.notify_one() wakes one of the waiting workers, if there is one.
NotifyOne ==
  \/ blocked = {} /\ UNCHANGED blocked
  \/ \E w \in blocked : blocked' = blocked \ {w}

\* The owner calls enqueue.
OwnerEnqueue(t) ==
  /\ opc = "enqueue"
  /\ Accept(t)
  /\ opc' = "tellWorker"
  /\ UNCHANGED <<releaseReady, wpc, thdTask, blocked, ownerWaiting>>

MutOwnerNotify ==   \* enqueue without notify_one
  /\ opc = "tellWorker"
  /\ opc' = "enqueue"
  /\ UNCHANGED <<taskQueue, releaseReady, wpc, thdTask, blocked, ownerWaiting, history>>

OwnerNotify ==
  /\ opc = "tellWorker"
  /\ NotifyOne
  /\ opc' = "enqueue"
  /\ UNCHANGED <<taskQueue, releaseReady, wpc, thdTask, ownerWaiting, history>>

\* A running task calls enqueue on its own pool.
TaskEnqueue(w, t) ==
  /\ WorkerAt(w, "run")
  /\ Accept(t)
  /\ WorkerGoto(w, "tellWorker")
  /\ UNCHANGED <<releaseReady, thdTask, blocked, opc, ownerWaiting>>

TaskNotify(w) ==
  /\ WorkerAt(w, "tellWorker")
  /\ NotifyOne
  /\ WorkerGoto(w, "run")
  /\ UNCHANGED <<taskQueue, releaseReady, thdTask, opc, ownerWaiting, history>>

\* enqueue throws std::logic_error into the task that called it.
TaskEnqueueThrows(w, t) ==
  /\ WorkerAt(w, "run")
  /\ releaseReady
  /\ t \notin Range(accepted) \cup rejected
  /\ rejected' = rejected \cup {t}
  /\ UNCHANGED <<taskQueue, releaseReady, wpc, thdTask, blocked, opc, ownerWaiting,
                 accepted, started, finished>>

--------------------------------------------------------------------------------
\* workLoop: the predicate of cond.wait is false, block.
WorkerBlock(w) ==
  /\ WorkerAt(w, "check")
  /\ ~releaseReady /\ taskQueue = <<>>
  /\ blocked' = blocked \cup {w}
  /\ UNCHANGED <<taskQueue, releaseReady, wpc, thdTask, opc, ownerWaiting, history>>

\* workLoop: nothing is left and the pool is released, return.
WorkerExit(w) ==
  /\ WorkerAt(w, "check")
  /\ releaseReady /\ taskQueue = <<>>
  /\ WorkerGoto(w, "exited")
  /\ UNCHANGED <<taskQueue, releaseReady, thdTask, blocked, opc, ownerWaiting, history>>

MutWorkerTakeOnly(w) ==   \* front() without pop()
  /\ WorkerAt(w, "check")
  /\ taskQueue # <<>> /\ Len(started) < Cardinality(Tasks)
  /\ thdTask' = [thdTask EXCEPT ![w] = Head(taskQueue)]
  /\ started' = Append(started, Head(taskQueue))
  /\ WorkerGoto(w, "run")
  /\ UNCHANGED <<taskQueue, releaseReady, blocked, opc, ownerWaiting,
                 accepted, finished, rejected>>

\* workLoop: take the front task; the one that empties the queue tells producer.
WorkerTake(w) ==
  /\ WorkerAt(w, "check")
  /\ taskQueue # <<>>
  /\ thdTask' = [thdTask EXCEPT ![w] = Head(taskQueue)]
  /\ started' = Append(started, Head(taskQueue))
  /\ taskQueue' = Tail(taskQueue)
  /\ WorkerGoto(w, IF taskQueue' = <<>> THEN "tellProducer" ELSE "run")
  /\ UNCHANGED <<releaseReady, blocked, opc, ownerWaiting, accepted, finished, rejected>>

MutProducerNotify(w) ==   \* the drained queue is not announced
  /\ WorkerAt(w, "tellProducer")
  /\ WorkerGoto(w, "run")
  /\ UNCHANGED <<taskQueue, releaseReady, thdTask, blocked, opc, ownerWaiting, history>>

\* producer.notify_one()
ProducerNotify(w) ==
  /\ WorkerAt(w, "tellProducer")
  /\ ownerWaiting' = FALSE
  /\ WorkerGoto(w, "run")
  /\ UNCHANGED <<taskQueue, releaseReady, thdTask, blocked, opc, history>>

\* thdTask() returns (a packaged_task keeps what its function throws).
TaskReturn(w) ==
  /\ WorkerAt(w, "run")
  /\ finished' = finished \cup {thdTask[w]}
  /\ thdTask' = [thdTask EXCEPT ![w] = None]
  /\ WorkerGoto(w, "check")
  /\ UNCHANGED <<taskQueue, releaseReady, blocked, opc, ownerWaiting,
                 accepted, started, rejected>>

--------------------------------------------------------------------------------
\* The owner leaves the scope of the pool: ~Thread begins.
Destroy ==
  /\ opc = "enqueue"
  /\ opc' = "wait"
  /\ UNCHANGED <<taskQueue, releaseReady, wpc, thdTask, blocked, ownerWaiting, history>>

\* ~Thread: wait on producer for an empty queue, then set releaseReady.
DtorWait ==
  /\ opc = "wait" /\ ~ownerWaiting
  /\ \/ /\ taskQueue = <<>>
        /\ releaseReady' = TRUE
        /\ opc' = "tellAll"
        /\ UNCHANGED ownerWaiting
     \/ /\ taskQueue # <<>>
        /\ ownerWaiting' = TRUE
        /\ UNCHANGED <<releaseReady, opc>>
  /\ UNCHANGED <<taskQueue, wpc, thdTask, blocked, history>>

\* ~Thread: cond.notify_all()
DtorNotify ==
  /\ opc = "tellAll"
  /\ blocked' = {}
  /\ opc' = "join"
  /\ UNCHANGED <<taskQueue, releaseReady, wpc, thdTask, ownerWaiting, history>>

MutDtorJoin ==   \* the workers are detached
  /\ opc = "join"
  /\ opc' = "done"
  /\ UNCHANGED <<taskQueue, releaseReady, wpc, thdTask, blocked, ownerWaiting, history>>

\* ~Thread: every worker is joined.
DtorJoin ==
  /\ opc = "join"
  /\ \A w \in Workers : wpc[w] = "exited"
  /\ opc' = "done"
  /\ UNCHANGED <<taskQueue, releaseReady, wpc, thdTask, blocked, ownerWaiting, history>>

\* cond.wait and producer.wait may return without a notification.
SpuriousWorker(w) ==
  /\ w \in blocked
  /\ blocked' = blocked \ {w}
  /\ UNCHANGED <<taskQueue, releaseReady, wpc, thdTask, opc, ownerWaiting, history>>

SpuriousOwner ==
  /\ ownerWaiting
  /\ ownerWaiting' = FALSE
  /\ UNCHANGED <<taskQueue, releaseReady, wpc, thdTask, blocked, opc, history>>

Terminated == opc = "done" /\ UNCHANGED threadVars

WorkerStep(w) ==
  \/ WorkerBlock(w) \/ WorkerExit(w) \/ WorkerTake(w) \/ ProducerNotify(w)
  \/ TaskReturn(w) \/ TaskNotify(w)

DtorStep == OwnerNotify \/ DtorWait \/ DtorNotify \/ DtorJoin

ThreadNext ==
  \/ \E w \in Workers : WorkerStep(w) \/ SpuriousWorker(w)
  \/ \E w \in Workers, t \in Tasks : TaskEnqueue(w, t) \/ TaskEnqueueThrows(w, t)
  \/ \E t \in Tasks : OwnerEnqueue(t)
  \/ Destroy \/ DtorStep \/ SpuriousOwner \/ Terminated

ThreadSpec == ThreadInit /\ [][ThreadNext]_threadVars

(***************************************************************************)
(* The threads are scheduled and tasks return; nothing forces the owner to *)
(* enqueue or to destroy the pool, nor a task to enqueue another.          *)
(***************************************************************************)
ThreadFairSpec ==
  /\ ThreadSpec
  /\ \A w \in Workers : WF_threadVars(WorkerStep(w))
  /\ WF_threadVars(DtorStep)

--------------------------------------------------------------------------------
Taken == {w \in Workers : wpc[w] \in {"tellProducer", "run", "tellWorker"}}

\* Workers start the tasks exactly in the order enqueue accepted them: none is
\* lost, duplicated or overtaken between taskQueue and the workers.
StartedInOrder == accepted = started \o taskQueue

\* Every task a worker has started is being run by it or has returned.
StartedIsHeldOrDone == Range(started) = finished \cup {thdTask[w] : w \in Taken}

\* A worker returns from workLoop only for good: no task is queued afterwards,
\* and a task whose enqueue threw never runs.
NothingAfterRelease ==
  /\ releaseReady => taskQueue = <<>>
  /\ (\E w \in Workers : wpc[w] = "exited") => releaseReady
  /\ rejected \cap Range(accepted) = {}

\* ~Thread returns only after every accepted task has run to its end.
DrainedWhenDone == opc = "done" => finished = Range(accepted)

\* A queued task always has a worker on its way to the queue, or a notification.
QueueHasAWorker ==
  taskQueue # <<>> => \/ \E w \in Workers \ blocked : wpc[w] # "exited"
                      \/ opc = "tellWorker"

\* A blocked worker is never left behind by the destructor, and a blocked
\* destructor never by the workers.
NobodyIsForgotten ==
  /\ blocked # {} => ~releaseReady \/ opc = "tellAll"
  /\ ownerWaiting => taskQueue # <<>> \/ \E w \in Workers : wpc[w] = "tellProducer"

\* What the proofs add: where the destructor, the workers and their tasks may be.
Control ==
  /\ releaseReady <=> opc \in {"tellAll", "join", "done"}
  /\ \A w \in blocked : wpc[w] = "check"
  /\ ownerWaiting => opc = "wait"
  /\ opc = "done" => \A w \in Workers : wpc[w] = "exited"

ThreadIInv ==
  /\ ThreadTypeOK
  /\ Control
  /\ StartedInOrder
  /\ StartedIsHeldOrDone
  /\ NothingAfterRelease
  /\ QueueHasAWorker
  /\ NobodyIsForgotten

\* Every accepted task runs, also one that a task enqueues while ~Thread drains the
\* queue, and the destructor comes to its end.
WorkGetsDone ==
  /\ \A t \in Tasks : t \in Range(accepted) ~> t \in finished
  /\ opc = "wait" ~> opc = "done"
================================================================================
