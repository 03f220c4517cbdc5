--------------------------------- MODULE Timer ---------------------------------
(***************************************************************************)
(* utility::time::Timer (time.hpp, time.cpp): a jthread that waits for an  *)
(* interval and calls back, once or periodically, until it is stopped.     *)
(*                                                                         *)
(* Its callers serialise start and stop (View does, with timerGuard), so   *)
(* there is one user.  stop() requests the stop and notifies without mtx:  *)
(* the worker may test the token before and block after it, and then only  *)
(* the end of the interval wakes it.                                       *)
(***************************************************************************)
EXTENDS Naturals

CONSTANT MaxStarts   \* bound: calls of start in a behaviour

VARIABLES
  upc,       \* where the user is: "idle", or in stop()
  worker,    \* where the worker is; "none" when it is not joinable
  periodic,  \* isPeriodic of the start that made the worker
  token,     \* stop_requested of the worker's token
  starts,    \* number of calls of start so far
  late       \* history: callbacks the worker began after the stop was requested

vars == <<upc, worker, periodic, token, starts, late>>

Init ==
  /\ upc = "idle" /\ worker = "none"
  /\ periodic = FALSE /\ token = FALSE
  /\ starts = 0 /\ late = 0

isRunning == worker # "none"   \* worker.joinable()

--------------------------------------------------------------------------------
\* start: a timer that is running is left alone.
Start(isPeriodic) ==
  /\ upc = "idle" /\ starts < MaxStarts
  /\ starts' = starts + 1
  /\ IF isRunning
       THEN UNCHANGED <<worker, periodic, token, late>>
       ELSE worker' = "test" /\ periodic' = isPeriodic /\ token' = FALSE /\ late' = 0
  /\ UNCHANGED upc

\* stop: request_stop, unless there is no worker ...
Stop ==
  /\ upc = "idle" /\ isRunning
  /\ token' = TRUE
  /\ upc' = "notify"
  /\ UNCHANGED <<worker, periodic, starts, late>>

\* ... cond.notify_all ...
StopNotify ==
  /\ upc = "notify"
  /\ worker' = IF worker = "wait" THEN "test" ELSE worker
  /\ upc' = "join"
  /\ UNCHANGED <<periodic, token, starts, late>>

\* ... and join.
StopJoin ==
  /\ upc = "join" /\ worker = "exited"
  /\ worker' = "none"
  /\ upc' = "idle"
  /\ UNCHANGED <<periodic, token, starts, late>>

--------------------------------------------------------------------------------
MutStopRequested == ~isRunning   \* the timer is asked, and not the token

\* The predicate of wait_for.
stop_requested == token

WorkerGoto(here, next) ==
  /\ worker = here
  /\ worker' = next
  /\ UNCHANGED <<upc, periodic, token, starts>>

\* wait_for tests its predicate, and blocks ...
WorkerTest == WorkerGoto("test", IF stop_requested THEN "exited" ELSE "wait") /\ UNCHANGED late

\* ... until the interval is over, and returns what the predicate says then ...
WorkerTimeout ==
  WorkerGoto("wait", IF stop_requested THEN "exited" ELSE "fire") /\ UNCHANGED late

WorkerSpurious == WorkerGoto("wait", "test") /\ UNCHANGED late

\* ... which a stop may make stale before the callback begins.
CallbackBegins ==
  /\ WorkerGoto("fire", "callback")
  /\ late' = IF token THEN late + 1 ELSE late

CallbackReturns ==
  WorkerGoto("callback", IF periodic THEN "test" ELSE "exited") /\ UNCHANGED late

WorkerStep == WorkerTest \/ WorkerTimeout \/ CallbackBegins \/ CallbackReturns

Terminated == starts = MaxStarts /\ ~isRunning /\ UNCHANGED vars

Next ==
  \/ \E p \in BOOLEAN : Start(p)
  \/ Stop \/ StopNotify \/ StopJoin
  \/ WorkerStep \/ WorkerSpurious
  \/ Terminated

Spec == Init /\ [][Next]_vars

\* Both threads are scheduled, intervals end and callbacks return; that a wait
\* wakes up for no reason again and again does not keep its interval from ending.
FairSpec ==
  /\ Spec
  /\ WF_vars(WorkerStep) /\ SF_vars(WorkerTimeout)
  /\ WF_vars(StopNotify \/ StopJoin)

--------------------------------------------------------------------------------
\* The request to stop may miss the worker that is about to call back, once: no
\* second callback begins, however the request falls between its tests and waits.
AtMostOneLateCallback == late <= 1

\* stop() returns, although its notification may come before the wait.
StopReturns == upc = "notify" ~> upc = "idle"
================================================================================
