------------------------------ MODULE ViewService ------------------------------
(***************************************************************************)
(* application::view::View (view.hpp, view.cpp) as a service: the daemon   *)
(* that runs service() and owns the two servers, the console thread that   *)
(* calls startup, reload and shutdown and between them forwards requests,  *)
(* and the worker of reminderTimer.                                        *)
(*                                                                         *)
(* A step is a critical section of daemonMtx or of the state machine's     *)
(* mutex, or one access to an atomic flag.  The daemon keeps the mutex of  *)
(* the state machine while an action of the table runs, which matters      *)
(* where the action waits: for the worker of the reminder to end.          *)
(*                                                                         *)
(* A request, its answer and the shared memory are ViewSession's; here a   *)
(* request is a period in which the reminder runs.  A viewer that does not *)
(* serve has a console that talks to another process with these ports,     *)
(* which may end at any time.                                              *)
(***************************************************************************)
EXTENDS Naturals, Sequences

CONSTANTS
  MaxRestarts,   \* bound: reconnect commands in a behaviour
  MaxForwards    \* bound: requests in a behaviour

VARIABLES
  mayFail,       \* sockets may fail to be made or bound, in this behaviour
  state,         \* state of the state machine
  isOngoing, inResetting, outputCompleted,   \* atomic flags
  perm, temp,    \* permSessServer and tempSessServer: "none", "made" or "serving"
  dpc, dWaiting, \* where the daemon is; whether it is blocked on daemonCond
  upc, uop,      \* where the console is, and in which call
  uTarget,       \* the state syncWaitOr waits for
  uOk,           \* the last startup has succeeded
  timer,         \* reminderTimer: "off", "armed", or in its "callback"
  peer,          \* the process the console is connected to is "alive" or "gone"
  restarts, forwards

daemonVars  == <<state, perm, temp, dpc>>
consoleVars == <<upc, uop, uTarget, uOk, peer, restarts, forwards>>
viewVars == <<mayFail, daemonVars, isOngoing, inResetting, outputCompleted, dWaiting,
              consoleVars, timer>>

Init ==
  /\ mayFail \in BOOLEAN
  /\ state = "initial"
  /\ isOngoing = FALSE /\ inResetting = FALSE /\ outputCompleted = TRUE
  /\ perm = "none" /\ temp = "none"
  /\ dpc = "relaunch" /\ dWaiting = FALSE
  /\ upc = "readIdle" /\ uop = "startup" /\ uTarget = "active" /\ uOk = FALSE
  /\ timer = "off" /\ peer = "alive"
  /\ restarts = 0 /\ forwards = 0

--------------------------------------------------------------------------------
(* The transition table and its dispatch. *)

F == INSTANCE FSM

Row(source, event, target, action) ==
  [source |-> source, event |-> event, target |-> target, action |-> action, guard |-> "none"]

TransitionTable ==
  << Row("initial",     "CreateServer",  "active",      "createViewServer"),
     Row("active",      "GoViewing",     "established", "startViewing"),
     Row("established", "DestroyServer", "active",      "destroyViewServer"),
     Row("active",      "NoViewing",     "inactive",    "stopViewing"),
     Row("initial",     "Standby",       "idle",        "doToggle"),
     Row("active",      "Standby",       "idle",        "doToggle"),
     Row("established", "Standby",       "idle",        "doToggle"),
     Row("established", "Relaunch",      "initial",     "doRollback"),
     Row("inactive",    "Relaunch",      "initial",     "doRollback"),
     Row("idle",        "Relaunch",      "initial",     "doRollback") >>

RowOf(event) == F!RowFor(TransitionTable, state, event, {})
Runs(event, action) == RowOf(event).action = action
EnterTarget(event) == state' = RowOf(event).target

\* The labels at which the daemon is inside processEvent, and at which it has daemonMtx.
FsmHeld == dpc \in {"rollback", "rollbackEnd", "create", "createEnd", "bindTemp",
                    "destroying", "destroyEnd"}
MtxHeld == dpc \in {"rollback", "rollbackEnd"}

--------------------------------------------------------------------------------
(* The daemon: service(). *)

ConsoleRests == UNCHANGED <<mayFail, consoleVars>>

\* stopReminderTimer joins the worker, which is not to be joined in its callback.
StopReminder == timer # "callback" /\ timer' = "off"

\* There is no row for Relaunch in the initial state: the daemon goes on.
NothingToRollBack ==
  /\ dpc = "relaunch" /\ RowOf("Relaunch") = F!NoRow
  /\ dpc' = "made"
  /\ UNCHANGED <<state, perm, temp, isOngoing, inResetting, outputCompleted, dWaiting, timer>>
  /\ ConsoleRests

doRollback ==
  /\ dpc = "relaunch" /\ Runs("Relaunch", "doRollback")
  /\ isOngoing' = FALSE
  /\ dpc' = "rollback"
  /\ UNCHANGED <<state, perm, temp, inResetting, outputCompleted, dWaiting, timer>>
  /\ ConsoleRests

\* destroyViewServer: stop the reminder; then close both servers and wait for their threads.
DestroyBegin(here, next) ==
  /\ dpc = here
  /\ StopReminder
  /\ dpc' = next
  /\ UNCHANGED <<state, perm, temp, isOngoing, inResetting, outputCompleted, dWaiting>>
  /\ ConsoleRests

RollbackDestroys == DestroyBegin("rollback", "rollbackEnd")

MutRollbackEnd ==   \* the servers of the last session stay
  /\ dpc = "rollbackEnd"
  /\ inResetting' = FALSE /\ outputCompleted' = TRUE
  /\ EnterTarget("Relaunch")
  /\ dpc' = "made"
  /\ UNCHANGED <<perm, temp, isOngoing, dWaiting, timer>>
  /\ ConsoleRests

RollbackEnd ==
  /\ dpc = "rollbackEnd"
  /\ perm' = "none" /\ temp' = "none"
  /\ inResetting' = FALSE /\ outputCompleted' = TRUE
  /\ EnterTarget("Relaunch")
  /\ dpc' = "made"
  /\ UNCHANGED <<isOngoing, dWaiting, timer>>
  /\ ConsoleRests

\* createViewServer
CreateBegin ==
  /\ dpc = "made" /\ Runs("CreateServer", "createViewServer")
  /\ dpc' = "create"
  /\ UNCHANGED <<state, perm, temp, isOngoing, inResetting, outputCompleted, dWaiting, timer>>
  /\ ConsoleRests

CreateStopsReminder == DestroyBegin("create", "createEnd")

createViewServer ==
  /\ dpc = "createEnd"
  /\ perm' = "made" /\ temp' = "made"
  /\ EnterTarget("CreateServer")
  /\ dpc' = "proceed"
  /\ UNCHANGED <<isOngoing, inResetting, outputCompleted, dWaiting, timer>>
  /\ ConsoleRests

\* A socket cannot be made or bound: the state stays, and service() catches the exception.
Throws(here, made) ==
  /\ mayFail /\ dpc = here
  /\ perm' = made
  /\ dpc' = "catch"
  /\ UNCHANGED <<state, temp, isOngoing, inResetting, outputCompleted, dWaiting, timer>>
  /\ ConsoleRests

SocketThrows ==
  \/ Throws("createEnd", perm)
  \/ Throws("createEnd", "made")
  \/ Throws("go", perm)
  \/ Throws("bindTemp", perm)

CondWait(here, passes, next) ==
  /\ dpc = here /\ ~dWaiting
  /\ \/ passes /\ dpc' = next /\ UNCHANGED dWaiting
     \/ ~passes /\ dWaiting' = TRUE /\ UNCHANGED dpc
  /\ UNCHANGED <<state, perm, temp, isOngoing, inResetting, outputCompleted, timer>>
  /\ ConsoleRests

awaitNotification2Proceed == CondWait("proceed", isOngoing, "go")

\* startViewing: permSessServer is bound and accepts, then tempSessServer receives.
startViewing ==
  /\ dpc = "go" /\ Runs("GoViewing", "startViewing")
  /\ perm' = "serving"
  /\ dpc' = "bindTemp"
  /\ UNCHANGED <<state, temp, isOngoing, inResetting, outputCompleted, dWaiting, timer>>
  /\ ConsoleRests

StartViewingEnd ==
  /\ dpc = "bindTemp"
  /\ temp' = "serving"
  /\ EnterTarget("GoViewing")
  /\ dpc' = "loop"
  /\ UNCHANGED <<perm, isOngoing, inResetting, outputCompleted, dWaiting, timer>>
  /\ ConsoleRests

\* notificationLoop: the test of the loop, outside of daemonMtx ...
LoopTest ==
  /\ dpc = "loop"
  /\ dpc' = IF isOngoing THEN "wait" ELSE "after"
  /\ UNCHANGED <<state, perm, temp, isOngoing, inResetting, outputCompleted, dWaiting, timer>>
  /\ ConsoleRests

\* ... and its wait; a server that is not there, or has stopped, ends the session.
LoopWait ==
  CondWait("wait", ~isOngoing \/ inResetting,
           CASE inResetting -> "after"
             [] ~inResetting /\ "none" \in {perm, temp} -> "catch"
             [] OTHER -> "loop")

\* service() after the loop
AfterLoop ==
  /\ dpc = "after"
  /\ dpc' = IF inResetting THEN "relaunch" ELSE "destroy"
  /\ UNCHANGED <<state, perm, temp, isOngoing, inResetting, outputCompleted, dWaiting, timer>>
  /\ ConsoleRests

DestroyServer ==
  /\ dpc = "destroy" /\ Runs("DestroyServer", "destroyViewServer")
  /\ dpc' = "destroying"
  /\ UNCHANGED <<state, perm, temp, isOngoing, inResetting, outputCompleted, dWaiting, timer>>
  /\ ConsoleRests

DestroyStopsReminder == DestroyBegin("destroying", "destroyEnd")

destroyViewServer ==
  /\ dpc = "destroyEnd"
  /\ perm' = "none" /\ temp' = "none"
  /\ EnterTarget("DestroyServer")
  /\ dpc' = "stop"
  /\ UNCHANGED <<isOngoing, inResetting, outputCompleted, dWaiting, timer>>
  /\ ConsoleRests

stopViewing ==
  /\ dpc = "stop" /\ Runs("NoViewing", "stopViewing")
  /\ isOngoing' = FALSE /\ inResetting' = FALSE /\ outputCompleted' = TRUE
  /\ EnterTarget("NoViewing")
  /\ dpc' = "done"
  /\ UNCHANGED <<perm, temp, dWaiting, timer>>
  /\ ConsoleRests

\* The handler of service(): doToggle ...
doToggle ==
  /\ dpc = "catch" /\ Runs("Standby", "doToggle")
  /\ EnterTarget("Standby")
  /\ dpc' = "retry"
  /\ UNCHANGED <<perm, temp, isOngoing, inResetting, outputCompleted, dWaiting, timer>>
  /\ ConsoleRests

\* ... and awaitNotification2Retry, whose wait has no predicate.
RetryWait ==
  /\ dpc = "retry"
  /\ dWaiting' = TRUE
  /\ dpc' = "retryWait"
  /\ UNCHANGED <<state, perm, temp, isOngoing, inResetting, outputCompleted, timer>>
  /\ ConsoleRests

awaitNotification2Retry ==
  /\ dpc = "retryWait" /\ ~dWaiting
  /\ dpc' = IF inResetting THEN "relaunch" ELSE "done"
  /\ UNCHANGED <<state, perm, temp, isOngoing, inResetting, outputCompleted, dWaiting, timer>>
  /\ ConsoleRests

service ==
  \/ NothingToRollBack \/ doRollback \/ RollbackDestroys \/ RollbackEnd
  \/ CreateBegin \/ CreateStopsReminder \/ createViewServer \/ SocketThrows
  \/ awaitNotification2Proceed \/ startViewing \/ StartViewingEnd
  \/ LoopTest \/ LoopWait \/ AfterLoop
  \/ DestroyServer \/ DestroyStopsReminder \/ destroyViewServer \/ stopViewing
  \/ doToggle \/ RetryWait \/ awaitNotification2Retry

SpuriousWakeup ==
  /\ dWaiting /\ dWaiting' = FALSE
  /\ UNCHANGED <<daemonVars, isOngoing, inResetting, outputCompleted, timer>>
  /\ ConsoleRests

--------------------------------------------------------------------------------
(* The console thread: the calls of the controller. *)

DaemonRests == UNCHANGED <<mayFail, daemonVars>>

\* syncWaitOr asks currentState and then inResetting, first for idle, then for the target.
syncWaitOr ==
  /\ \/ upc = "readIdle" /\ ~FsmHeld /\ upc' = IF state = "idle" THEN "testIdle" ELSE "readTarget"
     \/ upc = "testIdle" /\ upc' = IF inResetting THEN "readTarget" ELSE "failed"
     \/ upc = "readTarget" /\ ~FsmHeld /\ upc' = IF state = uTarget THEN "testTarget" ELSE "readIdle"
     \/ upc = "testTarget" /\ inResetting /\ upc' = "readIdle"
  /\ UNCHANGED <<uop, uTarget, uOk, peer, restarts, forwards,
                 isOngoing, inResetting, outputCompleted, dWaiting, timer>>
  /\ DaemonRests

\* The target is reached: startup goes on to set isOngoing, and both calls end.
WaitEnds ==
  /\ upc = "testTarget" /\ ~inResetting
  /\ upc' = CASE uTarget = "active" -> "set" [] uTarget = "established" -> "ready" [] OTHER -> "end"
  /\ uOk' = (uTarget = "established")
  /\ UNCHANGED <<uop, uTarget, peer, restarts, forwards,
                 isOngoing, inResetting, outputCompleted, dWaiting, timer>>
  /\ DaemonRests

\* syncNotifyVia: the flag is stored under daemonMtx ...
syncNotifyVia ==
  /\ upc = "set" /\ ~MtxHeld
  /\ isOngoing' = IF uop = "reload" THEN isOngoing ELSE uop = "startup"
  /\ inResetting' = (inResetting \/ uop = "reload")
  /\ upc' = "notify"
  /\ UNCHANGED <<uop, uTarget, uOk, peer, restarts, forwards, outputCompleted, dWaiting, timer>>
  /\ DaemonRests

MutNotifyDaemon ==   \* nobody is notified
  /\ upc = "notify"
  /\ upc' = IF uop = "reload" THEN "countdown" ELSE "readIdle"
  /\ uTarget' = CASE uop = "startup" -> "established" [] uop = "shutdown" -> "inactive" [] OTHER -> uTarget
  /\ UNCHANGED <<uop, uOk, peer, restarts, forwards, isOngoing, inResetting, outputCompleted,
                 dWaiting, timer>>
  /\ DaemonRests

\* ... and the daemon notified after it.
NotifyDaemon ==
  /\ upc = "notify"
  /\ dWaiting' = FALSE
  /\ upc' = IF uop = "reload" THEN "countdown" ELSE "readIdle"
  /\ uTarget' = CASE uop = "startup" -> "established" [] uop = "shutdown" -> "inactive" [] OTHER -> uTarget
  /\ UNCHANGED <<uop, uOk, peer, restarts, forwards, isOngoing, inResetting, outputCompleted, timer>>
  /\ DaemonRests

\* syncCountdownIf: the reset is done, or its time is over, which is logged; gracefulReset
\* calls startup next, and a new client is connected.
syncCountdownIf ==
  /\ upc = "countdown"
  /\ upc' = "readIdle" /\ uop' = "startup" /\ uTarget' = "active"
  /\ UNCHANGED <<uOk, peer, restarts, forwards, isOngoing, inResetting, outputCompleted, dWaiting, timer>>
  /\ DaemonRests

\* The handlers of startup and shutdown log that the viewer is idle, and the call ends.
CallFails ==
  /\ upc = "failed"
  /\ upc' = IF uop = "startup" THEN "ready" ELSE "end"
  /\ uOk' = FALSE
  /\ UNCHANGED <<uop, uTarget, peer, restarts, forwards,
                 isOngoing, inResetting, outputCompleted, dWaiting, timer>>
  /\ DaemonRests

--------------------------------------------------------------------------------
(* The console thread between the calls, its receiver and the reminder. *)

SessionOnly ==
  /\ UNCHANGED <<uTarget, isOngoing, inResetting, dWaiting>>
  /\ DaemonRests

\* onForwarding: the reminder is started and the console waits for the output.
onForwarding ==
  /\ upc = "ready" /\ forwards < MaxForwards
  /\ upc' = "forward"
  /\ outputCompleted' = FALSE
  /\ timer' = IF timer = "off" THEN "armed" ELSE timer
  /\ forwards' = forwards + 1
  /\ UNCHANGED <<uop, uOk, peer, restarts>> /\ SessionOnly

\* The answer: its receiver stops the reminder, unless it did so before the console
\* had started it, and marks the output as done.
Answer ==
  /\ upc = "forward" /\ peer = "alive" /\ ~outputCompleted
  /\ StopReminder \/ UNCHANGED timer
  /\ outputCompleted' = TRUE
  /\ UNCHANGED <<upc, uop, uOk, peer, restarts, forwards>> /\ SessionOnly

\* waitTaskDone ends; while the viewer does not serve, also by its own timer.
WaitTaskEnds ==
  /\ upc = "forward"
  /\ outputCompleted \/ state # "established"
  /\ outputCompleted' = TRUE
  /\ upc' = "ready"
  /\ UNCHANGED <<uop, uOk, peer, restarts, forwards, timer>> /\ SessionOnly

\* The process that has the ports instead of this viewer ends: the receiver of the
\* client ends with it, and no answer will stop the reminder.
PeerEnds ==
  /\ upc \in {"ready", "forward"} /\ state = "idle" /\ peer = "alive"
  /\ peer' = "gone"
  /\ UNCHANGED <<upc, uop, uOk, restarts, forwards, timer, outputCompleted>> /\ SessionOnly

MutDisconnected == UNCHANGED timer   \* the last answer does not stop the reminder

\* The answer to the request to disconnect stops the reminder, and ends the receiver.
Disconnected == IF peer = "alive" THEN StopReminder ELSE UNCHANGED timer

\* reconnect: disconnect, and gracefulReset
Reconnect ==
  /\ upc = "ready" /\ restarts < MaxRestarts
  /\ Disconnected
  /\ upc' = "set" /\ uop' = "reload" /\ uOk' = FALSE
  /\ peer' = "alive"
  /\ restarts' = restarts + 1
  /\ UNCHANGED <<forwards, outputCompleted>> /\ SessionOnly

\* The end of the session, and of the program.
Shutdown ==
  /\ upc = "ready"
  /\ Disconnected
  /\ upc' = "set" /\ uop' = "shutdown" /\ uOk' = FALSE
  /\ UNCHANGED <<peer, restarts, forwards, outputCompleted>> /\ SessionOnly

\* The period is over, and feedbackWaitingState asks for the state.
ReminderFires ==
  /\ timer = "armed" /\ timer' = "callback"
  /\ UNCHANGED <<isOngoing, inResetting, outputCompleted, dWaiting, consoleVars>> /\ DaemonRests

feedbackWaitingState ==
  /\ timer = "callback" /\ ~FsmHeld
  /\ timer' = "armed"
  /\ UNCHANGED <<isOngoing, inResetting, outputCompleted, dWaiting, consoleVars>> /\ DaemonRests

Call == syncWaitOr \/ WaitEnds \/ syncNotifyVia \/ NotifyDaemon \/ syncCountdownIf \/ CallFails

Next ==
  \/ service \/ SpuriousWakeup \/ Call
  \/ onForwarding \/ Answer \/ WaitTaskEnds \/ PeerEnds \/ Reconnect \/ Shutdown
  \/ ReminderFires \/ feedbackWaitingState

\* The threads are scheduled; nothing makes a user type.
Fairness ==
  /\ WF_viewVars(service) /\ WF_viewVars(Call) /\ WF_viewVars(feedbackWaitingState)

--------------------------------------------------------------------------------
(* Properties. *)

\* The assertions of service() hold, and whoever reads "established" finds both servers
\* at work; a startup that reports success leaves the viewer so until the next call.
EstablishedMeansServing ==
  /\ dpc \in {"made", "create", "createEnd"} => state = "initial" /\ perm = "none" /\ temp = "none"
  /\ dpc \in {"proceed", "go", "bindTemp", "stop"} => state = "active"
  /\ dpc \in {"loop", "wait", "after", "destroy", "destroying"} => state = "established"
  /\ state = "established" /\ ~FsmHeld => perm = "serving" /\ temp = "serving"
  /\ upc \in {"ready", "forward"} /\ uOk =>
       state = "established" /\ isOngoing /\ ~inResetting /\ dpc \in {"loop", "wait"}

\* The three ways in which a call does not come back.  The daemon waits for the worker
\* of the reminder, which waits for the mutex that the daemon holds.  A reset is asked
\* for when the daemon does not wait for it yet, or has given up.  After a reset that took
\* too long, startup has combined the state before with the flag after it and taken the
\* viewer for idle: the daemon still waits for isOngoing.
ReminderJam == FsmHeld /\ timer = "callback"
MissedReset == inResetting /\ (dpc = "done" \/ (dpc = "retryWait" /\ dWaiting))
TornIdle    == dpc = "proceed" /\ ~isOngoing /\ (uop = "shutdown" \/ inResetting)

Returned == upc \in {"ready", "forward", "end"}

\* Every call of the controller returns, whatever fails, apart from these ways: the
\* daemon and its callers never wait for each other otherwise.
CallsReturn == ~Returned ~> (Returned \/ ReminderJam \/ MissedReset \/ TornIdle)

\* While nothing fails the viewer can be restarted at any time, and shutdown ends the
\* service with its servers closed and its reminder stopped.
ViewerRestartsAndStops ==
  /\ uop = "startup" /\ ~mayFail ~> upc \in {"ready", "forward"} /\ uOk
  /\ uop = "shutdown" /\ ~mayFail ~>
       dpc = "done" /\ upc = "end" /\ perm = "none" /\ temp = "none" /\ timer = "off"
================================================================================
