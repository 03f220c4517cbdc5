------------------------------ MODULE LogService ------------------------------
(***************************************************************************)
(* application::log::Log (log.hpp, log.cpp): the logger daemon, the        *)
(* controller that starts, resets and stops it, the threads that log, and  *)
(* the readers that preview the log file.                                  *)
(*                                                                         *)
(* Processes: the daemon runs service(); the controller is the thread that *)
(* calls startup, reload and shutdown, one after the other (launchLifecycle*)
(* and the console command "refresh"); clients call flush; previewers call *)
(* onPreviewing.  The daemon and the controller call flush too, for their  *)
(* LOG_ERR.                                                                *)
(*                                                                         *)
(* A step is a critical section of daemonMtx, of the state machine's mutex *)
(* or of fileLock, or one access to an atomic flag.  Only the daemon holds *)
(* a mutex over several steps, so who holds it follows from its label.     *)
(***************************************************************************)
EXTENDS Naturals, Sequences, Functions

CONSTANTS
  Clients,      \* threads that call flush
  MaxMsgs,      \* bound: messages each client logs
  Previewers,   \* threads that call onPreviewing
  MaxPreviews,  \* bound: previews in a behaviour
  MaxResets,    \* bound: refresh commands in a behaviour
  MaxFileSize,  \* rows of a log file that is due for a backup
  WriteMode,    \* "append" or "overwrite"
  TargetType,   \* "file", "terminal" or "all"
  OpenMayFail,  \* the log file or its folder may be out of reach
  LockMayFail   \* another process may hold the log file

ASSUME LogAssumption ==
  /\ {MaxMsgs, MaxPreviews, MaxResets} \subseteq Nat
  /\ MaxFileSize \in Nat \ {0}
  /\ WriteMode \in {"append", "overwrite"}
  /\ TargetType \in {"file", "terminal", "all"}
  /\ {OpenMayFail, LockMayFail} \subseteq BOOLEAN
  /\ Clients \cap {"daemon", "controller", "none", "previous"} = {}

VARIABLES
  state,         \* state of the state machine
  isOngoing,     \* atomic flag
  inResetting,   \* atomic flag
  logQueue,      \* rows waiting for the daemon
  pendingCache,  \* rows logged while the logger does not serve, newest first
  cacheSwitch,   \* the thread that holds the spin lock of pendingCache, or "none"
  opened,        \* logWriter.isOpened()
  locked,        \* logWriter.isLocked()
  file,          \* rows of the log file
  backups,       \* the renamed log files, oldest first
  reading,       \* previewers that hold fileLock
  previews,      \* number of previews so far
  dpc,           \* where the daemon is
  dWaiting,      \* the daemon is blocked on daemonCond
  cpc, cop,      \* where the controller is, and in which call
  cTarget,       \* the state syncWaitOr waits for
  cOk,           \* the last startup has succeeded
  resets,        \* number of refresh commands so far
  fpc, fmsg,     \* where each thread is in flush, and its row
  sent,          \* number of rows each client has logged
  written,       \* history: every row the daemon has put out, in order
  oldRows        \* history: length of written at the last reload

daemonVars == <<dpc, dWaiting>>
fileVars   == <<opened, locked, file, backups>>
ctrlVars   == <<cpc, cop, cTarget, cOk, resets, oldRows>>
flushVars  == <<fpc, fmsg, sent>>
readVars   == <<reading, previews>>
cacheVars  == <<pendingCache, cacheSwitch>>
flagVars   == <<isOngoing, inResetting>>
vars == <<state, flagVars, logQueue, cacheVars, fileVars, readVars, daemonVars,
          ctrlVars, flushVars, written>>

Loggers == Clients \cup {"daemon", "controller"}
Rows == Loggers \X (0 .. MaxMsgs)
OldRow == <<"previous", 0>>   \* a row of an earlier run of the program

States == {"initial", "active", "established", "inactive", "idle"}

DaemonLabels ==
  {"relaunch", "rbClose", "rbClear", "rbEnd", "open", "openWriter", "proceed", "go",
   "goCache", "goDrain", "loop", "wait", "drain", "after", "close", "stop",
   "catch", "standby", "retry", "retryWait", "done"}

\* The labels at which the daemon is inside processEvent, or holds daemonMtx.
FsmHeld == dpc \in {"rbClose", "rbClear", "rbEnd", "openWriter", "goCache", "goDrain"}
MtxHeld == dpc \in {"rbClose", "rbClear", "rbEnd", "drain"}

TypeOK ==
  /\ state \in States
  /\ {isOngoing, inResetting, opened, locked, dWaiting, cOk} \subseteq BOOLEAN
  /\ logQueue \in Seq(Rows)
  /\ pendingCache \in Seq(Rows)
  /\ cacheSwitch \in Loggers \cup {"none"}
  /\ file \in Seq(Rows \cup {OldRow})
  /\ backups \in Seq(Seq(Rows \cup {OldRow}))
  /\ reading \subseteq Previewers
  /\ dpc \in DaemonLabels
  /\ cpc \in {"readIdle", "testIdle", "readTarget", "testTarget", "set", "notify",
              "countdown", "failed", "ready", "end"}
  /\ cop \in {"startup", "reload", "shutdown"}
  /\ cTarget \in {"active", "established", "inactive"}
  /\ fpc \in [Loggers -> {"out", "state", "resetting", "push", "notify", "cache", "cachePush"}]
  /\ fmsg \in [Loggers -> Rows]
  /\ sent \in [Clients -> 0 .. MaxMsgs]
  /\ written \in Seq(Rows)
  /\ oldRows \in 0 .. Len(written)
  /\ previews \in 0 .. MaxPreviews
  /\ resets \in 0 .. MaxResets

Init ==
  /\ state = "initial"
  /\ isOngoing = FALSE /\ inResetting = FALSE
  /\ logQueue = <<>>
  /\ pendingCache = <<>> /\ cacheSwitch = "none"
  /\ opened = FALSE /\ locked = FALSE
  /\ file \in {<<>>, [i \in 1 .. MaxFileSize |-> OldRow]}
  /\ backups = <<>>
  /\ reading = {} /\ previews = 0
  /\ dpc = "relaunch" /\ dWaiting = FALSE
  /\ cpc = "readIdle" /\ cop = "startup" /\ cTarget = "active" /\ cOk = FALSE
  /\ resets = 0
  /\ fpc = [t \in Loggers |-> "out"]
  /\ fmsg = [t \in Loggers |-> <<t, 0>>]
  /\ sent = [k \in Clients |-> 0]
  /\ written = <<>> /\ oldRows = 0

--------------------------------------------------------------------------------
(* The transition table and its dispatch. *)

F == INSTANCE FSM

Row(source, event, target, action, guard) ==
  [source |-> source, event |-> event, target |-> target, action |-> action, guard |-> guard]

TransitionTable ==
  << Row("initial",     "OpenFile",  "active",      "openLogFile",  "none"),
     Row("active",      "GoLogging", "established", "startLogging", "isLogFileOpened"),
     Row("established", "CloseFile", "active",      "closeLogFile", "none"),
     Row("active",      "NoLogging", "inactive",    "stopLogging",  "isLogFileClosed"),
     Row("initial",     "Standby",   "idle",        "doToggle",     "none"),
     Row("active",      "Standby",   "idle",        "doToggle",     "none"),
     Row("established", "Standby",   "idle",        "doToggle",     "none"),
     Row("established", "Relaunch",  "initial",     "doRollback",   "none"),
     Row("inactive",    "Relaunch",  "initial",     "doRollback",   "none"),
     Row("idle",        "Relaunch",  "initial",     "doRollback",   "none") >>

GuardsThatHold == {IF opened THEN "isLogFileOpened" ELSE "isLogFileClosed"}

RowOf(event) == F!RowFor(TransitionTable, state, event, GuardsThatHold)

\* processEvent runs the action, and ends in the target of its row.
Runs(event, action) == RowOf(event).action = action
EnterTarget(event) == state' = RowOf(event).target

\* processEvent finds no row: the daemon goes on with the state it had.
NoTransition(here, event, next) ==
  /\ dpc = here
  /\ RowOf(event) = F!NoRow
  /\ dpc' = next
  /\ UNCHANGED <<state, flagVars, logQueue, cacheVars, fileVars, readVars, dWaiting,
                 ctrlVars, flushVars, written>>

\* fileLock, as its users see it: a writer holds it within one step.
FileLock == INSTANCE RWLockSpec WITH Threads <- Previewers, writing <- {}

--------------------------------------------------------------------------------
(* The daemon: service(). *)

\* doRollback, up to the open file.
RollbackBegin ==
  /\ dpc = "relaunch"
  /\ Runs("Relaunch", "doRollback")
  /\ isOngoing' = FALSE
  /\ logQueue' = <<>>
  /\ dpc' = IF opened THEN "rbClose" ELSE "rbEnd"
  /\ UNCHANGED <<state, inResetting, cacheVars, fileVars, readVars, dWaiting,
                 ctrlVars, flushVars, written>>

MutRollbackClose ==   \* needClear is computed after the file is closed
  /\ dpc = "rbClose"
  /\ FileLock!CanWrite
  /\ opened' = FALSE /\ locked' = FALSE
  /\ dpc' = "rbEnd"
  /\ UNCHANGED <<state, flagVars, logQueue, cacheVars, file, backups, readVars, dWaiting,
                 ctrlVars, flushVars, written>>

\* doRollback: needClear and closeLogFile.
RollbackClose ==
  /\ dpc = "rbClose"
  /\ FileLock!CanWrite
  /\ opened' = FALSE /\ locked' = FALSE
  /\ dpc' = IF locked THEN "rbClear" ELSE "rbEnd"
  /\ UNCHANGED <<state, flagVars, logQueue, cacheVars, file, backups, readVars, dWaiting,
                 ctrlVars, flushVars, written>>

MutRollbackClear ==   \* the file is cleared without fileLock
  /\ dpc = "rbClear"
  /\ file' = <<>>
  /\ dpc' = "rbEnd"
  /\ UNCHANGED <<state, flagVars, logQueue, cacheVars, opened, locked, backups, readVars,
                 dWaiting, ctrlVars, flushVars, written>>

\* doRollback: tryClearLogFile.
RollbackClear ==
  /\ dpc = "rbClear"
  /\ FileLock!CanWrite
  /\ file' = <<>>
  /\ dpc' = "rbEnd"
  /\ UNCHANGED <<state, flagVars, logQueue, cacheVars, opened, locked, backups, readVars,
                 dWaiting, ctrlVars, flushVars, written>>

RollbackEnd ==
  /\ dpc = "rbEnd"
  /\ inResetting' = FALSE
  /\ EnterTarget("Relaunch")
  /\ dpc' = "open"
  /\ UNCHANGED <<isOngoing, logQueue, cacheVars, fileVars, readVars, dWaiting,
                 ctrlVars, flushVars, written>>

\* openLogFile: tryCreateLogFolder and backUpLogFileIfNeeded.
OpenPrepare ==
  /\ dpc = "open"
  /\ Runs("OpenFile", "openLogFile")
  /\ FileLock!CanWrite
  /\ IF Len(file) >= MaxFileSize
       THEN backups' = Append(backups, file) /\ file' = <<>>
       ELSE UNCHANGED <<backups, file>>
  /\ dpc' = "openWriter"
  /\ UNCHANGED <<state, flagVars, logQueue, cacheVars, opened, locked, readVars, dWaiting,
                 ctrlVars, flushVars, written>>

\* openLogFile: logWriter.open.
OpenWriter ==
  /\ dpc = "openWriter"
  /\ FileLock!CanWrite
  /\ opened' = TRUE
  /\ file' = IF WriteMode = "overwrite" THEN <<>> ELSE file
  /\ EnterTarget("OpenFile")
  /\ dpc' = "proceed"
  /\ UNCHANGED <<flagVars, logQueue, cacheVars, locked, backups, readVars, dWaiting,
                 ctrlVars, flushVars, written>>

\* An action of the table throws: the state stays and service() catches it.
Throws(label) ==
  /\ dpc = label
  /\ dpc' = "catch"
  /\ UNCHANGED <<state, flagVars, logQueue, cacheVars, fileVars, readVars, dWaiting,
                 ctrlVars, flushVars, written>>

OpenThrows == OpenMayFail /\ (Throws("open") \/ Throws("openWriter"))
LockThrows == LockMayFail /\ opened /\ Throws("go")

\* daemonCond.wait: the daemon goes to label next, or blocks.
CondWait(here, passes, next) ==
  /\ dpc = here
  /\ ~dWaiting
  /\ \/ passes /\ dpc' = next /\ UNCHANGED dWaiting
     \/ ~passes /\ dWaiting' = TRUE /\ UNCHANGED dpc

\* awaitNotification2Proceed
AwaitProceed ==
  /\ CondWait("proceed", isOngoing, "go")
  /\ UNCHANGED <<state, flagVars, logQueue, cacheVars, fileVars, readVars,
                 ctrlVars, flushVars, written>>

MutStartLogging ==   \* the file is not locked
  /\ dpc = "go"
  /\ Runs("GoLogging", "startLogging")
  /\ dpc' = "goCache"
  /\ UNCHANGED <<state, flagVars, logQueue, cacheVars, fileVars, readVars,
                 dWaiting, ctrlVars, flushVars, written>>

\* startLogging: logWriter.lock.
StartLogging ==
  /\ dpc = "go"
  /\ Runs("GoLogging", "startLogging")
  /\ locked' = TRUE
  /\ dpc' = "goCache"
  /\ UNCHANGED <<state, flagVars, logQueue, cacheVars, opened, file, backups, readVars,
                 dWaiting, ctrlVars, flushVars, written>>

\* startLogging: dequeueOutputs gives up when it cannot take the spin lock.
DequeueTry ==
  /\ dpc = "goCache"
  /\ IF cacheSwitch = "none"
       THEN cacheSwitch' = "daemon" /\ dpc' = "goDrain" /\ UNCHANGED state
       ELSE EnterTarget("GoLogging") /\ dpc' = "loop" /\ UNCHANGED cacheSwitch
  /\ UNCHANGED <<flagVars, logQueue, pendingCache, fileVars, readVars, dWaiting,
                 ctrlVars, flushVars, written>>

DequeueOutputs ==
  /\ dpc = "goDrain"
  /\ pendingCache' = <<>>
  /\ cacheSwitch' = "none"
  /\ EnterTarget("GoLogging")
  /\ dpc' = "loop"
  /\ UNCHANGED <<flagVars, logQueue, fileVars, readVars, dWaiting, ctrlVars,
                 flushVars, written>>

\* notificationLoop: while (isOngoing.load()), outside of daemonMtx.
LoopTest ==
  /\ dpc = "loop"
  /\ dpc' = IF isOngoing THEN "wait" ELSE "after"
  /\ UNCHANGED <<state, flagVars, logQueue, cacheVars, fileVars, readVars, dWaiting,
                 ctrlVars, flushVars, written>>

MutLoopWait ==   \* the predicate forgets inResetting
  /\ CondWait("wait", ~isOngoing \/ logQueue # <<>>,
              IF inResetting THEN "after" ELSE "drain")
  /\ UNCHANGED <<state, flagVars, logQueue, cacheVars, fileVars, readVars,
                 ctrlVars, flushVars, written>>

\* notificationLoop: wait for something to do; a reset breaks the loop.
LoopWait ==
  /\ CondWait("wait", ~isOngoing \/ logQueue # <<>> \/ inResetting,
              IF inResetting THEN "after" ELSE "drain")
  /\ UNCHANGED <<state, flagVars, logQueue, cacheVars, fileVars, readVars,
                 ctrlVars, flushVars, written>>

\* notificationLoop: put out every queued row, under daemonMtx and fileLock.
LoopDrain ==
  /\ dpc = "drain"
  /\ FileLock!CanWrite
  /\ written' = written \o logQueue
  /\ file' = IF TargetType = "terminal" THEN file ELSE file \o logQueue
  /\ logQueue' = <<>>
  /\ dpc' = "loop"
  /\ UNCHANGED <<state, flagVars, cacheVars, opened, locked, backups, readVars, dWaiting,
                 ctrlVars, flushVars>>

AfterLoop ==
  /\ dpc = "after"
  /\ dpc' = IF inResetting THEN "relaunch" ELSE "close"
  /\ UNCHANGED <<state, flagVars, logQueue, cacheVars, fileVars, readVars, dWaiting,
                 ctrlVars, flushVars, written>>

CloseLogFile ==
  /\ dpc = "close"
  /\ Runs("CloseFile", "closeLogFile")
  /\ FileLock!CanWrite
  /\ opened' = FALSE /\ locked' = FALSE
  /\ EnterTarget("CloseFile")
  /\ dpc' = "stop"
  /\ UNCHANGED <<flagVars, logQueue, cacheVars, file, backups, readVars, dWaiting,
                 ctrlVars, flushVars, written>>

StopLogging ==
  /\ dpc = "stop"
  /\ Runs("NoLogging", "stopLogging")
  /\ isOngoing' = FALSE /\ inResetting' = FALSE
  /\ logQueue' = <<>>
  /\ EnterTarget("NoLogging")
  /\ dpc' = "done"
  /\ UNCHANGED <<cacheVars, fileVars, readVars, dWaiting, ctrlVars, flushVars, written>>

\* The handler of service(): LOG_ERR first ...
CatchLogs ==
  /\ dpc = "catch"
  /\ fpc' = [fpc EXCEPT !["daemon"] = "state"]
  /\ dpc' = "standby"
  /\ UNCHANGED <<state, flagVars, logQueue, cacheVars, fileVars, readVars, dWaiting,
                 ctrlVars, fmsg, sent, written>>

\* ... then Standby, once flush has returned ...
DoToggle ==
  /\ dpc = "standby"
  /\ fpc["daemon"] = "out"
  /\ Runs("Standby", "doToggle")
  /\ EnterTarget("Standby")
  /\ dpc' = "retry"
  /\ UNCHANGED <<flagVars, logQueue, cacheVars, fileVars, readVars, dWaiting,
                 ctrlVars, flushVars, written>>

\* ... then awaitNotification2Retry: a wait without a predicate.
AwaitRetry ==
  /\ dpc = "retry"
  /\ dWaiting' = TRUE
  /\ dpc' = "retryWait"
  /\ UNCHANGED <<state, flagVars, logQueue, cacheVars, fileVars, readVars,
                 ctrlVars, flushVars, written>>

RetryOrReturn ==
  /\ dpc = "retryWait" /\ ~dWaiting
  /\ dpc' = IF inResetting THEN "relaunch" ELSE "done"
  /\ UNCHANGED <<state, flagVars, logQueue, cacheVars, fileVars, readVars, dWaiting,
                 ctrlVars, flushVars, written>>

SpuriousWakeup ==
  /\ dWaiting
  /\ dWaiting' = FALSE
  /\ UNCHANGED <<state, flagVars, logQueue, cacheVars, fileVars, readVars, dpc,
                 ctrlVars, flushVars, written>>

DaemonStep ==
  \/ RollbackBegin \/ RollbackClose \/ RollbackClear \/ RollbackEnd
  \/ NoTransition("relaunch", "Relaunch", "open")
  \/ OpenPrepare \/ OpenWriter \/ OpenThrows
  \/ AwaitProceed
  \/ StartLogging \/ LockThrows \/ DequeueTry \/ DequeueOutputs
  \/ LoopTest \/ LoopWait \/ LoopDrain \/ AfterLoop
  \/ CloseLogFile \/ StopLogging
  \/ CatchLogs \/ DoToggle \/ AwaitRetry \/ RetryOrReturn

--------------------------------------------------------------------------------
(* flush, called by clients and by the LOG_ERR of the other two. *)

FlushGoto(t, here, next) == fpc[t] = here /\ fpc' = [fpc EXCEPT ![t] = next]

\* A client logs its next message (one row of a severity that is not filtered).
FlushBegin(k) ==
  /\ sent[k] < MaxMsgs
  /\ FlushGoto(k, "out", "state")
  /\ sent' = [sent EXCEPT ![k] = @ + 1]
  /\ fmsg' = [fmsg EXCEPT ![k] = <<k, sent[k] + 1>>]
  /\ UNCHANGED <<state, flagVars, logQueue, cacheVars, fileVars, readVars, daemonVars,
                 ctrlVars, written>>

\* isInServingState(established) reads the state, then the flag.
FlushReadState(t) ==
  /\ ~FsmHeld
  /\ FlushGoto(t, "state", IF state = "established" THEN "resetting" ELSE "cache")
  /\ UNCHANGED <<state, flagVars, logQueue, cacheVars, fileVars, readVars, daemonVars,
                 ctrlVars, fmsg, sent, written>>

FlushReadFlag(t) ==
  /\ FlushGoto(t, "resetting", IF inResetting THEN "cache" ELSE "push")
  /\ UNCHANGED <<state, flagVars, logQueue, cacheVars, fileVars, readVars, daemonVars,
                 ctrlVars, fmsg, sent, written>>

FlushPush(t) ==
  /\ ~MtxHeld
  /\ FlushGoto(t, "push", "notify")
  /\ logQueue' = Append(logQueue, fmsg[t])
  /\ UNCHANGED <<state, flagVars, cacheVars, fileVars, readVars, daemonVars, ctrlVars,
                 fmsg, sent, written>>

MutFlushNotify(t) ==   \* no notification
  /\ FlushGoto(t, "notify", "out")
  /\ UNCHANGED <<state, flagVars, logQueue, cacheVars, fileVars, readVars, daemonVars,
                 ctrlVars, fmsg, sent, written>>

FlushNotify(t) ==
  /\ FlushGoto(t, "notify", "out")
  /\ dWaiting' = FALSE
  /\ UNCHANGED <<state, flagVars, logQueue, cacheVars, fileVars, readVars, dpc,
                 ctrlVars, fmsg, sent, written>>

\* enqueueOutputs drops the row when it cannot take the spin lock.
EnqueueTry(t) ==
  /\ IF cacheSwitch = "none"
       THEN FlushGoto(t, "cache", "cachePush") /\ cacheSwitch' = t
       ELSE FlushGoto(t, "cache", "out") /\ UNCHANGED cacheSwitch
  /\ UNCHANGED <<state, flagVars, logQueue, pendingCache, fileVars, readVars, daemonVars,
                 ctrlVars, fmsg, sent, written>>

EnqueueOutputs(t) ==
  /\ FlushGoto(t, "cachePush", "out")
  /\ pendingCache' = <<fmsg[t]>> \o pendingCache
  /\ cacheSwitch' = "none"
  /\ UNCHANGED <<state, flagVars, logQueue, fileVars, readVars, daemonVars, ctrlVars,
                 fmsg, sent, written>>

FlushStep(t) ==
  \/ FlushReadState(t) \/ FlushReadFlag(t) \/ FlushPush(t) \/ FlushNotify(t)
  \/ EnqueueTry(t) \/ EnqueueOutputs(t)

--------------------------------------------------------------------------------
(* The controller: startup, reload, shutdown. *)

ControllerOnly(next) ==
  /\ cpc' = next
  /\ UNCHANGED <<state, flagVars, logQueue, cacheVars, fileVars, readVars, daemonVars,
                 flushVars, written>>

\* syncWaitOr: isInServingState(idle), and then onIdle throws ...
WaitReadIdle ==
  /\ cpc = "readIdle"
  /\ ~FsmHeld
  /\ ControllerOnly(IF state = "idle" THEN "testIdle" ELSE "readTarget")
  /\ UNCHANGED <<cop, cTarget, cOk, resets, oldRows>>

WaitTestIdle ==
  /\ cpc = "testIdle"
  /\ ControllerOnly(IF inResetting THEN "readTarget" ELSE "failed")
  /\ UNCHANGED <<cop, cTarget, cOk, resets, oldRows>>

\* ... or isInServingState(target) ends the loop.
WaitReadTarget ==
  /\ cpc = "readTarget"
  /\ ~FsmHeld
  /\ ControllerOnly(IF state = cTarget THEN "testTarget" ELSE "readIdle")
  /\ UNCHANGED <<cop, cTarget, cOk, resets, oldRows>>

WaitTestTarget ==
  /\ cpc = "testTarget"
  /\ ControllerOnly(IF inResetting THEN "readIdle"
                    ELSE CASE cTarget = "active" -> "set"
                           [] cTarget = "established" -> "ready"
                           [] cTarget = "inactive" -> "end")
  /\ cOk' = (~inResetting /\ cTarget = "established")
  /\ UNCHANGED <<cop, cTarget, resets, oldRows>>

\* syncNotifyVia: set the flag of the call under daemonMtx ...
SetFlag ==
  /\ cpc = "set"
  /\ ~MtxHeld
  /\ isOngoing' = CASE cop = "startup" -> TRUE
                    [] cop = "shutdown" -> FALSE
                    [] OTHER -> isOngoing
  /\ inResetting' = (inResetting \/ cop = "reload")
  /\ oldRows' = IF cop = "reload" THEN Len(written) ELSE oldRows
  /\ cpc' = "notify"
  /\ UNCHANGED <<state, logQueue, cacheVars, fileVars, readVars, daemonVars, cop, cTarget,
                 cOk, resets, flushVars, written>>

MutNotifyDaemon ==   \* no notification
  /\ cpc = "notify"
  /\ cpc' = IF cop = "reload" THEN "countdown" ELSE "readIdle"
  /\ cTarget' = CASE cop = "startup" -> "established"
                  [] cop = "shutdown" -> "inactive"
                  [] OTHER -> cTarget
  /\ UNCHANGED <<state, flagVars, logQueue, cacheVars, fileVars, readVars, daemonVars, cop,
                 cOk, resets, oldRows, flushVars, written>>

\* ... and notify after it, to wait for the daemon's answer.
NotifyDaemon ==
  /\ cpc = "notify"
  /\ dWaiting' = FALSE
  /\ cpc' = IF cop = "reload" THEN "countdown" ELSE "readIdle"
  /\ cTarget' = CASE cop = "startup" -> "established"
                  [] cop = "shutdown" -> "inactive"
                  [] OTHER -> cTarget
  /\ UNCHANGED <<state, flagVars, logQueue, cacheVars, fileVars, readVars, dpc, cop, cOk,
                 resets, oldRows, flushVars, written>>

\* syncCountdownIf: the flag is down, or the period is over.  refresh calls
\* startup next, whatever reload has met.
BeginStartup == cop' = "startup" /\ cTarget' = "active"

CountdownDone ==
  /\ cpc = "countdown"
  /\ ~inResetting
  /\ ControllerOnly("readIdle")
  /\ BeginStartup
  /\ UNCHANGED <<cOk, resets, oldRows>>

CountdownTimeout ==
  /\ cpc = "countdown"
  /\ ControllerOnly("failed")
  /\ UNCHANGED <<cop, cTarget, cOk, resets, oldRows>>

\* The handler of the three calls: LOG_ERR, and the call ends.
FailureLogs ==
  /\ cpc = "failed"
  /\ FlushGoto("controller", "out", "state")
  /\ IF cop = "reload"
       THEN cpc' = "readIdle" /\ BeginStartup
       ELSE /\ cpc' = IF cop = "startup" THEN "ready" ELSE "end"
            /\ UNCHANGED <<cop, cTarget>>
  /\ cOk' = FALSE
  /\ UNCHANGED <<state, flagVars, logQueue, cacheVars, fileVars, readVars, daemonVars,
                 resets, oldRows, fmsg, sent, written>>

\* The program between the calls: refresh in the console, or the end.
Refresh ==
  /\ cpc = "ready"
  /\ resets < MaxResets
  /\ ControllerOnly("set")
  /\ cop' = "reload"
  /\ resets' = resets + 1
  /\ cOk' = FALSE
  /\ UNCHANGED <<cTarget, oldRows>>

Shutdown ==
  /\ cpc = "ready"
  /\ ControllerOnly("set")
  /\ cop' = "shutdown"
  /\ cOk' = FALSE
  /\ UNCHANGED <<cTarget, resets, oldRows>>

\* The controller acts when its own LOG_ERR has returned.
ControllerStep ==
  /\ fpc["controller"] = "out"
  /\ \/ WaitReadIdle \/ WaitTestIdle \/ WaitReadTarget \/ WaitTestTarget
     \/ SetFlag \/ NotifyDaemon \/ CountdownDone \/ FailureLogs

ControllerChoice ==
  /\ fpc["controller"] = "out"
  /\ Refresh \/ Shutdown \/ CountdownTimeout

--------------------------------------------------------------------------------
(* onPreviewing: read the file under fileLock. *)

PreviewBegin(p) ==
  /\ previews < MaxPreviews
  /\ FileLock!AcquireRead(p)
  /\ previews' = previews + 1
  /\ UNCHANGED <<state, flagVars, logQueue, cacheVars, fileVars, daemonVars, ctrlVars,
                 flushVars, written>>

PreviewEnd(p) ==
  /\ FileLock!ReleaseRead(p)
  /\ UNCHANGED <<state, flagVars, logQueue, cacheVars, fileVars, previews, daemonVars,
                 ctrlVars, flushVars, written>>

Terminated ==
  /\ dpc = "done" /\ cpc = "end"
  /\ UNCHANGED vars

Next ==
  \/ DaemonStep \/ SpuriousWakeup
  \/ ControllerStep \/ ControllerChoice
  \/ \E t \in Loggers : FlushStep(t)
  \/ \E k \in Clients : FlushBegin(k)
  \/ \E p \in Previewers : PreviewBegin(p) \/ PreviewEnd(p)
  \/ Terminated

Spec == Init /\ [][Next]_vars

(***************************************************************************)
(* The threads are scheduled, a preview ends, a flush goes on to its end,  *)
(* and a countdown that does not see the flag go down times out.  Nothing  *)
(* makes a client log, a user refresh or the program end.                  *)
(***************************************************************************)
FairSpec ==
  /\ Spec
  /\ WF_vars(DaemonStep)
  /\ WF_vars(ControllerStep \/ (fpc["controller"] = "out" /\ CountdownTimeout))
  /\ \A t \in Loggers : WF_vars(FlushStep(t))
  /\ \A p \in Previewers : WF_vars(PreviewEnd(p))

--------------------------------------------------------------------------------
(* Properties. *)

\* The assertions of service(): each event meets the state it is written for, so
\* that processEvent never falls through to noTransition.
EventsAreAccepted ==
  /\ dpc \in {"open", "openWriter"} => state = "initial"
  /\ dpc \in {"proceed", "go", "goCache", "goDrain"} => state = "active" /\ opened
  /\ dpc \in {"loop", "wait", "drain", "after", "close"} => state = "established"
  /\ dpc = "stop" => state = "active" /\ ~opened
  /\ dpc = "standby" => state \in {"initial", "active"}

\* Whoever reads "established" finds the log file open and locked for this
\* process: closing it and leaving the state are one step to currentState().
ServingMeansLocked == state = "established" /\ ~FsmHeld => opened /\ locked

\* startup returns without an error only when the logger serves, and nothing but
\* the controller's next call ends that: no stale state or flag is taken for it.
StartupMeansServing ==
  cpc = "ready" /\ cOk => /\ state = "established"
                          /\ isOngoing /\ ~inResetting
                          /\ dpc \in {"loop", "wait", "drain"}

\* The daemon does not sleep through a condition it waits for, unless the thread
\* that made it true has still to notify.  (The wait of awaitNotification2Retry
\* has no condition.)
SleepIsJustified ==
  dWaiting =>
    \/ dpc = "proceed" /\ (~isOngoing \/ cpc = "notify")
    \/ dpc = "wait" /\ \/ isOngoing /\ logQueue = <<>> /\ ~inResetting
                       \/ cpc = "notify"
                       \/ \E t \in Loggers : fpc[t] = "notify"
    \/ dpc = "retryWait"

\* A client's rows are put out in the order it logged them and never twice, across
\* sessions, resets and the races of flush with them.
WrittenInOrder ==
  \A i, j \in DOMAIN written :
    i < j /\ written[i][1] = written[j][1] /\ written[i][1] \in Clients
      => written[i][2] < written[j][2]

\* What the controller, the clients and service() take for granted of one another.
LogInvariant == TypeOK /\ EventsAreAccepted /\ ServingMeansLocked /\ StartupMeansServing

\* After a refresh that succeeds the log file holds no row from before it.
RefreshClearsTheFile ==
  cpc = "ready" /\ cOk =>
    Range(file) \cap Range(SubSeq(written, 1, oldRows)) \cap (Clients \X Nat) = {}

\* The file does not change under a preview.
PreviewsSeeAStableFile == [][reading # {} => UNCHANGED <<file, backups>>]_vars

\* A row that reaches logQueue is put out unless the session is ending, and rows come
\* out in the order of their client's calls.
RowsComeOut ==
  /\ []WrittenInOrder
  /\ \A r \in Clients \X (1 .. MaxMsgs) :
       r \in Range(logQueue) ~> r \in Range(written) \/ inResetting \/ ~isOngoing

\* When the file can be opened and locked: startup succeeds, and shutdown ends
\* both the call and the service.
StartupSucceeds == cop = "startup" ~> cpc = "ready" /\ cOk
ShutdownStopsTheService == cop = "shutdown" ~> dpc = "done" /\ cpc = "end"
ControllerIsObeyed == StartupSucceeds /\ ShutdownStopsTheService
================================================================================
