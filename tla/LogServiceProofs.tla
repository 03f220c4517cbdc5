--------------------------- MODULE LogServiceProofs ---------------------------
(***************************************************************************)
(* Proofs about LogService for any clients, previewers and bounds, with or *)
(* without failures of the log file.                                       *)
(*                                                                         *)
(* The invariant has three layers.  Daemon ties the daemon's label to the  *)
(* state machine and to the log file.  Handshake ties it to the flags and  *)
(* to the call the controller is in: a session ends only by a reset or in  *)
(* a shutdown, and startup waits for a session that nothing will end.      *)
(* Order and Clean follow the rows through logQueue into the file.         *)
(***************************************************************************)
EXTENDS LogService, SequenceTheorems, TLAPS

--------------------------------------------------------------------------------
(* The inductive invariant. *)

Serving == {"loop", "wait", "drain", "after", "close"}

\* Label, state of the state machine, and log file.
Daemon ==
  /\ locked => opened
  /\ state = "idle" => ~locked
  /\ dpc = "relaunch" => \/ state = "initial" /\ ~opened
                         \/ state = "established" /\ locked
                         \/ state = "idle"
  /\ dpc \in {"rbClose", "rbClear", "rbEnd"} => state \in {"established", "idle"}
  /\ dpc = "rbClose" => opened /\ (state = "established" => locked)
  /\ dpc \in {"rbClear", "rbEnd", "open", "openWriter", "stop"} => ~opened
  /\ dpc \in {"open", "openWriter"} => state = "initial"
  /\ dpc \in {"proceed", "go", "goCache", "goDrain"} => state = "active" /\ opened
  /\ dpc \in {"proceed", "go", "catch", "standby"} => ~locked
  /\ dpc \in {"goCache", "goDrain"} => locked
  /\ dpc \in Serving => state = "established" /\ locked
  /\ dpc = "stop" => state = "active"
  /\ dpc \in {"catch", "standby"} => state \in {"initial", "active"}
  /\ dpc \in {"retry", "retryWait"} => state = "idle"
  /\ dpc = "done" => state \in {"inactive", "idle"}

\* The controller has not yet told the daemon to end.
NotEnding == cop # "shutdown" \/ cpc = "set"

\* Flags, and the call the controller is in.
Handshake ==
  /\ cpc \in {"readIdle", "testIdle", "readTarget", "testTarget"} =>
       \/ cop = "startup" /\ cTarget \in {"active", "established"}
       \/ cop = "shutdown" /\ cTarget = "inactive"
  /\ cpc \in {"set", "notify"} /\ cop = "startup" => cTarget = "active" /\ ~inResetting
  /\ cpc = "countdown" => cop = "reload"
  /\ cpc = "ready" => cop = "startup"
  /\ cop = "startup" /\ (cpc = "notify" \/ cTarget = "established") => isOngoing /\ ~inResetting
  /\ dpc \in {"rbClose", "rbClear", "rbEnd"} => inResetting
  /\ dpc = "relaunch" /\ state # "initial" => inResetting
  /\ NotEnding /\ dpc \in {"go", "goCache", "goDrain", "loop", "wait", "drain", "after"} => isOngoing
  /\ NotEnding /\ dpc = "after" => inResetting
  /\ NotEnding => dpc \notin {"close", "stop"}
  /\ dpc \in {"close", "stop"} => ~inResetting
  /\ \/ cpc = "testTarget" /\ cTarget = "established"
     \/ cpc = "ready" /\ cOk
     => cop = "startup" /\ cTarget = "established" /\ dpc \in {"loop", "wait", "drain"}

\* The rows put out and the ones queued, in order.
Stream == written \o logQueue

BeforePush == {"state", "resetting", "push"}

\* The rows of a client: each older than the next and not newer than the one it is logging.
Order ==
  /\ \A t \in Loggers : fmsg[t] = <<t, IF t \in Clients THEN sent[t] ELSE 0>>
  /\ \A i, j \in DOMAIN Stream :
       i < j /\ Stream[i][1] = Stream[j][1] /\ Stream[i][1] \in Clients
         => Stream[i][2] < Stream[j][2]
  /\ \A i \in DOMAIN Stream :
       Stream[i][1] \in Clients =>
         /\ Stream[i][2] <= sent[Stream[i][1]]
         /\ fpc[Stream[i][1]] \in BeforePush => Stream[i][2] < sent[Stream[i][1]]

ClientRows == Clients \X Nat
OldOnes == Range(SubSeq(written, 1, oldRows))

\* The file outside of a session has no row of a client, and during one none
\* from before the last reset.
Clean ==
  /\ \/ dpc \in {"rbEnd", "open", "openWriter", "proceed", "go", "goCache", "goDrain",
                 "catch", "standby", "retry", "retryWait"}
     \/ dpc \in {"relaunch", "rbClose"} /\ ~locked
     => Range(file) \cap ClientRows = {}
  /\ ~inResetting => Range(file) \cap OldOnes \cap ClientRows = {}

IInv == TypeOK /\ Daemon /\ Handshake /\ SleepIsJustified /\ Order /\ Clean

--------------------------------------------------------------------------------
(* The dispatch of an event, and fileLock. *)

\* What processEvent finds in the table for each event, by the state and the guards.
LEMMA Dispatch ==
  ASSUME state \in States, opened \in BOOLEAN
  PROVE  /\ Runs("OpenFile", "openLogFile") <=> state = "initial"
         /\ state = "initial" => RowOf("OpenFile").target = "active"
         /\ Runs("GoLogging", "startLogging") <=> state = "active" /\ opened
         /\ state = "active" /\ opened => RowOf("GoLogging").target = "established"
         /\ Runs("CloseFile", "closeLogFile") <=> state = "established"
         /\ state = "established" => RowOf("CloseFile").target = "active"
         /\ Runs("NoLogging", "stopLogging") <=> state = "active" /\ ~opened
         /\ state = "active" /\ ~opened => RowOf("NoLogging").target = "inactive"
         /\ Runs("Standby", "doToggle") <=> state \in {"initial", "active", "established"}
         /\ state \in {"initial", "active", "established"} => RowOf("Standby").target = "idle"
         /\ Runs("Relaunch", "doRollback") <=> state \in {"established", "inactive", "idle"}
         /\ state \in {"established", "inactive", "idle"} => RowOf("Relaunch").target = "initial"
         /\ RowOf("Relaunch") = F!NoRow <=> state \in {"initial", "active"}
  <1> DEFINE C(event) == F!Candidates(TransitionTable, F!ByEvent(TransitionTable, event),
                                      state, GuardsThatHold)
  <1>1. ASSUME NEW e, C(e) = {} PROVE RowOf(e) = F!NoRow
    BY <1>1 DEF RowOf, F!RowFor, F!Execute
  <1>2. ASSUME NEW e, NEW n \in Nat, C(e) = {n} PROVE RowOf(e) = TransitionTable[n]
    BY <1>2 DEF RowOf, F!RowFor, F!Execute
  <1>3. /\ C("OpenFile") = IF state = "initial" THEN {1} ELSE {}
        /\ C("GoLogging") = IF state = "active" /\ opened THEN {2} ELSE {}
        /\ C("CloseFile") = IF state = "established" THEN {3} ELSE {}
        /\ C("NoLogging") = IF state = "active" /\ ~opened THEN {4} ELSE {}
    BY DEF F!Candidates, F!ByEvent, TransitionTable, Row, GuardsThatHold, States
  <1>4. C("Standby") = CASE state = "initial" -> {5}
                         [] state = "active" -> {6}
                         [] state = "established" -> {7}
                         [] OTHER -> {}
    BY DEF F!Candidates, F!ByEvent, TransitionTable, Row, GuardsThatHold, States
  <1>5. C("Relaunch") = CASE state = "established" -> {8}
                          [] state = "inactive" -> {9}
                          [] state = "idle" -> {10}
                          [] OTHER -> {}
    BY DEF F!Candidates, F!ByEvent, TransitionTable, Row, GuardsThatHold, States
  <1> HIDE DEF C
  <1>6. /\ RowOf("OpenFile") = IF state = "initial" THEN TransitionTable[1] ELSE F!NoRow
        /\ RowOf("GoLogging") =
             IF state = "active" /\ opened THEN TransitionTable[2] ELSE F!NoRow
        /\ RowOf("CloseFile") = IF state = "established" THEN TransitionTable[3] ELSE F!NoRow
        /\ RowOf("NoLogging") =
             IF state = "active" /\ ~opened THEN TransitionTable[4] ELSE F!NoRow
    BY <1>1, <1>2, <1>3
  <1>7. RowOf("Standby") = CASE state = "initial" -> TransitionTable[5]
                             [] state = "active" -> TransitionTable[6]
                             [] state = "established" -> TransitionTable[7]
                             [] OTHER -> F!NoRow
    BY <1>1, <1>2, <1>4
  <1>8. RowOf("Relaunch") = CASE state = "established" -> TransitionTable[8]
                              [] state = "inactive" -> TransitionTable[9]
                              [] state = "idle" -> TransitionTable[10]
                              [] OTHER -> F!NoRow
    BY <1>1, <1>2, <1>5
  <1>9. /\ TransitionTable[1].action = "openLogFile"  /\ TransitionTable[1].target = "active"
        /\ TransitionTable[2].action = "startLogging" /\ TransitionTable[2].target = "established"
        /\ TransitionTable[3].action = "closeLogFile" /\ TransitionTable[3].target = "active"
        /\ TransitionTable[4].action = "stopLogging"  /\ TransitionTable[4].target = "inactive"
        /\ \A n \in 5 .. 7 :
             TransitionTable[n].action = "doToggle" /\ TransitionTable[n].target = "idle"
        /\ \A n \in 8 .. 10 :
             TransitionTable[n].action = "doRollback" /\ TransitionTable[n].target = "initial"
        /\ F!NoRow.action = "none"
    BY DEF TransitionTable, Row, F!NoRow
  <1> HIDE DEF TransitionTable, F!NoRow
  <1>10. /\ Runs("OpenFile", "openLogFile") <=> state = "initial"
         /\ state = "initial" => RowOf("OpenFile").target = "active"
         /\ Runs("GoLogging", "startLogging") <=> state = "active" /\ opened
         /\ state = "active" /\ opened => RowOf("GoLogging").target = "established"
    BY <1>6, <1>9 DEF Runs
  <1>11. /\ Runs("CloseFile", "closeLogFile") <=> state = "established"
         /\ state = "established" => RowOf("CloseFile").target = "active"
         /\ Runs("NoLogging", "stopLogging") <=> state = "active" /\ ~opened
         /\ state = "active" /\ ~opened => RowOf("NoLogging").target = "inactive"
    BY <1>6, <1>9 DEF Runs
  <1>12. /\ Runs("Standby", "doToggle") <=> state \in {"initial", "active", "established"}
         /\ state \in {"initial", "active", "established"} => RowOf("Standby").target = "idle"
    BY <1>7, <1>9 DEF Runs, States
  <1>13. /\ Runs("Relaunch", "doRollback") <=> state \in {"established", "inactive", "idle"}
         /\ state \in {"established", "inactive", "idle"} => RowOf("Relaunch").target = "initial"
         /\ RowOf("Relaunch") = F!NoRow <=> state \in {"initial", "active"}
    BY <1>8, <1>9 DEF Runs, States
  <1>14. QED
    BY <1>10, <1>11, <1>12, <1>13

\* The steps of the daemon that only move its label.
DaemonMoves ==
  \/ NoTransition("relaunch", "Relaunch", "open") \/ OpenThrows \/ LockThrows
  \/ LoopTest \/ AfterLoop \/ RetryOrReturn

\* Types, for every step of the daemon.
LEMMA DaemonTypes == TypeOK /\ Daemon /\ DaemonStep => TypeOK'
  <1> SUFFICES ASSUME TypeOK, Daemon, DaemonStep PROVE TypeOK'
    OBVIOUS
  <1>a. state \in States /\ opened \in BOOLEAN /\ dpc \in DaemonLabels
    BY Zenon DEF TypeOK
  <1>b. <<>> \in Seq(Rows) /\ <<>> \in Seq(Rows \cup {OldRow})
    OBVIOUS
  <1> USE DEF flagVars, cacheVars, fileVars, readVars, daemonVars, ctrlVars, flushVars
  <1>1. CASE RollbackBegin
    <2>1. dpc' \in DaemonLabels
      BY <1>1 DEF RollbackBegin, DaemonLabels
    <2>2. QED
      BY <1>1, <1>b, <2>1 DEF RollbackBegin, TypeOK
  <1>2. CASE RollbackClose
    <2>1. dpc' \in DaemonLabels
      BY <1>2 DEF RollbackClose, DaemonLabels
    <2>2. QED
      BY <1>2, <2>1 DEF RollbackClose, TypeOK
  <1>3. CASE RollbackClear
    <2>1. dpc' \in DaemonLabels
      BY <1>3 DEF RollbackClear, DaemonLabels
    <2>2. QED
      BY <1>3, <1>b, <2>1 DEF RollbackClear, TypeOK
  <1>4. CASE RollbackEnd
    <2>1. dpc' \in DaemonLabels /\ state' \in States
      BY <1>a, <1>4, Dispatch DEF RollbackEnd, DaemonLabels, EnterTarget, States, Daemon
    <2>2. QED
      BY <1>4, <2>1 DEF RollbackEnd, TypeOK
  <1>5. CASE DaemonMoves
    <2>1. dpc' \in DaemonLabels
      BY <1>5 DEF DaemonMoves, NoTransition, OpenThrows, LockThrows, Throws, LoopTest,
                  AfterLoop, RetryOrReturn, DaemonLabels
    <2>2. UNCHANGED <<state, flagVars, logQueue, cacheVars, fileVars, readVars, dWaiting,
                      ctrlVars, flushVars, written>>
      BY <1>5, Zenon DEF DaemonMoves, NoTransition, OpenThrows, LockThrows, Throws, LoopTest,
                  AfterLoop, RetryOrReturn
    <2>3. QED
      BY <2>1, <2>2 DEF TypeOK
  <1>6. CASE OpenPrepare
    <2> DEFINE Files == Seq(Rows \cup {OldRow})
    <2>1. dpc' \in DaemonLabels
      BY <1>6 DEF OpenPrepare, DaemonLabels
    <2>2. file \in Files /\ backups \in Seq(Files)
      BY DEF TypeOK
    <2>3. file' \in Files
      BY <1>6, <1>b, <2>2 DEF OpenPrepare
    <2>4. backups' \in Seq(Files)
      <3> HIDE DEF Files
      <3>1. Append(backups, file) \in Seq(Files)
        BY <2>2, AppendProperties
      <3>2. QED
        BY <1>6, <2>2, <3>1 DEF OpenPrepare
    <2>5. QED
      BY <1>6, <2>1, <2>3, <2>4 DEF OpenPrepare, TypeOK
  <1>7. CASE OpenWriter
    <2>1. /\ dpc' \in DaemonLabels /\ state' \in States
          /\ file' \in Seq(Rows \cup {OldRow})
      BY <1>a, <1>7, Dispatch DEF OpenWriter, DaemonLabels, EnterTarget, States, Daemon, TypeOK
    <2>2. QED
      BY <1>7, <2>1 DEF OpenWriter, TypeOK
  <1>8. CASE AwaitProceed \/ LoopWait
    <2>1. dpc' \in DaemonLabels
      BY <1>a, <1>8 DEF AwaitProceed, LoopWait, CondWait, DaemonLabels
    <2>2. dWaiting' \in BOOLEAN
      BY <1>8, Zenon DEF AwaitProceed, LoopWait, CondWait, TypeOK
    <2>3. UNCHANGED <<state, flagVars, logQueue, cacheVars, fileVars, readVars,
                      ctrlVars, flushVars, written>>
      BY <1>8, Zenon DEF AwaitProceed, LoopWait
    <2>4. QED
      BY <2>1, <2>2, <2>3 DEF TypeOK
  <1>9. CASE StartLogging
    <2>1. dpc' \in DaemonLabels
      BY <1>9 DEF StartLogging, DaemonLabels
    <2>2. QED
      BY <1>9, <2>1 DEF StartLogging, TypeOK
  <1>10. CASE DequeueTry
    <2>1. /\ dpc' \in DaemonLabels /\ state' \in States
          /\ cacheSwitch' \in Loggers \cup {"none"}
      BY <1>a, <1>10, Dispatch
         DEF DequeueTry, DaemonLabels, EnterTarget, States, Daemon, Loggers, TypeOK
    <2>2. QED
      BY <1>10, <2>1 DEF DequeueTry, TypeOK
  <1>11. CASE DequeueOutputs
    <2>1. dpc' \in DaemonLabels /\ state' \in States
      BY <1>a, <1>11, Dispatch DEF DequeueOutputs, DaemonLabels, EnterTarget, States, Daemon
    <2>2. QED
      BY <1>11, <1>b, <2>1 DEF DequeueOutputs, TypeOK
  <1>12. CASE LoopDrain
    <2>1. dpc' \in DaemonLabels
      BY <1>12 DEF LoopDrain, DaemonLabels
    <2>2. /\ written' \in Seq(Rows) /\ Len(written) <= Len(written')
          /\ file' \in Seq(Rows \cup {OldRow})
      BY <1>12, SMTT(20) DEF LoopDrain, TypeOK
    <2>3. oldRows' \in 0 .. Len(written')
      BY <1>12, <2>2 DEF LoopDrain, TypeOK
    <2>4. QED
      BY <1>12, <1>b, <2>1, <2>2, <2>3 DEF LoopDrain, TypeOK
  <1>13. CASE CloseLogFile
    <2>1. dpc' \in DaemonLabels /\ state' \in States
      BY <1>a, <1>13, Dispatch DEF CloseLogFile, DaemonLabels, EnterTarget, States, Daemon, Serving
    <2>2. QED
      BY <1>13, <2>1 DEF CloseLogFile, TypeOK
  <1>14. CASE StopLogging
    <2>1. dpc' \in DaemonLabels /\ state' \in States
      BY <1>a, <1>14, Dispatch DEF StopLogging, DaemonLabels, EnterTarget, States, Daemon
    <2>2. QED
      BY <1>14, <1>b, <2>1 DEF StopLogging, TypeOK
  <1>15. CASE CatchLogs
    <2>1. dpc' \in DaemonLabels
      BY <1>15 DEF CatchLogs, DaemonLabels
    <2>2. fpc' \in [Loggers -> {"out", "state", "resetting", "push", "notify", "cache", "cachePush"}]
      BY <1>15 DEF CatchLogs, TypeOK
    <2>3. QED
      BY <1>15, <2>1, <2>2 DEF CatchLogs, TypeOK
  <1>16. CASE DoToggle
    <2>1. dpc' \in DaemonLabels /\ state' \in States
      BY <1>a, <1>16, Dispatch DEF DoToggle, DaemonLabels, EnterTarget, States, Daemon
    <2>2. QED
      BY <1>16, <2>1 DEF DoToggle, TypeOK
  <1>17. CASE AwaitRetry
    <2>1. dpc' \in DaemonLabels
      BY <1>17 DEF AwaitRetry, DaemonLabels
    <2>2. QED
      BY <1>17, <2>1 DEF AwaitRetry, TypeOK
  <1>18. QED
    BY <1>1, <1>2, <1>3, <1>4, <1>5, <1>6, <1>7, <1>8, <1>9, <1>10, <1>11, <1>12, <1>13,
       <1>14, <1>15, <1>16, <1>17, Zenon DEF DaemonStep, DaemonMoves

\* Types, for every step of the other threads.
LEMMA FlushTypes == ASSUME TypeOK, NEW t \in Loggers, FlushStep(t) PROVE TypeOK'
  <1> DEFINE L == {"out", "state", "resetting", "push", "notify", "cache", "cachePush"}
  <1> USE DEF flagVars, cacheVars, fileVars, readVars, daemonVars, ctrlVars, flushVars, FlushGoto
  <1>1. fpc' \in [Loggers -> L]
    BY DEF FlushStep, FlushReadState, FlushReadFlag, FlushPush, FlushNotify, EnqueueTry,
           EnqueueOutputs, TypeOK
  <1>2. fmsg[t] \in Rows
    BY DEF TypeOK
  <1>3. CASE FlushReadState(t) \/ FlushReadFlag(t)
    <2>1. UNCHANGED <<state, flagVars, logQueue, cacheVars, fileVars, readVars, daemonVars,
                      ctrlVars, fmsg, sent, written>>
      BY <1>3, Zenon DEF FlushReadState, FlushReadFlag
    <2>2. QED
      BY <1>1, <2>1 DEF TypeOK
  <1>4. CASE FlushPush(t)
    <2>1. logQueue' \in Seq(Rows)
      BY <1>2, <1>4 DEF FlushPush, TypeOK
    <2>2. QED
      BY <1>1, <1>4, <2>1 DEF FlushPush, TypeOK
  <1>5. CASE FlushNotify(t)
    BY <1>1, <1>5 DEF FlushNotify, TypeOK
  <1>6. CASE EnqueueTry(t)
    <2>1. cacheSwitch' \in Loggers \cup {"none"}
      BY <1>6 DEF EnqueueTry, TypeOK
    <2>2. QED
      BY <1>1, <1>6, <2>1 DEF EnqueueTry, TypeOK
  <1>7. CASE EnqueueOutputs(t)
    <2>1. pendingCache' \in Seq(Rows)
      BY <1>2, <1>7 DEF EnqueueOutputs, TypeOK
    <2>2. QED
      BY <1>1, <1>7, <2>1 DEF EnqueueOutputs, TypeOK
  <1>8. QED
    BY <1>3, <1>4, <1>5, <1>6, <1>7, Zenon DEF FlushStep

LEMMA FlushBeginTypes == ASSUME TypeOK, NEW k \in Clients, FlushBegin(k) PROVE TypeOK'
  <1>1. k \in Loggers /\ sent[k] + 1 \in 0 .. MaxMsgs
    BY LogAssumption DEF Loggers, FlushBegin, TypeOK
  <1>2. /\ fpc' \in [Loggers -> {"out", "state", "resetting", "push", "notify", "cache", "cachePush"}]
        /\ sent' \in [Clients -> 0 .. MaxMsgs]
        /\ fmsg' \in [Loggers -> Rows]
    BY <1>1 DEF FlushBegin, FlushGoto, TypeOK, Rows
  <1>3. QED
    BY <1>2 DEF FlushBegin, TypeOK, flagVars, cacheVars, fileVars, readVars, daemonVars, ctrlVars

LEMMA ControllerTypes == TypeOK /\ (ControllerStep \/ ControllerChoice) => TypeOK'
  <1> SUFFICES ASSUME TypeOK, ControllerStep \/ ControllerChoice PROVE TypeOK'
    OBVIOUS
  <1> USE DEF flagVars, cacheVars, fileVars, readVars, daemonVars, flushVars, ControllerOnly
  <1>1. CASE WaitReadIdle \/ WaitTestIdle \/ WaitReadTarget \/ CountdownTimeout
    BY <1>1 DEF WaitReadIdle, WaitTestIdle, WaitReadTarget, CountdownTimeout, TypeOK
  <1>2. CASE WaitTestTarget
    <2>1. cOk' \in BOOLEAN
      BY <1>2, Zenon DEF WaitTestTarget
    <2>2. QED
      BY <1>2, <2>1 DEF WaitTestTarget, TypeOK
  <1>3. CASE SetFlag
    <2>1. isOngoing' \in BOOLEAN /\ inResetting' \in BOOLEAN
      BY <1>3, Zenon DEF SetFlag, TypeOK
    <2>2. oldRows' \in 0 .. Len(written)
      BY <1>3 DEF SetFlag, TypeOK
    <2>3. QED
      BY <1>3, <2>1, <2>2 DEF SetFlag, TypeOK
  <1>4. CASE NotifyDaemon
    BY <1>4 DEF NotifyDaemon, TypeOK
  <1>5. CASE CountdownDone
    BY <1>5 DEF CountdownDone, BeginStartup, TypeOK
  <1>6. CASE FailureLogs
    <2>1. /\ cpc' \in {"readIdle", "ready", "end"}
          /\ cop' \in {"startup", "reload", "shutdown"}
          /\ cTarget' \in {"active", "established", "inactive"}
      BY <1>6 DEF FailureLogs, BeginStartup, TypeOK
    <2>2. fpc' \in [Loggers -> {"out", "state", "resetting", "push", "notify", "cache", "cachePush"}]
      BY <1>6 DEF FailureLogs, FlushGoto, TypeOK
    <2>3. QED
      BY <1>6, <2>1, <2>2 DEF FailureLogs, TypeOK
  <1>7. CASE Refresh \/ Shutdown
    <2>1. resets' \in 0 .. MaxResets /\ cop' \in {"reload", "shutdown"} /\ cpc' = "set"
      BY <1>7, LogAssumption DEF Refresh, Shutdown, TypeOK
    <2>2. cOk' = FALSE /\ UNCHANGED <<cTarget, oldRows>>
      BY <1>7, Zenon DEF Refresh, Shutdown
    <2>3. UNCHANGED <<state, flagVars, logQueue, cacheVars, fileVars, readVars, daemonVars,
                      flushVars, written>>
      BY <1>7, Zenon DEF Refresh, Shutdown
    <2>4. QED
      BY <2>1, <2>2, <2>3 DEF TypeOK
  <1>8. QED
    BY <1>1, <1>2, <1>3, <1>4, <1>5, <1>6, <1>7, Zenon DEF ControllerStep, ControllerChoice

LEMMA PreviewTypes ==
  ASSUME TypeOK, NEW p \in Previewers, PreviewBegin(p) \/ PreviewEnd(p)
  PROVE  TypeOK'
  <1>1. reading' \subseteq Previewers /\ previews' \in 0 .. MaxPreviews
    BY LogAssumption DEF TypeOK, PreviewBegin, PreviewEnd, FileLock!AcquireRead, FileLock!ReleaseRead
  <1>2. UNCHANGED <<state, flagVars, logQueue, cacheVars, fileVars, daemonVars, ctrlVars,
                    flushVars, written>>
    BY Zenon DEF PreviewBegin, PreviewEnd
  <1>3. QED
    BY <1>1, <1>2 DEF TypeOK, flagVars, cacheVars, fileVars, daemonVars, ctrlVars, flushVars

LEMMA TypeStep == TypeOK /\ Daemon /\ [Next]_vars => TypeOK'
  <1> SUFFICES ASSUME TypeOK, Daemon, [Next]_vars PROVE TypeOK'
    OBVIOUS
  <1>1. CASE SpuriousWakeup
    BY <1>1 DEF SpuriousWakeup, TypeOK, flagVars, cacheVars, fileVars, readVars, ctrlVars, flushVars
  <1>2. CASE Terminated \/ UNCHANGED vars
    <2>1. UNCHANGED vars
      BY <1>2, Zenon DEF Terminated
    <2>2. QED
      BY <2>1 DEF vars, TypeOK, flagVars, cacheVars, fileVars, readVars, daemonVars, ctrlVars,
                  flushVars
  <1>3. QED
    BY <1>1, <1>2, DaemonTypes, FlushTypes, FlushBeginTypes, ControllerTypes, PreviewTypes, Zenon
    DEF Next

--------------------------------------------------------------------------------
(* The layers of the invariant, step by step. *)

\* What the other threads leave alone.
DaemonOwns == <<state, opened, locked, dpc, file, backups, written>>

LEMMA OthersLeaveTheDaemon ==
  ASSUME \/ SpuriousWakeup \/ ControllerStep \/ ControllerChoice
         \/ \E t \in Loggers : FlushStep(t)
         \/ \E k \in Clients : FlushBegin(k)
         \/ \E p \in Previewers : PreviewBegin(p) \/ PreviewEnd(p)
         \/ Terminated \/ UNCHANGED vars
  PROVE  UNCHANGED DaemonOwns
  <1> USE DEF DaemonOwns, vars, fileVars, daemonVars
  <1>1. CASE SpuriousWakeup \/ Terminated \/ UNCHANGED vars
    BY <1>1, Zenon DEF SpuriousWakeup, Terminated
  <1>2. CASE ControllerStep \/ ControllerChoice
    BY <1>2, Zenon DEF ControllerStep, ControllerChoice, WaitReadIdle, WaitTestIdle, WaitReadTarget,
                WaitTestTarget, SetFlag, NotifyDaemon, CountdownDone, CountdownTimeout,
                FailureLogs, Refresh, Shutdown, ControllerOnly
  <1>3. ASSUME NEW t \in Loggers, FlushStep(t) PROVE UNCHANGED DaemonOwns
    BY <1>3, Zenon DEF FlushStep, FlushReadState, FlushReadFlag, FlushPush, FlushNotify, EnqueueTry,
                EnqueueOutputs
  <1>4. ASSUME NEW k \in Clients, FlushBegin(k) PROVE UNCHANGED DaemonOwns
    BY <1>4, Zenon DEF FlushBegin
  <1>5. ASSUME NEW p \in Previewers, PreviewBegin(p) \/ PreviewEnd(p) PROVE UNCHANGED DaemonOwns
    BY <1>5, Zenon DEF PreviewBegin, PreviewEnd
  <1>6. QED
    BY <1>1, <1>2, <1>3, <1>4, <1>5, Zenon

\* Label, state and file, for every step.
LEMMA DaemonKept == TypeOK /\ Daemon /\ [Next]_vars => Daemon'
  <1> SUFFICES ASSUME TypeOK, Daemon, [Next]_vars PROVE Daemon'
    OBVIOUS
  <1>a. state \in States /\ opened \in BOOLEAN /\ locked \in BOOLEAN /\ dpc \in DaemonLabels
    BY Zenon DEF TypeOK
  <1> USE DEF Daemon, Serving, fileVars, States, DaemonLabels, EnterTarget
  <1>1. CASE RollbackBegin \/ RollbackClose \/ RollbackClear
    BY <1>a, <1>1, Dispatch DEF RollbackBegin, RollbackClose, RollbackClear
  <1>2. CASE RollbackEnd
    BY <1>a, <1>2, Dispatch DEF RollbackEnd
  <1>3. CASE DaemonMoves
    BY <1>a, <1>3, Dispatch DEF DaemonMoves, NoTransition, OpenThrows, LockThrows, Throws, LoopTest, AfterLoop,
                RetryOrReturn
  <1>4. CASE OpenPrepare \/ OpenWriter
    BY <1>a, <1>4, Dispatch DEF OpenPrepare, OpenWriter
  <1>5. CASE AwaitProceed \/ LoopWait
    BY <1>a, <1>5 DEF AwaitProceed, LoopWait, CondWait
  <1>6. CASE StartLogging \/ DequeueTry \/ DequeueOutputs
    BY <1>a, <1>6, Dispatch DEF StartLogging, DequeueTry, DequeueOutputs
  <1>7. CASE LoopDrain \/ CloseLogFile \/ StopLogging
    BY <1>a, <1>7, Dispatch DEF LoopDrain, CloseLogFile, StopLogging
  <1>8. CASE CatchLogs \/ DoToggle \/ AwaitRetry
    BY <1>a, <1>8, Dispatch DEF CatchLogs, DoToggle, AwaitRetry
  <1>9. CASE UNCHANGED DaemonOwns
    BY <1>9 DEF DaemonOwns
  <1>10. QED
    BY <1>1, <1>2, <1>3, <1>4, <1>5, <1>6, <1>7, <1>8, <1>9, OthersLeaveTheDaemon, Zenon
    DEF Next, DaemonStep, DaemonMoves

\* Flags and calls, for every step.
LEMMA HandshakeKept == TypeOK /\ Daemon /\ Handshake /\ [Next]_vars => Handshake'
  <1> SUFFICES ASSUME TypeOK, Daemon, Handshake, [Next]_vars PROVE Handshake'
    OBVIOUS
  <1>a. /\ state \in States /\ opened \in BOOLEAN /\ dpc \in DaemonLabels
        /\ isOngoing \in BOOLEAN /\ inResetting \in BOOLEAN /\ cOk \in BOOLEAN
        /\ cop \in {"startup", "reload", "shutdown"}
        /\ cTarget \in {"active", "established", "inactive"}
    BY Zenon DEF TypeOK
  <1> USE DEF Handshake, NotEnding, States, DaemonLabels, EnterTarget, ctrlVars, flagVars
  <1>1. CASE RollbackBegin
    BY <1>a, <1>1, Dispatch DEF RollbackBegin, Daemon
  <1>2. CASE RollbackClose \/ RollbackClear
    BY <1>a, <1>2 DEF RollbackClose, RollbackClear
  <1>3. CASE RollbackEnd
    BY <1>a, <1>3, Dispatch DEF RollbackEnd, Daemon
  <1>4. CASE DaemonMoves
    BY <1>a, <1>4, Dispatch
    DEF DaemonMoves, NoTransition, OpenThrows, LockThrows, Throws, LoopTest, AfterLoop,
        RetryOrReturn, Daemon
  <1>5. CASE OpenPrepare \/ OpenWriter
    BY <1>a, <1>5, Dispatch DEF OpenPrepare, OpenWriter, Daemon
  <1>6. CASE AwaitProceed \/ LoopWait
    BY <1>a, <1>6 DEF AwaitProceed, LoopWait, CondWait
  <1>7. CASE StartLogging \/ DequeueTry \/ DequeueOutputs
    BY <1>a, <1>7, Dispatch DEF StartLogging, DequeueTry, DequeueOutputs, Daemon
  <1>8. CASE LoopDrain \/ CloseLogFile \/ StopLogging
    BY <1>a, <1>8, Dispatch DEF LoopDrain, CloseLogFile, StopLogging, Daemon, Serving
  <1>9. CASE CatchLogs \/ DoToggle \/ AwaitRetry
    BY <1>a, <1>9, Dispatch DEF CatchLogs, DoToggle, AwaitRetry, Daemon
  <1>10. CASE ControllerStep
    <2> USE DEF ControllerOnly, daemonVars
    <2>1. CASE WaitReadIdle \/ WaitTestIdle
      BY <1>a, <2>1 DEF WaitReadIdle, WaitTestIdle
    <2>2. CASE WaitReadTarget
      <3>1. cTarget = "established" /\ state = "established" =>
              cop = "startup" /\ dpc \in {"loop", "wait", "drain"}
        BY <1>a, <2>2 DEF WaitReadTarget, FsmHeld, Daemon, Serving
      <3>2. UNCHANGED <<state, dpc, flagVars, cop, cTarget, cOk>>
        BY <2>2, Zenon DEF WaitReadTarget
      <3>3. /\ cpc = "readTarget"
            /\ cpc' = IF state = cTarget THEN "testTarget" ELSE "readIdle"
        BY <2>2, Zenon DEF WaitReadTarget
      <3>4. QED
        BY <1>a, <3>1, <3>2, <3>3
    <2>3. CASE WaitTestTarget
      <3>1. /\ cpc = "testTarget" /\ UNCHANGED <<state, dpc, flagVars, cop, cTarget>>
            /\ cOk' => ~inResetting /\ cTarget = "established"
        BY <2>3, Zenon DEF WaitTestTarget
      <3>2. \/ inResetting /\ cpc' = "readIdle"
            \/ ~inResetting /\ cTarget = "active" /\ cpc' = "set"
            \/ ~inResetting /\ cTarget = "established" /\ cpc' = "ready"
            \/ ~inResetting /\ cTarget = "inactive" /\ cpc' = "end"
        BY <1>a, <2>3 DEF WaitTestTarget
      <3>3. QED
        BY <1>a, <3>1, <3>2
    <2>4. CASE SetFlag
      BY <1>a, <2>4 DEF SetFlag, MtxHeld
    <2>5. CASE NotifyDaemon
      BY <1>a, <2>5 DEF NotifyDaemon
    <2>6. CASE CountdownDone
      BY <1>a, <2>6 DEF CountdownDone, BeginStartup
    <2>7. CASE FailureLogs
      BY <1>a, <2>7 DEF FailureLogs, BeginStartup
    <2>8. QED
      BY <1>10, <2>1, <2>2, <2>3, <2>4, <2>5, <2>6, <2>7, Zenon DEF ControllerStep
  <1>11. CASE ControllerChoice
    BY <1>a, <1>11
    DEF ControllerChoice, Refresh, Shutdown, CountdownTimeout, ControllerOnly, daemonVars
  <1>12. CASE UNCHANGED <<state, dpc, flagVars, ctrlVars>>
    BY <1>12
  <1>13. \/ SpuriousWakeup \/ Terminated \/ UNCHANGED vars
         \/ \E t \in Loggers : FlushStep(t)
         \/ \E k \in Clients : FlushBegin(k)
         \/ \E p \in Previewers : PreviewBegin(p) \/ PreviewEnd(p)
         => UNCHANGED <<state, dpc, flagVars, ctrlVars>>
    BY Zenon
    DEF SpuriousWakeup, Terminated, vars, daemonVars, FlushStep, FlushReadState, FlushReadFlag,
        FlushPush, FlushNotify, EnqueueTry, EnqueueOutputs, FlushBegin, PreviewBegin, PreviewEnd
  <1>14. QED
    BY <1>1, <1>2, <1>3, <1>4, <1>5, <1>6, <1>7, <1>8, <1>9, <1>10, <1>11, <1>12, <1>13, Zenon
    DEF Next, DaemonStep, DaemonMoves

\* No wake-up is lost, for every step.
LEMMA SleepKept == TypeOK /\ SleepIsJustified /\ [Next]_vars => SleepIsJustified'
  <1> SUFFICES ASSUME TypeOK, SleepIsJustified, [Next]_vars PROVE SleepIsJustified'
    OBVIOUS
  <1>a. /\ dWaiting \in BOOLEAN /\ isOngoing \in BOOLEAN /\ inResetting \in BOOLEAN
        /\ dpc \in DaemonLabels /\ logQueue \in Seq(Rows)
        /\ fpc \in [Loggers -> {"out", "state", "resetting", "push", "notify", "cache", "cachePush"}]
    BY Zenon DEF TypeOK
  <1> USE DEF SleepIsJustified, DaemonLabels, flagVars, ctrlVars, flushVars, daemonVars
  <1>1. CASE RollbackBegin \/ RollbackClose \/ RollbackClear \/ RollbackEnd
    BY <1>a, <1>1 DEF RollbackBegin, RollbackClose, RollbackClear, RollbackEnd
  <1>2. CASE DaemonMoves
    BY <1>a, <1>2
    DEF DaemonMoves, NoTransition, OpenThrows, LockThrows, Throws, LoopTest, AfterLoop,
        RetryOrReturn
  <1>3. CASE OpenPrepare \/ OpenWriter \/ StartLogging \/ DequeueTry \/ DequeueOutputs
    BY <1>a, <1>3 DEF OpenPrepare, OpenWriter, StartLogging, DequeueTry, DequeueOutputs
  <1>4. CASE AwaitProceed \/ LoopWait
    BY <1>a, <1>4 DEF AwaitProceed, LoopWait, CondWait
  <1>5. CASE LoopDrain \/ CloseLogFile \/ StopLogging
    BY <1>a, <1>5 DEF LoopDrain, CloseLogFile, StopLogging
  <1>6. CASE CatchLogs \/ DoToggle \/ AwaitRetry
    <2>1. CASE CatchLogs
      BY <1>a, <2>1 DEF CatchLogs
    <2>2. CASE DoToggle
      BY <1>a, <2>2 DEF DoToggle
    <2>3. CASE AwaitRetry
      BY <2>3 DEF AwaitRetry
    <2>4. QED
      BY <1>6, <2>1, <2>2, <2>3
  <1>7. CASE ControllerStep \/ ControllerChoice
    <2> USE DEF ControllerOnly
    <2>1. CASE SetFlag
      BY <1>a, <2>1 DEF SetFlag
    <2>2. CASE NotifyDaemon
      BY <2>2 DEF NotifyDaemon
    <2>3. CASE FailureLogs
      BY <1>a, <2>3 DEF FailureLogs, FlushGoto
    <2>4. CASE \/ WaitReadIdle \/ WaitTestIdle \/ WaitReadTarget \/ WaitTestTarget
               \/ CountdownDone \/ CountdownTimeout \/ Refresh \/ Shutdown
      BY <2>4
      DEF WaitReadIdle, WaitTestIdle, WaitReadTarget, WaitTestTarget, CountdownDone,
          CountdownTimeout, Refresh, Shutdown
    <2>5. QED
      BY <1>7, <2>1, <2>2, <2>3, <2>4, Zenon DEF ControllerStep, ControllerChoice
  <1>8. ASSUME NEW t \in Loggers, FlushStep(t) PROVE SleepIsJustified'
    <2> USE DEF FlushGoto
    <2>1. CASE FlushNotify(t)
      BY <2>1 DEF FlushNotify
    <2>2. CASE FlushPush(t)
      BY <1>a, <2>2 DEF FlushPush
    <2>3. CASE FlushReadState(t) \/ FlushReadFlag(t) \/ EnqueueTry(t) \/ EnqueueOutputs(t)
      BY <1>a, <2>3 DEF FlushReadState, FlushReadFlag, EnqueueTry, EnqueueOutputs
    <2>4. QED
      BY <1>8, <2>1, <2>2, <2>3, Zenon DEF FlushStep
  <1>9. ASSUME NEW k \in Clients, FlushBegin(k) PROVE SleepIsJustified'
    BY <1>a, <1>9 DEF FlushBegin, FlushGoto
  <1>10. ASSUME NEW p \in Previewers, PreviewBegin(p) \/ PreviewEnd(p) PROVE SleepIsJustified'
    BY <1>10 DEF PreviewBegin, PreviewEnd
  <1>11. CASE SpuriousWakeup \/ Terminated \/ UNCHANGED vars
    BY <1>11 DEF SpuriousWakeup, Terminated, vars
  <1>12. QED
    BY <1>1, <1>2, <1>3, <1>4, <1>5, <1>6, <1>7, <1>8, <1>9, <1>10, <1>11, Zenon
    DEF Next, DaemonStep, DaemonMoves

\* A step that only shortens the stream, and brings no client closer to its push, keeps the order.
LEMMA OrderOfPrefix ==
  ASSUME Order, UNCHANGED <<fmsg, sent>>,
         \A i \in DOMAIN Stream' : i \in DOMAIN Stream /\ Stream'[i] = Stream[i],
         \A k \in Clients : fpc'[k] \in BeforePush => fpc[k] \in BeforePush
  PROVE  Order'
  BY DEF Order

\* The stream is typed, and its parts are where they should be.
LEMMA StreamParts ==
  ASSUME TypeOK
  PROVE  /\ Stream \in Seq(Rows) /\ Len(Stream) = Len(written) + Len(logQueue)
         /\ DOMAIN Stream = 1 .. Len(Stream)
         /\ \A i \in 1 .. Len(written) : Stream[i] = written[i]
         /\ \A i \in 1 .. Len(logQueue) : Stream[Len(written) + i] = logQueue[i]
         /\ \A i \in DOMAIN Stream : Stream[i][1] \in Loggers /\ Stream[i][2] \in Nat
  <1>1. written \in Seq(Rows) /\ logQueue \in Seq(Rows)
    BY DEF TypeOK
  <1>2. /\ Stream \in Seq(Rows) /\ Len(Stream) = Len(written) + Len(logQueue)
        /\ DOMAIN Stream = 1 .. Len(Stream)
        /\ \A i \in 1 .. Len(written) : Stream[i] = written[i]
        /\ \A i \in 1 .. Len(logQueue) : Stream[Len(written) + i] = logQueue[i]
    BY <1>1 DEF Stream
  <1>3. \A i \in DOMAIN Stream : Stream[i] \in Rows
    BY <1>2
  <1>4. \A r \in Rows : r[1] \in Loggers /\ r[2] \in Nat
    BY LogAssumption DEF Rows
  <1>5. QED
    BY <1>2, <1>3, <1>4

\* Emptying logQueue, whether its rows are put out or dropped, only shortens the stream.
LEMMA EmptyingTheQueue ==
  ASSUME TypeOK, logQueue' = <<>>, written' \in {written, written \o logQueue}
  PROVE  \A i \in DOMAIN Stream' : i \in DOMAIN Stream /\ Stream'[i] = Stream[i]
  <1>1. written \in Seq(Rows) /\ logQueue \in Seq(Rows) /\ Stream \in Seq(Rows)
    BY StreamParts DEF TypeOK
  <1>2. Stream' = written'
    <2>1. written' \in Seq(Rows)
      BY <1>1 DEF Stream
    <2>2. QED
      BY <2>1, ConcatEmptySeq DEF Stream
  <1>3. CASE written' = written
    <2>1. DOMAIN written = 1 .. Len(written) /\ Len(written) \in Nat /\ Len(logQueue) \in Nat
      BY <1>1
    <2>2. QED
      BY <1>2, <1>3, <2>1, StreamParts
  <1>4. CASE written' = Stream
    BY <1>2, <1>4
  <1>5. QED
    BY <1>3, <1>4 DEF Stream

\* A push puts the row of its thread behind all others.
LEMMA PushOnStream ==
  ASSUME TypeOK, NEW t \in Loggers, logQueue' = Append(logQueue, fmsg[t]), written' = written
  PROVE  /\ DOMAIN Stream' = 1 .. Len(Stream) + 1
         /\ \A i \in DOMAIN Stream : Stream'[i] = Stream[i]
         /\ Stream'[Len(Stream) + 1] = fmsg[t]
  <1>1. /\ written \in Seq(Rows) /\ logQueue \in Seq(Rows) /\ fmsg[t] \in Rows
        /\ Stream \in Seq(Rows)
    BY StreamParts DEF TypeOK
  <1>2. Stream' = Append(Stream, fmsg[t])
    <2>1. <<fmsg[t]>> \in Seq(Rows)
      BY <1>1
    <2>2. Stream' = written \o (logQueue \o <<fmsg[t]>>)
      BY <1>1, AppendIsConcat DEF Stream
    <2>3. Stream' = (written \o logQueue) \o <<fmsg[t]>>
      BY <1>1, <2>1, <2>2, ConcatAssociative
    <2>4. QED
      BY <1>1, <2>3, AppendIsConcat DEF Stream
  <1>3. QED
    BY <1>1, <1>2

\* The rows of each client, for every step.
LEMMA OrderKept == TypeOK /\ Order /\ [Next]_vars => Order'
  <1> SUFFICES ASSUME TypeOK, Order, [Next]_vars PROVE Order'
    OBVIOUS
  <1>1. CASE RollbackBegin \/ StopLogging
    <2>1. logQueue' = <<>> /\ written' = written /\ UNCHANGED <<fpc, fmsg, sent>>
      BY <1>1 DEF RollbackBegin, StopLogging, flushVars
    <2>2. QED
      BY <2>1, EmptyingTheQueue, OrderOfPrefix
  <1>2. CASE LoopDrain
    <2>1. logQueue' = <<>> /\ written' = written \o logQueue /\ UNCHANGED <<fpc, fmsg, sent>>
      BY <1>2, Zenon DEF LoopDrain, flushVars
    <2>2. QED
      BY <2>1, EmptyingTheQueue, OrderOfPrefix
  <1>3. ASSUME NEW t \in Loggers, FlushPush(t) PROVE Order'
    <2>1. /\ fpc[t] = "push" /\ fpc' = [fpc EXCEPT ![t] = "notify"]
          /\ logQueue' = Append(logQueue, fmsg[t]) /\ written' = written
          /\ UNCHANGED <<fmsg, sent>>
      BY <1>3, Zenon DEF FlushPush, FlushGoto
    <2>2. /\ DOMAIN Stream' = 1 .. Len(Stream) + 1
          /\ \A i \in DOMAIN Stream : Stream'[i] = Stream[i]
          /\ Stream'[Len(Stream) + 1] = fmsg[t]
      BY <2>1, PushOnStream
    <2>3. \A i \in DOMAIN Stream' : i \in DOMAIN Stream \/ i = Len(Stream) + 1
      BY <2>2, StreamParts
    <2>4. fmsg[t][1] = t /\ (t \in Clients => fmsg[t][2] = sent[t])
      BY DEF Order
    <2>5. \A k \in Clients : sent[k] \in Nat /\ k \in Loggers
      BY LogAssumption DEF TypeOK, Loggers
    <2>6. \A k \in Loggers : fpc'[k] \in BeforePush => fpc[k] \in BeforePush /\ k # t
      BY <2>1 DEF TypeOK, BeforePush
    <2>7. ASSUME NEW i \in DOMAIN Stream', Stream'[i][1] \in Clients
          PROVE  /\ Stream'[i][2] <= sent[Stream'[i][1]]
                 /\ fpc'[Stream'[i][1]] \in BeforePush => Stream'[i][2] < sent[Stream'[i][1]]
      BY <2>2, <2>3, <2>4, <2>5, <2>6, <2>7 DEF Order
    <2>8. ASSUME NEW i \in DOMAIN Stream', NEW j \in DOMAIN Stream', i < j,
                 Stream'[i][1] = Stream'[j][1], Stream'[i][1] \in Clients
          PROVE  Stream'[i][2] < Stream'[j][2]
      <3>1. i \in DOMAIN Stream /\ Stream'[i] = Stream[i]
        BY <2>2, <2>3, <2>8, StreamParts
      <3>2. CASE j \in DOMAIN Stream
        BY <2>2, <2>8, <3>1, <3>2 DEF Order
      <3>3. CASE j = Len(Stream) + 1
        <4>1. Stream[i][1] = t /\ t \in Clients /\ Stream'[j][2] = sent[t]
          BY <2>2, <2>4, <2>8, <3>1, <3>3
        <4>2. fpc[t] \in BeforePush
          BY <2>1 DEF BeforePush
        <4>3. QED
          BY <3>1, <4>1, <4>2 DEF Order
      <3>4. QED
        BY <2>3, <3>2, <3>3
    <2>9. \A k \in Loggers : fmsg'[k] = <<k, IF k \in Clients THEN sent'[k] ELSE 0>>
      BY <2>1 DEF Order
    <2>10. QED
      BY <2>1, <2>7, <2>8, <2>9, Zenon DEF Order
  <1>4. ASSUME NEW k \in Clients, FlushBegin(k) PROVE Order'
    <2>1. /\ fpc[k] = "out" /\ fpc' = [fpc EXCEPT ![k] = "state"]
          /\ sent' = [sent EXCEPT ![k] = @ + 1]
          /\ fmsg' = [fmsg EXCEPT ![k] = <<k, sent[k] + 1>>]
          /\ Stream' = Stream
      BY <1>4 DEF FlushBegin, FlushGoto, Stream
    <2>2. k \in Loggers /\ \A c \in Clients : sent[c] \in Nat /\ c \in Loggers
      BY LogAssumption DEF Loggers, TypeOK
    <2>3. \A c \in Clients : sent'[c] = IF c = k THEN sent[k] + 1 ELSE sent[c]
      BY <2>1 DEF TypeOK
    <2>4. \A t \in Loggers : fmsg'[t] = <<t, IF t \in Clients THEN sent'[t] ELSE 0>>
      BY <2>1, <2>2, <2>3 DEF Order, TypeOK
    <2>5. \A c \in Clients : c # k => fpc'[c] = fpc[c]
      BY <2>1, <2>2 DEF TypeOK
    <2>6. ASSUME NEW i \in DOMAIN Stream, Stream[i][1] \in Clients
          PROVE  /\ Stream[i][2] <= sent'[Stream[i][1]]
                 /\ fpc'[Stream[i][1]] \in BeforePush => Stream[i][2] < sent'[Stream[i][1]]
      <3> DEFINE c == Stream[i][1]
                 n == Stream[i][2]
      <3>1. n \in Nat /\ n <= sent[c] /\ (fpc[c] \in BeforePush => n < sent[c])
        BY <2>6, StreamParts DEF Order
      <3>2. QED
        BY <2>2, <2>3, <2>5, <2>6, <3>1
    <2>7. QED
      BY <2>1, <2>4, <2>6 DEF Order
  <1>5. ASSUME UNCHANGED <<written, logQueue, fmsg, sent>>,
               \A k \in Clients : fpc'[k] \in BeforePush => fpc[k] \in BeforePush
        PROVE  Order'
    <2>1. Stream' = Stream
      BY <1>5 DEF Stream
    <2>2. QED
      BY <1>5, <2>1, OrderOfPrefix
  <1>6. ASSUME NEW t \in Loggers,
               \/ FlushReadState(t) \/ FlushReadFlag(t) \/ FlushNotify(t)
               \/ EnqueueTry(t) \/ EnqueueOutputs(t)
        PROVE  Order'
    <2>1. UNCHANGED <<written, logQueue, fmsg, sent>>
      BY <1>6, Zenon
      DEF FlushReadState, FlushReadFlag, FlushNotify, EnqueueTry, EnqueueOutputs
    <2>2. \A k \in Clients : fpc'[k] \in BeforePush => fpc[k] \in BeforePush
      BY <1>6
      DEF FlushReadState, FlushReadFlag, FlushNotify, EnqueueTry, EnqueueOutputs, FlushGoto,
          BeforePush, TypeOK, Loggers
    <2>3. QED
      BY <1>5, <2>1, <2>2
  <1>7. CASE CatchLogs \/ FailureLogs
    <2>1. UNCHANGED <<written, logQueue, fmsg, sent>>
      BY <1>7, Zenon DEF CatchLogs, FailureLogs
    <2>2. \A k \in Clients : fpc'[k] = fpc[k]
      BY <1>7, LogAssumption DEF CatchLogs, FailureLogs, FlushGoto, TypeOK, Loggers
    <2>3. QED
      BY <1>5, <2>1, <2>2
  <1>8. CASE UNCHANGED <<written, logQueue, flushVars>>
    BY <1>5, <1>8 DEF flushVars
  <1>9. \/ RollbackClose \/ RollbackClear \/ RollbackEnd \/ DaemonMoves
        \/ OpenPrepare \/ OpenWriter \/ AwaitProceed \/ LoopWait
        \/ StartLogging \/ DequeueTry \/ DequeueOutputs \/ CloseLogFile \/ DoToggle \/ AwaitRetry
        => UNCHANGED <<written, logQueue, flushVars>>
    BY Zenon
    DEF RollbackClose, RollbackClear, RollbackEnd, DaemonMoves, OpenPrepare, OpenWriter,
        AwaitProceed, LoopWait, StartLogging, DequeueTry, DequeueOutputs, CloseLogFile, DoToggle,
        AwaitRetry, NoTransition, OpenThrows, LockThrows, Throws, LoopTest, AfterLoop, RetryOrReturn
  <1>10. \/ SpuriousWakeup \/ ControllerChoice \/ WaitReadIdle \/ WaitTestIdle \/ WaitReadTarget
         \/ WaitTestTarget \/ SetFlag \/ NotifyDaemon \/ CountdownDone
         \/ \E p \in Previewers : PreviewBegin(p) \/ PreviewEnd(p)
         \/ Terminated \/ UNCHANGED vars
         => UNCHANGED <<written, logQueue, flushVars>>
    BY Zenon
    DEF SpuriousWakeup, ControllerChoice, Refresh, Shutdown, CountdownTimeout, WaitReadIdle,
        WaitTestIdle, WaitReadTarget, WaitTestTarget, SetFlag, NotifyDaemon, CountdownDone,
        ControllerOnly, PreviewBegin, PreviewEnd, Terminated, vars
  <1>11. QED
    BY <1>1, <1>2, <1>3, <1>4, <1>6, <1>7, <1>8, <1>9, <1>10, Zenon
    DEF Next, DaemonStep, DaemonMoves, ControllerStep, FlushStep

\* The rows of a prefix, by their positions.
LEMMA RangeOfPrefix ==
  ASSUME NEW S, NEW w \in Seq(S), NEW n \in 0 .. Len(w)
  PROVE  Range(SubSeq(w, 1, n)) = {w[i] : i \in 1 .. n}
  <1>1. SubSeq(w, 1, n) = [i \in 1 .. n |-> w[i]]
    OBVIOUS
  <1>2. QED
    BY <1>1 DEF Range

\* What the drain puts into the file is newer than the last reset.
LEMMA QueueIsNew == TypeOK /\ Order => Range(logQueue) \cap OldOnes \cap ClientRows = {}
  <1> SUFFICES ASSUME TypeOK, Order,
                      NEW r \in Range(logQueue), r \in OldOnes, r \in ClientRows
               PROVE  FALSE
    OBVIOUS
  <1>1. /\ Len(written) \in Nat /\ Len(logQueue) \in Nat
        /\ oldRows \in Nat /\ oldRows <= Len(written)
        /\ DOMAIN logQueue = 1 .. Len(logQueue)
    BY DEF TypeOK
  <1>2. PICK i \in 1 .. oldRows : r = written[i]
    BY RangeOfPrefix DEF OldOnes, TypeOK
  <1>3. PICK j \in 1 .. Len(logQueue) : r = logQueue[j]
    BY <1>1 DEF Range
  <1>4. /\ i \in DOMAIN Stream /\ Len(written) + j \in DOMAIN Stream /\ i < Len(written) + j
        /\ Stream[i] = r /\ Stream[Len(written) + j] = r
    <2>1. i \in 1 .. Len(written) /\ j \in 1 .. Len(logQueue)
      BY <1>1
    <2>2. Len(written) + j \in 1 .. Len(written) + Len(logQueue) /\ i < Len(written) + j
          /\ i \in 1 .. Len(written) + Len(logQueue)
      BY <1>1, <2>1
    <2>3. QED
      BY <1>2, <1>3, <2>1, <2>2, StreamParts
  <1>5. r[1] \in Clients /\ r[2] \in Nat
    BY DEF ClientRows
  <1>6. QED
    BY <1>4, <1>5 DEF Order

\* The file, for every step.
LEMMA CleanKept == IInv /\ [Next]_vars => Clean'
  <1> SUFFICES ASSUME IInv, [Next]_vars PROVE Clean'
    OBVIOUS
  <1>a. /\ state \in States /\ opened \in BOOLEAN /\ dpc \in DaemonLabels
        /\ locked \in BOOLEAN /\ inResetting \in BOOLEAN
    BY Zenon DEF IInv, TypeOK
  <1>b. Range(<<>>) = {}
    BY DEF Range
  <1> DEFINE Apart == Range(file) \cap ClientRows
  <1> USE DEF Clean, fileVars, flagVars, ctrlVars, DaemonLabels, States
  <1>c. ASSUME UNCHANGED <<written, oldRows>> PROVE OldOnes' = OldOnes
    BY <1>c DEF OldOnes
  <1>1. CASE RollbackBegin \/ RollbackClose
    <2>1. UNCHANGED <<file, written, oldRows, inResetting>>
      BY <1>1 DEF RollbackBegin, RollbackClose
    <2>2. QED
      BY <1>a, <1>c, <1>1, <2>1, Dispatch DEF RollbackBegin, RollbackClose, IInv, Daemon
  <1>2. CASE RollbackClear
    BY <1>b, <1>2 DEF RollbackClear
  <1>3. CASE RollbackEnd
    <2>1. Apart = {} /\ UNCHANGED <<file, written, oldRows>>
      BY <1>3 DEF RollbackEnd, IInv
    <2>2. QED
      BY <1>c, <2>1
  <1>4. CASE DaemonMoves
    <2>1. UNCHANGED <<file, written, oldRows, inResetting, locked>>
      BY <1>4, Zenon DEF DaemonMoves, NoTransition, OpenThrows, LockThrows, Throws, LoopTest, AfterLoop,
                  RetryOrReturn
    <2>2. QED
      BY <1>a, <1>c, <1>4, <2>1, Dispatch
      DEF DaemonMoves, NoTransition, OpenThrows, LockThrows, Throws, LoopTest, AfterLoop,
          RetryOrReturn, IInv, Daemon, Serving
  <1>5. CASE OpenPrepare \/ OpenWriter
    <2>1. Apart = {} /\ UNCHANGED <<written, oldRows, inResetting>> /\ file' \in {file, <<>>}
      BY <1>5 DEF OpenPrepare, OpenWriter, IInv
    <2>2. QED
      BY <1>b, <1>c, <2>1
  <1>6. CASE AwaitProceed \/ LoopWait
    <2>1. UNCHANGED <<file, written, oldRows, inResetting, locked>>
      BY <1>6, Zenon DEF AwaitProceed, LoopWait
    <2>2. QED
      BY <1>a, <1>c, <1>6, <2>1 DEF AwaitProceed, LoopWait, CondWait, IInv
  <1>7. CASE StartLogging \/ DequeueTry \/ DequeueOutputs
    <2>1. Apart = {} /\ UNCHANGED <<file, written, oldRows, inResetting>>
      BY <1>7 DEF StartLogging, DequeueTry, DequeueOutputs, IInv
    <2>2. QED
      BY <1>c, <2>1
  <1>8. CASE LoopDrain
    <2>1. /\ written' = written \o logQueue /\ file' \in {file, file \o logQueue}
          /\ dpc' = "loop" /\ UNCHANGED <<oldRows, inResetting>>
      BY <1>8 DEF LoopDrain
    <2>2. OldOnes' = OldOnes
      <3>1. /\ written \in Seq(Rows) /\ logQueue \in Seq(Rows)
            /\ oldRows \in Nat /\ oldRows <= Len(written)
        BY DEF IInv, TypeOK
      <3>2. /\ written \o logQueue \in Seq(Rows)
            /\ oldRows \in 0 .. Len(written) /\ oldRows \in 0 .. Len(written \o logQueue)
            /\ \A i \in 1 .. oldRows : (written \o logQueue)[i] = written[i]
        BY <3>1
      <3>3. /\ OldOnes = {written[i] : i \in 1 .. oldRows}
            /\ OldOnes' = {(written \o logQueue)[i] : i \in 1 .. oldRows}
        BY <2>1, <3>1, <3>2, RangeOfPrefix DEF OldOnes
      <3>4. QED
        BY <3>2, <3>3
    <2>3. Range(file \o logQueue) = Range(file) \cup Range(logQueue)
      <3>1. file \in Seq(Rows \cup {OldRow}) /\ logQueue \in Seq(Rows \cup {OldRow})
        BY DEF IInv, TypeOK
      <3>2. QED
        BY <3>1, RangeConcatenation
    <2>4. QED
      BY <2>1, <2>2, <2>3, QueueIsNew DEF IInv
  <1>9. CASE CloseLogFile \/ StopLogging
    <2>1. /\ UNCHANGED <<file, written, oldRows>>
          /\ dpc' \in {"stop", "done"} /\ (inResetting => inResetting')
      BY <1>9 DEF CloseLogFile, StopLogging, IInv, Handshake
    <2>2. QED
      BY <1>a, <1>c, <2>1 DEF IInv
  <1>10. CASE CatchLogs \/ DoToggle \/ AwaitRetry
    <2>1. Apart = {} /\ UNCHANGED <<file, written, oldRows, inResetting>>
      BY <1>10 DEF CatchLogs, DoToggle, AwaitRetry, IInv
    <2>2. QED
      BY <1>c, <2>1
  <1>11. CASE SetFlag
    <2>1. UNCHANGED <<file, written, dpc, locked>> /\ (inResetting => inResetting')
      BY <1>11 DEF SetFlag, daemonVars
    <2>2. CASE cop = "reload"
      <3>1. inResetting'
        BY <1>11, <2>2 DEF SetFlag
      <3>2. QED
        BY <2>1, <3>1 DEF IInv
    <2>3. CASE cop # "reload"
      <3>1. UNCHANGED oldRows
        BY <1>11, <2>3 DEF SetFlag
      <3>2. QED
        BY <1>a, <1>c, <2>1, <3>1 DEF IInv
    <2>4. QED
      BY <2>2, <2>3
  <1>12. CASE UNCHANGED <<DaemonOwns, oldRows, inResetting>>
    BY <1>c, <1>12 DEF DaemonOwns, IInv
  <1>13. \/ SpuriousWakeup \/ ControllerChoice \/ WaitReadIdle \/ WaitTestIdle \/ WaitReadTarget
         \/ WaitTestTarget \/ NotifyDaemon \/ CountdownDone \/ FailureLogs
         \/ \E t \in Loggers : FlushStep(t)
         \/ \E k \in Clients : FlushBegin(k)
         \/ \E p \in Previewers : PreviewBegin(p) \/ PreviewEnd(p)
         \/ Terminated \/ UNCHANGED vars
         => UNCHANGED <<oldRows, inResetting>>
    BY Zenon
    DEF SpuriousWakeup, ControllerChoice, Refresh, Shutdown, CountdownTimeout, WaitReadIdle,
        WaitTestIdle, WaitReadTarget, WaitTestTarget, NotifyDaemon, CountdownDone, FailureLogs,
        ControllerOnly, FlushStep, FlushReadState, FlushReadFlag, FlushPush, FlushNotify,
        EnqueueTry, EnqueueOutputs, FlushBegin, PreviewBegin, PreviewEnd, Terminated, vars
  <1>14. QED
    BY <1>1, <1>2, <1>3, <1>4, <1>5, <1>6, <1>7, <1>8, <1>9, <1>10, <1>11, <1>12, <1>13,
       OthersLeaveTheDaemon, Zenon
    DEF Next, DaemonStep, DaemonMoves, ControllerStep

--------------------------------------------------------------------------------
(* The theorems. *)

\* The logger is constructed in its initial state, with a file of an earlier run or none.
LEMMA InitIInv == Init => IInv
  <1> SUFFICES ASSUME Init PROVE IInv
    OBVIOUS
  <1>1. /\ <<>> \in Seq(Rows) /\ <<>> \in Seq(Seq(Rows \cup {OldRow})) /\ Len(<<>>) = 0
        /\ file \in Seq(Rows \cup {OldRow}) /\ Range(file) \subseteq {OldRow}
    <2>1. MaxFileSize \in Nat
      BY LogAssumption
    <2>2. CASE file = <<>>
      BY <2>2 DEF Range
    <2>3. CASE file = [i \in 1 .. MaxFileSize |-> OldRow]
      BY <2>1, <2>3 DEF Range
    <2>4. QED
      BY <2>2, <2>3 DEF Init
  <1>2. TypeOK
    <2>1. /\ state \in States /\ dpc \in DaemonLabels
          /\ isOngoing \in BOOLEAN /\ inResetting \in BOOLEAN /\ opened \in BOOLEAN
          /\ locked \in BOOLEAN /\ dWaiting \in BOOLEAN /\ cOk \in BOOLEAN
      BY DEF Init, States, DaemonLabels
    <2>2. /\ fpc \in [Loggers -> {"out", "state", "resetting", "push", "notify", "cache", "cachePush"}]
          /\ fmsg \in [Loggers -> Rows]
          /\ sent \in [Clients -> 0 .. MaxMsgs]
          /\ previews \in 0 .. MaxPreviews /\ resets \in 0 .. MaxResets
          /\ oldRows \in 0 .. Len(written)
      BY <1>1, LogAssumption DEF Init, Rows
    <2>3. QED
      BY <1>1, <2>1, <2>2 DEF Init, TypeOK
  <1>3. Daemon /\ Handshake /\ SleepIsJustified
    BY DEF Init, Daemon, Handshake, SleepIsJustified, Serving, NotEnding
  <1>4. Order
    <2>1. Stream = <<>>
      BY ConcatEmptySeq DEF Init, Stream
    <2>2. QED
      <3>1. \A t \in Loggers : fmsg[t] = <<t, IF t \in Clients THEN sent[t] ELSE 0>>
        BY DEF Init
      <3>2. DOMAIN Stream = {}
        BY <2>1
      <3>3. QED
        BY <3>1, <3>2 DEF Order
  <1>5. Clean
    <2>1. Range(file) \cap ClientRows = {}
      BY <1>1, LogAssumption DEF OldRow, ClientRows
    <2>2. QED
      BY <2>1 DEF Clean
  <1>6. QED
    BY <1>2, <1>3, <1>4, <1>5 DEF IInv

\* The inductive invariant of the logger.
THEOREM LogIInv == Spec => []IInv
  <1>1. IInv /\ [Next]_vars => IInv'
    BY TypeStep, DaemonKept, HandshakeKept, SleepKept, OrderKept, CleanKept DEF IInv
  <1>2. QED
    BY InitIInv, <1>1, PTL DEF Spec

\* Every event of service() meets the state it is written for, "established" means an open
\* and locked file, and a startup that reports success leaves a logger that serves until
\* the controller's next call, whatever fails and however the threads interleave.
THEOREM ServiceIsSound == Spec => []LogInvariant
  <1>1. IInv => LogInvariant
    <2> SUFFICES ASSUME IInv PROVE LogInvariant
      OBVIOUS
    <2>1. state \in States /\ dpc \in DaemonLabels /\ TypeOK
      BY Zenon DEF IInv, TypeOK
    <2>2. EventsAreAccepted
      BY DEF IInv, Daemon, Serving, EventsAreAccepted
    <2>3. ServingMeansLocked
      BY <2>1 DEF IInv, Daemon, Serving, ServingMeansLocked, FsmHeld, DaemonLabels
    <2>4. StartupMeansServing
      BY DEF IInv, Daemon, Serving, Handshake, StartupMeansServing
    <2>5. QED
      BY <2>1, <2>2, <2>3, <2>4 DEF LogInvariant
  <1>2. QED
    BY <1>1, LogIInv, PTL

\* The daemon never sleeps through a condition it waits for without somebody left to
\* notify it: the flags are stored under daemonMtx, before the notification.
THEOREM NoLostWakeup == Spec => []SleepIsJustified
  BY LogIInv, PTL DEF IInv

\* What a client logs comes out in its order and never twice, across sessions and resets.
THEOREM RowsStayInOrder == Spec => []WrittenInOrder
  <1>1. IInv => WrittenInOrder
    <2> SUFFICES ASSUME IInv, NEW i \in DOMAIN written, NEW j \in DOMAIN written,
                        i < j, written[i][1] = written[j][1], written[i][1] \in Clients
                 PROVE  written[i][2] < written[j][2]
      BY DEF WrittenInOrder
    <2>1. /\ Len(written) \in Nat /\ Len(logQueue) \in Nat
          /\ DOMAIN written = 1 .. Len(written)
      BY DEF IInv, TypeOK
    <2>2. i \in DOMAIN Stream /\ j \in DOMAIN Stream /\ Stream[i] = written[i] /\ Stream[j] = written[j]
      BY <2>1, StreamParts DEF IInv
    <2>3. QED
      BY <2>2 DEF IInv, Order
  <1>2. QED
    BY <1>1, LogIInv, PTL

\* When a refresh has succeeded, the log file holds no row put out before it.
THEOREM RefreshClears == Spec => []RefreshClearsTheFile
  <1>1. IInv => RefreshClearsTheFile
    BY DEF IInv, Handshake, Clean, RefreshClearsTheFile, OldOnes, ClientRows
  <1>2. QED
    BY <1>1, LogIInv, PTL

\* No step changes the log file or its backups while a preview reads it.
THEOREM PreviewsAreStable == Spec => PreviewsSeeAStableFile
  <1>1. [Next]_vars => [reading # {} => UNCHANGED <<file, backups>>]_vars
    <2> SUFFICES ASSUME Next, reading # {} PROVE UNCHANGED <<file, backups>>
      OBVIOUS
    <2>1. ~FileLock!CanWrite
      BY DEF FileLock!CanWrite
    <2>2. CASE DaemonStep
      BY <2>1, <2>2, Zenon
      DEF DaemonStep, RollbackBegin, RollbackClose, RollbackClear, RollbackEnd, NoTransition,
          OpenPrepare, OpenWriter, OpenThrows, LockThrows, Throws, AwaitProceed, StartLogging,
          DequeueTry, DequeueOutputs, LoopTest, LoopWait, LoopDrain, AfterLoop, CloseLogFile,
          StopLogging, CatchLogs, DoToggle, AwaitRetry, RetryOrReturn, fileVars
    <2>3. CASE UNCHANGED DaemonOwns
      BY <2>3, Zenon DEF DaemonOwns
    <2>4. QED
      BY <2>2, <2>3, OthersLeaveTheDaemon, Zenon DEF Next
  <1>2. QED
    BY <1>1, PTL DEF Spec, PreviewsSeeAStableFile

===============================================================================
