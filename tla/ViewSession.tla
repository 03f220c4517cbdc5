------------------------------ MODULE ViewSession ------------------------------
(***************************************************************************)
(* One console client of application::view::View (view.cpp): the console   *)
(* thread forwards a request and waits for the output, a server answers,   *)
(* the client's receiver prints the answer and marks the output as done,   *)
(* and an expiry timer does so when the viewer is not established.         *)
(*                                                                         *)
(* Large answers travel in shared memory segments, which the server makes  *)
(* and the receiver removes (data.cpp).  Only the console holds outputMtx  *)
(* over several steps: from the end of its wait to the end of              *)
(* waitTaskDone, while it destroys expiryTimer.                            *)
(*                                                                         *)
(* The server of a viewer that is not established is the one of another    *)
(* process that holds the ports.  A message is received as it was sent.    *)
(***************************************************************************)
EXTENDS Naturals, Sequences

CONSTANTS
  MaxRequests,     \* bound: requests forwarded in a behaviour
  MaxReconnects,   \* bound: reconnect commands in a behaviour
  Modes,           \* values of isInServingState(established) to consider
  Transports       \* "tcp" or "udp" clients, or both, to consider

ASSUME SessionAssumption ==
  /\ {MaxRequests, MaxReconnects} \subseteq Nat
  /\ Modes # {} /\ Modes \subseteq BOOLEAN
  /\ Transports # {} /\ Transports \subseteq {"tcp", "udp"}

VARIABLES
  transport,     \* of the client; a UDPSocket may lose messages
  established,   \* isInServingState(State::established)
  cpc,           \* where the console is
  cBlocked,      \* the console is blocked on outputCond
  completed,     \* outputCompleted
  reminder,      \* reminderTimer is running
  expiry,        \* where the worker of expiryTimer is
  stopped,       \* client->stopRequested()
  requests,      \* requests on their way to the server
  answers,       \* answers on their way to the client
  spc,           \* where the server is with the first request
  rpc,           \* where the receiver is with the first answer
  segments,      \* shared memory segments in use, named by their request
  sent,          \* number of requests so far; the last one has this id
  reconnects,    \* number of reconnects so far
  handled,       \* history: requests whose answer was parsed and announced
  lost           \* history: segments of answers that got lost

consoleVars == <<cpc, cBlocked, sent, reconnects>>
netVars     == <<requests, answers>>
vars == <<transport, established, consoleVars, completed, reminder, expiry, stopped, netVars, spc, rpc,
          segments, handled, lost>>

Ids == 1 .. MaxRequests
NoSegment == 0
Request(id, kind) == [id |-> id, kind |-> kind]
Answer(id, seg, stopTag) == [id |-> id, seg |-> seg, stopTag |-> stopTag]

Kinds == {"depend", "execute", "invalid"}   \* in the packet, in a segment, refused

TypeOK ==
  /\ transport \in Transports
  /\ {established, cBlocked, completed, reminder, stopped} \subseteq BOOLEAN
  /\ cpc \in {"ready", "remind", "enter", "wait", "stopExpiry", "join", "reset", "end"}
  /\ expiry \in {"none", "armed", "callback", "notify", "exited"}
  /\ requests \in Seq([id : 0 .. MaxRequests, kind : Kinds \cup {"stop"}])
  /\ answers \in Seq([id : 0 .. MaxRequests, seg : 0 .. MaxRequests, stopTag : BOOLEAN])
  /\ spc \in {"receive", "fill"}
  /\ rpc \in {"receive", "parse", "done", "notify"}
  /\ segments \subseteq Ids /\ handled \subseteq Ids /\ lost \subseteq Ids
  /\ sent \in 0 .. MaxRequests /\ reconnects \in 0 .. MaxReconnects

Init ==
  /\ transport \in Transports
  /\ established \in Modes
  /\ cpc = "ready" /\ cBlocked = FALSE
  /\ completed = TRUE
  /\ reminder = FALSE /\ expiry = "none"
  /\ stopped = FALSE
  /\ requests = <<>> /\ answers = <<>>
  /\ spc = "receive" /\ rpc = "receive"
  /\ segments = {} /\ sent = 0 /\ reconnects = 0
  /\ handled = {} /\ lost = {}

outputMtxHeld == cpc = "stopExpiry"

removeShmSegment(id) == segments' = segments \ {id}
cleanUpShmInUse == segments' = {}

\* The segment goes, whether or not it could be attached and its contents are valid.
fetchSharedMemory(id) == removeShmSegment(id)

--------------------------------------------------------------------------------
(* The console thread: onForwarding, waitTaskDone, reconnect. *)

\* onForwarding: send.
Forward(kind) ==
  /\ cpc = "ready" /\ sent < MaxRequests
  /\ requests' = Append(requests, Request(sent + 1, kind))
  /\ sent' = sent + 1
  /\ cpc' = "remind"
  /\ UNCHANGED <<transport, established, cBlocked, reconnects, completed, reminder, expiry, stopped,
                 answers, spc, rpc, segments, handled, lost>>

StartReminderTimer ==
  /\ cpc = "remind"
  /\ reminder' = TRUE
  /\ cpc' = "enter"
  /\ UNCHANGED <<transport, established, cBlocked, sent, reconnects, completed, expiry, stopped,
                 netVars, spc, rpc, segments, handled, lost>>

MutWaitTaskDone ==   \* outputCompleted keeps the value of the last request
  /\ cpc = "enter"
  /\ cBlocked' = ~completed
  /\ expiry' = "armed"
  /\ cpc' = "wait"
  /\ UNCHANGED <<transport, established, completed, sent, reconnects, reminder, stopped, netVars, spc,
                 rpc, segments, handled, lost>>

\* waitTaskDone: clear outputCompleted, start expiryTimer, and block, as the
\* predicate is false, in one critical section of outputMtx.
WaitTaskDone ==
  /\ cpc = "enter"
  /\ completed' = FALSE
  /\ cBlocked' = TRUE
  /\ expiry' = "armed"
  /\ cpc' = "wait"
  /\ UNCHANGED <<transport, established, sent, reconnects, reminder, stopped, netVars, spc, rpc,
                 segments, handled, lost>>

\* outputCond.wait wakes up with outputMtx: return, and keep it, or block again.
WaitReturns ==
  /\ cpc = "wait" /\ ~cBlocked
  /\ IF completed
       THEN cpc' = "stopExpiry" /\ UNCHANGED cBlocked
       ELSE cBlocked' = TRUE /\ UNCHANGED cpc
  /\ UNCHANGED <<transport, established, sent, reconnects, completed, reminder, expiry, stopped, netVars,
                 spc, rpc, segments, handled, lost>>

SpuriousWakeup ==
  /\ cBlocked
  /\ cBlocked' = FALSE
  /\ UNCHANGED <<transport, established, cpc, sent, reconnects, completed, reminder, expiry, stopped,
                 netVars, spc, rpc, segments, handled, lost>>

\* ~Timer joins the worker of expiryTimer; then outputLock is released.
StopExpiryTimer ==
  /\ cpc = "stopExpiry" /\ expiry = "exited"
  /\ expiry' = "none"
  /\ cpc' = "ready"
  /\ UNCHANGED <<transport, established, cBlocked, sent, reconnects, completed, reminder, stopped,
                 netVars, spc, rpc, segments, handled, lost>>

\* reconnect, or the end of the session: ask to be disconnected.
Disconnect ==
  /\ cpc = "ready"
  /\ requests' = Append(requests, Request(0, "stop"))
  /\ cpc' = "join"
  /\ UNCHANGED <<transport, established, cBlocked, sent, reconnects, completed, reminder, expiry, stopped,
                 answers, spc, rpc, segments, handled, lost>>

\* client->join(): the receiver has returned from its loop.
Join ==
  /\ cpc = "join"
  /\ stopped /\ rpc = "receive"
  /\ cpc' = "reset"
  /\ UNCHANGED <<transport, established, cBlocked, sent, reconnects, completed, reminder, expiry, stopped,
                 netVars, spc, rpc, segments, handled, lost>>

\* The viewer is reset (doRollback, createViewServer) and the client is a new one.
Reconnect ==
  /\ cpc = "reset" /\ reconnects < MaxReconnects
  /\ established' \in Modes
  /\ completed' = TRUE
  /\ reminder' = FALSE
  /\ cleanUpShmInUse /\ lost' = {}
  /\ stopped' = FALSE
  /\ reconnects' = reconnects + 1
  /\ cpc' = "ready"
  /\ UNCHANGED <<transport, cBlocked, sent, expiry, netVars, spc, rpc, handled>>

Leave ==
  /\ cpc = "reset"
  /\ cpc' = "end"
  /\ UNCHANGED <<transport, established, cBlocked, sent, reconnects, completed, reminder, expiry, stopped,
                 netVars, spc, rpc, segments, handled, lost>>

--------------------------------------------------------------------------------
(* The server: validateRequest, buildResponse and the segments of data.cpp. *)

Reply(answer) ==
  /\ answers' = Append(answers, answer)
  /\ requests' = Tail(requests)
  /\ spc' = "receive"

\* The answer fits into the packet: depend or profile, the acknowledgement of a
\* request that was refused, or the end of the session.
ServerReplies ==
  /\ spc = "receive" /\ requests # <<>>
  /\ Head(requests).kind # "execute"
  /\ Reply(Answer(Head(requests).id, NoSegment, Head(requests).kind = "stop"))
  /\ UNCHANGED <<transport, established, consoleVars, completed, reminder, expiry, stopped, rpc,
                 segments, handled, lost>>

\* fillSharedMemory: createShmSegment, for execute, journal and monitor.
CreateShmSegment ==
  /\ spc = "receive" /\ requests # <<>>
  /\ Head(requests).kind = "execute"
  /\ segments' = segments \cup {Head(requests).id}
  /\ spc' = "fill"
  /\ UNCHANGED <<transport, established, consoleVars, completed, reminder, expiry, stopped, netVars, rpc,
                 handled, lost>>

ServerSendsSegment ==
  /\ spc = "fill"
  /\ Reply(Answer(Head(requests).id, Head(requests).id, FALSE))
  /\ UNCHANGED <<transport, established, consoleVars, completed, reminder, expiry, stopped, rpc,
                 segments, handled, lost>>

MutServerFails ==   \* the segment is not given up
  /\ spc = "fill"
  /\ Reply(Answer(Head(requests).id, NoSegment, FALSE))
  /\ UNCHANGED <<transport, established, consoleVars, completed, reminder, expiry, stopped, rpc,
                 segments, handled, lost>>

\* Filling or encoding fails: the segment is removed and the request acknowledged.
ServerFails ==
  /\ spc = "fill"
  /\ removeShmSegment(Head(requests).id)
  /\ Reply(Answer(Head(requests).id, NoSegment, FALSE))
  /\ UNCHANGED <<transport, established, consoleVars, completed, reminder, expiry, stopped, rpc,
                 handled, lost>>

ServerStep == ServerReplies \/ CreateShmSegment \/ ServerSendsSegment \/ ServerFails

LoseRequest ==
  /\ transport = "udp"
  /\ spc = "receive" /\ requests # <<>>
  /\ requests' = Tail(requests)
  /\ UNCHANGED <<transport, established, consoleVars, completed, reminder, expiry, stopped, answers, spc,
                 rpc, segments, handled, lost>>

LoseAnswer ==
  /\ transport = "udp"
  /\ rpc = "receive" /\ answers # <<>>
  /\ answers' = Tail(answers)
  /\ lost' = lost \cup ({Head(answers).seg} \ {NoSegment})
  /\ UNCHANGED <<transport, established, consoleVars, completed, reminder, expiry, stopped, requests, spc,
                 rpc, segments, handled>>

--------------------------------------------------------------------------------
(* The client's receiver: doReceive and the callback of onConnecting. *)

StopReminderTimer ==
  /\ rpc = "receive" /\ answers # <<>> /\ ~stopped
  /\ reminder' = FALSE
  /\ rpc' = "parse"
  /\ UNCHANGED <<transport, established, consoleVars, completed, expiry, stopped, netVars, spc, segments,
                 handled, lost>>

MutParseTLVMessage ==   \* stopTag is not obeyed
  LET answer == Head(answers)
  IN /\ rpc = "parse"
     /\ fetchSharedMemory(answer.seg)
     /\ handled' = handled \cup ({answer.id} \ {0})
     /\ rpc' = "done"
     /\ UNCHANGED <<transport, established, consoleVars, completed, reminder, expiry, stopped, netVars,
                    spc, lost>>

\* parseTLVMessage: print the answer, fetch and remove its segment, obey stopTag.
ParseTLVMessage ==
  LET answer == Head(answers)
  IN /\ rpc = "parse"
     /\ fetchSharedMemory(answer.seg)
     /\ handled' = handled \cup ({answer.id} \ {0})
     /\ stopped' = answer.stopTag
     /\ rpc' = "done"
     /\ UNCHANGED <<transport, established, consoleVars, completed, reminder, expiry, netVars, spc, lost>>

\* notifyTaskDone, however parseTLVMessage ends: set the flag under outputMtx ...
NotifyTaskDone ==
  /\ rpc = "done" /\ ~outputMtxHeld
  /\ completed' = TRUE
  /\ rpc' = "notify"
  /\ UNCHANGED <<transport, established, consoleVars, reminder, expiry, stopped, netVars, spc, segments,
                 handled, lost>>

\* ... and notify; the receiver is ready for the next answer.
NotifyConsole ==
  /\ rpc = "notify"
  /\ cBlocked' = FALSE
  /\ answers' = Tail(answers)
  /\ rpc' = "receive"
  /\ UNCHANGED <<transport, established, cpc, sent, reconnects, completed, reminder, expiry, stopped,
                 requests, spc, segments, handled, lost>>

ReceiverStep == StopReminderTimer \/ ParseTLVMessage \/ NotifyTaskDone \/ NotifyConsole

--------------------------------------------------------------------------------
(* The worker of expiryTimer; its callback does nothing when established. *)

ExpiryOnly(here, next) ==
  /\ expiry = here
  /\ expiry' = next
  /\ UNCHANGED <<transport, established, cpc, sent, reconnects, reminder, stopped, netVars, spc, rpc,
                 segments, handled, lost>>

\* The period is over, and no stop has been requested yet.
ExpiryTimeout ==
  /\ ExpiryOnly("armed", IF established THEN "exited" ELSE "callback")
  /\ UNCHANGED <<cBlocked, completed>>

ExpiryStopped ==
  /\ ExpiryOnly("armed", "exited")
  /\ cpc = "stopExpiry"
  /\ UNCHANGED <<cBlocked, completed>>

\* The callback is notifyTaskDone.
ExpiryTaskDone ==
  /\ ExpiryOnly("callback", "notify")
  /\ ~outputMtxHeld
  /\ completed' = TRUE
  /\ UNCHANGED cBlocked

ExpiryNotify ==
  /\ ExpiryOnly("notify", "exited")
  /\ cBlocked' = FALSE
  /\ UNCHANGED completed

ExpiryStep == ExpiryTimeout \/ ExpiryStopped \/ ExpiryTaskDone \/ ExpiryNotify

--------------------------------------------------------------------------------
ConsoleStep == StartReminderTimer \/ WaitTaskDone \/ WaitReturns \/ StopExpiryTimer \/ Join

ConsoleChoice == (\E kind \in Kinds : Forward(kind)) \/ Disconnect \/ Reconnect \/ Leave

Terminated == cpc = "end" /\ UNCHANGED vars

Next ==
  \/ ConsoleStep \/ ConsoleChoice \/ SpuriousWakeup
  \/ ServerStep \/ LoseRequest \/ LoseAnswer
  \/ ReceiverStep
  \/ ExpiryStep
  \/ Terminated

Spec == Init /\ [][Next]_vars

\* The threads are scheduled, the server answers and the period of the timer ends;
\* nothing makes the user type a command.
FairSpec ==
  /\ Spec
  /\ WF_vars(ConsoleStep) /\ WF_vars(ServerStep) /\ WF_vars(ReceiverStep)
  /\ WF_vars(ExpiryStep)

--------------------------------------------------------------------------------
\* While the viewer is established, waitTaskDone returns only when the answer to
\* this very request has been printed, not a late answer to an earlier one.
AnswerBeforeReturn == established /\ cpc = "stopExpiry" => sent \in handled

\* A segment lives exactly as long as somebody will remove it: the server that
\* fills it, or the answer that names it, until the receiver has read it.
SegmentsFollowAnswers ==
  LET unread == {i \in DOMAIN answers : i > 1 \/ rpc \in {"receive", "parse"}}
      named == {answers[i].seg : i \in unread} \ {NoSegment}
  IN /\ named \subseteq segments
     /\ segments \subseteq named \cup lost \cup (IF spc = "fill" THEN {requests[1].id} ELSE {})

\* The client is thrown away only when nothing of its session is under way: the
\* request to stop is the last one, and its answer the last one to be handled.  It also
\* stops a reminder that was started after the answer that should have stopped it.
QuietAtReset ==
  cpc = "reset" => /\ requests = <<>> /\ answers = <<>> /\ ~reminder
                   /\ spc = "receive" /\ rpc = "receive" /\ expiry = "none"
                   /\ segments \subseteq lost

\* A request leaves neither memory nor a thread behind.
NothingIsLeftBehind == SegmentsFollowAnswers /\ QuietAtReset

\* Over TCP what an established viewer is asked is answered and printed, and the
\* session can be left.
SessionsGoOn ==
  /\ \A id \in Ids : transport = "tcp" /\ established /\ sent = id ~> id \in handled
  /\ transport = "tcp" /\ cpc = "join" ~> cpc = "reset"

\* "Block the caller until the output task is marked as done."
ForwardReturns == cpc = "wait" ~> cpc = "ready"
================================================================================
