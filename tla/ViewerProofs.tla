------------------------------ MODULE ViewerProofs ------------------------------
(***************************************************************************)
(* Proofs about the viewer, for any number of requests, reconnects and     *)
(* restarts: the session of a client and the service with its controller.  *)
(*                                                                         *)
(* The session: what is under way carries distinct ids and the request to  *)
(* stop comes last (Pipe), so that the segment of an answer is nobody      *)
(* else's and nothing follows the answer that ends the receiver (Ending).  *)
(* While the viewer is established all that is under way is the answer to  *)
(* the last request (Asked).                                               *)
(***************************************************************************)
EXTENDS MCViewer, SequenceTheorems, TLAPS

Unread(i) == i > 1 \/ rpc \in {"receive", "parse"}

\* What is under way between the console and the receiver.
Pipe ==
  /\ \A i \in DOMAIN requests :
       /\ requests[i].id <= sent
       /\ requests[i].kind = "stop" <=> requests[i].id = 0
       /\ requests[i].id = 0 => i = Len(requests) /\ cpc = "join"
       /\ \A j \in DOMAIN requests : requests[i].id = requests[j].id => i = j
  /\ \A i \in DOMAIN answers :
       /\ answers[i].id <= sent /\ answers[i].seg \in {NoSegment, answers[i].id}
       /\ answers[i].stopTag <=> answers[i].id = 0
       /\ answers[i].id = 0 => i = Len(answers) /\ requests = <<>> /\ cpc = "join"
       /\ \A j \in DOMAIN answers : answers[i].id = answers[j].id => i = j
       /\ \A j \in DOMAIN requests : answers[i].id # requests[j].id
  /\ spc = "fill" => requests # <<>> /\ requests[1].kind = "execute"
  /\ rpc # "receive" => answers # <<>>

\* The end of the session: the answer that stops the receiver is the last one.
Ending ==
  /\ expiry = "none" <=> cpc \notin {"wait", "stopExpiry"}
  /\ rpc = "parse" => ~stopped /\ (answers[1].stopTag => ~reminder)
  /\ stopped => /\ cpc \in {"join", "reset", "end"} /\ requests = <<>> /\ ~reminder
                /\ Len(answers) = IF rpc = "receive" THEN 0 ELSE 1
  /\ cpc \in {"reset", "end"} => stopped /\ rpc = "receive"

\* Nothing is under way that could mark an output as done.
Settled == requests = <<>> /\ \A i \in DOMAIN answers : i = 1 /\ rpc = "notify"

\* While the viewer is established only the answer to the last request is under way.
Asked ==
  established /\ cpc \notin {"join", "reset", "end"} =>
    /\ \A i \in DOMAIN requests : requests[i].id = sent
    /\ \A i \in DOMAIN answers : Unread(i) => answers[i].id = sent
    /\ expiry \notin {"callback", "notify"}
    /\ rpc = "done" => answers[1].id = sent /\ sent \in handled
    /\ cpc \in {"ready", "stopExpiry"} => Settled
    /\ cpc = "wait" /\ completed => Settled /\ sent \in handled
    /\ cpc = "stopExpiry" => sent \in handled

\* The server fills a segment in use.
FillInUse == spc = "fill" => requests[1].id \in segments

SessionInv == TypeOK /\ Pipe /\ Ending /\ FillInUse /\ SegmentsFollowAnswers /\ Asked
--------------------------------------------------------------------------------
(* The session: sequences, and types. *)

RequestSet == [id : 0 .. MaxRequests, kind : Kinds \cup {"stop"}]
AnswerSet  == [id : 0 .. MaxRequests, seg : 0 .. MaxRequests, stopTag : BOOLEAN]

LEMMA AppendFacts ==
  ASSUME NEW S, NEW s \in Seq(S), NEW e \in S
  PROVE  /\ Append(s, e) \in Seq(S) /\ Len(s) \in Nat
         /\ Len(Append(s, e)) = Len(s) + 1
         /\ DOMAIN s = 1 .. Len(s) /\ DOMAIN Append(s, e) = 1 .. Len(s) + 1
         /\ \A i \in DOMAIN s : Append(s, e)[i] = s[i]
         /\ Append(s, e)[Len(s) + 1] = e
BY AppendProperties, LenProperties

LEMMA TailFacts ==
  ASSUME NEW S, NEW s \in Seq(S), s # <<>>
  PROVE  /\ Tail(s) \in Seq(S) /\ Len(s) \in Nat \ {0}
         /\ Len(Tail(s)) = Len(s) - 1
         /\ DOMAIN s = 1 .. Len(s) /\ DOMAIN Tail(s) = 1 .. Len(s) - 1
         /\ Head(s) = s[1] /\ s[1] \in S
         /\ \A i \in DOMAIN Tail(s) : i + 1 \in DOMAIN s /\ Tail(s)[i] = s[i + 1]
<1>1. Tail(s) \in Seq(S) /\ Len(s) \in Nat /\ Head(s) = s[1] /\ Head(s) \in S
      /\ Len(Tail(s)) = Len(s) - 1
      /\ \A i \in 1 .. Len(Tail(s)) : Tail(s)[i] = s[i + 1]
  BY HeadTailProperties, LenProperties
<1>2. DOMAIN s = 1 .. Len(s) /\ DOMAIN Tail(s) = 1 .. Len(Tail(s)) /\ Len(s) # 0
  BY <1>1, LenProperties, EmptySeq
<1> QED
  BY <1>1, <1>2

LEMMA SessionTypes ==
  ASSUME TypeOK
  PROVE  /\ requests \in Seq(RequestSet) /\ answers \in Seq(AnswerSet)
         /\ Len(requests) \in Nat /\ Len(answers) \in Nat
         /\ DOMAIN requests = 1 .. Len(requests) /\ DOMAIN answers = 1 .. Len(answers)
         /\ \A i \in DOMAIN requests : requests[i] \in RequestSet
         /\ \A i \in DOMAIN answers : answers[i] \in AnswerSet
         /\ MaxRequests \in Nat /\ MaxReconnects \in Nat /\ sent \in Nat
         /\ requests = <<>> <=> Len(requests) = 0
         /\ answers = <<>> <=> Len(answers) = 0
<1>1. requests \in Seq(RequestSet) /\ answers \in Seq(AnswerSet)
  BY DEF TypeOK, RequestSet, AnswerSet
<1>2. MaxRequests \in Nat /\ MaxReconnects \in Nat
  BY SessionAssumption DEF SessionAssumption
<1> QED
  BY <1>1, <1>2, LenProperties, EmptySeq, ElementOfSeq DEF TypeOK

\* An answer to a request, as Reply gives it.
LEMMA AnswersAreTyped ==
  ASSUME TypeOK, requests # <<>>, NEW answer, Reply(answer), NEW tag \in BOOLEAN,
         NEW seg \in {NoSegment, Head(requests).id},
         answer = Answer(Head(requests).id, seg, tag)
  PROVE  /\ answers' \in Seq(AnswerSet) /\ requests' \in Seq(RequestSet)
         /\ answer \in AnswerSet
<1>1. requests \in Seq(RequestSet) /\ answers \in Seq(AnswerSet) /\ MaxRequests \in Nat
  BY SessionTypes
<1>2. Head(requests) \in RequestSet /\ Tail(requests) \in Seq(RequestSet)
  BY <1>1, TailFacts
<1>3. answer \in AnswerSet
  BY <1>1, <1>2 DEF RequestSet, AnswerSet, Answer, NoSegment
<1> QED
  BY <1>1, <1>2, <1>3, AppendFacts DEF Reply

LEMMA TypeOfSession == ASSUME SessionInv, [Next]_vars PROVE TypeOK'
<1> USE DEF SessionInv, consoleVars, netVars
<1>0. /\ MaxRequests \in Nat /\ MaxReconnects \in Nat
      /\ requests \in Seq(RequestSet) /\ answers \in Seq(AnswerSet)
  BY SessionTypes
<1>1. ASSUME NEW k \in Kinds, Forward(k) PROVE TypeOK'
  <2>1. Request(sent + 1, k) \in RequestSet /\ sent' \in 0 .. MaxRequests
    BY <1>0, <1>1 DEF Forward, Request, RequestSet, TypeOK
  <2>2. requests' \in Seq(RequestSet)
    BY <1>0, <1>1, <2>1, AppendFacts DEF Forward
  <2> QED
    BY <1>1, <2>1, <2>2 DEF TypeOK, Forward, RequestSet
<1>2. CASE Disconnect
  <2>1. Request(0, "stop") \in RequestSet
    BY <1>0 DEF Request, RequestSet
  <2>2. requests' \in Seq(RequestSet)
    BY <1>0, <1>2, <2>1, AppendFacts DEF Disconnect
  <2> QED
    BY <1>2, <2>2 DEF TypeOK, Disconnect, RequestSet
<1>3. CASE Reconnect
  <2>1. established' \in BOOLEAN
    BY <1>3, SessionAssumption DEF Reconnect, SessionAssumption
  <2>2. reconnects' \in 0 .. MaxReconnects
    BY <1>0, <1>3 DEF TypeOK, Reconnect
  <2>3. segments' = {} /\ lost' = {}
    BY <1>3 DEF Reconnect, cleanUpShmInUse
  <2> QED
    BY <1>3, <2>1, <2>2, <2>3 DEF TypeOK, Reconnect
<1>4. CASE StartReminderTimer \/ WaitTaskDone \/ WaitReturns \/ StopExpiryTimer \/ Join \/ Leave
           \/ SpuriousWakeup
  BY <1>4 DEF TypeOK, StartReminderTimer, WaitTaskDone, WaitReturns, StopExpiryTimer, Join,
     Leave, SpuriousWakeup
<1>5. CASE ServerReplies
  <2>1. answers' \in Seq(AnswerSet) /\ requests' \in Seq(RequestSet)
    BY <1>5, AnswersAreTyped DEF ServerReplies
  <2> QED
    BY <1>5, <2>1 DEF TypeOK, ServerReplies, Reply, RequestSet, AnswerSet
<1>6. CASE CreateShmSegment
  <2>1. requests # <<>> /\ Head(requests) = requests[1] /\ 1 \in DOMAIN requests
        /\ requests[1].kind = "execute" /\ requests[1] \in RequestSet
    BY <1>0, <1>6, TailFacts DEF CreateShmSegment
  <2>2. requests[1].id \in Ids
    BY <1>0, <2>1 DEF Pipe, RequestSet, Ids
  <2> QED
    BY <1>6, <2>1, <2>2 DEF TypeOK, CreateShmSegment
<1>7. CASE ServerSendsSegment
  <2>1. answers' \in Seq(AnswerSet) /\ requests' \in Seq(RequestSet)
    BY <1>7, AnswersAreTyped DEF ServerSendsSegment, Pipe
  <2> QED
    BY <1>7, <2>1 DEF TypeOK, ServerSendsSegment, Reply, RequestSet, AnswerSet
<1>8. CASE ServerFails
  <2>1. answers' \in Seq(AnswerSet) /\ requests' \in Seq(RequestSet)
    BY <1>8, AnswersAreTyped DEF ServerFails, Pipe
  <2> QED
    BY <1>8, <2>1 DEF TypeOK, ServerFails, Reply, RequestSet, AnswerSet, removeShmSegment
<1>9. CASE LoseRequest
  <2>1. requests' \in Seq(RequestSet)
    BY <1>0, <1>9, TailFacts DEF LoseRequest
  <2> QED
    BY <1>9, <2>1 DEF TypeOK, LoseRequest, RequestSet
<1>10. CASE LoseAnswer
  <2>1. answers' \in Seq(AnswerSet) /\ Head(answers) \in AnswerSet
    BY <1>0, <1>10, TailFacts DEF LoseAnswer
  <2>2. Head(answers).seg \in 0 .. MaxRequests
    BY <2>1 DEF AnswerSet
  <2>3. {Head(answers).seg} \ {NoSegment} \subseteq Ids
    BY <1>0, <2>2 DEF Ids, NoSegment
  <2>4. lost' \subseteq Ids
    BY <1>10, <2>3 DEF TypeOK, LoseAnswer
  <2> QED
    BY <1>10, <2>1, <2>4 DEF TypeOK, LoseAnswer, AnswerSet
<1>11. CASE ParseTLVMessage
  <2>1. Head(answers) \in AnswerSet
    BY <1>0, <1>11, TailFacts DEF ParseTLVMessage, Pipe
  <2>2. Head(answers).id \in 0 .. MaxRequests /\ Head(answers).stopTag \in BOOLEAN
    BY <2>1 DEF AnswerSet
  <2>3. {Head(answers).id} \ {0} \subseteq Ids
    BY <1>0, <2>2 DEF Ids
  <2>4. handled' \subseteq Ids /\ stopped' \in BOOLEAN /\ segments' \subseteq Ids
    BY <1>11, <2>2, <2>3 DEF TypeOK, ParseTLVMessage, fetchSharedMemory, removeShmSegment
  <2> QED
    BY <1>11, <2>4 DEF TypeOK, ParseTLVMessage
<1>12. CASE NotifyConsole
  <2>1. answers' \in Seq(AnswerSet)
    BY <1>0, <1>12, TailFacts DEF NotifyConsole, Pipe
  <2> QED
    BY <1>12, <2>1 DEF TypeOK, NotifyConsole, AnswerSet
<1>13. CASE StopReminderTimer \/ NotifyTaskDone
  BY <1>13 DEF TypeOK, StopReminderTimer, NotifyTaskDone
<1>14. CASE ExpiryStep
  BY <1>14 DEF TypeOK, ExpiryStep, ExpiryOnly, ExpiryTimeout, ExpiryStopped, ExpiryTaskDone,
     ExpiryNotify
<1>15. CASE Terminated \/ UNCHANGED vars
  BY <1>15 DEF TypeOK, Terminated, vars
<1> QED
  BY <1>1, <1>2, <1>3, <1>4, <1>5, <1>6, <1>7, <1>8, <1>9, <1>10, <1>11, <1>12, <1>13, <1>14,
     <1>15, Zenon DEF Next, ConsoleStep, ConsoleChoice, ServerStep, ReceiverStep
--------------------------------------------------------------------------------
(* The session: what is under way. *)

\* A request enters the pipe with an id of its own.
LEMMA PipeGrows ==
  ASSUME TypeOK, Pipe, NEW r \in RequestSet, requests' = Append(requests, r), cpc = "ready",
         UNCHANGED <<answers, spc, rpc>>, sent' \in Nat, sent <= sent', r.id <= sent',
         r.kind = "stop" <=> r.id = 0, r.id = 0 => cpc' = "join", r.id = 0 \/ r.id > sent
  PROVE  Pipe'
<1>1. /\ Len(requests) \in Nat /\ DOMAIN requests = 1 .. Len(requests) /\ sent \in Nat
      /\ \A i \in DOMAIN requests : requests[i] \in RequestSet
      /\ \A i \in DOMAIN answers : answers[i] \in AnswerSet
      /\ requests = <<>> <=> Len(requests) = 0
  BY SessionTypes
<1>2. /\ DOMAIN requests' = 1 .. Len(requests) + 1 /\ Len(requests') = Len(requests) + 1
      /\ \A i \in DOMAIN requests : requests'[i] = requests[i]
      /\ requests'[Len(requests) + 1] = r /\ requests' # <<>>
  BY AppendFacts, SessionTypes, EmptySeq
<1>3. /\ \A i \in DOMAIN requests : requests[i].id # 0 /\ requests[i].id <= sent
                                    /\ requests[i].id \in Nat
      /\ \A i \in DOMAIN answers : answers[i].id # 0 /\ answers[i].id <= sent
                                   /\ answers[i].id \in Nat
  BY <1>1 DEF Pipe, RequestSet, AnswerSet
<1>4. r.id \in Nat
  BY SessionTypes DEF RequestSet
<1>5. ASSUME NEW i \in DOMAIN requests'
      PROVE  /\ requests'[i].id <= sent'
             /\ requests'[i].kind = "stop" <=> requests'[i].id = 0
             /\ requests'[i].id = 0 => i = Len(requests') /\ cpc' = "join"
             /\ \A j \in DOMAIN requests' : requests'[i].id = requests'[j].id => i = j
             /\ \A j \in DOMAIN answers : answers[j].id # requests'[i].id
  <2>1. CASE i \in DOMAIN requests
    <3>1. requests'[i].id # r.id
      BY <1>1, <1>2, <1>3, <1>4, <2>1
    <3> QED
      BY <1>1, <1>2, <1>3, <2>1, <3>1 DEF Pipe
  <2>2. CASE i = Len(requests) + 1
    <3>1. \A j \in DOMAIN requests : requests[j].id # r.id
      BY <1>1, <1>3, <1>4
    <3>2. \A j \in DOMAIN answers : answers[j].id # r.id
      BY <1>1, <1>3, <1>4
    <3> QED
      BY <1>1, <1>2, <2>2, <3>1, <3>2
  <2> QED
    BY <1>1, <1>2, <2>1, <2>2
<1>6. \A i \in DOMAIN answers :
        /\ answers[i].id <= sent' /\ answers[i].seg \in {NoSegment, answers[i].id}
        /\ answers[i].stopTag <=> answers[i].id = 0
        /\ answers[i].id # 0
        /\ \A j \in DOMAIN answers : answers[i].id = answers[j].id => i = j
  BY <1>1, <1>3 DEF Pipe
<1>7. spc' = "fill" => requests' # <<>> /\ requests'[1].kind = "execute"
  BY <1>1, <1>2 DEF Pipe
<1>8. rpc' # "receive" => answers' # <<>>
  BY DEF Pipe
<1> QED
  BY <1>2, <1>5, <1>6, <1>7, <1>8 DEF Pipe

\* The answer to the first request takes its place.
LEMMA PipeMoves ==
  ASSUME TypeOK, Pipe, requests # <<>>, NEW seg \in {NoSegment, Head(requests).id}, NEW tag \in BOOLEAN,
         tag <=> Head(requests).kind = "stop",
         Reply(Answer(Head(requests).id, seg, tag)), UNCHANGED <<sent, cpc, rpc>>
  PROVE  Pipe'
<1> DEFINE a == Answer(Head(requests).id, seg, tag)
<1>1. /\ Len(requests) \in Nat \ {0} /\ DOMAIN requests = 1 .. Len(requests)
      /\ requests' = Tail(requests) /\ Len(requests') = Len(requests) - 1
      /\ DOMAIN requests' = 1 .. Len(requests) - 1 /\ Head(requests) = requests[1]
      /\ \A i \in DOMAIN requests' : i + 1 \in DOMAIN requests /\ requests'[i] = requests[i + 1]
      /\ spc' = "receive"
  BY TailFacts, SessionTypes DEF Reply
<1>2. a \in AnswerSet
  BY AnswersAreTyped
<1>3. /\ Len(answers) \in Nat /\ DOMAIN answers = 1 .. Len(answers)
      /\ answers' = Append(answers, a) /\ Len(answers') = Len(answers) + 1
      /\ DOMAIN answers' = 1 .. Len(answers) + 1
      /\ \A i \in DOMAIN answers : answers'[i] = answers[i]
      /\ answers'[Len(answers) + 1] = a /\ answers' # <<>>
  BY <1>2, AppendFacts, SessionTypes, EmptySeq DEF Reply
<1>4. a.id = requests[1].id /\ a.seg = seg /\ a.stopTag = tag
  BY <1>1 DEF Answer
<1>5. /\ 1 \in DOMAIN requests
      /\ \A i \in DOMAIN answers : answers[i].id # requests[1].id /\ answers[i].id # 0
  BY <1>1, EmptySeq DEF Pipe
<1>6. requests[1].id = 0 => requests' = <<>> /\ cpc = "join"
  <2>1. requests[1].id = 0 => Len(requests') = 0 /\ cpc = "join"
    BY <1>1, <1>5 DEF Pipe
  <2> QED
    BY <1>1, <2>1, TailFacts, SessionTypes, EmptySeq
<1>7. ASSUME NEW i \in DOMAIN requests'
      PROVE  /\ requests'[i].id <= sent'
             /\ requests'[i].kind = "stop" <=> requests'[i].id = 0
             /\ requests'[i].id = 0 => i = Len(requests') /\ cpc' = "join"
             /\ \A j \in DOMAIN requests' : requests'[i].id = requests'[j].id => i = j
             /\ \A j \in DOMAIN answers' : answers'[j].id # requests'[i].id
  <2>1. i + 1 \in DOMAIN requests /\ requests'[i] = requests[i + 1] /\ i + 1 # 1
    BY <1>1
  <2>2. requests[i + 1].id # requests[1].id
    BY <1>5, <2>1 DEF Pipe
  <2>3. \A j \in DOMAIN answers' : answers'[j].id # requests'[i].id
    BY <1>3, <1>4, <2>1, <2>2 DEF Pipe
  <2> QED
    BY <1>1, <2>1, <2>3 DEF Pipe
<1>8. ASSUME NEW i \in DOMAIN answers'
      PROVE  /\ answers'[i].id <= sent' /\ answers'[i].seg \in {NoSegment, answers'[i].id}
             /\ answers'[i].stopTag <=> answers'[i].id = 0
             /\ answers'[i].id = 0 => i = Len(answers') /\ requests' = <<>> /\ cpc' = "join"
             /\ \A j \in DOMAIN answers' : answers'[i].id = answers'[j].id => i = j
  <2>1. CASE i \in DOMAIN answers
    BY <1>3, <1>4, <1>5, <2>1 DEF Pipe
  <2>2. CASE i = Len(answers) + 1
    BY <1>1, <1>3, <1>4, <1>5, <1>6, <2>2 DEF Pipe
  <2> QED
    BY <1>3, <2>1, <2>2
<1> QED
  BY <1>1, <1>3, <1>7, <1>8 DEF Pipe

\* The first request is lost.
LEMMA PipeLosesRequest ==
  ASSUME TypeOK, Pipe, requests # <<>>, requests' = Tail(requests), spc' = "receive",
         UNCHANGED <<answers, sent, cpc, rpc>>
  PROVE  Pipe'
<1>1. /\ Len(requests) \in Nat \ {0} /\ DOMAIN requests = 1 .. Len(requests)
      /\ Len(requests') = Len(requests) - 1
      /\ DOMAIN requests' = 1 .. Len(requests) - 1
      /\ \A i \in DOMAIN requests' : i + 1 \in DOMAIN requests /\ requests'[i] = requests[i + 1]
  BY TailFacts, SessionTypes
<1>2. \A i \in DOMAIN answers : answers[i].id # 0
  BY DEF Pipe
<1>3. ASSUME NEW i \in DOMAIN requests'
      PROVE  /\ requests'[i].id <= sent'
             /\ requests'[i].kind = "stop" <=> requests'[i].id = 0
             /\ requests'[i].id = 0 => i = Len(requests') /\ cpc' = "join"
             /\ \A j \in DOMAIN requests' : requests'[i].id = requests'[j].id => i = j
             /\ \A j \in DOMAIN answers' : answers'[j].id # requests'[i].id
  BY <1>1, <1>3 DEF Pipe
<1> QED
  BY <1>1, <1>2, <1>3 DEF Pipe

\* The first answer is lost, or has been handled.
LEMMA PipeShrinks ==
  ASSUME TypeOK, Pipe, answers # <<>>, answers' = Tail(answers), rpc' = "receive",
         UNCHANGED <<requests, sent, cpc, spc>>
  PROVE  Pipe'
<1>1. /\ Len(answers) \in Nat \ {0} /\ DOMAIN answers = 1 .. Len(answers)
      /\ Len(answers') = Len(answers) - 1
      /\ DOMAIN answers' = 1 .. Len(answers) - 1
      /\ \A i \in DOMAIN answers' : i + 1 \in DOMAIN answers /\ answers'[i] = answers[i + 1]
  BY TailFacts, SessionTypes
<1>2. ASSUME NEW i \in DOMAIN answers'
      PROVE  /\ answers'[i].id <= sent' /\ answers'[i].seg \in {NoSegment, answers'[i].id}
             /\ answers'[i].stopTag <=> answers'[i].id = 0
             /\ answers'[i].id = 0 => i = Len(answers') /\ requests' = <<>> /\ cpc' = "join"
             /\ \A j \in DOMAIN answers' : answers'[i].id = answers'[j].id => i = j
             /\ \A j \in DOMAIN requests' : answers'[i].id # requests'[j].id
  BY <1>1, <1>2 DEF Pipe
<1> QED
  BY <1>1, <1>2 DEF Pipe
\* What is under way keeps its order whatever happens.
LEMMA PipeKept == ASSUME SessionInv, [Next]_vars PROVE Pipe'
<1> USE DEF SessionInv, consoleVars, netVars
<1>0. /\ MaxRequests \in Nat /\ sent \in Nat
      /\ requests \in Seq(RequestSet) /\ answers \in Seq(AnswerSet)
  BY SessionTypes
<1>1. ASSUME NEW k \in Kinds, Forward(k) PROVE Pipe'
  <2>1. Request(sent + 1, k) \in RequestSet /\ k # "stop" /\ sent + 1 > sent
    BY <1>0, <1>1 DEF Forward, Request, RequestSet, Kinds
  <2>2. Request(sent + 1, k).id = sent + 1 /\ Request(sent + 1, k).kind = k
    BY DEF Request
  <2>3. /\ requests' = Append(requests, Request(sent + 1, k)) /\ cpc = "ready" /\ sent' = sent + 1
        /\ UNCHANGED <<answers, spc, rpc>>
    BY <1>1 DEF Forward
  <2> HIDE DEF SessionInv
  <2> QED
    BY <1>0, <2>1, <2>2, <2>3, PipeGrows DEF SessionInv
<1>2. CASE Disconnect
  <2>1. Request(0, "stop") \in RequestSet
    BY <1>0 DEF Request, RequestSet
  <2>2. Request(0, "stop").id = 0 /\ Request(0, "stop").kind = "stop"
    BY DEF Request
  <2>3. /\ requests' = Append(requests, Request(0, "stop")) /\ cpc = "ready" /\ sent' = sent
        /\ cpc' = "join" /\ UNCHANGED <<answers, spc, rpc>>
    BY <1>2 DEF Disconnect
  <2> QED
    BY <1>0, <2>1, <2>2, <2>3, PipeGrows
<1>3. ASSUME UNCHANGED <<requests, answers, sent, spc, rpc>>, cpc = "join" => cpc' = "join"
      PROVE  Pipe'
  BY <1>3 DEF Pipe
<1>4. CASE StartReminderTimer \/ WaitTaskDone \/ WaitReturns \/ StopExpiryTimer \/ Leave
           \/ SpuriousWakeup \/ Reconnect
  BY <1>3, <1>4 DEF StartReminderTimer, WaitTaskDone, WaitReturns, StopExpiryTimer,
     Leave, SpuriousWakeup, Reconnect
<1>5. CASE Join
  <2>1. /\ stopped /\ rpc = "receive" /\ UNCHANGED <<requests, answers, sent, spc, rpc>>
    BY <1>5 DEF Join
  <2>2. requests = <<>> /\ answers = <<>>
    BY <2>1, SessionTypes DEF Ending
  <2> QED
    BY <2>1, <2>2 DEF Pipe
<1>6. CASE ServerReplies
  <2>1. /\ requests # <<>> /\ Reply(Answer(Head(requests).id, NoSegment, Head(requests).kind = "stop"))
        /\ UNCHANGED <<sent, cpc, rpc>>
    BY <1>6 DEF ServerReplies
  <2> QED
    BY <2>1, PipeMoves
<1>7. CASE CreateShmSegment
  <2>1. /\ requests # <<>> /\ requests[1].kind = "execute" /\ UNCHANGED <<requests, answers, sent, cpc, rpc>>
    BY <1>0, <1>7, TailFacts DEF CreateShmSegment
  <2> QED
    BY <2>1 DEF Pipe
<1>8. CASE ServerSendsSegment \/ ServerFails
  <2>1. /\ requests # <<>> /\ Head(requests) = requests[1] /\ requests[1].kind # "stop"
        /\ UNCHANGED <<sent, cpc, rpc>>
        /\ \E seg \in {NoSegment, Head(requests).id} : Reply(Answer(Head(requests).id, seg, FALSE))
    BY <1>0, <1>8, TailFacts DEF ServerSendsSegment, ServerFails, Pipe
  <2> QED
    BY <2>1, PipeMoves
<1>9. CASE LoseRequest
  BY <1>9, PipeLosesRequest DEF LoseRequest
<1>10. CASE LoseAnswer
  BY <1>10, PipeShrinks DEF LoseAnswer
<1>11. CASE NotifyConsole
  <2>1. answers # <<>>
    BY <1>11 DEF NotifyConsole, Pipe
  <2> QED
    BY <1>11, <2>1, PipeShrinks DEF NotifyConsole
<1>12. CASE StopReminderTimer \/ ParseTLVMessage \/ NotifyTaskDone
  <2>1. answers # <<>> /\ UNCHANGED <<requests, answers, sent, spc, cpc>>
    BY <1>12 DEF StopReminderTimer, ParseTLVMessage, NotifyTaskDone, Pipe
  <2> QED
    BY <2>1 DEF Pipe
<1>13. CASE ExpiryStep
  BY <1>3, <1>13 DEF ExpiryStep, ExpiryOnly, ExpiryTimeout, ExpiryStopped, ExpiryTaskDone,
     ExpiryNotify
<1>14. CASE Terminated \/ UNCHANGED vars
  BY <1>3, <1>14 DEF Terminated, vars
<1> QED
  BY <1>1, <1>2, <1>4, <1>5, <1>6, <1>7, <1>8, <1>9, <1>10, <1>11, <1>12, <1>13, <1>14, Zenon
     DEF Next, ConsoleStep, ConsoleChoice, ServerStep, ReceiverStep

\* The answer that stops the receiver is the last one, and has stopped the reminder.
LEMMA EndingKept == ASSUME SessionInv, [Next]_vars PROVE Ending'
<1> USE DEF SessionInv, consoleVars, netVars
<1>0. /\ answers \in Seq(AnswerSet) /\ Len(answers) \in Nat /\ DOMAIN answers = 1 .. Len(answers)
      /\ (requests = <<>> <=> Len(requests) = 0) /\ (answers = <<>> <=> Len(answers) = 0)
      /\ (answers # <<>> => Head(answers) = answers[1] /\ 1 \in DOMAIN answers)
  BY SessionTypes, TailFacts
<1>1. ASSUME NEW k \in Kinds, Forward(k) PROVE Ending'
  BY <1>1 DEF Forward, Ending
<1>2. CASE Disconnect
  BY <1>2 DEF Disconnect, Ending
<1>3. CASE Reconnect
  BY <1>3 DEF Reconnect, Ending
<1>4. CASE StartReminderTimer
  <2>1. rpc = "parse" => ~answers[1].stopTag
    BY <1>0, <1>4 DEF StartReminderTimer, Pipe
  <2> QED
    BY <1>4, <2>1 DEF StartReminderTimer, Ending
<1>5. CASE WaitTaskDone \/ WaitReturns \/ StopExpiryTimer \/ Leave \/ SpuriousWakeup
  BY <1>5 DEF WaitTaskDone, WaitReturns, StopExpiryTimer, Leave, SpuriousWakeup, Ending
<1>6. CASE Join
  BY <1>6 DEF Join, Ending
<1>7. ASSUME UNCHANGED <<expiry, cpc, rpc, stopped, reminder>>, requests # <<>>,
             answers # <<>> => answers'[1] = answers[1]
      PROVE  Ending'
  BY <1>7 DEF Ending, Pipe
<1>8. CASE ServerStep
  <2>1. UNCHANGED <<expiry, cpc, rpc, stopped, reminder>> /\ requests # <<>>
    BY <1>8 DEF ServerStep, ServerReplies, CreateShmSegment, ServerSendsSegment, ServerFails, Pipe
  <2>2. answers' = answers \/ \E a : answers' = Append(answers, a)
    BY <1>8 DEF ServerStep, ServerReplies, CreateShmSegment, ServerSendsSegment, ServerFails, Reply
  <2>3. answers # <<>> => answers'[1] = answers[1]
    BY <1>0, <2>2
  <2> QED
    BY <1>7, <2>1, <2>3
<1>9. CASE LoseRequest
  BY <1>7, <1>9 DEF LoseRequest
<1>10. CASE LoseAnswer
  <2>1. ~stopped
    BY <1>0, <1>10 DEF LoseAnswer, Ending
  <2> QED
    BY <1>10, <2>1 DEF LoseAnswer, Ending
<1>11. CASE StopReminderTimer
  BY <1>0, <1>11 DEF StopReminderTimer, Ending
<1>12. CASE ParseTLVMessage
  <2>1. /\ rpc = "parse" /\ answers # <<>> /\ stopped' = answers[1].stopTag /\ rpc' = "done"
        /\ UNCHANGED <<expiry, cpc, requests, answers, reminder>>
    BY <1>0, <1>12 DEF ParseTLVMessage, Pipe
  <2>2. answers[1].stopTag => Len(answers) = 1 /\ requests = <<>> /\ cpc = "join" /\ ~reminder
    BY <1>0, <2>1 DEF Pipe, Ending
  <2> QED
    BY <2>1, <2>2 DEF Ending
<1>13. CASE NotifyTaskDone
  BY <1>13 DEF NotifyTaskDone, Ending
<1>14. CASE NotifyConsole
  <2>1. /\ rpc = "notify" /\ rpc' = "receive" /\ answers # <<>> /\ Len(answers') = Len(answers) - 1
        /\ UNCHANGED <<expiry, cpc, requests, stopped, reminder>>
    BY <1>0, <1>14, TailFacts DEF NotifyConsole, Pipe
  <2> QED
    BY <1>0, <2>1 DEF Ending
<1>15. CASE ExpiryStep
  <2>1. expiry # "none" /\ expiry' # "none"
        /\ UNCHANGED <<cpc, requests, answers, rpc, stopped, reminder>>
    BY <1>15 DEF ExpiryStep, ExpiryOnly, ExpiryTimeout, ExpiryStopped, ExpiryTaskDone, ExpiryNotify
  <2> QED
    BY <2>1 DEF Ending
<1>16. CASE Terminated \/ UNCHANGED vars
  <2>1. UNCHANGED <<expiry, cpc, requests, answers, rpc, stopped, reminder>>
    BY <1>16 DEF Terminated, vars
  <2> QED
    BY <2>1 DEF Ending
<1> QED
  BY <1>1, <1>2, <1>3, <1>4, <1>5, <1>6, <1>8, <1>9, <1>10, <1>11, <1>12, <1>13, <1>14, <1>15,
     <1>16, Zenon DEF Next, ConsoleStep, ConsoleChoice, ReceiverStep
--------------------------------------------------------------------------------
(* The session: segments. *)

\* An answer that has not been read names a segment in use.
NamesInUse == \A i \in DOMAIN answers : Unread(i) /\ answers[i].seg # NoSegment => answers[i].seg \in segments

\* Who will remove a segment.
Owned(s) ==
  \/ \E i \in DOMAIN answers : Unread(i) /\ answers[i].seg = s
  \/ s \in lost
  \/ spc = "fill" /\ s = requests[1].id

LEMMA SegmentsInWords ==
  ASSUME TypeOK
  PROVE  SegmentsFollowAnswers <=> NamesInUse /\ \A s \in segments : Owned(s)
<1>1. \A s \in segments : s # NoSegment
  BY SessionTypes DEF TypeOK, Ids, NoSegment
<1> QED
  BY <1>1 DEF SegmentsFollowAnswers, NamesInUse, Owned, Unread

LEMMA SegmentsInWordsNext ==
  ASSUME TypeOK', NamesInUse', \A s \in segments' : Owned(s)'
  PROVE  SegmentsFollowAnswers'
<1>1. \A s \in segments' : s # NoSegment
  BY SessionAssumption DEF SessionAssumption, TypeOK, Ids, NoSegment
<1> QED
  BY <1>1 DEF SegmentsFollowAnswers, NamesInUse, Owned, Unread

LEMMA SegmentsKept == ASSUME SessionInv, TypeOK', [Next]_vars PROVE SegmentsFollowAnswers'
<1> USE DEF SessionInv, consoleVars, netVars
<1>0. /\ requests \in Seq(RequestSet) /\ answers \in Seq(AnswerSet)
      /\ Len(answers) \in Nat /\ DOMAIN answers = 1 .. Len(answers)
      /\ NamesInUse /\ \A s \in segments : Owned(s)
  BY SessionTypes, SegmentsInWords
<1>a. answers # <<>> => Head(answers) = answers[1] /\ 1 \in DOMAIN answers
  BY <1>0, TailFacts
<1>b. requests # <<>> => Head(requests) = requests[1] /\ 1 \in DOMAIN requests
  BY <1>0, TailFacts
<1>1. ASSUME UNCHANGED <<answers, segments, lost, spc>>, spc = "fill" => requests'[1] = requests[1],
             \A i : Unread(i)' <=> Unread(i)
      PROVE  SegmentsFollowAnswers'
  <2>1. NamesInUse'
    BY <1>0, <1>1 DEF NamesInUse
  <2>2. \A s \in segments' : Owned(s)'
    BY <1>0, <1>1 DEF Owned
  <2> QED
    BY <2>1, <2>2, SegmentsInWordsNext
<1>2. ASSUME rpc' = rpc PROVE \A i : Unread(i)' <=> Unread(i)
  BY <1>2 DEF Unread
<1>3. ASSUME NEW k \in Kinds, Forward(k) PROVE SegmentsFollowAnswers'
  <2>1. spc = "fill" => requests'[1] = requests[1]
    BY <1>0, <1>b, <1>3 DEF Forward, Pipe
  <2> QED
    BY <1>1, <1>2, <1>3, <2>1 DEF Forward
<1>4. CASE Disconnect
  <2>1. spc = "fill" => requests'[1] = requests[1]
    BY <1>0, <1>b, <1>4 DEF Disconnect, Pipe
  <2> QED
    BY <1>1, <1>2, <1>4, <2>1 DEF Disconnect
<1>5. CASE Reconnect
  <2>1. answers = <<>> /\ answers' = answers /\ segments' = {}
    BY <1>5, SessionTypes DEF Reconnect, cleanUpShmInUse, Ending
  <2> QED
    BY <2>1, SegmentsInWordsNext DEF NamesInUse
<1>6. CASE StartReminderTimer \/ WaitTaskDone \/ WaitReturns \/ StopExpiryTimer \/ Leave
           \/ SpuriousWakeup \/ Join
  BY <1>1, <1>2, <1>6 DEF StartReminderTimer, WaitTaskDone, WaitReturns, StopExpiryTimer,
     Leave, SpuriousWakeup, Join
<1>7. ASSUME requests # <<>>, NEW a \in AnswerSet, Reply(a), UNCHANGED <<rpc, lost>>,
             a.seg # NoSegment => a.seg \in segments',
             spc = "fill" => requests[1].id \in {a.seg} \cup (segments \ segments'),
             segments' \subseteq segments,
             \A i \in DOMAIN answers : answers[i].seg # NoSegment =>
               answers[i].seg \notin segments \ segments'
      PROVE  SegmentsFollowAnswers'
  <2>1. /\ DOMAIN answers' = 1 .. Len(answers) + 1
        /\ \A i \in DOMAIN answers : answers'[i] = answers[i]
        /\ answers'[Len(answers) + 1] = a /\ spc' = "receive"
    BY <1>0, <1>7, AppendFacts DEF Reply
  <2>2. \A i : Unread(i)' <=> Unread(i)
    BY <1>2, <1>7
  <2>3. NamesInUse'
    BY <1>0, <1>7, <2>1, <2>2 DEF NamesInUse
  <2>4. Unread(Len(answers) + 1)
    <3>1. Len(answers) = 0 => rpc = "receive"
      BY SessionTypes DEF Pipe
    <3> QED
      BY <1>0, <3>1 DEF Unread
  <2>5. ASSUME NEW s \in segments' PROVE Owned(s)'
    <3>1. CASE \E i \in DOMAIN answers : Unread(i) /\ answers[i].seg = s
      BY <1>0, <2>1, <2>2, <3>1 DEF Owned
    <3>2. CASE s \in lost
      BY <1>7, <3>2 DEF Owned
    <3>3. CASE spc = "fill" /\ s = requests[1].id
      <4>1. s = a.seg
        BY <1>7, <3>3
      <4> QED
        BY <1>0, <2>1, <2>2, <2>4, <4>1 DEF Owned
    <3> QED
      BY <1>0, <1>7, <3>1, <3>2, <3>3 DEF Owned
  <2> QED
    BY <2>3, <2>5, SegmentsInWordsNext
<1>8. CASE ServerReplies
  <2> DEFINE a == Answer(Head(requests).id, NoSegment, Head(requests).kind = "stop")
  <2>1. /\ requests # <<>> /\ Reply(a) /\ UNCHANGED <<rpc, lost, segments>> /\ spc = "receive"
    BY <1>8 DEF ServerReplies
  <2>2. a \in AnswerSet /\ a.seg = NoSegment
    BY <2>1, AnswersAreTyped DEF Answer
  <2> HIDE DEF a
  <2> QED
    BY <1>7, <2>1, <2>2
<1>9. CASE CreateShmSegment
  <2>1. /\ requests # <<>> /\ segments' = segments \cup {requests[1].id}
        /\ spc = "receive" /\ spc' = "fill" /\ UNCHANGED <<requests, answers, rpc, lost>>
    BY <1>b, <1>9 DEF CreateShmSegment
  <2>2. NamesInUse'
    BY <1>0, <1>2, <2>1 DEF NamesInUse
  <2>3. \A s \in segments' : Owned(s)'
    BY <1>0, <1>2, <2>1 DEF Owned
  <2> QED
    BY <2>2, <2>3, SegmentsInWordsNext
<1>10. CASE ServerSendsSegment
  <2> DEFINE a == Answer(Head(requests).id, Head(requests).id, FALSE)
  <2>1. /\ requests # <<>> /\ Reply(a) /\ UNCHANGED <<rpc, lost, segments>> /\ spc = "fill"
    BY <1>10 DEF ServerSendsSegment, Pipe
  <2>2. a \in AnswerSet /\ a.seg = requests[1].id
    BY <1>b, <2>1, AnswersAreTyped DEF Answer
  <2>3. requests[1].id \in segments
    BY <1>10 DEF ServerSendsSegment, FillInUse
  <2> HIDE DEF a
  <2> QED
    BY <1>7, <2>1, <2>2, <2>3
<1>11. CASE ServerFails
  <2> DEFINE a == Answer(Head(requests).id, NoSegment, FALSE)
  <2>1. /\ requests # <<>> /\ Reply(a) /\ UNCHANGED <<rpc, lost>> /\ spc = "fill"
        /\ segments' = segments \ {requests[1].id}
    BY <1>b, <1>11 DEF ServerFails, Pipe, removeShmSegment
  <2>2. a \in AnswerSet /\ a.seg = NoSegment
    BY <2>1, AnswersAreTyped DEF Answer
  <2>3. requests[1].id \in segments
    BY <1>11 DEF ServerFails, FillInUse
  <2>4. \A i \in DOMAIN answers : answers[i].seg # NoSegment => answers[i].seg # requests[1].id
    BY <1>b, <2>1 DEF Pipe
  <2> HIDE DEF a
  <2> QED
    BY <1>7, <2>1, <2>2, <2>3, <2>4
<1>12. CASE LoseRequest
  BY <1>1, <1>2, <1>12 DEF LoseRequest
<1>13. ASSUME answers # <<>>, answers' = Tail(answers), rpc' = "receive",
              UNCHANGED <<requests, spc, segments>>, lost \subseteq lost',
              Unread(1) => answers[1].seg \in lost' \cup {NoSegment}
       PROVE  SegmentsFollowAnswers'
  <2>1. /\ DOMAIN answers' = 1 .. Len(answers) - 1
        /\ \A i \in DOMAIN answers' : i + 1 \in DOMAIN answers /\ answers'[i] = answers[i + 1]
    BY <1>0, <1>13, TailFacts
  <2>2. \A i \in DOMAIN answers' : Unread(i + 1)
    BY <1>0, <2>1 DEF Unread
  <2>3. NamesInUse'
    BY <1>0, <1>13, <2>1, <2>2 DEF NamesInUse
  <2>4. ASSUME NEW s \in segments' PROVE Owned(s)'
    <3>1. ASSUME NEW i \in DOMAIN answers, Unread(i), answers[i].seg = s PROVE Owned(s)'
      <4>1. CASE i = 1
        <5>1. s # NoSegment
          BY <1>13, SessionTypes DEF TypeOK, Ids, NoSegment
        <5> QED
          BY <1>13, <3>1, <4>1, <5>1 DEF Owned
      <4>2. CASE i # 1
        <5>1. i - 1 \in DOMAIN answers' /\ answers'[i - 1] = answers[i]
          BY <1>0, <2>1, <4>2
        <5>2. Unread(i - 1)'
          BY <1>13 DEF Unread
        <5> QED
          BY <3>1, <5>1, <5>2 DEF Owned
      <4> QED
        BY <4>1, <4>2
    <3>2. CASE s \in lost \/ (spc = "fill" /\ s = requests[1].id)
      BY <1>13, <3>2 DEF Owned
    <3> QED
      BY <1>0, <1>13, <3>1, <3>2 DEF Owned
  <2> QED
    BY <2>3, <2>4, SegmentsInWordsNext
<1>14. CASE LoseAnswer
  BY <1>13, <1>14, <1>a DEF LoseAnswer
<1>15. CASE NotifyConsole
  <2>1. answers # <<>> /\ ~Unread(1)
    BY <1>15 DEF NotifyConsole, Pipe, Unread
  <2> QED
    BY <1>13, <1>15, <2>1 DEF NotifyConsole
<1>16. CASE StopReminderTimer
  BY <1>1, <1>16 DEF StopReminderTimer, Unread
<1>17. CASE NotifyTaskDone
  BY <1>1, <1>17 DEF NotifyTaskDone, Unread
<1>18. CASE ParseTLVMessage
  <2>1. /\ rpc = "parse" /\ rpc' = "done" /\ answers # <<>> /\ segments' = segments \ {answers[1].seg}
        /\ UNCHANGED <<answers, requests, spc, lost>>
    BY <1>a, <1>18 DEF ParseTLVMessage, Pipe, fetchSharedMemory, removeShmSegment
  <2>2. \A i \in DOMAIN answers : Unread(i)' <=> i # 1
    BY <1>0, <2>1 DEF Unread
  <2>3. \A i \in DOMAIN answers : i # 1 /\ answers[i].seg # NoSegment => answers[i].seg # answers[1].seg
    BY <1>a, <2>1 DEF Pipe
  <2>4. NamesInUse'
    BY <1>0, <2>1, <2>2, <2>3 DEF NamesInUse, Unread
  <2>5. ASSUME NEW s \in segments' PROVE Owned(s)'
    BY <1>0, <2>1, <2>2 DEF Owned
  <2> QED
    BY <2>4, <2>5, SegmentsInWordsNext
<1>19. CASE ExpiryStep
  BY <1>1, <1>2, <1>19 DEF ExpiryStep, ExpiryOnly, ExpiryTimeout, ExpiryStopped, ExpiryTaskDone,
     ExpiryNotify
<1>20. CASE Terminated \/ UNCHANGED vars
  BY <1>1, <1>2, <1>20 DEF Terminated, vars
<1> QED
  BY <1>3, <1>4, <1>5, <1>6, <1>8, <1>9, <1>10, <1>11, <1>12, <1>14, <1>15, <1>16, <1>17, <1>18,
     <1>19, <1>20, Zenon DEF Next, ConsoleStep, ConsoleChoice, ServerStep, ReceiverStep

\* The segment that is being filled stays until it is sent or given up.
LEMMA FillingKept == ASSUME SessionInv, [Next]_vars PROVE FillInUse'
<1> USE DEF SessionInv, consoleVars, netVars, FillInUse
<1>0. /\ requests \in Seq(RequestSet) /\ answers \in Seq(AnswerSet)
      /\ (requests # <<>> => Head(requests) = requests[1] /\ 1 \in DOMAIN requests)
      /\ (answers # <<>> => Head(answers) = answers[1] /\ 1 \in DOMAIN answers)
  BY SessionTypes, TailFacts
<1>1. ASSUME spc' = spc, segments \subseteq segments', spc = "fill" => requests'[1] = requests[1]
      PROVE  FillInUse'
  BY <1>1
<1>2. ASSUME NEW r, requests' = Append(requests, r), requests # <<>>
      PROVE  requests'[1] = requests[1]
  BY <1>0, <1>2
<1>3. ASSUME NEW k \in Kinds, Forward(k) PROVE FillInUse'
  BY <1>1, <1>2, <1>3 DEF Forward, Pipe
<1>4. CASE Disconnect
  BY <1>1, <1>2, <1>4 DEF Disconnect, Pipe
<1>5. CASE Reconnect
  BY <1>5 DEF Reconnect, Ending, Pipe
<1>6. CASE StartReminderTimer \/ WaitTaskDone \/ WaitReturns \/ StopExpiryTimer \/ Leave
           \/ SpuriousWakeup \/ Join
  BY <1>1, <1>6 DEF StartReminderTimer, WaitTaskDone, WaitReturns, StopExpiryTimer,
     Leave, SpuriousWakeup, Join
<1>7. CASE ServerStep
  BY <1>0, <1>7 DEF ServerStep, ServerReplies, CreateShmSegment, ServerSendsSegment, ServerFails, Reply
<1>8. CASE LoseRequest
  BY <1>8 DEF LoseRequest
<1>9. CASE LoseAnswer \/ StopReminderTimer \/ NotifyTaskDone \/ NotifyConsole
  BY <1>1, <1>9 DEF LoseAnswer, StopReminderTimer, NotifyTaskDone, NotifyConsole
<1>10. CASE ParseTLVMessage
  <2>1. /\ answers # <<>> /\ segments' = segments \ {answers[1].seg} /\ UNCHANGED <<requests, spc>>
    BY <1>0, <1>10 DEF ParseTLVMessage, Pipe, fetchSharedMemory, removeShmSegment
  <2>2. spc = "fill" => requests[1].id # answers[1].seg
    <3>1. spc = "fill" => requests[1].id # 0 /\ requests[1].id # answers[1].id
      BY <1>0, <2>1 DEF Pipe
    <3>2. answers[1].seg \in {NoSegment, answers[1].id}
      BY <1>0, <2>1 DEF Pipe
    <3> QED
      BY <3>1, <3>2 DEF NoSegment
  <2> QED
    BY <2>1, <2>2
<1>11. CASE ExpiryStep
  BY <1>1, <1>11 DEF ExpiryStep, ExpiryOnly, ExpiryTimeout, ExpiryStopped, ExpiryTaskDone,
     ExpiryNotify
<1>12. CASE Terminated \/ UNCHANGED vars
  BY <1>1, <1>12 DEF Terminated, vars
<1> QED
  BY <1>3, <1>4, <1>5, <1>6, <1>7, <1>8, <1>9, <1>10, <1>11, <1>12, Zenon
     DEF Next, ConsoleStep, ConsoleChoice, ReceiverStep
--------------------------------------------------------------------------------
(* The session: the answer to the last request. *)

\* While the viewer is established only the receiver marks the output as done, and it
\* does so with the answer to the last request.
LEMMA AskedKept == ASSUME SessionInv, [Next]_vars PROVE Asked'
<1> USE DEF SessionInv, consoleVars, netVars
<1> DEFINE InSession == established /\ cpc \notin {"join", "reset", "end"}
<1>0. /\ requests \in Seq(RequestSet) /\ answers \in Seq(AnswerSet)
      /\ Len(answers) \in Nat /\ DOMAIN answers = 1 .. Len(answers)
      /\ Len(requests) \in Nat /\ DOMAIN requests = 1 .. Len(requests)
      /\ (requests # <<>> => Head(requests) = requests[1] /\ 1 \in DOMAIN requests)
      /\ (answers # <<>> => Head(answers) = answers[1] /\ 1 \in DOMAIN answers)
      /\ (requests = <<>> <=> Len(requests) = 0) /\ (answers = <<>> <=> Len(answers) = 0)
  BY SessionTypes, TailFacts
<1>1. ASSUME NEW k \in Kinds, Forward(k) PROVE Asked'
  <2>1. /\ cpc = "ready" /\ cpc' = "remind" /\ requests' = Append(requests, Request(sent + 1, k))
        /\ sent' = sent + 1 /\ UNCHANGED <<established, answers, rpc, expiry, completed, handled>>
    BY <1>1 DEF Forward
  <2>2. CASE established
    <3>1. Settled /\ expiry \notin {"callback", "notify"}
      BY <2>1, <2>2 DEF Asked
    <3>2. requests = <<>> /\ requests' = <<Request(sent + 1, k)>>
      BY <2>1, <3>1 DEF Settled
    <3>3. \A i \in DOMAIN requests' : requests'[i].id = sent'
      BY <2>1, <3>2 DEF Request
    <3>4. /\ \A i \in DOMAIN answers' : ~Unread(i)'
          /\ rpc' # "done"
      BY <1>0, <2>1, <3>1 DEF Settled, Unread, Pipe
    <3> QED
      BY <2>1, <3>1, <3>3, <3>4 DEF Asked
  <2> QED
    BY <2>1, <2>2 DEF Asked
<1>2. CASE Disconnect \/ Join \/ Leave
  BY <1>2 DEF Disconnect, Join, Leave, Asked
<1>3. CASE Reconnect
  <2>1. /\ requests' = <<>> /\ answers' = <<>> /\ rpc' = "receive" /\ cpc' = "ready" /\ expiry' = "none"
    BY <1>0, <1>3 DEF Reconnect, Ending
  <2> QED
    BY <2>1 DEF Asked, Settled
<1> DEFINE Onwards == \/ cpc' = cpc /\ completed' = completed /\ expiry' = expiry
                      \/ cpc' = "enter" /\ cpc = "remind" /\ expiry' = expiry
                      \/ cpc' = "wait" /\ cpc = "enter" /\ expiry' = "armed" /\ ~completed'
           Still == UNCHANGED <<established, requests, answers, rpc, sent, handled>>
<1>a. ASSUME Still, Onwards PROVE Asked'
  <2>1. \A i : Unread(i)' <=> Unread(i)
    BY <1>a DEF Unread
  <2>2. Settled' <=> Settled
    BY <1>a DEF Settled
  <2> QED
    BY <1>a, <2>1, <2>2 DEF Asked
<1>4. CASE StartReminderTimer \/ WaitTaskDone \/ SpuriousWakeup
  <2>1. Still
    BY <1>4 DEF StartReminderTimer, WaitTaskDone, SpuriousWakeup
  <2>2. Onwards
    BY <1>4, Zenon DEF StartReminderTimer, WaitTaskDone, SpuriousWakeup
  <2> HIDE DEF Still, Onwards
  <2> QED
    BY <1>a, <2>1, <2>2
<1>5. CASE WaitReturns
  BY <1>5 DEF WaitReturns, Asked, Settled, Unread
<1>6. CASE StopExpiryTimer
  BY <1>6 DEF StopExpiryTimer, Asked, Settled, Unread
<1>7. ASSUME NEW a, a.id = requests[1].id, requests # <<>>, Reply(a), a \in AnswerSet,
             UNCHANGED <<established, cpc, expiry, completed, rpc, handled, sent>>
      PROVE  Asked'
  <2>1. /\ DOMAIN answers' = 1 .. Len(answers) + 1
        /\ \A i \in DOMAIN answers : answers'[i] = answers[i]
        /\ answers'[Len(answers) + 1] = a
    BY <1>0, <1>7, AppendFacts DEF Reply
  <2>2. /\ requests' = Tail(requests) /\ DOMAIN requests' = 1 .. Len(requests) - 1
        /\ \A i \in DOMAIN requests' : i + 1 \in DOMAIN requests /\ requests'[i] = requests[i + 1]
    BY <1>0, <1>7, TailFacts DEF Reply
  <2> SUFFICES ASSUME InSession' PROVE Asked'
    BY DEF Asked
  <2>3. InSession /\ ~Settled
    BY <1>7 DEF Settled
  <2>4. /\ \A i \in DOMAIN requests : requests[i].id = sent
        /\ \A i \in DOMAIN answers : Unread(i) => answers[i].id = sent
        /\ expiry \notin {"callback", "notify"}
        /\ rpc = "done" => answers[1].id = sent /\ sent \in handled
        /\ cpc \notin {"ready", "stopExpiry"} /\ ~(cpc = "wait" /\ completed)
    BY <2>3 DEF Asked
  <2>5. a.id = sent
    BY <1>0, <1>7, <2>4
  <2>6. \A i \in DOMAIN requests' : requests'[i].id = sent'
    BY <1>7, <2>2, <2>4
  <2>7. \A i \in DOMAIN answers' : Unread(i)' => answers'[i].id = sent'
    BY <1>0, <1>7, <2>1, <2>4, <2>5 DEF Unread
  <2>8. rpc' = "done" => answers'[1].id = sent' /\ sent' \in handled'
    BY <1>0, <1>7, <2>1, <2>4 DEF Pipe
  <2> QED
    BY <1>7, <2>4, <2>6, <2>7, <2>8 DEF Asked
<1>8. CASE ServerReplies
  <2> DEFINE a == Answer(Head(requests).id, NoSegment, Head(requests).kind = "stop")
  <2>1. /\ requests # <<>> /\ Reply(a)
        /\ UNCHANGED <<established, cpc, expiry, completed, rpc, handled, sent>>
    BY <1>8 DEF ServerReplies
  <2>2. a \in AnswerSet /\ a.id = requests[1].id
    BY <1>0, <2>1, AnswersAreTyped DEF Answer
  <2> HIDE DEF a
  <2> QED
    BY <1>7, <2>1, <2>2
<1>9. CASE ServerSendsSegment \/ ServerFails
  <2>1. PICK seg \in {NoSegment, Head(requests).id} : Reply(Answer(Head(requests).id, seg, FALSE))
    BY <1>9 DEF ServerSendsSegment, ServerFails
  <2> DEFINE a == Answer(Head(requests).id, seg, FALSE)
  <2>2. /\ requests # <<>> /\ UNCHANGED <<established, cpc, expiry, completed, rpc, handled, sent>>
    BY <1>9 DEF ServerSendsSegment, ServerFails, Pipe
  <2>3. a \in AnswerSet /\ a.id = requests[1].id
    BY <1>0, <2>1, <2>2, AnswersAreTyped DEF Answer
  <2> QED
    BY <1>7, <2>1, <2>2, <2>3
<1>10. CASE CreateShmSegment
  BY <1>10 DEF CreateShmSegment, Asked, Settled, Unread
<1>11. CASE LoseRequest
  <2>1. /\ requests # <<>> /\ \A i \in DOMAIN requests' : \E j \in DOMAIN requests : requests'[i] = requests[j]
        /\ UNCHANGED <<established, cpc, expiry, completed, rpc, handled, sent, answers>>
    BY <1>0, <1>11, TailFacts DEF LoseRequest
  <2>2. ~Settled
    BY <2>1 DEF Settled
  <2> QED
    BY <2>1, <2>2 DEF Asked, Unread
<1>12. ASSUME answers # <<>>, answers' = Tail(answers), rpc' = "receive", rpc \in {"receive", "notify"},
              UNCHANGED <<established, cpc, expiry, completed, handled, sent, requests>>
       PROVE  Asked'
  <2>1. /\ DOMAIN answers' = 1 .. Len(answers) - 1
        /\ \A i \in DOMAIN answers' : i + 1 \in DOMAIN answers /\ answers'[i] = answers[i + 1]
    BY <1>0, <1>12, TailFacts
  <2>2. \A i \in DOMAIN answers' : Unread(i + 1)
    BY <1>0, <2>1 DEF Unread
  <2>3. Settled => Settled'
    <3>1. Settled => Len(answers) <= 1
      BY <1>0 DEF Settled
    <3> QED
      BY <1>0, <1>12, <2>1, <3>1 DEF Settled
  <2> QED
    BY <1>12, <2>1, <2>2, <2>3 DEF Asked
<1>13. CASE LoseAnswer
  BY <1>12, <1>13 DEF LoseAnswer
<1>14. CASE NotifyConsole
  <2>1. answers # <<>>
    BY <1>14 DEF NotifyConsole, Pipe
  <2> QED
    BY <1>12, <1>14, <2>1 DEF NotifyConsole
<1>15. CASE StopReminderTimer
  <2>1. ~Settled
    BY <1>0, <1>15 DEF StopReminderTimer, Settled
  <2> QED
    BY <1>15, <2>1 DEF StopReminderTimer, Asked, Unread
<1>16. CASE ParseTLVMessage
  <2>1. /\ rpc = "parse" /\ rpc' = "done" /\ answers # <<>>
        /\ handled' = handled \cup ({answers[1].id} \ {0})
        /\ UNCHANGED <<established, cpc, expiry, completed, answers, sent, requests>>
    BY <1>0, <1>16 DEF ParseTLVMessage, Pipe
  <2> SUFFICES ASSUME InSession' PROVE Asked'
    BY DEF Asked
  <2>2. InSession /\ ~Settled /\ Unread(1)
    BY <1>0, <2>1 DEF Settled, Unread
  <2>3. answers[1].id = sent /\ sent # 0
    BY <1>0, <2>1, <2>2 DEF Asked, Pipe
  <2> QED
    BY <2>1, <2>2, <2>3 DEF Asked, Unread
<1>17. CASE NotifyTaskDone
  <2>1. /\ rpc = "done" /\ rpc' = "notify" /\ answers # <<>>
        /\ UNCHANGED <<established, cpc, expiry, handled, answers, sent, requests>>
    BY <1>17 DEF NotifyTaskDone, Pipe
  <2> SUFFICES ASSUME InSession' PROVE Asked'
    BY DEF Asked
  <2>2. /\ InSession /\ answers[1].id = sent /\ sent \in handled
        /\ \A i \in DOMAIN requests : requests[i].id = sent
        /\ \A i \in DOMAIN answers : i > 1 => answers[i].id = sent
        /\ expiry \notin {"callback", "notify"}
    BY <2>1 DEF Asked, Unread
  <2>3. requests = <<>>
    BY <1>0, <2>1, <2>2 DEF Pipe
  <2>4. \A i \in DOMAIN answers : i = 1
    BY <1>0, <2>1, <2>2 DEF Pipe
  <2>5. Settled'
    BY <2>1, <2>3, <2>4 DEF Settled
  <2> QED
    BY <2>1, <2>2, <2>4, <2>5 DEF Asked, Unread
<1>18. CASE ExpiryStep
  <2>1. /\ UNCHANGED <<established, cpc, handled, answers, sent, requests, rpc>>
    BY <1>18 DEF ExpiryStep, ExpiryOnly, ExpiryTimeout, ExpiryStopped, ExpiryTaskDone, ExpiryNotify
  <2> SUFFICES ASSUME InSession' PROVE Asked'
    BY DEF Asked
  <2>2. InSession /\ expiry \notin {"callback", "notify"}
    BY <2>1 DEF Asked
  <2>3. expiry' = "exited" /\ completed' = completed
    BY <1>18, <2>2 DEF ExpiryStep, ExpiryOnly, ExpiryTimeout, ExpiryStopped, ExpiryTaskDone, ExpiryNotify
  <2> QED
    BY <2>1, <2>2, <2>3 DEF Asked, Unread, Settled
<1>19. CASE Terminated \/ UNCHANGED vars
  <2>1. Still
    BY <1>19 DEF Terminated, vars
  <2>2. Onwards
    BY <1>19, Zenon DEF Terminated, vars
  <2> HIDE DEF Still, Onwards
  <2> QED
    BY <1>a, <2>1, <2>2
<1> QED
  BY <1>1, <1>2, <1>3, <1>4, <1>5, <1>6, <1>8, <1>9, <1>10, <1>11, <1>13, <1>14, <1>15, <1>16,
     <1>17, <1>18, <1>19, Zenon DEF Next, ConsoleStep, ConsoleChoice, ServerStep, ReceiverStep

LEMMA SessionInit == Init => SessionInv
<1> SUFFICES ASSUME Init PROVE SessionInv
  OBVIOUS
<1>1. MaxRequests \in Nat /\ MaxReconnects \in Nat /\ established \in BOOLEAN /\ transport \in Transports
  BY SessionAssumption DEF SessionAssumption, Init
<1>2. TypeOK
  <2>1. /\ {established, cBlocked, completed, reminder, stopped} \subseteq BOOLEAN
    BY <1>1, Zenon DEF Init
  <2>2. /\ sent \in 0 .. MaxRequests /\ reconnects \in 0 .. MaxReconnects
    BY <1>1 DEF Init
  <2> QED
    BY <1>1, <2>1, <2>2, EmptySeq DEF Init, TypeOK
<1>3. Pipe /\ Ending /\ FillInUse /\ Asked
  BY DEF Init, Pipe, Ending, FillInUse, Asked, Settled
<1>4. SegmentsFollowAnswers
  BY DEF Init, SegmentsFollowAnswers
<1> QED
  BY <1>2, <1>3, <1>4 DEF SessionInv

LEMMA SessionStep == SessionInv /\ [Next]_vars => SessionInv'
<1> SUFFICES ASSUME SessionInv, [Next]_vars PROVE SessionInv'
  OBVIOUS
<1>1. TypeOK'
  BY TypeOfSession
<1> QED
  BY <1>1, PipeKept, EndingKept, FillingKept, SegmentsKept, AskedKept DEF SessionInv

\* In each part a step is one of the session, or leaves the session alone.
LEMMA PartsOfTheSession == /\ PartInit => Init
                           /\ [PartNext]_allVars => [Next]_vars
BY DEF PartInit, PartNext, allVars

--------------------------------------------------------------------------------
(* The session: the theorems. *)

\* What is under way between the console, the server and the receiver is in order.
THEOREM SessionIInv == PartSpec => []SessionInv
<1> QED
  BY SessionInit, SessionStep, PartsOfTheSession, PTL DEF PartSpec

\* waitTaskDone of an established viewer returns only when the answer to its own request
\* has been printed, for any number of requests and reconnects, over both transports.
THEOREM AnswersComeFirst == PartSpec => []AnswerBeforeReturn
<1>1. SessionInv => AnswerBeforeReturn
  BY DEF SessionInv, Asked, AnswerBeforeReturn
<1> QED
  BY <1>1, SessionIInv, PTL

\* Every segment of shared memory has somebody who will remove it, and a client is thrown
\* away only when nothing of its session is under way, whatever was lost or failed.
THEOREM SessionsLeaveNothing == PartSpec => []NothingIsLeftBehind
<1>1. SessionInv => NothingIsLeftBehind
  <2> SUFFICES ASSUME SessionInv, cpc = "reset"
               PROVE  /\ requests = <<>> /\ answers = <<>> /\ ~reminder
                      /\ spc = "receive" /\ rpc = "receive" /\ expiry = "none"
                      /\ segments \subseteq lost
    BY DEF SessionInv, NothingIsLeftBehind, QuietAtReset
  <2>1. /\ requests = <<>> /\ answers = <<>> /\ ~reminder /\ rpc = "receive" /\ expiry = "none"
    BY SessionTypes DEF SessionInv, Ending
  <2>2. spc = "receive"
    BY <2>1 DEF SessionInv, Pipe, TypeOK
  <2>3. segments \subseteq lost
    BY <2>1, <2>2, SegmentsInWords DEF SessionInv, Owned
  <2> QED
    BY <2>1, <2>2, <2>3
<1> QED
  BY <1>1, SessionIInv, PTL
--------------------------------------------------------------------------------
(* The service: its inductive invariant. *)

ViewStates == {"initial", "active", "established", "inactive", "idle"}
Opening    == {"made", "create", "createEnd"}
Serving    == {"loop", "wait", "after", "destroy", "destroying", "destroyEnd"}
RetryOrEnd == {"retry", "retryWait", "done"}
DaemonLabels ==
  Opening \cup Serving \cup RetryOrEnd
  \cup {"relaunch", "rollback", "rollbackEnd", "proceed", "go", "bindTemp", "stop", "catch"}
ConsoleLabels ==
  {"readIdle", "testIdle", "readTarget", "testTarget", "set", "notify", "countdown", "failed",
   "ready", "forward", "end"}

ServiceTypes ==
  /\ state \in ViewStates /\ dpc \in DaemonLabels
  /\ perm \in {"none", "made", "serving"} /\ temp \in {"none", "made", "serving"}
  /\ isOngoing \in BOOLEAN /\ inResetting \in BOOLEAN /\ dWaiting \in BOOLEAN
  /\ upc \in ConsoleLabels
  /\ uop \in {"startup", "reload", "shutdown"}
  /\ uTarget \in {"active", "established", "inactive"} /\ uOk \in BOOLEAN

\* Label, state of the state machine, and servers.
Servers ==
  /\ dpc \in Opening => state = "initial" /\ perm = "none" /\ temp = "none"
  /\ dpc = "relaunch" => \/ state = "initial" /\ perm = "none" /\ temp = "none"
                         \/ state \in {"established", "idle"}
  /\ dpc \in {"rollback", "rollbackEnd"} => state \in {"established", "idle"}
  /\ dpc \in {"proceed", "go", "bindTemp", "stop"} => state = "active"
  /\ dpc = "bindTemp" => perm = "serving"
  /\ dpc \in Serving => state = "established"
  /\ state = "established" => perm = "serving" /\ temp = "serving"
  /\ dpc = "catch" => state \in {"initial", "active"}
  /\ dpc \in {"retry", "retryWait"} => state = "idle"
  /\ dpc = "done" => state \in {"idle", "inactive"}

\* The calls of the console: what a call waits for, and where it has success to report.
Calls ==
  /\ uop = "startup" => uTarget \in {"active", "established"}
  /\ uop = "startup" /\ upc \in {"set", "notify"} => uTarget = "active"
  /\ uop = "reload" => upc \in {"set", "notify", "countdown"} /\ uTarget # "inactive"
  /\ uop = "shutdown" => upc \in {"set", "notify"} \/ uTarget = "inactive"
  /\ upc \in {"ready", "forward"} => uop = "startup"
  /\ upc = "countdown" => uop = "reload"
  /\ uOk => upc \in {"ready", "forward"} /\ uTarget = "established"

\* The console has asked for a session, and not yet for its end.
Going ==
  \/ uop = "startup" /\ (uTarget = "established" \/ upc = "notify")
  \/ uop = "reload" /\ uTarget = "established" /\ upc = "set"

\* The console has asked for a reset, or waits for the servers to be made.
Reopening ==
  \/ uop = "startup" /\ uTarget = "active" /\ upc # "notify"
  \/ uop = "reload" /\ (uTarget = "active" \/ upc # "set")

\* A session that the console has asked for ends by failing only.
GoingOn ==
  Going =>
    /\ isOngoing /\ ~inResetting
    /\ dpc \in {"proceed", "go", "bindTemp", "loop", "wait", "catch"} \cup RetryOrEnd
    /\ dpc = "catch" => state = "active"
    /\ dpc = "done" => state = "idle"
    /\ upc \in {"testIdle", "failed"} => dpc \in RetryOrEnd
    /\ upc = "testTarget" \/ uOk => dpc \in {"loop", "wait"}
    /\ upc \in {"ready", "forward", "set"} /\ dpc \notin {"loop", "wait"} => dpc \in RetryOrEnd

\* The last session is over, or about to end by the reset; the next one has not begun.
Resetting ==
  Reopening =>
    /\ isOngoing => /\ inResetting
                    /\ dpc \in {"loop", "wait", "after", "relaunch"} \cup RetryOrEnd
                    /\ dpc = "relaunch" => state # "initial"
                    /\ upc \notin {"failed", "ready", "forward", "set"}
    /\ ~isOngoing => dpc \in {"relaunch", "rollback", "rollbackEnd", "proceed", "catch"}
                             \cup Opening \cup RetryOrEnd
    /\ ~isOngoing /\ dpc = "catch" => state = "initial"
    /\ dpc = "done" => state = "idle"
    /\ upc = "testTarget" \/ (upc = "set" /\ uop = "startup") => dpc = "proceed" /\ ~isOngoing
    /\ upc = "set" /\ uop = "startup" => ~inResetting

ServiceInv == ServiceTypes /\ Servers /\ Calls /\ GoingOn /\ Resetting

--------------------------------------------------------------------------------
(* The service: the dispatch of an event, and the three layers. *)

\* What processEvent finds in the table of the viewer for each event.
LEMMA ViewDispatch ==
  ASSUME state \in ViewStates
  PROVE  /\ V!Runs("CreateServer", "createViewServer") <=> state = "initial"
         /\ state = "initial" => V!RowOf("CreateServer").target = "active"
         /\ V!Runs("GoViewing", "startViewing") <=> state = "active"
         /\ state = "active" => V!RowOf("GoViewing").target = "established"
         /\ V!Runs("DestroyServer", "destroyViewServer") <=> state = "established"
         /\ state = "established" => V!RowOf("DestroyServer").target = "active"
         /\ V!Runs("NoViewing", "stopViewing") <=> state = "active"
         /\ state = "active" => V!RowOf("NoViewing").target = "inactive"
         /\ V!Runs("Standby", "doToggle") <=> state \in {"initial", "active", "established"}
         /\ state \in {"initial", "active", "established"} => V!RowOf("Standby").target = "idle"
         /\ V!Runs("Relaunch", "doRollback") <=> state \in {"established", "inactive", "idle"}
         /\ state \in {"established", "inactive", "idle"} => V!RowOf("Relaunch").target = "initial"
         /\ V!RowOf("Relaunch") = V!F!NoRow <=> state \in {"initial", "active"}
  <1> DEFINE T == V!TransitionTable
             C(event) == V!F!Candidates(V!TransitionTable, V!F!ByEvent(V!TransitionTable, event),
                                        state, {})
  <1>1. ASSUME NEW e, C(e) = {} PROVE V!RowOf(e) = V!F!NoRow
    BY <1>1 DEF V!RowOf, V!F!RowFor, V!F!Execute
  <1>2. ASSUME NEW e, NEW n \in Nat, C(e) = {n} PROVE V!RowOf(e) = T[n]
    BY <1>2 DEF V!RowOf, V!F!RowFor, V!F!Execute
  <1>3. /\ C("CreateServer") = IF state = "initial" THEN {1} ELSE {}
        /\ C("GoViewing") = IF state = "active" THEN {2} ELSE {}
        /\ C("DestroyServer") = IF state = "established" THEN {3} ELSE {}
        /\ C("NoViewing") = IF state = "active" THEN {4} ELSE {}
    BY DEF V!F!Candidates, V!F!ByEvent, V!TransitionTable, V!Row, ViewStates
  <1>4. C("Standby") = CASE state = "initial" -> {5}
                         [] state = "active" -> {6}
                         [] state = "established" -> {7}
                         [] OTHER -> {}
    BY DEF V!F!Candidates, V!F!ByEvent, V!TransitionTable, V!Row, ViewStates
  <1>5. C("Relaunch") = CASE state = "established" -> {8}
                          [] state = "inactive" -> {9}
                          [] state = "idle" -> {10}
                          [] OTHER -> {}
    BY DEF V!F!Candidates, V!F!ByEvent, V!TransitionTable, V!Row, ViewStates
  <1> HIDE DEF C
  <1>6. /\ V!RowOf("CreateServer") = IF state = "initial" THEN T[1] ELSE V!F!NoRow
        /\ V!RowOf("GoViewing") = IF state = "active" THEN T[2] ELSE V!F!NoRow
        /\ V!RowOf("DestroyServer") = IF state = "established" THEN T[3] ELSE V!F!NoRow
        /\ V!RowOf("NoViewing") = IF state = "active" THEN T[4] ELSE V!F!NoRow
    BY <1>1, <1>2, <1>3
  <1>7. V!RowOf("Standby") = CASE state = "initial" -> T[5]
                               [] state = "active" -> T[6]
                               [] state = "established" -> T[7]
                               [] OTHER -> V!F!NoRow
    BY <1>1, <1>2, <1>4
  <1>8. V!RowOf("Relaunch") = CASE state = "established" -> T[8]
                                [] state = "inactive" -> T[9]
                                [] state = "idle" -> T[10]
                                [] OTHER -> V!F!NoRow
    BY <1>1, <1>2, <1>5
  <1>9. /\ T[1].action = "createViewServer"  /\ T[1].target = "active"
        /\ T[2].action = "startViewing"      /\ T[2].target = "established"
        /\ T[3].action = "destroyViewServer" /\ T[3].target = "active"
        /\ T[4].action = "stopViewing"       /\ T[4].target = "inactive"
        /\ \A n \in 5 .. 7 : T[n].action = "doToggle" /\ T[n].target = "idle"
        /\ \A n \in 8 .. 10 : T[n].action = "doRollback" /\ T[n].target = "initial"
        /\ V!F!NoRow.action = "none"
    BY DEF V!TransitionTable, V!Row, V!F!NoRow
  <1> HIDE DEF T
  <1>10. /\ V!Runs("CreateServer", "createViewServer") <=> state = "initial"
         /\ state = "initial" => V!RowOf("CreateServer").target = "active"
         /\ V!Runs("GoViewing", "startViewing") <=> state = "active"
         /\ state = "active" => V!RowOf("GoViewing").target = "established"
    BY <1>6, <1>9 DEF V!Runs
  <1>11. /\ V!Runs("DestroyServer", "destroyViewServer") <=> state = "established"
         /\ state = "established" => V!RowOf("DestroyServer").target = "active"
         /\ V!Runs("NoViewing", "stopViewing") <=> state = "active"
         /\ state = "active" => V!RowOf("NoViewing").target = "inactive"
    BY <1>6, <1>9 DEF V!Runs
  <1>12. /\ V!Runs("Standby", "doToggle") <=> state \in {"initial", "active", "established"}
         /\ state \in {"initial", "active", "established"} => V!RowOf("Standby").target = "idle"
    BY <1>7, <1>9 DEF V!Runs, ViewStates
  <1>13. /\ V!Runs("Relaunch", "doRollback") <=> state \in {"established", "inactive", "idle"}
         /\ state \in {"established", "inactive", "idle"} => V!RowOf("Relaunch").target = "initial"
         /\ V!RowOf("Relaunch") = V!F!NoRow <=> state \in {"initial", "active"}
    BY <1>8, <1>9 DEF V!Runs, ViewStates
  <1>14. QED
    BY <1>10, <1>11, <1>12, <1>13

\* The steps of the daemon that only move its label.
ServiceMoves ==
  \/ V!NothingToRollBack \/ V!CreateBegin \/ V!LoopTest \/ V!AfterLoop \/ V!DestroyServer
  \/ V!awaitNotification2Retry

\* The steps of the console.
ConsoleSteps ==
  \/ V!Call \/ V!onForwarding \/ V!Answer \/ V!WaitTaskEnds \/ V!PeerEnds \/ V!Reconnect
  \/ V!Shutdown

ReminderSteps == V!ReminderFires \/ V!feedbackWaitingState

\* What the other threads leave alone.
LEMMA OthersLeaveTheServers ==
  ASSUME V!SpuriousWakeup \/ ConsoleSteps \/ ReminderSteps \/ UNCHANGED viewVars
  PROVE  UNCHANGED <<state, perm, temp, dpc>>
  <1> USE DEF V!daemonVars, V!DaemonRests
  <1>1. CASE V!SpuriousWakeup \/ ReminderSteps \/ UNCHANGED viewVars
    BY <1>1, Zenon DEF V!SpuriousWakeup, ReminderSteps, V!ReminderFires, V!feedbackWaitingState,
                       viewVars
  <1>2. CASE V!Call
    BY <1>2, Zenon DEF V!Call, V!syncWaitOr, V!WaitEnds, V!syncNotifyVia, V!NotifyDaemon,
                       V!syncCountdownIf, V!CallFails
  <1>3. CASE ConsoleSteps /\ ~V!Call
    BY <1>3, Zenon DEF ConsoleSteps, V!onForwarding, V!Answer, V!WaitTaskEnds, V!PeerEnds,
                       V!Reconnect, V!Shutdown, V!SessionOnly
  <1> QED
    BY <1>1, <1>2, <1>3, Zenon

\* The steps of the daemon leave the console where it is.
LEMMA DaemonLeavesTheConsole ==
  ASSUME V!service PROVE UNCHANGED <<upc, uop, uTarget, uOk>>
BY Zenon
DEF V!service, V!NothingToRollBack, V!doRollback, V!RollbackDestroys, V!RollbackEnd,
    V!CreateBegin, V!CreateStopsReminder, V!createViewServer, V!SocketThrows, V!Throws,
    V!awaitNotification2Proceed, V!startViewing, V!StartViewingEnd, V!LoopTest, V!LoopWait,
    V!CondWait, V!AfterLoop, V!DestroyServer, V!DestroyStopsReminder, V!DestroyBegin,
    V!destroyViewServer, V!stopViewing, V!doToggle, V!RetryWait, V!awaitNotification2Retry,
    V!ConsoleRests, V!consoleVars

\* Label, state and servers, for every step.
LEMMA ServersKept ==
  ServiceTypes /\ Servers /\ [V!Next]_viewVars =>
    /\ state' \in ViewStates /\ dpc' \in DaemonLabels
    /\ perm' \in {"none", "made", "serving"} /\ temp' \in {"none", "made", "serving"}
    /\ Servers'
  <1> DEFINE Kept == /\ state' \in ViewStates /\ dpc' \in DaemonLabels
                     /\ perm' \in {"none", "made", "serving"}
                     /\ temp' \in {"none", "made", "serving"}
                     /\ Servers'
  <1> SUFFICES ASSUME ServiceTypes, Servers, [V!Next]_viewVars PROVE Kept
    OBVIOUS
  <1>a. /\ state \in ViewStates /\ dpc \in DaemonLabels
        /\ perm \in {"none", "made", "serving"} /\ temp \in {"none", "made", "serving"}
        /\ isOngoing \in BOOLEAN /\ inResetting \in BOOLEAN
    BY Zenon DEF ServiceTypes
  <1> USE DEF Servers, Opening, Serving, RetryOrEnd, DaemonLabels, ViewStates, V!EnterTarget
  <1>1. CASE V!doRollback \/ V!RollbackDestroys \/ V!RollbackEnd
    BY <1>a, <1>1, ViewDispatch DEF V!doRollback, V!RollbackDestroys, V!DestroyBegin, V!RollbackEnd
  <1>2. CASE ServiceMoves
    BY <1>a, <1>2, ViewDispatch
    DEF ServiceMoves, V!NothingToRollBack, V!CreateBegin, V!LoopTest, V!AfterLoop, V!DestroyServer,
        V!awaitNotification2Retry
  <1>3. CASE V!CreateStopsReminder \/ V!createViewServer \/ V!SocketThrows
    BY <1>a, <1>3, ViewDispatch
    DEF V!CreateStopsReminder, V!DestroyBegin, V!createViewServer, V!SocketThrows, V!Throws
  <1>4. CASE V!awaitNotification2Proceed \/ V!LoopWait
    BY <1>a, <1>4 DEF V!awaitNotification2Proceed, V!LoopWait, V!CondWait
  <1>5. CASE V!startViewing \/ V!StartViewingEnd
    BY <1>a, <1>5, ViewDispatch DEF V!startViewing, V!StartViewingEnd
  <1>6. CASE V!DestroyStopsReminder \/ V!destroyViewServer \/ V!stopViewing
    BY <1>a, <1>6, ViewDispatch
    DEF V!DestroyStopsReminder, V!DestroyBegin, V!destroyViewServer, V!stopViewing
  <1>7. CASE V!doToggle \/ V!RetryWait
    BY <1>a, <1>7, ViewDispatch DEF V!doToggle, V!RetryWait
  <1>8. CASE UNCHANGED <<state, perm, temp, dpc>>
    BY <1>a, <1>8
  <1> QED
    BY <1>1, <1>2, <1>3, <1>4, <1>5, <1>6, <1>7, <1>8, OthersLeaveTheServers, Zenon
    DEF V!Next, V!service, ServiceMoves, ConsoleSteps, ReminderSteps

\* Flags and calls, for every step of the console.
ConsoleTypes ==
  /\ isOngoing \in BOOLEAN /\ inResetting \in BOOLEAN /\ dWaiting \in BOOLEAN
  /\ upc \in ConsoleLabels /\ uop \in {"startup", "reload", "shutdown"}
  /\ uTarget \in {"active", "established", "inactive"} /\ uOk \in BOOLEAN

LEMMA ConsoleKept ==
  ServiceInv /\ ConsoleSteps => ConsoleTypes' /\ Calls' /\ GoingOn' /\ Resetting'
  <1> DEFINE Kept == ConsoleTypes' /\ Calls' /\ GoingOn' /\ Resetting'
  <1> SUFFICES ASSUME ServiceInv, ConsoleSteps PROVE Kept
    OBVIOUS
  <1>a. /\ state \in ViewStates /\ dpc \in DaemonLabels /\ upc \in ConsoleLabels
        /\ isOngoing \in BOOLEAN /\ inResetting \in BOOLEAN /\ dWaiting \in BOOLEAN
        /\ uop \in {"startup", "reload", "shutdown"}
        /\ uTarget \in {"active", "established", "inactive"} /\ uOk \in BOOLEAN
    BY Zenon DEF ServiceInv, ServiceTypes
  <1>b. Servers /\ Calls /\ GoingOn /\ Resetting
    BY Zenon DEF ServiceInv
  <1>c. state' = state /\ dpc' = dpc
    BY OthersLeaveTheServers
  <1> USE DEF ConsoleTypes, ConsoleLabels, Calls, GoingOn, Resetting, Going, Reopening, Servers,
              Opening, Serving, RetryOrEnd, DaemonLabels, ViewStates
  <1>1. CASE V!syncWaitOr
    BY <1>a, <1>b, <1>c, <1>1 DEF V!syncWaitOr, V!FsmHeld
  <1>2. CASE V!WaitEnds
    BY <1>a, <1>b, <1>c, <1>2 DEF V!WaitEnds
  <1>3. CASE V!syncNotifyVia
    BY <1>a, <1>b, <1>c, <1>3 DEF V!syncNotifyVia, V!MtxHeld
  <1>4. CASE V!NotifyDaemon
    BY <1>a, <1>b, <1>c, <1>4 DEF V!NotifyDaemon
  <1>5. CASE V!syncCountdownIf
    BY <1>a, <1>b, <1>c, <1>5 DEF V!syncCountdownIf
  <1>6. CASE V!CallFails
    BY <1>a, <1>b, <1>c, <1>6 DEF V!CallFails
  <1>7. CASE V!onForwarding \/ V!Answer \/ V!WaitTaskEnds \/ V!PeerEnds
    BY <1>a, <1>b, <1>c, <1>7 DEF V!onForwarding, V!Answer, V!WaitTaskEnds, V!PeerEnds, V!SessionOnly
  <1>8. CASE V!Reconnect \/ V!Shutdown
    <2>1. upc = "ready" /\ upc' = "set" /\ uop' \in {"reload", "shutdown"}
      BY <1>8 DEF V!Reconnect, V!Shutdown
    <2>2. uOk' = FALSE /\ UNCHANGED <<uTarget, isOngoing, inResetting, dWaiting>>
      BY <1>8, Zenon DEF V!Reconnect, V!Shutdown, V!SessionOnly
    <2> QED
      BY <1>a, <1>b, <1>c, <2>1, <2>2
  <1> QED
    BY <1>1, <1>2, <1>3, <1>4, <1>5, <1>6, <1>7, <1>8, Zenon DEF ConsoleSteps, V!Call

\* Flags and calls, for every step of the daemon.
LEMMA HandshakeKept ==
  ServiceInv /\ V!service => ConsoleTypes' /\ Calls' /\ GoingOn' /\ Resetting'
  <1> DEFINE Kept == ConsoleTypes' /\ Calls' /\ GoingOn' /\ Resetting'
  <1> SUFFICES ASSUME ServiceInv, V!service PROVE Kept
    OBVIOUS
  <1>a. /\ state \in ViewStates /\ dpc \in DaemonLabels /\ upc \in ConsoleLabels
        /\ isOngoing \in BOOLEAN /\ inResetting \in BOOLEAN /\ dWaiting \in BOOLEAN
        /\ uop \in {"startup", "reload", "shutdown"}
        /\ uTarget \in {"active", "established", "inactive"} /\ uOk \in BOOLEAN
    BY Zenon DEF ServiceInv, ServiceTypes
  <1>b. Servers /\ Calls /\ GoingOn /\ Resetting
    BY Zenon DEF ServiceInv
  <1>c. UNCHANGED <<upc, uop, uTarget, uOk>>
    BY DaemonLeavesTheConsole
  <1> USE DEF ConsoleTypes, Calls, GoingOn, Resetting, Going, Reopening, Servers,
              Opening, Serving, RetryOrEnd, DaemonLabels, ViewStates, V!EnterTarget
  <1>1. CASE V!doRollback \/ V!RollbackDestroys
    <2>1. CASE V!doRollback
      BY <1>a, <1>b, <1>c, <2>1 DEF V!doRollback
    <2>2. CASE V!RollbackDestroys
      BY <1>a, <1>b, <1>c, <2>2 DEF V!RollbackDestroys, V!DestroyBegin
    <2> QED
      BY <1>1, <2>1, <2>2
  <1>2. CASE V!RollbackEnd
    BY <1>a, <1>b, <1>c, <1>2, ViewDispatch DEF V!RollbackEnd
  <1>3. CASE ServiceMoves
    BY <1>a, <1>b, <1>c, <1>3, ViewDispatch
    DEF ServiceMoves, V!NothingToRollBack, V!CreateBegin, V!LoopTest, V!AfterLoop, V!DestroyServer,
        V!awaitNotification2Retry
  <1>4. CASE V!CreateStopsReminder \/ V!createViewServer
    BY <1>a, <1>b, <1>c, <1>4, ViewDispatch
    DEF V!CreateStopsReminder, V!DestroyBegin, V!createViewServer
  <1>5. CASE V!SocketThrows
    BY <1>a, <1>b, <1>c, <1>5 DEF V!SocketThrows, V!Throws
  <1>6. CASE V!awaitNotification2Proceed \/ V!LoopWait
    <2>1. UNCHANGED <<state, isOngoing, inResetting>> /\ dWaiting' \in BOOLEAN
      BY <1>a, <1>6 DEF V!awaitNotification2Proceed, V!LoopWait, V!CondWait
    <2>2. \/ dpc' = dpc
          \/ dpc = "proceed" /\ isOngoing /\ dpc' = "go"
          \/ dpc = "wait" /\ inResetting /\ dpc' = "after"
          \/ dpc = "wait" /\ ~isOngoing /\ ~inResetting /\ dpc' = "loop"
      BY <1>a, <1>b, <1>6 DEF V!awaitNotification2Proceed, V!LoopWait, V!CondWait
    <2> QED
      BY <1>a, <1>b, <1>c, <2>1, <2>2
  <1>7. CASE V!startViewing \/ V!StartViewingEnd
    BY <1>a, <1>b, <1>c, <1>7, ViewDispatch DEF V!startViewing, V!StartViewingEnd
  <1>8. CASE V!DestroyStopsReminder \/ V!destroyViewServer \/ V!stopViewing
    BY <1>a, <1>b, <1>c, <1>8, ViewDispatch
    DEF V!DestroyStopsReminder, V!DestroyBegin, V!destroyViewServer, V!stopViewing
  <1>9. CASE V!doToggle \/ V!RetryWait
    <2>1. UNCHANGED <<isOngoing, inResetting>> /\ dWaiting' \in BOOLEAN
      BY <1>a, <1>9, Zenon DEF V!doToggle, V!RetryWait
    <2>2. \/ dpc = "catch" /\ dpc' = "retry" /\ state' = "idle"
          \/ dpc = "retry" /\ dpc' = "retryWait" /\ state' = state
      BY <1>a, <1>b, <1>9, ViewDispatch DEF V!doToggle, V!RetryWait
    <2> QED
      BY <1>a, <1>b, <1>c, <2>1, <2>2
  <1> QED
    BY <1>1, <1>2, <1>3, <1>4, <1>5, <1>6, <1>7, <1>8, <1>9, Zenon DEF V!service, ServiceMoves

LEMMA ServiceInit == V!Init => ServiceInv
BY DEF V!Init, ServiceInv, ServiceTypes, Servers, Calls, GoingOn, Resetting, Going, Reopening,
       Opening, Serving, RetryOrEnd, DaemonLabels, ConsoleLabels, ViewStates

LEMMA ServiceStep == ServiceInv /\ [V!Next]_viewVars => ServiceInv'
  <1> SUFFICES ASSUME ServiceInv, [V!Next]_viewVars PROVE ServiceInv'
    OBVIOUS
  <1>1. /\ state' \in ViewStates /\ dpc' \in DaemonLabels
        /\ perm' \in {"none", "made", "serving"} /\ temp' \in {"none", "made", "serving"}
        /\ Servers'
    BY ServersKept DEF ServiceInv
  <1> SUFFICES ConsoleTypes' /\ Calls' /\ GoingOn' /\ Resetting'
    BY <1>1 DEF ServiceInv, ServiceTypes, ConsoleTypes
  <1>2. CASE V!service \/ ConsoleSteps
    BY <1>2, HandshakeKept, ConsoleKept
  <1>3. CASE V!SpuriousWakeup \/ ReminderSteps \/ UNCHANGED viewVars
    <2>1. UNCHANGED <<state, dpc, isOngoing, inResetting, upc, uop, uTarget, uOk>>
      BY <1>3, Zenon
      DEF V!SpuriousWakeup, ReminderSteps, V!ReminderFires, V!feedbackWaitingState, viewVars,
          V!DaemonRests, V!ConsoleRests, V!daemonVars, V!consoleVars
    <2>2. dWaiting' = FALSE \/ dWaiting' = dWaiting
      BY <1>3, Zenon
      DEF V!SpuriousWakeup, ReminderSteps, V!ReminderFires, V!feedbackWaitingState, viewVars
    <2>3. ConsoleTypes'
      BY <2>1, <2>2 DEF ServiceInv, ServiceTypes, ConsoleTypes
    <2>4. Calls' /\ GoingOn' /\ Resetting'
      BY <2>1 DEF ServiceInv, Calls, GoingOn, Resetting, Going, Reopening
    <2> QED
      BY <2>3, <2>4
  <1> QED
    BY <1>2, <1>3, Zenon DEF V!Next, ConsoleSteps, ReminderSteps

\* In each part a step is one of the service, or leaves the service alone.
LEMMA PartsOfTheService == /\ PartInit => V!Init
                           /\ [PartNext]_allVars => [V!Next]_viewVars
BY DEF PartInit, PartNext, allVars

--------------------------------------------------------------------------------
(* The service: the theorems. *)

\* The daemon, its flags and the call the console is in agree at every step.
THEOREM ServiceIInv == PartSpec => []ServiceInv
<1> QED
  BY ServiceInit, ServiceStep, PartsOfTheService, PTL DEF PartSpec

\* The assertions of service() hold, whoever reads "established" finds both servers at
\* work, and a startup that reports success leaves the viewer so until the next call: for
\* any number of restarts and requests, whatever sockets fail to be made or bound.
THEOREM StartupsTellTheTruth == PartSpec => []EstablishedMeansServing
<1>1. ServiceInv => EstablishedMeansServing
  BY DEF ServiceInv, ServiceTypes, Servers, Calls, GoingOn, Going, EstablishedMeansServing,
         V!EstablishedMeansServing, V!FsmHeld, Opening, Serving
<1> QED
  BY <1>1, ServiceIInv, PTL
=================================================================================
