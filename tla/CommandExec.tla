------------------------------ MODULE CommandExec ------------------------------
(***************************************************************************)
(* application::command::Command::doExecute with arguments (command.cpp)   *)
(* and the task scheduler it fills and empties (schedule.cpp).             *)
(*                                                                         *)
(* Two pool workers run frontEndHandler, which parses the command line and *)
(* selects tasks under parserMtx, and backEndHandler, which waits for      *)
(* isParsed and dispatches what is selected.  A command line is abstracted *)
(* to the sequence of the items precheckSchedule visits, in its order:     *)
(* native categories, then the sub-command, then categories of the         *)
(* sub-command with their choices.                                         *)
(*                                                                         *)
(* cond.wait tests its predicate and blocks in two steps here: both happen *)
(* under parserMtx, but the handler of frontEndHandler stores isParsed and *)
(* notifies without it.                                                    *)
(***************************************************************************)
EXTENDS Naturals, Sequences, FiniteSets, Functions

CONSTANTS
  CommandLines,   \* the command lines that may be given
  MaxCalls,       \* bound: calls of doExecute in a behaviour
  TasksMayFail    \* a dispatched task may throw

(***************************************************************************)
(* Items of a command line.  An invalid choice is modelled as "invalid".   *)
(***************************************************************************)
Native(cat)            == [kind |-> "native", name |-> cat, choices |-> <<>>]
SubCommand(name, mode) == [kind |-> "sub", name |-> name, choices |-> <<mode>>]
Choices(cat, choices)  == [kind |-> "category", name |-> cat, choices |-> choices]
Malformed              == [kind |-> "malformed", name |-> "", choices |-> <<>>]

Items == [kind : {"native", "sub", "category", "malformed"}, name : STRING, choices : Seq(STRING)]

\* A line that cannot be parsed has no other item, as parseArgs throws before the first
\* is visited; a sub-command takes the rest of the line, so there is no second one.
ASSUME LinesAssumption ==
  /\ MaxCalls \in Nat
  /\ \A line \in CommandLines :
       /\ line \in Seq(Items)
       /\ \A i \in DOMAIN line :
            /\ line[i].kind = "malformed" => Len(line) = 1
            /\ line[i].kind = "sub" => \A j \in DOMAIN line : line[j].kind = "sub" => i = j

VARIABLES
  argv,           \* the command line of this call
  todo,           \* what frontEndHandler has still to visit
  parserMtx,      \* its holder, or "none"
  isParsed,       \* atomic flag
  isFaulty,       \* atomic flag
  blocked,        \* backEndHandler is blocked on parserCond
  fpc, bpc, mpc,  \* where the front end, the back end and doExecute are
  natives,        \* scheduleDispatcher.nativeCategories
  extraHelping,   \* scheduleDispatcher.extraHelping
  choices,        \* the choices set in the sub-commands: <<category, choice>>
  ran,            \* history: what the back end has run in this call
  failures,       \* history: the handlers that caught an exception
  calls           \* number of calls of doExecute so far

selection == <<natives, extraHelping, choices>>
vars == <<argv, todo, parserMtx, isParsed, isFaulty, blocked, fpc, bpc, mpc,
          natives, extraHelping, choices, ran, failures, calls>>

TypeOK ==
  /\ argv \in CommandLines \cup {<<>>}
  /\ todo \in Seq({argv[i] : i \in DOMAIN argv})
  /\ parserMtx \in {"none", "front", "back"}
  /\ {isParsed, isFaulty, blocked, extraHelping} \subseteq BOOLEAN
  /\ fpc \in {"lock", "visit", "store", "notify", "fault", "end"}
  /\ bpc \in {"lock", "test", "block", "woken", "select", "dispatch", "end"}
  /\ mpc \in {"idle", "running", "returned"}
  /\ failures \subseteq {"front", "back"}
  /\ calls \in 0 .. MaxCalls

anySelected == natives # {} \/ extraHelping \/ choices # {}

clearSelected ==
  /\ natives' = {}
  /\ extraHelping' = FALSE
  /\ choices' = {}

Init ==
  /\ argv = <<>> /\ todo = <<>>
  /\ parserMtx = "none"
  /\ isParsed = FALSE /\ isFaulty = FALSE /\ blocked = FALSE
  /\ fpc = "end" /\ bpc = "end" /\ mpc = "idle"
  /\ natives = {} /\ extraHelping = FALSE /\ choices = {}
  /\ ran = {} /\ failures = {}
  /\ calls = 0

--------------------------------------------------------------------------------
(* doExecute: reset the flags, run both handlers on a pool of two, join. *)

DoExecute(line) ==
  /\ mpc \in {"idle", "returned"}
  /\ calls < MaxCalls
  /\ argv' = line /\ todo' = line
  /\ isFaulty' = FALSE /\ isParsed' = FALSE
  /\ fpc' = "lock" /\ bpc' = "lock" /\ mpc' = "running"
  /\ ran' = {} /\ failures' = {}
  /\ calls' = calls + 1
  /\ UNCHANGED <<parserMtx, blocked, selection>>

Join ==
  /\ mpc = "running"
  /\ fpc = "end" /\ bpc = "end"
  /\ mpc' = "returned"
  /\ UNCHANGED <<argv, todo, parserMtx, isParsed, isFaulty, blocked, fpc, bpc, selection,
                 ran, failures, calls>>

--------------------------------------------------------------------------------
(* frontEndHandler *)

FrontLock ==
  /\ fpc = "lock" /\ parserMtx = "none"
  /\ parserMtx' = "front"
  /\ fpc' = "visit"
  /\ UNCHANGED <<argv, todo, isParsed, isFaulty, blocked, bpc, mpc, selection, ran,
                 failures, calls>>

\* An exception leaves the scope of parserLock before the handler runs.
FrontThrows ==
  /\ parserMtx' = "none"
  /\ fpc' = "store"
  /\ failures' = failures \cup {"front"}
  /\ UNCHANGED <<argv, todo, isParsed, isFaulty, blocked, bpc, mpc, ran, calls>>

FrontNext ==
  /\ todo' = Tail(todo)
  /\ UNCHANGED <<argv, parserMtx, isParsed, isFaulty, blocked, fpc, bpc, mpc, ran,
                 failures, calls>>

Visiting(kind) == fpc = "visit" /\ todo # <<>> /\ Head(todo).kind = kind

\* parseArgs throws: nothing has been selected yet.
ParseFails ==
  /\ Visiting("malformed")
  /\ FrontThrows
  /\ UNCHANGED selection

MutExcessArgs ==   \* checkExcessArgs throws without clearing
  /\ fpc = "visit" /\ todo # <<>> /\ Head(todo).kind # "malformed"
  /\ anySelected
  /\ UNCHANGED selection
  /\ FrontThrows

\* checkExcessArgs, before each item: clear and throw.
ExcessArgs ==
  /\ fpc = "visit" /\ todo # <<>> /\ Head(todo).kind # "malformed"
  /\ anySelected
  /\ clearSelected
  /\ FrontThrows

SelectNative ==
  /\ Visiting("native") /\ ~anySelected
  /\ natives' = natives \cup {Head(todo).name}
  /\ UNCHANGED <<extraHelping, choices>>
  /\ FrontNext

\* A sub-command without arguments, or with help among them, is to be explained.
SelectSub ==
  /\ Visiting("sub") /\ ~anySelected
  /\ extraHelping' = (Head(todo).choices[1] \in {"notAssigned", "help"})
  /\ UNCHANGED <<natives, choices>>
  /\ FrontNext

\* setChoice for each choice of a category: an invalid one resets the category.
SelectChoices ==
  /\ Visiting("category") /\ ~anySelected
  /\ LET cat == Head(todo).name
         given == Range(Head(todo).choices)
     IN IF "invalid" \in given
          THEN /\ choices' = {s \in choices : s[1] # cat}
               /\ FrontThrows
          ELSE /\ choices' = choices \cup {<<cat, c>> : c \in given}
               /\ FrontNext
  /\ UNCHANGED <<natives, extraHelping>>

\* The end of frontEndHandler without an exception: store under the mutex.
FrontPublish ==
  /\ fpc = "visit" /\ todo = <<>>
  /\ isParsed' = TRUE
  /\ parserMtx' = "none"
  /\ fpc' = "notify"
  /\ UNCHANGED <<argv, todo, isFaulty, blocked, bpc, mpc, selection, ran, failures, calls>>

\* The handler of frontEndHandler: store without the mutex, notify, then isFaulty.
FrontStore ==
  /\ fpc = "store"
  /\ isParsed' = TRUE
  /\ fpc' = "notify"
  /\ UNCHANGED <<argv, todo, parserMtx, isFaulty, blocked, bpc, mpc, selection, ran,
                 failures, calls>>

MutFrontNotify ==   \* no notification
  /\ fpc = "notify"
  /\ fpc' = IF "front" \in failures THEN "fault" ELSE "end"
  /\ UNCHANGED <<argv, todo, parserMtx, isParsed, isFaulty, blocked, bpc, mpc, selection,
                 ran, failures, calls>>

FrontNotify ==
  /\ fpc = "notify"
  /\ blocked' = FALSE
  /\ fpc' = IF "front" \in failures THEN "fault" ELSE "end"
  /\ UNCHANGED <<argv, todo, parserMtx, isParsed, isFaulty, bpc, mpc, selection, ran,
                 failures, calls>>

FrontFault ==
  /\ fpc = "fault"
  /\ isFaulty' = TRUE
  /\ fpc' = "end"
  /\ UNCHANGED <<argv, todo, parserMtx, isParsed, blocked, bpc, mpc, selection, ran,
                 failures, calls>>

FrontStep ==
  \/ FrontLock \/ ParseFails \/ ExcessArgs \/ SelectNative \/ SelectSub \/ SelectChoices
  \/ FrontPublish \/ FrontStore \/ FrontNotify \/ FrontFault

--------------------------------------------------------------------------------
(* backEndHandler *)

BackGoto(here, next) ==
  /\ bpc = here
  /\ bpc' = next
  /\ UNCHANGED <<argv, todo, isParsed, isFaulty, fpc, mpc, selection, ran, failures, calls>>

BackLock ==
  /\ BackGoto("lock", "test")
  /\ parserMtx = "none"
  /\ parserMtx' = "back"
  /\ UNCHANGED blocked

\* parserCond.wait: the predicate under the mutex ...
BackTest ==
  /\ IF isParsed
       THEN BackGoto("test", "select") /\ parserMtx' = "none"
       ELSE BackGoto("test", "block") /\ UNCHANGED parserMtx
  /\ UNCHANGED blocked

\* ... then unlock and block at once ...
BackBlock ==
  /\ BackGoto("block", "woken")
  /\ parserMtx' = "none"
  /\ blocked' = TRUE

\* ... and, once woken, lock and test again.
BackWake ==
  /\ BackGoto("woken", "test")
  /\ ~blocked
  /\ parserMtx = "none"
  /\ parserMtx' = "back"
  /\ UNCHANGED blocked

SpuriousWakeup ==
  /\ blocked
  /\ blocked' = FALSE
  /\ UNCHANGED <<argv, todo, parserMtx, isParsed, isFaulty, fpc, bpc, mpc, selection, ran,
                 failures, calls>>

BackSelect ==
  /\ BackGoto("select", IF anySelected THEN "dispatch" ELSE "end")
  /\ UNCHANGED <<parserMtx, blocked>>

\* dispatchTasks runs the native categories, and the choices of the sub-commands
\* or the help of the one in use.
Dispatched ==
  {<<"native", n>> : n \in natives}
    \cup (IF extraHelping
            THEN {<<"help", argv[i].name>> : i \in {j \in DOMAIN argv : argv[j].kind = "sub"}}
            ELSE choices)

DispatchTasks ==
  /\ bpc = "dispatch"
  /\ ran' = Dispatched
  /\ clearSelected
  /\ bpc' = "end"
  /\ UNCHANGED <<argv, todo, parserMtx, isParsed, isFaulty, blocked, fpc, mpc, failures,
                 calls>>

\* A native category throws: its handler clears the selection and records it.
DispatchThrows ==
  /\ TasksMayFail
  /\ bpc = "dispatch" /\ natives # {}
  /\ ran' = Dispatched
  /\ clearSelected
  /\ isFaulty' = TRUE
  /\ failures' = failures \cup {"back"}
  /\ bpc' = "end"
  /\ UNCHANGED <<argv, todo, parserMtx, isParsed, blocked, fpc, mpc, calls>>

BackStep ==
  \/ BackLock \/ BackTest \/ BackBlock \/ BackWake \/ BackSelect
  \/ DispatchTasks \/ DispatchThrows

Terminated == mpc = "returned" /\ calls = MaxCalls /\ UNCHANGED vars

Next ==
  \/ \E line \in CommandLines : DoExecute(line)
  \/ FrontStep \/ BackStep \/ SpuriousWakeup \/ Join \/ Terminated

Spec == Init /\ [][Next]_vars

(***************************************************************************)
(* The two workers and the caller are scheduled, and the front end gets    *)
(* parserMtx in the end even if the back end wakes up again and again.     *)
(***************************************************************************)
FairSpec ==
  /\ Spec
  /\ WF_vars(FrontStep) /\ SF_vars(FrontLock)
  /\ WF_vars(BackStep)
  /\ WF_vars(Join)

--------------------------------------------------------------------------------
Requested ==   \* what a command line without errors asks for
  LET items(kind) == {argv[i] : i \in {j \in DOMAIN argv : argv[j].kind = kind}}
      helping == {s \in items("sub") : s.choices[1] \in {"notAssigned", "help"}}
  IN {<<"native", n.name>> : n \in items("native")}
       \cup {<<"help", s.name>> : s \in helping}
       \cup UNION {{<<c.name, x>> : x \in Range(c.choices)} : c \in items("category")}

\* When doExecute returns the back end has run what the command line asks for, all of it
\* or, when the front end refused the line, nothing: no half-made selection is dispatched
\* and none is left for the next call.  The result is faulty exactly when a handler caught
\* an exception, although the front end records it after it has let the back end go.
RunsWhatWasAsked ==
  mpc = "returned" => /\ ran = IF "front" \in failures THEN {} ELSE Requested
                      /\ ~anySelected
                      /\ isFaulty <=> failures # {}

\* doExecute returns, unless the front end has refused the command line: the wake-up
\* of the back end is sent under parserMtx, or comes after the store that it tests.
AcceptedLinesReturn == mpc = "running" ~> mpc = "returned" \/ "front" \in failures

\* "The synchronization condition for foreground and background. Use with parserMtx.":
\* the back end is woken and doExecute returns, whatever the command line.
ExecuteReturns == mpc = "running" ~> mpc = "returned"
================================================================================
