-------------------------------- MODULE Console --------------------------------
(***************************************************************************)
(* application::console::Console (console.cpp) and the sessions that       *)
(* command.cpp runs with it: enterConsoleMode, whose lines are typed and   *)
(* whose client is a TCPSocket, and executeInConsole, whose lines come     *)
(* from the command line and whose client is a UDPSocket.                  *)
(*                                                                         *)
(* A line is an option and its argument.  batch runs the lines of a file,  *)
(* which may be batch again; what an option returns or throws goes up      *)
(* through all of them.  What becomes of a request is ViewSession's, and   *)
(* how the viewer restarts is ViewService's matter: here a reconnect may   *)
(* leave a client that is not connected.                                   *)
(***************************************************************************)
EXTENDS Naturals, SequencesExt

CONSTANTS
  Files,         \* files with lines to run
  Scripts,       \* the sequences of lines that each file may hold
  InputLines,    \* what may be typed
  MaxTyped       \* bound: lines typed in a session

VARIABLES
  client,        \* what the session talks through: [transport, connected]
  content,       \* the lines of each file
  session,       \* where the session is
  batches,       \* the lines still to run of each batch, the innermost first
  current,       \* the line being run
  typed,         \* the lines typed so far
  ran            \* history: the lines run since the last one was typed

consoleVars == <<client, content, session, batches, current, typed, ran>>

Line(option, arg) == [option |-> option, arg |-> arg]
Blank == Line("", "")

\* setDefaultOptions, and what registerOnConsole adds: its own options and the viewer's.
LocalOptions == {"usage", "trace", "clean"}
Requests     == {"depend", "execute", "journal", "monitor", "profile"}
regTable     == LocalOptions \cup {"quit", "batch"} \cup {"refresh", "reconnect"} \cup Requests

Init ==
  /\ client \in [transport : {"tcp", "udp"}, connected : {TRUE}]
  /\ content \in [Files -> UNION Range(Scripts)]
  /\ \A f \in Files : content[f] \in Scripts[f]
  /\ session = "read"
  /\ batches = <<>> /\ current = Blank /\ typed = <<>> /\ ran = <<>>

--------------------------------------------------------------------------------
\* readLine, or the next of the inputs of executeInConsole.
readLine ==
  /\ session = "read" /\ Len(typed) < MaxTyped
  /\ \E l \in InputLines : current' = l /\ typed' = Append(typed, l)
  /\ ran' = <<>>
  /\ session' = "execute"
  /\ UNCHANGED <<client, content, batches>>

\* The end of the input, which is as good as quit.
EndOfInput ==
  /\ session = "read"
  /\ session' = "leave"
  /\ UNCHANGED <<client, content, batches, current, typed, ran>>

MutReturned(code) ==   \* only the innermost batch is left
  /\ batches' = IF code = "success" \/ batches = <<>> THEN batches ELSE Tail(batches)
  /\ session' = CASE code = "quit" /\ batches' = <<>> -> "leave"
                  [] batches' # <<>> -> "batch"
                  [] OTHER -> "read"

\* An option has returned.  Every batch around it returns what is no success, and the
\* session goes on unless it is quit.
Returned(code) ==
  /\ batches' = IF code = "success" THEN batches ELSE <<>>
  /\ session' = CASE code = "quit" -> "leave"
                  [] code = "success" /\ batches # <<>> -> "batch"
                  [] OTHER -> "read"

\* An exception goes through all batches, and the loop of the session logs it.
Thrown == batches' = <<>> /\ session' = "read"

\* A TCPSocket that is not connected breaks the pipe: nobody ignores the signal.
Killed == session' = "killed" /\ UNCHANGED batches

Runs(options) == session = "execute" /\ current.option \in options

Ran == ran' = Append(ran, current) /\ UNCHANGED <<content, current, typed>>

Unregistered ==
  /\ session = "execute" /\ current # Blank /\ current.option \notin regTable
  /\ Thrown /\ Ran /\ UNCHANGED client

ReturnsAtOnce ==
  /\ Runs(LocalOptions \cup {"", "refresh"})
  /\ Returned("success") /\ Ran /\ UNCHANGED client

Quit == Runs({"quit"}) /\ Returned("quit") /\ Ran /\ UNCHANGED client

\* forwardByClient
Forward ==
  /\ Runs(Requests)
  /\ IF client.connected THEN Returned("success") ELSE Killed
  /\ Ran /\ UNCHANGED client

\* The old client is asked to leave, the viewer restarts, and a new client connects or
\* throws: processConsoleInputs makes an error of that.
Reconnect ==
  /\ Runs({"reconnect"})
  /\ \/ ~client.connected /\ Killed /\ UNCHANGED client
     \/ client.connected /\ Returned("success") /\ UNCHANGED client
     \/ /\ client.connected /\ client.transport = "tcp"
        /\ client' = [client EXCEPT !.connected = FALSE]
        /\ Returned("error")
  /\ Ran

\* A file within itself is run until the stack is full.
Endless == Len(batches) > Cardinality(Files)

\* batch: fileExecutor opens the file ...
Batch ==
  /\ Runs({"batch"}) /\ ~Endless
  /\ IF current.arg \in Files
       THEN batches' = <<content[current.arg]>> \o batches /\ session' = "batch"
       ELSE Thrown
  /\ Ran /\ UNCHANGED client

Overflow == Endless /\ session = "execute" /\ session' = "overflow"
            /\ UNCHANGED <<client, content, batches, current, typed, ran>>

Skipped(l) == l.option \in {"", "#"}

\* ... and takes its next line, or returns.
fileExecutor ==
  /\ session = "batch"
  /\ LET rest == Head(batches)
     IN IF rest = <<>>
          THEN /\ batches' = Tail(batches)
               /\ session' = IF Tail(batches) = <<>> THEN "read" ELSE "batch"
               /\ UNCHANGED current
          ELSE /\ batches' = [batches EXCEPT ![1] = Tail(rest)]
               /\ session' = IF Skipped(Head(rest)) THEN "batch" ELSE "execute"
               /\ current' = IF Skipped(Head(rest)) THEN current ELSE Head(rest)
  /\ UNCHANGED <<client, content, typed, ran>>

optionExecutor ==
  Unregistered \/ ReturnsAtOnce \/ Quit \/ Forward \/ Reconnect \/ Batch \/ Overflow

\* The end of enterConsoleMode and executeInConsole: the request to disconnect, and join.
Leave ==
  /\ session = "leave"
  /\ session' = IF client.connected THEN "left" ELSE "killed"
  /\ UNCHANGED <<client, content, batches, current, typed, ran>>

Ended == session \in {"left", "killed", "overflow"}

Next == readLine \/ EndOfInput \/ optionExecutor \/ fileExecutor \/ Leave

\* The session runs; nobody has to type.
Fairness == WF_consoleVars(optionExecutor \/ fileExecutor \/ Leave)

--------------------------------------------------------------------------------
\* What a line runs and returns while the client is connected: a batch stands for its
\* lines up to the first that does not succeed, at any depth.
Meaning ==
  LET run[depth \in 0 .. Cardinality(Files) + 1,
          l \in InputLines \cup UNION {Range(s) : s \in UNION Range(Scripts)}] ==
        LET is(code) == [ran |-> <<l>>, code |-> code]
            goOn(done, next) ==
              IF done.code # "success" \/ Skipped(next) THEN done
              ELSE [ran |-> done.ran \o run[depth - 1, next].ran, code |-> run[depth - 1, next].code]
        IN CASE l.option = "batch" /\ l.arg \in Files ->
                  IF depth = 0 THEN [ran |-> <<>>, code |-> "endless"]
                  ELSE FoldLeft(goOn, is("success"), content[l.arg])
             [] l.option = "batch" /\ l.arg \notin Files -> is("thrown")
             [] l.option = "quit" -> is("quit")
             [] l # Blank /\ l.option \notin regTable -> is("thrown")
             [] OTHER -> is("success")
  IN [l \in InputLines |-> run[Cardinality(Files) + 1, l]]

\* However batches are nested, a line runs what it stands for: no line after one that
\* fails or quits, and none before it left out.  A session is left for a quit, however
\* deep it is found, or the end of the input, and survives whatever a line throws.
LinesAreRun ==
  client.connected /\ typed # <<>> =>
    LET means == Meaning[Last(typed)]
    IN /\ session = "read" => ran = means.ran /\ means.code \in {"success", "thrown"}
       /\ session = "leave" => ran = means.ran /\ means.code # "endless"
       /\ session = "overflow" => means.code = "endless"

\* Every line comes to its end.  Exempt are a file that runs itself, and what follows a
\* reconnect that has failed: the next message kills the program.
LinesEnd ==
  session \in {"execute", "batch", "leave"} ~>
    \/ session \in {"read", "left"}
    \/ session = "killed" /\ ~client.connected
    \/ session = "overflow"
================================================================================
