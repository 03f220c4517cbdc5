------------------------------- MODULE MCCommand -------------------------------
(***************************************************************************)
(* The program from its start to its end: the parent watches the child,    *)
(* which loads the settings and starts the helpers; the command line is    *)
(* parsed, and the two handlers of doExecute schedule and run what it asks *)
(* for, or the console runs lines.  A behaviour is of one of these, as     *)
(* part says; the others rest in their initial states.                     *)
(***************************************************************************)
EXTENDS CommandExec

CONSTANTS
  Parts,
  MaxTokens,                             \* bound: tokens of the first command line
  Programs, MaxStarts, MaxEdits, MaxKills,
  Helpers, MaxTyped

VARIABLES
  part,
  parsers, call, lines,                  \* lines: number of lines parsed so far
  file, pc, lock, loaded, stdin, starts, edits, kills, spoilt,
  args, parent, blockedSignals, pending, interrupted, alarm, child, deathSignal, exit, sender,
  service,
  client, content, session, batches, current, typed, consoleRan

lineVars == <<parsers, call, lines>>
settingVars == <<file, pc, lock, loaded, stdin, starts, edits, kills, spoilt>>
programVars == <<args, parent, blockedSignals, pending, interrupted, alarm, child, deathSignal,
                 exit, sender, service>>
consoleVars == <<client, content, session, batches, current, typed, consoleRan>>
allVars == <<part, vars, lineVars, settingVars, programVars, consoleVars>>

Alias(option) ==
  CASE option = "match" -> "m" [] option = "sort" -> "s" [] option = "help" -> "h"
    [] option = "version" -> "v" [] option = "dump" -> "d" [] option = "console" -> "c"

A == INSTANCE ArgumentParser WITH
  Subs <- {"algo"}, Categories <- {"match", "sort"}, Blanks <- {[form |-> "word", name |-> " "]}
S == INSTANCE Setting
P == INSTANCE Program WITH blocked <- blockedSignals

\* Lines of the console that succeed, fail and throw, and files within files.
Line(option, arg) == [option |-> option, arg |-> arg]
ScriptLines == {Line("usage", ""), Line("quit", ""), Line("unknown", ""), Line("#", ""),
                Line("batch", "a"), Line("batch", "b")}
TypedLines == {Line("", ""), Line("reconnect", ""), Line("depend", ""), Line("quit", ""), Line("#", ""),
               Line("batch", "a"), Line("batch", "b"), Line("batch", "missing")}

C == INSTANCE Console WITH
  Files <- {"a", "b"}, Scripts <- [a |-> UNION {[1 .. n -> ScriptLines] : n \in 0 .. 2},
                                  b |-> UNION {[1 .. n -> ScriptLines] : n \in 0 .. 1}],
  InputLines <- TypedLines, ran <- consoleRan

--------------------------------------------------------------------------------
(* The command lines of CommandExec: every combination of up to two items  *)
(* of each kind that can follow one another.                               *)

NativeParts == {<<>>, <<Native("help")>>, <<Native("dump"), Native("version")>>}

CategoryParts ==
  {<<>>} \cup {<<Choices("match", s)>> : s \in {<<>>, <<"rab">>, <<"rab", "invalid">>}}
         \cup {<<Choices("match", s), Choices("sort", <<"qui">>)>> : s \in {<<>>, <<"rab", "hor">>}}

SubParts ==
  {<<>>, <<SubCommand("app-algo", "notAssigned")>>}
    \cup {<<SubCommand("app-algo", "help")>> \o c : c \in CategoryParts}
    \cup {<<SubCommand("app-algo", "assigned")>> \o c : c \in CategoryParts \ {<<>>}}

AllLines == ({n \o s : n \in NativeParts, s \in SubParts} \ {<<>>}) \cup {<<Malformed>>}

\* The tokens of ArgumentParser: names of both levels, values, letters alone and joined.
Tokens ==
  {A!Word(w) : w \in {"algo", "x", " "}}
    \cup {A!Long(n) : n \in {"help", "console", "match"}}
    \cup {A!Assign("console", A!Word("y")), A!Assign("match", A!Word("z")),
          A!Assign("help", A!Short(<<"c">>))}
    \cup {A!Short(ls) : ls \in {<<"c">>, <<"h", "c">>, <<"c", "h">>, <<"s">>, <<"h", "m">>,
                                <<"m", "s">>, <<"m", "m">>}}

\* A short line, or one with a sub-command, follows whatever the first one has left.
LinesAfter(n) ==
  UNION {[1 .. k -> Tokens] : k \in 1 .. (IF n = 0 THEN MaxTokens ELSE 1)}
    \cup {<<A!Word("algo"), A!Short(<<"h", "m">>), A!Word("x")>>}

--------------------------------------------------------------------------------
PartInit ==
  /\ part \in Parts
  /\ Init /\ A!Init /\ S!Init /\ P!Init /\ C!Init
  /\ lines = 0
  /\ part # "setting" => stdin = "open"
  /\ part # "program" => args
  /\ part # "console" => client.transport = "tcp" /\ Range(content) = {<<>>}

ExecPart == part = "exec" /\ Next /\ UNCHANGED <<lineVars, settingVars, programVars, consoleVars>>

LinePart ==
  /\ part = "line" /\ lines < 2
  /\ \E line \in LinesAfter(lines) : A!frontEndHandler(line)
  /\ lines' = lines + 1
  /\ UNCHANGED <<vars, settingVars, programVars, consoleVars>>

SettingPart ==
  part = "setting" /\ S!Next /\ UNCHANGED <<vars, lineVars, programVars, consoleVars>>

ProgramPart ==
  part = "program" /\ P!Next /\ UNCHANGED <<vars, lineVars, settingVars, consoleVars>>

ConsolePart ==
  part = "console" /\ C!Next /\ UNCHANGED <<vars, lineVars, settingVars, programVars>>

\* There is nothing left to do.
AtRest ==
  /\ \/ part = "line" /\ lines = 2
     \/ part = "setting" /\ S!AtRest
     \/ part = "program" /\ P!AtRest
     \/ part = "console" /\ C!Ended
  /\ UNCHANGED allVars

PartNext ==
  \/ /\ ExecPart \/ LinePart \/ SettingPart \/ ProgramPart \/ ConsolePart
     /\ UNCHANGED part
  \/ AtRest

\* The fairness of the parts.
PartSpec ==
  /\ PartInit
  /\ [][PartNext]_allVars
  /\ WF_vars(part = "exec" /\ FrontStep) /\ SF_vars(part = "exec" /\ FrontLock)
  /\ WF_vars(part = "exec" /\ BackStep) /\ WF_vars(part = "exec" /\ Join)
  /\ \A p \in Programs : /\ WF_settingVars(part = "setting" /\ S!Load(p))
                         /\ WF_settingVars(part = "setting" /\ S!PromptTimeout(p))
  /\ WF_programVars(part = "program" /\ P!Watch) /\ WF_programVars(part = "program" /\ P!Work)
  /\ WF_programVars(part = "program" /\ P!AlarmRings)
  /\ WF_consoleVars(part = "console" /\ (C!optionExecutor \/ C!fileExecutor \/ C!Leave))

\* What precheckSchedule reads is what the last line means by itself.
LineIsUnderstood == A!LineIsUnderstood

\* What the accessors find in an accepted configuration is as they read it, they throw only
\* for fields that an edited file neither has nor requires, and loadSettings asks only about
\* files that somebody has spoilt.
SettingsAreSound == S!AccessorsAreSafe /\ S!OnlySpoiltFilesAsk

\* The parent reports what its child has done, and the child succeeds only after both
\* services have returned.
VerdictIsTheChilds == P!VerdictIsTheChilds

\* A line of the console runs what it stands for, and comes to an end.
LinesAreRun == part = "console" => []C!LinesAreRun /\ C!LinesEnd

\* Whatever was begun comes to its end: a call of doExecute with a line that was accepted,
\* loadSettings, and the program, of which neither parent nor child stays behind.
CallsEnd ==
  /\ AcceptedLinesReturn
  /\ part = "setting" => S!LoadEnds
  /\ part = "program" => P!ProgramEnds
================================================================================
