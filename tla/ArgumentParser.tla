----------------------------- MODULE ArgumentParser -----------------------------
(***************************************************************************)
(* utility::argument::Argument (argument.cpp, argument.hpp) with the two   *)
(* levels of parsers that Command sets up (command.cpp): mainCLI and its   *)
(* sub-parsers.  frontEndHandler clears and fills them anew on every call  *)
(* of doExecute; precheckSchedule then reads what was given.               *)
(*                                                                         *)
(* A token is a word (also "-" and the empty string), a long name (--n),   *)
(* a long name with a value (--n=v), or a dash and letters.  The letters   *)
(* of the options are their aliases.  The program declares no positional   *)
(* and no required argument, and no option with a least number of values:  *)
(* a word no option takes is the name of a sub-parser or an error, no      *)
(* option has too few values, and validate has nothing to refuse.          *)
(***************************************************************************)
EXTENDS Naturals, Sequences, SequencesExt, FiniteSets

CONSTANTS
  Subs,          \* the names of the sub-parsers
  Categories,    \* the options of each sub-parser, besides help
  Alias(_),      \* the letter of an option
  Blanks         \* the words that are white space only

VARIABLES
  parsers,       \* mainCLI and its sub-parsers
  call           \* the last command line and what came of it

--------------------------------------------------------------------------------
Word(w)      == [form |-> "word", name |-> w]
Long(n)      == [form |-> "long", name |-> n]
Assign(n, v) == [form |-> "assign", name |-> n, value |-> v]
Short(ls)    == [form |-> "short", letters |-> ls]

Parsers == {"main"} \cup Subs
Unbounded == 1000        \* std::numeric_limits<std::size_t>::max()

\* What addArgument and the setters that follow it leave of an option.
Flag == [max |-> 0, repeatable |-> FALSE, optionalAsValue |-> FALSE]
ConsoleOption == [max |-> Unbounded, repeatable |-> TRUE, optionalAsValue |-> FALSE]
\* remaining overrides the upper bound, the number of candidates.
CategoryOption == [max |-> Unbounded, repeatable |-> FALSE, optionalAsValue |-> TRUE]

mainCLISetup ==
  [o \in {"help", "version", "dump", "console"} |->
     IF o = "console" THEN ConsoleOption ELSE Flag]
subCLISetup ==
  [o \in {"help"} \cup Categories |-> IF o = "help" THEN Flag ELSE CategoryOption]

argumentMap(p) == IF p = "main" THEN mainCLISetup ELSE subCLISetup

WithLetter(p, l) == {o \in DOMAIN argumentMap(p) : Alias(o) = l}

Unused(p) ==
  [isParsed |-> FALSE, isUsed |-> {},
   values |-> [o \in DOMAIN argumentMap(p) |-> <<>>], subParserUsed |-> {}]

MutClearUsed(ps) == [ps EXCEPT !["main"] = Unused("main")]   \* not the sub-parsers

\* Everything a parse has left is reset, in the sub-parsers too.
clearUsed(ps) == [p \in Parsers |-> Unused(p)]

checkIfOptional(token) == token.form # "word"

\* --name=value is split where the name is known to this parser.
preprocessArguments(p, tokens) ==
  FlattenSeq([i \in DOMAIN tokens |->
    IF tokens[i].form = "assign" /\ tokens[i].name \in DOMAIN argumentMap(p)
      THEN <<Long(tokens[i].name), tokens[i].value>>
      ELSE <<tokens[i]>>])

--------------------------------------------------------------------------------
(* The steps return the parsers, the tokens left, and whether nothing was thrown. *)

Going(ps, rest) == [parsers |-> ps, rest |-> rest, ok |-> TRUE]
Thrown(ps)      == [parsers |-> ps, rest |-> <<>>, ok |-> FALSE]

\* The first values up to the end, the bound, or a token that is an option.
Taken(trait, rest) ==
  LET bound == IF Len(rest) > trait.max THEN trait.max ELSE Len(rest)
      stops == {i \in 1 .. bound : ~trait.optionalAsValue /\ checkIfOptional(rest[i])}
  IN IF stops = {} THEN bound ELSE (CHOOSE i \in stops : \A j \in stops : i <= j) - 1

\* The action of an option is applied to each of its values in turn and may throw.
ApplyAction(ps, p, o, values) ==
  LET bad == {i \in DOMAIN values : o = "console" /\ values[i] \in Blanks}
      applied == IF bad = {} THEN values
                 ELSE SubSeq(values, 1, (CHOOSE i \in bad : \A j \in bad : i <= j) - 1)
  IN [parsers |-> [ps EXCEPT ![p].values[o] = @ \o applied], ok |-> bad = {}]

consume(ps, p, o, rest) ==
  LET trait == argumentMap(p)[o]
      used == [ps EXCEPT ![p].isUsed = @ \cup {o}]
      n == Taken(trait, rest)
      applied == ApplyAction(used, p, o, SubSeq(rest, 1, n))
  IN CASE ~trait.repeatable /\ o \in ps[p].isUsed -> Thrown(ps)
       [] trait.max = 0 -> Going([used EXCEPT ![p].values[o] = Append(@, TRUE)], rest)
       [] ~applied.ok -> Thrown(applied.parsers)
       [] OTHER -> Going(applied.parsers, SubSeq(rest, n + 1, Len(rest)))

\* A known name, or letters that are known one by one, each consuming what it takes.
processRegArgument(ps, p, token, rest) ==
  CASE token.form = "long" /\ token.name \in DOMAIN argumentMap(p) ->
         consume(ps, p, token.name, rest)
    [] token.form = "short" ->
         FoldLeft(LAMBDA s, l :
                    IF ~s.ok THEN s
                    ELSE IF WithLetter(p, l) = {} THEN Thrown(s.parsers)
                    ELSE consume(s.parsers, p, CHOOSE o \in WithLetter(p, l) : TRUE, s.rest),
                  Going(ps, rest), token.letters)
    [] OTHER -> Thrown(ps)

\* One round of the loop, in the parser it has come to; nothing is left to do once a
\* token was refused or none is left.  A sub-parser takes over the rest for good.
parseArgsInternal(s) ==
  LET token == Head(s.rest)
      step == processRegArgument(s.parsers, s.at, token, Tail(s.rest))
  IN CASE ~s.ok \/ s.rest = <<>> -> s
       [] s.ok /\ s.rest # <<>> /\ checkIfOptional(token) ->
            [parsers |-> step.parsers, at |-> s.at, rest |-> step.rest, ok |-> step.ok]
       [] s.ok /\ s.rest # <<>> /\ ~checkIfOptional(token) /\ s.at = "main" /\ token.name \in Subs ->
            [s EXCEPT !.parsers["main"].isParsed = TRUE,
                      !.parsers["main"].subParserUsed = @ \cup {token.name},
                      !.at = token.name,
                      !.rest = preprocessArguments(token.name, Tail(@))]
       [] OTHER -> [s EXCEPT !.rest = <<>>, !.ok = FALSE]

\* A round takes a token, and a sub-parser may split each of those that are left.
parseArgs(ps, tokens) ==
  LET first == [parsers |-> ps, at |-> "main", rest |-> preprocessArguments("main", tokens),
                ok |-> TRUE]
      rounds == [i \in 1 .. 2 * Len(first.rest) |-> i]
      last == FoldLeft(LAMBDA s, i : parseArgsInternal(s), first, rounds)
  IN IF last.ok THEN [last EXCEPT !.parsers[last.at].isParsed = TRUE] ELSE last

--------------------------------------------------------------------------------
(* What precheckSchedule reads. *)

\* The conversion of a parser to bool.
IsAssigned(ps, p) == ps[p].isParsed /\ (ps[p].isUsed # {} \/ ps[p].subParserUsed # {})

\* The default values: the command usage of the console, all candidates of a category.
DefaultValue == <<Word("default")>>

\* Without values, get returns the default.
get(ps, p, o) == IF ps[p].values[o] = <<>> THEN DefaultValue ELSE ps[p].values[o]

Schedule(ps) ==
  [ok |-> TRUE,
   natives |-> ps["main"].isUsed,
   console |-> get(ps, "main", "console"),
   subs    |-> [s \in ps["main"].subParserUsed |->
                  [ok |-> TRUE,
                   help |-> ~IsAssigned(ps, s) \/ "help" \in ps[s].isUsed,
                   choices |-> [o \in ps[s].isUsed \ {"help"} |-> get(ps, s, o)]]]]

Refused == [ok |-> FALSE]

Init == parsers = clearUsed([p \in Parsers |-> Unused(p)]) /\ call = <<>>

frontEndHandler(line) ==
  LET s == parseArgs(clearUsed(parsers), line)
  IN /\ parsers' = s.parsers
     /\ call' = <<line, IF s.ok THEN Schedule(s.parsers) ELSE Refused>>

--------------------------------------------------------------------------------
(***************************************************************************)
(* What a command line means, read from the line alone.  main is the       *)
(* longest beginning of options and words that follow an option naming     *)
(* console; what is behind it is a sub-command.                            *)
(***************************************************************************)
Names(p, token) ==   \* the options a token names, in order; "unknown" among them
  CASE token.form = "long" ->
         <<IF token.name \in DOMAIN argumentMap(p) THEN token.name ELSE "unknown">>
    [] token.form = "short" ->
         [i \in DOMAIN token.letters |->
            IF WithLetter(p, token.letters[i]) = {} THEN "unknown"
            ELSE CHOOSE o \in WithLetter(p, token.letters[i]) : TRUE]
    [] token.form = "assign" -> <<"unknown">>
    [] token.form = "word" -> <<>>

NamedBy(p, tokens) == FlattenSeq([i \in DOMAIN tokens |-> Names(p, tokens[i])])
Occurs(o, names) == Cardinality({i \in DOMAIN names : names[i] = o})
NamesAreFine(p, names) ==
  \A i \in DOMAIN names :
    /\ names[i] # "unknown"
    /\ argumentMap(p)[names[i]].repeatable \/ Occurs(names[i], names) = 1

IsConsoles(tokens, i) ==
  \E j \in 1 .. i - 1 :
    /\ "console" \in Range(Names("main", tokens[j]))
    /\ \A k \in j + 1 .. i : ~checkIfOptional(tokens[k])

Smallest(S, other) == IF S = {} THEN other ELSE CHOOSE i \in S : \A j \in S : i <= j

SubMeaning(tokens) ==
  LET isCategory(o) == o \in Categories
      first == Smallest({i \in DOMAIN tokens :
                           \E o \in Range(Names("sub", tokens[i])) : isCategory(o)}, Len(tokens))
      own == SubSeq(tokens, 1, first)
      names == NamedBy("sub", own)
      taking == SelectSeq(names, isCategory)
      taken == SubSeq(tokens, first + 1, Len(tokens))
  IN IF NamesAreFine("sub", names) /\ \A i \in DOMAIN own : checkIfOptional(own[i])
       THEN [ok |-> TRUE,
             help |-> names = <<>> \/ "help" \in Range(names),
             choices |-> [o \in Range(taking) |->
                            IF o = taking[1] /\ taken # <<>> THEN taken ELSE DefaultValue]]
       ELSE Refused

Meaning(line) ==
  LET tokens == preprocessArguments("main", line)
      behind == Smallest({i \in DOMAIN tokens :
                            ~checkIfOptional(tokens[i]) /\ ~IsConsoles(tokens, i)}, Len(tokens) + 1)
      main == SubSeq(tokens, 1, behind - 1)
      isWord(t) == ~checkIfOptional(t)
      words == SelectSeq(main, isWord)
      names == NamedBy("main", main)
      meaning(subs) == [ok |-> TRUE, natives |-> Range(names), subs |-> subs,
                        console |-> IF words = <<>> THEN DefaultValue ELSE words]
      sub == SubMeaning(preprocessArguments("sub", SubSeq(tokens, behind + 1, Len(tokens))))
  IN CASE ~NamesAreFine("main", names) \/ Range(words) \cap Blanks # {} -> Refused
       [] behind > Len(tokens) -> meaning(<<>>)
       [] tokens[behind].name \notin Subs \/ ~sub.ok -> Refused
       [] OTHER -> meaning([s \in {tokens[behind].name} |-> sub])

\* After every call, also one that follows a refused or half parsed line, the schedule
\* is what the line means by itself: each word went to the option it belongs to, nothing
\* was lost, and a line is refused exactly when an option is unknown or repeated or a
\* word belongs to none.
LineIsUnderstood == call # <<>> => call[2] = Meaning(call[1])
=================================================================================
