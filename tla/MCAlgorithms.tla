------------------------------ MODULE MCAlgorithms ------------------------------
(***************************************************************************)
(* The algorithms, for every input within the bounds, the texts of the     *)
(* JSON and the answers of the viewer in their packets, and the graphs and *)
(* the filters, through every sequence of calls.  kind says which one a    *)
(* behaviour is of: of an algorithm, subject is its input and call becomes *)
(* what it returns, which ends the behaviour; of the graphs and filters,   *)
(* subject is their state and call the last call.                          *)
(***************************************************************************)
EXTENDS Integers, Sequences, FiniteSets

CONSTANTS MaxArray, MaxOrdered,   \* bounds of the arrays to be sorted and searched
          Letters, MaxText, MaxPattern,
          MaxOperators,
          CalculatorWidth, MaxDivided, SieveWidth,
          MaxJson, MaxNumber, MaxLibInfo   \* characters of a text, a number, a libInfo

VARIABLES kind, subject, call, past

vars == <<kind, subject, call, past>>

A  == INSTANCE Algorithms WITH Chars <- Letters, rollingHashBase <- 4, rollingHashMod <- 5
C  == INSTANCE Numeric WITH Width <- CalculatorWidth
P  == INSTANCE Numeric WITH Width <- SieveWidth
T  == INSTANCE Messages WITH
  pager <- subject, defInfoSize <- 4, BufferSize <- 128, terminalRows <- 3, MaxRows <- 8

AML == INSTANCE AMLGraph WITH
  graph <- subject, Vertices <- 1 .. 3, maxVertexNum <- 3, MaxEdges <- 3
OL == INSTANCE OLGraph WITH
  graph <- subject, Vertices <- 1 .. 3, maxVertexNum <- 3, MaxEdges <- 3
Filter == INSTANCE Filters WITH
  filter <- subject, inserted <- past, QBits <- 2, RBits <- 1,
  Capacity <- 2, filterBitsNum <- 5, hashFuncNum <- 3

--------------------------------------------------------------------------------
ArrayValues   == {-2, 3, 10, 21}
OrderedValues == {-2, 1, 2, 3, 5, 10, 21}

Arrays(values, max) == UNION {[0 .. n - 1 -> values] : n \in 0 .. max}
IsOrdered(a) == \A i \in DOMAIN a : i > 0 => a[i - 1] <= a[i]
Patterns == 0 .. 2^CalculatorWidth - 1
Operations == {"addition", "subtraction", "multiplication", "division"}
Expression == UNION {A!Expressions(n, {"+", "*", "/", "^"}, "x") : n \in 0 .. MaxOperators}

\* The inputs.  A sieve starts from a limit of 1.
SortInit ==
  kind = "sort" /\ subject \in [method : A!SortMethods, a : Arrays(ArrayValues, MaxArray)]
SearchInit ==
  /\ kind = "search"
  /\ subject \in [method : A!SearchMethods, key : OrderedValues,
                  a : {a \in Arrays(OrderedValues, MaxOrdered) : IsOrdered(a)}]
MatchInit ==
  /\ kind = "match"
  /\ subject \in [method : A!MatchMethods, text : Arrays(Letters, MaxText),
                  pattern : Arrays(Letters, MaxPattern)]
NotationInit ==
  \/ kind = "postfix" /\ subject \in {A!Infix(e, "left") : e \in Expression}
  \/ kind = "prefix" /\ subject \in {A!Infix(e, "right") : e \in Expression}
NumericInit ==
  \/ kind = "arithmetic" /\ subject \in [op : Operations, a : Patterns, b : Patterns]
  \/ /\ kind = "divisor"
     /\ subject \in [method : {"euclidean", "stein"}, a : -MaxDivided .. MaxDivided,
                     b : -MaxDivided .. MaxDivided]
  \/ /\ kind = "prime"
     /\ subject \in [method : {"eratosthenes", "euler"}, limit : 1 .. 2^(SieveWidth \div 2) - 1]

Texts(chars, max) == UNION {[1 .. n -> chars] : n \in 0 .. max}

\* A number of two digits behind an e is more than 32 bits can hold.
Numerals ==
  {t \in Texts({"1", "-", ".", "e", " ", "+"}, MaxNumber) :
     ~\E i, j, k \in DOMAIN t :
        i < j /\ k = j + 1 /\ t[i] = "e" /\ t[j] = "1" /\ t[k] = "1"}
Strings ==
  Texts({T!Quote, T!Backslash, "n", "x", "/"}, MaxNumber)
    \cup {<<T!Backslash, "u", "1", "1", "1", c>> : c \in {"1", "x"}}
Quoted(t) == <<T!Quote>> \o t \o <<T!Quote>>

\* Any order of brackets and separators; numbers; strings, and strings as keys.
JsonTexts ==
  Texts({"{", "}", "[", "]", ":", ",", T!Quote, "1", " "}, MaxJson)
    \cup {<<"[">> \o t \o <<"]">> : t \in Numerals}
    \cup {<<"{">> \o Quoted(t) \o <<":", "T", ",">> \o Quoted(<<"a">>) \o <<":", "[", "N", "]", "}">> :
            t \in Strings}

Leaves == {<<"1">>, <<"N">>, Quoted(<<"x">>), <<"[", "]">>, <<"{", "}">>, <<"[", "[", "]", "]">>}
Member(t) == <<"{">> \o Quoted(<<"a">>) \o <<":">> \o t \o <<"}">>
Configurations ==
  {<<"[">> \o t \o <<"]">> : t \in Leaves}
    \cup {<<"[">> \o t \o <<",">> \o u \o <<"]">> : t \in Leaves, u \in Leaves}
    \cup {Member(t) : t \in Leaves} \cup {Member(Member(t)) : t \in Leaves}

Answer(option, text, id) == [option |-> option, text |-> text, id |-> id]
Answers ==
  {Answer(option, <<>>, T!invalidShmId) : option \in {"ack", "fin"}}
    \cup {Answer("depend", t, T!invalidShmId) : t \in Texts({"x", "y"}, MaxLibInfo)}
    \cup {Answer("profile", t, T!invalidShmId) : t \in Configurations}
    \cup {Answer(option, <<>>, id) : option \in {"bashShmId", "logShmId", "statusShmId"}, id \in {0, 1, 7}}

TextInit ==
  \/ kind = "json" /\ subject \in JsonTexts
  \/ kind = "request" /\ subject \in Texts({32, 62, 128, 255}, MaxNumber)
  \/ kind = "packet" /\ subject \in Answers

Init ==
  \/ /\ SortInit \/ SearchInit \/ MatchInit \/ NotationInit \/ NumericInit \/ TextInit
     /\ call = <<>> /\ past = {}
  \/ kind = "aml" /\ AML!Init /\ past = {}
  \/ kind = "ol" /\ OL!Init /\ past = {}
  \/ kind = "quotient" /\ Filter!QuotientInit
  \/ kind = "bloom" /\ Filter!BloomInit
  \/ kind = "pager" /\ T!PagerInit /\ call = <<>> /\ past = {}

Returns(value) == call = <<>> /\ call' = <<value>> /\ UNCHANGED <<subject, past>>

Next ==
  /\ \/ kind = "sort" /\ Returns(A!Sort(subject.method, subject.a))
     \/ kind = "search" /\ Returns(A!Search(subject.method, subject.a, subject.key))
     \/ kind = "match" /\ Returns(A!Match(subject.method, subject.text, subject.pattern))
     \/ kind = "postfix" /\ Returns(A!postfix(subject))
     \/ kind = "prefix" /\ Returns(A!prefix(subject))
     \/ kind = "arithmetic" /\ Returns(C!Calculate(subject.op, subject.a, subject.b))
     \/ kind = "divisor" /\ subject.method = "euclidean" /\ Returns(C!euclidean(subject.a, subject.b))
     \/ kind = "divisor" /\ subject.method = "stein" /\ Returns(C!stein(subject.a, subject.b))
     \/ kind = "prime" /\ subject.method = "eratosthenes" /\ Returns(P!eratosthenes(subject.limit))
     \/ kind = "prime" /\ subject.method = "euler" /\ Returns(P!euler(subject.limit))
     \/ kind = "json" /\ Returns(T!load(subject))
     \/ kind = "request" /\ Returns(T!Request(subject))
     \/ kind = "packet" /\ Returns(T!encodeTLV(128, T!Built(subject)).buf)
     \/ kind = "aml" /\ AML!Next /\ UNCHANGED past
     \/ kind = "ol" /\ OL!Next /\ UNCHANGED past
     \/ kind = "quotient" /\ Filter!QuotientNext
     \/ kind = "bloom" /\ Filter!BloomNext
     \/ kind = "pager" /\ T!PagerNext /\ UNCHANGED <<call, past>>
  /\ UNCHANGED kind

Spec == Init /\ [][Next]_vars

Returned(k) == kind = k /\ call # <<>>

--------------------------------------------------------------------------------
\* Every method of Sort returns the elements it was given, and in order.  Only the order of
\* the radix sort may fail, for arrays with negative elements whose range has more digits
\* than their maximum: it counts the digits of the maximum before the elements are shifted.
SortsAreSorted ==
  Returned("sort") =>
    \/ A!IsSortOf(call[1], subject.a)
    \/ /\ subject.method = "radix" /\ A!OutgrowsItsMaximum(subject.a)
       /\ A!IsPermutationOf(call[1], subject.a)

FirstIndex == A!FirstOccurrence(subject.a, [i \in {0} |-> subject.key])

\* A search returns the index of the key, and -1 if there is none; a match returns the
\* first place of the pattern.  What search.hpp and match.hpp promise beyond it is
\* refuted by SearchesAreFirst and MatchesAreFirst: of several equal elements a search
\* returns any, and kmp may miss a place, though what it returns is one.  For an absent key
\* interpolation may probe outside the array or not come back, but finds nothing.
SearchesFind ==
  /\ Returned("search") =>
       LET places == {i \in DOMAIN subject.a : subject.a[i] = subject.key}
       IN \/ call[1] = FirstIndex
          \/ Cardinality(places) > 1 /\ call[1] \in places
          \/ /\ places = {} /\ subject.method = "interpolation"
             /\ call[1] \in {A!Outside, A!Endless}
  /\ Returned("match") =>
       \/ call[1] = A!FirstOccurrence(subject.text, subject.pattern)
       \/ /\ subject.method = "kmp"
          /\ call[1] = -1 \/ A!Occurs(subject.text, subject.pattern, call[1])

\* The claim of search.hpp for binary, interpolation and fibonacci: a key that is there is
\* found at its first occurrence.
SearchesAreFirst == Returned("search") /\ FirstIndex # -1 => call[1] = FirstIndex

\* The claim of match.hpp for every method, kmp included.
MatchesAreFirst ==
  Returned("match") => call[1] = A!FirstOccurrence(subject.text, subject.pattern)

\* The notations have the operands in place and the operators where the priorities and
\* the parentheses put them; equal operators group to the left for postfix and to the
\* right for prefix.
NotationsKeepTheTree ==
  /\ Returned("postfix") =>
       \E e \in Expression : A!Infix(e, "left") = subject /\ call[1] = A!Postorder(e)
  /\ Returned("prefix") =>
       \E e \in Expression : A!Infix(e, "right") = subject /\ call[1] = A!Preorder(e)

\* The arithmetic on bits is arithmetic, apart from divisions with the least number;
\* both methods find the common divisors, of which stein does not return for two zeros
\* only, and both sieves the primes.
NumbersAreRight ==
  LET least == 2^(CalculatorWidth - 1)
  IN /\ Returned("arithmetic") =>
          \/ subject.op = "division" /\ least \in {subject.a, subject.b}
          \/ call[1] = C!Calculated(subject.op, subject.a, subject.b)
     /\ Returned("divisor") =>
          \/ call[1] = C!CommonDivisors(subject.a, subject.b)
          \/ subject.method = "stein" /\ subject.a = 0 /\ subject.b = 0 /\ call[1] = C!Endless
     /\ Returned("prime") =>
          /\ {call[1][i] : i \in DOMAIN call[1]} = P!Primes(subject.limit)
          /\ \A i \in DOMAIN call[1] : i > 1 => call[1][i - 1] < call[1][i]

\* What was loaded from a text can be dumped and loaded again, its beginnings are
\* refused, and its values mean the same as strings; loading ends.  A request arrives in
\* letters, and an answer in its packet is shown by the client as it was meant, page by
\* page.  The exemptions are with the definitions of Json and Messages.
TextsArrive ==
  /\ Returned("json") =>
       /\ T!EndsUnlessTruncated(subject)
       /\ call[1].end = "value" =>
            /\ T!SurvivesDumping(call[1].value) /\ T!PrefixesAreRefused(call[1].value)
            /\ T!ConversionsAgree(call[1].value)
  /\ Returned("request") => T!RequestArrives(subject)
  /\ Returned("packet") => T!AnswerArrives(subject)
  /\ kind = "pager" => T!PagesFit

\* The lists of edges, through insertions, removals and the renumbering of the slots,
\* are a set of edges between vertices; the traversals visit what a vertex reaches, by
\* depth or by breadth.  Only an edge from a vertex to itself makes a removal spin.
GraphsAreGraphs ==
  /\ kind = "aml" => AML!Abstract!Init
  /\ kind = "ol" => OL!Abstract!Init
  /\ [](/\ kind = "aml" => AML!Traversable /\ AML!OnlyLoopsSpin
        /\ kind = "ol" => OL!Traversable)
  /\ [][/\ kind = "aml" => (AML!Returned' => AML!Abstract!Next)
        /\ kind = "ol" => OL!Abstract!Next]_vars

\* A filter never denies a key that it was given and still has.  The quotient filter,
\* whose remainders move with every insertion and removal, is right about every hash,
\* and a merge brings all that there is room for.
FiltersNeverForget ==
  /\ [](/\ kind = "quotient" => Filter!IsASet
        /\ kind = "bloom" => Filter!NeverForgets)
  /\ [][kind = "quotient" => Filter!StepsAreSetSteps]_vars
================================================================================
