---------------------------------- MODULE Json ----------------------------------
(***************************************************************************)
(* utility::json::JSON (json.cpp, json.hpp): load, dump and dumpMinified.  *)
(*                                                                         *)
(* A text is a sequence of characters; the literals true, false and null   *)
(* are one character each, T, F and N.  A value is a record of its type    *)
(* and its content: a function from keys to values, a sequence of values,  *)
(* a sequence of characters, an integer, a number of hundredths.  Keys are *)
(* visited in an order that depends on the set of keys only.               *)
(***************************************************************************)
EXTENDS Integers, Sequences, SequencesExt

Quote     == "\""
Backslash == "\\"
Newline   == "\n"
Spaces    == {" ", Newline, "\t"}
Opening   == {"{", "["}

DigitChar == <<"1", "2", "3", "4", "5", "6", "7", "8", "9">>
Digits    == {"0"} \cup Range(DigitChar)
DigitOf(c) == IF c = "0" THEN 0 ELSE CHOOSE d \in 1 .. 9 : DigitChar[d] = c
HexCharacters == Digits \cup {"a", "b", "c", "d", "e", "f"}

Object(f)   == [type |-> "object", value |-> f]
Array(s)    == [type |-> "array", value |-> s]
String(s)   == [type |-> "string", value |-> s]
Floating(h) == [type |-> "floating", value |-> h]
Integral(n) == [type |-> "integral", value |-> n]
Boolean(b)  == [type |-> "boolean", value |-> b]
Null        == [type |-> "null", value |-> <<>>]

--------------------------------------------------------------------------------
(* dump *)

\* The character behind the backslash of each character that is escaped.
Escapes ==
  [c \in {Quote, Backslash, Newline, "\t", "\r", "\f", "backspace"} |->
     CASE c = Newline -> "n" [] c = "\t" -> "t" [] c = "\r" -> "r" [] c = "\f" -> "f"
       [] c = "backspace" -> "b" [] OTHER -> c]

MutJsonEscape(s) ==   \* a backslash is written as it is
  FlattenSeq([i \in DOMAIN s |->
    IF s[i] \in DOMAIN Escapes \ {Backslash} THEN <<Backslash, Escapes[s[i]]>> ELSE <<s[i]>>])

jsonEscape(s) ==
  FlattenSeq([i \in DOMAIN s |->
    IF s[i] \in DOMAIN Escapes THEN <<Backslash, Escapes[s[i]]>> ELSE <<s[i]>>])

RECURSIVE DigitsOf(_)
DigitsOf(n) ==   \* std::to_string of a natural number
  LET last == IF n % 10 = 0 THEN "0" ELSE DigitChar[n % 10]
  IN IF n < 10 THEN <<last>> ELSE Append(DigitsOf(n \div 10), last)

Abs(n) == IF n < 0 THEN -n ELSE n
Signed(n, text) == IF n < 0 THEN <<"-">> \o text ELSE text

\* The shortest decimal, and a fraction even if it is zero.
toRoundTripString(h) ==
  LET whole == DigitsOf(Abs(h) \div 100)
      part == Abs(h) % 100
      fraction == IF part % 10 = 0 THEN DigitsOf(part \div 10)
                  ELSE IF part < 10 THEN <<"0">> \o DigitsOf(part) ELSE DigitsOf(part)
  IN Signed(h, whole \o <<".">> \o fraction)

Leaf(v) ==
  CASE v.type = "null" -> <<"N">>
    [] v.type = "boolean" -> IF v.value THEN <<"T">> ELSE <<"F">>
    [] v.type = "integral" -> Signed(v.value, DigitsOf(Abs(v.value)))
    [] v.type = "floating" -> toRoundTripString(v.value)
    [] v.type = "string" -> <<Quote>> \o jsonEscape(v.value) \o <<Quote>>

Separated(texts, separator) ==
  FlattenSeq([i \in DOMAIN texts |-> IF i = 1 THEN texts[i] ELSE separator \o texts[i]])

\* A key is written as it is stored.
RECURSIVE dumpMinified(_)
dumpMinified(v) ==
  CASE v.type = "object" ->
         LET keys == SetToSeq(DOMAIN v.value)
             pair(k) == <<Quote>> \o k \o <<Quote, ":">> \o dumpMinified(v.value[k])
         IN <<"{">> \o Separated([i \in DOMAIN keys |-> pair(keys[i])], <<",">>) \o <<"}">>
    [] v.type = "array" ->
         <<"[">> \o Separated([i \in DOMAIN v.value |-> dumpMinified(v.value[i])], <<",">>)
           \o <<"]">>
    [] OTHER -> Leaf(v)

Pad(depth) == [i \in 1 .. 2 * depth |-> " "]

RECURSIVE dump(_, _)
dump(v, depth) ==
  LET inner(texts) == Separated([i \in DOMAIN texts |-> Pad(depth) \o texts[i]], <<",", Newline>>)
      outer(open, texts, close) ==
        <<open, Newline>> \o inner(texts) \o <<Newline>> \o Pad(depth - 1) \o <<close>>
  IN CASE v.type = "object" ->
            LET keys == SetToSeq(DOMAIN v.value)
                pair(k) == <<Quote>> \o k \o <<Quote, ":", " ">> \o dump(v.value[k], depth + 1)
            IN outer("{", [i \in DOMAIN keys |-> pair(keys[i])], "}")
       [] v.type = "array" ->
            outer("[", [i \in DOMAIN v.value |-> dump(v.value[i], depth + 1)], "]")
       [] OTHER -> Leaf(v)

\* A string is escaped once; this is what an object stores for a key.
asString(v) ==
  CASE v.type = "string" -> jsonEscape(v.value)
    [] v.type \in {"object", "array"} -> dumpMinified(v)
    [] OTHER -> Leaf(v)

--------------------------------------------------------------------------------
(* load.  A step returns the value and the place behind it, or how it failed. *)

Parsed(v, o) == [end |-> "value", value |-> v, at |-> o]
Throws       == [end |-> "thrown", value |-> Null, at |-> 0]
Endless      == [end |-> "endless", value |-> Null, at |-> 0]

At(t, o) == IF o \in DOMAIN t THEN t[o] ELSE "outside"   \* at throws

\* The first of some places, if there are any.
FirstOf(places, otherwise) ==
  IF places = {} THEN otherwise ELSE CHOOSE i \in places : \A j \in places : i <= j

\* At the end of the text the last character is looked at again.
consumeWhitespace(t, o) == FirstOf({i \in o .. Len(t) : t[i] \notin Spaces}, Len(t))

\* o is the place of the next character of the string, s what was read of it.
RECURSIVE StringFrom(_, _, _)
StringFrom(t, o, s) ==
  LET c == At(t, o)
      e == At(t, o + 1)
      isUnicode == c = Backslash /\ e = "u"
      read == CASE c # Backslash -> <<c>>
                [] isUnicode -> <<c>> \o SubSeq(t, o + 1, o + 5)
                [] e = "/" -> <<"/">>
                [] \E x \in DOMAIN Escapes : Escapes[x] = e ->
                     <<CHOOSE x \in DOMAIN Escapes : Escapes[x] = e>>
                [] OTHER -> <<Backslash>>
      last == IF c # Backslash THEN o ELSE IF isUnicode THEN o + 5 ELSE o + 1
  IN CASE c = Quote -> Parsed(String(s), o + 1)
       [] c = "outside" \/ (c = Backslash /\ e = "outside") -> Throws
       [] isUnicode /\ \E i \in o + 2 .. o + 5 : At(t, i) \notin HexCharacters -> Throws
       [] last = Len(t) -> Throws
       [] OTHER -> StringFrom(t, last + 1, s \o read)

parseString(t, o) == StringFrom(t, o + 1, <<>>)

\* How far a run of characters goes.
RunOf(t, o, chars) == FirstOf({i \in o .. Len(t) : t[i] \notin chars}, Len(t) + 1)

NumberOf(s) == FoldLeft(LAMBDA n, c : 10 * n + DigitOf(c), 0, s)

\* The prefix of s that is an integer and, for stod, a fraction: <<>> if there is none.
Hundredths(digits, fraction) ==
  100 * NumberOf(digits) + NumberOf(fraction) * (IF Len(fraction) = 1 THEN 10 ELSE 1)

Size(digits, fraction, isFloating) ==
  IF digits \o fraction = <<>> THEN <<>>
  ELSE <<IF isFloating THEN Hundredths(digits, fraction) ELSE NumberOf(digits)>>

Unsigned(s, isFloating, point) ==
  Size(SubSeq(s, 1, point - 1),
       IF isFloating /\ At(s, point) = "."
         THEN SubSeq(s, point + 1, RunOf(s, point + 1, Digits) - 1) ELSE <<>>,
       isFloating)

Negated(number) == IF number = <<>> THEN <<>> ELSE <<-number[1]>>

Converted(s, isFloating) ==
  IF s # <<>> /\ s[1] = "-"
    THEN Negated(Unsigned(Tail(s), isFloating, RunOf(Tail(s), 1, Digits)))
    ELSE Unsigned(s, isFloating, RunOf(s, 1, Digits))

Terminators == Spaces \cup {",", "]", "}"}

\* The exponent ends at a terminator, or at the end of the text.
extractExponent(t, o) ==
  LET from == IF At(t, o) \in {"-", "+"} THEN o + 1 ELSE o
      end == RunOf(t, from, Digits)
      digits == SubSeq(t, from, end - 1)
  IN [ok |-> o <= Len(t) /\ (end > Len(t) \/ t[end] \in Terminators),
      number |-> Converted(IF At(t, o) = "-" THEN <<"-">> \o digits ELSE digits, FALSE),
      at |-> IF end > Len(t) THEN Len(t) ELSE end]

Scaled(h, e) == IF e >= 0 THEN h * 10^e ELSE h \div 10^(-e)

WithExponent(hundredths, exponent) ==
  IF exponent.ok /\ exponent.number # <<>>
    THEN Parsed(Floating(Scaled(hundredths, exponent.number[1])), exponent.at) ELSE Throws

\* The number, and what the character at end makes of it.
NumberUpTo(t, end, isFloating, number) ==
  CASE number = <<>> \/ At(t, end) \notin Terminators \cup {"e"} -> Throws
    [] At(t, end) = "e" ->
         WithExponent(IF isFloating THEN number[1] ELSE 100 * number[1], extractExponent(t, end + 1))
    [] OTHER -> Parsed(IF isFloating THEN Floating(number[1]) ELSE Integral(number[1]), end)

NumberIn(t, end, s, isFloating) == NumberUpTo(t, end, isFloating, Converted(s, isFloating))

parseNumber(t, o) ==
  LET end == RunOf(t, o, Digits \cup {"-", "."})
      s == SubSeq(t, o, end - 1)
  IN NumberIn(t, end, s, "." \in Range(s))

RECURSIVE parseNext(_, _)
RECURSIVE Members(_, _, _)
RECURSIVE Elements(_, _, _)

\* With nothing behind the bracket, the bracket is what is looked at again: parseObject
\* and parseArray call parseNext, and it calls them, at the same place for ever.
Opened(t, o, close, empty, First(_)) ==
  LET next == consumeWhitespace(t, o + 1)
  IN CASE At(t, next) = close -> Parsed(empty, next + 1)
       [] next = o -> Endless
       [] OTHER -> First(next)

\* The rest of an object, behind a key and then behind its value.
AfterValue(t, val, f, key) ==
  LET next == consumeWhitespace(t, val.at)
      g == (key :> val.value) @@ f
  IN CASE val.end # "value" -> val
       [] At(t, next) = "," -> Members(t, next + 1, g)
       [] At(t, next) = "}" -> Parsed(Object(g), next + 1)
       [] OTHER -> Throws

AfterKey(t, key, f) ==
  LET colon == consumeWhitespace(t, key.at)
  IN CASE key.end # "value" -> key
       [] At(t, colon) # ":" -> Throws
       [] OTHER -> AfterValue(t, parseNext(t, consumeWhitespace(t, colon + 1)), f, asString(key.value))

Members(t, o, f) == AfterKey(t, parseNext(t, o), f)

\* The rest of an array, behind one of its values.
AfterElement(t, val, s) ==
  LET next == consumeWhitespace(t, val.at)
  IN CASE val.end # "value" -> val
       [] At(t, next) = "," -> Elements(t, next + 1, Append(s, val.value))
       [] At(t, next) = "]" -> Parsed(Array(Append(s, val.value)), next + 1)
       [] OTHER -> Throws

Elements(t, o, s) == AfterElement(t, parseNext(t, o), s)

parseObject(t, o) == Opened(t, o, "}", Object(<<>>), LAMBDA next : Members(t, next, <<>>))
parseArray(t, o)  == Opened(t, o, "]", Array(<<>>), LAMBDA next : Elements(t, next, <<>>))

parseNext(t, from) ==
  LET o == consumeWhitespace(t, from)
      c == At(t, o)
  IN CASE c = "{" -> parseObject(t, o)
       [] c = "[" -> parseArray(t, o)
       [] c = Quote -> parseString(t, o)
       [] c \in {"T", "F"} -> Parsed(Boolean(c = "T"), o + 1)
       [] c = "N" -> Parsed(Null, o + 1)
       [] c \in Digits \cup {"-"} -> parseNumber(t, o)
       [] OTHER -> Throws

\* Nothing may be left, not even white space.
Whole(t, r) == IF r.end = "value" /\ r.at <= Len(t) THEN Throws ELSE r

load(t) == Whole(t, parseNext(t, 1))

--------------------------------------------------------------------------------
(* The conversions: the number or truth value in a sequence, or none.      *)

\* std::stod: white space, a sign, a number, and an exponent if one is complete.
Stod(s) ==
  LET from == RunOf(s, 1, Spaces)
      unsigned == IF At(s, from) = "+" THEN SubSeq(s, from + 1, Len(s)) ELSE SubSeq(s, from, Len(s))
      number == IF At(s, from) = "+" /\ At(s, from + 1) = "-" THEN <<>> ELSE Converted(unsigned, TRUE)
      e == RunOf(unsigned, 1, Digits \cup {"-", "."})
      sign == At(unsigned, e + 1)
      first == IF sign \in {"+", "-"} THEN e + 2 ELSE e + 1
      digits == SubSeq(unsigned, first, RunOf(unsigned, first, Digits) - 1)
      exponent == IF sign = "-" THEN -NumberOf(digits) ELSE NumberOf(digits)
  IN IF number # <<>> /\ At(unsigned, e) = "e" /\ digits # <<>>
       THEN <<Scaled(number[1], exponent)>> ELSE number

asFloating(v) ==
  CASE v.type = "floating" -> <<v.value>>
    [] v.type = "integral" -> <<100 * v.value>>
    [] v.type = "boolean" -> IF v.value THEN <<100>> ELSE <<0>>
    [] v.type = "string" -> Stod(v.value)
    [] OTHER -> <<>>

\* A floating value loses its fraction; std::from_chars takes a beginning of the string.
asIntegral(v) ==
  CASE v.type = "integral" -> <<v.value>>
    [] v.type = "boolean" -> IF v.value THEN <<1>> ELSE <<0>>
    [] v.type = "floating" -> <<IF v.value < 0 THEN -(Abs(v.value) \div 100) ELSE v.value \div 100>>
    [] v.type = "string" -> Converted(v.value, FALSE)
    [] OTHER -> <<>>

asBoolean(v) ==
  CASE v.type = "boolean" -> <<v.value>>
    [] v.type \in {"floating", "integral"} -> <<v.value # 0>>
    [] v.type = "string" /\ "T" \in Range(v.value) -> <<TRUE>>
    [] v.type = "string" /\ "F" \in Range(v.value) -> <<FALSE>>
    [] v.type = "string" ->
         LET n == Converted(v.value, FALSE) IN IF n = <<>> THEN <<>> ELSE <<n[1] # 0>>
    [] OTHER -> <<>>

--------------------------------------------------------------------------------
\* Values are told apart by their minified texts.
LoadsAs(t, v) == \E r \in {load(t)} : r.end = "value" /\ dumpMinified(r.value) = dumpMinified(v)

IsNumber(v) == v.type \in {"floating", "integral"}

\* What was loaded can be dumped, in both forms, and loaded again.  A number that is
\* not part of anything cannot: a number ends at the character behind it.
SurvivesDumping(v) == ~IsNumber(v) => LoadsAs(dump(v, 1), v) /\ LoadsAs(dumpMinified(v), v)

\* The beginning of an object or an array is not taken for a whole one.  Exempt is one
\* that ends in a closing bracket: at the end of the text the last bracket is looked at
\* again and closes the outer ones too, so that "[[]" loads like "[[]]".
PrefixesAreRefused(v) ==
  v.type \in {"object", "array"} =>
    LET t == dumpMinified(v)
    IN \A n \in 1 .. Len(t) - 1 :
         load(SubSeq(t, 1, n)).end = "value" => t[n] \in {"}", "]"}

\* A number or a truth value means the same when it is kept as a string.  Exempt are the
\* truth of a fraction below one, of which the string has only the zero that it begins
\* with, and a truth value as a number.
Agrees(v, kept) ==
  /\ IsNumber(v) => /\ asIntegral(kept) = asIntegral(v)
                    /\ asFloating(kept) = asFloating(v)
                    /\ asBoolean(kept) = asBoolean(v) \/ asIntegral(v) = <<0>>
  /\ v.type = "boolean" => asBoolean(kept) = asBoolean(v)

\* The same for a value and for its members and elements.
ConversionsAgree(v) ==
  /\ Agrees(v, String(asString(v)))
  /\ v.type \in {"object", "array"} =>
       \A k \in DOMAIN v.value : Agrees(v.value[k], String(asString(v.value[k])))

\* Loading ends, unless the text ends where an object or an array begins.
EndsUnlessTruncated(t) == load(t).end = "endless" => Last(t) \in Opening
=================================================================================
