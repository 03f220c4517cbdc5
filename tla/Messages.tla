------------------------------- MODULE Messages -------------------------------
(***************************************************************************)
(* What the viewer's clients and the viewer say to each other: requests in *)
(* letters (common.cpp, view.cpp), answers in packets (application::data   *)
(* in data.cpp and data.hpp) with the two ends that use them (view.cpp),   *)
(* and the rows of a long answer, page by page.                            *)
(*                                                                         *)
(* A buffer is a sequence of bytes.  A byte of an integer knows the        *)
(* integer and its rank, so that what is read at the wrong place or in the *)
(* wrong byte order is recognised as Junk.  A character array has a fixed  *)
(* size and holds its text up to the first NUL.  The cipher keeps lengths  *)
(* and is undone by its inverse; it is left out.                           *)
(***************************************************************************)
EXTENDS Json

CONSTANTS
  defInfoSize,    \* size of libInfo; configInfo has twice as much
  BufferSize,     \* size of View::Buffer
  terminalRows,   \* rows of the terminal
  MaxRows         \* bound: rows of a long answer

VARIABLE pager    \* the state of segmentedOutput

NUL == "NUL"
Junk == -2                  \* an integer no one has written
SizeOfInt == 4
invalidShmId == -1

\* TLVType, in the order of the fields in a packet.
header == 1000000007
Fields == <<"stopTag", "libInfo", "bashShmId", "logShmId", "statusShmId", "configInfo">>
TypeOf(f) == (CHOOSE i \in DOMAIN Fields : Fields[i] = f) - 1
SizeOf(f) ==
  CASE f = "stopTag" -> 1 [] f = "libInfo" -> defInfoSize [] f = "configInfo" -> 2 * defInfoSize
    [] OTHER -> SizeOfInt
IsText(f) == f \in {"libInfo", "configInfo"}

Blank(size) == [i \in 1 .. size |-> NUL]
TLVValue ==
  [stopTag |-> FALSE, libInfo |-> Blank(defInfoSize), bashShmId |-> invalidShmId,
   logShmId |-> invalidShmId, statusShmId |-> invalidShmId, configInfo |-> Blank(2 * defInfoSize)]

strnlen(array) ==
  LET ends == {i \in DOMAIN array : array[i] = NUL}
  IN IF ends = {} THEN Len(array) ELSE (CHOOSE i \in ends : \A j \in ends : i <= j) - 1

--------------------------------------------------------------------------------
(* Packet *)

ByteOf(kind, value, rank) == [kind |-> kind, value |-> value, rank |-> rank]

\* The representation of an integer in network order.
htonl(n) == [i \in 1 .. SizeOfInt |-> ByteOf("int", n, SizeOfInt - i)]
Chars(array, n) == [i \in 1 .. n |-> ByteOf("char", array[i], 0)]

\* The integer that four bytes are, most significant first.
ReadInt(buf, at) ==
  IF /\ at + SizeOfInt - 1 <= Len(buf)
     /\ \A i \in 0 .. SizeOfInt - 1 :
          /\ buf[at + i].kind = "int"
          /\ buf[at + i].rank = SizeOfInt - 1 - i
     /\ \A i \in 1 .. SizeOfInt - 1 : buf[at + i].value = buf[at].value
    THEN buf[at].value ELSE Junk

\* write and read tell whether something is left; only the header's are asked.
NothingLeft(size, length) == size >= length

--------------------------------------------------------------------------------
(* encodeTLV *)

\* The length, then the text without its terminator, or the other value.
serialize(val, f) ==
  IF IsText(f) THEN htonl(strnlen(val[f])) \o Chars(val[f], strnlen(val[f]))
  ELSE htonl(SizeOf(f)) \o
       (IF f = "stopTag" THEN <<ByteOf("bool", val[f], 0)>> ELSE htonl(val[f]))

encodeTLV(length, val) ==
  LET items == FlattenSeq([i \in DOMAIN Fields |-> htonl(i - 1) \o serialize(val, Fields[i])])
  IN IF NothingLeft(2 * SizeOfInt, length)
       THEN [ec |-> "insufficientLength", buf |-> <<>>]
       ELSE [ec |-> "noError", buf |-> htonl(header) \o htonl(Len(items)) \o items]

--------------------------------------------------------------------------------
(* decodeTLV *)

\* What deserialize leaves in a field, given the length read in front of it.
Deserialized(val, f, buf, at, length) ==
  LET n == IF length < SizeOf(f) THEN length ELSE SizeOf(f)
      char(i) == IF at + i - 1 \in DOMAIN buf THEN buf[at + i - 1].value ELSE Junk
  IN CASE IsText(f) -> [val EXCEPT ![f] = [i \in DOMAIN @ |-> IF i <= n THEN char(i) ELSE @[i]]]
       [] f = "stopTag" -> [val EXCEPT ![f] = char(1)]
       [] OTHER -> [val EXCEPT ![f] = ReadInt(buf, at)]

\* What sum is reduced by: the type, the length and the value.
Counted(length) == 2 * SizeOfInt + length

RECURSIVE Items(_, _, _, _)
Items(buf, at, sum, val) ==
  LET type == ReadInt(buf, at)
      length == ReadInt(buf, at + SizeOfInt)
      f == Fields[type + 1]
      text == at + 2 * SizeOfInt
      size == IF IsText(f) THEN (IF length < SizeOf(f) THEN length ELSE SizeOf(f)) ELSE SizeOf(f)
  IN CASE sum <= 0 -> [ec |-> "noError", value |-> val, at |-> at]
       [] type \notin 0 .. Len(Fields) - 1 -> [ec |-> "unknownType", value |-> val, at |-> at]
       [] length + SizeOfInt <= 0 -> [ec |-> "failDeserialize", value |-> val, at |-> at]
       [] OTHER -> Items(buf, text + size, sum - Counted(length),
                         Deserialized(val, f, buf, text, length))

decodeTLV(buf, val) ==
  CASE Len(buf) = 0 -> [ec |-> "nullBuffer", value |-> val, at |-> 1]
    [] NothingLeft(2 * SizeOfInt, Len(buf)) -> [ec |-> "insufficientLength", value |-> val, at |-> 1]
    [] ReadInt(buf, 1) # header -> [ec |-> "badHeader", value |-> val, at |-> 1]
    [] OTHER -> Items(buf, 2 * SizeOfInt + 1, ReadInt(buf, SizeOfInt + 1), val)

--------------------------------------------------------------------------------
(* The ends: buildCustomTLVPacket and its like, and parseTLVMessage. *)

\* strncpy of all but one, and a terminator.
strncpy(text, size) ==
  [i \in 1 .. size |-> IF i <= Len(text) /\ i < size THEN text[i] ELSE NUL]

Built(answer) ==
  CASE answer.option = "ack" -> TLVValue
    [] answer.option = "fin" -> [TLVValue EXCEPT !.stopTag = TRUE]
    [] answer.option = "depend" ->
         [TLVValue EXCEPT !.libInfo = strncpy(answer.text, defInfoSize)]
    [] answer.option = "profile" ->
         [TLVValue EXCEPT !.configInfo = strncpy(answer.text, 2 * defInfoSize)]
    [] OTHER -> [TLVValue EXCEPT ![answer.option] = answer.id]

\* What a text field shows: nothing if it is empty or has no terminator.
Text(array) == IF strnlen(array) < Len(array) THEN SubSeq(array, 1, strnlen(array)) ELSE <<>>

\* What the client shows and does, in its order; a configuration is loaded and dumped.
Shown(v, loaded) ==
  LET none == Text(v.configInfo) = <<>>
  IN IF ~none /\ loaded.end # "value" THEN [end |-> loaded.end]
     ELSE [end |-> "shown", lib |-> Text(v.libInfo),
           ids |-> <<v.bashShmId, v.logShmId, v.statusShmId>>,
           config |-> IF none THEN <<>> ELSE dump(loaded.value, 1),
           stop |-> v.stopTag]

ParsedTLV(r) ==
  IF r.ec # "noError" THEN [end |-> r.ec] ELSE Shown(r.value, load(Text(r.value.configInfo)))

parseTLVMessage(buf) == ParsedTLV(decodeTLV(buf, TLVValue))

--------------------------------------------------------------------------------
\* An answer is shown as it was meant: the text of the libraries as far as the field
\* goes, a configuration that fits as the same configuration, each segment under the
\* identifier of its option; and the packet fits into the buffer and is read to its end.
\* A configuration that is cut may be refused, or its loading may not end.
AnswerArrives(answer) ==
  LET fits == answer.option = "profile" => Len(answer.text) < 2 * defInfoSize
      id(option) == IF answer.option = option THEN answer.id ELSE invalidShmId
      own(option) == IF answer.option = option THEN answer.text ELSE <<>>
      lib == own("depend")
  IN \E packet \in {encodeTLV(BufferSize, Built(answer))} :
     \E shown \in {parseTLVMessage(packet.buf)} :
     /\ packet.ec = "noError" /\ Len(packet.buf) <= BufferSize
     /\ decodeTLV(packet.buf, TLVValue).at = Len(packet.buf) + 1
     /\ fits =>
          /\ shown.end = "shown"
          /\ shown.lib = SubSeq(lib, 1, IF Len(lib) < defInfoSize THEN Len(lib) ELSE defInfoSize - 1)
          /\ shown.ids = <<id("bashShmId"), id("logShmId"), id("statusShmId")>>
          /\ shown.stop = (answer.option = "fin")
          /\ shown.config = IF answer.option = "profile" THEN dump(load(answer.text).value, 1)
                            ELSE <<>>

--------------------------------------------------------------------------------
(* base64Encode, base64Decode and the check of the requests' prefix. *)

\* A byte of a request is a number below 256, a letter its index in the alphabet; the
\* others are the padding and a character that does not belong into an encoded text.
Letter    == 0 .. 63
EqualSign == 64
Foreign   == 65

Bits(n, from, width) == (n \div 2^from) % 2^width

\* One byte: the letters that are complete with it.  (The test counter != 3 of the last
\* case, like the one of the decoder, is always true.)
Encoded(s, byte) ==
  LET offset == 16 - (s.counter % 3) * 8
      stream == s.bitStream + byte * 2^offset
      letter(at) == Bits(stream, at, 6)
  IN [counter |-> s.counter + 1, offset |-> offset,
      bitStream |-> IF offset = 0 THEN 0 ELSE stream,
      out |-> s.out \o CASE offset = 16 -> <<letter(18)>>
                         [] offset = 8 -> <<letter(12)>>
                         [] offset = 0 -> <<letter(6), letter(0)>>]

\* The bits that are left fill the last letter.
base64Encode(data) ==
  LET e == FoldLeft(Encoded, [counter |-> 0, offset |-> 0, bitStream |-> 0, out |-> <<>>], data)
  IN e.out \o CASE e.offset = 16 -> <<Bits(e.bitStream, 12, 6), EqualSign, EqualSign>>
                [] e.offset = 8 -> <<Bits(e.bitStream, 6, 6), EqualSign>>
                [] OTHER -> <<>>

\* One letter: the byte that is complete with it.  A pad is counted and adds nothing.
Decoded(s, letter) ==
  LET offset == 18 - (s.counter % 4) * 6
      stream == s.bitStream + letter * 2^offset
      byte(at) == <<Bits(stream, at, 8)>>
  IN CASE letter \in Letter ->
            [s EXCEPT !.counter = @ + 1,
                      !.bitStream = IF offset = 0 THEN 0 ELSE stream,
                      !.out = @ \o CASE offset = 18 -> <<>> [] offset = 12 -> byte(16)
                                     [] offset = 6 -> byte(8) [] offset = 0 -> byte(0)]
       [] letter = EqualSign -> [s EXCEPT !.counter = @ + 1]
       [] OTHER -> [s EXCEPT !.thrown = TRUE]

base64Decode(text) ==
  FoldLeft(Decoded, [counter |-> 0, bitStream |-> 0, out |-> <<>>, thrown |-> FALSE], text)

messagePrefix == <<62, 32>>   \* what every request begins with

\* onForwarding and buildDisconnectRequest.
Request(plaintext) == base64Encode(messagePrefix \o plaintext)

\* The request without its prefix, or none.
validateRequest(message) ==
  LET d == base64Decode(message)
  IN IF d.thrown \/ ~IsPrefix(messagePrefix, d.out) THEN <<>>
     ELSE <<SubSeq(d.out, Len(messagePrefix) + 1, Len(d.out))>>

--------------------------------------------------------------------------------
\* A request arrives as it was typed, for every length modulo three.  Text that is not
\* encoded, or that begins with something else, is refused.
RequestArrives(plaintext) ==
  /\ validateRequest(Request(plaintext)) = <<plaintext>>
  /\ Len(Request(plaintext)) % 4 = 0
  /\ validateRequest(Append(Request(plaintext), Foreign)) = <<>>
  /\ validateRequest(base64Encode(plaintext)) # <<>> => IsPrefix(messagePrefix, plaintext)

--------------------------------------------------------------------------------
(* View::segmentedOutput: the rows of a long answer, as the user asks for them. *)

\* An answer of some rows, the last of which may lack its end: lineNum counts the ends.
PagerInit ==
  \E rows \in 0 .. MaxRows, open \in {0, 1} :
    /\ open <= rows
    /\ pager = [rows |-> rows, open |-> open, shown |-> 0, counter |-> 0,
                moreRows |-> FALSE, forcedCancel |-> FALSE,
                withoutPaging |-> rows - open <= terminalRows,
                prompt |-> FALSE,
                page |-> 0, answer |-> "n"]   \* history: rows since the last answer

\* The loop: a row, and a prompt behind it where the page ends.
ShowRow ==
  /\ ~pager.prompt /\ ~pager.forcedCancel /\ pager.shown < pager.rows
  /\ pager' =
       [pager EXCEPT !.shown = @ + 1, !.counter = @ + 1, !.page = @ + 1,
                     !.prompt = /\ ~pager.withoutPaging
                                /\ pager.moreRows \/ pager.counter + 1 = terminalRows]

\* waitForUserInput(handling).  Anything else repeats the prompt.
Answer(input) ==
  /\ pager.prompt
  /\ pager' =
       [pager EXCEPT !.moreRows = input = "",
                     !.counter = IF input \in {"", "n"} THEN 0 ELSE @,
                     !.withoutPaging = @ \/ input = "c",
                     !.forcedCancel = input = "q",
                     !.prompt = input \notin {"", "c", "n", "q"},
                     !.page = IF input = "other" THEN @ ELSE 0,
                     !.answer = IF input = "other" THEN @ ELSE input]

PagerNext == ShowRow \/ \E input \in {"", "c", "n", "q", "other"} : Answer(input)

--------------------------------------------------------------------------------
\* No row scrolls away unread: as many rows follow an answer as it asks for, and the
\* user is asked while there is more.  A text whose last row has no end may be a row
\* longer than the terminal without being paged.
PagesFit ==
  LET asked == CASE pager.answer = "" -> 1 [] pager.answer = "q" -> 0
                 [] pager.answer = "n" -> terminalRows [] pager.answer = "c" -> MaxRows
  IN /\ pager.page <= asked \/ (pager.open = 1 /\ pager.shown = terminalRows + 1)
     /\ pager.shown < pager.rows /\ pager.page = asked => pager.prompt \/ pager.withoutPaging
                                                          \/ pager.forcedCancel
================================================================================
