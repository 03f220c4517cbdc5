-------------------------------- MODULE FDStream --------------------------------
(***************************************************************************)
(* utility::io::FDStreamBuffer behind FileWriter and FileReader (io.cpp,   *)
(* io.hpp): the buffers between a stream and a file descriptor, with       *)
(* writes and reads of the system that take less than they were given, and *)
(* writes that fail.                                                       *)
(*                                                                         *)
(* The handle of a behaviour is a writer, which numbers the characters it  *)
(* puts, or a reader of a file with the characters 1 .. FileSize.          *)
(***************************************************************************)
EXTENDS Integers, Sequences, SequencesExt

CONSTANTS bufferSize,
          FileSize,    \* bound: characters of the file that is read
          MaxPut,      \* bound: characters put
          MaxOpens     \* bound: times the writer is opened

VARIABLE handle

Writer ==
  [mode |-> "write", fd |-> FALSE,
   area |-> FALSE,       \* setp was called with the buffer, not with null
   buffer |-> <<>>,      \* pbase to pptr
   bad |-> FALSE,        \* the badbit of stm, which nobody clears
   file |-> <<>>,
   opens |-> 0, put |-> 0,
   accepted |-> <<>>,    \* history: the characters the stream has taken
   failed |-> FALSE,     \* history: a write has failed,
   partway |-> FALSE]    \* history: ... after another one of the same flush

Reader ==
  [mode |-> "read", fd |-> TRUE,
   get |-> <<>>,         \* gptr to egptr
   offset |-> 0,         \* of the descriptor
   place |-> 0,          \* history: the characters before the next one to be read
   astray |-> FALSE]     \* history: a seek from the end has failed

Init == handle \in {Writer, Reader}

--------------------------------------------------------------------------------
(* The writer.  The result of a flush is how many characters get into the  *)
(* file; with fewer than all of them it has failed, and the buffer stays.  *)

Flushed(h, n) ==
  LET done == n = Len(h.buffer)
  IN [h EXCEPT !.file = @ \o SubSeq(h.buffer, 1, n),
               !.buffer = IF done THEN <<>> ELSE @,
               !.area = done \/ @,
               !.failed = @ \/ ~done,
               !.partway = @ \/ (~done /\ n > 0)]

flush(h) == IF h.fd THEN {Flushed(h, n) : n \in 0 .. Len(h.buffer)} ELSE {h}
Succeeds(h) == h.buffer = <<>>   \* of the result of a flush with an open descriptor

Taken(h) ==
  [h EXCEPT !.buffer = Append(@, h.put), !.accepted = Append(@, h.put)]

\* No room, or no buffer yet: the buffer is flushed, and then has room.
overflow(h) ==
  IF ~h.fd THEN {[h EXCEPT !.bad = TRUE]}
  ELSE {IF Succeeds(f) THEN Taken(f) ELSE [f EXCEPT !.bad = TRUE] : f \in flush(h)}

IsWriter == handle.mode = "write"

\* doOpen and set, with another descriptor than the last one.
Open ==
  /\ IsWriter /\ ~handle.fd /\ handle.opens < MaxOpens
  /\ handle' = [handle EXCEPT !.fd = TRUE, !.buffer = <<>>, !.area = FALSE, !.opens = @ + 1]

\* One character into stm, which takes none while it is bad.
Put ==
  /\ IsWriter /\ ~handle.bad /\ handle.put < MaxPut
  /\ LET h == [handle EXCEPT !.put = @ + 1]
     IN handle' \in IF h.area /\ Len(h.buffer) < bufferSize THEN {Taken(h)} ELSE overflow(h)

sync ==
  /\ IsWriter /\ ~handle.bad /\ handle.fd
  /\ \E f \in flush(handle) : handle' = IF Succeeds(f) THEN f ELSE [f EXCEPT !.bad = TRUE]

\* The rest of the buffer is dropped.
MutReset ==
  IsWriter /\ handle.fd /\ handle' = [handle EXCEPT !.fd = FALSE, !.buffer = <<>>, !.area = FALSE]

\* FileHandle::close.  Whether the flush succeeds is not looked at.
reset ==
  /\ IsWriter /\ handle.fd
  /\ \E f \in flush(handle) :
       handle' = [f EXCEPT !.fd = FALSE, !.buffer = <<>>, !.area = FALSE]

--------------------------------------------------------------------------------
(* The reader *)

\* A reader that has gone astray is not followed any further.
IsReader == handle.mode = "read" /\ ~handle.astray

Delivered(h) == [h EXCEPT !.get = Tail(@), !.place = @ + 1]

\* The system reads as much as it likes, but something while there is something.
underflow(h) ==
  LET rest == IF h.offset < FileSize THEN FileSize - h.offset ELSE 0
      most == IF rest < bufferSize THEN rest ELSE bufferSize
  IN IF most = 0 THEN {h}
     ELSE {Delivered([h EXCEPT !.get = [i \in 1 .. n |-> h.offset + i], !.offset = @ + n]) :
             n \in 1 .. most}

Get ==
  /\ IsReader
  /\ handle' \in IF handle.get # <<>> THEN {Delivered(handle)} ELSE underflow(handle)

\* The new offset is counted from what the user has read, not from where the descriptor
\* is.  To count from the end the descriptor is moved there before the result is tested.
seekoff(off, way) ==
  LET new == CASE way = "beg" -> off
               [] way = "cur" -> off - Len(handle.get) + handle.offset
               [] way = "end" -> off + FileSize
      meant == IF way = "cur" THEN handle.place + off ELSE new
  IN /\ IsReader /\ new <= FileSize
     /\ handle' =
          IF new >= 0 THEN [handle EXCEPT !.get = <<>>, !.offset = new, !.place = meant]
          ELSE IF way = "end" THEN [handle EXCEPT !.offset = FileSize, !.astray = TRUE]
          ELSE handle

Seek == \E off \in {-(FileSize + 1), -1, 0, 1}, way \in {"beg", "cur", "end"} : seekoff(off, way)

\* A writer that is closed for good, and a reader that is not followed.
Done == /\ IF IsWriter THEN ~handle.fd /\ handle.opens = MaxOpens ELSE ~IsReader
        /\ UNCHANGED handle

Next == Open \/ Put \/ sync \/ reset \/ Get \/ Seek \/ Done

Spec == Init /\ [][Next]_handle

--------------------------------------------------------------------------------
IsIncreasing(s) == \A i \in 2 .. Len(s) : s[i - 1] < s[i]

\* What the stream has taken is in the file or in the buffer, through short writes, full
\* buffers and opening again, as long as no write fails.  After a failure something may
\* be missing, and nothing is twice in the file; exempt is a failure in the middle of a
\* flush, after which the next one begins from the start of the buffer again.
WritesArriveOnce ==
  IsWriter =>
    /\ ~handle.failed => handle.file \o handle.buffer = handle.accepted
    /\ ~handle.partway => IsIncreasing(handle.file)

\* The characters come in the order of the file, from the place the last seek has
\* promised.  Exempt is a failed seek from the end, which moves the descriptor.
ReadsFollowTheFile ==
  IsReader =>
    /\ handle.get # <<>> => Head(handle.get) = handle.place + 1
    /\ handle.offset = handle.place + Len(handle.get)
=================================================================================
