--------------------------------- MODULE Setting ---------------------------------
(***************************************************************************)
(* application::setting (setting.cpp, setting.hpp): loadSettings, which    *)
(* creates, reads, verifies and on request replaces the configuration      *)
(* file, and the accessors that read the configuration afterwards.  The    *)
(* file is shared by all running programs; between two starts a user may   *)
(* edit it.  A step is one operation on the file: open (which truncates,   *)
(* for writing), flock without waiting, read, write and close.             *)
(*                                                                         *)
(* A configuration is a record of the fields of the first level and of the *)
(* helpers; a value has a type and a number.  Texts that are no JSON, and  *)
(* objects that lack properties or required, are unreadable alike.         *)
(***************************************************************************)
EXTENDS Integers, Sequences, FiniteSets, Functions

CONSTANTS
  Programs,      \* the programs that may be started
  MaxStarts,     \* bound: starts in a behaviour
  MaxEdits,      \* bound: edits of the file in a behaviour
  MaxKills       \* bound: programs that are killed in a behaviour

VARIABLES
  file,          \* what the file holds: "missing", "empty", or a configuration
  pc,            \* where each program is in loadSettings, or how it has ended
  lock,          \* the flock of each program: "none", "shared", "exclusive"
  loaded,        \* the configuration of each program
  stdin,         \* "open", or "closed": a pipe whose writer is gone
  starts, edits, kills,
  spoilt         \* history: the file was edited, or an update of it was disturbed

vars == <<file, pc, lock, loaded, stdin, starts, edits, kills, spoilt>>

Value(type, n) == [type |-> type, n |-> n]

NoConfig == [kind |-> "none"]
Missing  == [kind |-> "missing"]
Empty    == [kind |-> "empty"]

--------------------------------------------------------------------------------
(* Verification *)

minPortNumber == 1024
maxPortNumber == 65535

\* What the properties of a helper may be; a text has no range.
Properties(helper) ==
  IF helper = "logger"
    THEN [filePath |-> Value("string", {}), priorityLevel |-> Value("integral", 0 .. 3),
          targetType |-> Value("integral", 0 .. 2), writeMode |-> Value("integral", 0 .. 1)]
    ELSE [tcpHost |-> Value("string", {}), udpHost |-> Value("string", {}),
          tcpPort |-> Value("integral", minPortNumber .. maxPortNumber),
          udpPort |-> Value("integral", minPortNumber .. maxPortNumber)]

IsOfField(value, field) ==
  value.type = field.type /\ (field.type = "integral" => value.n \in field.n)

checkObjectInHelperList(name, helper) ==
  /\ Cardinality(DOMAIN helper.properties) = Len(helper.required)
  /\ Range(helper.required) \subseteq DOMAIN helper.properties
  /\ \A key \in DOMAIN helper.properties :
       /\ key \in DOMAIN Properties(name)
       /\ IsOfField(helper.properties[key], Properties(name)[key])

\* Other fields of the first level are ignored; a third helper is refused.
verifyConfigData(config) ==
  LET fields == config.fields
  IN /\ {"activateHelper", "helperList", "helperTimeout"} \subseteq DOMAIN fields
     /\ fields.activateHelper.type = "boolean"
     /\ fields.helperList.type = "object"
     /\ fields.helperTimeout.type = "floating" /\ fields.helperTimeout.n >= 0
     /\ DOMAIN config.helpers = {"logger", "viewer"}
     /\ \A name \in DOMAIN config.helpers : checkObjectInHelperList(name, config.helpers[name])

dumpDefaultConfig ==
  [kind |-> "config",
   fields |-> [activateHelper |-> Value("boolean", 1), helperList |-> Value("object", 0),
               helperTimeout |-> Value("floating", 1)],
   helpers |->
     [logger |->
        [properties |-> [filePath |-> Value("string", 0), priorityLevel |-> Value("integral", 0),
                         targetType |-> Value("integral", 2), writeMode |-> Value("integral", 0)],
         required |-> <<"filePath", "priorityLevel", "targetType", "writeMode">>],
      viewer |->
        [properties |-> [tcpHost |-> Value("string", 0), tcpPort |-> Value("integral", 61501),
                         udpHost |-> Value("string", 0), udpPort |-> Value("integral", 61502)],
         required |-> <<"tcpHost", "tcpPort", "udpHost", "udpPort">>]]]

\* The fields that the accessors read, and as what: asString, asIntegral, asFloating and
\* asBoolean of another type, or at of a missing field, throw out of a noexcept function.
Accessors(of) ==
  CASE of = "program" -> [activateHelper |-> "boolean", helperTimeout |-> "floating"]
    [] of = "logger"  -> [filePath |-> "string", priorityLevel |-> "integral",
                          targetType |-> "integral", writeMode |-> "integral"]
    [] of = "viewer"  -> [tcpHost |-> "string", tcpPort |-> "integral",
                          udpHost |-> "string", udpPort |-> "integral"]

--------------------------------------------------------------------------------
(* loadSettings *)

Loading == {"check", "create", "createLock", "createWrite", "createClose", "read", "parse",
            "prompt", "forceLock", "forceWrite", "forceClose"}
Ended   == {"off", "running", "failed", "thrown"}

Updating(p) == pc[p] \in {"createLock", "createWrite", "createClose",
                          "forceLock", "forceWrite", "forceClose"}
Others(p) == Programs \ {p}
Goto(p, label) == pc' = [pc EXCEPT ![p] = label]
Holds(p, l) == lock' = [lock EXCEPT ![p] = l]
Unchanged == UNCHANGED <<loaded, stdin, starts, edits, kills>>

\* The file may not be what the last update made it once a second program is loading.
SpoiltBy(p) == spoilt \/ \E q \in Others(p) : pc[q] \in Loading

Init ==
  /\ file = Missing
  /\ pc = [p \in Programs |-> "off"]
  /\ lock = [p \in Programs |-> "none"]
  /\ loaded = [p \in Programs |-> NoConfig]
  /\ stdin \in {"open", "closed"}
  /\ starts = 0 /\ edits = 0 /\ kills = 0
  /\ spoilt = FALSE

Start(p) ==
  /\ pc[p] \in Ended \ {"running"} /\ starts < MaxStarts
  /\ Goto(p, "check")
  /\ starts' = starts + 1
  /\ spoilt' = SpoiltBy(p)
  /\ UNCHANGED <<file, lock, loaded, stdin, edits, kills>>

loadSettings(p) ==
  /\ pc[p] = "check"
  /\ Goto(p, IF file = Missing THEN "create" ELSE "read")
  /\ UNCHANGED <<file, lock, spoilt>> /\ Unchanged

\* forcedConfigUpdateByDefault: the file is truncated before it is locked ...
OpenWriter(p, here, next) ==
  /\ pc[p] = here
  /\ file' = Empty
  /\ Goto(p, next)
  /\ spoilt' = \E q \in Others(p) : pc[q] \in Loading
  /\ UNCHANGED lock /\ Unchanged

\* ... flock does not wait, and throws while another program has the file locked ...
LockWriter(p, here, next, thrown) ==
  /\ pc[p] = here
  /\ IF \A q \in Others(p) : lock[q] = "none"
       THEN Holds(p, "exclusive") /\ Goto(p, next)
       ELSE Goto(p, thrown) /\ UNCHANGED lock
  /\ UNCHANGED <<file, spoilt>> /\ Unchanged

MutWrite(p, here, next) ==   \* the text is left in the buffer
  /\ pc[p] = here
  /\ Goto(p, next)
  /\ UNCHANGED <<file, lock, spoilt>> /\ Unchanged

Write(p, here, next) ==
  /\ pc[p] = here
  /\ file' = dumpDefaultConfig
  /\ Goto(p, next)
  /\ UNCHANGED <<lock, spoilt>> /\ Unchanged

\* ... and the writer unlocks and closes.
Close(p, here, next) ==
  /\ pc[p] = here
  /\ Holds(p, "none")
  /\ Goto(p, next)
  /\ UNCHANGED <<file, spoilt>> /\ Unchanged

\* initializeConfig
Create(p) ==
  \/ OpenWriter(p, "create", "createLock")
  \/ LockWriter(p, "createLock", "createWrite", "prompt")
  \/ Write(p, "createWrite", "createClose")
  \/ Close(p, "createClose", "read")

\* readFileLines: the lock of a reader does not wait either.
LockReader(p) ==
  /\ pc[p] = "read"
  /\ IF \A q \in Others(p) : lock[q] # "exclusive"
       THEN Holds(p, "shared") /\ Goto(p, "parse")
       ELSE Goto(p, "prompt") /\ UNCHANGED lock
  /\ UNCHANGED <<file, spoilt>> /\ Unchanged

parseConfigFile(p) ==
  /\ pc[p] = "parse"
  /\ Holds(p, "none")
  /\ IF file.kind = "config" /\ verifyConfigData(file)
       THEN Goto(p, "running") /\ loaded' = [loaded EXCEPT ![p] = file]
       ELSE Goto(p, "prompt") /\ UNCHANGED loaded
  /\ UNCHANGED <<file, stdin, starts, edits, kills, spoilt>>

\* promptConfigRecovery: nobody has typed within the period, and the exception goes on.
PromptTimeout(p) ==
  /\ pc[p] = "prompt" /\ stdin = "open"
  /\ Goto(p, "thrown")
  /\ UNCHANGED <<file, lock, spoilt>> /\ Unchanged

\* y forces the update, n does not; either ends the start without an exception.  After
\* any other line, and for a pipe without a writer, waitForUserInput waits again.
PromptAnswer(p) ==
  /\ stdin = "open"
  /\ \/ OpenWriter(p, "prompt", "forceLock")
     \/ pc[p] = "prompt" /\ Goto(p, "failed") /\ UNCHANGED <<file, lock, spoilt>> /\ Unchanged

Force(p) ==
  \/ LockWriter(p, "forceLock", "forceWrite", "thrown")
  \/ Write(p, "forceWrite", "forceClose")
  \/ Close(p, "forceClose", "failed")

--------------------------------------------------------------------------------
(* The world around *)

\* A program is killed: the kernel releases its lock.
Kill(p) ==
  /\ pc[p] \in Loading /\ kills < MaxKills
  /\ Goto(p, "off") /\ Holds(p, "none")
  /\ kills' = kills + 1
  /\ spoilt' = (spoilt \/ Updating(p))
  /\ UNCHANGED <<file, loaded, stdin, starts, edits>>

\* A program that runs comes to its end.
Exit(p) ==
  /\ pc[p] = "running"
  /\ Goto(p, "off")
  /\ loaded' = [loaded EXCEPT ![p] = NoConfig]
  /\ UNCHANGED <<file, lock, stdin, starts, edits, kills, spoilt>>

Without(f, k) == [x \in DOMAIN f \ {k} |-> f[x]]
With(f, k, v) == [x \in DOMAIN f \cup {k} |-> IF x = k THEN v ELSE f[x]]

Values == {Value("string", 0), Value("integral", 1), Value("integral", 3),
           Value("integral", maxPortNumber), Value("integral", maxPortNumber + 1),
           Value("floating", -1)}

\* The helper after one edit: a property less, other or new, and a name in required
\* less or other.
EditedHelpers(helper) ==
  LET ps == helper.properties
      rs == helper.required
      names == DOMAIN ps \cup {"unknown"}
  IN {[helper EXCEPT !.properties = Without(ps, k)] : k \in DOMAIN ps}
     \cup {[helper EXCEPT !.properties = With(ps, k, v)] : k \in names, v \in Values}
     \cup {[helper EXCEPT !.required = SubSeq(rs, 2, Len(rs))]}
     \cup {[properties |-> Without(ps, rs[1]), required |-> SubSeq(rs, 2, Len(rs))] : i \in {1} \cap DOMAIN rs}
     \cup {[helper EXCEPT !.required = [rs EXCEPT ![i] = k]] : i \in DOMAIN rs, k \in names}

EditedConfigs(config) ==
  {[config EXCEPT !.fields = Without(@, k)] : k \in DOMAIN config.fields}
  \cup {[config EXCEPT !.fields = With(@, k, v)] :
          k \in DOMAIN config.fields \cup {"unknown"}, v \in Values}
  \cup {[config EXCEPT !.helpers = Without(@, h)] : h \in DOMAIN config.helpers}
  \cup {[config EXCEPT !.helpers = With(@, "other", config.helpers[h])] : h \in DOMAIN config.helpers}
  \cup UNION {{[config EXCEPT !.helpers = With(@, h, e)] : e \in EditedHelpers(config.helpers[h])} :
                h \in DOMAIN config.helpers}

Edit ==
  /\ edits < MaxEdits
  /\ \A p \in Programs : pc[p] \in Ended
  /\ file.kind = "config"
  /\ file' \in EditedConfigs(file)
  /\ edits' = edits + 1
  /\ spoilt' = TRUE
  /\ UNCHANGED <<pc, lock, loaded, stdin, starts, kills>>

\* Nobody is loading, or only at a prompt that waits for ever.
AtRest == \A p \in Programs : pc[p] \in Ended \/ (pc[p] = "prompt" /\ stdin = "closed")

Load(p) == loadSettings(p) \/ Create(p) \/ LockReader(p) \/ parseConfigFile(p) \/ Force(p)

Next ==
  \/ \E p \in Programs :
       Start(p) \/ Load(p) \/ PromptTimeout(p) \/ PromptAnswer(p) \/ Kill(p) \/ Exit(p)
  \/ Edit

\* Files are read and written, and the time of a prompt runs out.
Fairness == \A p \in Programs : WF_vars(Load(p)) /\ WF_vars(PromptTimeout(p))

--------------------------------------------------------------------------------
\* What fits an enumerator, or a port of 16 bits.
Largest ==
  [priorityLevel |-> 3, targetType |-> 2, writeMode |-> 1, tcpPort |-> 65535, udpPort |-> 65535]

\* What is there has its type and its range.
Readable(found, read) ==
  \A key \in DOMAIN read \cap DOMAIN found.properties :
    /\ found.properties[key].type = read[key]
    /\ key \in DOMAIN Largest => found.properties[key].n \in 0 .. Largest[key]

\* The fields whose accessors throw.
Lacking(found, read) == DOMAIN read \ DOMAIN found.properties

HelperNames == {"logger", "viewer"}

\* Verification compares the properties with the list that the file itself requires, so
\* that nothing is lacking exactly if that list is as long as the one of the accessors.
Safe(config) ==
  /\ \A key \in DOMAIN Accessors("program") :
       config.fields[key].type = Accessors("program")[key]
  /\ \A helper \in HelperNames :
       LET found == config.helpers[helper]
           read == Accessors(helper)
       IN /\ Readable(found, read)
          /\ Lacking(found, read) = {} <=> Len(found.required) = Cardinality(DOMAIN read)

\* A configuration that was accepted has what the accessors of setting.hpp read from it
\* with their types, ports that fit 16 bits, and numbers of an enumerator.  An accessor
\* throws only for a field that an edit has removed, from required too: an edited file
\* with too short a list is accepted.
AccessorsAreSafe ==
  \A p \in Programs : pc[p] = "running" =>
    /\ Safe(loaded[p])
    /\ edits = 0 => \A helper \in HelperNames : Lacking(loaded[p].helpers[helper], Accessors(helper)) = {}

\* Asking the user is only for files that somebody has edited, that a killed program
\* left half updated or that two programs have fought over: the update itself leaves
\* what the next start accepts.
OnlySpoiltFilesAsk == \A p \in Programs : pc[p] = "prompt" => spoilt

\* A start comes to an end, unless it asks on a pipe that nobody writes to any more.
LoadEnds ==
  \A p \in Programs :
    pc[p] \in Loading ~> (pc[p] \in Ended \/ (pc[p] = "prompt" /\ stdin = "closed"))
==================================================================================
