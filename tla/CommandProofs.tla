----------------------------- MODULE CommandProofs -----------------------------
(***************************************************************************)
(* Proofs about CommandExec for any set of command lines and any number of *)
(* calls.  While frontEndHandler visits the items, what is selected is     *)
(* what the items it has passed ask for (Chosen), and at most one of them  *)
(* asks for something; when it gives up, nothing is selected.  The back    *)
(* end reads the selection only after isParsed, when it no longer changes. *)
(*                                                                         *)
(* About Program, for any helpers: where the parent, the child and its     *)
(* services can be together (Stages), and what each exit code tells        *)
(* (Verdict).  About Setting, for any programs and users: what is loaded   *)
(* after each step of a start, and whose fault a bad file is (SettingInv). *)
(***************************************************************************)
EXTENDS MCCommand, SequenceTheorems, FiniteSetTheorems, TLAPS

Passed == Len(argv) - Len(todo)   \* the number of items visited

Helping(item) == item.kind = "sub" /\ item.choices[1] \in {"notAssigned", "help"}

\* What is selected is what the first n items ask for.
Chosen(n) ==
  /\ natives = {argv[i].name : i \in {j \in 1 .. n : argv[j].kind = "native"}}
  /\ extraHelping <=> \E i \in 1 .. n : Helping(argv[i])
  /\ choices = UNION {{<<argv[i].name, c>> : c \in Range(argv[i].choices)} :
                        i \in {j \in 1 .. n : argv[j].kind = "category"}}

\* The command line and what is left of it.
Argv ==
  /\ argv \in CommandLines \cup {<<>>}
  /\ todo \in Seq(Items) /\ Len(todo) <= Len(argv)
  /\ \A i \in 1 .. Len(todo) : todo[i] = argv[Passed + i]

\* Labels, flags and what has failed.
Control ==
  /\ fpc \in {"lock", "visit", "store", "notify", "fault", "end"}
  /\ bpc \in {"lock", "test", "block", "woken", "select", "dispatch", "end"}
  /\ mpc \in {"idle", "running", "returned"}
  /\ {isParsed, isFaulty, extraHelping} \subseteq BOOLEAN
  /\ failures \subseteq {"front", "back"}
  /\ mpc # "running" => fpc = "end" /\ bpc = "end"
  /\ isParsed => fpc \in {"notify", "fault", "end"}
  /\ bpc \in {"select", "dispatch"} => isParsed
  /\ mpc = "running" /\ bpc = "end" => isParsed
  /\ "front" \in failures => fpc \in {"store", "notify", "fault", "end"}
  /\ fpc \in {"store", "fault"} => "front" \in failures
  /\ "back" \in failures => bpc = "end"
  /\ isFaulty <=> \/ "back" \in failures
                  \/ "front" \in failures /\ fpc = "end"

\* The selection, from the front end to the back end.
Selection ==
  /\ extraHelping => natives = {} /\ choices = {}
  /\ fpc = "lock" => todo = argv
  /\ fpc \in {"lock", "visit"} => Chosen(Passed)
  /\ "front" \in failures => ~anySelected
  /\ mpc = "running" /\ fpc \in {"notify", "end"} /\ "front" \notin failures /\ bpc # "end"
       => Chosen(Len(argv))
  /\ bpc = "dispatch" => anySelected
  /\ bpc # "end" => ran = {}
  /\ bpc = "end" /\ mpc # "idle" =>
       /\ ~anySelected
       /\ ran = IF "front" \in failures THEN {} ELSE Requested
  /\ mpc = "idle" => ~anySelected

IInv == Argv /\ Control /\ Selection
--------------------------------------------------------------------------------
(* The command line. *)

\* The command line of a call is a sequence of items.
LEMMA ArgvType ==
  ASSUME argv \in CommandLines \cup {<<>>}
  PROVE  argv \in Seq(Items) /\ Len(argv) \in Nat
<1>1. argv \in Seq(Items)
  BY LinesAssumption, EmptySeq DEF LinesAssumption
<1> QED
  BY <1>1, LenProperties

\* The next item is the first one that is not passed yet.
LEMMA NextItem ==
  ASSUME Argv, todo # <<>>
  PROVE  /\ Passed \in Nat /\ Passed + 1 \in 1 .. Len(argv)
         /\ Head(todo) = argv[Passed + 1] /\ Head(todo) \in Items
<1>1. /\ Len(argv) \in Nat /\ Len(todo) \in Nat /\ Len(todo) <= Len(argv)
      /\ \A i \in 1 .. Len(todo) : todo[i] = argv[Passed + i]
  BY ArgvType, LenProperties DEF Argv
<1>2. Len(todo) # 0 /\ Head(todo) = todo[1] /\ Head(todo) \in Items
  BY EmptySeq, HeadTailProperties DEF Argv
<1>3. 1 \in 1 .. Len(todo)
  BY <1>1, <1>2
<1>4. Head(todo) = argv[Passed + 1]
  BY <1>1, <1>2, <1>3
<1> QED
  BY <1>1, <1>2, <1>4 DEF Passed

\* Visiting an item passes it.
LEMMA ItemPassed ==
  ASSUME Argv, todo # <<>>, argv' = argv, todo' = Tail(todo)
  PROVE  Argv' /\ Passed' = Passed + 1
<1>1. /\ Len(argv) \in Nat /\ Len(todo) \in Nat /\ Len(todo) <= Len(argv)
      /\ \A i \in 1 .. Len(todo) : todo[i] = argv[Passed + i]
  BY ArgvType, LenProperties DEF Argv
<1>2. Len(todo) # 0
  BY EmptySeq DEF Argv
<1>3. /\ todo' \in Seq(Items) /\ Len(todo') = Len(todo) - 1
      /\ \A i \in 1 .. Len(todo') : todo'[i] = todo[i + 1]
  BY HeadTailProperties DEF Argv
<1>4. Passed' = Passed + 1
  BY <1>1, <1>3 DEF Passed
<1>5. ASSUME NEW i \in 1 .. Len(todo')
      PROVE  todo'[i] = argv[Passed' + i]
  <2>1. i + 1 \in 1 .. Len(todo)
    BY <1>1, <1>2, <1>3
  <2>2. Passed + (i + 1) = Passed' + i
    BY <1>1, <1>4 DEF Passed
  <2> QED
    BY <1>1, <1>3, <2>1, <2>2
<1> QED
  BY <1>1, <1>3, <1>4, <1>5 DEF Argv
--------------------------------------------------------------------------------
(* The selection. *)

\* Only the first items of the line matter to Chosen, and the line stays.
LEMMA NativeChosen ==
  ASSUME NEW n \in Nat, Chosen(n), ~anySelected, argv' = argv,
         argv[n + 1].kind = "native",
         natives' = natives \cup {argv[n + 1].name},
         extraHelping' = extraHelping, choices' = choices
  PROVE  Chosen(n + 1)'
<1>1. 1 .. n + 1 = (1 .. n) \cup {n + 1}
  OBVIOUS
<1>2. natives' = {argv[i].name : i \in {j \in 1 .. n + 1 : argv[j].kind = "native"}}
  BY <1>1 DEF Chosen
<1>3. extraHelping' <=> \E i \in 1 .. n + 1 : Helping(argv[i])
  BY <1>1 DEF Chosen, Helping
<1>4. {j \in 1 .. n + 1 : argv[j].kind = "category"} = {j \in 1 .. n : argv[j].kind = "category"}
  BY <1>1
<1>5. choices' = UNION {{<<argv[i].name, c>> : c \in Range(argv[i].choices)} :
                        i \in {j \in 1 .. n + 1 : argv[j].kind = "category"}}
  BY <1>4 DEF Chosen
<1> QED
  BY <1>2, <1>3, <1>5 DEF Chosen, Helping

LEMMA SubChosen ==
  ASSUME NEW n \in Nat, Chosen(n), ~anySelected, argv' = argv,
         argv[n + 1].kind = "sub",
         extraHelping' = (argv[n + 1].choices[1] \in {"notAssigned", "help"}),
         natives' = natives, choices' = choices
  PROVE  Chosen(n + 1)'
<1>1. 1 .. n + 1 = (1 .. n) \cup {n + 1}
  OBVIOUS
<1>2. natives' = {argv[i].name : i \in {j \in 1 .. n + 1 : argv[j].kind = "native"}}
  BY <1>1 DEF Chosen
<1>3. extraHelping' <=> \E i \in 1 .. n + 1 : Helping(argv[i])
  BY <1>1 DEF Chosen, Helping, anySelected
<1>4. {j \in 1 .. n + 1 : argv[j].kind = "category"} = {j \in 1 .. n : argv[j].kind = "category"}
  BY <1>1
<1>5. choices' = UNION {{<<argv[i].name, c>> : c \in Range(argv[i].choices)} :
                        i \in {j \in 1 .. n + 1 : argv[j].kind = "category"}}
  BY <1>4 DEF Chosen
<1> QED
  BY <1>2, <1>3, <1>5 DEF Chosen, Helping

LEMMA ChoicesChosen ==
  ASSUME NEW n \in Nat, Chosen(n), ~anySelected, argv' = argv,
         argv[n + 1].kind = "category",
         choices' = choices \cup {<<argv[n + 1].name, c>> : c \in Range(argv[n + 1].choices)},
         natives' = natives, extraHelping' = extraHelping
  PROVE  Chosen(n + 1)'
<1>1. 1 .. n + 1 = (1 .. n) \cup {n + 1}
  OBVIOUS
<1>2. natives' = {argv[i].name : i \in {j \in 1 .. n + 1 : argv[j].kind = "native"}}
  BY <1>1 DEF Chosen
<1>3. extraHelping' <=> \E i \in 1 .. n + 1 : Helping(argv[i])
  BY <1>1 DEF Chosen, Helping
<1>4. {j \in 1 .. n + 1 : argv[j].kind = "category"}
        = {j \in 1 .. n : argv[j].kind = "category"} \cup {n + 1}
  BY <1>1
<1> DEFINE Given(i) == {<<argv[i].name, c>> : c \in Range(argv[i].choices)}
<1>5. choices' = UNION {Given(i) : i \in {j \in 1 .. n + 1 : argv[j].kind = "category"}}
  <2>1. /\ choices = UNION {Given(i) : i \in {j \in 1 .. n : argv[j].kind = "category"}}
        /\ choices' = choices \cup Given(n + 1)
    BY DEF Chosen
  <2> HIDE DEF Given
  <2> QED
    BY <1>4, <2>1
<1> QED
  BY <1>2, <1>3, <1>5 DEF Chosen, Helping

\* The back end runs what the line asks for, once it is chosen.
LEMMA DispatchedIsRequested ==
  ASSUME argv \in CommandLines \cup {<<>>}, Chosen(Len(argv)),
         extraHelping => natives = {} /\ choices = {}
  PROVE  Dispatched = Requested
<1>1. argv \in Seq(Items) /\ DOMAIN argv = 1 .. Len(argv)
  BY ArgvType, LenProperties
<1>2. \A i, j \in DOMAIN argv : argv[i].kind = "sub" /\ argv[j].kind = "sub" => i = j
  BY LinesAssumption, EmptySeq DEF LinesAssumption
<1> DEFINE At(kind)   == {j \in DOMAIN argv : argv[j].kind = kind}
           Subs       == {argv[i] : i \in At("sub")}
           Explained  == {s \in Subs : s.choices[1] \in {"notAssigned", "help"}}
           Picked(x)  == {<<x.name, c>> : c \in Range(x.choices)}
<1>3. /\ natives = {argv[i].name : i \in At("native")}
      /\ extraHelping <=> \E i \in DOMAIN argv : Helping(argv[i])
      /\ choices = UNION {Picked(argv[i]) : i \in At("category")}
  BY <1>1 DEF Chosen
<1>4. {<<"native", n>> : n \in natives}
        = {<<"native", x.name>> : x \in {argv[i] : i \in At("native")}}
  BY <1>3
<1>5. choices = UNION {Picked(x) : x \in {argv[i] : i \in At("category")}}
  <2> HIDE DEF Picked, At
  <2> QED
    BY <1>3
<1>6. CASE extraHelping
  <2>1. PICK k \in DOMAIN argv : Helping(argv[k])
    BY <1>3, <1>6
  <2>2. At("sub") = {k}
    BY <1>2, <2>1 DEF Helping
  <2>3. Explained = {argv[k]}
    BY <2>1, <2>2 DEF Helping
  <2>4. {<<"help", argv[i].name>> : i \in At("sub")} = {<<"help", s.name>> : s \in Explained}
    BY <2>2, <2>3
  <2>5. Requested = {<<"native", n>> : n \in natives}
                      \cup {<<"help", s.name>> : s \in Explained} \cup choices
    BY <1>4, <1>5 DEF Requested
  <2>6. Dispatched = {<<"native", n>> : n \in natives}
                       \cup {<<"help", argv[i].name>> : i \in At("sub")}
    BY <1>6 DEF Dispatched
  <2> QED
    BY <1>6, <2>4, <2>5, <2>6
<1>7. CASE ~extraHelping
  <2>1. Explained = {}
    BY <1>3, <1>7 DEF Helping
  <2>2. {<<"help", s.name>> : s \in Explained} = {}
    BY <2>1
  <2>3. Requested = {<<"native", n>> : n \in natives}
                      \cup {<<"help", s.name>> : s \in Explained} \cup choices
    BY <1>4, <1>5 DEF Requested
  <2>4. Dispatched = {<<"native", n>> : n \in natives} \cup choices
    BY <1>7 DEF Dispatched
  <2> QED
    BY <2>2, <2>3, <2>4
<1> QED
  BY <1>6, <1>7
--------------------------------------------------------------------------------
(* The steps. *)

LEMMA InitIInv == Init => IInv
<1> SUFFICES ASSUME Init PROVE IInv
  OBVIOUS
<1>1. Argv
  BY EmptySeq DEF Init, Argv
<1>2. Control
  BY DEF Init, Control
<1>3. ~anySelected
  BY DEF Init, anySelected
<1>4. Selection
  BY <1>3 DEF Init, Selection
<1> QED
  BY <1>1, <1>2, <1>4 DEF IInv

\* Only DoExecute gives a new command line, and only FrontNext passes an item.
LEMMA LineKept == ASSUME Argv, [Next]_vars PROVE Argv'
<1>1. ASSUME NEW line \in CommandLines, DoExecute(line) PROVE Argv'
  <2>1. /\ argv' = line /\ todo' = line /\ line \in Seq(Items)
    BY <1>1, LinesAssumption DEF DoExecute, LinesAssumption
  <2>2. Len(line) \in Nat
    BY <2>1, LenProperties
  <2>3. Passed' = 0
    BY <2>1, <2>2 DEF Passed
  <2> QED
    BY <2>1, <2>2, <2>3 DEF Argv
<1>2. ASSUME argv' = argv, todo' = todo PROVE Argv'
  BY <1>2 DEF Argv, Passed
<1>3. ASSUME FrontNext, todo # <<>> PROVE Argv'
  BY <1>3, ItemPassed DEF FrontNext
<1>4. CASE SelectNative
  BY <1>3, <1>4 DEF SelectNative, Visiting
<1>5. CASE SelectSub
  BY <1>3, <1>5 DEF SelectSub, Visiting
<1>6. CASE SelectChoices
  <2>1. FrontThrows \/ (FrontNext /\ todo # <<>>)
    BY <1>6 DEF SelectChoices, Visiting
  <2> QED
    BY <1>2, <1>3, <2>1 DEF FrontThrows
<1>7. CASE FrontLock \/ ParseFails \/ ExcessArgs \/ FrontPublish \/ FrontStore
           \/ FrontNotify \/ FrontFault
  BY <1>2, <1>7, Zenon DEF FrontLock, ParseFails, ExcessArgs, FrontThrows, FrontPublish,
     FrontStore, FrontNotify, FrontFault
<1>8. CASE BackStep
  <2>1. ASSUME NEW a, NEW b, BackGoto(a, b) PROVE Argv'
    BY <1>2, <2>1, Zenon DEF BackGoto
  <2> QED
    BY <1>2, <1>8, <2>1, Zenon DEF BackStep, BackLock, BackTest, BackBlock, BackWake,
       BackSelect, DispatchTasks, DispatchThrows
<1>9. CASE SpuriousWakeup \/ Join \/ Terminated \/ UNCHANGED vars
  BY <1>2, <1>9, Zenon DEF SpuriousWakeup, Join, Terminated, vars
<1> QED
  BY <1>1, <1>4, <1>5, <1>6, <1>7, <1>8, <1>9, Zenon DEF Next, FrontStep

\* The flags follow the labels.
LEMMA ControlKept == ASSUME Control, [Next]_vars PROVE Control'
<1> USE DEF Control, selection
<1>1. ASSUME NEW line \in CommandLines, DoExecute(line) PROVE Control'
  BY <1>1 DEF DoExecute
<1>2. CASE Join
  BY <1>2 DEF Join
<1>3. CASE FrontLock
  BY <1>3 DEF FrontLock
<1>4. ASSUME fpc = "visit", FrontThrows, extraHelping' \in BOOLEAN PROVE Control'
  BY <1>4 DEF FrontThrows
<1>5. ASSUME fpc = "visit", FrontNext, extraHelping' \in BOOLEAN PROVE Control'
  BY <1>5 DEF FrontNext
<1>6. CASE ParseFails
  BY <1>4, <1>6 DEF ParseFails, Visiting
<1>7. CASE ExcessArgs
  BY <1>4, <1>7 DEF ExcessArgs, clearSelected
<1>8. CASE SelectNative
  BY <1>5, <1>8 DEF SelectNative, Visiting
<1>9. CASE SelectSub
  BY <1>5, <1>9 DEF SelectSub, Visiting
<1>10. CASE SelectChoices
  <2>1. fpc = "visit" /\ (FrontThrows \/ FrontNext) /\ extraHelping' = extraHelping
    BY <1>10 DEF SelectChoices, Visiting
  <2> QED
    BY <1>4, <1>5, <2>1
<1>11. CASE FrontPublish
  BY <1>11 DEF FrontPublish
<1>12. CASE FrontStore
  BY <1>12 DEF FrontStore
<1>13. CASE FrontNotify
  BY <1>13 DEF FrontNotify
<1>14. CASE FrontFault
  BY <1>14 DEF FrontFault
<1>15. CASE BackLock
  BY <1>15 DEF BackLock, BackGoto
<1>16. CASE BackTest
  BY <1>16 DEF BackTest, BackGoto
<1>17. CASE BackBlock
  BY <1>17 DEF BackBlock, BackGoto
<1>18. CASE BackWake
  BY <1>18 DEF BackWake, BackGoto
<1>19. CASE BackSelect
  BY <1>19 DEF BackSelect, BackGoto
<1>20. CASE DispatchTasks
  BY <1>20 DEF DispatchTasks, clearSelected
<1>21. CASE DispatchThrows
  BY <1>21 DEF DispatchThrows, clearSelected
<1>22. CASE SpuriousWakeup
  BY <1>22 DEF SpuriousWakeup
<1>23. CASE Terminated \/ UNCHANGED vars
  <2>1. /\ fpc' = fpc /\ bpc' = bpc /\ mpc' = mpc /\ isParsed' = isParsed
        /\ isFaulty' = isFaulty /\ extraHelping' = extraHelping /\ failures' = failures
    BY <1>23, Zenon DEF Terminated, vars
  <2> QED
    BY <2>1
<1> QED
  BY <1>1, <1>2, <1>3, <1>6, <1>7, <1>8, <1>9, <1>10, <1>11, <1>12, <1>13, <1>14, <1>15,
     <1>16, <1>17, <1>18, <1>19, <1>20, <1>21, <1>22, <1>23, Zenon DEF Next, FrontStep, BackStep
\* A step that leaves the line and the selection alone changes nothing that is said of them.
LEMMA SelectionAlone ==
  ASSUME argv' = argv, todo' = todo, UNCHANGED selection
  PROVE  /\ Passed' = Passed /\ Requested' = Requested /\ Dispatched' = Dispatched
         /\ anySelected' <=> anySelected
         /\ \A n : Chosen(n)' <=> Chosen(n)
<1>1. natives' = natives /\ extraHelping' = extraHelping /\ choices' = choices
  BY DEF selection
<1>2. Passed' = Passed /\ Requested' = Requested /\ Dispatched' = Dispatched
  BY <1>1 DEF Passed, Requested, Dispatched
<1>3. anySelected' <=> anySelected
  BY <1>1 DEF anySelected
<1>4. \A n : Chosen(n)' <=> Chosen(n)
  BY <1>1 DEF Chosen, Helping
<1> QED
  BY <1>2, <1>3, <1>4

\* Nothing is dispatched when nothing is selected.
LEMMA NothingDispatched ==
  ASSUME ~anySelected PROVE Dispatched = {}
<1>1. natives = {} /\ choices = {} /\ ~extraHelping
  BY DEF anySelected
<1>2. {<<"native", n>> : n \in natives} = {}
  BY <1>1
<1> QED
  BY <1>1, <1>2 DEF Dispatched

\* The front end selects what the items ask for, one at a time.
LEMMA SelectionOfFront ==
  ASSUME IInv, FrontStep PROVE Selection'
<1> USE DEF IInv
<1>1. ASSUME argv' = argv, todo' = todo, UNCHANGED selection, bpc' = bpc, mpc' = mpc,
             ran' = ran, failures' = failures,
             fpc' = "visit" => fpc = "lock",
             fpc' \in {"notify", "end"} /\ "front" \notin failures
               => \/ fpc \in {"notify", "end"}
                  \/ fpc = "visit" /\ todo = <<>>,
             fpc' # "lock"
      PROVE  Selection'
  <2>1. /\ Passed' = Passed /\ Requested' = Requested
        /\ anySelected' <=> anySelected
        /\ \A n : Chosen(n)' <=> Chosen(n)
        /\ natives' = natives /\ extraHelping' = extraHelping /\ choices' = choices
    BY <1>1, SelectionAlone DEF selection
  <2>2. todo = <<>> => Passed = Len(argv)
    <3>1. Len(argv) \in Nat /\ Len(<<>>) = 0
      BY ArgvType, EmptySeq DEF Argv
    <3> QED
      BY <3>1 DEF Passed
  <2>3. /\ argv' = argv => Len(argv') = Len(argv)
        /\ (Chosen(Len(argv)))' <=> Chosen(Len(argv))
        /\ (Chosen(Passed))' <=> Chosen(Passed)
    BY <1>1, <2>1 DEF Chosen, Helping, Passed
  <2>4. fpc \in {"lock", "visit"} => Chosen(Passed)
    BY DEF Selection
  <2>5. fpc' = "visit" => (Chosen(Passed))'
    BY <1>1, <2>3, <2>4
  <2>6. mpc' = "running" /\ fpc' \in {"notify", "end"} /\ "front" \notin failures' /\ bpc' # "end"
          => (Chosen(Len(argv)))'
    <3> SUFFICES ASSUME mpc = "running", fpc' \in {"notify", "end"}, "front" \notin failures,
                        bpc # "end"
                 PROVE  Chosen(Len(argv))
      BY <1>1, <2>3
    <3>1. CASE fpc \in {"notify", "end"}
      BY <3>1 DEF Selection
    <3>2. CASE fpc = "visit" /\ todo = <<>>
      BY <2>2, <2>4, <3>2
    <3> QED
      BY <1>1, <3>1, <3>2
  <2> HIDE DEF IInv
  <2>7. Selection
    BY DEF IInv
  <2>8. /\ extraHelping' => natives' = {} /\ choices' = {}
        /\ "front" \in failures' => ~anySelected'
        /\ bpc' = "dispatch" => anySelected'
        /\ bpc' # "end" => ran' = {}
        /\ bpc' = "end" /\ mpc' # "idle" =>
             /\ ~anySelected'
             /\ ran' = IF "front" \in failures' THEN {} ELSE Requested'
        /\ mpc' = "idle" => ~anySelected'
    BY <1>1, <2>1, <2>7 DEF Selection
  <2> QED
    BY <1>1, <2>5, <2>6, <2>8 DEF Selection
<1>2. ASSUME FrontThrows, fpc = "visit", ~anySelected', extraHelping' \in BOOLEAN PROVE Selection'
  <2>1. /\ fpc' = "store" /\ failures' = failures \cup {"front"}
        /\ bpc' = bpc /\ mpc' = mpc /\ ran' = ran /\ isParsed' = isParsed
    BY <1>2 DEF FrontThrows
  <2>2. mpc = "running" /\ bpc \notin {"end", "select", "dispatch"}
    BY <1>2 DEF Control
  <2>3. ran' = {}
    BY <2>1, <2>2 DEF Selection
  <2>4. extraHelping' => natives' = {} /\ choices' = {}
    BY <1>2 DEF anySelected
  <2> QED
    BY <1>2, <2>1, <2>2, <2>3, <2>4 DEF Selection
<1>3. ASSUME FrontNext, fpc = "visit", todo # <<>>, ~anySelected,
             \A n \in Nat : n = Passed => (Chosen(n + 1))',
             extraHelping' => natives' = {} /\ choices' = {}
      PROVE  Selection'
  <2>1. /\ fpc' = "visit" /\ failures' = failures
        /\ bpc' = bpc /\ mpc' = mpc /\ ran' = ran /\ argv' = argv /\ todo' = Tail(todo)
    BY <1>3 DEF FrontNext
  <2>2. mpc = "running" /\ bpc \notin {"end", "select", "dispatch"} /\ "front" \notin failures
    BY <1>3 DEF Control
  <2>3. Passed \in Nat /\ Passed' = Passed + 1
    BY <1>3, <2>1, NextItem, ItemPassed
  <2>4. (Chosen(Passed))'
    BY <1>3, <2>3
  <2>5. ran' = {}
    BY <2>1, <2>2 DEF Selection
  <2> QED
    BY <1>3, <2>1, <2>2, <2>4, <2>5 DEF Selection
<1>4. CASE FrontLock
  BY <1>1, <1>4 DEF FrontLock
<1>5. CASE ParseFails
  <2>1. fpc = "visit" /\ todo # <<>> /\ Head(todo).kind = "malformed" /\ FrontThrows
        /\ UNCHANGED selection /\ argv' = argv /\ todo' = todo
    BY <1>5 DEF ParseFails, Visiting, FrontThrows
  <2>2. /\ Passed \in Nat /\ Passed + 1 \in 1 .. Len(argv) /\ argv[Passed + 1].kind = "malformed"
    BY <2>1, NextItem
  <2>3. argv \in Seq(Items) /\ Len(argv) \in Nat /\ DOMAIN argv = 1 .. Len(argv)
    BY ArgvType, LenProperties DEF Argv
  <2>4. Passed + 1 \in DOMAIN argv
    BY <2>2, <2>3
  <2>5. argv \in CommandLines
    BY <2>2, <2>3, EmptySeq DEF Argv
  <2>6. Len(argv) = 1
    BY <2>2, <2>4, <2>5, LinesAssumption DEF LinesAssumption
  <2>7. Passed = 0
    BY <2>2, <2>6
  <2>8. Chosen(0)
    BY <2>1, <2>7 DEF Selection
  <2>9. natives = {} /\ choices = {} /\ ~extraHelping
    BY <2>8, SMT DEF Chosen
  <2>10. ~anySelected' /\ extraHelping' \in BOOLEAN
    BY <2>1, <2>9 DEF anySelected, selection, Control
  <2> QED
    BY <1>2, <2>1, <2>10
<1>6. CASE ExcessArgs
  BY <1>2, <1>6 DEF ExcessArgs, clearSelected, anySelected
<1>7. CASE SelectNative
  <2>1. /\ fpc = "visit" /\ todo # <<>> /\ Head(todo).kind = "native" /\ ~anySelected
        /\ natives' = natives \cup {Head(todo).name}
        /\ extraHelping' = extraHelping /\ choices' = choices
        /\ FrontNext /\ argv' = argv
    BY <1>7 DEF SelectNative, Visiting, FrontNext
  <2>2. Passed \in Nat /\ Head(todo) = argv[Passed + 1] /\ Chosen(Passed)
    BY <2>1, NextItem DEF Selection
  <2>3. \A n \in Nat : n = Passed => (Chosen(n + 1))'
    BY <2>1, <2>2, NativeChosen
  <2>4. ~extraHelping'
    BY <2>1 DEF anySelected
  <2> QED
    BY <1>3, <2>1, <2>3, <2>4
<1>8. CASE SelectSub
  <2>1. /\ fpc = "visit" /\ todo # <<>> /\ Head(todo).kind = "sub" /\ ~anySelected
        /\ extraHelping' = (Head(todo).choices[1] \in {"notAssigned", "help"})
        /\ natives' = natives /\ choices' = choices
        /\ FrontNext /\ argv' = argv
    BY <1>8 DEF SelectSub, Visiting, FrontNext
  <2>2. Passed \in Nat /\ Head(todo) = argv[Passed + 1] /\ Chosen(Passed)
    BY <2>1, NextItem DEF Selection
  <2>3. \A n \in Nat : n = Passed => (Chosen(n + 1))'
    BY <2>1, <2>2, SubChosen
  <2>4. natives' = {} /\ choices' = {}
    BY <2>1 DEF anySelected
  <2> QED
    BY <1>3, <2>1, <2>3, <2>4
<1>9. CASE SelectChoices
  <2>1. /\ fpc = "visit" /\ todo # <<>> /\ Head(todo).kind = "category" /\ ~anySelected
        /\ natives' = natives /\ extraHelping' = extraHelping
    BY <1>9 DEF SelectChoices, Visiting
  <2>2. Passed \in Nat /\ Head(todo) = argv[Passed + 1] /\ Chosen(Passed)
    BY <2>1, NextItem DEF Selection
  <2>3. natives = {} /\ ~extraHelping /\ choices = {}
    BY <2>1 DEF anySelected
  <2>4. CASE "invalid" \in Range(Head(todo).choices)
    <3>1. choices' = {s \in choices : s[1] # Head(todo).name} /\ FrontThrows
      BY <1>9, <2>4 DEF SelectChoices
    <3>2. ~anySelected' /\ extraHelping' \in BOOLEAN
      BY <2>1, <2>3, <3>1 DEF anySelected, Control
    <3> QED
      BY <1>2, <2>1, <3>1, <3>2
  <2>5. CASE "invalid" \notin Range(Head(todo).choices)
    <3>1. /\ choices' = choices \cup {<<Head(todo).name, c>> : c \in Range(Head(todo).choices)}
          /\ FrontNext /\ argv' = argv
      BY <1>9, <2>5 DEF SelectChoices, FrontNext
    <3>2. \A n \in Nat : n = Passed => (Chosen(n + 1))'
      BY <2>1, <2>2, <3>1, ChoicesChosen
    <3> QED
      BY <1>3, <2>1, <2>3, <3>1, <3>2
  <2> QED
    BY <2>4, <2>5
<1>10. CASE FrontPublish
  BY <1>1, <1>10 DEF FrontPublish
<1>11. CASE FrontStore
  BY <1>1, <1>11 DEF FrontStore, Control
<1>12. CASE FrontNotify
  BY <1>1, <1>12 DEF FrontNotify
<1>13. CASE FrontFault
  BY <1>1, <1>13 DEF FrontFault, Control
<1> QED
  BY <1>4, <1>5, <1>6, <1>7, <1>8, <1>9, <1>10, <1>11, <1>12, <1>13, Zenon DEF FrontStep
\* The back end leaves the selection alone until it has run it.
LEMMA SelectionOfBack ==
  ASSUME IInv, BackStep \/ SpuriousWakeup PROVE Selection'
<1> USE DEF IInv
<1>1. ASSUME argv' = argv, todo' = todo, UNCHANGED selection, fpc' = fpc, mpc' = mpc,
             ran' = ran, failures' = failures,
             bpc = "end" <=> bpc' = "end", bpc' = "dispatch" => anySelected
      PROVE  Selection'
  <2>1. /\ Requested' = Requested /\ (anySelected' <=> anySelected)
        /\ natives' = natives /\ extraHelping' = extraHelping /\ choices' = choices
    BY <1>1, SelectionAlone DEF selection
  <2>2. /\ (Chosen(Len(argv)))' <=> Chosen(Len(argv))
        /\ (Chosen(Passed))' <=> Chosen(Passed)
    BY <1>1, <2>1 DEF Chosen, Helping, Passed
  <2> QED
    BY <1>1, <2>1, <2>2 DEF Selection
<1>2. ASSUME NEW a, NEW b, BackGoto(a, b)
      PROVE  /\ argv' = argv /\ todo' = todo /\ UNCHANGED selection /\ fpc' = fpc /\ mpc' = mpc
             /\ ran' = ran /\ failures' = failures /\ bpc = a /\ bpc' = b
  BY <1>2 DEF BackGoto
<1>3. CASE BackLock
  BY <1>1, <1>2, <1>3 DEF BackLock
<1>4. CASE BackTest
  BY <1>1, <1>2, <1>4 DEF BackTest
<1>5. CASE BackBlock
  BY <1>1, <1>2, <1>5 DEF BackBlock
<1>6. CASE BackWake
  BY <1>1, <1>2, <1>6 DEF BackWake
<1>7. CASE SpuriousWakeup
  BY <1>1, <1>7 DEF SpuriousWakeup, Selection
<1>8. ASSUME bpc \in {"select", "dispatch"}
      PROVE  /\ mpc = "running" /\ fpc \in {"notify", "fault", "end"}
             /\ "front" \in failures => Dispatched = {}
             /\ "front" \notin failures => Dispatched = Requested
  <2>1. /\ mpc = "running" /\ fpc \in {"notify", "fault", "end"}
    BY <1>8 DEF Control
  <2>2. "front" \in failures => Dispatched = {}
    BY NothingDispatched DEF Selection
  <2>3. "front" \notin failures => fpc \in {"notify", "end"}
    BY <2>1 DEF Control
  <2>4. "front" \notin failures => Dispatched = Requested
    BY <1>8, <2>1, <2>3, DispatchedIsRequested DEF Selection, Argv
  <2> QED
    BY <2>1, <2>2, <2>4
<1>9. CASE BackSelect
  <2>1. /\ argv' = argv /\ todo' = todo /\ UNCHANGED selection /\ fpc' = fpc /\ mpc' = mpc
        /\ ran' = ran /\ failures' = failures /\ bpc = "select"
        /\ bpc' = IF anySelected THEN "dispatch" ELSE "end"
    BY <1>2, <1>9 DEF BackSelect
  <2>2. CASE anySelected
    BY <1>1, <2>1, <2>2
  <2>3. CASE ~anySelected
    <3>1. /\ bpc' = "end" /\ Requested' = Requested /\ ~anySelected'
          /\ natives' = {} /\ ~extraHelping' /\ choices' = {}
      BY <2>1, <2>3, SelectionAlone DEF anySelected, selection
    <3>2. ran' = IF "front" \in failures' THEN {} ELSE Requested'
      BY <1>8, <2>1, <2>3, <3>1, NothingDispatched DEF Selection
    <3>3. fpc' \notin {"lock", "visit"} /\ mpc' = "running"
      BY <1>8, <2>1
    <3> QED
      BY <3>1, <3>2, <3>3 DEF Selection
  <2> QED
    BY <2>2, <2>3
<1>10. ASSUME bpc = "dispatch", ran' = Dispatched, clearSelected, bpc' = "end",
              argv' = argv, fpc' = fpc, mpc' = mpc,
              "front" \in failures' <=> "front" \in failures
       PROVE  Selection'
  <2>1. Requested' = Requested
    BY <1>10 DEF Requested
  <2>2. ~anySelected' /\ natives' = {} /\ ~extraHelping' /\ choices' = {}
    BY <1>10 DEF clearSelected, anySelected
  <2>3. ran' = IF "front" \in failures' THEN {} ELSE Requested'
    BY <1>8, <1>10, <2>1
  <2>4. fpc' \notin {"lock", "visit"} /\ mpc' = "running"
    BY <1>8, <1>10
  <2> QED
    BY <1>10, <2>2, <2>3, <2>4 DEF Selection
<1>11. CASE DispatchTasks
  BY <1>10, <1>11 DEF DispatchTasks
<1>12. CASE DispatchThrows
  BY <1>10, <1>12 DEF DispatchThrows
<1> QED
  BY <1>3, <1>4, <1>5, <1>6, <1>7, <1>9, <1>11, <1>12, Zenon DEF BackStep

\* A call starts with nothing selected and returns with nothing selected.
LEMMA SelectionOfCall ==
  ASSUME IInv,
         (\E line \in CommandLines : DoExecute(line)) \/ Join \/ Terminated \/ UNCHANGED vars
  PROVE  Selection'
<1> USE DEF IInv
<1>1. ASSUME NEW line \in CommandLines, DoExecute(line) PROVE Selection'
  <2>1. /\ mpc # "running" /\ argv' = line /\ todo' = line /\ UNCHANGED selection
        /\ fpc' = "lock" /\ bpc' = "lock" /\ mpc' = "running" /\ ran' = {} /\ failures' = {}
    BY <1>1 DEF DoExecute
  <2>2. ~anySelected
    BY <2>1 DEF Control, Selection
  <2>3. /\ ~anySelected' /\ natives' = {} /\ ~extraHelping' /\ choices' = {}
        /\ extraHelping' \in BOOLEAN
    BY <2>1, <2>2 DEF anySelected, selection, Control
  <2>4. Passed' = 0
    <3>1. Len(line) \in Nat
      BY LinesAssumption, LenProperties DEF LinesAssumption
    <3> QED
      BY <2>1, <3>1 DEF Passed
  <2>5. 1 .. 0 = {}
    OBVIOUS
  <2>6. (Chosen(Passed))'
    BY <2>3, <2>4, <2>5 DEF Chosen
  <2> QED
    BY <2>1, <2>3, <2>6 DEF Selection
<1>2. ASSUME argv' = argv, todo' = todo, UNCHANGED selection, fpc' = fpc, bpc' = bpc,
             ran' = ran, failures' = failures, mpc' = mpc \/ (mpc = "running" /\ fpc = "end"
               /\ bpc = "end" /\ mpc' = "returned")
      PROVE  Selection'
  <2>1. /\ Requested' = Requested /\ (anySelected' <=> anySelected)
        /\ natives' = natives /\ extraHelping' = extraHelping /\ choices' = choices
    BY <1>2, SelectionAlone DEF selection
  <2>2. /\ (Chosen(Len(argv)))' <=> Chosen(Len(argv))
        /\ (Chosen(Passed))' <=> Chosen(Passed)
    BY <1>2, <2>1 DEF Chosen, Helping, Passed
  <2> QED
    BY <1>2, <2>1, <2>2 DEF Selection
<1>3. CASE Join
  BY <1>2, <1>3 DEF Join
<1>4. CASE Terminated \/ UNCHANGED vars
  BY <1>2, <1>4 DEF Terminated, vars, selection
<1> QED
  BY <1>1, <1>3, <1>4, Zenon

\* Each step keeps the invariant.
LEMMA StepIInv == IInv /\ [Next]_vars => IInv'
<1> SUFFICES ASSUME IInv, [Next]_vars PROVE IInv'
  OBVIOUS
<1>1. Argv'
  BY LineKept DEF IInv
<1>2. Control'
  BY ControlKept DEF IInv
<1>3. Selection'
  BY SelectionOfFront, SelectionOfBack, SelectionOfCall, Zenon DEF Next
<1> QED
  BY <1>1, <1>2, <1>3 DEF IInv

--------------------------------------------------------------------------------
(* The theorems. *)

\* While the two handlers of doExecute run, the selection is what the items passed so far
\* ask for, and the back end reads it only when no more items are to come.
THEOREM CommandIInv == Spec => []IInv
<1> QED
  BY InitIInv, StepIInv, PTL DEF Spec

\* doExecute has run all that an accepted line asks for and nothing of a refused one,
\* leaves nothing selected, and is faulty exactly when a handler caught an exception:
\* whatever the command lines, the number of calls and the tasks that fail.
THEOREM CallsRunWhatWasAsked == Spec => []RunsWhatWasAsked
<1>1. IInv => RunsWhatWasAsked
  <2> SUFFICES ASSUME IInv, mpc = "returned"
               PROVE  /\ ran = IF "front" \in failures THEN {} ELSE Requested
                      /\ ~anySelected
                      /\ isFaulty <=> failures # {}
    BY DEF RunsWhatWasAsked
  <2>1. bpc = "end" /\ fpc = "end"
    BY DEF IInv, Control
  <2>2. /\ ran = IF "front" \in failures THEN {} ELSE Requested
        /\ ~anySelected
    BY <2>1 DEF IInv, Selection
  <2>3. isFaulty <=> failures # {}
    BY <2>1 DEF IInv, Control
  <2> QED
    BY <2>2, <2>3
<1> QED
  BY <1>1, CommandIInv, PTL

--------------------------------------------------------------------------------
(* The parent and its child. *)

Over == {"exited", "killed"}

\* What the services may be doing where the child is.
Stages ==
  /\ sender \in [Helpers -> {"none", "startup", "shutdown", "arrived"}]
  /\ service \in [Helpers -> {"none", "ready", "serving", "idle", "stopping", "deaf", "returned"}]
  /\ child \in {"none", "forked", "asked", "run"} => sender = P!Rests /\ service = P!Rests
  /\ child = "launched" =>
       sender = P!Rests /\ service \in {[h \in Helpers |-> "ready"], P!Rests}
  /\ child = "starting" =>
       \A h \in Helpers :
         <<sender[h], service[h]>> \in {<<"none", "none">>, <<"startup", "ready">>,
                                       <<"arrived", "serving">>, <<"arrived", "idle">>}
  /\ child \in {"working", "hanging", "unwinding"} =>
       sender = P!Rests /\ \A h \in Helpers : service[h] \in {"none", "serving", "idle"}

\* The parent believes its child, which it hears of only once that has ended.
Verdict ==
  /\ exit \in {"none", "success", "failure"}
  /\ exit # "none" <=> child \in Over
  /\ exit = "success" => child = "exited" /\ P!AllReturned
  /\ parent = "success" => exit = "success"
  /\ parent = "failure" =>
       child \in P!ChildEnds /\ (exit = "success" => "SIGALRM" \in interrupted)
  /\ parent = "main" => child = "none"
  /\ "SIGCHLD" \in pending \cup interrupted => child \in Over

ProgramInv == Stages /\ Verdict

LEMMA ProgramInit == P!Init => ProgramInv
BY DEF P!Init, ProgramInv, Stages, Verdict, P!Rests, Over

LEMMA VerdictStep == Verdict /\ Stages /\ [P!Next]_programVars => Verdict'
  <1> SUFFICES ASSUME Verdict, Stages, [P!Next]_programVars PROVE Verdict'
    OBVIOUS
  <1> USE DEF Verdict, Over
  <1>1. CASE P!Killed
    BY <1>1 DEF P!Killed, P!ParentEndsAs, P!ChildEnds, P!ParentEnds, P!AllReturned
  <1>2. CASE P!AlarmRings
    BY <1>2 DEF P!AlarmRings, P!Raises, P!ParentEnds, P!AllReturned
  <1>3. CASE P!main \/ P!watchdog \/ P!SetAlarm \/ P!Pause
    BY <1>3 DEF P!main, P!watchdog, P!SetAlarm, P!Pause, P!ParentOnly, P!AllReturned, P!ChildEnds
  <1>4. CASE P!TestChild
    BY <1>4 DEF P!TestChild, P!ParentOnly, P!ParentEndsAs, P!ChildEnds, P!AllReturned
  <1>5. CASE P!TestAlarm
    BY <1>5 DEF P!TestAlarm, P!ParentOnly, P!ChildEnds, P!AllReturned
  <1>6. ASSUME NEW here, here \notin P!ChildEnds, NEW code \in {"success", "failure"},
               code = "success" => P!AllReturned, P!Exits(here, code)
        PROVE  Verdict'
    BY <1>6 DEF P!Exits, P!ChildEndsWith, P!Raises, P!ParentEnds, P!ChildEnds, P!AllReturned
  <1>7. ASSUME NEW here, NEW next, {here, next} \cap P!ChildEnds = {}, P!ChildGoes(here, next)
        PROVE  Verdict'
    BY <1>7 DEF P!ChildGoes, P!ChildEnds
  <1>8. CASE P!AskForSignal \/ P!FindParent \/ P!run
    BY <1>6, <1>7, <1>8 DEF P!AskForSignal, P!FindParent, P!run, P!ChildEnds
  <1>9. CASE P!doExecute \/ P!Hangs \/ P!WorkThrows
    BY <1>7, <1>9 DEF P!doExecute, P!Hangs, P!WorkThrows, P!Publish, P!Barrier, P!ChildEnds
  <1>10. CASE P!Finish
    BY <1>6, <1>10 DEF P!Finish, P!ChildEnds
  <1>11. ASSUME NEW h \in Helpers, P!triggerEvent(h) \/ P!ServiceReturns(h) PROVE Verdict'
    BY <1>11 DEF P!triggerEvent, P!ServiceReturns, P!ChildEnds
  <1>12. CASE UNCHANGED programVars
    BY <1>12 DEF programVars, P!AllReturned
  <1> QED
    BY <1>1, <1>2, <1>3, <1>4, <1>5, <1>8, <1>9, <1>10, <1>11, <1>12 DEF P!Next, P!Watch, P!Work

LEMMA StagesStep == Stages /\ Verdict /\ [P!Next]_programVars => Stages'
  <1> SUFFICES ASSUME Stages, Verdict, [P!Next]_programVars PROVE Stages'
    OBVIOUS
  <1>1. ASSUME UNCHANGED <<sender, service>>, child' = child \/ child' \in Over PROVE Stages'
    BY <1>1 DEF Stages, Over, P!Rests
  <1>2. CASE P!Killed \/ P!AlarmRings \/ P!TestChild \/ P!TestAlarm \/ UNCHANGED programVars
    BY <1>1, <1>2 DEF P!Killed, P!AlarmRings, P!TestChild, P!TestAlarm, P!ParentOnly,
                      P!ParentEndsAs, programVars, Over
  <1>3. CASE P!main \/ P!watchdog \/ P!SetAlarm \/ P!Pause
    BY <1>3 DEF P!main, P!watchdog, P!SetAlarm, P!Pause, P!ParentOnly, Stages, Verdict, P!Rests
  <1>4. CASE P!AskForSignal \/ P!FindParent
    BY <1>1, <1>4 DEF P!AskForSignal, P!FindParent, P!ChildGoes, P!Exits, P!ChildEndsWith, Over,
                      Stages, P!Rests
  <1>5. CASE P!run
    BY <1>1, <1>5 DEF P!run, P!ChildGoes, P!Exits, P!ChildEndsWith, Over, Stages, P!Rests
  <1>6. CASE P!Publish("launched", "starting", "startup")
    BY <1>6 DEF P!Publish, P!ChildGoes, P!Helped, Stages, P!Rests
  <1>7. CASE P!Barrier("starting", "working")
    <2>1. child = "starting" /\ child' = "working" /\ sender' = P!Rests /\ service' = service
      BY <1>7 DEF P!Barrier, P!ChildGoes
    <2>2. ASSUME NEW h \in Helpers PROVE service[h] \in {"none", "serving", "idle"}
      <3>1. CASE P!Helped
        <4>1. sender[h] = "arrived"
          BY <1>7, <3>1 DEF P!Barrier
        <4> QED
          BY <2>1, <4>1 DEF Stages
      <3>2. CASE ~P!Helped
        BY <3>2 DEF P!Helped, P!Rests
      <3> QED
        BY <3>1, <3>2
    <2>3. P!Rests \in [Helpers -> {"none", "startup", "shutdown", "arrived"}] /\ P!Rests' = P!Rests
      BY DEF P!Rests
    <2> QED
      BY <2>1, <2>2, <2>3 DEF Stages
  <1>8. CASE \/ P!Publish("working", "stopping", "shutdown")
             \/ P!Publish("working", "stopping faulty", "shutdown")
    BY <1>8 DEF P!Publish, P!ChildGoes, Stages, P!Rests
  <1>9. CASE P!Barrier("stopping", "waiting") \/ P!Barrier("stopping faulty", "waiting faulty")
    BY <1>9 DEF P!Barrier, P!ChildGoes, Stages, P!Rests
  <1>10. CASE P!Hangs \/ P!WorkThrows
    BY <1>10 DEF P!Hangs, P!WorkThrows, P!ChildGoes, Stages, P!Rests
  <1>11. CASE P!Finish
    BY <1>1, <1>11 DEF P!Finish, P!Exits, P!ChildEndsWith, Over
  <1>12. ASSUME NEW h \in Helpers, P!triggerEvent(h) PROVE Stages'
    BY <1>12 DEF P!triggerEvent, Stages, P!Rests
  <1>13. ASSUME NEW h \in Helpers, P!ServiceReturns(h) PROVE Stages'
    BY <1>13 DEF P!ServiceReturns, Stages, P!Rests
  <1> QED
    BY <1>2, <1>3, <1>4, <1>5, <1>6, <1>7, <1>8, <1>9, <1>10, <1>11, <1>12, <1>13
       DEF P!Next, P!Watch, P!Work, P!doExecute

\* In each part a step is one of the program, or leaves the program alone.
LEMMA PartsOfTheProgram == /\ PartInit => P!Init
                           /\ [PartNext]_allVars => [P!Next]_programVars
BY DEF PartInit, PartNext, allVars, ExecPart, LinePart, SettingPart, ProgramPart, ConsolePart, AtRest

\* However signals, the alarm and the end of parent and child interleave, for any helpers:
\* success is what a child has reported after its services have returned, and a success
\* that the child has reported is not turned into a failure but by the alarm.
THEOREM VerdictIsRight == PartSpec => []VerdictIsTheChilds
<1>1. ProgramInv => VerdictIsTheChilds
  BY DEF ProgramInv, Stages, Verdict, VerdictIsTheChilds, P!VerdictIsTheChilds
<1>2. ProgramInv /\ [P!Next]_programVars => ProgramInv'
  BY VerdictStep, StagesStep DEF ProgramInv
<1> QED
  BY <1>1, <1>2, ProgramInit, PartsOfTheProgram, PTL DEF PartSpec

--------------------------------------------------------------------------------
(* The settings. *)

LEMMA SettingCounts == \A set : S!Cardinality(set) = Cardinality(set)
BY Zenon DEF Cardinality, S!Cardinality

LEMMA FourElements ==
  ASSUME NEW a, NEW b, NEW c, NEW d, a \notin {b, c, d}, b \notin {c, d}, c # d
  PROVE  Cardinality({a, b, c, d}) = 4 /\ IsFiniteSet({a, b, c, d})
  <1>1. {c, d} = {d} \cup {c} /\ {b, c, d} = {c, d} \cup {b} /\ {a, b, c, d} = {b, c, d} \cup {a}
    OBVIOUS
  <1>2. Cardinality({d}) = 1 /\ IsFiniteSet({d})
    BY FS_Singleton
  <1>3. Cardinality({c, d}) = 2 /\ IsFiniteSet({c, d})
    BY <1>1, <1>2, FS_AddElement
  <1>4. Cardinality({b, c, d}) = 3 /\ IsFiniteSet({b, c, d})
    BY <1>1, <1>3, FS_AddElement
  <1> QED
    BY <1>1, <1>4, FS_AddElement

\* The fields that verification lets a helper have are those of its accessors.
LEMMA FourFields ==
  ASSUME NEW name \in S!HelperNames
  PROVE  /\ DOMAIN S!Properties(name) = DOMAIN S!Accessors(name)
         /\ IsFiniteSet(DOMAIN S!Accessors(name)) /\ Cardinality(DOMAIN S!Accessors(name)) = 4
  <1>1. CASE name = "logger"
    <2>1. /\ DOMAIN S!Properties(name) = {"filePath", "priorityLevel", "targetType", "writeMode"}
          /\ DOMAIN S!Accessors(name) = {"filePath", "priorityLevel", "targetType", "writeMode"}
      BY <1>1 DEF S!Properties, S!Accessors
    <2>2. LET four == {"filePath", "priorityLevel", "targetType", "writeMode"}
          IN  Cardinality(four) = 4 /\ IsFiniteSet(four)
      BY FourElements
    <2> QED
      BY <2>1, <2>2, Zenon
  <1>2. CASE name = "viewer"
    <2>1. /\ DOMAIN S!Properties(name) = {"tcpHost", "tcpPort", "udpHost", "udpPort"}
          /\ DOMAIN S!Accessors(name) = {"tcpHost", "tcpPort", "udpHost", "udpPort"}
      BY <1>2 DEF S!Properties, S!Accessors
    <2>2. LET four == {"tcpHost", "tcpPort", "udpHost", "udpPort"}
          IN  Cardinality(four) = 4 /\ IsFiniteSet(four)
      BY FourElements
    <2> QED
      BY <2>1, <2>2, Zenon
  <1> QED
    BY <1>1, <1>2 DEF S!HelperNames

\* What verification lets through lacks nothing exactly if it requires as much as is read.
LEMMA LackingIsCounted ==
  ASSUME NEW name \in S!HelperNames, NEW found, S!checkObjectInHelperList(name, found)
  PROVE  S!Lacking(found, S!Accessors(name)) = {}
           <=> Len(found.required) = S!Cardinality(DOMAIN S!Accessors(name))
  <1> DEFINE has == DOMAIN found.properties
             reads == DOMAIN S!Accessors(name)
  <1>1. has \subseteq reads /\ S!Cardinality(has) = Len(found.required)
    BY FourFields DEF S!checkObjectInHelperList
  <1>2. S!Cardinality(has) = Cardinality(has) /\ S!Cardinality(reads) = Cardinality(reads)
    BY SettingCounts, Zenon
  <1>3. IsFiniteSet(reads)
    BY FourFields
  <1>4. S!Lacking(found, S!Accessors(name)) = reads \ has
    BY DEF S!Lacking
  <1> HIDE DEF has, reads
  <1>5. Cardinality(has) = Cardinality(reads) => has = reads
    BY <1>1, <1>3, FS_Subset
  <1>6. reads \ has = {} <=> Len(found.required) = S!Cardinality(reads)
    BY <1>1, <1>2, <1>5
  <1> QED
    BY <1>4, <1>6 DEF reads

\* What verification accepts is safe.
LEMMA VerifiedIsSafe ==
  ASSUME NEW config, S!verifyConfigData(config) PROVE S!Safe(config)
  <1>1. \A key \in DOMAIN S!Accessors("program") :
          config.fields[key].type = S!Accessors("program")[key]
    BY DEF S!verifyConfigData, S!Accessors
  <1>2. \A helper \in S!HelperNames :
          S!checkObjectInHelperList(helper, config.helpers[helper])
    BY DEF S!verifyConfigData, S!HelperNames
  <1>3. ASSUME NEW found, S!checkObjectInHelperList("logger", found)
        PROVE  S!Readable(found, S!Accessors("logger"))
    <2> DEFINE ps == found.properties
    <2>1. \A key \in DOMAIN ps : S!IsOfField(ps[key], S!Properties("logger")[key])
      BY <1>3 DEF S!checkObjectInHelperList
    <2> HIDE DEF ps
    <2>2. /\ DOMAIN S!Accessors("logger") = {"filePath", "priorityLevel", "targetType", "writeMode"}
          /\ S!Accessors("logger")["filePath"] = "string"
          /\ \A key \in {"priorityLevel", "targetType", "writeMode"} :
               S!Accessors("logger")[key] = "integral"
      BY DEF S!Accessors
    <2>3. /\ S!Properties("logger")["filePath"] = S!Value("string", {})
          /\ \A key \in {"priorityLevel", "targetType", "writeMode"} :
               S!Properties("logger")[key] = S!Value("integral", 0 .. S!Largest[key])
      BY DEF S!Properties, S!Largest
    <2>4. "filePath" \in DOMAIN ps => ps["filePath"].type = "string"
      BY <2>1, <2>3 DEF S!IsOfField, S!Value
    <2>5. \A key \in {"priorityLevel", "targetType", "writeMode"} : key \in DOMAIN ps =>
            ps[key].type = "integral" /\ ps[key].n \in 0 .. S!Largest[key]
      <3> SUFFICES ASSUME NEW key \in {"priorityLevel", "targetType", "writeMode"}, key \in DOMAIN ps
                   PROVE  ps[key].type = "integral" /\ ps[key].n \in 0 .. S!Largest[key]
        OBVIOUS
      <3> DEFINE most == 0 .. S!Largest[key]
      <3>1. S!IsOfField(ps[key], S!Value("integral", most))
        BY <2>1, <2>3
      <3> HIDE DEF most
      <3>2. ps[key].type = "integral" /\ ps[key].n \in most
        BY <3>1 DEF S!IsOfField, S!Value
      <3> QED
        BY <3>2 DEF most
    <2>6. "filePath" \notin DOMAIN S!Largest
      BY DEF S!Largest
    <2> QED
      BY <2>2, <2>4, <2>5, <2>6 DEF ps, S!Readable
  <1>4. ASSUME NEW found, S!checkObjectInHelperList("viewer", found)
        PROVE  S!Readable(found, S!Accessors("viewer"))
    <2> DEFINE ps == found.properties
    <2>1. \A key \in DOMAIN ps : S!IsOfField(ps[key], S!Properties("viewer")[key])
      BY <1>4 DEF S!checkObjectInHelperList
    <2> HIDE DEF ps
    <2>2. /\ DOMAIN S!Accessors("viewer") = {"tcpHost", "tcpPort", "udpHost", "udpPort"}
          /\ \A key \in {"tcpHost", "udpHost"} : S!Accessors("viewer")[key] = "string"
          /\ \A key \in {"tcpPort", "udpPort"} : S!Accessors("viewer")[key] = "integral"
      BY DEF S!Accessors
    <2>3. /\ \A key \in {"tcpHost", "udpHost"} : S!Properties("viewer")[key] = S!Value("string", {})
          /\ \A key \in {"tcpPort", "udpPort"} :
               S!Properties("viewer")[key] = S!Value("integral", S!minPortNumber .. S!maxPortNumber)
      BY DEF S!Properties
    <2>4. \A key \in {"tcpHost", "udpHost"} :
            (key \in DOMAIN ps => ps[key].type = "string") /\ key \notin DOMAIN S!Largest
      BY <2>1, <2>3 DEF S!IsOfField, S!Value, S!Largest
    <2>5. \A key \in {"tcpPort", "udpPort"} : key \in DOMAIN ps =>
            ps[key].type = "integral" /\ ps[key].n \in S!minPortNumber .. S!maxPortNumber
      <3> SUFFICES ASSUME NEW key \in {"tcpPort", "udpPort"}, key \in DOMAIN ps
                   PROVE  ps[key].type = "integral" /\ ps[key].n \in S!minPortNumber .. S!maxPortNumber
        OBVIOUS
      <3> DEFINE ports == S!minPortNumber .. S!maxPortNumber
      <3>1. S!IsOfField(ps[key], S!Value("integral", ports))
        BY <2>1, <2>3
      <3> HIDE DEF ports
      <3>2. ps[key].type = "integral" /\ ps[key].n \in ports
        BY <3>1 DEF S!IsOfField, S!Value
      <3> QED
        BY <3>2 DEF ports
    <2>6. \A key \in {"tcpPort", "udpPort"} : S!minPortNumber .. S!maxPortNumber \subseteq 0 .. S!Largest[key]
      <3>1. S!Largest["tcpPort"] = S!maxPortNumber /\ S!Largest["udpPort"] = S!maxPortNumber
        BY DEF S!Largest, S!maxPortNumber
      <3>2. S!minPortNumber \in Nat /\ S!maxPortNumber \in Nat
        BY DEF S!minPortNumber, S!maxPortNumber
      <3> QED
        BY <3>1, <3>2
    <2> QED
      BY <2>2, <2>4, <2>5, <2>6 DEF ps, S!Readable
  <1>5. \A helper \in S!HelperNames : S!Readable(config.helpers[helper], S!Accessors(helper))
    BY <1>2, <1>3, <1>4 DEF S!HelperNames
  <1>6. \A helper \in S!HelperNames :
          S!Lacking(config.helpers[helper], S!Accessors(helper)) = {}
            <=> Len(config.helpers[helper].required) = S!Cardinality(DOMAIN S!Accessors(helper))
    BY <1>2, LackingIsCounted
  <1> QED
    BY <1>1, <1>5, <1>6 DEF S!Safe

\* What the update writes is accepted.
LEMMA DefaultIsVerified == S!verifyConfigData(S!dumpDefaultConfig)
  <1> DEFINE config == S!dumpDefaultConfig
             logger == config.helpers["logger"]
             viewer == config.helpers["viewer"]
  <1>1. /\ logger.required = <<"filePath", "priorityLevel", "targetType", "writeMode">>
        /\ DOMAIN logger.properties = {"filePath", "priorityLevel", "targetType", "writeMode"}
    BY DEF S!dumpDefaultConfig
  <1>2. S!checkObjectInHelperList("logger", logger)
    <2>1. S!Cardinality(DOMAIN logger.properties) = 4 /\ Len(logger.required) = 4
      <3>1. Cardinality({"filePath", "priorityLevel", "targetType", "writeMode"}) = 4
        BY FourElements
      <3>2. S!Cardinality(DOMAIN logger.properties) = 4
        BY <1>1, <3>1, SettingCounts, Zenon
      <3> QED
        BY <1>1, <3>2
    <2>2. S!Range(logger.required) \subseteq DOMAIN logger.properties
      BY <1>1 DEF S!Range
    <2>3. /\ S!IsOfField(logger.properties["filePath"], S!Properties("logger")["filePath"])
          /\ S!IsOfField(logger.properties["priorityLevel"], S!Properties("logger")["priorityLevel"])
          /\ S!IsOfField(logger.properties["targetType"], S!Properties("logger")["targetType"])
          /\ S!IsOfField(logger.properties["writeMode"], S!Properties("logger")["writeMode"])
      BY DEF S!dumpDefaultConfig, S!Properties, S!IsOfField, S!Value
    <2>4. DOMAIN S!Properties("logger") = DOMAIN logger.properties
      BY <1>1 DEF S!Properties
    <2> QED
      BY <1>1, <2>1, <2>2, <2>3, <2>4 DEF S!checkObjectInHelperList
  <1>3. /\ viewer.required = <<"tcpHost", "tcpPort", "udpHost", "udpPort">>
        /\ DOMAIN viewer.properties = {"tcpHost", "tcpPort", "udpHost", "udpPort"}
    BY DEF S!dumpDefaultConfig
  <1>4. S!checkObjectInHelperList("viewer", viewer)
    <2>1. S!Cardinality(DOMAIN viewer.properties) = 4 /\ Len(viewer.required) = 4
      <3>1. Cardinality({"tcpHost", "tcpPort", "udpHost", "udpPort"}) = 4
        BY FourElements
      <3>2. S!Cardinality(DOMAIN viewer.properties) = 4
        BY <1>3, <3>1, SettingCounts, Zenon
      <3> QED
        BY <1>3, <3>2
    <2>2. S!Range(viewer.required) \subseteq DOMAIN viewer.properties
      BY <1>3 DEF S!Range
    <2> DEFINE ports == S!minPortNumber .. S!maxPortNumber
    <2>3. 61501 \in ports /\ 61502 \in ports
      <3>1. S!minPortNumber \in Int /\ S!minPortNumber <= 61501 /\ S!maxPortNumber \in Int /\ S!maxPortNumber >= 61502
        BY DEF S!minPortNumber, S!maxPortNumber
      <3> QED
        BY <3>1
    <2>4. \A name \in {"tcpHost", "udpHost"} :
            viewer.properties[name] = S!Value("string", 0) /\ S!Properties("viewer")[name] = S!Value("string", {})
      BY DEF S!dumpDefaultConfig, S!Properties
    <2>5. /\ viewer.properties["tcpPort"] = S!Value("integral", 61501)
          /\ viewer.properties["udpPort"] = S!Value("integral", 61502)
          /\ \A name \in {"tcpPort", "udpPort"} : S!Properties("viewer")[name] = S!Value("integral", ports)
      BY DEF S!dumpDefaultConfig, S!Properties
    <2> HIDE DEF ports
    <2>6. \A name \in DOMAIN viewer.properties :
            S!IsOfField(viewer.properties[name], S!Properties("viewer")[name])
      BY <1>3, <2>3, <2>4, <2>5 DEF S!IsOfField, S!Value
    <2>7. DOMAIN S!Properties("viewer") = DOMAIN viewer.properties
      BY <1>3 DEF S!Properties
    <2> QED
      BY <1>3, <2>1, <2>2, <2>6, <2>7 DEF S!checkObjectInHelperList
  <1> QED
    BY <1>2, <1>4 DEF S!verifyConfigData, S!dumpDefaultConfig, S!Value

\* It has all that is read.
NothingLacks(config) ==
  \A helper \in S!HelperNames : S!Lacking(config.helpers[helper], S!Accessors(helper)) = {}

LEMMA DefaultLacksNothing == NothingLacks(S!dumpDefaultConfig)
BY DEF NothingLacks, S!HelperNames, S!Lacking, S!Accessors, S!dumpDefaultConfig

SettingTypes ==
  /\ edits \in Nat
  /\ pc \in [Programs -> S!Loading \cup S!Ended]
  /\ lock \in [Programs -> {"none", "shared", "exclusive"}]
  /\ loaded = [p \in Programs |-> loaded[p]]
  /\ spoilt \in BOOLEAN

\* Locks are of programs that load, and where two of them do the file counts as spoilt.
Contention ==
  /\ \A p \in Programs :
       lock[p] # "none" => pc[p] \in {"createWrite", "createClose", "parse", "forceWrite", "forceClose"}
  /\ \A p, q \in Programs : p # q /\ pc[p] \in S!Loading /\ pc[q] \in S!Loading => spoilt

\* A file that is not spoilt is the default one once it is there, except while the only
\* program that loads is updating it.
Unspoilt ==
  ~spoilt =>
    /\ \A p \in Programs : pc[p] \in {"read", "parse", "createClose", "forceClose"}
                            => file = S!dumpDefaultConfig
    /\ (\A p \in Programs : ~S!Updating(p)) => file \in {S!Missing, S!dumpDefaultConfig}

\* Before the first edit there is no other configuration than the default one.
Unedited ==
  edits = 0 =>
    /\ file \in {S!Missing, S!Empty, S!dumpDefaultConfig}
    /\ \A p \in Programs : pc[p] = "running" => loaded[p] = S!dumpDefaultConfig

\* What AccessorsAreSafe asks without regard to edits.
Verified == \A p \in Programs : pc[p] = "running" => S!Safe(loaded[p])

SettingInv == SettingTypes /\ Contention /\ Unspoilt /\ Unedited /\ Verified /\ S!OnlySpoiltFilesAsk

LEMMA SettingInit == S!Init => SettingInv
  <1> SUFFICES ASSUME S!Init PROVE SettingInv
    OBVIOUS
  <1>1. \A p \in Programs : pc[p] = "off" /\ lock[p] = "none"
    BY DEF S!Init
  <1>2. spoilt \in BOOLEAN /\ ~spoilt
    BY Zenon DEF S!Init
  <1>3. SettingTypes
    BY <1>2 DEF S!Init, SettingTypes, S!Ended
  <1>4. Contention /\ Unspoilt
    BY <1>1, <1>2 DEF S!Init, Contention, Unspoilt, S!Loading
  <1>5. Unedited /\ Verified /\ S!OnlySpoiltFilesAsk
    BY <1>1 DEF S!Init, Unedited, Verified, S!OnlySpoiltFilesAsk
  <1> QED
    BY <1>3, <1>4, <1>5 DEF SettingInv

\* A program gives up a file that is spoilt.
LEMMA GivesUp ==
  ASSUME SettingInv, spoilt, NEW p \in Programs, lock[p] = "none",
         NEW label \in {"thrown", "failed"}, pc' = [pc EXCEPT ![p] = label],
         UNCHANGED <<file, lock, spoilt, loaded, edits>>
  PROVE  SettingInv'
  <1>1. label \in S!Ended /\ label \notin S!Loading /\ label # "running" /\ label # "prompt"
    BY DEF S!Ended, S!Loading
  <1>2. \A q \in Programs : pc'[q] = IF q = p THEN label ELSE pc[q]
    BY DEF SettingInv, SettingTypes
  <1>3. SettingTypes'
    BY <1>1 DEF SettingInv, SettingTypes
  <1>4. Contention' /\ Unspoilt'
    BY <1>1, <1>2 DEF SettingInv, Contention, Unspoilt
  <1>5. Unedited' /\ Verified' /\ S!OnlySpoiltFilesAsk'
    BY <1>1, <1>2 DEF SettingInv, Unedited, Verified, S!OnlySpoiltFilesAsk
  <1> QED
    BY <1>3, <1>4, <1>5 DEF SettingInv

LEMMA SettingStep == SettingInv /\ [S!Next]_settingVars => SettingInv'
  <1> SUFFICES ASSUME SettingInv, [S!Next]_settingVars PROVE SettingInv'
    OBVIOUS
  <1> USE DEF SettingInv, SettingTypes, Contention, Unspoilt, Unedited, Verified,
              S!OnlySpoiltFilesAsk, S!Loading, S!Ended, S!Updating, S!Goto, S!Others
  <1>1. ASSUME NEW p \in Programs, S!Start(p) PROVE SettingInv'
    <2>1. spoilt' \in BOOLEAN
      BY <1>1, Zenon DEF S!Start, S!SpoiltBy
    <2>2. /\ pc' = [pc EXCEPT ![p] = "check"] /\ UNCHANGED <<file, lock, loaded, edits>>
          /\ pc[p] \notin S!Loading
          /\ spoilt' <=> spoilt \/ \E q \in Programs \ {p} : pc[q] \in S!Loading
      BY <1>1 DEF S!Start, S!SpoiltBy
    <2>3. SettingTypes' /\ Contention'
      BY <2>1, <2>2
    <2>4. Unspoilt'
      BY <2>1, <2>2
    <2>5. Unedited' /\ Verified' /\ S!OnlySpoiltFilesAsk'
      BY <2>1, <2>2
    <2> QED
      BY <2>3, <2>4, <2>5
  <1>2. ASSUME NEW p \in Programs, S!loadSettings(p) PROVE SettingInv'
    BY <1>2 DEF S!loadSettings, S!Unchanged
  <1>3. ASSUME NEW p \in Programs, NEW here \in {"create", "prompt"}, NEW next \in {"createLock", "forceLock"},
               S!OpenWriter(p, here, next)
        PROVE  SettingInv'
    BY <1>3 DEF S!OpenWriter, S!Unchanged
  <1>4. ASSUME NEW p \in Programs, S!LockWriter(p, "createLock", "createWrite", "prompt")
        PROVE  SettingInv'
    BY <1>4 DEF S!LockWriter, S!Holds, S!Unchanged
  <1>5. ASSUME NEW p \in Programs, S!LockWriter(p, "forceLock", "forceWrite", "thrown")
        PROVE  SettingInv'
    <2>1. CASE \A q \in Programs \ {p} : lock[q] = "none"
      BY <1>5, <2>1 DEF S!LockWriter, S!Holds, S!Unchanged
    <2>2. CASE ~\A q \in Programs \ {p} : lock[q] = "none"
      <3>1. spoilt /\ pc' = [pc EXCEPT ![p] = "thrown"] /\ UNCHANGED <<lock, file, spoilt, loaded, edits>>
        BY <1>5, <2>2 DEF S!LockWriter, S!Unchanged
      <3> QED
        BY <1>5, <3>1, GivesUp DEF S!LockWriter
    <2> QED
      BY <2>1, <2>2
  <1>6. ASSUME NEW p \in Programs,
               S!Write(p, "createWrite", "createClose") \/ S!Write(p, "forceWrite", "forceClose")
        PROVE  SettingInv'
    BY <1>6 DEF S!Write, S!Unchanged
  <1>7. ASSUME NEW p \in Programs,
               S!Close(p, "createClose", "read") \/ S!Close(p, "forceClose", "failed")
        PROVE  SettingInv'
    BY <1>7 DEF S!Close, S!Holds, S!Unchanged
  <1>8. ASSUME NEW p \in Programs, S!LockReader(p) PROVE SettingInv'
    BY <1>8 DEF S!LockReader, S!Holds, S!Unchanged
  <1>9. ASSUME NEW p \in Programs, S!parseConfigFile(p) PROVE SettingInv'
    <2>1. /\ S!dumpDefaultConfig.kind = "config"
          /\ S!Missing.kind # "config" /\ S!Empty.kind # "config"
      BY DEF S!dumpDefaultConfig, S!Missing, S!Empty
    <2> QED
      BY <1>9, <2>1, DefaultIsVerified, VerifiedIsSafe DEF S!parseConfigFile, S!Holds
  <1>10. ASSUME NEW p \in Programs, S!PromptTimeout(p) \/ S!PromptAnswer(p) PROVE SettingInv'
    <2>1. CASE S!OpenWriter(p, "prompt", "forceLock")
      BY <1>3, <2>1
    <2>2. CASE /\ pc[p] = "prompt" /\ pc' \in {[pc EXCEPT ![p] = "thrown"], [pc EXCEPT ![p] = "failed"]}
               /\ UNCHANGED <<file, lock, spoilt, loaded, edits>>
      BY <2>2, GivesUp
    <2> QED
      BY <1>10, <2>1, <2>2 DEF S!PromptTimeout, S!PromptAnswer, S!Unchanged
  <1>11. ASSUME NEW p \in Programs, S!Kill(p) PROVE SettingInv'
    BY <1>11 DEF S!Kill, S!Holds
  <1>12. ASSUME NEW p \in Programs, S!Exit(p) PROVE SettingInv'
    BY <1>12 DEF S!Exit
  <1>13. CASE S!Edit
    BY <1>13 DEF S!Edit
  <1>14. CASE UNCHANGED settingVars
    BY <1>14 DEF settingVars
  <1> QED
    BY <1>1, <1>2, <1>3, <1>4, <1>5, <1>6, <1>7, <1>8, <1>9, <1>10, <1>11, <1>12, <1>13, <1>14
       DEF S!Next, S!Load, S!Create, S!Force

\* In each part a step is one of the settings, or leaves them alone.
LEMMA PartsOfTheSettings == /\ PartInit => S!Init
                            /\ [PartNext]_allVars => [S!Next]_settingVars
BY DEF PartInit, PartNext, allVars, ExecPart, LinePart, SettingPart, ProgramPart, ConsolePart, AtRest

\* For any number of programs, starts, edits and kills: what verification has accepted is
\* read with its types and ranges whatever an editor has made of the file; the accessors
\* find all they read exactly if the file's own list of required fields is as long as
\* theirs, which it is as long as nobody edits; and loadSettings asks only about a file that
\* was edited, left half updated or fought over.
THEOREM SettingsStaySound == PartSpec => []SettingsAreSound
<1>1. SettingInv => SettingsAreSound
  BY DefaultLacksNothing DEF SettingInv, Unedited, Verified, NothingLacks, SettingsAreSound,
     S!AccessorsAreSafe
<1> QED
  BY <1>1, SettingInit, SettingStep, PartsOfTheSettings, PTL DEF PartSpec
================================================================================
