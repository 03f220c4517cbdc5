--------------------------- MODULE DoublyLinkedList ---------------------------
(***************************************************************************)
(* data_structure::linear (linear.cpp): the ring of nodes behind dll, and  *)
(* stack and queue as calls of it.  The head is node 0, and a new node     *)
(* takes the first address that is free.                                   *)
(***************************************************************************)
EXTENDS Integers, SequencesExt

CONSTANTS Elements,   \* what a node may hold
          MaxNodes    \* bound: nodes besides the head

ASSUME NodesAssumption == MaxNodes \in Nat

VARIABLES node,       \* the nodes that are not deleted
          listCall    \* the last call and what it returned

dllVars == <<node, listCall>>

Head0 == 0

dllInit == node = [n \in {Head0} |-> [prev |-> Head0, next |-> Head0]] /\ listCall = <<>>

\* The nodes in the order of next.
walk[n \in DOMAIN node] == IF n = Head0 THEN <<>> ELSE <<n>> \o walk[node[n].next]
Forward == walk[node[Head0].next]

size == Len(Forward)

\* n steps along prev or next.
steps(from, direction, count) ==
  LET go[i \in 0 .. count] == IF i = 0 THEN from ELSE node[go[i - 1]][direction]
  IN go[count]

MutGetNode(index) ==   \* one step too few from the end
  IF index < 0 \/ index >= size THEN Head0
  ELSE IF index <= size \div 2 THEN steps(node[Head0].next, "next", index)
  ELSE steps(node[Head0].prev, "prev", size - index)

\* From the nearer end; the head stands for no node.
getNode(index) ==
  IF index < 0 \/ index >= size THEN Head0
  ELSE IF index <= size \div 2 THEN steps(node[Head0].next, "next", index)
  ELSE steps(node[Head0].prev, "prev", size - index - 1)

get(index) == IF getNode(index) = Head0 THEN <<>> ELSE <<node[getNode(index)].value>>

\* A new node between two neighbours.
link(p, n, v) ==
  LET new == CHOOSE a \in 1 .. MaxNodes \ DOMAIN node :
               \A b \in 1 .. MaxNodes \ DOMAIN node : a <= b
  IN node' = [m \in DOMAIN node \cup {new} |->
                IF m = new THEN [prev |-> p, next |-> n, value |-> v]
                ELSE [node[m] EXCEPT !.prev = IF m = n THEN new ELSE @,
                                     !.next = IF m = p THEN new ELSE @]]

room == size < MaxNodes

\* stack::push
insertFirst(v) ==
  /\ room /\ link(Head0, node[Head0].next, v)
  /\ listCall' = <<"insert", 0, v, TRUE>>

\* queue::push
insertLast(v) ==
  /\ room /\ link(node[Head0].prev, Head0, v)
  /\ listCall' = <<"insertLast", v>>

\* An index that has no node, the size too, is refused.
insert(index, v) ==
  /\ index # 0
  /\ IF getNode(index) = Head0 THEN UNCHANGED node
     ELSE room /\ link(node[getNode(index)].prev, getNode(index), v)
  /\ listCall' = <<"insert", index, v, getNode(index) # Head0>>

unlink(i) ==
  node' = [m \in DOMAIN node \ {i} |->
             [node[m] EXCEPT !.prev = IF m = node[i].next THEN node[i].prev ELSE @,
                             !.next = IF m = node[i].prev THEN node[i].next ELSE @]]

remove(index) ==
  /\ IF getNode(index) = Head0 THEN UNCHANGED node ELSE unlink(getNode(index))
  /\ listCall' = <<"remove", index, getNode(index) # Head0>>

removeLast == remove(size - 1)

\* stack::pop and queue::pop: getFirst and removeFirst.
pop ==
  /\ IF getNode(0) = Head0 THEN UNCHANGED node ELSE unlink(getNode(0))
  /\ listCall' = <<"pop", get(0)>>

dllNext ==
  \/ \E v \in Elements : insertFirst(v) \/ insertLast(v)
  \/ \E v \in Elements, index \in -1 .. MaxNodes : insert(index, v)
  \/ \E index \in -1 .. MaxNodes : remove(index)
  \/ removeLast \/ pop

dllSpec == dllInit /\ [][dllNext]_dllVars

--------------------------------------------------------------------------------
Listed == [i \in DOMAIN Forward |-> node[Forward[i]].value]

\* The two directions of the ring agree, and no node is outside of it.
Ring ==
  /\ \A n \in DOMAIN node : node[node[n].next].prev = n /\ node[node[n].prev].next = n
  /\ DOMAIN node = ToSet(Forward) \cup {Head0}

\* Counting from either end finds the element that is there.
Indexed ==
  \A index \in -1 .. MaxNodes :
    get(index) = IF index \in 0 .. size - 1 THEN <<Listed[index + 1]>> ELSE <<>>

Plain == INSTANCE ListSpec WITH Values <- Elements, list <- Listed, call <- listCall

\* The ring of nodes is a sequence: the calls do to it what they say, both directions
\* agree, and no node is lost.
ListIsASequence ==
  /\ Plain!Init
  /\ [](Ring /\ Indexed)
  /\ [][UNCHANGED dllVars \/ [Plain!Next]_<<Listed, listCall>>]_dllVars
================================================================================
