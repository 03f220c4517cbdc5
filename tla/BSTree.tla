-------------------------------- MODULE BSTree --------------------------------
(***************************************************************************)
(* data_structure::tree::bs (tree.cpp): a binary search tree of nodes with *)
(* parent pointers.  A pointer is a natural number, Null is 0, and a new   *)
(* node takes the first address that is free.  Equal keys go to the right. *)
(***************************************************************************)
EXTENDS Naturals, SequencesExt

CONSTANTS Numbers,    \* the keys
          MaxNodes    \* bound: nodes of the tree

VARIABLES root, node, call

vars == <<root, node, call>>

Null == 0

Init == root = Null /\ node = <<>> /\ call = <<>>

getMinimum(x) ==
  LET leftmost[y \in DOMAIN node] ==
        IF node[y].left = Null THEN y ELSE leftmost[node[y].left]
  IN IF x = Null THEN Null ELSE leftmost[x]

getMaximum(x) ==
  LET rightmost[y \in DOMAIN node] ==
        IF node[y].right = Null THEN y ELSE rightmost[node[y].right]
  IN IF x = Null THEN Null ELSE rightmost[x]

\* The first ancestor that x is not on the given side of.
ancestor(x, side) ==
  LET climb[y \in DOMAIN node] ==
        LET p == node[y].parent
        IN IF p # Null /\ node[p][side] = y THEN climb[p] ELSE p
  IN climb[x]

getPredecessor(x) == IF node[x].left # Null THEN getMaximum(node[x].left) ELSE ancestor(x, "left")
getSuccessor(x) == IF node[x].right # Null THEN getMinimum(node[x].right) ELSE ancestor(x, "right")

search(k) ==
  LET down[x \in DOMAIN node \cup {Null}] ==
        IF x = Null \/ node[x].key = k THEN x
        ELSE down[IF k < node[x].key THEN node[x].left ELSE node[x].right]
  IN down[root]

side(k, x) == IF k < node[x].key THEN "left" ELSE "right"

insertNode(k) ==
  LET last[x \in DOMAIN node] ==
        IF node[x][side(k, x)] = Null THEN x ELSE last[node[x][side(k, x)]]
      y == IF root = Null THEN Null ELSE last[root]
      z == CHOOSE a \in 1 .. MaxNodes \ DOMAIN node :
             \A b \in 1 .. MaxNodes \ DOMAIN node : a <= b
  IN /\ node' = [n \in DOMAIN node \cup {z} |->
                   IF n = z THEN [left |-> Null, right |-> Null, parent |-> y, key |-> k]
                   ELSE IF n = y THEN [node[n] EXCEPT ![side(k, y)] = z] ELSE node[n]]
     /\ root' = IF y = Null THEN z ELSE root

MutRemoveNode(z) ==   \* the child of the removed node is left without a parent
  LET y == IF node[z].left = Null \/ node[z].right = Null THEN z ELSE getSuccessor(z)
      x == IF node[y].left # Null THEN node[y].left ELSE node[y].right
      p == node[y].parent
  IN /\ node' = [n \in DOMAIN node \ {y} |->
                   [node[n] EXCEPT !.parent = IF n = x THEN Null ELSE @,
                                   !.left = IF n = p /\ @ = y THEN x ELSE @,
                                   !.right = IF n = p /\ node[p].left # y THEN x ELSE @,
                                   !.key = IF n = z THEN node[y].key ELSE @]]
     /\ root' = IF p = Null THEN x ELSE root

\* The node that goes is z, or the one of the next key, which z then takes.
removeNode(z) ==
  LET y == IF node[z].left = Null \/ node[z].right = Null THEN z ELSE getSuccessor(z)
      x == IF node[y].left # Null THEN node[y].left ELSE node[y].right
      p == node[y].parent
  IN /\ node' = [n \in DOMAIN node \ {y} |->
                   [node[n] EXCEPT !.parent = IF n = x THEN p ELSE @,
                                   !.left = IF n = p /\ @ = y THEN x ELSE @,
                                   !.right = IF n = p /\ node[p].left # y THEN x ELSE @,
                                   !.key = IF n = z THEN node[y].key ELSE @]]
     /\ root' = IF p = Null THEN x ELSE root

insert(k) ==
  /\ DOMAIN node # 1 .. MaxNodes
  /\ insertNode(k)
  /\ call' = <<"insert", 1, k>>

remove(k) ==
  /\ IF search(k) = Null THEN UNCHANGED <<root, node>> ELSE removeNode(search(k))
  /\ call' = <<"remove", 1, k>>

Next == \E k \in Numbers : insert(k) \/ remove(k)

Spec == Init /\ [][Next]_vars

--------------------------------------------------------------------------------
InOrder ==
  LET walk[x \in DOMAIN node \cup {Null}] ==
        IF x = Null THEN <<>> ELSE walk[node[x].left] \o <<x>> \o walk[node[x].right]
  IN walk[root]

\* Searching and stepping from node to node agree with the order of the tree: the
\* parents are right after every removal.
Navigable ==
  LET s == InOrder
  IN /\ \A i \in 1 .. Len(s) : /\ getSuccessor(s[i]) = IF i = Len(s) THEN Null ELSE s[i + 1]
                               /\ getPredecessor(s[i]) = IF i = 1 THEN Null ELSE s[i - 1]
     /\ s # <<>> => getMinimum(root) = s[1] /\ getMaximum(root) = s[Len(s)]
     /\ \A k \in Numbers :
          LET x == search(k)
          IN IF x = Null THEN \A n \in DOMAIN node : node[n].key # k ELSE node[x].key = k
     /\ \A n \in DOMAIN node : Contains(s, n)

Abstract == INSTANCE SortedBags WITH
  Objects <- {1}, Duplicates <- TRUE, Limit <- MaxNodes,
  keys <- <<[i \in DOMAIN InOrder |-> node[InOrder[i]].key]>>
================================================================================
