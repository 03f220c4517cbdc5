--------------------------------- MODULE AMLGraph ---------------------------------
(***************************************************************************)
(* graph::undirected: an adjacency multilist.  Slot i of adjMultiList has  *)
(* the datum vex[i] and the list of edges from first[i]; an edge node is   *)
(* in the lists of both its ends, by iLink in that of iVex and by jLink in *)
(* that of jVex.  Slots count from 1, and 0 is the null pointer; the edge  *)
(* nodes are numbered in the order in which they were made.                *)
(***************************************************************************)
EXTENDS Loops

CONSTANTS Vertices, maxVertexNum, MaxEdges

VARIABLES graph, call

vars == <<graph, call>>

create == [vex |-> <<>>, first |-> <<>>, edge |-> <<>>]
Init == graph = create /\ call = <<>>

vexNum(g) == Len(g.vex)

\* 0 when there is no such vertex.
locateVertex(g, v) ==
  IF Contains(g.vex, v) THEN CHOOSE i \in DOMAIN g.vex : g.vex[i] = v ELSE 0

getNextEdge(g, e, index) == IF g.edge[e].iVex = index THEN g.edge[e].iLink ELSE g.edge[e].jLink

RECURSIVE EdgesFrom(_, _, _)
EdgesFrom(g, e, index) == IF e = 0 THEN <<>> ELSE <<e>> \o EdgesFrom(g, getNextEdge(g, e, index), index)
EdgesOf(g, index) == EdgesFrom(g, g.first[index], index)

Other(g, e, index) == IF g.edge[e].iVex = index THEN g.edge[e].jVex ELSE g.edge[e].iVex

\* The edge between two slots in the list of the first, or 0.
Between(g, i, j) ==
  LET found == SelectSeq(EdgesOf(g, i), LAMBDA e : {g.edge[e].iVex, g.edge[e].jVex} = {i, j})
  IN IF found = <<>> THEN 0 ELSE found[1]

--------------------------------------------------------------------------------
addVertex(v) ==
  LET new == vexNum(graph) < maxVertexNum /\ locateVertex(graph, v) = 0
  IN /\ graph' = IF new THEN [graph EXCEPT !.vex = Append(@, v), !.first = Append(@, 0)] ELSE graph
     /\ call' = <<"addVertex", v, new>>

\* A new node goes to the front of both lists.  For an edge from a vertex to itself the
\* second assignment finds the node itself at the front.
LinkEdge(g, i, j) ==
  LET e == Len(g.edge) + 1
      f == [g.first EXCEPT ![i] = e]
  IN [g EXCEPT !.edge = Append(@, [iVex |-> i, jVex |-> j, iLink |-> g.first[i], jLink |-> f[j]]),
               !.first = [f EXCEPT ![j] = e]]

addEdge(v, w) ==
  LET i == locateVertex(graph, v)
      j == locateVertex(graph, w)
      new == IF i = 0 \/ j = 0 THEN FALSE ELSE Between(graph, i, j) = 0
  IN /\ new => Len(graph.edge) < MaxEdges
     /\ graph' = IF new THEN LinkEdge(graph, i, j) ELSE graph
     /\ call' = <<"addEdge", v, w, new>>

MutRemoveEdgeFromList(g, index, e) ==   \* the rest of the list is lost with the first
  IF g.first[index] = e THEN [g EXCEPT !.first[index] = 0] ELSE g

removeEdgeFromList(g, index, e) ==
  LET list == EdgesOf(g, index)
      next == getNextEdge(g, e, index)
      k == CHOOSE n \in DOMAIN list : list[n] = e
      prev == list[k - 1]
  IN IF ~Contains(list, e) THEN g
     ELSE IF k = 1 THEN [g EXCEPT !.first[index] = next]
     ELSE IF g.edge[prev].iVex = index THEN [g EXCEPT !.edge[prev].iLink = next]
     ELSE [g EXCEPT !.edge[prev].jLink = next]

\* The node e, in no list any more, is deleted.
DeleteNode(g, e) ==
  LET ref(x) == IF x > e THEN x - 1 ELSE x
      node(n) == [n EXCEPT !.iLink = ref(@), !.jLink = ref(@)]
  IN [vex |-> g.vex,
      first |-> [i \in DOMAIN g.first |-> ref(g.first[i])],
      edge |-> [k \in 1 .. Len(g.edge) - 1 |-> node(g.edge[IF k >= e THEN k + 1 ELSE k])]]

RemoveEdge(g, i, j) ==
  LET e == Between(g, i, j)
  IN DeleteNode(removeEdgeFromList(removeEdgeFromList(g, i, e), j, e), e)

deleteEdge(v, w) ==
  LET i == locateVertex(graph, v)
      j == locateVertex(graph, w)
      there == IF i = 0 \/ j = 0 THEN FALSE ELSE Between(graph, i, j) > 0
  IN /\ graph' = IF there THEN RemoveEdge(graph, i, j) ELSE graph
     /\ call' = <<"deleteEdge", v, w, there>>

RECURSIVE Isolate(_, _)
Isolate(g, index) ==
  IF g.first[index] = 0 THEN g
  ELSE Isolate(RemoveEdge(g, index, Other(g, g.first[index], index)), index)

\* The nodes of the list of slot i get the new number of the moved slot while the list
\* is followed; ends is lost when the walk comes back to a node.
RECURSIVE RenameFrom(_, _, _, _, _, _)
RenameFrom(s, e, i, from, to, seen) ==
  LET rename(x) == IF x = from THEN to ELSE x
      g == [s.g EXCEPT !.edge[e].iVex = rename(@), !.edge[e].jVex = rename(@)]
  IN IF e = 0 \/ ~s.ends THEN s
     ELSE IF e \in seen THEN [s EXCEPT !.ends = FALSE]
     ELSE RenameFrom([s EXCEPT !.g = g], getNextEdge(g, e, i), i, from, to, seen \cup {e})

\* The last slot moves to the place of the removed one; the old copy is followed too.
MoveLast(g, index) ==
  LET n == vexNum(g)
      moved == [g EXCEPT !.vex[index] = g.vex[n], !.first[index] = g.first[n]]
      s == Up(1, n, LAMBDA i, t : RenameFrom(t, t.g.first[i], i, n, index, {}),
              [g |-> moved, ends |-> TRUE])
  IN s

DropLast(g) ==
  LET slots == 1 .. vexNum(g) - 1
  IN [vex |-> [i \in slots |-> g.vex[i]], first |-> [i \in slots |-> g.first[i]], edge |-> g.edge]

deleteVertex(v) ==
  LET index == locateVertex(graph, v)
      g == Isolate(graph, index)
      s == MoveLast(g, index)
  IN IF index = 0 THEN UNCHANGED graph /\ call' = <<"deleteVertex", v, FALSE>>
     ELSE IF index = vexNum(graph)
          THEN graph' = DropLast(g) /\ call' = <<"deleteVertex", v, TRUE>>
     ELSE IF s.ends
          THEN graph' = DropLast(s.g) /\ call' = <<"deleteVertex", v, TRUE>>
     ELSE graph' = s.g /\ call' = <<"endless", v>>

Returned == IF call = <<>> THEN TRUE ELSE call[1] # "endless"

\* The call that does not come back.
Spin == ~Returned /\ UNCHANGED vars

Next ==
  \/ Spin
  \/ /\ Returned
     /\ \E v \in Vertices :
          \/ addVertex(v) \/ deleteVertex(v)
          \/ \E w \in Vertices : addEdge(v, w) \/ deleteEdge(v, w)

Spec == Init /\ [][Next]_vars

--------------------------------------------------------------------------------
Nodes(g) == DOMAIN g.edge
Edges(g) ==
  {<<g.vex[g.edge[e].iVex], g.vex[g.edge[e].jVex]>> : e \in Nodes(g)}
  \cup {<<g.vex[g.edge[e].jVex], g.vex[g.edge[e].iVex]>> : e \in Nodes(g)}

Abstract == INSTANCE GraphSpec WITH
  vertices <- Range(graph.vex), edges <- Edges(graph), Edge <- LAMBDA v, w : {<<v, w>>, <<w, v>>}

Neighbours(list, i) == [k \in DOMAIN list |-> Other(graph, list[k], i)]

\* Every list has the edges of its vertex and no other, and the traversals follow them.
Traversable ==
  Returned =>
    \E lists \in {[i \in DOMAIN graph.vex |-> EdgesOf(graph, i)]} :
    \E nbrs \in {[i \in DOMAIN graph.vex |-> Neighbours(lists[i], i)]} :
    \A i \in DOMAIN graph.vex :
      /\ Range(lists[i]) = {e \in Nodes(graph) : i \in {graph.edge[e].iVex, graph.edge[e].jVex}}
      /\ Abstract!IsDepthFirst(dfs(graph.vex, nbrs, i), graph.vex[i])
      /\ Abstract!IsBreadthFirst(bfs(graph.vex, nbrs, i), graph.vex[i])

\* Only an edge from a vertex to itself keeps deleteVertex from returning.
OnlyLoopsSpin == ~Returned => \E e \in Nodes(graph) : graph.edge[e].iVex = graph.edge[e].jVex
================================================================================
