--------------------------------- MODULE OLGraph ---------------------------------
(***************************************************************************)
(* graph::directed: an orthogonal list.  Slot i of xList has the datum     *)
(* vex[i] and its outgoing arcs out[i], the heads along tailLink; slots    *)
(* count from 1.  The lists of incoming arcs are written by addArc and     *)
(* read nowhere, so they are left out.                                     *)
(***************************************************************************)
EXTENDS Loops

CONSTANTS Vertices, maxVertexNum, MaxEdges

VARIABLES graph, call

vars == <<graph, call>>

create == [vex |-> <<>>, out |-> <<>>, arcNum |-> 0]
Init == graph = create /\ call = <<>>

locateVertex(g, v) ==
  IF Contains(g.vex, v) THEN CHOOSE i \in DOMAIN g.vex : g.vex[i] = v ELSE 0

addVertex(v) ==
  LET new == Len(graph.vex) < maxVertexNum /\ locateVertex(graph, v) = 0
  IN /\ graph' = IF new THEN [graph EXCEPT !.vex = Append(@, v), !.out = Append(@, <<>>)] ELSE graph
     /\ call' = <<"addVertex", v, new>>

addArc(v, w) ==
  LET i == locateVertex(graph, v)
      j == locateVertex(graph, w)
      new == IF i = 0 \/ j = 0 THEN FALSE ELSE ~Contains(graph.out[i], j)
  IN /\ new => graph.arcNum < MaxEdges
     /\ graph' = IF new THEN [graph EXCEPT !.out[i] = <<j>> \o @, !.arcNum = @ + 1] ELSE graph
     /\ call' = <<"addEdge", v, w, new>>

deleteArc(v, w) ==
  LET i == locateVertex(graph, v)
      j == locateVertex(graph, w)
      there == IF i = 0 \/ j = 0 THEN FALSE ELSE Contains(graph.out[i], j)
  IN /\ graph' = IF there THEN [graph EXCEPT !.out[i] = RemoveFirst(@, j), !.arcNum = @ - 1] ELSE graph
     /\ call' = <<"deleteEdge", v, w, there>>

deleteOutgoingArcs(g, index) == [g EXCEPT !.out[index] = <<>>, !.arcNum = @ - Len(g.out[index])]

deleteIncomingArcs(g, index) ==
  [g EXCEPT !.out = [i \in DOMAIN g.out |-> SelectSeq(g.out[i], LAMBDA j : j # index)],
            !.arcNum = @ - Cardinality({i \in DOMAIN g.out : Contains(g.out[i], index)})]

\* The slots behind the removed one move up, and the arcs follow them.
Renumber(j, index) == IF j > index THEN j - 1 ELSE j

deleteVertex(v) ==
  LET index == locateVertex(graph, v)
      g == deleteIncomingArcs(deleteOutgoingArcs(graph, index), index)
      out == RemoveAt(g.out, index)
  IN IF index = 0 THEN UNCHANGED graph /\ call' = <<"deleteVertex", v, FALSE>>
     ELSE /\ graph' = [g EXCEPT !.vex = RemoveAt(@, index),
                                !.out = [i \in DOMAIN out |->
                                  [k \in DOMAIN out[i] |-> Renumber(out[i][k], index)]]]
          /\ call' = <<"deleteVertex", v, TRUE>>

Next ==
  \E v \in Vertices :
    \/ addVertex(v) \/ deleteVertex(v)
    \/ \E w \in Vertices : addArc(v, w) \/ deleteArc(v, w)

Spec == Init /\ [][Next]_vars

--------------------------------------------------------------------------------
Arcs(g) == UNION {{<<g.vex[i], g.vex[g.out[i][k]]>> : k \in DOMAIN g.out[i]} : i \in DOMAIN g.vex}

Abstract == INSTANCE GraphSpec WITH
  vertices <- Range(graph.vex), edges <- Arcs(graph), Edge <- LAMBDA v, w : {<<v, w>>}

\* The count of the arcs is right, and the traversals follow them.
Traversable ==
  /\ graph.arcNum = Cardinality(Arcs(graph))
  /\ \A i \in DOMAIN graph.vex :
       /\ Abstract!IsDepthFirst(dfs(graph.vex, graph.out, i), graph.vex[i])
       /\ Abstract!IsBreadthFirst(bfs(graph.vex, graph.out, i), graph.vex[i])
================================================================================
