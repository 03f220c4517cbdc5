-------------------------------- MODULE GraphSpec --------------------------------
(***************************************************************************)
(* What the graphs of data_structure/source/graph.cpp promise: a set of    *)
(* vertices and a set of edges between them.  An edge is a pair; Edge(v,   *)
(* w) are the pairs that one edge from v to w stands for, one for an arc   *)
(* and both directions otherwise.                                          *)
(***************************************************************************)
EXTENDS Naturals, FiniteSets

CONSTANTS Vertices, maxVertexNum, Edge(_, _)

VARIABLES vertices, edges, call

vars == <<vertices, edges, call>>

Init == vertices = {} /\ edges = {} /\ call = <<>>

AddVertex(v) ==
  LET new == v \notin vertices /\ Cardinality(vertices) < maxVertexNum
  IN /\ call' = <<"addVertex", v, new>>
     /\ vertices' = IF new THEN vertices \cup {v} ELSE vertices
     /\ UNCHANGED edges

AddEdge(v, w) ==
  LET new == {v, w} \subseteq vertices /\ <<v, w>> \notin edges
  IN /\ call' = <<"addEdge", v, w, new>>
     /\ edges' = IF new THEN edges \cup Edge(v, w) ELSE edges
     /\ UNCHANGED vertices

\* The edges of a vertex go with it.
DeleteVertex(v) ==
  /\ call' = <<"deleteVertex", v, v \in vertices>>
  /\ vertices' = vertices \ {v}
  /\ edges' = {e \in edges : v \notin {e[1], e[2]}}

DeleteEdge(v, w) ==
  /\ call' = <<"deleteEdge", v, w, <<v, w>> \in edges>>
  /\ edges' = edges \ Edge(v, w)
  /\ UNCHANGED vertices

Next ==
  \E v \in Vertices :
    \/ AddVertex(v) \/ DeleteVertex(v)
    \/ \E w \in Vertices : AddEdge(v, w) \/ DeleteEdge(v, w)

Spec == Init /\ [][Next]_vars

--------------------------------------------------------------------------------
\* The vertices within n edges of v.
Within(v, n) ==
  LET reach[k \in Nat] ==
        IF k = 0 THEN {v} ELSE reach[k - 1] \cup {e[2] : e \in {d \in edges : d[1] \in reach[k - 1]}}
  IN reach[n]

Distance(v, w) ==
  CHOOSE n \in 0 .. Cardinality(vertices) :
    w \in Within(v, n) /\ (n > 0 => w \notin Within(v, n - 1))

\* order visits everything that v reaches, each once.
VisitsReachable(order, v) ==
  /\ {order[i] : i \in DOMAIN order} = Within(v, Cardinality(vertices))
  /\ Cardinality(DOMAIN order) = Cardinality(Within(v, Cardinality(vertices)))

\* Breadth first: never back to a vertex that is nearer to v.
IsBreadthFirst(order, v) ==
  /\ VisitsReachable(order, v)
  /\ \A i, j \in DOMAIN order : i < j => Distance(v, order[i]) <= Distance(v, order[j])

\* Depth first: a vertex that follows another has an edge from the last one before it
\* that had a vertex left, so none of those between them had.
IsDepthFirst(order, v) ==
  /\ VisitsReachable(order, v)
  /\ \A j \in DOMAIN order \ {1} :
       \E i \in 1 .. j - 1 :
         /\ <<order[i], order[j]>> \in edges
         /\ \A k \in i + 1 .. j - 1 : \A w \in vertices :
              <<order[k], w>> \in edges => w \in {order[n] : n \in 1 .. j - 1}
================================================================================
