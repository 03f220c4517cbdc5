--------------------------------- MODULE Loops ---------------------------------
(***************************************************************************)
(* Counted loops as recursive functions, for the algorithms: body(i, s) is *)
(* the state s after the iteration with counter i; and the traversals of   *)
(* the graphs.                                                             *)
(***************************************************************************)
EXTENDS Integers, SequencesExt

Up(first, last, body(_, _), start) ==
  LET after[i \in Int] == IF i < first THEN start ELSE body(i, after[i - 1])
  IN after[last]

Down(first, last, body(_, _), start) ==
  LET after[i \in Int] == IF i > first THEN start ELSE body(i, after[i + 1])
  IN after[last]

\* The array a with the elements at i and j exchanged, as std::swap leaves it.
Swap(a, i, j) == [a EXCEPT ![i] = a[j], ![j] = a[i]]

Least(S)    == CHOOSE x \in S : \A y \in S : x <= y
Greatest(S) == CHOOSE x \in S : \A y \in S : x >= y

--------------------------------------------------------------------------------
\* graph::undirected::Traverse and graph::directed::Traverse, which differ in where the
\* neighbours of a vertex come from.  vex is the sequence of the vertices' data and
\* nbrs[i] are the indices next to index i.
sortNeighbors(vex, neighbors) == SortSeq(neighbors, LAMBDA i, j : vex[i] < vex[j])

\* A vertex is visited before its neighbours, each of them with all that it leads to.
RECURSIVE dfsRecursive(_, _, _, _)
dfsRecursive(vex, nbrs, visited, index) ==
  FoldLeft(LAMBDA order, n : IF Contains(order, n) THEN order ELSE dfsRecursive(vex, nbrs, order, n),
           Append(visited, index), sortNeighbors(vex, nbrs[index]))

dfs(vex, nbrs, start) ==
  LET order == dfsRecursive(vex, nbrs, <<>>, start)
  IN [i \in DOMAIN order |-> vex[order[i]]]

\* queue is all that was ever queued, which is all that was visited; front is the next
\* to be taken from it.
RECURSIVE BfsFrom(_, _, _, _)
BfsFrom(vex, nbrs, queue, front) ==
  IF front > Len(queue) THEN queue
  ELSE LET unvisited == SelectSeq(sortNeighbors(vex, nbrs[queue[front]]),
                                  LAMBDA n : ~Contains(queue, n))
       IN BfsFrom(vex, nbrs, queue \o unvisited, front + 1)

bfs(vex, nbrs, start) ==
  LET order == BfsFrom(vex, nbrs, <<start>>, 1)
  IN [i \in DOMAIN order |-> vex[order[i]]]
================================================================================
