--------------------------------- MODULE Trees ---------------------------------
(***************************************************************************)
(* data_structure::tree::avl and ::splay (tree.cpp).  Their functions take *)
(* a subtree and return what it has become, so a tree is a value: Null or  *)
(* a node.  root is one tree, of either kind.                              *)
(***************************************************************************)
EXTENDS Integers, SequencesExt

CONSTANTS Numbers,    \* the keys
          MaxNodes    \* bound: nodes of the tree

VARIABLES root, call

vars == <<root, call>>

Null == <<>>

Init == root = Null /\ call = <<>>

RECURSIVE getMinimum(_), getMaximum(_)
getMinimum(t) == IF t.left = Null THEN t.key ELSE getMinimum(t.left)
getMaximum(t) == IF t.right = Null THEN t.key ELSE getMaximum(t.right)

RECURSIVE search(_, _)
search(t, k) ==
  t # Null /\ (t.key = k \/ search(IF k < t.key THEN t.left ELSE t.right, k))

RECURSIVE InOrder(_)
InOrder(t) == IF t = Null THEN <<>> ELSE InOrder(t.left) \o <<t.key>> \o InOrder(t.right)

--------------------------------------------------------------------------------
(* The AVL tree. *)

getHeight(t) == IF t = Null THEN 0 ELSE t.height

higher(l, r) == IF getHeight(l) < getHeight(r) THEN getHeight(r) ELSE getHeight(l)

\* The node with its height set.
Node(k, l, r) == [key |-> k, left |-> l, right |-> r, height |-> higher(l, r) + 1]

leftLeftRotation(k2) ==
  IF k2.left = Null THEN Null
  ELSE LET k1 == k2.left
       IN Node(k1.key, k1.left, Node(k2.key, k1.right, k2.right))

rightRightRotation(k1) ==
  IF k1.right = Null THEN Null
  ELSE LET k2 == k1.right
       IN Node(k2.key, Node(k1.key, k1.left, k2.left), k2.right)

leftRightRotation(k3) == leftLeftRotation([k3 EXCEPT !.left = rightRightRotation(@)])
rightLeftRotation(k1) == rightRightRotation([k1 EXCEPT !.right = leftLeftRotation(@)])

\* insert sets the height of the root again after a rotation.
withHeight(t) == Node(t.key, t.left, t.right)

RECURSIVE insertInto(_, _)
insertInto(t, k) ==
  IF t = Null THEN Node(k, Null, Null)
  ELSE IF k < t.key
    THEN LET u == [t EXCEPT !.left = insertInto(@, k)]
         IN withHeight(IF getHeight(u.left) - getHeight(u.right) <= 1 THEN u
                       ELSE IF k < u.left.key THEN leftLeftRotation(u) ELSE leftRightRotation(u))
  ELSE IF k > t.key
    THEN LET u == [t EXCEPT !.right = insertInto(@, k)]
         IN withHeight(IF getHeight(u.left) - getHeight(u.right) >= -1 THEN u
                       ELSE IF k > u.right.key THEN rightRightRotation(u) ELSE rightLeftRotation(u))
  ELSE withHeight(t)

MutBalanced(t) ==   \* a single rotation will do
  LET balance == getHeight(t.left) - getHeight(t.right)
  IN IF balance > 1 THEN leftLeftRotation(t)
     ELSE IF balance < -1 THEN rightRightRotation(t) ELSE t

\* The end of removeNode.
balanced(t) ==
  LET balance == getHeight(t.left) - getHeight(t.right)
  IN IF balance > 1
       THEN IF getHeight(t.left.right) > getHeight(t.left.left)
              THEN leftRightRotation(t) ELSE leftLeftRotation(t)
     ELSE IF balance < -1
       THEN IF getHeight(t.right.left) > getHeight(t.right.right)
              THEN rightLeftRotation(t) ELSE rightRightRotation(t)
     ELSE t

RECURSIVE removeNode(_, _)
removeNode(t, k) ==
  LET max == getMaximum(t.left)
      min == getMinimum(t.right)
      rest ==
        CASE t = Null -> Null
          [] t # Null /\ k < t.key -> Node(t.key, removeNode(t.left, k), t.right)
          [] t # Null /\ k > t.key -> Node(t.key, t.left, removeNode(t.right, k))
          [] t # Null /\ k = t.key /\ t.left # Null /\ t.right # Null ->
               IF getHeight(t.left) > getHeight(t.right)
                 THEN Node(max, removeNode(t.left, max), t.right)
                 ELSE Node(min, t.left, removeNode(t.right, min))
          [] OTHER -> IF t.left # Null THEN withHeight(t.left)
                      ELSE IF t.right # Null THEN withHeight(t.right) ELSE Null
  IN IF rest = Null THEN Null ELSE balanced(rest)

avlInsert(k) ==
  /\ Len(InOrder(root)) < MaxNodes
  /\ root' = insertInto(root, k)
  /\ call' = <<"insert", 1, k>>

avlRemove(k) ==
  /\ root' = IF search(root, k) THEN removeNode(root, k) ELSE root
  /\ call' = <<"remove", 1, k>>

AvlNext == \E k \in Numbers : avlInsert(k) \/ avlRemove(k)

--------------------------------------------------------------------------------
(* The splay tree.  splay goes down once and hangs what it passes into two trees: those   *)
(* chains are sequences here, of nodes without the child that follows.                    *)

splayNode(k, l, r) == [key |-> k, left |-> l, right |-> r]

RECURSIVE insertNode(_, _)
insertNode(t, k) ==
  IF t = Null THEN splayNode(k, Null, Null)
  ELSE IF k < t.key THEN [t EXCEPT !.left = insertNode(@, k)]
  ELSE IF k > t.key THEN [t EXCEPT !.right = insertNode(@, k)] ELSE t

\* The turn of two steps into the same direction.
zigLeft(t, k) ==
  IF t.left # Null /\ k < t.left.key
    THEN splayNode(t.left.key, t.left.left, splayNode(t.key, t.left.right, t.right)) ELSE t
zigRight(t, k) ==
  IF t.right # Null /\ k > t.right.key
    THEN splayNode(t.right.key, splayNode(t.key, t.left, t.right.left), t.right.right) ELSE t

assemble(t, l, r) ==
  splayNode(t.key, FoldRight(LAMBDA n, rest : [n EXCEPT !.right = rest], l, t.left),
                   FoldRight(LAMBDA n, rest : [n EXCEPT !.left = rest], r, t.right))

\* l are the nodes passed to the left of the key, r those to its right.
RECURSIVE down(_, _, _, _)
down(t, k, l, r) ==
  IF k = t.key THEN assemble(t, l, r)
  ELSE IF k < t.key
    THEN LET u == zigLeft(t, k)
         IN IF u.left = Null THEN assemble(u, l, r) ELSE down(u.left, k, l, Append(r, u))
    ELSE LET u == zigRight(t, k)
         IN IF u.right = Null THEN assemble(u, l, r) ELSE down(u.right, k, Append(l, u), r)

splayed(t, k) == IF t = Null THEN Null ELSE down(t, k, <<>>, <<>>)

removed(t, k) ==
  LET top == splayed(t, k)
  IN IF top.left # Null THEN [splayed(top.left, k) EXCEPT !.right = top.right] ELSE top.right

splayInsert(k) ==
  /\ Len(InOrder(root)) < MaxNodes
  /\ root' = splayed(insertNode(root, k), k)
  /\ call' = <<"insert", 1, k>>

splayRemove(k) ==
  /\ root' = IF search(root, k) THEN removed(root, k) ELSE root
  /\ call' = <<"remove", 1, k>>

splay(k) ==
  /\ root' = splayed(root, k)
  /\ call' = <<"splay", 1, k>>

SplayNext == \E k \in Numbers : splayInsert(k) \/ splayRemove(k) \/ splay(k)

--------------------------------------------------------------------------------
RECURSIVE HasShape(_)
HasShape(t) ==
  t # Null => /\ HasShape(t.left) /\ HasShape(t.right)
              /\ t.height = higher(t.left, t.right) + 1
              /\ getHeight(t.left) - getHeight(t.right) \in -1 .. 1

\* Stored heights are the heights, and siblings differ by one at most, whatever was
\* inserted and removed before.
Balanced == HasShape(root)

\* Searching and the ends of the tree agree with its order.
Navigable ==
  /\ \A k \in Numbers : search(root, k) <=> Contains(InOrder(root), k)
  /\ root # Null => /\ getMinimum(root) = Head(InOrder(root))
                    /\ getMaximum(root) = Last(InOrder(root))

\* A key that was inserted or splayed is at the root of a splay tree, if it is present.
LastKeyIsUp ==
  call # <<>> /\ call[1] \in {"insert", "splay"} /\ search(root, call[3]) => root.key = call[3]

Abstract == INSTANCE SortedBags WITH
  Objects <- {1}, Duplicates <- FALSE, Limit <- MaxNodes, keys <- <<InOrder(root)>>
================================================================================
