------------------------------ MODULE MCContainers ------------------------------
(***************************************************************************)
(* The containers of data_structure; a behaviour is one of the container   *)
(* that kind names, and the others stay empty.  The keys of the caches are *)
(* interchangeable, and so are their values and the list's elements.       *)
(***************************************************************************)
EXTENDS Caches, DoublyLinkedList, TLC

VARIABLES root, nodes

BST     == INSTANCE BSTree WITH node <- nodes, Numbers <- 1 .. 3, MaxNodes <- 4
AVL     == INSTANCE Trees WITH Numbers <- 1 .. 7, MaxNodes <- 7
Splay   == INSTANCE Trees WITH Numbers <- 1 .. 6, MaxNodes <- 5
Binary  == INSTANCE Heaps WITH
  heaps <- root, Kind <- "binary", Numbers <- 1 .. 3, MaxNodes <- 6
Leftist == INSTANCE Heaps WITH
  heaps <- root, Kind <- "leftist", Numbers <- 1 .. 3, MaxNodes <- 5
Skew    == INSTANCE Heaps WITH
  heaps <- root, Kind <- "skew", Numbers <- 1 .. 3, MaxNodes <- 5

cacheVars == <<list, listEnd, key, value, keyedElements, usedSize, lfuList, recent>>
allVars == <<vars, dllVars, root, nodes>>

Empty(v) == v = <<>>

AllInit ==
  /\ dllInit
  /\ \/ Init /\ Empty(root) /\ Empty(nodes)
     \/ /\ Empty(list) /\ Empty(listEnd) /\ Empty(key) /\ Empty(value) /\ Empty(keyedElements)
        /\ Empty(usedSize) /\ Empty(lfuList) /\ Empty(recent)
        /\ \/ kind = "bs" /\ BST!Init
           \/ kind = "avl" /\ AVL!Init /\ Empty(nodes)
           \/ kind = "splay" /\ Splay!Init /\ Empty(nodes)
           \/ kind = "binary" /\ Binary!BinaryInit /\ Empty(nodes)
           \/ kind = "leftist" /\ Leftist!Init /\ Empty(nodes)
           \/ kind = "skew" /\ Skew!Init /\ Empty(nodes)
           \/ kind = "dll" /\ Empty(call) /\ Empty(root) /\ Empty(nodes)

AllNext ==
  \/ Next /\ UNCHANGED <<dllVars, root, nodes>>
  \/ kind = "dll" /\ dllNext /\ UNCHANGED <<vars, root, nodes>>
  \/ /\ \/ kind = "bs" /\ BST!Next
        \/ kind = "avl" /\ AVL!AvlNext /\ UNCHANGED nodes
        \/ kind = "splay" /\ Splay!SplayNext /\ UNCHANGED nodes
        \/ kind = "binary" /\ Binary!BinaryNext /\ UNCHANGED nodes
        \/ kind = "leftist" /\ Leftist!Next /\ UNCHANGED nodes
        \/ kind = "skew" /\ Skew!Next /\ UNCHANGED nodes
     /\ UNCHANGED <<kind, cacheVars, dllVars>>

AllSpec == AllInit /\ [][AllNext]_allVars

Symmetry == Permutations(Keys) \cup Permutations(Values)

--------------------------------------------------------------------------------
\* The trees keep their keys in order through every insertion, removal, rotation and
\* splay, lose none and keep none that was removed; searching, the ends of a tree and,
\* where there are parents, the neighbours of a node agree with that order.  The heaps hold
\* what was inserted; what the leftist and the skew heap give up is a minimum, and a merge
\* moves all keys.  A call keeps a binary heap in order, but for a known kind of removal.
BagsAreSorted ==
  /\ kind = "bs" => BST!Abstract!Init
  /\ kind = "avl" => AVL!Abstract!Init
  /\ kind = "splay" => Splay!Abstract!Init
  /\ kind = "binary" => Binary!BinaryAbstract!Init
  /\ kind = "leftist" => Leftist!Abstract!Init
  /\ kind = "skew" => Skew!Abstract!Init
  /\ [](/\ kind = "bs" => BST!Navigable
        /\ kind = "avl" => AVL!Navigable
        /\ kind = "splay" => Splay!Navigable /\ Splay!LastKeyIsUp)
  /\ [][/\ kind = "bs" => [BST!Abstract!Next]_(BST!Abstract!vars)
        /\ kind = "avl" => [AVL!Abstract!Next]_(AVL!Abstract!vars)
        /\ kind = "splay" => [Splay!Abstract!Next]_(Splay!Abstract!vars)
        /\ kind = "binary" => /\ [Binary!BinaryAbstract!Next]_(Binary!BinaryAbstract!vars)
                              /\ [Binary!KeepsTheOrder]_(Binary!vars)
        /\ kind = "leftist" => [Leftist!Abstract!Next]_(Leftist!Abstract!vars)
        /\ kind = "skew" => [Skew!Abstract!Next]_(Skew!Abstract!vars)]_allVars

\* After any history an AVL tree is balanced and its stored heights are right; every
\* node of a leftist or skew heap is a minimum of its subtree, and a leftist heap leans
\* to the left by the path lengths it stores.
ShapesHold ==
  /\ kind = "avl" => AVL!Balanced
  /\ kind = "leftist" => Leftist!Shaped
  /\ kind = "skew" => Skew!Shaped
================================================================================
