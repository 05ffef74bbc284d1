------------------------------ MODULE TreeWalks -------------------------------
(***************************************************************************)
(* The traversals of tree/binary_tree.c, on every tree a client can link   *)
(* together.                                                               *)
(* A node is its place in the tree: 1 for the root, 2n and 2n + 1 for the  *)
(* children of n.  A traversal is the sequence of the nodes it prints; a   *)
(* loop over a stack or a queue is a function of what that holds.  Trees   *)
(* have no more nodes than the 128 slots of the traversals' queues; what   *)
(* happens to larger ones is in BinaryTree.                                *)
(***************************************************************************)
EXTENDS Integers, Sequences, FiniteSets, SequencesExt, FiniteSetsExt

CONSTANTS Depth  \* how many levels a tree may have

VARIABLES nodes  \* the nodes of the tree

Places == 1..(2 ^ Depth - 1)

Children(n) == SelectSeq(<<2 * n, 2 * n + 1>>, LAMBDA m : m \in nodes)  \* left, right
LeftChild(n) == SelectSeq(<<2 * n>>, LAMBDA m : m \in nodes)
IsLeaf(n) == Children(n) = <<>>
Root == IF 1 \in nodes THEN <<1>> ELSE <<>>

RECURSIVE Subtree(_)
Subtree(n) == IF n \in nodes THEN {n} \cup Subtree(2 * n) \cup Subtree(2 * n + 1) ELSE {}

-------------------------------------------------------------------------------
Init == nodes = {}

\* The client creates a node and links it where there is none.
Attach(n) ==
  /\ n \notin nodes /\ (n = 1 \/ n \div 2 \in nodes)
  /\ nodes' = nodes \cup {n}

\* binary_tree_node_destroy, the client clearing its link.
DestroyNode(n) ==
  /\ n \in nodes
  /\ nodes' = nodes \ Subtree(n)

Next == \E n \in Places : Attach(n) \/ DestroyNode(n)

Spec == Init /\ [][Next]_nodes

-------------------------------------------------------------------------------
\* The recursive prints.
RECURSIVE InOrder(_), PreOrder(_), PostOrder(_)
InOrder(n) == IF n \in nodes THEN InOrder(2 * n) \o <<n>> \o InOrder(2 * n + 1) ELSE <<>>
PreOrder(n) == IF n \in nodes THEN <<n>> \o PreOrder(2 * n) \o PreOrder(2 * n + 1) ELSE <<>>
PostOrder(n) == IF n \in nodes THEN PostOrder(2 * n) \o PostOrder(2 * n + 1) \o <<n>> ELSE <<>>

\* The loops over a queue: the first node is printed, its children enqueued.
RECURSIVE LevelLoop(_)
LevelLoop(q) ==
  IF q = <<>> THEN <<>> ELSE <<Head(q)>> \o LevelLoop(Tail(q) \o Children(Head(q)))
LevelOrder == LevelLoop(Root)
LevelOrderReverse == Reverse(LevelOrder)  \* by way of a stack

\* Mutant: the children are pushed left to right.
RECURSIVE PreLoopSwapped(_)
PreLoopSwapped(s) ==
  IF s = <<>> THEN <<>> ELSE <<Head(s)>> \o PreLoopSwapped(Reverse(Children(Head(s))) \o Tail(s))
\* The loops over a stack, top first: children are pushed right to left for the
\* one order, left to right for the other.
RECURSIVE PreLoop(_)
PreLoop(s) ==
  IF s = <<>> THEN <<>> ELSE <<Head(s)>> \o PreLoop(Children(Head(s)) \o Tail(s))
PreOrderIterative == PreLoop(Root)

RECURSIVE PostLoop(_, _)
PostLoop(s1, s2) ==
  IF s1 = <<>> THEN s2
  ELSE PostLoop(Reverse(Children(Head(s1))) \o Tail(s1), <<Head(s1)>> \o s2)
PostOrderIterative == PostLoop(Root, <<>>)

\* One stack per direction; printing a level from one fills the other.
RECURSIVE SpiralLoop(_, _, _)
SpiralLoop(from, to, leftwards) ==
  IF from # <<>>
  THEN LET c == Children(Head(from))
       IN <<Head(from)>> \o
          SpiralLoop(Tail(from), (IF leftwards THEN c ELSE Reverse(c)) \o to, leftwards)
  ELSE IF to # <<>> THEN SpiralLoop(to, <<>>, ~leftwards) ELSE <<>>
Spiral == SpiralLoop(Root, <<>>, TRUE)

\* Right children are followed, left children wait in the queue.
RECURSIVE DiagonalLoop(_, _)
DiagonalLoop(n, q) ==
  LET waiting == q \o LeftChild(n)
  IN <<n>> \o IF 2 * n + 1 \in nodes THEN DiagonalLoop(2 * n + 1, waiting)
              ELSE IF waiting # <<>> THEN DiagonalLoop(Head(waiting), Tail(waiting))
              ELSE <<>>
Diagonal == IF nodes = {} THEN <<>> ELSE DiagonalLoop(1, <<>>)

RECURSIVE DepthRecursive(_), DepthLoop(_)
DepthRecursive(n) ==
  IF n \in nodes THEN 1 + Max({DepthRecursive(2 * n), DepthRecursive(2 * n + 1)}) ELSE 0
\* A turn dequeues as many nodes as the queue held when it began.
DepthLoop(q) == IF q = <<>> THEN 0 ELSE 1 + DepthLoop(FlattenSeq([i \in DOMAIN q |-> Children(q[i])]))
DepthIterative == DepthLoop(Root)

RECURSIVE Size(_)
Size(n) == IF n \in nodes THEN Size(2 * n) + Size(2 * n + 1) + 1 ELSE 0

-------------------------------------------------------------------------------
\* What the orders are: by level from the left, which is by number; by level with
\* alternating sides; by the number of left turns on the way from the root.
RECURSIVE Level(_), LeftTurns(_)
Level(n) == IF n = 1 THEN 0 ELSE 1 + Level(n \div 2)
LeftTurns(n) == IF n = 1 THEN 0 ELSE LeftTurns(n \div 2) + 1 - (n % 2)

Orders(before(_, _), s) ==
  /\ ToSet(s) = nodes /\ Len(s) = Cardinality(nodes)
  /\ \A i, j \in DOMAIN s : i < j => before(s[i], s[j])

Alternating(n, m) ==
  \/ Level(n) < Level(m)
  \/ Level(n) = Level(m) /\ IF Level(n) % 2 = 0 THEN m < n ELSE n < m
\* As the tree is drawn, a node over the middle of the leaves it could have.
FromLeft(n, m) ==
  LET Low(k, up) == (2 * k + 1) * 2 ^ up
  IN Low(n, Depth - Level(n)) < Low(m, Depth - Level(m))
ByDiagonal(n, m) ==
  \/ LeftTurns(n) < LeftTurns(m)
  \/ /\ LeftTurns(n) = LeftTurns(m)
     /\ LET Place(k) == SelectInSeq(PreOrder(1), LAMBDA x : x = k) IN Place(n) < Place(m)

\* The iterative traversals print every node once, in the order of their names: what
\* the recursive ones print, or what the definitions above say; and both
\* ways of measuring the tree agree.
WalksAgree ==
  /\ PreOrderIterative = PreOrder(1)
  /\ PostOrderIterative = PostOrder(1)
  /\ Orders(LAMBDA n, m : n < m, LevelOrder)
  /\ Orders(LAMBDA n, m : n > m, LevelOrderReverse)
  /\ Orders(Alternating, Spiral)
  /\ Orders(ByDiagonal, Diagonal)
  /\ DepthIterative = DepthRecursive(1)
  /\ Size(1) = Cardinality(nodes) /\ Orders(FromLeft, InOrder(1))
===============================================================================
