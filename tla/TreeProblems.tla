----------------------------- MODULE TreeProblems -----------------------------
(***************************************************************************)
(* The questions of tree/binary_tree_problems.c about the trees of         *)
(* TreeWalks.  Where data matter they are a function of the node;          *)
(* elsewhere all nodes differ in their data.                               *)
(***************************************************************************)
EXTENDS TreeWalks

IndexIn(in, x) == SelectInSeq(in, LAMBDA y : y = x)

\* Mutant: the right half takes all that remains.
RightPartAll(in, lvl) == Tail(lvl)

LeftPart(in, lvl) ==
  SelectSeq(Tail(lvl), LAMBDA x : IndexIn(in, x) < IndexIn(in, Head(lvl)))
RightPart(in, lvl) ==
  SelectSeq(Tail(lvl), LAMBDA x : IndexIn(in, x) > IndexIn(in, Head(lvl)))

\* __binary_tree_by_traversals, as the data at each place.
RECURSIVE Built(_, _, _)
Built(in, lvl, place) ==
  IF lvl = <<>> THEN {}
  ELSE {<<place, Head(lvl)>>}
       \cup Built(in, LeftPart(in, lvl), 2 * place)
       \cup Built(in, RightPart(in, lvl), 2 * place + 1)

ByTraversals(in, lvl) ==
  IF Len(in) # Len(lvl) \/ ~(ToSet(in) \subseteq ToSet(lvl)) THEN {} ELSE Built(in, lvl, 1)

\* The loop ends with the first level on which one of the two is found.
RECURSIVE CousinLoop(_, _, _)
CousinLoop(q, a, b) ==
  LET below == FlattenSeq([i \in DOMAIN q |-> Children(q[i])])
      found == {a, b} \cap ToSet(below)
  IN IF q = <<>> THEN FALSE
     ELSE IF found = {} THEN CousinLoop(below, a, b)
     ELSE found = {a, b} /\ a \div 2 # b \div 2
Cousins(a, b) == CousinLoop(Root, a, b)

DivideTwoHalves == \E n \in ToSet(LevelOrder) : Size(n) = Size(1) - Size(n)

RECURSIVE PerfectFrom(_, _)
PerfectFrom(n, depth) ==
  IF IsLeaf(n) THEN depth = DepthIterative
  ELSE Len(Children(n)) = 2 /\ \A c \in ToSet(Children(n)) : PerfectFrom(c, depth + 1)
IsPerfect == nodes # {} /\ PerfectFrom(1, 1)

RECURSIVE AreMirror(_, _, _)
AreMirror(n, m, data) ==
  \/ n \notin nodes /\ m \notin nodes
  \/ /\ {n, m} \subseteq nodes /\ data[n] = data[m]
     /\ AreMirror(2 * n, 2 * m + 1, data) /\ AreMirror(2 * n + 1, 2 * m, data)
IsFoldable(data) == nodes # {} => AreMirror(2, 3, data)

RECURSIVE Sum(_, _)
Sum(n, data) ==
  IF n \in nodes THEN Sum(2 * n, data) + Sum(2 * n + 1, data) + data[n] ELSE 0

RECURSIVE IsSumTree(_, _)
IsSumTree(n, data) ==
  \/ n \notin nodes \/ IsLeaf(n)
  \/ /\ data[n] = Sum(2 * n, data) + Sum(2 * n + 1, data)
     /\ IsSumTree(2 * n, data) /\ IsSumTree(2 * n + 1, data)

RECURSIVE AreDuplicate(_, _, _)
AreDuplicate(n, m, data) ==
  \/ n \notin nodes /\ m \notin nodes
  \/ /\ {n, m} \subseteq nodes /\ data[n] = data[m]
     /\ AreDuplicate(2 * n, 2 * m, data) /\ AreDuplicate(2 * n + 1, 2 * m + 1, data)

-------------------------------------------------------------------------------
Mirrored(n) == 3 * 2 ^ Level(n) - 1 - n

\* The data that make a sum tree of the nodes when every leaf holds 1.
RECURSIVE Summing(_)
Summing(n) ==
  IF n \notin nodes THEN 0
  ELSE IF IsLeaf(n) THEN 1
  ELSE LET below == Subtree(n) \ {n} IN FoldFunction(+, 0, [m \in below |-> Summing(m)])

\* Where the nodes below n are, as if n were the root.
Shape(n) == {m - (n - 1) * 2 ^ (Level(m) - Level(n)) : m \in Subtree(n)}

\* The functions do what their words mean: the in-order and the level-order print of
\* a tree lead back to it, although the recursion keeps the whole in-order print;
\* cousins are on one level and have different parents; a tree falls in halves if
\* some edge has as many nodes below it as above; a perfect tree fills its levels; a
\* foldable one is its own mirror image, in shape and, below the root, in data; data
\* that sum up do no longer when one of several nodes changes; duplicates agree in
\* shape, and in data where these differ.
ProblemsSolved ==
  /\ ByTraversals(InOrder(1), LevelOrder) = {<<n, n>> : n \in nodes}
  /\ \A a, b \in Places :
       Cousins(a, b) <=> {a, b} \subseteq nodes /\ Level(a) = Level(b) /\ a \div 2 # b \div 2
  /\ DivideTwoHalves <=> \E n \in nodes \ {1} : 2 * Cardinality(Subtree(n)) = Cardinality(nodes)
  /\ IsPerfect <=> \E d \in 1..Depth : nodes = 1..(2 ^ d - 1)
  /\ LET mirror == nodes = {Mirrored(n) : n \in nodes}
         folded == [n \in nodes |-> Min({n, Mirrored(n)})]
     IN /\ IsFoldable(folded) <=> mirror
        /\ \A n \in nodes \ {1} : ~IsFoldable([folded EXCEPT ![n] = 0])
  /\ LET data == [n \in nodes |-> Summing(n)]
     IN /\ IsSumTree(1, data)
        /\ \A n \in nodes : IsSumTree(1, [data EXCEPT ![n] = @ + 1]) <=> nodes = {n}
  /\ \A n, m \in Places :
       /\ AreDuplicate(n, m, [x \in nodes |-> x]) <=> n = m \/ {n, m} \cap nodes = {}
       /\ AreDuplicate(n, m, [x \in nodes |-> 1]) <=> Shape(n) = Shape(m)
===============================================================================
