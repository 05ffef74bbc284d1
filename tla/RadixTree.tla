------------------------------- MODULE RadixTree -------------------------------
(***************************************************************************)
(* The radix tree of tree/radix_tree.c.  A node is a record of the letters *)
(* on the edge to it, its data and its children by first letter; the root  *)
(* has no letters.  The recursions are those of the code.  An action is    *)
(* one call.  Memory, unless it is reliable, runs out at some allocation   *)
(* of a call.                                                              *)
(***************************************************************************)
EXTENDS Integers, Sequences, SequencesExt, FiniteSets

CONSTANTS Letters,
          Words,   \* the keys clients use, non-empty sequences of letters
          Values, Null

VARIABLES tree,      \* the root
          reliable,  \* does memory last?
          usable,    \* FALSE once a node has lost its prefix
          rv         \* what the last call returned

vars == <<tree, reliable, usable, rv>>

Node(prefix, data) ==
  [prefix |-> prefix, data |-> data, children |-> [l \in Letters |-> Null]]

Children(node) == {l \in Letters : node.children[l] # Null}
\* __common_prefix: how many letters two words begin with alike.
RECURSIVE Common(_, _)
Common(s, t) ==
  IF s = <<>> \/ t = <<>> THEN 0
  ELSE IF s[1] # t[1] THEN 0 ELSE 1 + Common(Tail(s), Tail(t))
From(s, n) == SubSeq(s, n + 1, Len(s))

\* Mutant: the shorter prefix keeps the data of the longer one.
SplitKeepingData(node, n) ==
  LET child == [node EXCEPT !.prefix = From(@, n), !.data = Null]
  IN [Node(SubSeq(node.prefix, 1, n), node.data) EXCEPT !.children[child.prefix[1]] = child]

Split(node, n) ==
  LET child == [node EXCEPT !.prefix = From(@, n)]
  IN [Node(SubSeq(node.prefix, 1, n), Null) EXCEPT !.children[child.prefix[1]] = child]

\* __radix_tree_insert when the next allocs allocations succeed: the node
\* afterwards and the result.  A split stays when what follows it fails.
RECURSIVE Inserted(_, _, _, _)
Inserted(node, key, v, allocs) ==
  LET it == node.children[key[1]]
      n == Common(it.prefix, key)
      splits == n < Len(it.prefix)
      at == IF splits THEN Split(it, n) ELSE it
      left == IF splits THEN allocs - 1 ELSE allocs
      sub == IF left < 0 THEN [node |-> it, rv |-> -2]
             ELSE IF n < Len(key) THEN Inserted(at, From(key, n), v, left)
             ELSE IF at.data # Null \/ left = 0 THEN [node |-> at, rv |-> -3]
             ELSE [node |-> [at EXCEPT !.data = v], rv |-> 0]
  IN IF it # Null THEN [node |-> [node EXCEPT !.children[key[1]] = sub.node], rv |-> sub.rv]
     ELSE IF allocs = 0 THEN [node |-> node, rv |-> -1]
     ELSE [node |-> [node EXCEPT !.children[key[1]] = Node(key, v)], rv |-> 0]

\* What removals return: the node, the result, and how many more reallocations
\* succeed, -1 after one that did not.
Result(node, rc, left) == [node |-> node, rv |-> rc, left |-> left]

\* __node_merge: a node and its only child, both without data, become one.
Merge(node, left) ==
  LET child == node.children[CHOOSE l \in Children(node) : TRUE]
  IN IF Cardinality(Children(node)) # 1 \/ node.data # Null THEN Result(node, 0, left)
     ELSE IF child.data # Null THEN Result(node, 0, left)
     ELSE IF left = 0 THEN Result(node, -1, -1)
     ELSE Result([child EXCEPT !.prefix = node.prefix \o @], 0, left - 1)

\* __node_cleanup: children without data or children go.
Cleanup(node) ==
  [node EXCEPT !.children = [l \in Letters |->
     IF node.children[l] # Null /\ node.children[l].data = Null /\ Children(node.children[l]) = {}
     THEN Null ELSE node.children[l]]]

Compact(node, left) ==
  IF node.prefix = <<>> THEN Result(Cleanup(node), 0, left) ELSE Merge(node, left)

\* __radix_tree_remove when the next reallocs reallocations succeed.  A node that
\* has children only loses its data, and its parent is not compacted.
RECURSIVE Removed(_, _, _)
Removed(node, key, reallocs) ==
  LET it == node.children[key[1]]
      n == Common(it.prefix, key)
      With(child) == [node EXCEPT !.children[key[1]] = child]
      sub == Removed(it, From(key, n), reallocs)
  IN IF it = Null THEN Result(node, -1, reallocs)
     ELSE IF n < Len(it.prefix) THEN Result(node, -2, reallocs)
     ELSE IF n < Len(key)
     THEN IF sub.rv < 0 THEN Result(With(sub.node), -4, sub.left)
          ELSE Compact(With(sub.node), sub.left)
     ELSE IF it.data = Null THEN Result(node, -3, reallocs)
     ELSE IF Children(it) = {} THEN Compact(With(Null), reallocs)
     ELSE Result(With([it EXCEPT !.data = Null]), 0, reallocs)

RECURSIVE Lookup(_, _)
Lookup(node, key) ==
  LET it == node.children[key[1]]
      n == Common(it.prefix, key)
  IN IF it = Null THEN Null
     ELSE IF n < Len(it.prefix) THEN Null
     ELSE IF n = Len(key) THEN it.data
     ELSE Lookup(it, From(key, n))

-------------------------------------------------------------------------------
Init ==
  /\ tree = Node(<<>>, Null)
  /\ reliable \in BOOLEAN
  /\ usable = TRUE /\ rv = 0

\* An insertion allocates at most twice, at a split and for the new data.
InsertKey(w, v) ==
  \E allocs \in IF reliable THEN {2} ELSE 0..2 :
    LET r == Inserted(tree, w, v, allocs)
    IN tree' = r.node /\ rv' = r.rv /\ UNCHANGED <<reliable, usable>>

\* A reallocation that fails leaves a node without a prefix, on which the next
\* call that meets it aborts.
RemoveKey(w) ==
  \E reallocs \in IF reliable THEN {Len(w)} ELSE 0..Len(w) :
    LET r == Removed(tree, w, reallocs)
    IN tree' = r.node /\ rv' = r.rv /\ usable' = (r.left >= 0) /\ UNCHANGED reliable

\* radix_tree_destroy, and a new tree.
Destroy == tree' = Node(<<>>, Null) /\ rv' = 0 /\ UNCHANGED <<reliable, usable>>

Next ==
  /\ usable
  /\ (\E w \in Words : (\E v \in Values : InsertKey(w, v)) \/ RemoveKey(w)) \/ Destroy

Spec == Init /\ [][Next]_vars

-------------------------------------------------------------------------------
\* The tree implements a map, as lookups see it: whatever edges were split and
\* merged on the way, and while memory lasts every insertion of a new word and
\* every removal of a present one succeeds.
Contents == [w \in Words |-> IF usable THEN Lookup(tree, w) ELSE Null]
Abstract == INSTANCE AbstractMap WITH map <- Contents
ImplementsMap == Abstract!ASpec
===============================================================================
