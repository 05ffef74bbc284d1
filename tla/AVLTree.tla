------------------------------- MODULE AVLTree --------------------------------
(***************************************************************************)
(* The AVL tree of tree/avl_tree.c.  A tree is Null or a node, a record of *)
(* the node's data, its two subtrees and the height it stores; the         *)
(* recursions are those of the code.  An action is one call.  The callback *)
(* that copies data may fail; what happens to the tree then depends on how *)
(* deep in the recursion it fails.                                         *)
(***************************************************************************)
EXTENDS Integers, Sequences, FiniteSets, FiniteSetsExt

CONSTANTS Keys,  \* integers, the data
          Null

VARIABLES tree,      \* avl_tree_entry.root
          usable,    \* FALSE once root is freed memory or a node without data
          reliable,  \* does the copying callback always succeed?
          rv         \* what the last call returned

vars == <<tree, usable, reliable, rv>>

Leaf(k) == [key |-> k, left |-> Null, right |-> Null, height |-> 1]
Height(t) == IF t = Null THEN 0 ELSE t.height
Factor(t) == Height(t.left) - Height(t.right)
UpdateHeight(t) == [t EXCEPT !.height = 1 + Max({Height(t.left), Height(t.right)})]

LeftRotate(x) ==
  LET y == x.right
  IN UpdateHeight([y EXCEPT !.left = UpdateHeight([x EXCEPT !.right = y.left])])
RightRotate(x) ==
  LET y == x.left
  IN UpdateHeight([y EXCEPT !.right = UpdateHeight([x EXCEPT !.left = y.right])])

\* Mutant: a rotation is never prepared by one below.
BalanceOnce(node) ==
  LET t == UpdateHeight(node)
  IN IF Factor(t) < -1 THEN LeftRotate(t) ELSE IF Factor(t) > 1 THEN RightRotate(t) ELSE t

Balance(node) ==
  LET t == UpdateHeight(node)
  IN IF Factor(t) < -1
     THEN LeftRotate(IF Factor(t.right) > 0 THEN [t EXCEPT !.right = RightRotate(@)] ELSE t)
     ELSE IF Factor(t) > 1
     THEN RightRotate(IF Factor(t.left) < 0 THEN [t EXCEPT !.left = LeftRotate(@)] ELSE t)
     ELSE t

Side(t, k) == IF k < t.key THEN "left" ELSE "right"

\* __avl_tree_insert when the new node can be made.
RECURSIVE Inserted(_, _)
Inserted(t, k) ==
  IF t = Null THEN Leaf(k)
  ELSE IF k = t.key THEN t
  ELSE Balance([t EXCEPT ![Side(t, k)] = Inserted(@, k)])

\* Mutant: the search for the least key does not descend.
RootKey(t) == t.key
RECURSIVE Least(_)
Least(t) == IF t.left = Null THEN t.key ELSE Least(t.left)

\* __avl_tree_delete when the next copies calls of the callback succeed; the one
\* after them fails, and the subtree it is at is replaced by Null.
RECURSIVE Deleted(_, _, _)
Deleted(t, k, copies) ==
  IF t = Null THEN Null
  ELSE IF k # t.key THEN Balance([t EXCEPT ![Side(t, k)] = Deleted(@, k, copies)])
  ELSE IF {t.left, t.right} = {Null} \/ copies = 0 THEN Null
  ELSE IF Null \in {t.left, t.right}
  THEN Balance(IF t.left = Null THEN t.right ELSE t.left)
  ELSE LET m == Least(t.right)
       IN Balance([t EXCEPT !.key = m, !.right = Deleted(@, m, copies - 1)])

RECURSIVE Lookup(_, _)
Lookup(t, k) == t # Null /\ (t.key = k \/ Lookup(t[Side(t, k)], k))

-------------------------------------------------------------------------------
Init ==
  /\ tree = Null /\ usable = TRUE
  /\ reliable \in BOOLEAN
  /\ rv = 0

Insert(k) ==
  /\ usable
  /\ tree' = Inserted(tree, k)
  /\ rv' = 0
  /\ UNCHANGED <<usable, reliable>>

\* Every level of the recursion sets its link to Null and gives up; the entry
\* keeps its root, which has lost the whole side that was descended into.
InsertFails(k) ==
  /\ usable /\ ~reliable /\ ~Lookup(tree, k)
  /\ tree' = IF tree = Null THEN Null ELSE [tree EXCEPT ![Side(tree, k)] = Null]
  /\ rv' = -1
  /\ UNCHANGED <<usable, reliable>>

\* A deletion copies at most twice.  When it returns Null the entry keeps its
\* root: freed if it was the only node, without data if its copy failed.
Delete(k) ==
  /\ usable
  /\ \E copies \in IF reliable THEN {2} ELSE 0..2 :
       LET t == Deleted(tree, k, copies)
       IN IF t # Null THEN tree' = t /\ rv' = 0 /\ usable' = TRUE
          ELSE tree' = tree /\ rv' = -1 /\ usable' = (tree = Null)
  /\ UNCHANGED reliable

\* avl_tree_destroy, and a new tree.
Destroy ==
  /\ usable
  /\ tree' = Null /\ rv' = 0
  /\ UNCHANGED <<usable, reliable>>

Next == (\E k \in Keys : Insert(k) \/ InsertFails(k) \/ Delete(k)) \/ Destroy

Spec == Init /\ [][Next]_vars

-------------------------------------------------------------------------------
RECURSIVE Subtrees(_)
Subtrees(t) == IF t = Null THEN {} ELSE {t} \cup Subtrees(t.left) \cup Subtrees(t.right)
KeysOf(t) == {u.key : u \in Subtrees(t)}

\* After any sequence of insertions and deletions the data are in search order,
\* whatever failed; and while no copy fails, the two sides of every node differ
\* in height by at most one, and every node stores its height.
WellFormed ==
  usable => \A t \in Subtrees(tree) :
    /\ \A k \in KeysOf(t.left) : k < t.key
    /\ \A k \in KeysOf(t.right) : k > t.key
    /\ reliable => Factor(t) \in -1..1 /\ UpdateHeight(t) = t

\* The tree implements a set, as lookup sees it.
Contents == IF usable THEN {k \in Keys : Lookup(tree, k)} ELSE {}
Abstract == INSTANCE AbstractSet WITH set <- Contents, out <- rv
ImplementsSet == Abstract!ASpec
===============================================================================
