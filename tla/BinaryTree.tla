------------------------------ MODULE BinaryTree ------------------------------
(***************************************************************************)
(* Level-order insertion and deletion of tree/binary_tree.c, on the nodes' *)
(* pointers and on the array queue of Queue, whose slots are used once.    *)
(* An action is one access of the traversal to its queue, or what the call *)
(* does after it; an assertion that fails ends the program.                *)
(***************************************************************************)
EXTENDS Naturals, Sequences, FiniteSets

CONSTANTS Nodes,      \* what malloc can return, numbered from 1
          Values,
          QueueSize,  \* the 128 of queue_create
          Null

VARIABLES root, left, right, data,  \* the tree
          q, h, t, res,             \* the queue of the running call, as in Queue
          pc, op, arg,              \* where the call is, which it is and its data
          crt,                      \* the node the traversal is at
          to_delete, parent         \* the other locals of binary_tree_delete

treeVars == <<root, left, right, data>>
queueVars == <<q, h, t, res>>
localVars == <<op, arg, crt, to_delete, parent>>
vars == <<treeVars, queueVars, pc, localVars>>

Q == INSTANCE Queue WITH Values <- Nodes, Size <- QueueSize

\* The node at a position, the root's being 1 and the children of i's being 2i
\* and 2i + 1, as the pointers lead there.
At[i \in 1..(2 * Cardinality(Nodes) + 1)] ==
  IF i = 1 THEN root
  ELSE LET up == At[i \div 2]
       IN IF up = Null THEN Null ELSE IF i % 2 = 0 THEN left[up] ELSE right[up]

InTree == {At[i] : i \in DOMAIN At} \ {Null}

Init ==
  /\ root = Null
  /\ left = [n \in Nodes |-> Null] /\ right = left /\ data = left
  /\ Q!Init
  /\ pc = "idle" /\ op = "none" /\ arg = Null
  /\ crt = Null /\ to_delete = Null /\ parent = Null

\* malloc gives the first node that is not in use.
NewNode(n) == n \notin InTree /\ \A m \in Nodes : m < n => m \in InTree

Link(n, v) ==
  /\ NewNode(n)
  /\ data' = [data EXCEPT ![n] = v]

InsertRoot(v) ==
  /\ pc = "idle" /\ root = Null
  /\ \E n \in Nodes : Link(n, v) /\ root' = n
  /\ UNCHANGED <<left, right, queueVars, pc, localVars>>

\* Mutant: the root is enqueued twice.
BeginTwice(o, v) ==
  /\ pc = "idle" /\ root # Null
  /\ q' = [i \in 0..(QueueSize - 1) |-> IF i \in {0, 1} THEN root ELSE Null]
  /\ h' = 0 /\ t' = 2 /\ res' = "true"
  /\ pc' = "next" /\ op' = o /\ arg' = v
  /\ crt' = Null /\ to_delete' = Null /\ parent' = Null
  /\ UNCHANGED treeVars

\* Either call creates a queue and enqueues the root.
Begin(o, v) ==
  /\ pc = "idle" /\ root # Null
  /\ q' = [i \in 0..(QueueSize - 1) |-> IF i = 0 THEN root ELSE Null]
  /\ h' = 0 /\ t' = 1 /\ res' = "true"
  /\ pc' = "next" /\ op' = o /\ arg' = v
  /\ crt' = Null /\ to_delete' = Null /\ parent' = Null
  /\ UNCHANGED treeVars

\* Mutant: of equal data the first one is deleted.
NextNodeFirst ==
  /\ pc = "next" /\ Q!Dequeue
  /\ crt' = q[h] /\ pc' = "left"
  /\ to_delete' = IF op = "delete" /\ to_delete = Null /\ data[crt'] = arg
                  THEN crt' ELSE to_delete
  /\ UNCHANGED <<treeVars, op, arg, parent>>

NextNode ==
  /\ pc = "next" /\ Q!Dequeue
  /\ crt' = q[h] /\ pc' = "left"
  /\ to_delete' = IF op = "delete" /\ data[crt'] = arg THEN crt' ELSE to_delete
  /\ UNCHANGED <<treeVars, op, arg, parent>>

\* The local variables mean nothing between calls.
Return ==
  /\ pc' = "idle" /\ op' = "none"
  /\ arg' = Null /\ crt' = Null /\ to_delete' = Null /\ parent' = Null
  /\ q' = [i \in DOMAIN q |-> Null] /\ h' = 0 /\ t' = 0 /\ res' = Null

Child == IF pc = "left" THEN left[crt] ELSE right[crt]

\* A child goes into the queue; the assertion on queue_enqueue may fail.
VisitChild ==
  /\ pc \in {"left", "right"} /\ Child # Null
  /\ \/ Q!Enqueue(Child) /\ pc' = IF pc = "left" THEN "right" ELSE "next"
     \/ Q!EnqueueFull /\ pc' = "aborted"
  /\ parent' = IF op = "delete" THEN crt ELSE parent
  /\ UNCHANGED <<treeVars, op, arg, crt, to_delete>>

\* binary_tree_delete passes over a child that is not there.
SkipChild ==
  /\ pc \in {"left", "right"} /\ Child = Null /\ op = "delete"
  /\ pc' = IF pc = "left" THEN "right" ELSE "next"
  /\ UNCHANGED <<treeVars, queueVars, localVars>>

\* binary_tree_insert puts the new node there.
InsertChild ==
  /\ pc \in {"left", "right"} /\ Child = Null /\ op = "insert"
  /\ \E n \in Nodes :
       /\ Link(n, arg)
       /\ IF pc = "left" THEN left' = [left EXCEPT ![crt] = n] /\ UNCHANGED right
                         ELSE right' = [right EXCEPT ![crt] = n] /\ UNCHANGED left
  /\ Return
  /\ UNCHANGED root

NoMemory ==
  /\ pc \in {"left", "right"} /\ Child = Null /\ op = "insert"
  /\ Return
  /\ UNCHANGED treeVars

\* The traversal of binary_tree_delete is over: the last node it saw is to_replace,
\* the last one with children its parent.
NotFound ==
  /\ pc = "next" /\ h = t /\ to_delete = Null
  /\ Return
  /\ UNCHANGED treeVars

DeleteRoot ==
  /\ pc = "next" /\ h = t /\ to_delete # Null /\ parent = Null
  /\ root' = Null /\ data' = [data EXCEPT ![root] = Null]
  /\ Return
  /\ UNCHANGED <<left, right>>

DeleteNode ==
  /\ pc = "next" /\ h = t /\ to_delete # Null /\ parent # Null
  /\ data' = [data EXCEPT ![to_delete] = data[crt], ![crt] = Null]
  /\ IF left[parent] = crt THEN left' = [left EXCEPT ![parent] = Null] /\ UNCHANGED right
                           ELSE right' = [right EXCEPT ![parent] = Null] /\ UNCHANGED left
  /\ Return
  /\ UNCHANGED root

\* binary_tree_node_destroy of the root.
Destroy ==
  /\ pc = "idle" /\ root # Null
  /\ root' = Null
  /\ left' = [n \in Nodes |-> Null] /\ right' = left' /\ data' = left'
  /\ UNCHANGED <<queueVars, pc, localVars>>

Next ==
  \/ \E v \in Values : InsertRoot(v) \/ \E o \in {"insert", "delete"} : Begin(o, v)
  \/ NextNode \/ VisitChild \/ SkipChild \/ InsertChild \/ NoMemory
  \/ NotFound \/ DeleteRoot \/ DeleteNode \/ Destroy

Spec == Init /\ [][Next]_vars

-------------------------------------------------------------------------------
\* Insertion and deletion work on every tree of up to QueueSize nodes: the
\* assertions on the queue fail only in a larger one, although the queue never
\* uses a slot again.
AbortsOnlyBeyondQueue == pc = "aborted" => Cardinality(InTree) > QueueSize

\* The tree holds its data level by level without a gap, and a call appends to
\* them or replaces the last datum that matches by the very last.
Contents ==
  IF root = Null THEN <<>> ELSE [i \in {j \in DOMAIN At : At[j] # Null} |-> data[At[i]]]
Abstract == INSTANCE AbstractLevelOrder WITH items <- Contents
ImplementsLevelOrder == Abstract!ASpec
===============================================================================
