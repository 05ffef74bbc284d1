-------------------------------- MODULE KSList --------------------------------
(***************************************************************************)
(* The intrusive list of list/ksingly_linked_list.c, which holds the       *)
(* callbacks of RCU.  An action is one call.  Clients link a node that is  *)
(* in no list.                                                             *)
(***************************************************************************)
EXTENDS Naturals, Sequences, SequencesExt, FiniteSets

CONSTANTS Heads, Nodes, Null

VARIABLES next,  \* the link of every cell
          lists  \* history: the nodes each head should lead to, in order

vars == <<next, lists>>

Cells == Heads \cup Nodes
Linked == UNION {ToSet(lists[h]) : h \in Heads}
Empty(h) == next[h] = Null  \* kslist_is_empty

\* Heads are empty (kslist_head_init); the links of unused nodes do not matter.
Init ==
  /\ next = [x \in Cells |-> Null]
  /\ lists = [h \in Heads |-> <<>>]

\* The walks along the list stop at the cell before one of the ends: at the last
\* cell (the head itself when there is no node), or before the node n.
WalkTo(h, ends) ==
  LET at[i \in 0..Cardinality(Nodes)] ==
        IF i = 0 THEN h
        ELSE LET x == at[i - 1] IN IF next[x] \in ends THEN x ELSE next[x]
  IN at[Cardinality(Nodes)]
LastCell(h) == WalkTo(h, {Null})
Before(h, n) == WalkTo(h, {n, Null})

PushHead(h, n) ==
  /\ n \notin Linked
  /\ next' = [next EXCEPT ![n] = next[h], ![h] = n]
  /\ lists' = [lists EXCEPT ![h] = <<n>> \o @]

\* Mutant: the link the node had before is kept.
PushTailStale(h, n) ==
  /\ n \notin Linked
  /\ next' = [next EXCEPT ![LastCell(h)] = n]
  /\ lists' = [lists EXCEPT ![h] = Append(@, n)]

PushTail(h, n) ==
  /\ n \notin Linked
  /\ next' = [next EXCEPT ![LastCell(h)] = n, ![n] = Null]
  /\ lists' = [lists EXCEPT ![h] = Append(@, n)]

\* kslist_push_after, behind a node or behind the head itself.
PushAfter(h, base, n) ==
  /\ n \notin Linked
  /\ base \in {h} \cup ToSet(lists[h])
  /\ next' = [next EXCEPT ![n] = next[base], ![base] = n]
  /\ LET i == IF base = h THEN 0 ELSE CHOOSE i \in 1..Len(lists[h]) : lists[h][i] = base
     IN lists' = [lists EXCEPT ![h] = InsertAt(@, i + 1, n)]

PopHead(h) ==
  /\ ~Empty(h)
  /\ next' = [next EXCEPT ![h] = next[next[h]]]
  /\ lists' = [lists EXCEPT ![h] = Tail(@)]

PopTail(h) ==
  /\ ~Empty(h)
  /\ next' = [next EXCEPT ![Before(h, LastCell(h))] = Null]
  /\ lists' = [lists EXCEPT ![h] = Front(@)]

\* kslist_replace walks to the old node; nothing happens when it is not there.
Replace(h, old, new) ==
  /\ new \notin Linked
  /\ old \in ToSet(lists[h])
  /\ next' = [next EXCEPT ![new] = next[old], ![Before(h, old)] = new]
  /\ lists' = [lists EXCEPT ![h] = [i \in DOMAIN @ |-> IF @[i] = old THEN new ELSE @[i]]]

ReplaceFails(h, old, new) ==
  /\ new \notin Linked
  /\ next[Before(h, old)] # old
  /\ UNCHANGED vars

Next ==
  \E h \in Heads :
    \/ PopHead(h) \/ PopTail(h)
    \/ \E n \in Nodes :
         \/ PushHead(h, n) \/ PushTail(h, n)
         \/ \E x \in Cells : PushAfter(h, x, n)
         \/ \E x \in Nodes : Replace(h, x, n) \/ ReplaceFails(h, x, n)

Spec == Init /\ [][Next]_vars

-------------------------------------------------------------------------------
TypeOK ==
  /\ next \in [Cells -> Nodes \cup {Null}]
  /\ lists \in [Heads -> Seq(Nodes)]

\* From every head, next leads through the nodes that should be there, and
\* ends; no node is in two lists, whatever link it had when it was pushed.
Represents ==
  \A h \in Heads :
    LET cells == <<h>> \o lists[h]
    IN /\ \A i \in 1..Len(lists[h]) : next[cells[i]] = cells[i + 1]
       /\ next[Last(cells)] = Null
       /\ IsInjective(cells)
       /\ \A g \in Heads \ {h} : ToSet(lists[g]) \cap ToSet(lists[h]) = {}
===============================================================================
