-------------------------------- MODULE KDList --------------------------------
(***************************************************************************)
(* The intrusive circular list of list/kdoubly_linked_list.c, on which the *)
(* buddy and slab allocators, the stack and the hash table are built.  A   *)
(* cell is a head or a node.  An action is one call, or one turn of        *)
(* kdlist_for_each_safe.  Clients link a node that is in no list and       *)
(* delete a node that is in one, as those four do.                         *)
(***************************************************************************)
EXTENDS Naturals, Sequences, SequencesExt

CONSTANTS Heads, Nodes, Null

Cells == Heads \cup Nodes

ASSUME CellsAssumption == Heads \cap Nodes = {} /\ Null \notin Cells

VARIABLES
  next, prev,  \* the two links of every cell
  lists,       \* history: the nodes each head should lead to, in order
  loop         \* Null, or the kdlist_for_each_safe that is running: its head,
               \* pos and n, and what it has seen of the list it began with

links == <<next, prev>>
vars == <<next, prev, lists, loop>>

Linked == UNION {ToSet(lists[h]) : h \in Heads}
Empty(h) == next[h] = h  \* kdlist_is_empty

\* Heads point at themselves (kdlist_head_init); what a node's links are before
\* the node is first linked does not matter.
Init ==
  /\ next = [x \in Cells |-> x]
  /\ prev = [x \in Cells |-> x]
  /\ lists = [h \in Heads |-> <<>>]
  /\ loop = Null

-------------------------------------------------------------------------------
PushHead(h, n) ==
  /\ loop = Null /\ n \notin Linked
  /\ IF Empty(h)
     THEN next' = [next EXCEPT ![h] = n, ![n] = h] /\ prev' = [prev EXCEPT ![h] = n, ![n] = h]
     ELSE /\ prev' = [prev EXCEPT ![next[h]] = n, ![n] = h]
          /\ next' = [next EXCEPT ![n] = next[h], ![h] = n]
  /\ lists' = [lists EXCEPT ![h] = <<n>> \o @]
  /\ UNCHANGED loop

PushTail(h, n) ==
  /\ loop = Null /\ n \notin Linked
  /\ IF Empty(h)
     THEN next' = [next EXCEPT ![h] = n, ![n] = h] /\ prev' = [prev EXCEPT ![h] = n, ![n] = h]
     ELSE /\ prev' = [prev EXCEPT ![n] = prev[h], ![h] = n]
          /\ next' = [next EXCEPT ![prev[h]] = n, ![n] = h]
  /\ lists' = [lists EXCEPT ![h] = Append(@, n)]
  /\ UNCHANGED loop

\* kdlist_push_after, behind a node or behind the head itself.
PushAfter(h, base, n) ==
  /\ loop = Null /\ n \notin Linked
  /\ base \in {h} \cup ToSet(lists[h])
  /\ prev' = [prev EXCEPT ![next[base]] = n, ![n] = base]
  /\ next' = [next EXCEPT ![n] = next[base], ![base] = n]
  /\ LET i == IF base = h THEN 0 ELSE CHOOSE i \in 1..Len(lists[h]) : lists[h][i] = base
     IN lists' = [lists EXCEPT ![h] = InsertAt(@, i + 1, n)]
  /\ UNCHANGED loop

PopHead(h) ==
  /\ loop = Null /\ ~Empty(h)
  /\ next' = [next EXCEPT ![h] = next[next[h]]]
  /\ prev' = [prev EXCEPT ![next[next[h]]] = h]
  /\ lists' = [lists EXCEPT ![h] = Tail(@)]
  /\ UNCHANGED loop

PopTail(h) ==
  /\ loop = Null /\ ~Empty(h)
  /\ prev' = [prev EXCEPT ![h] = prev[prev[h]]]
  /\ next' = [next EXCEPT ![prev[prev[h]]] = h]
  /\ lists' = [lists EXCEPT ![h] = Front(@)]
  /\ UNCHANGED loop

\* kdlist_delete needs no head.
Unlink(n) ==
  /\ next' = [next EXCEPT ![prev[n]] = next[n]]
  /\ prev' = [prev EXCEPT ![next[n]] = prev[n]]
  /\ lists' = [h \in Heads |-> RemoveFirst(lists[h], n)]

Delete(n) == loop = Null /\ n \in Linked /\ Unlink(n) /\ UNCHANGED loop

-------------------------------------------------------------------------------
\* kdlist_for_each_safe(pos, n, head): n runs one cell ahead of pos.
BeginLoop(h) ==
  /\ loop = Null
  /\ loop' = [head |-> h, pos |-> next[h], n |-> next[next[h]], seen |-> <<>>, all |-> lists[h]]
  /\ UNCHANGED <<next, prev, lists>>

\* Mutant: the plain loop, which looks for the next cell after the body.
AdvanceUnsafe ==
  loop' = [loop EXCEPT !.seen = Append(@, loop.pos), !.pos = next'[loop.pos],
                       !.n = next'[next'[loop.pos]]]

\* The end of a turn: pos = n, n = pos->next.
Advance ==
  loop' = [loop EXCEPT !.seen = Append(@, loop.pos), !.pos = loop.n, !.n = next'[loop.n]]

\* The body of the loop keeps the current node, or deletes it; its memory may
\* then be reused, so its links say nothing any more.
TurnKeep ==
  /\ loop # Null /\ loop.pos # loop.head
  /\ UNCHANGED <<next, prev, lists>>
  /\ Advance

TurnDelete ==
  /\ loop # Null /\ loop.pos # loop.head
  /\ \E junk \in Cells :
       /\ next' = [next EXCEPT ![prev[loop.pos]] = next[loop.pos], ![loop.pos] = junk]
       /\ prev' = [prev EXCEPT ![next[loop.pos]] = prev[loop.pos], ![loop.pos] = junk]
  /\ lists' = [h \in Heads |-> RemoveFirst(lists[h], loop.pos)]
  /\ Advance

EndLoop ==
  /\ loop # Null /\ loop.pos = loop.head
  /\ loop' = Null
  /\ UNCHANGED <<next, prev, lists>>

Next ==
  \/ \E h \in Heads, n \in Nodes : PushHead(h, n) \/ PushTail(h, n)
  \/ \E h \in Heads, n \in Nodes, base \in Cells : PushAfter(h, base, n)
  \/ \E h \in Heads : PopHead(h) \/ PopTail(h) \/ BeginLoop(h)
  \/ \E n \in Nodes : Delete(n)
  \/ TurnKeep \/ TurnDelete \/ EndLoop

Spec == Init /\ [][Next]_vars

-------------------------------------------------------------------------------
TypeOK ==
  /\ next \in [Cells -> Cells] /\ prev \in [Cells -> Cells]
  /\ lists \in [Heads -> Seq(Nodes)]
  /\ loop # Null => loop.head \in Heads /\ {loop.pos, loop.n} \subseteq Cells

\* From every head, next leads through the nodes that should be there and back
\* to the head, and prev leads the same way backwards; the lists share no node.
Represents ==
  \A h \in Heads :
    LET ring == <<h>> \o lists[h]
        after(i) == ring[(i % Len(ring)) + 1]
    IN /\ \A i \in 1..Len(ring) : next[ring[i]] = after(i) /\ prev[after(i)] = ring[i]
       /\ IsInjective(ring)
       /\ \A g \in Heads \ {h} : ToSet(lists[g]) \cap ToSet(lists[h]) = {}

\* "List iterator safe against removal" (kdoubly_linked_list.h, 59): the loop
\* sees every node of the list it began with, once and in order, although its
\* body deletes nodes under it.
LoopSeesAll == [][EndLoop => loop.seen = loop.all]_vars
===============================================================================
