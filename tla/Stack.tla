-------------------------------- MODULE Stack ---------------------------------
(***************************************************************************)
(* The stack of stack/stack.c: entries from malloc, linked at the head of  *)
(* the list of KDList.  Destroying it frees the entries inside the list's  *)
(* loop without unlinking them.  An action is one call, or one turn of     *)
(* that loop.                                                              *)
(***************************************************************************)
EXTENDS Naturals, Sequences, SequencesExt, FiniteSets

CONSTANTS Top,      \* the list head that is the stack_t
          Entries,  \* the entries malloc can give
          Values, Null

VARIABLES next, prev, lists, loop,  \* as in KDList
          data,                     \* stack_entry_t.data
          allocated,                \* the entries malloc gave and free has not had back
          alive,                    \* the stack has not been destroyed
          res                       \* what the last call returned

listVars == <<next, prev, lists, loop>>
vars == <<next, prev, lists, loop, data, allocated, alive, res>>

L == INSTANCE KDList WITH Heads <- {Top}, Nodes <- Entries

Init ==
  /\ L!Init
  /\ data = [e \in Entries |-> Null]
  /\ allocated = {} /\ alive = TRUE
  /\ res = Null

\* Mutant: the entry goes to the other end.
PushAtTail(e, v) ==
  /\ alive /\ e \notin allocated
  /\ L!PushTail(Top, e)
  /\ data' = [data EXCEPT ![e] = v]
  /\ allocated' = allocated \cup {e}
  /\ res' = "0"
  /\ UNCHANGED alive

Push(e, v) ==
  /\ alive /\ e \notin allocated
  /\ L!PushHead(Top, e)
  /\ data' = [data EXCEPT ![e] = v]
  /\ allocated' = allocated \cup {e}
  /\ res' = "0"
  /\ UNCHANGED alive

PushNoMemory ==
  /\ alive /\ loop = Null
  /\ res' = "-2"
  /\ UNCHANGED <<listVars, data, allocated, alive>>

Pop ==
  /\ alive /\ L!PopHead(Top)
  /\ res' = data[next[Top]]
  /\ allocated' = allocated \ {next[Top]}
  /\ UNCHANGED <<data, alive>>

PopEmpty ==
  /\ alive /\ loop = Null /\ L!Empty(Top)
  /\ res' = Null
  /\ UNCHANGED <<listVars, data, allocated, alive>>

\* stack_top takes what stands in front of the head for an entry when the
\* stack is empty: any value can be there.
ReadTop ==
  /\ alive /\ loop = Null
  /\ res' \in IF L!Empty(Top) THEN Values \cup {Null} ELSE {data[next[Top]]}
  /\ UNCHANGED <<listVars, data, allocated, alive>>

BeginDestroy ==
  /\ alive /\ L!BeginLoop(Top)
  /\ UNCHANGED <<data, allocated, alive, res>>

\* Mutant: the loop frees the entry it is about to visit.
DestroyTurnAhead ==
  /\ alive /\ L!TurnKeep
  /\ allocated' = allocated \ {loop.n}
  /\ UNCHANGED <<data, alive, res>>

DestroyTurn ==
  /\ alive /\ L!TurnKeep
  /\ allocated' = allocated \ {loop.pos}
  /\ UNCHANGED <<data, alive, res>>

EndDestroy ==
  /\ alive /\ L!EndLoop
  /\ alive' = FALSE
  /\ UNCHANGED <<data, allocated, res>>

Next ==
  \/ PushNoMemory \/ Pop \/ PopEmpty \/ ReadTop
  \/ BeginDestroy \/ DestroyTurn \/ EndDestroy
  \/ \E e \in Entries, v \in Values : Push(e, v)

Spec == Init /\ [][Next]_vars

-------------------------------------------------------------------------------
\* Between calls the allocated entries are those the head leads to, and a
\* destroyed stack has given all of them back.  The loop of stack_destroy reads
\* no entry it has freed: until it is back at the head, the entry it stands on
\* and the cell it goes to next are both allocated.
EntriesOwned ==
  /\ alive /\ loop = Null => allocated = ToSet(lists[Top])
  /\ ~alive => allocated = {}
  /\ alive /\ loop # Null /\ loop.pos # Top => {loop.pos, loop.n} \subseteq allocated \cup {Top}

\* The stack implements a last-in first-out store, as its links tell: the
\* contents are the data of the entries that next leads through.
Path == CHOOSE p \in SeqOf(Entries, Cardinality(Entries)) :
          \A i \in 1..(Len(p) + 1) : next[(<<Top>> \o p)[i]] = (p \o <<Top>>)[i]
Contents == [i \in 1..Len(Path) |-> data[Path[i]]]
Abstract == INSTANCE AbstractLIFO WITH items <- Contents, out <- res
ImplementsLIFO == Abstract!ASpec
===============================================================================
