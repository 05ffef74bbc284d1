--------------------------------- MODULE Heap ---------------------------------
(***************************************************************************)
(* The array heaps of heap/min_heap.c (dir "min") and heap/max_heap.c (dir *)
(* "max"), which differ in the direction of four comparisons.  The heap    *)
(* holds copies of what clients insert, made and freed by callbacks.  An   *)
(* action is a call, or one turn of a heapify loop.                        *)
(***************************************************************************)
EXTENDS Integers, FiniteSets

CONSTANTS Values,       \* the data, integers
          MaxCapacity   \* the largest capacity a client asks for

ASSUME HeapAssumption == Values \subseteq Int /\ MaxCapacity \in Nat

VARIABLES
  dir,       \* which of the two heaps this is
  capacity,  \* -1 while there is no heap
  data,      \* the entries in use, data[0] .. data[size - 1]
  owned,     \* how many copies of each value the callbacks made and did not free
  pc, idx,   \* "idle", or the loop that runs and where it stands
  out        \* what the last call returned

vars == <<dir, capacity, data, owned, pc, idx, out>>

size == Cardinality(DOMAIN data)
Parent(i) == (i - 1) \div 2
Left(i) == 2 * i + 1
Right(i) == 2 * i + 2

\* heap_cmp(a, b) > 0 in a min-heap, < 0 in a max-heap: a may not be above b.
Wrong(a, b) == IF dir = "min" THEN a > b ELSE a < b

Swap(d, i, j) == [d EXCEPT ![i] = d[j], ![j] = d[i]]

Init ==
  /\ dir \in {"min", "max"}
  /\ capacity = -1 /\ data = <<>>
  /\ owned = [v \in Values |-> 0]
  /\ pc = "idle" /\ idx = 0
  /\ out = <<"null", 0>>

\* A failed malloc leaves no heap, as before the call.
Create(c) ==
  /\ capacity = -1
  /\ capacity' = c
  /\ out' = <<"null", 0>>
  /\ UNCHANGED <<data, owned, pc, idx>>

Idle == capacity # -1 /\ pc = "idle"

Insert(v) ==
  /\ Idle /\ size # capacity
  /\ data' = [i \in 0..size |-> IF i = size THEN v ELSE data[i]]
  /\ owned' = [owned EXCEPT ![v] = @ + 1]
  /\ pc' = "up" /\ idx' = size
  /\ out' = <<"rv", 0>>
  /\ UNCHANGED capacity

InsertFull ==
  /\ Idle /\ size = capacity
  /\ out' = <<"rv", -1>>
  /\ UNCHANGED <<capacity, data, owned, pc, idx>>

InsertNoMemory ==
  /\ Idle /\ size # capacity
  /\ out' = <<"rv", -2>>
  /\ UNCHANGED <<capacity, data, owned, pc, idx>>

\* Mutant: the root's children are never compared with the root.
UpStopsShort ==
  /\ pc = "up"
  /\ IF idx > 2 /\ Wrong(data[Parent(idx)], data[idx])
     THEN data' = Swap(data, Parent(idx), idx) /\ idx' = Parent(idx) /\ pc' = pc
     ELSE pc' = "idle" /\ idx' = 0 /\ data' = data
  /\ UNCHANGED <<capacity, owned, out>>

\* A turn of __heapify_up.
Up ==
  /\ pc = "up"
  /\ IF idx > 0 /\ Wrong(data[Parent(idx)], data[idx])
     THEN data' = Swap(data, Parent(idx), idx) /\ idx' = Parent(idx) /\ pc' = pc
     ELSE pc' = "idle" /\ idx' = 0 /\ data' = data
  /\ UNCHANGED <<capacity, owned, out>>

\* Mutant: the last entry is freed, and the root is what drops out.
DeleteFreesLast ==
  /\ Idle /\ size # 0
  /\ data' = [i \in 0..(size - 2) |-> IF i = 0 THEN data[size - 1] ELSE data[i]]
  /\ owned' = [owned EXCEPT ![data[size - 1]] = @ - 1]
  /\ pc' = "down" /\ idx' = 0
  /\ out' = <<"rv", 0>>
  /\ UNCHANGED capacity

Delete ==
  /\ Idle /\ size # 0
  /\ data' = [i \in 0..(size - 2) |-> IF i = 0 THEN data[size - 1] ELSE data[i]]
  /\ owned' = [owned EXCEPT ![data[0]] = @ - 1]
  /\ pc' = "down" /\ idx' = 0
  /\ out' = <<"rv", 0>>
  /\ UNCHANGED capacity

DeleteEmpty ==
  /\ Idle /\ size = 0
  /\ out' = <<"rv", -1>>
  /\ UNCHANGED <<capacity, data, owned, pc, idx>>

\* Mutant: the right child is compared with the parent, not with the better one.
BestOfTwo(i) ==
  LET l == IF Left(i) < size /\ Wrong(data[i], data[Left(i)]) THEN Left(i) ELSE i
  IN IF Right(i) < size /\ Wrong(data[i], data[Right(i)]) THEN Right(i) ELSE l

\* The entry among i and its children that belongs above the others; the left
\* child before the right one when both do.
Best(i) ==
  LET l == IF Left(i) < size /\ Wrong(data[i], data[Left(i)]) THEN Left(i) ELSE i
  IN IF Right(i) < size /\ Wrong(data[l], data[Right(i)]) THEN Right(i) ELSE l

\* A turn of __heapify_down.
Down ==
  /\ pc = "down"
  /\ IF Left(idx) < size /\ Best(idx) # idx
     THEN data' = Swap(data, idx, Best(idx)) /\ idx' = Best(idx) /\ pc' = pc
     ELSE pc' = "idle" /\ idx' = 0 /\ data' = data
  /\ UNCHANGED <<capacity, owned, out>>

Peek ==
  /\ Idle
  /\ out' = IF size = 0 THEN <<"null", 0>> ELSE <<"value", data[0]>>
  /\ UNCHANGED <<capacity, data, owned, pc, idx>>

\* How many entries hold each value.
Contents == [v \in Values |-> Cardinality({i \in DOMAIN data : data[i] = v})]

Destroy ==
  /\ Idle
  /\ owned' = [v \in Values |-> owned[v] - Contents[v]]
  /\ data' = <<>> /\ capacity' = -1
  /\ out' = <<"null", 0>>
  /\ UNCHANGED <<pc, idx>>

Next ==
  /\ UNCHANGED dir
  /\ \/ \E c \in 0..MaxCapacity : Create(c)
     \/ \E v \in Values : Insert(v)
     \/ InsertFull \/ InsertNoMemory \/ Up \/ Delete \/ DeleteEmpty \/ Down \/ Peek \/ Destroy

Spec == Init /\ [][Next]_vars

-------------------------------------------------------------------------------
TypeOK ==
  /\ dir \in {"min", "max"}
  /\ capacity \in -1..MaxCapacity
  /\ data \in [0..(size - 1) -> Values] /\ (size # 0 => size <= capacity)
  /\ owned \in [Values -> Nat]
  /\ pc \in {"idle", "up", "down"} /\ idx \in 0..MaxCapacity
  /\ out \in {"rv", "null", "value"} \X (Values \cup -2..0)

\* No entry stands wrongly below its parent, except where a heapify loop is at
\* work; and there the loop can only repair: the children of its entry are
\* right for the entry's parent.
HeapOrder ==
  /\ \A i \in 1..(size - 1) :
       Wrong(data[Parent(i)], data[i]) => \/ pc = "up" /\ idx = i
                                          \/ pc = "down" /\ idx = Parent(i)
  /\ pc # "idle" /\ idx > 0 =>
       \A i \in {Left(idx), Right(idx)} : i < size => ~Wrong(data[Parent(idx)], data[i])

\* The callbacks' copies are exactly those in the heap: none leaks, whether it
\* is deleted, turned away or destroyed with the heap, and none is freed twice.
CopiesOwned == owned = Contents

\* The heap implements a priority queue.
Abstract == INSTANCE AbstractPriorityQueue WITH bag <- Contents, limit <- capacity
ImplementsPriorityQueue == Abstract!ASpec
===============================================================================
