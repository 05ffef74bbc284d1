------------------------------ MODULE RingBuffer ------------------------------
(***************************************************************************)
(* The ring buffer of ring_buffer/rbuffer.c.  It is used by one thread at  *)
(* a time ("concurrency-unsafe", rbuffer.c, 5): an action is one call.     *)
(***************************************************************************)
EXTENDS Naturals, Sequences

CONSTANTS Values,    \* what clients push
          Capacity,  \* RING_BUFFER_CAPACITY, a positive number
          Null       \* the zero bytes of an unused slot

VARIABLES data, head, tail, size,  \* ring_buffer_t
          res                      \* what the last call returned

vars == <<data, head, tail, size, res>>

Slots == 0..(Capacity - 1)

Init ==
  /\ data = [i \in Slots |-> Null]
  /\ head = 0 /\ tail = 0 /\ size = 0
  /\ res = Null

\* Mutant: the slot is written before the buffer is known to have room.
PushFullOverwrites(v) ==
  /\ size = Capacity
  /\ data' = [data EXCEPT ![tail] = v]
  /\ res' = "false"
  /\ UNCHANGED <<head, tail, size>>

PushFull(v) ==
  /\ size = Capacity
  /\ res' = "false"
  /\ UNCHANGED <<data, head, tail, size>>

Push(v) ==
  /\ size # Capacity
  /\ data' = [data EXCEPT ![tail] = v]
  /\ tail' = (tail + 1) % Capacity
  /\ size' = size + 1
  /\ res' = "true"
  /\ UNCHANGED head

PopEmpty ==
  /\ size = 0
  /\ res' = "false"
  /\ UNCHANGED <<data, head, tail, size>>

Pop ==
  /\ size # 0
  /\ res' = data[head]
  /\ head' = (head + 1) % Capacity
  /\ size' = size - 1
  /\ UNCHANGED <<data, tail>>

Next == PopEmpty \/ Pop \/ \E v \in Values : PushFull(v) \/ Push(v)

Spec == Init /\ [][Next]_vars

-------------------------------------------------------------------------------
TypeOK ==
  /\ data \in [Slots -> Values \cup {Null}]
  /\ head \in Slots /\ tail \in Slots /\ size \in 0..Capacity
  /\ res \in Values \cup {Null, "true", "false"}

\* The buffer implements a bounded queue, round after round: what it holds are
\* the size slots from head on, around the end of the array, and it refuses a
\* value exactly when all Capacity slots hold one.
Contents == [i \in 1..size |-> data[(head + i - 1) % Capacity]]
Abstract == INSTANCE AbstractFIFO
  WITH items <- Contents, out <- res, Cap <- Capacity, room <- Capacity - size,
       SlotsReused <- TRUE
ImplementsFIFO == Abstract!ASpec
===============================================================================
