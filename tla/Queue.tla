-------------------------------- MODULE Queue ---------------------------------
(***************************************************************************)
(* The array queue of queue/queue.c.  Both ends only move forward: a slot  *)
(* is used once, and a queue that has taken in its size accepts nothing    *)
(* more, even when it is empty again.  An action is one call.              *)
(***************************************************************************)
EXTENDS Naturals, Sequences

CONSTANTS Values,  \* what clients enqueue, never NULL
          Size,    \* the size given to queue_create
          Null     \* NULL, and an unused slot

VARIABLES q, h, t,  \* queue_t: the array, _h - q and _t - q
          res       \* what the last call returned

vars == <<q, h, t, res>>

Init ==
  /\ q = [i \in 0..(Size - 1) |-> Null]
  /\ h = 0 /\ t = 0
  /\ res = Null

Enqueue(v) ==
  /\ t < Size
  /\ q' = [q EXCEPT ![t] = v]
  /\ t' = t + 1
  /\ res' = "true"
  /\ UNCHANGED h

EnqueueFull ==
  /\ t >= Size
  /\ res' = "false"
  /\ UNCHANGED <<q, h, t>>

Dequeue ==
  /\ h # t
  /\ res' = q[h]
  /\ h' = h + 1
  /\ UNCHANGED <<q, t>>

DequeueEmpty ==
  /\ h = t
  /\ res' = "false"
  /\ UNCHANGED <<q, h, t>>

Next == EnqueueFull \/ Dequeue \/ DequeueEmpty \/ \E v \in Values : Enqueue(v)

Spec == Init /\ [][Next]_vars

-------------------------------------------------------------------------------
\* Types; both ends stay in the array or just behind it.
TypeOK ==
  /\ q \in [0..(Size - 1) -> Values \cup {Null}]
  /\ t \in 0..Size /\ h \in 0..t
  /\ res \in Values \cup {Null, "true", "false"}

\* The queue implements a bounded queue whose slots are used once: it refuses a
\* value exactly when it has taken in Size of them, however many have left.
Contents == [i \in 1..(t - h) |-> q[h + i - 1]]
Abstract == INSTANCE AbstractFIFO
  WITH items <- Contents, out <- res, Cap <- Size, room <- Size - t, SlotsReused <- FALSE
ImplementsFIFO == Abstract!ASpec
===============================================================================
