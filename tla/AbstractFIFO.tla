----------------------------- MODULE AbstractFIFO -----------------------------
(***************************************************************************)
(* What a bounded queue promises: values come out in the order in which    *)
(* they went in, each once, and one is turned away if and only if no slot  *)
(* is left for it.  Whether a slot can be used again is the difference     *)
(* between RingBuffer, the model of ring_buffer/rbuffer.c, and Queue, the  *)
(* model of queue/queue.c, where a slot is used once.                      *)
(***************************************************************************)
EXTENDS Naturals, Sequences

CONSTANTS Values, Cap, Null,
          SlotsReused  \* TRUE: a value that leaves makes room for another

VARIABLES items,  \* the values inside, oldest first
          room,   \* how many values it still takes in, if none leaves
          out     \* what the last call returned: a value, "true" or "false"

avars == <<items, room, out>>

AInit == items = <<>> /\ room = Cap /\ out = Null

AAccept(v) ==
  /\ room > 0
  /\ items' = Append(items, v) /\ room' = room - 1 /\ out' = "true"

ARefuse == room = 0 /\ UNCHANGED <<items, room>> /\ out' = "false"

APop ==
  /\ items # <<>>
  /\ items' = Tail(items) /\ out' = Head(items)
  /\ room' = IF SlotsReused THEN room + 1 ELSE room

APopEmpty == items = <<>> /\ UNCHANGED <<items, room>> /\ out' = "false"

ANext == APop \/ APopEmpty \/ ARefuse \/ \E v \in Values : AAccept(v)

ASpec == AInit /\ [][ANext]_avars
===============================================================================
