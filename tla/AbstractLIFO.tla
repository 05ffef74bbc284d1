----------------------------- MODULE AbstractLIFO -----------------------------
(***************************************************************************)
(* What a stack promises: pop returns the newest value that has not been   *)
(* popped, top shows it, and a push that fails changes nothing.  What top  *)
(* shows of an empty stack is not promised.  Stack, the model of           *)
(* stack/stack.c, implements it.                                           *)
(***************************************************************************)
EXTENDS Naturals, Sequences

CONSTANTS Values, Null

VARIABLES items,  \* the values inside, newest first
          out     \* what the last call returned

avars == <<items, out>>

AInit == items = <<>> /\ out = Null

APush(v) == items' = <<v>> \o items /\ out' = "0"
APushFails == items' = items /\ out' = "-2"

APop ==
  IF items # <<>> THEN items' = Tail(items) /\ out' = Head(items)
                  ELSE items' = items /\ out' = Null

ATop ==
  /\ items' = items
  /\ IF items # <<>> THEN out' = Head(items) ELSE out' \in Values \cup {Null}

ANext == APushFails \/ APop \/ ATop \/ \E v \in Values : APush(v)

ASpec == AInit /\ [][ANext]_avars
===============================================================================
