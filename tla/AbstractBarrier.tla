---------------------------- MODULE AbstractBarrier ----------------------------
(***************************************************************************)
(* What a reusable barrier promises, phase after phase: a thread leaves    *)
(* only when every thread has arrived.  Barrier, the model of              *)
(* synchronization/barrier.c, implements it.                               *)
(***************************************************************************)
EXTENDS Integers

CONSTANTS Threads, Phases

VARIABLES round,   \* round[t]: how many phases t has passed
          inside   \* the threads that have arrived and not yet left

avars == <<round, inside>>

AInit == round = [t \in Threads |-> 0] /\ inside = {}

Arrive(t) ==
  /\ t \notin inside
  /\ round[t] < Phases
  /\ inside' = inside \cup {t}
  /\ UNCHANGED round

Leave(t) ==
  /\ t \in inside
  /\ \A u \in Threads : round[u] > round[t] \/ (round[u] = round[t] /\ u \in inside)
  /\ inside' = inside \ {t}
  /\ round' = [round EXCEPT ![t] = @ + 1]

ANext == \E t \in Threads : Arrive(t) \/ Leave(t)

ASpec == AInit /\ [][ANext]_avars
===============================================================================
