------------------------------ MODULE AbstractMap ------------------------------
(***************************************************************************)
(* What a map from words to data promises: an insertion never replaces     *)
(* what is there, a removal takes exactly the word it names, and as long   *)
(* as memory lasts both succeed whenever they can.                         *)
(***************************************************************************)
EXTENDS Integers

CONSTANTS Words, Values, Null

VARIABLES map,       \* the data of every word, or Null
          rv,        \* what the last call returned, 0 or an error
          reliable,  \* does memory last?
          usable     \* FALSE once a failed removal has broken the map

Empty == [w \in Words |-> Null]

Init == map = Empty /\ rv = 0 /\ usable = TRUE /\ reliable \in BOOLEAN

Fails == rv' < 0 /\ UNCHANGED <<map, usable>>

Insert(w, v) ==
  \/ map[w] = Null /\ rv' = 0 /\ map' = [map EXCEPT ![w] = v] /\ UNCHANGED usable
  \/ (map[w] # Null \/ ~reliable) /\ Fails

Remove(w) ==
  \/ map[w] # Null /\ rv' = 0 /\ map' = [map EXCEPT ![w] = Null] /\ UNCHANGED usable
  \/ map[w] = Null /\ Fails
  \/ ~reliable /\ rv' < 0 /\ map' = Empty /\ usable' = FALSE

Destroy == map' = Empty /\ rv' = 0 /\ UNCHANGED usable

Next ==
  /\ usable = TRUE /\ UNCHANGED reliable
  /\ (\E w \in Words : (\E v \in Values : Insert(w, v)) \/ Remove(w)) \/ Destroy

ASpec == Init /\ [][Next]_<<map, rv, reliable, usable>>
===============================================================================
