--------------------------- MODULE AbstractMultimap ---------------------------
(***************************************************************************)
(* What the hash table promises whatever the hash function: every key has  *)
(* a list of values, an insertion adds one at its end and returns 0, or    *)
(* fails and returns an error; a deletion takes all values of one key, and *)
(* returns an error whatever it did.  HTable, the model of                 *)
(* htable/htable.c, implements it.                                         *)
(***************************************************************************)
EXTENDS Integers, Sequences

CONSTANTS Keys, Values

VARIABLES map,  \* the values of every key, oldest first
          ret   \* what the last call returned

AInit == map = [k \in Keys |-> <<>>] /\ ret = 0

AInsert(k, v) == map' = [map EXCEPT ![k] = Append(@, v)] /\ ret' = 0
AInsertFails == ret' < 0 /\ UNCHANGED map
ADelete(k) == map' = [map EXCEPT ![k] = <<>>] /\ ret' < 0
ADestroy == map' = [k \in Keys |-> <<>>] /\ UNCHANGED ret

ANext ==
  \/ ADestroy \/ AInsertFails
  \/ \E k \in Keys : ADelete(k) \/ \E v \in Values : AInsert(k, v)

ASpec == AInit /\ [][ANext]_<<map, ret>>
===============================================================================
