------------------------------ MODULE AbstractSet ------------------------------
(***************************************************************************)
(* A set of keys, as a search tree presents it.  It promises something     *)
(* only while memory is reliable; otherwise a call may lose elements.      *)
(***************************************************************************)
EXTENDS Integers

CONSTANTS Keys

VARIABLES set,      \* what lookup finds
          out,      \* what the last call returned
          reliable  \* does the copying callback always succeed?

avars == <<set, out, reliable>>

AInit == set = {} /\ out = 0 /\ reliable \in BOOLEAN

AInsert(k) == set' = set \cup {k} /\ out' = 0

\* Deleting what is not there succeeds, unless nothing is; deleting the last
\* element is reported as an error.
ADelete(k) == set' = set \ {k} /\ out' = IF set' = {} THEN -1 ELSE 0

AClear == set' = {} /\ out' = 0

ALose == ~reliable /\ set' \subseteq set /\ out' \in {-1, 0}

ANext ==
  /\ UNCHANGED reliable
  /\ (\E k \in Keys : AInsert(k) \/ ADelete(k)) \/ AClear \/ ALose

ASpec == AInit /\ [][ANext]_avars
===============================================================================
