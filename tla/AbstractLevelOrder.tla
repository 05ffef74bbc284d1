-------------------------- MODULE AbstractLevelOrder --------------------------
(***************************************************************************)
(* What a tree filled and emptied level by level holds, in that order: new *)
(* data go to the end, and what is deleted is replaced by the last.        *)
(***************************************************************************)
EXTENDS Naturals, Sequences, SequencesExt

CONSTANTS Values

VARIABLES items

AInit == items = <<>>

AInsert(v) == items' = Append(items, v)

\* Of several equal data the last one goes.
ADelete(v) ==
  LET i == SelectLastInSeq(items, LAMBDA x : x = v)
  IN i # 0 /\ items' = Front([items EXCEPT ![i] = Last(items)])

AClear == items' = <<>>

ANext == (\E v \in Values : AInsert(v) \/ ADelete(v)) \/ AClear

ASpec == AInit /\ [][ANext]_items
===============================================================================
