------------------------ MODULE AbstractPriorityQueue -------------------------
(***************************************************************************)
(* What a priority queue promises, whatever order it keeps inside: peek    *)
(* shows a first value, delete removes one, and a call that fails changes  *)
(* nothing.  With dir "min" the least value is first, with "max" the       *)
(* greatest.  Heap, the model of heap/min_heap.c and heap/max_heap.c,      *)
(* implements it.                                                          *)
(***************************************************************************)
EXTENDS Integers

CONSTANTS Values, MaxCapacity

VARIABLES dir,
          bag,   \* how often each value is inside
          limit, \* how many values fit, -1 while there is no queue
          out    \* what the last call returned

avars == <<dir, bag, limit, out>>

None == [v \in Values |-> 0]
Inside == {v \in Values : bag[v] > 0}
First == {v \in Inside : \A w \in Inside : IF dir = "min" THEN v <= w ELSE v >= w}

AInit == dir \in {"min", "max"} /\ bag = None /\ limit = -1 /\ out = <<"null", 0>>

ACreate == limit = -1 /\ limit' \in 0..MaxCapacity /\ bag' = bag /\ out' = <<"null", 0>>
AInsert(v) == bag' = [bag EXCEPT ![v] = @ + 1] /\ out' = <<"rv", 0>> /\ limit' = limit
AInsertFails == out' \in {<<"rv", -1>>, <<"rv", -2>>} /\ UNCHANGED <<bag, limit>>
ADelete == \E v \in First : bag' = [bag EXCEPT ![v] = @ - 1] /\ out' = <<"rv", 0>> /\ limit' = limit
ADeleteFails == Inside = {} /\ out' = <<"rv", -1>> /\ UNCHANGED <<bag, limit>>
APeek == out' \in (IF Inside = {} THEN {<<"null", 0>>} ELSE {<<"value", v>> : v \in First}) /\ UNCHANGED <<bag, limit>>
ADestroy == limit' = -1 /\ bag' = None /\ out' = <<"null", 0>>

ANext ==
  /\ UNCHANGED dir
  /\ \/ ACreate
     \/ limit # -1 /\ (AInsertFails \/ ADelete \/ ADeleteFails \/ APeek \/ ADestroy)
     \/ limit # -1 /\ \E v \in Values : AInsert(v)

ASpec == AInit /\ [][ANext]_avars
===============================================================================
