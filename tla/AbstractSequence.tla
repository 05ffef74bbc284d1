---------------------------- MODULE AbstractSequence ---------------------------
(***************************************************************************)
(* What a list of data promises: a call that names an entry means the      *)
(* first entry with that data; it changes the sequence as its name says    *)
(* and returns 0, or it changes nothing and returns an error, which an     *)
(* insertion may do at any time (memory) and the others only when there is *)
(* no such entry.                                                          *)
(***************************************************************************)
EXTENDS Integers, Sequences, SequencesExt, FiniteSets

CONSTANT Data

VARIABLES items,
          call  \* the last call: its name, the data it names, the new data, its result

Init == items = <<>> /\ call = <<"create", 0, 0, 0>>

Place(x) == SelectInSeq(items, LAMBDA y : y = x)  \* 0 when there is none

RECURSIVE WithoutRepeats(_)
WithoutRepeats(s) ==
  IF Len(s) < 2 THEN s
  ELSE (IF s[1] = s[2] THEN <<>> ELSE <<s[1]>>) \o WithoutRepeats(Tail(s))

\* Each operation: can it be done, and what it makes of the sequence.
Fits(op, x) ==
  CASE op \in {"insert after", "insert before"} -> Place(x) # 0
    [] op = "delete after" -> Place(x) \in 1..(Len(items) - 1)
    [] op = "delete before" -> Place(x) > 1
    [] op \in {"delete first", "delete last"} -> items # <<>>
    [] OTHER -> TRUE

Result(op, x, v) ==
  CASE op = "insert first" -> <<v>> \o items
    [] op = "insert last" -> Append(items, v)
    [] op = "insert after" -> InsertAt(items, Place(x) + 1, v)
    [] op = "insert before" -> InsertAt(items, Place(x), v)
    [] op = "delete first" -> Tail(items)
    [] op = "delete last" -> Front(items)
    [] op = "delete after" -> RemoveAt(items, Place(x) + 1)
    [] op = "delete before" -> RemoveAt(items, Place(x) - 1)
    [] op = "delete duplicates" -> WithoutRepeats(items)
    [] op = "destroy" -> <<>>

Inserts == {"insert first", "insert last", "insert after", "insert before"}
Deletes == {"delete first", "delete last", "delete after", "delete before",
            "delete duplicates", "destroy"}

Done(op, x, v) ==
  /\ Fits(op, x)
  /\ items' = Result(op, x, v)

Refused(op, x) ==
  /\ op \in Inserts \/ ~Fits(op, x)
  /\ UNCHANGED items

Next ==
  /\ call' \in (Inserts \cup Deletes) \X ({0} \cup Data) \X ({0} \cup Data) \X (-3..0)
  /\ IF call'[4] = 0 THEN Done(call'[1], call'[2], call'[3]) ELSE Refused(call'[1], call'[2])

ASpec == Init /\ [][Next]_<<items, call>>
===============================================================================
