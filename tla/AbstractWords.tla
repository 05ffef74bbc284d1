----------------------------- MODULE AbstractWords -----------------------------
(***************************************************************************)
(* A bound on what calls of the trie do to its words, weaker than what     *)
(* trie.c says of them: deleting a word may take with it words that begin  *)
(* it or that it begins, but no other; and the tree stays safe to use for  *)
(* as long as no deletion leaves it without a word.                        *)
(***************************************************************************)
CONSTANT Words

VARIABLES words, rv,
          risky,   \* has a deletion left the tree without a word?
          crashed  \* has freed memory been used?

Init == words = {} /\ rv = "created" /\ ~risky /\ ~crashed

\* Does one of two words begin the other?
Comparable(v, w) == \A i \in DOMAIN v \cap DOMAIN w : v[i] = w[i]

Insert(w) ==
  /\ words' = words \cup {w} /\ rv' = "root"
  /\ UNCHANGED <<risky, crashed>>

InsertFails(w) ==
  /\ w \notin words
  /\ rv' = "NULL" /\ UNCHANGED <<words, risky, crashed>>

Delete(w) ==
  /\ words' \subseteq words \ {w}
  /\ \A v \in words \ words' : Comparable(v, w)
  /\ rv' = "root"
  /\ (risky' = risky) \/ (risky' /\ words' = {})
  /\ UNCHANGED crashed

DeleteFails(w) == InsertFails(w)

Crash == risky /\ crashed' /\ UNCHANGED <<words, risky, rv>>

Destroy == words' = {} /\ rv' = "created" /\ UNCHANGED <<risky, crashed>>

Next ==
  /\ ~crashed
  /\ (\E w \in Words : Insert(w) \/ InsertFails(w) \/ Delete(w) \/ DeleteFails(w)) \/ Crash \/ Destroy

ASpec == Init /\ [][Next]_<<words, rv, risky, crashed>>
===============================================================================
