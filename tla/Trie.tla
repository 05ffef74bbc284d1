---------------------------------- MODULE Trie ---------------------------------
(***************************************************************************)
(* The trie of tree/trie.c.  A node is the path of letters that leads to   *)
(* it; the root, the empty path, is always there.  An action is one call.  *)
(* Clients pass words of at least one letter.                              *)
(***************************************************************************)
EXTENDS Integers, Sequences, SequencesExt, FiniteSets, FiniteSetsExt

CONSTANTS Letters,  \* integers, 'a' to 'z'
          Words     \* the words clients use, sequences of letters

VARIABLES nodes,     \* the paths that have a node, below the root
          leafs,     \* those that are marked is_leaf
          dangling,  \* the letters whose child of the root is freed memory
          usable,    \* FALSE once freed memory was used
          rv         \* what the last call returned, or "created"

vars == <<nodes, leafs, dangling, usable, rv>>

Init ==
  /\ nodes = {} /\ leafs = {} /\ dangling = {} /\ usable = TRUE
  /\ rv = "created"

Path(w, n) == SubSeq(w, 1, n)
Paths(w) == {Path(w, n) : n \in 1..Len(w)}
Below(p) == {q \in nodes : IsPrefix(p, q)}  \* what trie_node_destroy(p) frees

\* Has the parent of path p another child than p?  A dangling pointer is one.
Branches(p) ==
  \/ \E l \in Letters \ {Last(p)} : Append(Front(p), l) \in nodes
  \/ Len(p) = 1 /\ dangling \ {p[1]} # {}

\* Mutant: the depth at which a path branches is counted from zero.
DepthOfBranch(w) ==
  IF ~(Paths(w) \subseteq nodes) THEN -1
  ELSE Max({0} \cup {i \in 0..(Len(w) - 1) : Branches(Path(w, i + 1))})

LongestPrefix(w) ==
  IF ~(Paths(w) \subseteq nodes) THEN -1
  ELSE Max({0} \cup {i \in 1..Len(w) : Branches(Path(w, i))})

-------------------------------------------------------------------------------
Insert(w) ==
  /\ w[1] \notin dangling
  /\ nodes' = nodes \cup Paths(w)
  /\ leafs' = leafs \cup {w}
  /\ rv' = "root"
  /\ UNCHANGED <<dangling, usable>>

\* No memory for the first missing node, or for a later one: the nodes made
\* until then stay.
InsertFails(w) ==
  /\ w[1] \notin dangling
  /\ \E n \in 1..Len(w) :
       Path(w, n) \notin nodes /\ nodes' = nodes \cup Paths(Path(w, n - 1))
  /\ rv' = "NULL"
  /\ UNCHANGED <<leafs, dangling, usable>>

\* A path that is the only one loses its child of the root, but the root keeps
\* the pointer.
Delete(w) ==
  /\ w[1] \notin dangling
  /\ LET k == LongestPrefix(w)
         gone == Below(Path(w, IF k = 0 THEN 1 ELSE k))
     IN IF k < 0 THEN rv' = "NULL" /\ UNCHANGED <<nodes, leafs, dangling>>
        ELSE /\ nodes' = nodes \ gone /\ leafs' = leafs \ gone
             /\ dangling' = IF k = 0 THEN dangling \cup {w[1]} ELSE dangling
             /\ rv' = "root"
  /\ UNCHANGED usable

\* Any call whose path goes through a dangling pointer.
UseFreed ==
  /\ dangling # {}
  /\ usable' = FALSE
  /\ UNCHANGED <<nodes, leafs, dangling, rv>>

\* trie_node_destroy of the root, and a new trie.
Destroy ==
  /\ dangling = {}
  /\ nodes' = {} /\ leafs' = {} /\ rv' = "created"
  /\ UNCHANGED <<dangling, usable>>

Next ==
  /\ usable
  /\ (\E w \in Words : Insert(w) \/ InsertFails(w) \/ Delete(w)) \/ UseFreed \/ Destroy

Spec == Init /\ [][Next]_vars

-------------------------------------------------------------------------------
Search(w) == Paths(w) \subseteq nodes /\ w \in leafs

InOrder == SetToSortSeq(Letters, <)

\* Mutant: the walk stops at the first word.
FirstLeafs(p) ==
  LET L[q \in nodes \cup {<<>>}] ==
        IF q \in leafs THEN <<q>>
        ELSE FlattenSeq([i \in DOMAIN InOrder |->
               LET r == Append(q, InOrder[i]) IN IF r \in nodes THEN L[r] ELSE <<>>])
  IN L[p]

\* The words under a node, as the recursion of trie_get_leafs_by_prefix and of
\* trie_print_leafs_by_prefix finds them.
Leafs(p) ==
  LET L[q \in nodes \cup {<<>>}] ==
        (IF q \in leafs THEN <<q>> ELSE <<>>)
        \o FlattenSeq([i \in DOMAIN InOrder |->
             LET r == Append(q, InOrder[i]) IN IF r \in nodes THEN L[r] ELSE <<>>])
  IN L[p]

\* The lists by prefix; <<>> is the empty string.
LeafsByPrefix(p) == IF p = <<>> \/ Paths(p) \subseteq nodes THEN Leafs(p) ELSE <<>>

\* A regex gives a mask of letters for every position, and whether the letter
\* there must be in the mask or must not.
Regexes(len) == [1..len -> [opt : {"VAL_IN_LIST", "VAL_NOT_IN_LIST"}, mask : SUBSET Letters]]

Matches(re, l) ==
  CASE re.opt = "VAL_IN_LIST" -> l \in re.mask
    [] re.opt = "VAL_NOT_IN_LIST" -> l \notin re.mask

LeafsByRegex(regex) ==
  LET L[q \in nodes \cup {<<>>}] ==
        IF Len(q) = Len(regex) THEN IF q \in leafs THEN <<q>> ELSE <<>>
        ELSE FlattenSeq([i \in DOMAIN InOrder |->
               LET r == Append(q, InOrder[i])
               IN IF r \in nodes /\ Matches(regex[Len(r)], InOrder[i]) THEN L[r] ELSE <<>>])
  IN L[<<>>]

\* v comes before w in a dictionary.
Before(v, w) ==
  v # w /\ LET n == Len(LongestCommonPrefix({v, w}))
           IN n = Len(v) \/ (n < Len(w) /\ v[n + 1] < w[n + 1])

Lists(s, ws) ==
  ToSet(s) = ws /\ \A i, j \in DOMAIN s : i < j => Before(s[i], s[j])

\* The lists by prefix and by regex hold the words searches find that match,
\* each once, in the order of a dictionary; whatever nodes failed insertions
\* left behind.
ListsMatch ==
  usable /\ dangling = {} =>
    LET found == {w \in Words : Search(w)}
    IN /\ \A p \in {<<>>} \cup UNION {Paths(w) : w \in Words} :
            Lists(LeafsByPrefix(p), {w \in found : IsPrefix(p, w)})
       /\ \A len \in {Len(w) : w \in Words} : \A regex \in Regexes(len) :
            Lists(LeafsByRegex(regex),
                  {w \in found : Len(w) = len /\ \A i \in 1..len :
                     (w[i] \in regex[i].mask) <=> (regex[i].opt = "VAL_IN_LIST")})

\* "Remove an entry from a trie" (trie.c, 317): the deletion of a word the trie
\* has takes that word and no other.
DeletesItsWordOnly ==
  [][\A w \in Words : Delete(w) /\ Search(w) =>
       \A v \in Words : Search(v)' = (Search(v) /\ v # w)]_vars

\* What holds of deletions nevertheless: no word that leaves the path of the
\* deleted one is lost, and freed memory is used only after a deletion that left
\* no word.
Abstract == INSTANCE AbstractWords
              WITH words <- {w \in Words : Search(w)}, risky <- dangling # {}, crashed <- ~usable
WithinBound == Abstract!ASpec
===============================================================================
