------------------------------ MODULE Slab_proofs ------------------------------
(***************************************************************************)
(* Proofs about Slab for any cpus, pages, sizes and layout of a slab, when *)
(* clients shrink only a cpu whose free list is empty (a shrink that frees *)
(* a slab leaves it in its list, see AllocFromLive): the lists, the counts *)
(* and the bitmaps agree with what clients hold, and nothing leaks.        *)
(***************************************************************************)
EXTENDS Slab, SequenceLemmas, FiniteSetTheorems

\* TypeOK without the bounds that need the invariant.
Types ==
  /\ status \in {"none", "alive", "aborted"}
  /\ size \in {0} \cup ObjSizes
  /\ status # "none" => size \in ObjSizes /\ MinSize <= size
  /\ lists \in [Cpus -> [Classes -> Seq(Slabs)]]
  /\ used \in [Slabs -> SUBSET Nat]
  /\ count \in [Slabs -> Nat]
  /\ live \subseteq Slabs

\* The bitmap and the count of a slab, also while it is no memory.
BitsInv ==
  /\ held = UNION {{s} \X used[s] : s \in Slabs}
  /\ \A s \in Slabs : /\ count[s] = Cardinality(used[s])
                      /\ IF s \in live /\ status # "none"
                         THEN used[s] \subseteq 0..(Per - 1) ELSE used[s] = {}

\* The lists hold live slabs, each one once, in the list its count calls for.
PlaceInv ==
  \A c \in Cpus, k \in Classes :
    /\ IsInjective(lists[c][k])
    /\ \A s \in Listed(c, k) :
         /\ s \in live /\ ClassOf(s) = k
         /\ \A d \in Cpus : s \in Listed(d, k) => d = c

\* No live slab drops out of the lists, and a slab that holds no object never
\* gets into them.
AliveInv ==
  /\ status = "none" => live = {} /\ lists = NoLists
  /\ status = "alive" =>
       /\ \A s \in live : \E c \in Cpus : s \in Listed(c, ClassOf(s))
       /\ live # {} => Per > 0

Inv == Types /\ BitsInv /\ PlaceInv /\ AliveInv

-------------------------------------------------------------------------------
LEMMA QuotientIsNat == ASSUME NEW a \in Nat, NEW b \in Nat \ {0} PROVE a \div b \in Nat
OBVIOUS

\* A slab of an accepted object size holds a natural number of objects.
LEMMA PerIsNat ==
  ASSUME NEW sz \in Nat \ {0} PROVE ObjPerSlab(sz) \in Nat
<1> USE ObjSizesAssumption
<1>1. sz + RedZone \in Nat /\ sz + RedZone >= 1
  OBVIOUS
<1>2. ASSUME NEW x \in Nat \ {0} PROVE AlignUp(x) \in Nat \ {0}
  <2> DEFINE q == (x + Alignment - 1) \div Alignment
  <2>1. q \in Nat /\ q >= 1
    <3>1. Alignment \in Nat /\ Alignment > 0 /\ x + Alignment - 1 \in Nat
          /\ x + Alignment - 1 >= Alignment
      OBVIOUS
    <3> QED
      BY <3>1
  <2> HIDE DEF q
  <2>2. q * Alignment \in Nat /\ q * Alignment >= 1
    BY <2>1
  <2> QED
    BY <2>2 DEF AlignUp, q
<1> QED
  BY <1>1, <1>2, QuotientIsNat DEF ObjPerSlab

\* What Move does to the lists.
LEMMA MoveTypes ==
  ASSUME Types, \A d \in Cpus, m \in Classes : IsInjective(lists[d][m]),
         NEW s \in Slabs, NEW c \in Cpus, NEW k \in Classes
  PROVE  Move(s, c, k) \in [Cpus -> [Classes -> Seq(Slabs)]]
<1>1. ASSUME NEW d \in Cpus, NEW m \in Classes
      PROVE  RemoveFirst(lists[d][m], s) \in Seq(Slabs)
  BY RemoveOne DEF Types
<1>2. Unlink(s) \in [Cpus -> [Classes -> Seq(Slabs)]]
  BY <1>1 DEF Unlink
<1> QED
  BY <1>2 DEF Move

LEMMA MoveLists ==
  ASSUME Types, \A d \in Cpus, m \in Classes : IsInjective(lists[d][m]),
         NEW s \in Slabs, NEW c \in Cpus, NEW k \in Classes,
         NEW d \in Cpus, NEW m \in Classes
  PROVE  /\ IsInjective(Move(s, c, k)[d][m])
         /\ ToSet(Move(s, c, k)[d][m]) =
              (ToSet(lists[d][m]) \ {s}) \cup (IF d = c /\ m = k THEN {s} ELSE {})
<1> DEFINE u == Unlink(s)[d][m]
<1>1. u = RemoveFirst(lists[d][m], s)
  BY DEF Unlink
<1>2. u \in Seq(Slabs) /\ IsInjective(u) /\ ToSet(u) = ToSet(lists[d][m]) \ {s}
  BY <1>1, RemoveOne DEF Types
<1>3. Move(s, c, k)[d][m] = IF d = c /\ m = k THEN Append(u, s) ELSE u
  BY DEF Move, Unlink
<1> HIDE DEF u
<1>4. CASE d = c /\ m = k
  <2>1. IsInjective(Append(u, s)) /\ ToSet(Append(u, s)) = ToSet(u) \cup {s}
    BY <1>2, AppendOne
  <2> QED
    BY <1>2, <1>3, <1>4, <2>1
<1>5. CASE ~(d = c /\ m = k)
  BY <1>2, <1>3, <1>5
<1> QED
  BY <1>4, <1>5

\* A slab that leaves its list for the one its new count calls for keeps the
\* places of all slabs right.
LEMMA MovePlaces ==
  ASSUME Types, PlaceInv, NEW s \in Slabs, NEW c \in Cpus, NEW k \in Classes,
         lists' = Move(s, c, k), live' = live \cup {s}, ClassOf(s)' = k,
         \A t \in Slabs \ {s} : ClassOf(t)' = ClassOf(t),
         \A t \in live : \E d \in Cpus : t \in Listed(d, ClassOf(t))
  PROVE  /\ lists' \in [Cpus -> [Classes -> Seq(Slabs)]] /\ PlaceInv'
         /\ \A t \in live' : \E d \in Cpus : t \in Listed(d, ClassOf(t))'
<1> USE DEF Listed
<1>0. \A d \in Cpus, m \in Classes : IsInjective(lists[d][m])
  BY DEF PlaceInv
<1>1. ASSUME NEW d \in Cpus, NEW m \in Classes
      PROVE  /\ IsInjective(lists'[d][m])
             /\ ToSet(lists'[d][m]) =
                  (ToSet(lists[d][m]) \ {s}) \cup (IF d = c /\ m = k THEN {s} ELSE {})
  BY <1>0, MoveLists
<1>2. ASSUME NEW d \in Cpus, NEW m \in Classes, NEW t \in Listed(d, m)'
      PROVE  t \in live' /\ ClassOf(t)' = m /\ \A e \in Cpus : t \in Listed(e, m)' => e = d
  <2>1. CASE t = s
    BY <1>1, <1>2, <2>1
  <2>2. CASE t # s
    <3>1. ASSUME NEW e \in Cpus, t \in ToSet(lists'[e][m]) PROVE t \in ToSet(lists[e][m])
      BY <1>1, <2>2, <3>1
    <3>2. t \in ToSet(lists[d][m])
      BY <1>2, <3>1
    <3> QED
      BY <3>1, <3>2, <2>2 DEF PlaceInv, Types
  <2> QED
    BY <2>1, <2>2
<1>3. ASSUME NEW t \in live' PROVE \E d \in Cpus : t \in Listed(d, ClassOf(t))'
  <2>1. CASE t = s
    <3>1. s \in ToSet(lists'[c][k])
      BY <1>1
    <3> QED
      BY <2>1, <3>1
  <2>2. CASE t # s
    <3>1. t \in live /\ t \in Slabs
      BY <2>2 DEF Types
    <3>2. PICK d \in Cpus : t \in Listed(d, ClassOf(t))
      BY <3>1
    <3>3. ClassOf(t) \in Classes
      BY DEF ClassOf, Classes
    <3>4. ASSUME NEW m \in Classes, t \in Listed(d, m) PROVE t \in ToSet(lists'[d][m])
      BY <1>1, <2>2, <3>4
    <3>5. ClassOf(t)' = ClassOf(t)
      BY <2>2, <3>1
    <3> QED
      BY <3>2, <3>3, <3>4, <3>5
  <2> QED
    BY <2>1, <2>2
<1>4. PlaceInv'
  BY <1>1, <1>2 DEF PlaceInv
<1> QED
  BY <1>0, MoveTypes, <1>3, <1>4

-------------------------------------------------------------------------------
LEMMA SizeOfSlab == Types /\ status # "none" => Per \in Nat /\ Per < 64
<1> SUFFICES ASSUME Types, status # "none" PROVE Per \in Nat /\ Per < 64
  OBVIOUS
<1>1. size \in ObjSizes /\ size \in Nat /\ MinSize <= size /\ MinSize \in Nat \ {0}
  BY ObjSizesAssumption DEF Types
<1>2. ObjPerSlab(size) < 64
  BY <1>1, ObjSizesAssumption
<1>3. size \in Nat \ {0}
  BY <1>1
<1> QED
  BY <1>2, <1>3, PerIsNat DEF Per

\* What a bitmap may hold is finite.
LEMMA UsedIsFinite ==
  ASSUME Types, BitsInv, NEW s \in Slabs PROVE IsFiniteSet(used[s])
<1>1. CASE s \in live /\ status # "none"
  <2>1. Per \in Nat /\ used[s] \subseteq 0..(Per - 1)
    BY <1>1, SizeOfSlab DEF BitsInv
  <2>2. IsFiniteSet(0..(Per - 1))
    BY <2>1, FS_Interval
  <2> QED
    BY <2>1, <2>2, FS_Subset
<1>2. CASE ~(s \in live /\ status # "none")
  BY <1>2, FS_EmptySet DEF BitsInv
<1> QED
  BY <1>1, <1>2

\* A slab holds no more than its objects.
LEMMA CountBound ==
  ASSUME Types, BitsInv, status # "none", NEW s \in Slabs
  PROVE  /\ Cardinality(0..(Per - 1)) = Per /\ used[s] \subseteq 0..(Per - 1)
         /\ count[s] <= Per
<1>1. Per \in Nat /\ 0 \in Int /\ Per - 1 \in Int
  BY SizeOfSlab
<1>2. /\ IsFiniteSet(0..(Per - 1))
      /\ Cardinality(0..(Per - 1)) = IF 0 > Per - 1 THEN 0 ELSE (Per - 1) - 0 + 1
  BY <1>1, FS_Interval
<1>3. Cardinality(0..(Per - 1)) = Per
  BY <1>1, <1>2
<1>4. used[s] \subseteq 0..(Per - 1) /\ count[s] = Cardinality(used[s])
  BY DEF BitsInv
<1>5. Cardinality(used[s]) <= Cardinality(0..(Per - 1))
  BY <1>2, <1>4, FS_Subset
<1> QED
  BY <1>3, <1>4, <1>5

\* A slab that is not full has a free object, and takes the first one.
LEMMA FreeObject ==
  ASSUME Types, BitsInv, status # "none", NEW s \in Slabs, count[s] < Per
  PROVE  LET i == CHOOSE i \in 0..(Per - 1) :
                    i \notin used[s] /\ \A j \in 0..(i - 1) : j \in used[s]
         IN  i \in 0..(Per - 1) /\ i \notin used[s]
<1>1. Per \in Nat
  BY SizeOfSlab
<1>2. used[s] \subseteq 0..(Per - 1) /\ count[s] = Cardinality(used[s])
  BY CountBound DEF BitsInv
<1>3. used[s] # 0..(Per - 1)
  <2>1. Cardinality(0..(Per - 1)) = Per
    BY CountBound
  <2>2. ASSUME used[s] = 0..(Per - 1) PROVE count[s] = Per
    BY <1>2, <2>1, <2>2
  <2> QED
    BY <1>1, <2>2
<1>4. \E i \in 0..(Per - 1) : i \notin used[s] /\ \A j \in 0..(i - 1) : j \in used[s]
  BY <1>1, <1>2, <1>3, LeastOutside
<1> QED
  BY <1>4

\* Setting one more bit of one slab.
LEMMA TakeBits ==
  ASSUME Types, BitsInv, status = "alive", UNCHANGED <<status, size>>, NEW s \in Slabs,
         live' = live \cup {s}, NEW i \in 0..(Per - 1), i \notin used[s],
         used' = [used EXCEPT ![s] = used[s] \cup {i}],
         count' = [count EXCEPT ![s] = count[s] + 1],
         held' = held \cup {<<s, i>>}
  PROVE  BitsInv'
<1>1. Cardinality(used[s] \cup {i}) = Cardinality(used[s]) + 1
  BY UsedIsFinite, FS_AddElement
<1>2. ASSUME NEW t \in Slabs
      PROVE  /\ count'[t] = Cardinality(used'[t])
             /\ IF t \in live' /\ status' # "none"
                THEN used'[t] \subseteq 0..(Per - 1) ELSE used'[t] = {}
  <2>1. CASE t = s
    <3>1. used'[t] = used[s] \cup {i} /\ count'[t] = count[s] + 1
      BY <2>1 DEF Types
    <3>2. count[s] = Cardinality(used[s]) /\ used[s] \subseteq 0..(Per - 1)
      BY DEF BitsInv
    <3> QED
      BY <1>1, <2>1, <3>1, <3>2
  <2>2. CASE t # s
    <3>1. used'[t] = used[t] /\ count'[t] = count[t] /\ (t \in live' <=> t \in live)
      BY <2>2 DEF Types
    <3> QED
      BY <3>1 DEF BitsInv
  <2> QED
    BY <2>1, <2>2
<1>3. held' = UNION {{t} \X used'[t] : t \in Slabs}
  BY DEF BitsInv, Types
<1>4. Per' = Per
  BY DEF Per
<1> QED
  BY <1>2, <1>3, <1>4 DEF BitsInv

-------------------------------------------------------------------------------
\* An allocation from a slab of the lists, or from a new one.
LEMMA TakeStep ==
  ASSUME Inv, status = "alive", NEW s \in Slabs, NEW c \in Cpus, count[s] < Per,
         TakeObject(s, c, used[s], count[s]), live' = live \cup {s},
         UNCHANGED <<status, size>>
  PROVE  Inv'
<1> USE DEF Inv
<1>1. Per \in Nat /\ Per' = Per /\ count[s] \in Nat
  BY SizeOfSlab DEF Types, Per
<1>2. PICK i \in 0..(Per - 1) :
        /\ i \notin used[s]
        /\ used' = [used EXCEPT ![s] = used[s] \cup {i}] /\ held' = held \cup {<<s, i>>}
        /\ count' = [count EXCEPT ![s] = count[s] + 1]
        /\ lists' = IF count[s] + 1 = Per THEN Move(s, c, "full")
                    ELSE IF s \in Listed(c, "partial") THEN lists
                    ELSE Move(s, c, "partial")
  BY FreeObject DEF TakeObject
<1>3. BitsInv'
  BY <1>2, TakeBits
<1>4. count'[s] = count[s] + 1 /\ \A t \in Slabs \ {s} : count'[t] = count[t]
  BY <1>2 DEF Types
<1>5. ClassOf(s)' = IF count[s] + 1 = Per THEN "full" ELSE "partial"
  BY <1>1, <1>4 DEF ClassOf
<1>6. \A t \in Slabs \ {s} : ClassOf(t)' = ClassOf(t)
  BY <1>1, <1>4 DEF ClassOf
<1>7. /\ lists' \in [Cpus -> [Classes -> Seq(Slabs)]] /\ PlaceInv'
      /\ \A t \in live' : \E d \in Cpus : t \in Listed(d, ClassOf(t))'
  <2>1. \A t \in live : \E d \in Cpus : t \in Listed(d, ClassOf(t))
    BY DEF AliveInv
  <2>2. CASE count[s] + 1 = Per
    BY <1>2, <1>5, <1>6, <2>1, <2>2, MovePlaces DEF Classes
  <2>3. CASE count[s] + 1 # Per /\ s \notin Listed(c, "partial")
    BY <1>2, <1>5, <1>6, <2>1, <2>3, MovePlaces DEF Classes
  <2>4. CASE count[s] + 1 # Per /\ s \in Listed(c, "partial")
    <3>1. lists' = lists /\ s \in live /\ live' = live /\ ClassOf(s) = "partial"
      BY <1>2, <2>4 DEF PlaceInv, Classes
    <3>2. \A t \in Slabs : ClassOf(t)' = ClassOf(t)
      BY <1>5, <1>6, <2>4, <3>1
    <3>3. live \subseteq Slabs
      BY DEF Types
    <3>4. PlaceInv'
      BY <3>1, <3>2, <3>3 DEF PlaceInv, Listed
    <3>5. lists' \in [Cpus -> [Classes -> Seq(Slabs)]]
      BY <3>1 DEF Types
    <3> QED
      BY <2>1, <3>1, <3>2, <3>3, <3>4, <3>5 DEF Listed
  <2> QED
    BY <2>2, <2>3, <2>4
<1>8. Types'
  <2>1. used' \in [Slabs -> SUBSET Nat] /\ count' \in [Slabs -> Nat] /\ live' \subseteq Slabs
    BY <1>1, <1>2 DEF Types
  <2> QED
    BY <1>7, <2>1 DEF Types
<1>9. AliveInv'
  BY <1>1, <1>7 DEF AliveInv
<1> QED
  BY <1>3, <1>7, <1>8, <1>9

\* A free through any cpu.
LEMMA FreeStep ==
  ASSUME Inv, NEW s \in Slabs, NEW i \in used[s], NEW c \in Cpus, Free(s, i, c)
  PROVE  Inv'
<1> USE DEF Inv
<1>0. /\ status = "alive" /\ s \in live /\ UNCHANGED <<status, size, live>>
      /\ used' = [used EXCEPT ![s] = used[s] \ {i}] /\ held' = held \ {<<s, i>>}
      /\ count' = [count EXCEPT ![s] = count[s] - 1]
      /\ lists' = IF count[s] = 1 THEN Move(s, c, "free")
                  ELSE IF count[s] = Per THEN Move(s, c, "partial") ELSE lists
  BY DEF Free
<1>1. Per \in Nat /\ Per' = Per
  BY <1>0, SizeOfSlab DEF Per
<1>2. /\ IsFiniteSet(used[s]) /\ Cardinality(used[s]) = count[s]
      /\ used[s] \subseteq 0..(Per - 1)
  BY <1>0, UsedIsFinite DEF BitsInv
<1>3. /\ Cardinality(used[s] \ {i}) = count[s] - 1 /\ count[s] \in Nat \ {0}
      /\ count[s] <= Per
  <2>1. Cardinality(used[s] \ {i}) = count[s] - 1
    BY <1>2, FS_RemoveElement
  <2>2. count[s] # 0
    BY <1>2, FS_EmptySet
  <2>3. count[s] <= Per
    BY <1>0, CountBound
  <2> QED
    BY <2>1, <2>2, <2>3 DEF Types
<1>4. /\ used'[s] = used[s] \ {i} /\ count'[s] = count[s] - 1
      /\ \A t \in Slabs \ {s} : used'[t] = used[t] /\ count'[t] = count[t]
  BY <1>0 DEF Types
<1>5. BitsInv'
  <2>1. ASSUME NEW t \in Slabs
        PROVE  /\ count'[t] = Cardinality(used'[t])
               /\ IF t \in live' /\ status' # "none"
                  THEN used'[t] \subseteq 0..(Per - 1) ELSE used'[t] = {}
    <3>1. CASE t = s
      BY <1>0, <1>2, <1>3, <1>4, <3>1
    <3>2. CASE t # s
      BY <1>0, <1>4, <3>2 DEF BitsInv
    <3> QED
      BY <3>1, <3>2
  <2>2. held' = UNION {{t} \X used'[t] : t \in Slabs}
    BY <1>0, <1>4 DEF BitsInv
  <2> QED
    BY <1>1, <2>1, <2>2 DEF BitsInv
<1>6. ClassOf(s)' = IF count[s] = 1 THEN "free" ELSE "partial"
  BY <1>1, <1>3, <1>4 DEF ClassOf
<1>7. \A t \in Slabs \ {s} : ClassOf(t)' = ClassOf(t)
  BY <1>1, <1>4 DEF ClassOf
<1>8. /\ lists' \in [Cpus -> [Classes -> Seq(Slabs)]] /\ PlaceInv'
      /\ \A t \in live' : \E d \in Cpus : t \in Listed(d, ClassOf(t))'
  <2>1. \A t \in live : \E d \in Cpus : t \in Listed(d, ClassOf(t))
    BY <1>0 DEF AliveInv
  <2>2. live' = live \cup {s} /\ live \subseteq Slabs
    BY <1>0 DEF Types
  <2>3. CASE count[s] = 1
    BY <1>0, <1>6, <1>7, <2>1, <2>2, <2>3, MovePlaces DEF Classes
  <2>4. CASE count[s] # 1 /\ count[s] = Per
    BY <1>0, <1>6, <1>7, <2>1, <2>2, <2>4, MovePlaces DEF Classes
  <2>5. CASE count[s] # 1 /\ count[s] # Per
    <3>1. lists' = lists /\ live' = live
      BY <1>0, <2>5
    <3>2. \A t \in Slabs : ClassOf(t)' = ClassOf(t)
      <4>1. ClassOf(s) = "partial"
        BY <1>3, <2>5 DEF ClassOf
      <4> QED
        BY <1>6, <1>7, <2>5, <4>1
    <3>3. PlaceInv'
      BY <2>2, <3>1, <3>2 DEF PlaceInv, Listed
    <3>4. lists' \in [Cpus -> [Classes -> Seq(Slabs)]]
      BY <3>1 DEF Types
    <3> QED
      BY <2>1, <2>2, <3>1, <3>2, <3>3, <3>4 DEF Listed
  <2> QED
    BY <2>3, <2>4, <2>5
<1>9. Types'
  <2>1. used' \in [Slabs -> SUBSET Nat] /\ count' \in [Slabs -> Nat]
    BY <1>0, <1>3 DEF Types
  <2> QED
    BY <1>0, <1>8, <2>1 DEF Types
<1>10. AliveInv'
  BY <1>0, <1>1, <1>8 DEF AliveInv
<1> QED
  BY <1>5, <1>8, <1>9, <1>10

LEMMA ListedTyped ==
  ASSUME Types, NEW c \in Cpus, NEW k \in Classes
  PROVE  /\ lists[c][k] \in Seq(Slabs)
         /\ lists[c][k] # <<>> => Head(lists[c][k]) \in Listed(c, k)
         /\ lists[c][k] = <<>> => Listed(c, k) = {}
<1>1. lists[c][k] \in Seq(Slabs)
  BY DEF Types
<1> QED
  BY <1>1 DEF Listed, ToSet

LEMMA SameInv == Inv /\ UNCHANGED vars => Inv'
BY DEF vars, Inv, Types, BitsInv, PlaceInv, AliveInv, Listed, ClassOf, Per

\* Every call keeps the invariant.
LEMMA InvStep == ASSUME ShrinkIdle = FALSE, Inv, [Next]_vars PROVE Inv'
<1> USE DEF Inv
<1>1. ASSUME NEW sz \in ObjSizes, Create(sz) PROVE Inv'
  <2>1. /\ status = "none" /\ status' = "alive" /\ size' = sz /\ MinSize <= sz
        /\ lists' = NoLists /\ lists = NoLists /\ live = {}
        /\ UNCHANGED <<used, count, live, held>>
    BY <1>1 DEF Create, AliveInv
  <2>2. Types'
    BY <2>1 DEF Types
  <2>3. BitsInv'
    BY <2>1 DEF BitsInv
  <2>4. ASSUME NEW c \in Cpus, NEW k \in Classes PROVE lists'[c][k] = <<>>
    BY <2>1 DEF NoLists
  <2>5. PlaceInv'
    BY <2>4 DEF PlaceInv, Listed, ToSet, IsInjective
  <2> QED
    BY <2>1, <2>2, <2>3, <2>5 DEF AliveInv
<1>2. ASSUME NEW c \in Cpus, AllocPartial(c) PROVE Inv'
  <2> DEFINE s == Head(lists[c]["partial"])
  <2>1. /\ s \in live /\ s \in Slabs /\ ClassOf(s) = "partial"
    BY <1>2, ListedTyped DEF AllocPartial, PlaceInv, Types, Classes
  <2>2. /\ status = "alive" /\ TakeObject(s, c, used[s], count[s])
        /\ UNCHANGED <<status, size, live>>
    BY <1>2 DEF AllocPartial
  <2>3. count[s] < Per
    <3>1. count[s] # Per /\ count[s] <= Per
      BY <2>1, <2>2, CountBound DEF ClassOf
    <3> QED
      BY <2>1, <2>2, <3>1, SizeOfSlab DEF Types
  <2> QED
    BY <2>1, <2>2, <2>3, TakeStep
<1>3. ASSUME NEW c \in Cpus, AllocFree(c) PROVE Inv'
  <2> DEFINE s == Head(lists[c]["free"])
  <2>1. /\ s \in live /\ s \in Slabs /\ ClassOf(s) = "free"
    BY <1>3, ListedTyped DEF AllocFree, PlaceInv, Types, Classes
  <2>2. /\ status = "alive" /\ TakeObject(s, c, used[s], count[s])
        /\ UNCHANGED <<status, size, live>>
    BY <1>3 DEF AllocFree
  <2>3. count[s] < Per
    <3>1. Per \in Nat /\ Per > 0
      BY <2>1, <2>2, SizeOfSlab DEF AliveInv
    <3> QED
      BY <2>1, <3>1 DEF ClassOf
  <2> QED
    BY <2>1, <2>2, <2>3, TakeStep
<1>4. ASSUME NEW c \in Cpus, AllocNew(c) PROVE Inv'
  <2>1. PICK s \in Slabs \ live :
          /\ live' = live \cup {s} /\ status = "alive" /\ UNCHANGED size
          /\ IF Per = 0 THEN status' = "aborted" /\ UNCHANGED <<lists, used, count, held>>
             ELSE TakeObject(s, c, {}, 0) /\ UNCHANGED status
    BY <1>4 DEF AllocNew
  <2>2. used[s] = {} /\ count[s] = 0
    BY FS_EmptySet DEF BitsInv
  <2>3. CASE Per # 0
    BY <2>1, <2>2, <2>3, SizeOfSlab, TakeStep
  <2>4. CASE Per = 0
    <3>1. /\ status' = "aborted" /\ UNCHANGED <<size, lists, used, count, held>>
          /\ status = "alive" /\ live = {} /\ live' = {s} /\ Per' = Per
      BY <2>1, <2>4 DEF AliveInv, Per
    <3>2. Types'
      BY <3>1 DEF Types
    <3>3. BitsInv'
      BY <2>2, <2>4, <3>1 DEF BitsInv
    <3>4. PlaceInv'
      BY <3>1 DEF PlaceInv, Listed
    <3> QED
      BY <3>1, <3>2, <3>3, <3>4 DEF AliveInv
  <2> QED
    BY <2>3, <2>4
<1>5. ASSUME NEW c \in Cpus, NEW s \in Slabs, NEW i \in used[s], Free(s, i, c) PROVE Inv'
  BY <1>5, FreeStep
<1>6. ASSUME NEW c \in Cpus, Shrink(c) PROVE Inv'
  <2>1. UNCHANGED vars
    BY <1>6, ListedTyped DEF Shrink, vars, Classes
  <2> QED
    BY <2>1, SameInv
<1>7. CASE Destroy
  <2>1. /\ status' = "none" /\ size' = 0 /\ lists' = NoLists /\ held' = {}
        /\ used' = [s \in Slabs |-> {}] /\ count' = [s \in Slabs |-> 0]
    BY <1>7 DEF Destroy
  <2>2. live' = {}
    BY <1>7 DEF Destroy, AliveInv, ClassOf, Classes
  <2>3. \A c \in Cpus, k \in Classes : lists'[c][k] = <<>>
    BY <2>1 DEF NoLists
  <2>4. Types'
    BY <2>1, <2>2 DEF Types, NoLists
  <2>5. BitsInv'
    BY <2>1, <2>2, FS_EmptySet DEF BitsInv
  <2>6. PlaceInv'
    BY <2>3 DEF PlaceInv, Listed, ToSet, IsInjective
  <2> QED
    BY <2>1, <2>2, <2>4, <2>5, <2>6 DEF AliveInv
<1>8. CASE UNCHANGED vars
  BY <1>8, SameInv
<1> QED
  BY <1>1, <1>2, <1>3, <1>4, <1>5, <1>6, <1>7, <1>8 DEF Next

LEMMA InitInv == Init => Inv
<1> SUFFICES ASSUME Init PROVE Inv
  OBVIOUS
<1>1. \A c \in Cpus, k \in Classes : lists[c][k] = <<>>
  BY DEF Init, NoLists
<1>2. PlaceInv
  BY <1>1 DEF PlaceInv, Listed, ToSet, IsInjective
<1>3. BitsInv
  BY FS_EmptySet DEF Init, BitsInv
<1>4. Types
  BY DEF Init, Types, NoLists
<1> QED
  BY <1>2, <1>3, <1>4 DEF Init, Inv, AliveInv

-------------------------------------------------------------------------------
\* Every variable of the cache keeps its type.
THEOREM TypeCorrect == ASSUME ShrinkIdle = FALSE PROVE Spec => []TypeOK
<1>1. Inv => TypeOK
  <2> SUFFICES ASSUME Inv PROVE TypeOK
    OBVIOUS
  <2> USE DEF Inv
  <2>1. ASSUME NEW s \in Slabs, size = 0
        PROVE  used[s] = {} /\ count[s] = 0
    <3>1. status = "none"
      BY <2>1, ObjSizesAssumption DEF Types
    <3> QED
      BY <3>1, FS_EmptySet DEF BitsInv
  <2>2. ASSUME NEW s \in Slabs, size # 0
        PROVE  used[s] \subseteq 0..(Per - 1) /\ count[s] \in 0..Per
    <3>1. CASE status # "none"
      BY <3>1, CountBound, SizeOfSlab DEF Types
    <3>2. CASE status = "none"
      <4>1. used[s] = {} /\ count[s] = 0
        BY <3>2, FS_EmptySet DEF BitsInv
      <4>2. Per \in Nat
        BY <2>2, PerIsNat, ObjSizesAssumption DEF Types, Per
      <4> QED
        BY <4>1, <4>2
    <3> QED
      BY <3>1, <3>2
  <2>3. ASSUME NEW s \in Slabs PROVE used[s] \subseteq 0..63
    <3>1. CASE status # "none"
      <4>1. used[s] \subseteq 0..(Per - 1) /\ Per \in Nat /\ Per < 64
        BY <3>1, CountBound, SizeOfSlab
      <4>2. ASSUME NEW j \in 0..(Per - 1) PROVE j \in 0..63
        BY <4>1
      <4> QED
        BY <4>1, <4>2
    <3>2. CASE status = "none"
      BY <3>2 DEF BitsInv
    <3> QED
      BY <3>1, <3>2
  <2>4. held \subseteq Slabs \X (0..63)
    BY <2>3 DEF BitsInv
  <2>5. /\ used \in [Slabs -> SUBSET (0..(IF size = 0 THEN -1 ELSE Per - 1))]
        /\ count \in [Slabs -> 0..(IF size = 0 THEN 0 ELSE Per)]
    BY <2>1, <2>2 DEF Types
  <2> QED
    BY <2>4, <2>5 DEF Types, TypeOK
<1> QED
  BY <1>1, InitInv, InvStep, PTL DEF Spec

\* slab.c, 145 to 250: the bitmaps know exactly the objects that
\* clients hold and count counts them, so that no object is handed out twice.
THEOREM BitmapsAgree == ASSUME ShrinkIdle = FALSE PROVE Spec => []BitmapsMatchHeld
<1>1. Inv => BitmapsMatchHeld
  BY DEF Inv, BitsInv, BitmapsMatchHeld
<1> QED
  BY <1>1, InitInv, InvStep, PTL DEF Spec

\* slab.c, 426 to 457 and 541 to 556: a slab is in exactly one list, once, and
\* in the list its count calls for, whichever cpu allocates or frees; so that
\* slab_cache_destroy (319 to 351) frees all the memory the cache ever took.
THEOREM ListsAgree == ASSUME ShrinkIdle = FALSE PROVE Spec => []ListsMatchCounts
<1>1. Inv => ListsMatchCounts
  <2> SUFFICES ASSUME Inv, status = "alive", NEW s \in live
               PROVE  Cardinality({c \in Cpus : s \in Listed(c, ClassOf(s))}) = 1
    BY DEF Inv, PlaceInv, AliveInv, ListsMatchCounts
  <2>1. PICK c \in Cpus : s \in Listed(c, ClassOf(s))
    BY DEF Inv, AliveInv
  <2>2. ClassOf(s) \in Classes
    BY DEF ClassOf, Classes
  <2>3. {d \in Cpus : s \in Listed(d, ClassOf(s))} = {c}
    BY <2>1, <2>2 DEF Inv, PlaceInv
  <2> QED
    BY <2>3, FS_Singleton
<1> QED
  BY <1>1, InitInv, InvStep, PTL DEF Spec

\* slab.c, 440: an allocation takes its object from allocated memory.
THEOREM AllocatesFromLive == ASSUME ShrinkIdle = FALSE PROVE Spec => AllocFromLive
<1>1. Inv => [\A c \in Cpus : AllocFree(c) => Head(lists[c]["free"]) \in live]_vars
  BY ListedTyped DEF Inv, PlaceInv, AllocFree, Classes
<1> QED
  BY <1>1, InitInv, InvStep, PTL DEF Spec, AllocFromLive
=============================================================================
