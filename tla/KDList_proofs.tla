----------------------------- MODULE KDList_proofs -----------------------------
(***************************************************************************)
(* Proofs about the two intrusive lists, KDList and KSList, for any heads  *)
(* and nodes: whatever the calls, the links of every list lead through its *)
(* nodes, forwards and, in KDList, backwards, and the loop of KDList that  *)
(* is safe against removal visits the list it began with.  Then about the  *)
(* stack, which is a list of KDList with the one head Top: it is a last-in *)
(* first-out store and owns its entries.                                   *)
(***************************************************************************)
EXTENDS KDList, SequenceLemmas

CONSTANTS Top, Values  \* of the stack

VARIABLES knext, klists,                 \* the links and lists of KSList
          sdata, allocated, alive, sres  \* the stack

K == INSTANCE KSList WITH next <- knext, lists <- klists
ST == INSTANCE Stack WITH Entries <- Nodes, data <- sdata, res <- sres

\* The cell at place i of the ring of head h through the nodes s; the head is
\* at place 0 and again behind the last node.
At(h, s, i) == IF i \in 1..Len(s) THEN s[i] ELSE h

Ring(h, s, nx, pv) ==
  \A i \in 0..Len(s) : nx[At(h, s, i)] = At(h, s, i + 1) /\ pv[At(h, s, i + 1)] = At(h, s, i)

\* t is s with n put at place k + 1; t is s without what stood at place k.
Inserted(s, k, n, t) ==
  Len(t) = Len(s) + 1 /\ \A i \in 1..Len(t) : t[i] = IF i <= k THEN s[i] ELSE IF i = k + 1 THEN n ELSE s[i - 1]
Removed(s, k, t) ==
  Len(t) = Len(s) - 1 /\ \A i \in 1..Len(t) : t[i] = IF i < k THEN s[i] ELSE s[i + 1]

Types ==
  /\ next \in [Cells -> Cells] /\ prev \in [Cells -> Cells]
  /\ lists \in [Heads -> Seq(Nodes)]

Rings == \A h \in Heads : Ring(h, lists[h], next, prev) /\ IsInjective(lists[h])

Apart ==
  \A g, h \in Heads :
    g # h => \A i \in 1..Len(lists[g]), j \in 1..Len(lists[h]) : lists[g][i] # lists[h][j]

-------------------------------------------------------------------------------
LEMMA AtIsCell ==
  ASSUME NEW h \in Heads, NEW s \in Seq(Nodes), NEW i \in Int
  PROVE  At(h, s, i) \in Cells /\ (At(h, s, i) = h <=> i \notin 1..Len(s))
<1>1. i \in 1..Len(s) => s[i] \in Nodes
  OBVIOUS
<1> QED
  BY <1>1, CellsAssumption DEF At, Cells

\* Places are told apart by their cells.
LEMMA AtTellsApart ==
  ASSUME NEW h \in Heads, NEW s \in Seq(Nodes), IsInjective(s),
         NEW i \in 0..Len(s), NEW j \in 0..Len(s), At(h, s, i) = At(h, s, j)
  PROVE  i = j
<1>1. Len(s) \in Nat /\ i \in Int /\ j \in Int
  OBVIOUS
<1>2. i \in 1..Len(s) <=> j \in 1..Len(s)
  BY <1>1, AtIsCell
<1>3. CASE i \in 1..Len(s)
  BY <1>2, <1>3 DEF At, IsInjective
<1>4. CASE i \notin 1..Len(s)
  BY <1>1, <1>2, <1>4
<1> QED
  BY <1>3, <1>4

\* Linking n at place k + 1, as the three push calls do.
LinkedAt(h, s, k, n, t, nx, pv, nx2, pv2) ==
  /\ h \in Heads /\ s \in Seq(Nodes) /\ t \in Seq(Nodes) /\ n \in Nodes /\ k \in 0..Len(s)
  /\ IsInjective(s) /\ \A i \in 1..Len(s) : s[i] # n
  /\ Inserted(s, k, n, t)
  /\ nx \in [Cells -> Cells] /\ pv \in [Cells -> Cells] /\ Ring(h, s, nx, pv)
  /\ nx2 = [nx EXCEPT ![At(h, s, k)] = n, ![n] = At(h, s, k + 1)]
  /\ pv2 = [pv EXCEPT ![At(h, s, k + 1)] = n, ![n] = At(h, s, k)]

LEMMA InsertKeepsRing ==
  ASSUME NEW h, NEW s, NEW k, NEW n, NEW t, NEW nx, NEW pv, NEW nx2, NEW pv2,
         LinkedAt(h, s, k, n, t, nx, pv, nx2, pv2)
  PROVE  Ring(h, t, nx2, pv2) /\ IsInjective(t)
<1> USE DEF LinkedAt
<1> DEFINE m == Len(s)
           a(i) == At(h, s, i)
           b(i) == At(h, t, i)
<1>1. m \in Nat /\ k \in 0..m /\ Len(t) = m + 1 /\ n \in Cells /\ n # h
  BY CellsAssumption DEF Inserted, Cells
<1>2. ASSUME NEW i \in 0..(m + 2)
      PROVE  b(i) = IF i <= k THEN a(i) ELSE IF i = k + 1 THEN n ELSE a(i - 1)
  BY <1>1 DEF At, Inserted
<1>3. ASSUME NEW i \in 0..(m + 1) PROVE a(i) \in Cells /\ a(i) # n
  BY <1>1, AtIsCell DEF At
<1>4. ASSUME NEW i \in 0..m, NEW j \in 0..m, a(i) = a(j) PROVE i = j
  BY <1>4, AtTellsApart
<1>5. ASSUME NEW i \in 1..(m + 1), NEW j \in 1..(m + 1), a(i) = a(j) PROVE i = j
  <2>1. a(m + 1) = a(0)
    BY <1>1 DEF At
  <2> HIDE DEF a, m
  <2>2. CASE i = m + 1 /\ j # m + 1
    BY <1>1, <1>4, <1>5, <2>1, <2>2
  <2>3. CASE i # m + 1 /\ j = m + 1
    BY <1>1, <1>4, <1>5, <2>1, <2>3
  <2>4. CASE i # m + 1 /\ j # m + 1
    BY <1>1, <1>4, <1>5, <2>4
  <2> QED
    BY <2>2, <2>3, <2>4
<1>6. ASSUME NEW i \in 0..m PROVE nx[a(i)] = a(i + 1) /\ pv[a(i + 1)] = a(i)
  BY DEF Ring
<1>7. /\ nx2 = [nx EXCEPT ![a(k)] = n, ![n] = a(k + 1)]
      /\ pv2 = [pv EXCEPT ![a(k + 1)] = n, ![n] = a(k)]
  OBVIOUS
<1>8. IsInjective(t)
  <2> SUFFICES ASSUME NEW i \in 1..Len(t), NEW j \in 1..Len(t), t[i] = t[j] PROVE i = j
    BY DEF IsInjective
  <2> DEFINE from(x) == IF x <= k THEN x ELSE x - 1
  <2>1. \A x \in 1..Len(t) : x # k + 1 => from(x) \in 1..m /\ t[x] = s[from(x)]
    BY <1>1 DEF Inserted
  <2>2. t[k + 1] = n
    BY <1>1 DEF Inserted
  <2>3. CASE i = k + 1 \/ j = k + 1
    BY <2>1, <2>2, <2>3
  <2>4. CASE i # k + 1 /\ j # k + 1
    <3>1. from(i) \in 1..m /\ from(j) \in 1..m /\ s[from(i)] = s[from(j)]
      BY <2>1, <2>4
    <3> HIDE DEF from
    <3>2. from(i) = from(j)
      BY <3>1 DEF IsInjective
    <3> USE DEF from
    <3> QED
      BY <1>1, <2>4, <3>2
  <2> QED
    BY <2>3, <2>4
<1> HIDE DEF a, b, m
<1>9. ASSUME NEW i \in 0..(m + 1) PROVE nx2[b(i)] = b(i + 1) /\ pv2[b(i + 1)] = b(i)
  <2>1. k \in 0..(m + 1) /\ k + 1 \in 0..(m + 1) /\ a(k) \in Cells /\ a(k + 1) \in Cells
        /\ a(k) # n /\ a(k + 1) # n
    BY <1>1, <1>3
  <2>2. /\ nx2[a(k)] = n /\ nx2[n] = a(k + 1) /\ \A c \in Cells : c # n /\ c # a(k) => nx2[c] = nx[c]
        /\ pv2[a(k + 1)] = n /\ pv2[n] = a(k)
        /\ \A c \in Cells : c # n /\ c # a(k + 1) => pv2[c] = pv[c]
    BY <1>1, <1>7, <2>1
  <2>3. CASE i < k
    <3>1. b(i) = a(i) /\ b(i + 1) = a(i + 1) /\ i \in 0..m /\ i \in 0..(m + 1) /\ i + 1 \in 0..(m + 1)
      BY <1>1, <1>2, <2>3
    <3>2. a(i) # a(k) /\ a(i + 1) # a(k + 1)
      BY <1>1, <1>4, <1>5, <2>3, <3>1
    <3> QED
      BY <1>3, <1>6, <2>2, <3>1, <3>2
  <2>4. CASE i = k
    BY <1>1, <1>2, <2>2, <2>4
  <2>5. CASE i = k + 1
    BY <1>1, <1>2, <2>2, <2>5
  <2>6. CASE i > k + 1
    <3>1. b(i) = a(i - 1) /\ b(i + 1) = a(i) /\ i - 1 \in 0..m /\ i - 1 \in 0..(m + 1) /\ (i - 1) + 1 = i
      BY <1>1, <1>2, <2>6
    <3>2. a(i - 1) # a(k) /\ a(i) # a(k + 1)
      BY <1>1, <1>4, <1>5, <2>6, <3>1
    <3>3. nx[a(i - 1)] = a(i) /\ pv[a(i)] = a(i - 1)
      BY <1>6, <3>1
    <3> QED
      BY <1>3, <2>2, <3>1, <3>2, <3>3
  <2> QED
    BY <1>1, <2>3, <2>4, <2>5, <2>6
<1> QED
  BY <1>1, <1>8, <1>9 DEF Ring, b

\* Taking out the node at place k, as the pop calls and kdlist_delete do; what
\* is then written into the node's own links does not matter.
Bypassed(h, s, k, nx, pv, nx2, pv2) ==
  /\ nx2[At(h, s, k - 1)] = At(h, s, k + 1) /\ pv2[At(h, s, k + 1)] = At(h, s, k - 1)
  /\ \A c \in Cells : c # At(h, s, k) /\ c # At(h, s, k - 1) => nx2[c] = nx[c]
  /\ \A c \in Cells : c # At(h, s, k) /\ c # At(h, s, k + 1) => pv2[c] = pv[c]

UnlinkedAt(h, s, k, t, nx, pv, nx2, pv2) ==
  /\ h \in Heads /\ s \in Seq(Nodes) /\ t \in Seq(Nodes) /\ k \in 1..Len(s)
  /\ IsInjective(s) /\ Removed(s, k, t)
  /\ Ring(h, s, nx, pv) /\ Bypassed(h, s, k, nx, pv, nx2, pv2)

LEMMA RemoveKeepsRing ==
  ASSUME NEW h, NEW s, NEW k, NEW t, NEW nx, NEW pv, NEW nx2, NEW pv2,
         UnlinkedAt(h, s, k, t, nx, pv, nx2, pv2)
  PROVE  Ring(h, t, nx2, pv2) /\ IsInjective(t)
<1> USE DEF UnlinkedAt, Bypassed
<1> DEFINE m == Len(s)
           a(i) == At(h, s, i)
           b(i) == At(h, t, i)
<1>1. m \in Nat /\ k \in 1..m /\ Len(t) = m - 1 /\ a(k) = s[k]
  BY DEF Removed, At
<1>2. ASSUME NEW i \in 0..m PROVE b(i) = IF i < k THEN a(i) ELSE a(i + 1)
  BY <1>1 DEF At, Removed
<1>3. ASSUME NEW i \in 0..(m + 1) PROVE a(i) \in Cells
  BY <1>1, AtIsCell
<1>4. ASSUME NEW i \in 0..m, NEW j \in 0..m, a(i) = a(j) PROVE i = j
  BY <1>4, AtTellsApart
<1>5. ASSUME NEW i \in 1..(m + 1), NEW j \in 1..(m + 1), a(i) = a(j) PROVE i = j
  <2>1. a(m + 1) = a(0)
    BY <1>1 DEF At
  <2> HIDE DEF a, m
  <2>2. CASE i = m + 1 /\ j # m + 1
    BY <1>1, <1>4, <1>5, <2>1, <2>2
  <2>3. CASE i # m + 1 /\ j = m + 1
    BY <1>1, <1>4, <1>5, <2>1, <2>3
  <2>4. CASE i # m + 1 /\ j # m + 1
    BY <1>1, <1>4, <1>5, <2>4
  <2> QED
    BY <2>2, <2>3, <2>4
<1>6. ASSUME NEW i \in 0..m PROVE nx[a(i)] = a(i + 1) /\ pv[a(i + 1)] = a(i)
  BY DEF Ring
<1>7. /\ nx2[a(k - 1)] = a(k + 1) /\ pv2[a(k + 1)] = a(k - 1)
      /\ \A c \in Cells : c # a(k) /\ c # a(k - 1) => nx2[c] = nx[c]
      /\ \A c \in Cells : c # a(k) /\ c # a(k + 1) => pv2[c] = pv[c]
  BY <1>1
<1>8. IsInjective(t)
  <2> SUFFICES ASSUME NEW i \in 1..Len(t), NEW j \in 1..Len(t), t[i] = t[j] PROVE i = j
    BY DEF IsInjective
  <2> DEFINE from(x) == IF x < k THEN x ELSE x + 1
  <2>1. \A x \in 1..Len(t) : from(x) \in 1..m /\ t[x] = s[from(x)]
    BY <1>1 DEF Removed
  <2>2. from(i) \in 1..m /\ from(j) \in 1..m /\ s[from(i)] = s[from(j)]
    BY <2>1
  <2> HIDE DEF from
  <2>3. from(i) = from(j)
    BY <2>2 DEF IsInjective
  <2> USE DEF from
  <2> QED
    BY <1>1, <2>3
<1> HIDE DEF a, b, m
<1>9. ASSUME NEW i \in 0..(m - 1) PROVE nx2[b(i)] = b(i + 1) /\ pv2[b(i + 1)] = b(i)
  <2>1. CASE i < k - 1
    <3>1. b(i) = a(i) /\ b(i + 1) = a(i + 1) /\ i \in 0..m /\ i + 1 \in 1..(m + 1)
          /\ i \in 0..(m + 1) /\ i + 1 \in 0..(m + 1) /\ i + 1 \in 0..m
      BY <1>1, <1>2, <2>1
    <3>2. a(i) # a(k) /\ a(i) # a(k - 1) /\ a(i + 1) # a(k) /\ a(i + 1) # a(k + 1)
      BY <1>1, <1>4, <1>5, <2>1, <3>1
    <3> QED
      BY <1>3, <1>6, <1>7, <3>1, <3>2
  <2>2. CASE i = k - 1
    BY <1>1, <1>2, <1>7, <2>2
  <2>3. CASE i > k - 1
    <3>1. b(i) = a(i + 1) /\ b(i + 1) = a((i + 1) + 1) /\ i + 1 \in 0..m
          /\ (i + 1) + 1 \in 1..(m + 1) /\ i + 1 \in 0..(m + 1) /\ (i + 1) + 1 \in 0..(m + 1)
      BY <1>1, <1>2, <2>3
    <3>2. a(i + 1) # a(k) /\ a(i + 1) # a(k - 1)
          /\ a((i + 1) + 1) # a(k) /\ a((i + 1) + 1) # a(k + 1)
      BY <1>1, <1>4, <1>5, <2>3, <3>1
    <3>3. nx[a(i + 1)] = a((i + 1) + 1) /\ pv[a((i + 1) + 1)] = a(i + 1)
      BY <1>6, <3>1
    <3> QED
      BY <1>3, <1>7, <3>1, <3>2, <3>3
  <2> QED
    BY <1>1, <2>1, <2>2, <2>3
<1> QED
  BY <1>1, <1>8, <1>9 DEF Ring, b

-------------------------------------------------------------------------------
\* The rings of two heads share no cell.
LEMMA RingsApart ==
  ASSUME Types, Apart, NEW g \in Heads, NEW h \in Heads, g # h, NEW i \in Int, NEW j \in Int
  PROVE  At(g, lists[g], i) # At(h, lists[h], j)
<1>1. lists[g] \in Seq(Nodes) /\ lists[h] \in Seq(Nodes)
  BY DEF Types
<1>2. /\ i \in 1..Len(lists[g]) => lists[g][i] \in Nodes
      /\ j \in 1..Len(lists[h]) => lists[h][j] \in Nodes
  BY <1>1
<1> QED
  BY <1>2, CellsAssumption DEF At, Apart

LEMMA LinkedIs ==
  ASSUME Types, NEW n
  PROVE  n \in Linked <=> \E h \in Heads : \E i \in 1..Len(lists[h]) : lists[h][i] = n
<1>1. \A h \in Heads : DOMAIN lists[h] = 1..Len(lists[h])
  BY DEF Types
<1> QED
  BY <1>1 DEF Linked, ToSet

LEMMA EmptyIs ==
  ASSUME Types, Rings, NEW h \in Heads
  PROVE  /\ Empty(h) <=> Len(lists[h]) = 0
         /\ next[h] = At(h, lists[h], 1) /\ prev[h] = At(h, lists[h], Len(lists[h]))
<1> DEFINE s == lists[h]
<1>1. s \in Seq(Nodes) /\ Len(s) \in Nat
  BY DEF Types
<1>2. \A i \in 0..Len(s) : next[At(h, s, i)] = At(h, s, i + 1) /\ prev[At(h, s, i + 1)] = At(h, s, i)
  BY DEF Rings, Ring
<1>3. At(h, s, 0) = h /\ At(h, s, Len(s) + 1) = h
  BY <1>1 DEF At
<1>4. next[h] = At(h, s, 1) /\ prev[h] = At(h, s, Len(s))
  BY <1>1, <1>2, <1>3
<1>5. At(h, s, 1) = h <=> 1 \notin 1..Len(s)
  BY <1>1, AtIsCell
<1> QED
  BY <1>1, <1>4, <1>5 DEF Empty

ListInv == Types /\ Rings /\ Apart

\* What a list holds with a node put in, and with one taken out.
LEMMA InsertedHolds ==
  ASSUME NEW s \in Seq(Nodes), NEW n, NEW k \in 0..Len(s), NEW t \in Seq(Nodes), Inserted(s, k, n, t),
         IsInjective(s), \A i \in 1..Len(s) : s[i] # n
  PROVE  IsInjective(t) /\ \A i \in 1..Len(t) : t[i] = n \/ \E j \in 1..Len(s) : t[i] = s[j]
<1> DEFINE m == Len(s)
           from(i) == IF i <= k THEN i ELSE i - 1
<1>1. m \in Nat /\ k \in 0..m /\ Len(t) = m + 1
  BY DEF Inserted
<1>2. \A i \in 1..Len(t) : t[i] = IF i = k + 1 THEN n ELSE s[from(i)]
  BY <1>1 DEF Inserted
<1> HIDE DEF m
<1>3. ASSUME NEW i \in 1..(m + 1), i # k + 1 PROVE from(i) \in 1..m
  BY <1>1, <1>3
<1>4. ASSUME NEW i \in 1..(m + 1), NEW j \in 1..(m + 1), i # k + 1, j # k + 1, from(i) = from(j)
      PROVE  i = j
  BY <1>1, <1>4
<1> HIDE DEF from
<1>5. IsInjective(t)
  <2> SUFFICES ASSUME NEW i \in 1..(m + 1), NEW j \in 1..(m + 1), t[i] = t[j] PROVE i = j
    BY <1>1 DEF IsInjective
  <2>1. CASE i = k + 1 \/ j = k + 1
    BY <1>1, <1>2, <1>3, <2>1 DEF m
  <2>2. CASE i # k + 1 /\ j # k + 1
    <3>1. from(i) \in 1..m /\ from(j) \in 1..m /\ s[from(i)] = s[from(j)]
      BY <1>1, <1>2, <1>3, <2>2
    <3> QED
      BY <1>4, <2>2, <3>1 DEF IsInjective, m
  <2> QED
    BY <2>1, <2>2
<1>6. ASSUME NEW i \in 1..(m + 1) PROVE t[i] = n \/ \E j \in 1..m : t[i] = s[j]
  BY <1>1, <1>2, <1>3
<1> QED
  BY <1>1, <1>5, <1>6 DEF m

LEMMA RemovedHolds ==
  ASSUME NEW s \in Seq(Nodes), NEW k \in 1..Len(s), NEW t \in Seq(Nodes), Removed(s, k, t), IsInjective(s)
  PROVE  IsInjective(t) /\ \A i \in 1..Len(t) : \E j \in 1..Len(s) : t[i] = s[j]
<1> DEFINE m == Len(s)
           from(i) == IF i < k THEN i ELSE i + 1
<1>1. m \in Nat /\ k \in 1..m /\ Len(t) = m - 1
  BY DEF Removed
<1>2. \A i \in 1..Len(t) : t[i] = s[from(i)]
  BY <1>1 DEF Removed
<1> HIDE DEF m
<1>3. ASSUME NEW i \in 1..(m - 1) PROVE from(i) \in 1..m
  BY <1>1
<1>4. ASSUME NEW i \in 1..(m - 1), NEW j \in 1..(m - 1), from(i) = from(j) PROVE i = j
  BY <1>1, <1>4
<1> HIDE DEF from
<1>5. IsInjective(t)
  <2> SUFFICES ASSUME NEW i \in 1..(m - 1), NEW j \in 1..(m - 1), t[i] = t[j] PROVE i = j
    BY <1>1 DEF IsInjective
  <2>1. from(i) \in 1..m /\ from(j) \in 1..m /\ s[from(i)] = s[from(j)]
    BY <1>1, <1>2, <1>3
  <2> QED
    BY <1>4, <2>1 DEF IsInjective, m
<1> QED
  BY <1>1, <1>2, <1>3, <1>5 DEF m

\* A push: node n comes to stand at place k + 1 of head h's ring.
LEMMA PushInv ==
  ASSUME ListInv, NEW h \in Heads, NEW n \in Nodes, n \notin Linked,
         NEW k \in 0..Len(lists[h]), NEW t \in Seq(Nodes), Inserted(lists[h], k, n, t),
         lists' = [lists EXCEPT ![h] = t],
         next' = [next EXCEPT ![At(h, lists[h], k)] = n, ![n] = At(h, lists[h], k + 1)],
         prev' = [prev EXCEPT ![At(h, lists[h], k + 1)] = n, ![n] = At(h, lists[h], k)]
  PROVE  ListInv'
<1> USE DEF ListInv
<1> DEFINE s == lists[h]
<1>1. /\ s \in Seq(Nodes) /\ k \in Int /\ k + 1 \in Int /\ n \in Cells
      /\ At(h, s, k) \in Cells /\ At(h, s, k + 1) \in Cells
  <2>1. s \in Seq(Nodes) /\ k \in Int /\ k + 1 \in Int
    BY DEF Types
  <2> QED
    BY <2>1, AtIsCell DEF Cells
<1>2. \A g \in Heads : lists'[g] = IF g = h THEN t ELSE lists[g]
  BY DEF Types
<1>3. Types'
  BY <1>1 DEF Types
<1>4. \A g \in Heads : \A i \in 1..Len(lists[g]) : lists[g][i] # n
  BY LinkedIs
<1>5. Ring(h, t, next', prev') /\ IsInjective(t)
  <2>1. IsInjective(s) /\ Ring(h, s, next, prev) /\ next \in [Cells -> Cells] /\ prev \in [Cells -> Cells]
    BY DEF Rings, Types
  <2>2. \A i \in 1..Len(s) : s[i] # n
    BY <1>4
  <2>3. LinkedAt(h, s, k, n, t, next, prev, next', prev')
    BY <1>1, <2>1, <2>2 DEF LinkedAt
  <2> QED
    BY <2>3, InsertKeepsRing
<1>6. ASSUME NEW g \in Heads, g # h PROVE Ring(g, lists[g], next', prev')
  <2> SUFFICES ASSUME NEW i \in 0..Len(lists[g])
               PROVE  /\ next'[At(g, lists[g], i)] = next[At(g, lists[g], i)]
                      /\ prev'[At(g, lists[g], i + 1)] = prev[At(g, lists[g], i + 1)]
    BY DEF Ring, Rings
  <2>1. i \in Int /\ i + 1 \in Int /\ lists[g] \in Seq(Nodes)
    BY DEF Types
  <2>2. /\ At(g, lists[g], i) \in Cells /\ At(g, lists[g], i + 1) \in Cells
        /\ At(g, lists[g], i) # n /\ At(g, lists[g], i + 1) # n
    <3>1. n # g
      BY CellsAssumption
    <3> QED
      BY <1>4, <2>1, <3>1, AtIsCell DEF At
  <2>3. At(g, lists[g], i) # At(h, s, k) /\ At(g, lists[g], i + 1) # At(h, s, k + 1)
    BY <1>1, <1>6, <2>1, RingsApart
  <2> QED
    BY <2>2, <2>3 DEF Types
<1>7. Rings'
  BY <1>2, <1>5, <1>6 DEF Rings
<1>8. Apart'
  <2>1. \A i \in 1..Len(t) : t[i] = n \/ \E j \in 1..Len(s) : t[i] = s[j]
    <3>1. s \in Seq(Nodes) /\ IsInjective(s) /\ \A i \in 1..Len(s) : s[i] # n
      BY <1>1, <1>4 DEF Rings
    <3> HIDE DEF s, ListInv
    <3> QED
      BY <3>1, InsertedHolds DEF s
  <2> QED
    BY <1>2, <1>4, <2>1 DEF Apart
<1> QED
  BY <1>3, <1>7, <1>8

\* A pop or a deletion: the node at place k of head h's ring leaves it.
LEMMA UnlinkInv ==
  ASSUME ListInv, NEW h \in Heads, NEW k \in 1..Len(lists[h]), NEW t \in Seq(Nodes),
         Removed(lists[h], k, t), lists' = [lists EXCEPT ![h] = t],
         next' \in [Cells -> Cells], prev' \in [Cells -> Cells],
         Bypassed(h, lists[h], k, next, prev, next', prev')
  PROVE  ListInv'
<1> USE DEF ListInv
<1> DEFINE s == lists[h]
<1>1. s \in Seq(Nodes) /\ k \in Int /\ k + 1 \in Int /\ k - 1 \in Int
  BY DEF Types
<1>2. \A g \in Heads : lists'[g] = IF g = h THEN t ELSE lists[g]
  BY DEF Types
<1>3. Types'
  BY DEF Types
<1>4. Ring(h, t, next', prev') /\ IsInjective(t)
  <2>1. IsInjective(s) /\ Ring(h, s, next, prev) /\ next \in [Cells -> Cells] /\ prev \in [Cells -> Cells]
    BY DEF Rings, Types
  <2>2. UnlinkedAt(h, s, k, t, next, prev, next', prev')
    BY <1>1, <2>1 DEF UnlinkedAt
  <2> QED
    BY <2>2, RemoveKeepsRing
<1>5. ASSUME NEW g \in Heads, g # h PROVE Ring(g, lists[g], next', prev')
  <2> SUFFICES ASSUME NEW i \in 0..Len(lists[g])
               PROVE  /\ next'[At(g, lists[g], i)] = next[At(g, lists[g], i)]
                      /\ prev'[At(g, lists[g], i + 1)] = prev[At(g, lists[g], i + 1)]
    BY DEF Ring, Rings
  <2>1. i \in Int /\ i + 1 \in Int /\ lists[g] \in Seq(Nodes)
    BY DEF Types
  <2>2. At(g, lists[g], i) \in Cells /\ At(g, lists[g], i + 1) \in Cells
    BY <2>1, AtIsCell
  <2>3. /\ At(g, lists[g], i) # At(h, s, k - 1) /\ At(g, lists[g], i) # At(h, s, k)
        /\ At(g, lists[g], i + 1) # At(h, s, k + 1) /\ At(g, lists[g], i + 1) # At(h, s, k)
    BY <1>1, <1>5, <2>1, RingsApart
  <2> QED
    BY <2>2, <2>3 DEF Bypassed
<1>6. Rings'
  BY <1>2, <1>4, <1>5 DEF Rings
<1>7. Apart'
  <2>1. \A i \in 1..Len(t) : \E j \in 1..Len(s) : t[i] = s[j]
    <3>1. Len(s) \in Nat
      BY <1>1
    <3> QED
      BY <3>1 DEF Removed
  <2> QED
    BY <1>2, <2>1 DEF Apart
<1> QED
  BY <1>3, <1>6, <1>7

-------------------------------------------------------------------------------
\* What the operators on sequences insert and remove.
LEMMA InsertedFirst ==
  ASSUME NEW s \in Seq(Nodes), NEW n \in Nodes
  PROVE  <<n>> \o s \in Seq(Nodes) /\ Inserted(s, 0, n, <<n>> \o s)
BY DEF Inserted

LEMMA InsertedLast ==
  ASSUME NEW s \in Seq(Nodes), NEW n \in Nodes
  PROVE  Append(s, n) \in Seq(Nodes) /\ Inserted(s, Len(s), n, Append(s, n))
BY DEF Inserted

LEMMA InsertedAnywhere ==
  ASSUME NEW s \in Seq(Nodes), NEW n \in Nodes, NEW k \in 0..Len(s)
  PROVE  InsertAt(s, k + 1, n) \in Seq(Nodes) /\ Inserted(s, k, n, InsertAt(s, k + 1, n))
<1> DEFINE a == SubSeq(s, 1, k)  b == SubSeq(s, k + 1, Len(s))
<1>1. /\ a \in Seq(Nodes) /\ Len(a) = k /\ \A i \in 1..k : a[i] = s[i]
      /\ b \in Seq(Nodes) /\ Len(b) = Len(s) - k /\ \A i \in 1..Len(b) : b[i] = s[k + i]
      /\ Len(s) \in Nat
  OBVIOUS
<1>2. InsertAt(s, k + 1, n) = (a \o <<n>>) \o b
  <2>1. (k + 1) - 1 = k
    OBVIOUS
  <2> QED
    BY <2>1 DEF InsertAt
<1> HIDE DEF a, b
<1> DEFINE c == a \o <<n>>
<1>3. c \in Seq(Nodes) /\ Len(c) = k + 1 /\ c[k + 1] = n /\ \A i \in 1..k : c[i] = a[i]
  BY <1>1
<1> HIDE DEF c
<1>4. /\ c \o b \in Seq(Nodes) /\ Len(c \o b) = Len(s) + 1
      /\ \A i \in 1..(Len(s) + 1) : (c \o b)[i] = IF i <= k + 1 THEN c[i] ELSE b[i - (k + 1)]
  <2>1. c \in Seq(Nodes) /\ Len(c) = k + 1 /\ Len(c) + Len(b) = Len(s) + 1
    BY <1>1, <1>3
  <2>2. /\ c \o b \in Seq(Nodes) /\ Len(c \o b) = Len(c) + Len(b)
        /\ \A i \in 1..(Len(c) + Len(b)) :
             (c \o b)[i] = IF i <= Len(c) THEN c[i] ELSE b[i - Len(c)]
    <3>1. c \in Seq(Nodes) /\ b \in Seq(Nodes)
      BY <1>1, <2>1
    <3> QED
      BY <3>1, ConcatProperties
  <2> DEFINE e == c \o b
  <2>3. e \in Seq(Nodes) /\ \A i \in 1..(Len(c) + Len(b)) : e[i] = IF i <= Len(c) THEN c[i] ELSE b[i - Len(c)]
    BY <2>2
  <2>4. Len(e) = Len(s) + 1
    BY <2>1, <2>2
  <2> HIDE DEF e
  <2>5. \A i \in 1..(Len(s) + 1) : e[i] = IF i <= k + 1 THEN c[i] ELSE b[i - (k + 1)]
    BY <2>1, <2>3
  <2> QED
    BY <2>3, <2>4, <2>5 DEF e
<1>5. InsertAt(s, k + 1, n) = c \o b
  BY <1>2 DEF c
<1>6. ASSUME NEW i \in 1..(Len(s) + 1), i > k + 1 PROVE b[i - (k + 1)] = s[i - 1]
  <2>1. i - (k + 1) \in 1..Len(b) /\ k + (i - (k + 1)) = i - 1
    BY <1>1, <1>6
  <2> QED
    BY <1>1, <2>1
<1>7. ASSUME NEW i \in 1..(Len(s) + 1)
      PROVE  (c \o b)[i] = IF i <= k THEN s[i] ELSE IF i = k + 1 THEN n ELSE s[i - 1]
  <2>1. CASE i <= k
    BY <1>1, <1>3, <1>4, <2>1
  <2>2. CASE i = k + 1
    BY <1>1, <1>3, <1>4, <2>2
  <2>3. CASE i > k + 1
    BY <1>1, <1>4, <1>6, <2>3
  <2>4. i <= k \/ i = k + 1 \/ i > k + 1
    OBVIOUS
  <2> QED
    BY <2>1, <2>2, <2>3, <2>4
<1> DEFINE d == c \o b
<1>8. d \in Seq(Nodes) /\ Len(d) = Len(s) + 1 /\ InsertAt(s, k + 1, n) = d
  BY <1>4, <1>5
<1>9. \A i \in 1..(Len(s) + 1) : d[i] = IF i <= k THEN s[i] ELSE IF i = k + 1 THEN n ELSE s[i - 1]
  BY <1>7
<1> HIDE DEF d
<1> QED
  BY <1>8, <1>9 DEF Inserted

LEMMA RemovedFirst ==
  ASSUME NEW s \in Seq(Nodes), Len(s) # 0
  PROVE  Tail(s) \in Seq(Nodes) /\ Removed(s, 1, Tail(s))
BY DEF Removed

LEMMA RemovedLast ==
  ASSUME NEW s \in Seq(Nodes), Len(s) # 0
  PROVE  Front(s) \in Seq(Nodes) /\ Removed(s, Len(s), Front(s))
<1> DEFINE m == Len(s) - 1
<1>1. Front(s) = SubSeq(s, 1, m) /\ m \in Nat /\ Len(s) = m + 1
  BY DEF Front
<1> HIDE DEF m
<1>2. /\ SubSeq(s, 1, m) \in Seq(Nodes) /\ Len(SubSeq(s, 1, m)) = m
      /\ \A i \in 1..m : SubSeq(s, 1, m)[i] = s[i]
  BY <1>1
<1> QED
  BY <1>1, <1>2 DEF Removed

LEMMA RemovedAnywhere ==
  ASSUME NEW s \in Seq(Nodes), IsInjective(s), NEW k \in 1..Len(s)
  PROVE  RemoveFirst(s, s[k]) \in Seq(Nodes) /\ Removed(s, k, RemoveFirst(s, s[k]))
BY RemoveFirstAt DEF Removed

-------------------------------------------------------------------------------
\* The cells around place i, as the links tell.
LEMMA Around ==
  ASSUME ListInv, NEW h \in Heads, NEW i \in 0..Len(lists[h])
  PROVE  /\ next[At(h, lists[h], i)] = At(h, lists[h], i + 1)
         /\ prev[At(h, lists[h], i + 1)] = At(h, lists[h], i)
BY DEF ListInv, Rings, Ring

LEMMA PushStep ==
  ASSUME ListInv, NEW h \in Heads, NEW n \in Nodes, PushHead(h, n) \/ PushTail(h, n)
  PROVE  ListInv'
<1> DEFINE s == lists[h]
<1>1. s \in Seq(Nodes) /\ Len(s) \in Nat /\ next \in [Cells -> Cells] /\ prev \in [Cells -> Cells]
  BY DEF ListInv, Types
<1>2. /\ Empty(h) <=> Len(s) = 0
      /\ next[h] = At(h, s, 1) /\ prev[h] = At(h, s, Len(s))
  BY EmptyIs DEF ListInv
<1>3. At(h, s, 0) = h /\ At(h, s, Len(s) + 1) = h
  BY <1>1 DEF At
<1>4. n # h /\ n \in Cells /\ h \in Cells
  BY CellsAssumption DEF Cells
<1> HIDE DEF s
<1>5. CASE PushHead(h, n)
  <2>1. n \notin Linked /\ lists' = [lists EXCEPT ![h] = <<n>> \o s]
    BY <1>5 DEF PushHead, s
  <2>2. <<n>> \o s \in Seq(Nodes) /\ Inserted(s, 0, n, <<n>> \o s)
    BY <1>1, InsertedFirst
  <2>3. /\ next' = [next EXCEPT ![At(h, s, 0)] = n, ![n] = At(h, s, 0 + 1)]
        /\ prev' = [prev EXCEPT ![At(h, s, 0 + 1)] = n, ![n] = At(h, s, 0)]
    <3>1. CASE Empty(h)
      <4>1. At(h, s, 1) = h
        BY <1>2, <1>3, <3>1
      <4> QED
        BY <1>3, <1>5, <3>1, <4>1 DEF PushHead
    <3>2. CASE ~Empty(h)
      <4>1. next' = [next EXCEPT ![n] = next[h], ![h] = n] /\ prev' = [prev EXCEPT ![next[h]] = n, ![n] = h]
        BY <1>5, <3>2 DEF PushHead
      <4>2. 0 + 1 = 1
        OBVIOUS
      <4> QED
        BY <1>1, <1>2, <1>3, <1>4, <4>1, <4>2
    <3> QED
      BY <3>1, <3>2
  <2> DEFINE t == <<n>> \o s
  <2> HIDE DEF t
  <2>4. 0 \in 0..Len(s) /\ t \in Seq(Nodes) /\ Inserted(s, 0, n, t) /\ lists' = [lists EXCEPT ![h] = t]
    BY <1>1, <2>1, <2>2 DEF t
  <2> QED
    BY <2>1, <2>3, <2>4, PushInv DEF s
<1>6. CASE PushTail(h, n)
  <2>1. n \notin Linked /\ lists' = [lists EXCEPT ![h] = Append(s, n)]
    BY <1>6 DEF PushTail, s
  <2>2. Append(s, n) \in Seq(Nodes) /\ Inserted(s, Len(s), n, Append(s, n))
    BY <1>1, InsertedLast
  <2>3. /\ next' = [next EXCEPT ![At(h, s, Len(s))] = n, ![n] = At(h, s, Len(s) + 1)]
        /\ prev' = [prev EXCEPT ![At(h, s, Len(s) + 1)] = n, ![n] = At(h, s, Len(s))]
    <3>1. CASE Empty(h)
      <4>1. At(h, s, Len(s)) = h
        BY <1>2, <1>3, <3>1
      <4> QED
        BY <1>3, <1>6, <3>1, <4>1 DEF PushTail
    <3>2. CASE ~Empty(h)
      <4>1. prev' = [prev EXCEPT ![n] = prev[h], ![h] = n] /\ next' = [next EXCEPT ![prev[h]] = n, ![n] = h]
        BY <1>6, <3>2 DEF PushTail
      <4> QED
        BY <1>1, <1>2, <1>3, <1>4, <4>1
    <3> QED
      BY <3>1, <3>2
  <2> DEFINE t == Append(s, n)
             k == Len(s)
  <2> HIDE DEF t
  <2>4. k \in 0..Len(s) /\ t \in Seq(Nodes) /\ Inserted(s, k, n, t) /\ lists' = [lists EXCEPT ![h] = t]
    BY <1>1, <2>1, <2>2 DEF t
  <2>5. /\ next' = [next EXCEPT ![At(h, s, k)] = n, ![n] = At(h, s, k + 1)]
        /\ prev' = [prev EXCEPT ![At(h, s, k + 1)] = n, ![n] = At(h, s, k)]
    BY <2>3
  <2> HIDE DEF k
  <2> QED
    BY <2>1, <2>4, <2>5, PushInv DEF s
<1> QED
  BY <1>5, <1>6

LEMMA PushAfterStep ==
  ASSUME ListInv, NEW h \in Heads, NEW n \in Nodes, NEW base \in Cells, PushAfter(h, base, n)
  PROVE  ListInv'
<1> DEFINE s == lists[h]
           k == IF base = h THEN 0 ELSE CHOOSE i \in 1..Len(s) : s[i] = base
           t == InsertAt(s, k + 1, n)
<1>1. s \in Seq(Nodes) /\ Len(s) \in Nat /\ next \in [Cells -> Cells] /\ prev \in [Cells -> Cells]
  BY DEF ListInv, Types
<1>2. k \in 0..Len(s) /\ At(h, s, k) = base
  <2>1. CASE base = h
    BY <1>1, <2>1 DEF At
  <2>2. CASE base # h
    <3>1. \E i \in 1..Len(s) : s[i] = base
      BY <1>1, <2>2 DEF PushAfter, ToSet
    <3>2. k \in 1..Len(s) /\ s[k] = base
      BY <2>2, <3>1
    <3> QED
      BY <3>2 DEF At
  <2> QED
    BY <2>1, <2>2
<1>3. n \notin Linked /\ lists' = [lists EXCEPT ![h] = t]
  BY DEF PushAfter
<1> HIDE DEF k
<1>4. t \in Seq(Nodes) /\ Inserted(s, k, n, t)
  BY <1>1, <1>2, InsertedAnywhere
<1>5. next[base] = At(h, s, k + 1)
  BY <1>2, Around
<1>6. n # base
  <2>1. base \in Linked \/ base = h
    BY DEF PushAfter, Linked
  <2> QED
    BY <1>3, <2>1, CellsAssumption
<1>7. /\ prev' = [prev EXCEPT ![next[base]] = n, ![n] = base]
      /\ next' = [next EXCEPT ![n] = next[base], ![base] = n]
  BY DEF PushAfter
<1>8. /\ next' = [next EXCEPT ![At(h, s, k)] = n, ![n] = At(h, s, k + 1)]
      /\ prev' = [prev EXCEPT ![At(h, s, k + 1)] = n, ![n] = At(h, s, k)]
  <2>1. n \in Cells
    BY DEF Cells
  <2>2. next' = [next EXCEPT ![base] = n, ![n] = next[base]]
    BY <1>1, <1>6, <1>7, <2>1
  <2> HIDE DEF s, t
  <2> QED
    BY <1>2, <1>5, <1>7, <2>2
<1> HIDE DEF t
<1> QED
  BY <1>2, <1>3, <1>4, <1>8, PushInv

LEMMA PopStep ==
  ASSUME ListInv, NEW h \in Heads, PopHead(h) \/ PopTail(h)
  PROVE  ListInv'
<1> DEFINE s == lists[h]
<1>1. s \in Seq(Nodes) /\ Len(s) \in Nat /\ next \in [Cells -> Cells] /\ prev \in [Cells -> Cells]
  BY DEF ListInv, Types
<1>2. /\ Len(s) # 0 /\ next[h] = At(h, s, 1) /\ prev[h] = At(h, s, Len(s))
  BY EmptyIs DEF ListInv, PopHead, PopTail
<1>3. At(h, s, 0) = h /\ At(h, s, Len(s) + 1) = h /\ h \in Cells
  BY <1>1 DEF At, Cells
<1>4. CASE PopHead(h)
  <2>1. lists' = [lists EXCEPT ![h] = Tail(s)]
    BY <1>4 DEF PopHead
  <2> DEFINE t == Tail(s)
             y == At(h, s, 2)
  <2>2. t \in Seq(Nodes) /\ Removed(s, 1, t)
    BY <1>1, <1>2, RemovedFirst
  <2>3. next[next[h]] = y /\ y \in Cells
    <3>1. next[At(h, s, 1)] = At(h, s, 1 + 1) /\ 1 + 1 = 2 /\ 2 \in Int
      BY <1>1, <1>2, Around
    <3> QED
      BY <1>1, <1>2, <3>1, AtIsCell
  <2>4. next' = [next EXCEPT ![h] = y] /\ prev' = [prev EXCEPT ![y] = h]
    BY <1>4, <2>3 DEF PopHead
  <2>5. 1 - 1 = 0 /\ 1 + 1 = 2 /\ 1 \in 1..Len(s)
    BY <1>1, <1>2
  <2> HIDE DEF t, y, s
  <2>6. /\ next'[h] = y /\ prev'[y] = h /\ next' \in [Cells -> Cells] /\ prev' \in [Cells -> Cells]
        /\ \A c \in Cells : c # h => next'[c] = next[c]
        /\ \A c \in Cells : c # y => prev'[c] = prev[c]
    BY <1>1, <1>3, <2>3, <2>4
  <2>7. Bypassed(h, s, 1, next, prev, next', prev')
    BY <1>3, <2>5, <2>6 DEF Bypassed, y
  <2>8. lists' = [lists EXCEPT ![h] = t]
    BY <2>1 DEF t
  <2> QED
    BY <2>2, <2>5, <2>6, <2>7, <2>8, UnlinkInv DEF s
<1>5. CASE PopTail(h)
  <2>1. lists' = [lists EXCEPT ![h] = Front(s)]
    BY <1>5 DEF PopTail
  <2> DEFINE t == Front(s)
             k == Len(s)
             y == At(h, s, k - 1)
  <2>2. t \in Seq(Nodes) /\ Removed(s, k, t)
    BY <1>1, <1>2, RemovedLast
  <2>3. prev[prev[h]] = y /\ y \in Cells
    <3>1. (k - 1) + 1 = k /\ k - 1 \in Int /\ k - 1 \in 0..Len(s)
      BY <1>1, <1>2
    <3>2. prev[At(h, s, (k - 1) + 1)] = At(h, s, k - 1)
      BY <3>1, Around
    <3> QED
      BY <1>1, <1>2, <3>1, <3>2, AtIsCell
  <2>4. prev' = [prev EXCEPT ![h] = y] /\ next' = [next EXCEPT ![y] = h]
    BY <1>5, <2>3 DEF PopTail
  <2>5. k \in 1..Len(s)
    BY <1>1, <1>2
  <2>0. At(h, s, k + 1) = h
    BY <1>3
  <2> HIDE DEF t, y, s, k
  <2>6. /\ prev'[h] = y /\ next'[y] = h /\ next' \in [Cells -> Cells] /\ prev' \in [Cells -> Cells]
        /\ \A c \in Cells : c # h => prev'[c] = prev[c]
        /\ \A c \in Cells : c # y => next'[c] = next[c]
    BY <1>1, <1>3, <2>3, <2>4
  <2>7. Bypassed(h, s, k, next, prev, next', prev')
    BY <2>0, <2>6 DEF Bypassed, y
  <2>8. lists' = [lists EXCEPT ![h] = t]
    BY <2>1 DEF t
  <2> QED
    BY <2>2, <2>5, <2>6, <2>7, <2>8, UnlinkInv DEF s
<1> QED
  BY <1>4, <1>5

\* What every list becomes when a node is taken out of whichever list has it.
LEMMA TakenOut ==
  ASSUME ListInv, NEW h \in Heads, NEW k \in 1..Len(lists[h])
  PROVE  LET n == lists[h][k]
             t == RemoveFirst(lists[h], n)
         IN  /\ t \in Seq(Nodes) /\ Removed(lists[h], k, t)
             /\ [g \in Heads |-> RemoveFirst(lists[g], n)] = [lists EXCEPT ![h] = t]
<1> DEFINE n == lists[h][k]
<1>1. lists[h] \in Seq(Nodes) /\ IsInjective(lists[h])
  BY DEF ListInv, Types, Rings
<1>2. RemoveFirst(lists[h], n) \in Seq(Nodes) /\ Removed(lists[h], k, RemoveFirst(lists[h], n))
  BY <1>1, RemovedAnywhere
<1>3. ASSUME NEW g \in Heads, g # h PROVE RemoveFirst(lists[g], n) = lists[g]
  <2>1. \A i \in 1..Len(lists[g]) : lists[g][i] # n
    BY <1>3 DEF ListInv, Apart
  <2> QED
    BY <2>1 DEF RemoveFirst
<1>4. lists \in [Heads -> Seq(Nodes)]
  BY DEF ListInv, Types
<1> DEFINE f(g) == RemoveFirst(lists[g], n)
<1>5. [g \in Heads |-> f(g)] = [lists EXCEPT ![h] = f(h)]
  <2>1. \A g \in Heads : g # h => f(g) = lists[g]
    BY <1>3
  <2> HIDE DEF f
  <2> QED
    BY <1>4, <2>1
<1> QED
  BY <1>2, <1>5

\* kdlist_delete, also when the node's own links are overwritten.
LEMMA BypassNode ==
  ASSUME ListInv, NEW h \in Heads, NEW k \in 1..Len(lists[h]),
         NEW nx \in [Cells -> Cells], NEW pv \in [Cells -> Cells],
         LET n == lists[h][k]
         IN  /\ \A c \in Cells \ {n} : nx[c] = IF c = prev[n] THEN next[n] ELSE next[c]
             /\ \A c \in Cells \ {n} : pv[c] = IF c = next[n] THEN prev[n] ELSE prev[c]
  PROVE  Bypassed(h, lists[h], k, next, prev, nx, pv)
<1> DEFINE s == lists[h]
           a(i) == At(h, s, i)
<1>1. s \in Seq(Nodes) /\ Len(s) \in Nat /\ k \in 0..Len(s) /\ k - 1 \in 0..Len(s) /\ IsInjective(s)
      /\ k - 1 \in Int /\ k + 1 \in Int /\ (k - 1) + 1 = k
  BY DEF ListInv, Types, Rings
<1>2. a(k) = s[k]
  BY DEF At
<1>3. next[s[k]] = a(k + 1) /\ prev[s[k]] = a(k - 1)
  <2>1. next[a(k)] = a(k + 1) /\ prev[a((k - 1) + 1)] = a(k - 1)
    BY <1>1, Around
  <2> QED
    BY <1>1, <1>2, <2>1
<1>4. a(k - 1) \in Cells /\ a(k + 1) \in Cells
  BY <1>1, AtIsCell
<1>5. a(k - 1) # a(k) /\ a(k + 1) # a(k)
  <2>1. a(k - 1) # a(k)
    BY <1>1, AtTellsApart
  <2>2. CASE k = Len(s)
    <3>1. a(k + 1) = h /\ s[k] \in Nodes
      BY <1>1, <2>2 DEF At
    <3> QED
      BY <1>2, <2>1, <3>1, CellsAssumption
  <2>3. CASE k # Len(s)
    <3>1. k + 1 \in 0..Len(s) /\ k + 1 # k
      BY <1>1, <2>3
    <3> QED
      BY <1>1, <2>1, <3>1, AtTellsApart
  <2> QED
    BY <2>2, <2>3
<1>6. /\ \A c \in Cells : c # a(k) => nx[c] = IF c = a(k - 1) THEN a(k + 1) ELSE next[c]
      /\ \A c \in Cells : c # a(k) => pv[c] = IF c = a(k + 1) THEN a(k - 1) ELSE prev[c]
  BY <1>2, <1>3
<1> HIDE DEF s
<1> QED
  BY <1>4, <1>5, <1>6 DEF Bypassed, s

LEMMA DeleteStep == ASSUME ListInv, NEW n \in Nodes, Delete(n) PROVE ListInv'
<1>1. Types /\ n \in Linked /\ next \in [Cells -> Cells] /\ prev \in [Cells -> Cells] /\ n \in Cells
  BY DEF ListInv, Types, Delete, Cells
<1>h. PICK h \in Heads : \E i \in 1..Len(lists[h]) : lists[h][i] = n
  BY <1>1, LinkedIs
<1>2. PICK k \in 1..Len(lists[h]) : lists[h][k] = n
  BY <1>h
<1> DEFINE t == RemoveFirst(lists[h], n)
<1>3. t \in Seq(Nodes) /\ Removed(lists[h], k, t) /\ [g \in Heads |-> RemoveFirst(lists[g], n)] = [lists EXCEPT ![h] = t]
  BY <1>2, TakenOut
<1>4. lists' = [lists EXCEPT ![h] = t]
  BY <1>3 DEF Delete, Unlink
<1>5. next' = [next EXCEPT ![prev[n]] = next[n]] /\ prev' = [prev EXCEPT ![next[n]] = prev[n]]
  BY DEF Delete, Unlink
<1>6. /\ next' \in [Cells -> Cells] /\ prev' \in [Cells -> Cells]
      /\ \A c \in Cells \ {n} : next'[c] = IF c = prev[n] THEN next[n] ELSE next[c]
      /\ \A c \in Cells \ {n} : prev'[c] = IF c = next[n] THEN prev[n] ELSE prev[c]
  BY <1>1, <1>5
<1>7. Bypassed(h, lists[h], k, next, prev, next', prev')
  BY <1>2, <1>6, BypassNode
<1> HIDE DEF t
<1> QED
  BY <1>3, <1>4, <1>6, <1>7, UnlinkInv

-------------------------------------------------------------------------------
\* The loop stands at place d + 1 of its ring: from there on the list is what
\* it began with, behind the nodes it has seen.
LoopType == [head : Heads, pos : Cells, n : Cells, seen : Seq(Nodes), all : Seq(Nodes)]

Visits(lp, s, d) ==
  /\ d \in 0..Len(s) /\ Len(lp.seen) <= Len(lp.all) /\ Len(s) - d = Len(lp.all) - Len(lp.seen)
  /\ \A i \in 1..Len(lp.seen) : lp.seen[i] = lp.all[i]
  /\ \A i \in 1..(Len(s) - d) : s[d + i] = lp.all[Len(lp.seen) + i]
  /\ lp.pos = At(lp.head, s, d + 1)
  /\ lp.pos # lp.head => lp.n = At(lp.head, s, d + 2)

LoopInv == loop # Null => loop \in LoopType /\ \E d \in Nat : Visits(loop, lists[loop.head], d)

Turned(lp, nx) == [lp EXCEPT !.seen = Append(@, lp.pos), !.pos = lp.n, !.n = nx[lp.n]]

\* The turn keeps the node at place d + 1, or takes it out.
LEMMA TurnVisits ==
  ASSUME NEW lp \in LoopType, NEW s \in Seq(Nodes), NEW d \in Nat, Visits(lp, s, d), lp.pos # lp.head,
         NEW z \in Seq(Nodes), NEW e \in Nat,
         (z = s /\ e = d + 1) \/ (Removed(s, d + 1, z) /\ e = d),
         NEW nx \in [Cells -> Cells], \A i \in 0..Len(z) : nx[At(lp.head, z, i)] = At(lp.head, z, i + 1)
  PROVE  Turned(lp, nx) \in LoopType /\ Visits(Turned(lp, nx), z, e)
<1> DEFINE h == lp.head  u == lp.seen  w == lp.all  p == lp.pos  n == lp.n  lq == Turned(lp, nx)
<1>1. /\ h \in Heads /\ u \in Seq(Nodes) /\ w \in Seq(Nodes) /\ p \in Cells /\ n \in Cells
      /\ lq.head = h /\ lq.pos = n /\ lq.n = nx[n] /\ lq.seen = Append(u, p) /\ lq.all = w
      /\ Len(s) \in Nat /\ Len(u) \in Nat /\ Len(w) \in Nat /\ Len(z) \in Nat
  BY DEF LoopType, Turned
<1>2. /\ d \in 0..Len(s) /\ Len(u) <= Len(w) /\ Len(s) - d = Len(w) - Len(u)
      /\ \A i \in 1..Len(u) : u[i] = w[i]
      /\ \A i \in 1..(Len(s) - d) : s[d + i] = w[Len(u) + i]
      /\ p = At(h, s, d + 1) /\ n = At(h, s, d + 2)
  BY DEF Visits
<1>3. d + 1 \in 1..Len(s) /\ p = s[d + 1] /\ p \in Nodes /\ p = w[Len(u) + 1]
  <2>1. d + 1 \in 1..Len(s)
    BY <1>2 DEF At
  <2> QED
    BY <1>1, <1>2, <2>1 DEF At
<1>4. lq \in LoopType
  <2>1. Append(u, p) \in Seq(Nodes) /\ nx[n] \in Cells
    BY <1>1, <1>3
  <2> QED
    BY <1>1, <2>1 DEF LoopType, Turned
<1>5. Len(lq.seen) = Len(u) + 1 /\ \A i \in 1..(Len(u) + 1) : lq.seen[i] = w[i]
  <2>1. Len(Append(u, p)) = Len(u) + 1 /\ Append(u, p)[Len(u) + 1] = p
        /\ \A i \in 1..Len(u) : Append(u, p)[i] = u[i]
    BY <1>1, <1>3
  <2>2. \A i \in 1..(Len(u) + 1) : i \in 1..Len(u) \/ i = Len(u) + 1
    BY <1>1
  <2> QED
    BY <1>1, <1>2, <1>3, <2>1, <2>2
<1>6. /\ e \in 0..Len(z) /\ Len(z) - e = (Len(s) - d) - 1
      /\ \A i \in 1..(Len(z) - e) : z[e + i] = s[d + (i + 1)]
      /\ At(h, z, e + 1) = At(h, s, d + 2)
  <2>1. CASE z = s /\ e = d + 1
    <3>1. \A i \in Nat : e + i = d + (i + 1)
      BY <2>1
    <3> QED
      BY <1>1, <1>2, <1>3, <2>1, <3>1
  <2>2. CASE Removed(s, d + 1, z) /\ e = d
    <3>1. /\ Len(z) = Len(s) - 1
          /\ \A i \in 1..Len(z) : z[i] = IF i < d + 1 THEN s[i] ELSE s[i + 1]
      BY <2>2 DEF Removed
    <3>2. ASSUME NEW i \in 1..(Len(z) - e) PROVE z[e + i] = s[d + (i + 1)]
      <4>1. e + i \in 1..Len(z) /\ ~(e + i < d + 1) /\ (e + i) + 1 = d + (i + 1)
        BY <1>1, <1>2, <2>2
      <4> QED
        BY <3>1, <4>1
    <3>3. At(h, z, e + 1) = At(h, s, d + 2)
      BY <1>1, <1>2, <1>3, <2>2, <3>1 DEF At
    <3> QED
      BY <1>1, <1>2, <1>3, <2>2, <3>1, <3>2, <3>3
  <2> QED
    BY <2>1, <2>2
<1> DEFINE S == Len(s)  Z == Len(z)  U == Len(u)  W == Len(w)
<1>7. /\ Len(u) + 1 <= Len(w) /\ Len(z) - e = Len(w) - (Len(u) + 1)
      /\ \A i \in 1..(Len(z) - e) : i + 1 \in 1..(Len(s) - d) /\ Len(u) + (i + 1) = (Len(u) + 1) + i
  <2>1. /\ S \in Nat /\ Z \in Nat /\ U \in Nat /\ W \in Nat /\ d \in Nat /\ e \in Nat
        /\ S - d = W - U /\ Z - e = (S - d) - 1 /\ d + 1 <= S
    BY <1>1, <1>2, <1>3, <1>6
  <2> HIDE DEF S, Z, U, W
  <2>2. /\ U + 1 <= W /\ Z - e = W - (U + 1)
        /\ \A i \in 1..(Z - e) : i + 1 \in 1..(S - d) /\ U + (i + 1) = (U + 1) + i
    BY <2>1
  <2> QED
    BY <2>2 DEF S, Z, U, W
<1>8. ASSUME NEW i \in 1..(Len(z) - e) PROVE z[e + i] = w[(Len(u) + 1) + i]
  <2>1. i + 1 \in 1..(Len(s) - d) /\ Len(u) + (i + 1) = (Len(u) + 1) + i
    BY <1>7
  <2> QED
    BY <1>2, <1>6, <2>1
<1>9. n # h => nx[n] = At(h, z, e + 2)
  <2> SUFFICES ASSUME n # h PROVE nx[n] = At(h, z, e + 2)
    OBVIOUS
  <2>1. n = At(h, z, e + 1)
    BY <1>2, <1>6
  <2>2. e + 1 \in 1..Len(z)
    BY <2>1 DEF At
  <2>3. e + 1 \in 0..Len(z) /\ (e + 1) + 1 = e + 2
    <3> HIDE DEF S, Z, U, W
    <3>1. e + 1 \in 1..Z /\ e \in Int /\ Z \in Nat
      BY <1>1, <1>6, <2>2 DEF Z
    <3>2. e + 1 \in 0..Z /\ (e + 1) + 1 = e + 2
      BY <3>1
    <3> QED
      BY <3>2 DEF Z
  <2> QED
    BY <2>1, <2>3
<1> HIDE DEF h, u, w, p, n, lq
<1>10. Visits(lq, z, e)
  BY <1>1, <1>2, <1>5, <1>6, <1>7, <1>8, <1>9 DEF Visits
<1> QED
  BY <1>4, <1>10 DEF lq

Inv == ListInv /\ LoopInv

\* The nodes at and behind the loop, as its turns find them.
LEMMA LoopStands ==
  ASSUME Inv, loop # Null, loop.pos # loop.head, NEW d \in Nat, Visits(loop, lists[loop.head], d)
  PROVE  /\ loop \in LoopType /\ loop.head \in Heads /\ lists[loop.head] \in Seq(Nodes)
         /\ d + 1 \in 1..Len(lists[loop.head]) /\ loop.pos = lists[loop.head][d + 1]
<1>1. loop \in LoopType /\ loop.head \in Heads
  BY DEF Inv, LoopInv, LoopType
<1>2. lists[loop.head] \in Seq(Nodes)
  BY <1>1 DEF Inv, ListInv, Types
<1> QED
  BY <1>1, <1>2 DEF Visits, At

LEMMA KeepStep == ASSUME Inv, TurnKeep PROVE Inv'
<1>1. loop # Null /\ loop.pos # loop.head /\ UNCHANGED <<next, prev, lists>>
      /\ loop' = Turned(loop, next')
  BY DEF TurnKeep, Advance, Turned
<1>2. PICK d \in Nat : Visits(loop, lists[loop.head], d)
  BY <1>1 DEF Inv, LoopInv
<1> DEFINE s == lists[loop.head]
<1>3. loop \in LoopType /\ loop.head \in Heads /\ s \in Seq(Nodes)
  BY <1>1, <1>2, LoopStands
<1>4. \A i \in 0..Len(s) : next[At(loop.head, s, i)] = At(loop.head, s, i + 1)
  BY <1>3, Around DEF Inv
<1>5. next' \in [Cells -> Cells] /\ next' = next
  BY <1>1 DEF Inv, ListInv, Types
<1>6. loop' \in LoopType /\ Visits(loop', s, d + 1)
  <2>1. d + 1 \in Nat
    OBVIOUS
  <2> HIDE DEF s
  <2> QED
    BY <1>1, <1>2, <1>3, <1>4, <1>5, <2>1, TurnVisits DEF s
<1>7. loop'.head = loop.head /\ lists'[loop'.head] = s
  BY <1>1, <1>3 DEF Turned, LoopType
<1>8. LoopInv'
  BY <1>6, <1>7 DEF LoopInv
<1>9. ListInv'
  BY <1>1 DEF Inv, ListInv, Types, Rings, Apart
<1> QED
  BY <1>8, <1>9 DEF Inv

LEMMA TakeOutStep == ASSUME Inv, TurnDelete PROVE Inv'
<1>1. loop # Null /\ loop.pos # loop.head /\ loop' = Turned(loop, next')
  BY DEF TurnDelete, Advance, Turned
<1>2. PICK d \in Nat : Visits(loop, lists[loop.head], d)
  BY <1>1 DEF Inv, LoopInv
<1> DEFINE h == loop.head
           s == lists[h]
           n == loop.pos
           t == RemoveFirst(s, n)
<1>3. loop \in LoopType /\ h \in Heads /\ s \in Seq(Nodes) /\ d + 1 \in 1..Len(s) /\ n = s[d + 1]
  BY <1>1, <1>2, LoopStands
<1>4. /\ t \in Seq(Nodes) /\ Removed(s, d + 1, t)
      /\ [g \in Heads |-> RemoveFirst(lists[g], n)] = [lists EXCEPT ![h] = t]
  BY <1>3, TakenOut DEF Inv
<1>5. lists' = [lists EXCEPT ![h] = t]
  BY <1>4 DEF TurnDelete
<1>6. next \in [Cells -> Cells] /\ prev \in [Cells -> Cells] /\ n \in Cells
  BY <1>3 DEF Inv, ListInv, Types, LoopType
<1>7. PICK junk \in Cells : /\ next' = [next EXCEPT ![prev[n]] = next[n], ![n] = junk]
                            /\ prev' = [prev EXCEPT ![next[n]] = prev[n], ![n] = junk]
  BY DEF TurnDelete
<1>8. /\ next' \in [Cells -> Cells] /\ prev' \in [Cells -> Cells]
      /\ \A c \in Cells \ {n} : next'[c] = IF c = prev[n] THEN next[n] ELSE next[c]
      /\ \A c \in Cells \ {n} : prev'[c] = IF c = next[n] THEN prev[n] ELSE prev[c]
  <2> HIDE DEF n
  <2> QED
    BY <1>6, <1>7
<1>9. Bypassed(h, s, d + 1, next, prev, next', prev')
  BY <1>3, <1>8, BypassNode DEF Inv
<1>10. ListInv'
  <2> HIDE DEF h, t
  <2> QED
    BY <1>3, <1>4, <1>5, <1>8, <1>9, UnlinkInv DEF Inv
<1>11. lists'[h] = t
  BY <1>3, <1>5 DEF Inv, ListInv, Types
<1>12. \A i \in 0..Len(t) : next'[At(h, t, i)] = At(h, t, i + 1)
  BY <1>3, <1>10, <1>11 DEF ListInv, Rings, Ring
<1>13. loop' \in LoopType /\ Visits(loop', t, d)
  <2> HIDE DEF t
  <2> QED
    BY <1>1, <1>2, <1>3, <1>4, <1>8, <1>12, TurnVisits
<1>14. loop'.head = h
  BY <1>1, <1>3 DEF Turned, LoopType
<1>15. LoopInv'
  <2> HIDE DEF t, h
  <2> QED
    BY <1>11, <1>13, <1>14 DEF LoopInv
<1> QED
  BY <1>10, <1>15 DEF Inv

LEMMA BeginStep == ASSUME Inv, NEW h \in Heads, BeginLoop(h) PROVE Inv'
<1> DEFINE s == lists[h]
           lp == [head |-> h, pos |-> next[h], n |-> next[next[h]], seen |-> <<>>, all |-> s]
<1>1. loop' = lp /\ UNCHANGED <<next, prev, lists>>
  BY DEF BeginLoop
<1>2. s \in Seq(Nodes) /\ Len(s) \in Nat /\ next \in [Cells -> Cells] /\ h \in Cells
  BY DEF Inv, ListInv, Types, Cells
<1>3. lp \in LoopType
  BY <1>2 DEF LoopType
<1>4. next[h] = At(h, s, 1) /\ (next[h] # h => next[next[h]] = At(h, s, 2))
  <2>1. next[h] = At(h, s, 1)
    BY EmptyIs DEF Inv, ListInv
  <2>2. next[h] # h => 1 \in 0..Len(s)
    BY <1>2, <2>1 DEF At
  <2>3. 1 \in 0..Len(s) => next[At(h, s, 1)] = At(h, s, 1 + 1) /\ 1 + 1 = 2
    BY Around DEF Inv
  <2> QED
    BY <2>1, <2>2, <2>3
<1>5. Visits(lp, s, 0)
  BY <1>2, <1>4 DEF Visits
<1>6. LoopInv'
  BY <1>1, <1>3, <1>5 DEF LoopInv
<1>7. ListInv'
  BY <1>1 DEF Inv, ListInv, Types, Rings, Apart
<1> QED
  BY <1>6, <1>7 DEF Inv

LEMMA InvStep == Inv /\ [Next]_vars => Inv'
<1> SUFFICES ASSUME Inv, [Next]_vars PROVE Inv'
  OBVIOUS
<1>0. UNCHANGED loop /\ loop = Null => LoopInv'
  BY DEF LoopInv
<1>1. ASSUME NEW h \in Heads, NEW n \in Nodes, PushHead(h, n) \/ PushTail(h, n) PROVE Inv'
  BY <1>0, <1>1, PushStep DEF Inv, PushHead, PushTail
<1>2. ASSUME NEW h \in Heads, NEW n \in Nodes, NEW base \in Cells, PushAfter(h, base, n) PROVE Inv'
  BY <1>0, <1>2, PushAfterStep DEF Inv, PushAfter
<1>3. ASSUME NEW h \in Heads, PopHead(h) \/ PopTail(h) PROVE Inv'
  BY <1>0, <1>3, PopStep DEF Inv, PopHead, PopTail
<1>4. ASSUME NEW n \in Nodes, Delete(n) PROVE Inv'
  BY <1>0, <1>4, DeleteStep DEF Inv, Delete
<1>5. CASE TurnKeep \/ TurnDelete
  BY <1>5, KeepStep, TakeOutStep
<1>6. CASE EndLoop
  BY <1>6 DEF EndLoop, Inv, LoopInv, ListInv, Types, Rings, Apart
<1>7. CASE UNCHANGED vars
  BY <1>7 DEF vars, Inv, LoopInv, ListInv, Types, Rings, Apart
<1> QED
  BY <1>1, <1>2, <1>3, <1>4, <1>5, <1>6, <1>7, BeginStep DEF Next

LEMMA InitInv == Init => Inv
<1> SUFFICES ASSUME Init PROVE Inv
  OBVIOUS
<1>1. \A h \in Heads : lists[h] = <<>> /\ h \in Cells
  BY DEF Init, Cells
<1>2. Types /\ Apart
  BY DEF Init, Types, Apart
<1>3. Rings
  BY <1>1 DEF Init, Rings, Ring, At, IsInjective
<1> QED
  BY <1>2, <1>3 DEF Init, Inv, ListInv, LoopInv

-------------------------------------------------------------------------------
LEMMA Modulo ==
  ASSUME NEW m \in Nat \ {0}
  PROVE  m % m = 0 /\ \A i \in 0..(m - 1) : i % m = i
OBVIOUS

\* Every link keeps pointing to a cell, and a running loop to cells.
THEOREM TypeCorrect == Spec => []TypeOK
<1>1. Inv => TypeOK
  BY DEF Inv, ListInv, Types, LoopInv, LoopType, TypeOK
<1> QED
  BY <1>1, InitInv, InvStep, PTL DEF Spec

\* kdoubly_linked_list.c, 19 to 198: after any sequence of calls the links of
\* every list lead through its nodes and back, forwards and backwards.
THEOREM LinksLead == Spec => []Represents
<1>1. Inv => Represents
  <2> SUFFICES ASSUME Inv, NEW h \in Heads
               PROVE  LET ring == <<h>> \o lists[h]
                          after(i) == ring[(i % Len(ring)) + 1]
                      IN /\ \A i \in 1..Len(ring) : next[ring[i]] = after(i) /\ prev[after(i)] = ring[i]
                         /\ IsInjective(ring)
                         /\ \A g \in Heads \ {h} : ToSet(lists[g]) \cap ToSet(lists[h]) = {}
    BY DEF Represents
  <2> DEFINE s == lists[h]
             ring == <<h>> \o s
  <2>1. s \in Seq(Nodes) /\ Len(s) \in Nat /\ IsInjective(s)
    BY DEF Inv, ListInv, Types, Rings
  <2>2. /\ ring \in Seq(Cells) /\ Len(ring) = Len(s) + 1
        /\ \A i \in 1..(Len(s) + 1) : ring[i] = At(h, s, i - 1)
    <3>1. <<h>> \in Seq(Cells) /\ s \in Seq(Cells) /\ Len(<<h>>) = 1 /\ <<h>>[1] = h
      BY <2>1 DEF Cells
    <3>2. /\ ring \in Seq(Cells) /\ Len(ring) = 1 + Len(s)
          /\ \A i \in 1..(1 + Len(s)) : ring[i] = IF i <= 1 THEN <<h>>[i] ELSE s[i - 1]
      BY <3>1, ConcatProperties
    <3> QED
      BY <2>1, <3>1, <3>2 DEF At
  <2> HIDE DEF ring
  <2>3. ASSUME NEW i \in 1..Len(ring) PROVE ring[(i % Len(ring)) + 1] = At(h, s, i)
    <3>1. CASE i = Len(ring)
      <4>1. i % Len(ring) = 0
        <5>1. Len(ring) \in Nat \ {0}
          BY <2>1, <2>2
        <5> QED
          BY <3>1, <5>1, Modulo
      <4>2. ring[1] = At(h, s, 0) /\ At(h, s, 0) = At(h, s, i)
        BY <2>1, <2>2, <3>1 DEF At
      <4> QED
        BY <4>1, <4>2
    <3>2. CASE i # Len(ring)
      <4>1. i % Len(ring) = i
        <5>1. Len(ring) \in Nat \ {0} /\ i \in 0..(Len(ring) - 1)
          BY <2>1, <2>2, <3>2
        <5> QED
          BY <5>1, Modulo
      <4>2. i + 1 \in 1..(Len(s) + 1) /\ (i + 1) - 1 = i
        BY <2>1, <2>2, <3>2
      <4> QED
        BY <2>2, <4>1, <4>2
    <3> QED
      BY <3>1, <3>2
  <2>4. ASSUME NEW i \in 1..Len(ring)
        PROVE  next[ring[i]] = ring[(i % Len(ring)) + 1] /\ prev[ring[(i % Len(ring)) + 1]] = ring[i]
    <3>1. i - 1 \in 0..Len(s) /\ (i - 1) + 1 = i
      BY <2>1, <2>2
    <3>2. next[At(h, s, i - 1)] = At(h, s, (i - 1) + 1) /\ prev[At(h, s, (i - 1) + 1)] = At(h, s, i - 1)
      BY <3>1, Around DEF Inv
    <3> QED
      BY <2>2, <2>3, <3>1, <3>2
  <2>5. IsInjective(ring)
    <3> SUFFICES ASSUME NEW i \in 1..Len(ring), NEW j \in 1..Len(ring), ring[i] = ring[j] PROVE i = j
      BY <2>2 DEF IsInjective
    <3>1. i - 1 \in 0..Len(s) /\ j - 1 \in 0..Len(s) /\ At(h, s, i - 1) = At(h, s, j - 1)
      BY <2>1, <2>2
    <3>2. i - 1 = j - 1
      BY <2>1, <3>1, AtTellsApart
    <3> QED
      BY <3>2
  <2>6. ASSUME NEW g \in Heads \ {h} PROVE ToSet(lists[g]) \cap ToSet(lists[h]) = {}
    <3>1. DOMAIN lists[g] = 1..Len(lists[g]) /\ DOMAIN lists[h] = 1..Len(lists[h])
      BY DEF Inv, ListInv, Types
    <3> QED
      BY <3>1 DEF Inv, ListInv, Apart, ToSet
  <2> QED
    BY <2>4, <2>5, <2>6 DEF ring
<1> QED
  BY <1>1, InitInv, InvStep, PTL DEF Spec

\* kdoubly_linked_list.h, 59 to 61: the loop sees every node of the list it
\* began with, once and in order, whatever its body deletes under it.
THEOREM LoopIsSafe == Spec => LoopSeesAll
<1>1. Inv /\ EndLoop => loop.seen = loop.all
  <2> SUFFICES ASSUME Inv, EndLoop PROVE loop.seen = loop.all
    OBVIOUS
  <2>1. loop # Null /\ loop.pos = loop.head
    BY DEF EndLoop
  <2>2. PICK d \in Nat : Visits(loop, lists[loop.head], d)
    BY <2>1 DEF Inv, LoopInv
  <2> DEFINE s == lists[loop.head]
  <2>3. /\ loop \in LoopType /\ loop.head \in Heads /\ loop.seen \in Seq(Nodes) /\ loop.all \in Seq(Nodes)
    BY <2>1 DEF Inv, LoopInv, LoopType
  <2>4. s \in Seq(Nodes)
    BY <2>3 DEF Inv, ListInv, Types
  <2>5. d + 1 \notin 1..Len(s)
    BY <2>1, <2>2, <2>3, <2>4, AtIsCell DEF Visits
  <2>6. Len(loop.seen) = Len(loop.all) /\ \A i \in 1..Len(loop.seen) : loop.seen[i] = loop.all[i]
    <3>1. d = Len(s)
      BY <2>2, <2>4, <2>5 DEF Visits
    <3>2. Len(s) - d = Len(loop.all) - Len(loop.seen)
          /\ \A i \in 1..Len(loop.seen) : loop.seen[i] = loop.all[i]
      BY <2>2 DEF Visits
    <3>3. Len(loop.all) \in Nat /\ Len(loop.seen) \in Nat /\ Len(s) \in Nat
      BY <2>3, <2>4
    <3> HIDE DEF s
    <3> QED
      BY <3>1, <3>2, <3>3
  <2> QED
    BY <2>3, <2>6, SeqEqual
<1> QED
  BY <1>1, InitInv, InvStep, PTL DEF Spec, LoopSeesAll

-------------------------------------------------------------------------------
\* KSList: the cell at place i of the list of head h through the nodes s; the
\* head is at place 0 and Null behind the last node.
To(h, s, i) == IF i = 0 THEN h ELSE IF i \in 1..Len(s) THEN s[i] ELSE Null

Chain(h, s, nx) == \A i \in 0..Len(s) : nx[To(h, s, i)] = To(h, s, i + 1)

KInv ==
  /\ knext \in [Cells -> Nodes \cup {Null}] /\ klists \in [Heads -> Seq(Nodes)]
  /\ \A h \in Heads : Chain(h, klists[h], knext) /\ IsInjective(klists[h])
  /\ \A g, h \in Heads :
       g # h => \A i \in 1..Len(klists[g]), j \in 1..Len(klists[h]) : klists[g][i] # klists[h][j]

LEMMA ToIsCell ==
  ASSUME NEW h \in Heads, NEW s \in Seq(Nodes)
  PROVE  /\ \A i \in 0..Len(s) : To(h, s, i) \in Cells /\ To(h, s, i) # Null
         /\ \A i \in 1..Len(s) : To(h, s, i) = s[i] /\ s[i] \in Nodes
         /\ To(h, s, 0) = h /\ To(h, s, Len(s) + 1) = Null
         /\ \A i \in 1..(Len(s) + 1) : To(h, s, i) \in Nodes \cup {Null}
         /\ Len(s) \in Nat
<1>1. Len(s) \in Nat /\ \A i \in 1..Len(s) : s[i] \in Nodes
  OBVIOUS
<1>2. h \in Cells /\ Nodes \subseteq Cells /\ Null \notin Cells
  BY CellsAssumption DEF Cells
<1>3. \A i \in 1..Len(s) : To(h, s, i) = s[i] /\ s[i] \in Nodes
  BY <1>1 DEF To
<1>4. To(h, s, 0) = h /\ To(h, s, Len(s) + 1) = Null
  BY <1>1 DEF To
<1>5. \A i \in 0..Len(s) : i = 0 \/ i \in 1..Len(s)
  BY <1>1
<1>6. \A i \in 1..(Len(s) + 1) : i = Len(s) + 1 \/ i \in 1..Len(s)
  BY <1>1
<1> QED
  BY <1>1, <1>2, <1>3, <1>4, <1>5, <1>6

LEMMA ToTellsApart ==
  ASSUME NEW h \in Heads, NEW s \in Seq(Nodes), IsInjective(s),
         NEW i \in 0..Len(s), NEW j \in 0..Len(s), To(h, s, i) = To(h, s, j)
  PROVE  i = j
<1>1. \A k \in 1..Len(s) : s[k] # h
  BY CellsAssumption
<1>2. CASE i = 0 \/ j = 0
  BY <1>1, <1>2 DEF To
<1>3. CASE i # 0 /\ j # 0
  <2>1. i \in 1..Len(s) /\ j \in 1..Len(s)
    BY <1>3
  <2> QED
    BY <2>1 DEF To, IsInjective
<1> QED
  BY <1>2, <1>3

\* Where a walk stops: at the first cell before one of the ends.
LEMMA WalkStops ==
  ASSUME IsFiniteSet(Nodes), NEW h \in Heads, NEW s \in Seq(Nodes), IsInjective(s),
         Chain(h, s, knext), NEW ends, NEW k \in 0..Len(s), To(h, s, k + 1) \in ends,
         \A i \in 1..k : To(h, s, i) \notin ends
  PROVE  K!WalkTo(h, ends) = To(h, s, k)
<1> DEFINE N == Cardinality(Nodes)
           D == 0..N
           stop(i) == IF i <= k THEN i ELSE k
           W == [i \in D |-> To(h, s, stop(i))]
           fits(f) == f = [i \in D |-> IF i = 0 THEN h
                                       ELSE LET x == f[i - 1]
                                            IN IF knext[x] \in ends THEN x ELSE knext[x]]
           walk == CHOOSE f : fits(f)
<1>1. N \in Nat /\ Len(s) \in Nat /\ Len(s) <= N /\ k \in Nat /\ k <= Len(s)
  BY NoLonger
<1>2. ASSUME NEW i \in D, i # 0
      PROVE  LET x == To(h, s, stop(i - 1))
             IN To(h, s, stop(i)) = IF knext[x] \in ends THEN x ELSE knext[x]
  <2>1. CASE i <= k
    <3>1. i - 1 \in 0..Len(s) /\ stop(i - 1) = i - 1 /\ stop(i) = i /\ (i - 1) + 1 = i /\ i \in 1..k
      BY <1>1, <1>2, <2>1
    <3>2. knext[To(h, s, i - 1)] = To(h, s, i)
      BY <3>1 DEF Chain
    <3> QED
      BY <3>1, <3>2
  <2>2. CASE i > k
    <3>1. stop(i - 1) = k /\ stop(i) = k
      BY <1>1, <1>2, <2>2
    <3>2. knext[To(h, s, k)] = To(h, s, k + 1)
      BY DEF Chain
    <3> QED
      BY <3>1, <3>2
  <2> QED
    BY <1>1, <2>1, <2>2
<1>3. fits(W)
  <2>1. \A i \in D : W[i] = IF i = 0 THEN h
                            ELSE LET x == W[i - 1] IN IF knext[x] \in ends THEN x ELSE knext[x]
    <3> SUFFICES ASSUME NEW i \in D
                 PROVE  W[i] = IF i = 0 THEN h
                               ELSE LET x == W[i - 1] IN IF knext[x] \in ends THEN x ELSE knext[x]
      OBVIOUS
    <3>1. CASE i = 0
      BY <1>1, <3>1 DEF To
    <3>2. CASE i # 0
      <4>1. i - 1 \in D
        BY <1>1, <3>2
      <4>2. W[i - 1] = To(h, s, stop(i - 1)) /\ W[i] = To(h, s, stop(i))
        BY <4>1
      <4> HIDE DEF W, stop, D
      <4> QED
        BY <1>2, <3>2, <4>2
    <3> QED
      BY <3>1, <3>2
  <2> QED
    BY <2>1
<1>4. K!WalkTo(h, ends) = walk[N]
  <2>1. K!Cardinality(Nodes) = N
    BY DEF K!Cardinality, Cardinality
  <2> QED
    BY <2>1, Zenon DEF K!WalkTo
<1>5. fits(walk)
  <2> HIDE DEF fits, W
  <2> QED
    BY <1>3
<1> HIDE DEF walk
<1>6. \A i \in D : walk[i] = IF i = 0 THEN h
                             ELSE LET x == walk[i - 1] IN IF knext[x] \in ends THEN x ELSE knext[x]
  BY <1>5
<1>7. \A i \in D : walk[i] = W[i]
  <2> DEFINE n == N + 1
             same == {i \in D : walk[i] = W[i]}
  <2>1. n \in Nat /\ D = 0..(n - 1) /\ same \in SUBSET (0..(n - 1))
    BY <1>1
  <2>2. same = 0..(n - 1)
    <3> SUFFICES ASSUME same # 0..(n - 1) PROVE FALSE
      OBVIOUS
    <3>1. PICK i \in 0..(n - 1) : i \notin same /\ \A j \in 0..(i - 1) : j \in same
      <4> HIDE DEF n, same
      <4> QED
        BY <2>1, LeastOutside
    <3>2. i \in D /\ walk[i] # W[i]
      BY <2>1, <3>1
    <3>3. CASE i = 0
      BY <1>1, <1>6, <3>2, <3>3 DEF To
    <3>4. CASE i # 0
      <4>1. i - 1 \in D /\ i - 1 \in 0..(i - 1)
        BY <1>1, <3>2, <3>4
      <4>2. walk[i - 1] = W[i - 1]
        BY <3>1, <4>1
      <4>3. W[i - 1] = To(h, s, stop(i - 1)) /\ W[i] = To(h, s, stop(i))
        BY <3>2, <4>1
      <4> HIDE DEF W, stop, D
      <4> QED
        BY <1>2, <1>6, <3>2, <3>4, <4>2, <4>3
    <3> QED
      BY <3>3, <3>4
  <2>3. \A i \in D : i \in same
    <3> HIDE DEF n, D, same
    <3> QED
      BY <2>1, <2>2
  <2> QED
    BY <2>3
<1>8. W[N] = To(h, s, k)
  <2>1. N \in D /\ stop(N) = k
    BY <1>1
  <2> QED
    BY <2>1
<1>9. walk[N] = W[N]
  <2>1. N \in D
    BY <1>1
  <2> HIDE DEF W
  <2> QED
    BY <1>7, <2>1
<1> QED
  BY <1>4, <1>8, <1>9

LEMMA KLinkedIs ==
  ASSUME KInv, NEW n
  PROVE  n \in K!Linked <=> \E h \in Heads : \E i \in 1..Len(klists[h]) : klists[h][i] = n
<1>1. \A h \in Heads : DOMAIN klists[h] = 1..Len(klists[h])
  BY DEF KInv
<1> QED
  BY <1>1 DEF K!Linked, K!ToSet

\* What a call does to one list leaves the others alone.
LEMMA KOthers ==
  ASSUME KInv, NEW h \in Heads, NEW n, n \notin K!Linked, n \notin Heads,
         NEW g \in Heads, g # h,
         \A c \in Cells : c # n /\ (\A i \in 0..Len(klists[h]) : c # To(h, klists[h], i))
                            => knext'[c] = knext[c]
  PROVE  Chain(g, klists[g], knext')
<1> SUFFICES ASSUME NEW i \in 0..Len(klists[g])
             PROVE  knext'[To(g, klists[g], i)] = knext[To(g, klists[g], i)]
  BY DEF KInv, Chain
<1> DEFINE c == To(g, klists[g], i)
<1>1. klists[g] \in Seq(Nodes) /\ klists[h] \in Seq(Nodes)
  BY DEF KInv
<1>2. c \in Cells /\ (c = g \/ \E j \in 1..Len(klists[g]) : c = klists[g][j])
  <2>1. i = 0 \/ i \in 1..Len(klists[g])
    BY <1>1
  <2> QED
    BY <1>1, <2>1, ToIsCell DEF To
<1>3. c # n
  BY <1>2, KLinkedIs
<1>4. ASSUME NEW k \in 0..Len(klists[h]) PROVE c # To(h, klists[h], k)
  <2>1. k = 0 \/ k \in 1..Len(klists[h])
    BY <1>1
  <2>2. \A j \in 1..Len(klists[g]) : klists[g][j] \in Nodes
    BY <1>1
  <2>3. \A j \in 1..Len(klists[h]) : klists[h][j] \in Nodes /\ To(h, klists[h], j) = klists[h][j]
    BY <1>1, ToIsCell
  <2>4. To(h, klists[h], 0) = h
    BY DEF To
  <2>5. \A x \in Nodes : x # g /\ x # h
    BY CellsAssumption
  <2> HIDE DEF c
  <2>6. CASE k = 0
    BY <1>2, <2>2, <2>4, <2>5, <2>6
  <2>7. CASE k \in 1..Len(klists[h])
    BY <1>2, <2>3, <2>5, <2>7 DEF KInv
  <2> QED
    BY <2>1, <2>6, <2>7
<1> QED
  BY <1>2, <1>3, <1>4

\* A list that has become t, of its own nodes and perhaps a new one.
LEMMA KReplaced ==
  ASSUME KInv, NEW h \in Heads, NEW n, n \notin K!Linked, n \notin Heads, NEW t \in Seq(Nodes),
         klists' = [klists EXCEPT ![h] = t],
         knext' \in [Cells -> Nodes \cup {Null}],
         Chain(h, t, knext'), IsInjective(t),
         \A i \in 1..Len(t) : t[i] = n \/ \E j \in 1..Len(klists[h]) : t[i] = klists[h][j],
         \A c \in Cells : c # n /\ (\A i \in 0..Len(klists[h]) : c # To(h, klists[h], i))
                            => knext'[c] = knext[c]
  PROVE  KInv'
<1>1. klists \in [Heads -> Seq(Nodes)] /\ klists'[h] = t
      /\ \A g \in Heads : g # h => klists'[g] = klists[g]
  BY DEF KInv
<1>2. klists' \in [Heads -> Seq(Nodes)]
  BY <1>1
<1>3. ASSUME NEW g \in Heads PROVE Chain(g, klists'[g], knext') /\ IsInjective(klists'[g])
  <2>1. CASE g = h
    BY <1>1, <2>1
  <2>2. CASE g # h
    <3>1. Chain(g, klists[g], knext')
      BY <2>2, KOthers
    <3> QED
      BY <1>1, <2>2, <3>1 DEF KInv
  <2> QED
    BY <2>1, <2>2
<1>4. ASSUME NEW g \in Heads, NEW f \in Heads, g # f,
             NEW i \in 1..Len(klists'[g]), NEW j \in 1..Len(klists'[f])
      PROVE  klists'[g][i] # klists'[f][j]
  <2>1. \A e \in Heads : \A k \in 1..Len(klists[e]) : klists[e][k] # n
    BY KLinkedIs
  <2>2. \A e \in Heads : e # h => \A k \in 1..Len(klists[e]), m \in 1..Len(t) : klists[e][k] # t[m]
    BY <2>1 DEF KInv
  <2>3. CASE g = h
    BY <1>1, <1>4, <2>2, <2>3
  <2>4. CASE f = h
    BY <1>1, <1>4, <2>2, <2>4
  <2>5. CASE g # h /\ f # h
    BY <1>1, <1>4, <2>5 DEF KInv
  <2> QED
    BY <2>3, <2>4, <2>5
<1>5. KInv'
  <2>1. \A g \in Heads : Chain(g, klists'[g], knext')
    BY <1>3
  <2>2. \A g \in Heads : Chain(g, klists[g], knext)'
    BY <2>1 DEF Chain, To
  <2> QED
    BY <1>2, <1>3, <1>4, <2>2 DEF KInv
<1> QED
  BY <1>5

\* Linking n at place k + 1, as the push calls do.
LEMMA KPush ==
  ASSUME KInv, NEW h \in Heads, NEW n \in Nodes, n \notin K!Linked,
         NEW k \in 0..Len(klists[h]), NEW t \in Seq(Nodes), Inserted(klists[h], k, n, t),
         klists' = [klists EXCEPT ![h] = t],
         knext' = [knext EXCEPT ![To(h, klists[h], k)] = n, ![n] = To(h, klists[h], k + 1)]
  PROVE  KInv'
<1> DEFINE s == klists[h]
           m == Len(s)
           a(i) == To(h, s, i)
           b(i) == To(h, t, i)
<1>1. /\ s \in Seq(Nodes) /\ IsInjective(s) /\ m \in Nat /\ k \in 0..m /\ Len(t) = m + 1
      /\ n \in Cells /\ n # h /\ n \notin Heads /\ n # Null
      /\ knext \in [Cells -> Nodes \cup {Null}] /\ Chain(h, s, knext)
  BY CellsAssumption DEF KInv, Cells, Inserted
<1>2. ASSUME NEW i \in 0..(m + 2)
      PROVE  b(i) = IF i <= k THEN a(i) ELSE IF i = k + 1 THEN n ELSE a(i - 1)
  <2>1. \A j \in 1..(m + 1) : t[j] = IF j <= k THEN s[j] ELSE IF j = k + 1 THEN n ELSE s[j - 1]
    BY <1>1 DEF Inserted
  <2>2. m \in Nat /\ k \in 0..m /\ Len(t) = m + 1
    BY <1>1
  <2> QED
    BY <2>1, <2>2 DEF To
<1>3. ASSUME NEW i \in 1..m PROVE s[i] # n
  BY KLinkedIs
<1>4. ASSUME NEW i \in 0..m PROVE a(i) \in Cells /\ a(i) # n
  <2>1. a(i) \in Cells
    BY <1>1, ToIsCell
  <2>2. i = 0 \/ i \in 1..m
    BY <1>1
  <2> QED
    BY <1>1, <1>3, <2>1, <2>2 DEF To
<1>5. ASSUME NEW i \in 0..m, NEW j \in 0..m, a(i) = a(j) PROVE i = j
  BY <1>1, <1>5, ToTellsApart
<1>6. \A i \in 0..m : knext[a(i)] = a(i + 1)
  BY <1>1 DEF Chain
<1>7. a(k + 1) \in Nodes \cup {Null}
  BY <1>1, ToIsCell
<1>8. IsInjective(t) /\ \A i \in 1..Len(t) : t[i] = n \/ \E j \in 1..m : t[i] = s[j]
  <2> HIDE DEF s
  <2>1. s \in Seq(Nodes) /\ k \in 0..Len(s) /\ Inserted(s, k, n, t) /\ IsInjective(s)
        /\ \A i \in 1..Len(s) : s[i] # n
    BY <1>1, <1>3 DEF s
  <2>2. IsInjective(t) /\ \A i \in 1..Len(t) : t[i] = n \/ \E j \in 1..Len(s) : t[i] = s[j]
    BY <2>1, InsertedHolds
  <2> QED
    BY <2>2
<1>9. knext' = [knext EXCEPT ![a(k)] = n, ![n] = a(k + 1)]
  OBVIOUS
<1> HIDE DEF a, b, m
<1>10. /\ knext' \in [Cells -> Nodes \cup {Null}] /\ a(k) # n /\ a(k) \in Cells
       /\ knext'[a(k)] = n /\ knext'[n] = a(k + 1)
       /\ \A c \in Cells : c # n /\ c # a(k) => knext'[c] = knext[c]
  <2>1. a(k) # n /\ a(k) \in Cells
    BY <1>1, <1>4
  <2> QED
    BY <1>1, <1>7, <1>9, <2>1
<1>11. ASSUME NEW i \in 0..(m + 1) PROVE knext'[b(i)] = b(i + 1)
  <2>1. CASE i < k
    <3>1. b(i) = a(i) /\ b(i + 1) = a(i + 1) /\ i \in 0..m
      BY <1>1, <1>2, <2>1
    <3>2. a(i) # a(k)
      BY <1>1, <1>5, <2>1, <3>1
    <3> QED
      BY <1>4, <1>6, <1>10, <3>1, <3>2
  <2>2. CASE i = k
    BY <1>1, <1>2, <1>10, <2>2
  <2>3. CASE i = k + 1
    BY <1>1, <1>2, <1>10, <2>3
  <2>4. CASE i > k + 1
    <3>1. b(i) = a(i - 1) /\ b(i + 1) = a(i) /\ i - 1 \in 0..m /\ (i - 1) + 1 = i
      BY <1>1, <1>2, <2>4
    <3>2. a(i - 1) # a(k)
      BY <1>1, <1>5, <2>4, <3>1
    <3> QED
      BY <1>4, <1>6, <1>10, <3>1, <3>2
  <2> QED
    BY <1>1, <2>1, <2>2, <2>3, <2>4
<1>12. Chain(h, t, knext')
  BY <1>1, <1>11 DEF Chain, b
<1>13. \A c \in Cells : c # n /\ (\A i \in 0..Len(klists[h]) : c # To(h, klists[h], i))
                          => knext'[c] = knext[c]
  BY <1>1, <1>10 DEF a, m
<1> HIDE DEF s
<1>14. \A i \in 1..Len(t) : t[i] = n \/ \E j \in 1..Len(klists[h]) : t[i] = klists[h][j]
  BY <1>8 DEF s, m
<1> QED
  BY <1>1, <1>8, <1>10, <1>12, <1>13, <1>14, KReplaced

\* Bypassing the node at place k, as the two pop calls do.
LEMMA KPop ==
  ASSUME KInv, NEW h \in Heads, NEW k \in 1..Len(klists[h]),
         NEW t \in Seq(Nodes), Removed(klists[h], k, t),
         klists' = [klists EXCEPT ![h] = t],
         knext' = [knext EXCEPT ![To(h, klists[h], k - 1)] = To(h, klists[h], k + 1)]
  PROVE  KInv'
<1> DEFINE s == klists[h]
           m == Len(s)
           a(i) == To(h, s, i)
           b(i) == To(h, t, i)
<1>1. /\ s \in Seq(Nodes) /\ IsInjective(s) /\ m \in Nat /\ k \in 1..m /\ Len(t) = m - 1
      /\ knext \in [Cells -> Nodes \cup {Null}] /\ Chain(h, s, knext)
      /\ Null \notin Heads /\ Null \notin K!Linked
  <2>1. Null \notin Heads /\ Null \notin Nodes
    BY CellsAssumption DEF Cells
  <2>2. \A g \in Heads : \A i \in 1..Len(klists[g]) : klists[g][i] \in Nodes
    BY DEF KInv
  <2>3. Null \notin K!Linked
    BY <2>1, <2>2, KLinkedIs
  <2> QED
    BY <2>1, <2>3 DEF KInv, Removed
<1>2. ASSUME NEW i \in 0..m PROVE b(i) = IF i < k THEN a(i) ELSE a(i + 1)
  BY <1>1 DEF To, Removed
<1>3. ASSUME NEW i \in 0..m PROVE a(i) \in Cells
  BY <1>1, ToIsCell
<1>4. ASSUME NEW i \in 0..m, NEW j \in 0..m, a(i) = a(j) PROVE i = j
  BY <1>1, <1>4, ToTellsApart
<1>5. \A i \in 0..m : knext[a(i)] = a(i + 1)
  BY <1>1 DEF Chain
<1>6. k + 1 \in 1..(m + 1) /\ a(k + 1) \in Nodes \cup {Null}
  BY <1>1, ToIsCell
<1>7. IsInjective(t) /\ \A i \in 1..Len(t) : t[i] = Null \/ \E j \in 1..m : t[i] = s[j]
  <2> HIDE DEF s
  <2>1. s \in Seq(Nodes) /\ k \in 1..Len(s) /\ Removed(s, k, t) /\ IsInjective(s)
    BY <1>1 DEF s
  <2>2. IsInjective(t) /\ \A i \in 1..Len(t) : \E j \in 1..Len(s) : t[i] = s[j]
    BY <2>1, RemovedHolds
  <2> QED
    BY <2>2
<1>8. knext' = [knext EXCEPT ![a(k - 1)] = a(k + 1)]
  OBVIOUS
<1> HIDE DEF a, b, m
<1>9. k - 1 \in 0..m /\ (k - 1) + 1 = k
  BY <1>1
<1>10. /\ knext' \in [Cells -> Nodes \cup {Null}] /\ knext'[a(k - 1)] = a(k + 1)
       /\ \A c \in Cells : c # a(k - 1) => knext'[c] = knext[c]
  BY <1>1, <1>3, <1>6, <1>8, <1>9
<1>11. ASSUME NEW i \in 0..(m - 1) PROVE knext'[b(i)] = b(i + 1)
  <2>1. CASE i < k - 1
    <3>1. i \in 0..m /\ i + 1 \in 0..m /\ i < k /\ i + 1 < k /\ i # k - 1
      BY <1>1, <2>1
    <3>2. b(i) = a(i) /\ b(i + 1) = a(i + 1)
      BY <1>2, <3>1
    <3> QED
      BY <3>2, <1>3, <1>4, <1>5, <1>9, <1>10, <3>1
  <2>2. CASE i = k - 1
    BY <1>1, <1>2, <1>10, <2>2
  <2>3. CASE i > k - 1
    <3>1. b(i) = a(i + 1) /\ b(i + 1) = a((i + 1) + 1) /\ i + 1 \in 0..m /\ i + 1 # k - 1
      BY <1>1, <1>2, <2>3
    <3> QED
      BY <1>3, <1>4, <1>5, <1>9, <1>10, <3>1
  <2> QED
    BY <1>1, <2>1, <2>2, <2>3
<1>12. Chain(h, t, knext')
  BY <1>1, <1>11 DEF Chain, b
<1>13. \A c \in Cells : c # Null /\ (\A i \in 0..Len(klists[h]) : c # To(h, klists[h], i))
                          => knext'[c] = knext[c]
  BY <1>9, <1>10 DEF a, m
<1> HIDE DEF s
<1>14. \A i \in 1..Len(t) : t[i] = Null \/ \E j \in 1..Len(klists[h]) : t[i] = klists[h][j]
  BY <1>7 DEF s, m
<1> QED
  BY <1>1, <1>7, <1>10, <1>12, <1>13, <1>14, KReplaced

\* new in the place of the node at place k, as kslist_replace does.
LEMMA KRelink ==
  ASSUME KInv, NEW h \in Heads, NEW k \in 1..Len(klists[h]), NEW n \in Nodes, n \notin K!Linked,
         NEW t \in Seq(Nodes), Len(t) = Len(klists[h]),
         \A i \in 1..Len(t) : t[i] = IF i = k THEN n ELSE klists[h][i],
         klists' = [klists EXCEPT ![h] = t],
         knext' = [knext EXCEPT ![n] = To(h, klists[h], k + 1), ![To(h, klists[h], k - 1)] = n]
  PROVE  KInv'
<1> DEFINE s == klists[h]
           m == Len(s)
           a(i) == To(h, s, i)
           b(i) == To(h, t, i)
<1>1. /\ s \in Seq(Nodes) /\ IsInjective(s) /\ m \in Nat /\ k \in 1..m /\ Len(t) = m
      /\ n \in Cells /\ n # h /\ n \notin Heads
      /\ knext \in [Cells -> Nodes \cup {Null}] /\ Chain(h, s, knext)
  BY CellsAssumption DEF KInv, Cells
<1>2. ASSUME NEW i \in 0..(m + 1) PROVE b(i) = IF i = k THEN n ELSE a(i)
  BY <1>1 DEF To
<1>3. ASSUME NEW i \in 1..m PROVE s[i] # n
  BY KLinkedIs
<1>4. ASSUME NEW i \in 0..m PROVE a(i) \in Cells /\ a(i) # n
  <2>1. a(i) \in Cells
    BY <1>1, ToIsCell
  <2>2. i = 0 \/ i \in 1..m
    BY <1>1
  <2> QED
    BY <1>1, <1>3, <2>1, <2>2 DEF To
<1>5. ASSUME NEW i \in 0..m, NEW j \in 0..m, a(i) = a(j) PROVE i = j
  BY <1>1, <1>5, ToTellsApart
<1>6. \A i \in 0..m : knext[a(i)] = a(i + 1)
  BY <1>1 DEF Chain
<1>7. k + 1 \in 1..(m + 1) /\ a(k + 1) \in Nodes \cup {Null}
  BY <1>1, ToIsCell
<1>8. IsInjective(t)
  <2>0. DOMAIN t = 1..m
    BY <1>1
  <2> SUFFICES ASSUME NEW i \in 1..m, NEW j \in 1..m, t[i] = t[j] PROVE i = j
    BY <2>0, Zenon DEF IsInjective
  <2>1. t[i] = (IF i = k THEN n ELSE s[i]) /\ t[j] = (IF j = k THEN n ELSE s[j])
    BY <1>1
  <2>2. s[i] = s[j] => i = j
    BY <1>1 DEF IsInjective
  <2> QED
    BY <1>3, <2>1, <2>2
<1>9. \A i \in 1..Len(t) : t[i] = n \/ \E j \in 1..m : t[i] = s[j]
  BY <1>1
<1>10. knext' = [knext EXCEPT ![n] = a(k + 1), ![a(k - 1)] = n]
  OBVIOUS
<1> HIDE DEF a, b, m
<1>11. k - 1 \in 0..m /\ (k - 1) + 1 = k
  BY <1>1
<1>12. /\ knext' \in [Cells -> Nodes \cup {Null}]
       /\ knext'[a(k - 1)] = n /\ knext'[n] = a(k + 1)
       /\ \A c \in Cells : c # n /\ c # a(k - 1) => knext'[c] = knext[c]
  <2>1. a(k - 1) # n /\ a(k - 1) \in Cells
    BY <1>4, <1>11
  <2>2. n \in Nodes /\ n \in Cells /\ knext \in [Cells -> Nodes \cup {Null}]
    BY <1>1
  <2> QED
    BY <1>7, <1>10, <2>1, <2>2
<1>13. ASSUME NEW i \in 0..m PROVE knext'[b(i)] = b(i + 1)
  <2>1. CASE i = k - 1
    <3>1. b(i) = a(k - 1) /\ b(i + 1) = n
      BY <1>1, <1>2, <2>1
    <3> QED
      BY <1>12, <3>1
  <2>2. CASE i = k
    <3>1. b(i) = n /\ b(i + 1) = a(k + 1)
      BY <1>1, <1>2, <2>2
    <3> QED
      BY <1>12, <3>1
  <2>3. CASE i # k - 1 /\ i # k
    <3>1. b(i) = a(i) /\ i + 1 # k /\ i + 1 \in 0..(m + 1)
      BY <1>1, <1>2, <2>3
    <3>2. a(i) # a(k - 1)
      BY <1>5, <1>11, <2>3
    <3>3. b(i + 1) = a(i + 1)
      BY <1>2, <3>1
    <3> QED
      BY <1>4, <1>6, <1>12, <3>1, <3>2, <3>3
  <2> QED
    BY <2>1, <2>2, <2>3
<1>14. Chain(h, t, knext')
  BY <1>1, <1>13 DEF Chain, b
<1>15. \A c \in Cells : c # n /\ (\A i \in 0..Len(klists[h]) : c # To(h, klists[h], i))
                          => knext'[c] = knext[c]
  BY <1>11, <1>12 DEF a, m
<1> HIDE DEF s
<1>16. \A i \in 1..Len(t) : t[i] = n \/ \E j \in 1..Len(klists[h]) : t[i] = klists[h][j]
  BY <1>9 DEF s, m
<1> QED
  BY <1>1, <1>8, <1>12, <1>14, <1>15, <1>16, KReplaced

\* The walks of the calls: to the last cell, and to the cell before place k.
LEMMA KWalks ==
  ASSUME IsFiniteSet(Nodes), KInv, NEW h \in Heads
  PROVE  /\ K!LastCell(h) = To(h, klists[h], Len(klists[h]))
         /\ \A k \in 1..Len(klists[h]) : K!Before(h, klists[h][k]) = To(h, klists[h], k - 1)
<1> DEFINE s == klists[h]
           m == Len(s)
<1>1. s \in Seq(Nodes) /\ IsInjective(s) /\ m \in Nat /\ Chain(h, s, knext)
  BY DEF KInv
<1>2. \A i \in 0..m : To(h, s, i) # Null
  BY <1>1, ToIsCell
<1>3. To(h, s, m + 1) = Null /\ \A i \in 1..m : To(h, s, i) = s[i]
  BY <1>1, ToIsCell
<1>4. ASSUME NEW i \in 0..m, NEW j \in 0..m, To(h, s, i) = To(h, s, j) PROVE i = j
  BY <1>1, <1>4, ToTellsApart
<1> HIDE DEF s
<1>5. K!LastCell(h) = To(h, s, m)
  <2>1. m \in 0..m /\ To(h, s, m + 1) \in {Null} /\ \A i \in 1..m : To(h, s, i) \notin {Null}
    BY <1>1, <1>2, <1>3
  <2>2. K!WalkTo(h, {Null}) = To(h, s, m)
    BY <1>1, <2>1, WalkStops
  <2> QED
    BY <2>2 DEF K!LastCell
<1>6. ASSUME NEW k \in 1..m PROVE K!Before(h, s[k]) = To(h, s, k - 1)
  <2>1. k - 1 \in 0..m /\ (k - 1) + 1 = k /\ To(h, s, k) = s[k] /\ k \in 0..m
    BY <1>1, <1>3
  <2>2. ASSUME NEW i \in 1..(k - 1) PROVE To(h, s, i) \notin {s[k], Null}
    <3>1. i \in 0..m /\ i # k
      BY <1>1, <2>1
    <3> QED
      BY <1>2, <1>4, <2>1, <3>1
  <2>3. K!WalkTo(h, {s[k], Null}) = To(h, s, k - 1)
    BY <1>1, <2>1, <2>2, WalkStops
  <2> QED
    BY <2>3 DEF K!Before
<1> QED
  BY <1>5, <1>6 DEF s

LEMMA KEmptyIs ==
  ASSUME KInv, NEW h \in Heads
  PROVE  K!Empty(h) <=> Len(klists[h]) = 0
<1>1. klists[h] \in Seq(Nodes) /\ Len(klists[h]) \in Nat /\ Chain(h, klists[h], knext)
  BY DEF KInv
<1>2. knext[h] = To(h, klists[h], 1)
  <2>1. knext[To(h, klists[h], 0)] = To(h, klists[h], 0 + 1) /\ 0 + 1 = 1
    BY <1>1 DEF Chain
  <2> QED
    BY <2>1 DEF To
<1>3. Null \notin Nodes
  BY CellsAssumption DEF Cells
<1> QED
  BY <1>1, <1>2, <1>3 DEF To, K!Empty

LEMMA KPushStep ==
  ASSUME IsFiniteSet(Nodes), KInv, NEW h \in Heads, NEW n \in Nodes,
         K!PushHead(h, n) \/ K!PushTail(h, n)
  PROVE  KInv'
<1> DEFINE s == klists[h]
           m == Len(s)
<1>1. /\ s \in Seq(Nodes) /\ m \in Nat /\ Chain(h, s, knext)
      /\ knext \in [Cells -> Nodes \cup {Null}] /\ n \in Cells /\ h \in Cells /\ n # h
  BY CellsAssumption DEF KInv, Cells
<1>2. To(h, s, 0) = h /\ To(h, s, m + 1) = Null
  BY <1>1, ToIsCell
<1>3. CASE K!PushHead(h, n)
  <2> DEFINE t == <<n>> \o s
  <2>1. t \in Seq(Nodes) /\ Inserted(s, 0, n, t)
    BY <1>1, InsertedFirst
  <2>2. n \notin K!Linked /\ klists' = [klists EXCEPT ![h] = t]
        /\ knext' = [knext EXCEPT ![n] = knext[h], ![h] = n]
    BY <1>3 DEF K!PushHead
  <2>3. knext[h] = To(h, s, 0 + 1) /\ 0 \in 0..m
    BY <1>1, <1>2 DEF Chain
  <2> HIDE DEF t, s
  <2>4. knext' = [knext EXCEPT ![To(h, s, 0)] = n, ![n] = To(h, s, 0 + 1)]
    BY <1>1, <1>2, <2>2, <2>3
  <2> QED
    BY <2>1, <2>2, <2>3, <2>4, KPush DEF s
<1>4. CASE K!PushTail(h, n)
  <2> DEFINE t == Append(s, n)
  <2>1. t \in Seq(Nodes) /\ Inserted(s, m, n, t)
    BY <1>1, InsertedLast
  <2>2. n \notin K!Linked /\ klists' = [klists EXCEPT ![h] = t]
        /\ knext' = [knext EXCEPT ![To(h, s, m)] = n, ![n] = To(h, s, m + 1)]
    BY <1>2, <1>4, KWalks DEF K!PushTail
  <2>3. m \in 0..m
    BY <1>1
  <2> HIDE DEF t, s
  <2> QED
    BY <2>1, <2>2, <2>3, KPush DEF s
<1> QED
  BY <1>3, <1>4

LEMMA KPushAfterStep ==
  ASSUME KInv, NEW h \in Heads, NEW n \in Nodes, NEW base \in Cells, K!PushAfter(h, base, n)
  PROVE  KInv'
<1> DEFINE s == klists[h]
           k == IF base = h THEN 0 ELSE CHOOSE i \in 1..Len(s) : s[i] = base
           t == InsertAt(s, k + 1, n)
<1>1. /\ s \in Seq(Nodes) /\ Len(s) \in Nat /\ Chain(h, s, knext)
      /\ knext \in [Cells -> Nodes \cup {Null}] /\ n \in Cells /\ h \in Cells
  BY DEF KInv, Cells
<1>2. k \in 0..Len(s) /\ To(h, s, k) = base
  <2>1. CASE base = h
    BY <1>1, <2>1 DEF To
  <2>2. CASE base # h
    <3>1. \E i \in 1..Len(s) : s[i] = base
      BY <1>1, <2>2 DEF K!PushAfter, K!ToSet
    <3>2. k \in 1..Len(s) /\ s[k] = base
      BY <2>2, <3>1
    <3> HIDE DEF k
    <3>3. To(h, s, k) = s[k] /\ k \in 0..Len(s)
      BY <1>1, <3>2, ToIsCell
    <3> QED
      BY <3>2, <3>3
  <2> QED
    BY <2>1, <2>2
<1>3. n \notin K!Linked /\ klists' = [klists EXCEPT ![h] = t]
      /\ knext' = [knext EXCEPT ![n] = knext[base], ![base] = n]
  BY DEF K!PushAfter, K!InsertAt, InsertAt
<1>4. n # base
  <2>1. base \in K!Linked \/ base = h
    BY DEF K!PushAfter, K!Linked
  <2> QED
    BY <1>3, <2>1, CellsAssumption
<1> HIDE DEF k
<1>5. t \in Seq(Nodes) /\ Inserted(s, k, n, t)
  BY <1>1, <1>2, InsertedAnywhere
<1>6. knext[base] = To(h, s, k + 1)
  BY <1>1, <1>2 DEF Chain
<1> HIDE DEF s, t
<1>7. knext' = [knext EXCEPT ![To(h, s, k)] = n, ![n] = To(h, s, k + 1)]
  BY <1>1, <1>2, <1>3, <1>4, <1>6
<1> QED
  BY <1>2, <1>3, <1>5, <1>7, KPush DEF s

LEMMA KPopStep ==
  ASSUME IsFiniteSet(Nodes), KInv, NEW h \in Heads, K!PopHead(h) \/ K!PopTail(h)
  PROVE  KInv'
<1> DEFINE s == klists[h]
           m == Len(s)
<1>1. s \in Seq(Nodes) /\ m \in Nat /\ Chain(h, s, knext) /\ m # 0 /\ IsInjective(s)
  BY KEmptyIs DEF KInv, K!PopHead, K!PopTail
<1>2. To(h, s, 0) = h /\ To(h, s, m + 1) = Null /\ \A i \in 1..m : To(h, s, i) = s[i]
  BY <1>1, ToIsCell
<1>3. CASE K!PopHead(h)
  <2> DEFINE t == Tail(s)
  <2>1. t \in Seq(Nodes) /\ Removed(s, 1, t)
    BY <1>1, RemovedFirst
  <2>2. klists' = [klists EXCEPT ![h] = t] /\ knext' = [knext EXCEPT ![h] = knext[knext[h]]]
    BY <1>3 DEF K!PopHead
  <2>3. 1 \in 1..m /\ 0 \in 0..m /\ 1 \in 0..m /\ 0 + 1 = 1 /\ 1 - 1 = 0
    BY <1>1
  <2>4. knext[To(h, s, 0)] = To(h, s, 0 + 1) /\ knext[To(h, s, 1)] = To(h, s, 1 + 1)
    BY <1>1, <2>3 DEF Chain
  <2> HIDE DEF t, s
  <2>5. knext' = [knext EXCEPT ![To(h, s, 1 - 1)] = To(h, s, 1 + 1)]
    BY <1>2, <2>2, <2>3, <2>4
  <2> QED
    BY <2>1, <2>2, <2>3, <2>5, KPop DEF s
<1>4. CASE K!PopTail(h)
  <2> DEFINE t == Front(s)
  <2>1. t \in Seq(Nodes) /\ Removed(s, m, t)
    BY <1>1, RemovedLast
  <2>2. klists' = [klists EXCEPT ![h] = t] /\ knext' = [knext EXCEPT ![K!Before(h, K!LastCell(h))] = Null]
    BY <1>4 DEF K!PopTail, K!Front, Front
  <2>3. m \in 1..m
    BY <1>1
  <2>4. K!LastCell(h) = s[m] /\ K!Before(h, s[m]) = To(h, s, m - 1)
    BY <1>2, <2>3, KWalks
  <2> HIDE DEF t, s
  <2>5. knext' = [knext EXCEPT ![To(h, s, m - 1)] = To(h, s, m + 1)]
    BY <1>2, <2>2, <2>4
  <2> QED
    BY <2>1, <2>2, <2>3, <2>5, KPop DEF s
<1> QED
  BY <1>3, <1>4

LEMMA KReplaceStep ==
  ASSUME IsFiniteSet(Nodes), KInv, NEW h \in Heads, NEW old \in Nodes, NEW new \in Nodes,
         K!Replace(h, old, new)
  PROVE  KInv'
<1> DEFINE s == klists[h]
           t == [i \in DOMAIN s |-> IF s[i] = old THEN new ELSE s[i]]
<1>1. s \in Seq(Nodes) /\ Len(s) \in Nat /\ Chain(h, s, knext) /\ IsInjective(s) /\ DOMAIN s = 1..Len(s)
  BY DEF KInv
<1>2. new \notin K!Linked /\ klists' = [klists EXCEPT ![h] = t]
      /\ knext' = [knext EXCEPT ![new] = knext[old], ![K!Before(h, old)] = new]
  BY DEF K!Replace
<1>3. PICK k \in 1..Len(s) : s[k] = old
  BY <1>1 DEF K!Replace, K!ToSet
<1>4. t \in Seq(Nodes) /\ Len(t) = Len(s) /\ \A i \in 1..Len(t) : t[i] = IF i = k THEN new ELSE s[i]
  <2>1. \A i \in 1..Len(s) : s[i] = old <=> i = k
    BY <1>1, <1>3 DEF IsInjective
  <2>2. t \in [1..Len(s) -> Nodes]
    BY <1>1
  <2>3. t \in Seq(Nodes) /\ Len(t) = Len(s)
    BY <1>1, <2>2
  <2> QED
    BY <1>1, <2>1, <2>3
<1>5. K!Before(h, old) = To(h, s, k - 1)
  BY <1>3, KWalks
<1>6. knext[old] = To(h, s, k + 1)
  <2>1. k \in 0..Len(s) /\ To(h, s, k) = old
    BY <1>1, <1>3, ToIsCell
  <2> QED
    BY <1>1, <2>1 DEF Chain
<1> HIDE DEF t, s
<1>7. knext' = [knext EXCEPT ![new] = To(h, s, k + 1), ![To(h, s, k - 1)] = new]
  BY <1>2, <1>5, <1>6
<1> QED
  BY <1>2, <1>4, <1>7, KRelink DEF s

LEMMA KInvStep ==
  ASSUME IsFiniteSet(Nodes), KInv, [K!Next]_(K!vars)
  PROVE  KInv'
<1>1. CASE UNCHANGED K!vars
  BY <1>1 DEF KInv, Chain, To, K!vars
<1>2. CASE K!Next
  <2> PICK h \in Heads :
         \/ K!PopHead(h) \/ K!PopTail(h)
         \/ \E n \in Nodes :
              \/ K!PushHead(h, n) \/ K!PushTail(h, n)
              \/ \E x \in Cells : K!PushAfter(h, x, n)
              \/ \E x \in Nodes : K!Replace(h, x, n) \/ K!ReplaceFails(h, x, n)
    BY <1>2 DEF K!Next, K!Cells, Cells
  <2>1. ASSUME K!PopHead(h) \/ K!PopTail(h) PROVE KInv'
    BY <2>1, KPopStep
  <2>2. ASSUME NEW n \in Nodes, K!PushHead(h, n) \/ K!PushTail(h, n) PROVE KInv'
    BY <2>2, KPushStep
  <2>3. ASSUME NEW n \in Nodes, NEW x \in Cells, K!PushAfter(h, x, n) PROVE KInv'
    BY <2>3, KPushAfterStep
  <2>4. ASSUME NEW n \in Nodes, NEW x \in Nodes, K!Replace(h, x, n) PROVE KInv'
    BY <2>4, KReplaceStep
  <2>5. ASSUME NEW n \in Nodes, NEW x \in Nodes, K!ReplaceFails(h, x, n) PROVE KInv'
    BY <2>5 DEF KInv, Chain, To, K!ReplaceFails, K!vars
  <2> QED
    BY <2>1, <2>2, <2>3, <2>4, <2>5
<1> QED
  BY <1>1, <1>2

\* ksingly_linked_list.c, 20 to 216: after any sequence of calls the links of
\* every list lead from the head through its nodes to Null, and no node is in
\* two lists, whatever link it brought along when it was pushed.
THEOREM SingleLinksLead == ASSUME IsFiniteSet(Nodes) PROVE K!Spec => []K!Represents
<1>1. K!Init => KInv
  BY CellsAssumption DEF K!Init, KInv, Chain, To, K!Cells, Cells, IsInjective
<1>2. KInv => K!Represents
  <2> SUFFICES ASSUME KInv, NEW h \in Heads
               PROVE  LET cells == <<h>> \o klists[h]
                      IN /\ \A i \in 1..Len(klists[h]) : knext[cells[i]] = cells[i + 1]
                         /\ knext[K!Last(cells)] = Null
                         /\ K!IsInjective(cells)
                         /\ \A g \in Heads \ {h} : K!ToSet(klists[g]) \cap K!ToSet(klists[h]) = {}
    BY DEF K!Represents
  <2> DEFINE s == klists[h]
             cells == <<h>> \o s
  <2>1. s \in Seq(Nodes) /\ Len(s) \in Nat /\ IsInjective(s) /\ Chain(h, s, knext)
    BY DEF KInv
  <2>2. /\ cells \in Seq(Cells) /\ Len(cells) = Len(s) + 1
        /\ \A i \in 1..(Len(s) + 1) : cells[i] = To(h, s, i - 1)
    <3>1. <<h>> \in Seq(Cells) /\ s \in Seq(Cells) /\ Len(<<h>>) = 1 /\ <<h>>[1] = h
      BY <2>1 DEF Cells
    <3>2. /\ cells \in Seq(Cells) /\ Len(cells) = 1 + Len(s)
          /\ \A i \in 1..(1 + Len(s)) : cells[i] = IF i <= 1 THEN <<h>>[i] ELSE s[i - 1]
      BY <3>1, ConcatProperties
    <3> QED
      BY <2>1, <3>1, <3>2 DEF To
  <2> HIDE DEF cells
  <2>3. ASSUME NEW i \in 1..Len(s) PROVE knext[cells[i]] = cells[i + 1]
    <3>1. i - 1 \in 0..Len(s) /\ (i - 1) + 1 = i /\ (i + 1) - 1 = i
      BY <2>1
    <3>2. knext[To(h, s, i - 1)] = To(h, s, (i - 1) + 1)
      BY <2>1, <3>1 DEF Chain
    <3> QED
      BY <2>1, <2>2, <3>1, <3>2
  <2>4. knext[K!Last(cells)] = Null
    <3>1. K!Last(cells) = To(h, s, Len(s)) /\ Len(s) \in 0..Len(s)
      BY <2>1, <2>2 DEF K!Last
    <3>2. knext[To(h, s, Len(s))] = To(h, s, Len(s) + 1)
      BY <2>1, <3>1 DEF Chain
    <3> QED
      BY <2>1, <3>1, <3>2, ToIsCell
  <2>5. K!IsInjective(cells)
    <3> SUFFICES ASSUME NEW i \in 1..Len(cells), NEW j \in 1..Len(cells), cells[i] = cells[j] PROVE i = j
      BY <2>2 DEF K!IsInjective
    <3>1. i - 1 \in 0..Len(s) /\ j - 1 \in 0..Len(s) /\ To(h, s, i - 1) = To(h, s, j - 1)
      BY <2>1, <2>2
    <3>2. i - 1 = j - 1
      BY <2>1, <3>1, ToTellsApart
    <3> QED
      BY <3>2
  <2>6. ASSUME NEW g \in Heads \ {h} PROVE K!ToSet(klists[g]) \cap K!ToSet(klists[h]) = {}
    <3>1. DOMAIN klists[g] = 1..Len(klists[g]) /\ DOMAIN klists[h] = 1..Len(klists[h])
      BY DEF KInv
    <3> QED
      BY <3>1 DEF KInv, K!ToSet
  <2> QED
    BY <2>3, <2>4, <2>5, <2>6 DEF cells
<1>3. KInv /\ [K!Next]_(K!vars) => KInv'
  BY KInvStep
<1> QED
  BY <1>1, <1>2, <1>3, PTL DEF K!Spec

-------------------------------------------------------------------------------
\* The list is as in KDList; between calls the entries allocated are those in
\* it, and in the loop of stack_destroy those it has not visited yet.
Listed(e) == \E i \in 1..Len(lists[Top]) : lists[Top][i] = e

StackInv ==
  /\ Inv
  /\ sdata \in [Nodes -> Values \cup {Null}] /\ alive \in BOOLEAN
  /\ allocated \subseteq Nodes
  /\ alive /\ loop = Null => \A e \in Nodes : e \in allocated <=> Listed(e)
  /\ ~alive => loop = Null /\ allocated = {}
  /\ loop # Null =>
       /\ alive /\ loop.head = Top /\ loop.all = lists[Top]
       /\ \A e \in Nodes :
            e \in allocated <=> \E i \in (Len(loop.seen) + 1)..Len(lists[Top]) : lists[Top][i] = e

\* The sequence p is the way next leads from the head around to it.
Leads(p) == \A i \in 1..(Len(p) + 1) : next[(<<Top>> \o p)[i]] = (p \o <<Top>>)[i]

LEMMA LeadsAt ==
  ASSUME NEW p \in Seq(Nodes)
  PROVE  Leads(p) <=> \A i \in 0..Len(p) : next[At(Top, p, i)] = At(Top, p, i + 1)
<1>1. Len(p) \in Nat
  OBVIOUS
<1>2. ASSUME NEW i \in 1..(Len(p) + 1)
      PROVE  (<<Top>> \o p)[i] = At(Top, p, i - 1) /\ (p \o <<Top>>)[i] = At(Top, p, i)
  <2>1. (<<Top>> \o p)[i] = IF i <= 1 THEN Top ELSE p[i - 1]
    OBVIOUS
  <2>2. (p \o <<Top>>)[i] = IF i <= Len(p) THEN p[i] ELSE Top
    OBVIOUS
  <2>3. i - 1 \in 1..Len(p) <=> ~(i <= 1)
    BY <1>1
  <2>4. i \in 1..Len(p) <=> i <= Len(p)
    BY <1>1
  <2> QED
    BY <2>1, <2>2, <2>3, <2>4 DEF At
<1>3. Leads(p) => \A i \in 0..Len(p) : next[At(Top, p, i)] = At(Top, p, i + 1)
  <2> SUFFICES ASSUME Leads(p), NEW i \in 0..Len(p)
               PROVE  next[At(Top, p, i)] = At(Top, p, i + 1)
    OBVIOUS
  <2>1. i + 1 \in 1..(Len(p) + 1) /\ (i + 1) - 1 = i
    BY <1>1
  <2> QED
    BY <1>2, <2>1 DEF Leads
<1>4. (\A i \in 0..Len(p) : next[At(Top, p, i)] = At(Top, p, i + 1)) => Leads(p)
  <2> SUFFICES ASSUME \A i \in 0..Len(p) : next[At(Top, p, i)] = At(Top, p, i + 1),
                      NEW i \in 1..(Len(p) + 1)
               PROVE  next[(<<Top>> \o p)[i]] = (p \o <<Top>>)[i]
    BY DEF Leads
  <2>1. i - 1 \in 0..Len(p) /\ (i - 1) + 1 = i
    BY <1>1
  <2> QED
    BY <1>2, <2>1
<1> QED
  BY <1>3, <1>4

\* There is no other way: two of them cannot part before they are at the head.
LEMMA NotLonger ==
  ASSUME Top \notin Nodes, NEW p \in Seq(Nodes), NEW s \in Seq(Nodes),
         Leads(p), Leads(s), Len(p) <= Len(s)
  PROVE  p = s
<1> DEFINE P(i) == At(Top, p, i)
           W(i) == At(Top, s, i)
           m == Len(p) + 1
           same == {i \in 0..m : P(i) = W(i)}
<1>1. /\ \A i \in 0..Len(p) : next[P(i)] = P(i + 1)
      /\ \A i \in 0..Len(s) : next[W(i)] = W(i + 1)
  BY LeadsAt
<1>2. Len(p) \in Nat /\ Len(s) \in Nat /\ m \in Nat
  OBVIOUS
<1>3. P(0) = Top /\ W(0) = Top /\ P(m) = Top
  BY <1>2 DEF At
<1>4. same = 0..m
  <2> SUFFICES ASSUME same # 0..m PROVE FALSE
    OBVIOUS
  <2>1. m + 1 \in Nat /\ (m + 1) - 1 = m /\ same \in SUBSET (0..m)
    BY <1>2
  <2>2. PICK i \in 0..m : i \notin same /\ \A j \in 0..(i - 1) : j \in same
    <3> DEFINE k == m + 1
    <3>1. k \in Nat /\ k - 1 = m
      BY <2>1
    <3> HIDE DEF k, same, m
    <3> QED
      BY <2>1, <3>1, LeastOutside
  <2>3. i # 0
    BY <1>2, <1>3, <2>2
  <2>4. i - 1 \in same /\ i - 1 \in 0..Len(p) /\ i - 1 \in 0..Len(s) /\ (i - 1) + 1 = i
    BY <1>2, <2>2, <2>3
  <2>5. P(i - 1) = W(i - 1)
    BY <2>4
  <2> HIDE DEF P, W
  <2>6. P(i) = W(i)
    BY <1>1, <2>4, <2>5
  <2> QED
    BY <2>2, <2>6
<1>5. \A i \in 0..m : P(i) = W(i)
  <2> HIDE DEF P, W, m
  <2> QED
    BY <1>4
<1>6. Len(s) = Len(p)
  <2>1. W(m) = Top
    BY <1>2, <1>3, <1>5
  <2>2. m \notin 1..Len(s)
    <3> SUFFICES ASSUME m \in 1..Len(s) PROVE FALSE
      OBVIOUS
    <3>1. W(m) = s[m] /\ s[m] \in Nodes
      BY DEF At
    <3> QED
      BY <2>1, <3>1
  <2> QED
    BY <1>2, <2>2
<1>7. \A i \in 1..Len(p) : p[i] = s[i]
  <2> SUFFICES ASSUME NEW i \in 1..Len(p) PROVE p[i] = s[i]
    OBVIOUS
  <2>1. i \in 0..m /\ i \in 1..Len(s)
    BY <1>2, <1>6
  <2>2. P(i) = W(i)
    BY <1>5, <2>1
  <2> QED
    BY <2>1, <2>2 DEF At
<1> QED
  BY <1>6, <1>7, SeqEqual

LEMMA PathIs ==
  ASSUME Heads = {Top}, IsFiniteSet(Nodes), Inv
  PROVE  ST!Path = lists[Top] /\ lists[Top] \in Seq(Nodes)
<1> DEFINE s == lists[Top]
<1>1. Top \notin Nodes
  BY CellsAssumption
<1>2. s \in Seq(Nodes) /\ Len(s) \in Nat
  BY DEF Inv, ListInv, Types
<1>3. Leads(s)
  <2>1. Ring(Top, s, next, prev)
    BY DEF Inv, ListInv, Rings
  <2>2. \A i \in 0..Len(s) : next[At(Top, s, i)] = At(Top, s, i + 1)
    BY <2>1 DEF Ring
  <2> HIDE DEF s
  <2> QED
    BY <1>2, <2>2, LeadsAt
<1>4. Len(s) <= Cardinality(Nodes) /\ Cardinality(Nodes) \in Nat
  <2>1. IsInjective(s)
    BY DEF Inv, ListInv, Rings
  <2>2. IsInjective(s)
    BY <2>1 DEF IsInjective, IsInjective
  <2> HIDE DEF s
  <2> QED
    BY <1>2, <2>2, NoLonger
<1>5. s \in ST!SeqOf(Nodes, Cardinality(Nodes))
  <2> DEFINE N == Cardinality(Nodes)
             l == Len(s)
  <2>1. l \in 0..N /\ s \in [1..l -> Nodes]
    BY <1>2, <1>4
  <2> HIDE DEF N, l
  <2> QED
    BY <2>1 DEF ST!SeqOf, N
<1>6. \A p \in ST!SeqOf(Nodes, Cardinality(Nodes)) : p \in Seq(Nodes)
  BY <1>4 DEF ST!SeqOf
<1>7. \A p \in ST!SeqOf(Nodes, Cardinality(Nodes)) : Leads(p) => p = s
  <2> SUFFICES ASSUME NEW p \in Seq(Nodes), Leads(p) PROVE p = s
    BY <1>6
  <2>1. Len(p) \in Nat /\ Len(s) \in Nat
    BY <1>2
  <2>2. Len(p) <= Len(s) \/ Len(s) <= Len(p)
    BY <2>1
  <2> HIDE DEF s
  <2> QED
    BY <1>1, <1>2, <1>3, <2>2, NotLonger
<1> DEFINE T == ST!SeqOf(Nodes, Cardinality(Nodes))
<1>8. ST!Path \in T /\ Leads(ST!Path)
  <2> DEFINE way(p) == \A i \in 1..(Len(p) + 1) : next[(<<Top>> \o p)[i]] = (p \o <<Top>>)[i]
  <2>1. \E p \in T : way(p)
    <3> HIDE DEF s, T
    <3> QED
      BY <1>3, <1>5 DEF Leads, T
  <2>2. ST!Path = CHOOSE p \in T : way(p)
    <3>1. ST!Cardinality(Nodes) = Cardinality(Nodes)
      BY Zenon DEF ST!Cardinality, Cardinality
    <3> QED
      BY <3>1, Zenon DEF ST!Path
  <2>3. way(ST!Path) <=> Leads(ST!Path)
    BY DEF Leads
  <2> HIDE DEF T, way
  <2> QED
    BY <2>1, <2>2, <2>3
<1>9. ST!Path = s
  <2> HIDE DEF s
  <2> QED
    BY <1>7, <1>8
<1> QED
  BY <1>2, <1>9 DEF s

Holds ==
  /\ ST!Path = lists[Top] /\ lists[Top] \in Seq(Nodes)
  /\ ST!Contents = [i \in 1..Len(lists[Top]) |-> sdata[lists[Top][i]]]
  /\ next[Top] = At(Top, lists[Top], 1)

LEMMA StackHolds ==
  ASSUME Heads = {Top}, IsFiniteSet(Nodes)
  PROVE  Inv => Holds
<1> SUFFICES ASSUME Inv PROVE Holds
  OBVIOUS
<1>1. ST!Path = lists[Top] /\ lists[Top] \in Seq(Nodes)
  BY PathIs
<1>2. ST!Contents = [i \in 1..Len(lists[Top]) |-> sdata[lists[Top][i]]]
  BY <1>1 DEF ST!Contents
<1>3. next[Top] = At(Top, lists[Top], 1)
  BY EmptyIs DEF Inv, ListInv
<1> QED
  BY <1>1, <1>2, <1>3 DEF Holds

LEMMA HoldsNext ==
  ASSUME Heads = {Top}, IsFiniteSet(Nodes)
  PROVE  Inv' => Holds'
BY StackHolds, PTL

LEMMA ListStep ==
  ASSUME Heads = {Top}, Inv, [ST!Next]_(ST!vars)
  PROVE  Inv'
<1>1. ASSUME NEW e \in Nodes, NEW v \in Values, ST!Push(e, v) PROVE Next
  <2>1. PushHead(Top, e)
    BY <1>1 DEF ST!Push, ST!L!PushHead, PushHead, ST!L!Linked, Linked, ST!L!ToSet, ToSet,
                ST!L!Empty, Empty
  <2> QED
    BY <2>1 DEF Next
<1>2. ASSUME ST!Pop PROVE Next
  <2>1. PopHead(Top)
    BY <1>2 DEF ST!Pop, ST!L!PopHead, PopHead, ST!L!Empty, Empty
  <2> QED
    BY <2>1 DEF Next
<1>3. ASSUME ST!BeginDestroy PROVE Next
  <2>1. BeginLoop(Top)
    BY <1>3 DEF ST!BeginDestroy, ST!L!BeginLoop, BeginLoop
  <2> QED
    BY <2>1 DEF Next
<1>4. ASSUME ST!DestroyTurn PROVE Next
  <2>1. TurnKeep
    BY <1>4 DEF ST!DestroyTurn, ST!L!TurnKeep, TurnKeep, ST!L!Advance, Advance
  <2> QED
    BY <2>1 DEF Next
<1>5. ASSUME ST!EndDestroy PROVE Next
  <2>1. EndLoop
    BY <1>5 DEF ST!EndDestroy, ST!L!EndLoop, EndLoop
  <2> QED
    BY <2>1 DEF Next
<1>6. ASSUME ST!PushNoMemory \/ ST!PopEmpty \/ ST!ReadTop \/ UNCHANGED ST!vars
      PROVE  UNCHANGED vars
  BY <1>6 DEF ST!PushNoMemory, ST!PopEmpty, ST!ReadTop, ST!vars, ST!listVars, vars
<1>7. [Next]_(vars)
  BY <1>1, <1>2, <1>3, <1>4, <1>5, <1>6 DEF ST!Next
<1> QED
  BY <1>7, InvStep

\* A sequence with one value more in front.
InFrontAt(a, b, n, v, V) ==
  /\ n \in Nat /\ v \in V
  /\ a = [i \in 1..n |-> a[i]] /\ \A i \in 1..n : a[i] \in V
  /\ b = [i \in 1..(n + 1) |-> b[i]] /\ \A i \in 1..n : b[i + 1] = a[i]
  /\ b[1] = v

LEMMA InFront ==
  ASSUME NEW V, NEW n, NEW a, NEW b, NEW v, InFrontAt(a, b, n, v, V)
  PROVE  b = <<v>> \o a
<1> USE DEF InFrontAt
<1>1. a \in [1..n -> V] /\ n \in Nat
  OBVIOUS
<1>2. a \in Seq(V) /\ Len(a) = n /\ n \in Nat
  <2> HIDE DEF InFrontAt
  <2> QED
    BY <1>1, AsSequence
<1>3. ASSUME NEW i \in 1..(n + 1) PROVE i = 1 \/ (i - 1 \in 1..n /\ (i - 1) + 1 = i)
  BY <1>2
<1>4. ASSUME NEW i \in 1..(n + 1) PROVE b[i] = IF i <= 1 THEN v ELSE a[i - 1]
  <2>1. CASE i = 1
    BY <2>1
  <2>2. CASE i - 1 \in 1..n /\ (i - 1) + 1 = i
    <3>1. ~(i <= 1)
      BY <1>2, <2>2
    <3>2. b[(i - 1) + 1] = a[i - 1]
      BY <2>2
    <3> QED
      BY <2>2, <3>1, <3>2
  <2> QED
    BY <1>3, <2>1, <2>2
<1>5. ASSUME NEW i \in 1..(n + 1) PROVE b[i] \in V
  <2>1. v \in V /\ (i - 1 \in 1..n => a[i - 1] \in V)
    BY <1>1
  <2>2. b[i] = IF i <= 1 THEN v ELSE a[i - 1]
    BY <1>4
  <2> HIDE DEF InFrontAt
  <2> QED
    BY <1>3, <2>1, <2>2
<1>6. b \in [1..(n + 1) -> V] /\ n + 1 \in Nat
  BY <1>2, <1>5
<1>7. b \in Seq(V) /\ Len(b) = n + 1
  BY <1>6
<1>8. <<v>> \o a \in Seq(V) /\ Len(<<v>> \o a) = n + 1
      /\ \A i \in 1..(n + 1) : (<<v>> \o a)[i] = IF i <= 1 THEN v ELSE a[i - 1]
  BY <1>2
<1> QED
  BY <1>4, <1>7, <1>8, SeqEqual

LEMMA StackPush ==
  ASSUME Heads = {Top}, IsFiniteSet(Nodes), StackInv,
         NEW e \in Nodes, NEW v \in Values, ST!Push(e, v), Inv'
  PROVE  StackInv' /\ ST!Contents' = <<v>> \o ST!Contents
<1> DEFINE s == lists[Top]
           l == Len(s)
           u == lists'[Top]
<1>1. /\ alive /\ loop = Null /\ loop' = Null /\ alive' = TRUE /\ e \notin ST!L!Linked
      /\ lists' = [lists EXCEPT ![Top] = <<e>> \o @] /\ lists \in [{Top} -> Seq(Nodes)]
      /\ sdata' = [sdata EXCEPT ![e] = v] /\ allocated' = allocated \cup {e}
  BY DEF ST!Push, ST!L!PushHead, StackInv, Inv, ListInv, Types
<1>2. s \in Seq(Nodes) /\ l \in Nat /\ u = <<e>> \o s
  BY <1>1
<1>3. Len(u) = l + 1 /\ u[1] = e /\ \A i \in 1..l : u[i + 1] = s[i]
  BY <1>2
<1>4. \A i \in 1..l : s[i] # e /\ s[i] \in Nodes
  BY <1>1, <1>2 DEF ST!L!Linked, ST!L!ToSet
<1>5. sdata' \in [Nodes -> Values \cup {Null}]
      /\ sdata'[e] = v /\ \A i \in 1..l : sdata'[s[i]] = sdata[s[i]] /\ sdata[s[i]] \in Values \cup {Null}
  BY <1>1, <1>4 DEF StackInv
<1>6. Holds /\ Holds'
  BY StackHolds, HoldsNext DEF StackInv
<1>7. ST!Contents' = <<v>> \o ST!Contents
  <2> DEFINE a == ST!Contents
             b == ST!Contents'
  <2>1. a = [i \in 1..l |-> sdata[s[i]]] /\ b = [i \in 1..(l + 1) |-> sdata'[u[i]]]
    BY <1>3, <1>6 DEF Holds
  <2> HIDE DEF a, b, u, s, l
  <2>2. \A i \in 1..l : i + 1 \in 1..(l + 1) /\ 1 \in 1..(l + 1)
    BY <1>2
  <2>3. 1 \in 1..(l + 1)
    BY <1>2
  <2>4. InFrontAt(a, b, l, v, Values \cup {Null})
    BY <1>2, <1>3, <1>5, <2>1, <2>2, <2>3 DEF InFrontAt
  <2> QED
    BY <2>4, InFront DEF a, b
<1>8. ASSUME NEW x \in Nodes PROVE x \in allocated' <=> \E i \in 1..Len(u) : u[i] = x
  <2>1. x \in allocated <=> \E i \in 1..l : s[i] = x
    BY <1>1 DEF StackInv, Listed
  <2>2. \A i \in 1..(l + 1) : i = 1 \/ (i - 1 \in 1..l /\ (i - 1) + 1 = i)
    BY <1>2
  <2>3. \A i \in 1..l : i + 1 \in 1..(l + 1)
    BY <1>2
  <2>4. 1 \in 1..(l + 1)
    BY <1>2
  <2> HIDE DEF u, s, l
  <2>5. (\E i \in 1..(l + 1) : u[i] = x) <=> x = e \/ \E i \in 1..l : s[i] = x
    <3>1. ASSUME NEW i \in 1..(l + 1), u[i] = x PROVE x = e \/ \E j \in 1..l : s[j] = x
      <4>1. CASE i = 1
        BY <1>3, <3>1, <4>1
      <4>2. CASE i - 1 \in 1..l /\ (i - 1) + 1 = i
        <5>1. u[(i - 1) + 1] = s[i - 1]
          BY <1>3, <4>2
        <5> QED
          BY <3>1, <4>2, <5>1
      <4> QED
        BY <2>2, <4>1, <4>2
    <3> QED
      BY <1>3, <2>3, <2>4, <3>1
  <2> QED
    BY <1>1, <1>3, <2>1, <2>5
<1>9. StackInv'
  BY <1>1, <1>5, <1>8 DEF StackInv, Listed
<1> QED
  BY <1>7, <1>9

LEMMA StackPop ==
  ASSUME Heads = {Top}, IsFiniteSet(Nodes), StackInv, ST!Pop, Inv'
  PROVE  /\ StackInv'
         /\ ST!Contents # <<>> /\ sres' = Head(ST!Contents) /\ ST!Contents' = Tail(ST!Contents)
<1> DEFINE s == lists[Top]
           l == Len(s)
           u == lists'[Top]
<1>1. /\ alive /\ loop = Null /\ loop' = Null /\ alive' = TRUE /\ next[Top] # Top
      /\ lists' = [lists EXCEPT ![Top] = Tail(@)] /\ lists \in [{Top} -> Seq(Nodes)]
      /\ sdata' = sdata /\ allocated' = allocated \ {next[Top]} /\ sres' = sdata[next[Top]]
  BY DEF ST!Pop, ST!L!PopHead, ST!L!Empty, StackInv, Inv, ListInv, Types
<1>2. Holds /\ Holds'
  BY StackHolds, HoldsNext DEF StackInv
<1>3. s \in Seq(Nodes) /\ 1 \in 1..l /\ l \in Nat /\ next[Top] = s[1] /\ s # <<>> /\ u = Tail(s)
  BY <1>1, <1>2 DEF Holds, At
<1>4. Len(u) = l - 1 /\ \A i \in 1..(l - 1) : u[i] = s[i + 1]
  BY <1>3, HeadTailProperties
<1>5. \A i \in 1..l : sdata[s[i]] \in Values \cup {Null} /\ s[i] \in Nodes
  BY <1>3 DEF StackInv
<1>6. l \in Nat \ {0} /\ (\A i \in 1..(l - 1) : i + 1 \in 1..l)
      /\ (\A i \in 1..l : i = 1 \/ (i - 1 \in 1..(l - 1) /\ (i - 1) + 1 = i))
  BY <1>3
<1>7. ST!Contents # <<>> /\ Head(ST!Contents) = sdata[s[1]] /\ ST!Contents' = Tail(ST!Contents)
  <2> DEFINE a == ST!Contents
             b == ST!Contents'
  <2>1. a = [i \in 1..l |-> sdata[s[i]]] /\ b = [i \in 1..(l - 1) |-> sdata[u[i]]]
    BY <1>1, <1>2, <1>4 DEF Holds
  <2> HIDE DEF a, b, u, s, l
  <2>2. ShorterAt(a, b, l, Values \cup {Null})
    BY <1>4, <1>5, <1>6, <2>1 DEF ShorterAt
  <2>3. a # <<>> /\ Head(a) = a[1] /\ b = Tail(a)
    BY <2>2, Shorter
  <2>4. a[1] = sdata[s[1]]
    BY <1>3, <2>1
  <2> QED
    BY <2>3, <2>4 DEF a, b
<1>8. ASSUME NEW x \in Nodes PROVE x \in allocated' <=> \E i \in 1..Len(u) : u[i] = x
  <2>1. x \in allocated <=> \E i \in 1..l : s[i] = x
    BY <1>1 DEF StackInv, Listed
  <2>2. IsInjective(s)
    BY DEF StackInv, Inv, ListInv, Rings, IsInjective, IsInjective
  <2>3. \A i \in 1..l : s[i] = s[1] => i = 1
    BY <1>3, <2>2 DEF IsInjective
  <2> HIDE DEF u, s, l
  <2>4. ASSUME NEW i \in 1..(l - 1), u[i] = x PROVE x # s[1] /\ \E j \in 1..l : s[j] = x
    <3>1. i + 1 \in 1..l /\ i + 1 # 1 /\ s[i + 1] = x
      BY <1>4, <1>6, <2>4
    <3> QED
      BY <2>3, <3>1
  <2>5. ASSUME NEW i \in 1..l, s[i] = x, x # s[1] PROVE \E j \in 1..(l - 1) : u[j] = x
    <3>1. i - 1 \in 1..(l - 1) /\ (i - 1) + 1 = i
      BY <1>6, <2>5
    <3>2. u[i - 1] = s[(i - 1) + 1]
      BY <1>4, <3>1
    <3> QED
      BY <2>5, <3>1, <3>2
  <2> QED
    BY <1>1, <1>3, <1>4, <2>1, <2>4, <2>5
<1>9. StackInv'
  BY <1>1, <1>8 DEF StackInv, Listed
<1> QED
  BY <1>1, <1>3, <1>7, <1>9

\* The loop of stack_destroy stands behind the entries it has seen.
LEMMA LoopPlace ==
  ASSUME Heads = {Top}, StackInv, loop # Null, NEW k, k = Len(loop.seen)
  PROVE  /\ loop \in LoopType /\ lists[Top] \in Seq(Nodes) /\ k \in 0..Len(lists[Top])
         /\ loop.pos = At(Top, lists[Top], k + 1)
         /\ loop.pos # Top =>
              /\ k + 1 \in 1..Len(lists[Top]) /\ loop.pos = lists[Top][k + 1]
              /\ loop.n = At(Top, lists[Top], k + 2)
<1> DEFINE s == lists[Top]
<1>1. /\ loop \in LoopType /\ loop.head = Top /\ loop.all = s
      /\ s \in Seq(Nodes) /\ Len(s) \in Nat
  BY DEF StackInv, Inv, LoopInv, ListInv, Types
<1>2. PICK d \in Nat : Visits(loop, s, d)
  BY <1>1 DEF StackInv, Inv, LoopInv
<1>3. k \in Nat
  BY <1>1 DEF LoopType
<1>4. /\ d \in 0..Len(s) /\ k <= Len(s) /\ Len(s) - d = Len(s) - k
      /\ loop.pos = At(Top, s, d + 1)
      /\ loop.pos # Top => loop.n = At(Top, s, d + 2)
  BY <1>1, <1>2 DEF Visits
<1>5. d = k
  <2> DEFINE l == Len(s)
  <2>1. l \in Nat /\ d \in Nat /\ k \in Nat /\ l - d = l - k
    BY <1>1, <1>3, <1>4
  <2> HIDE DEF l
  <2> QED
    BY <2>1
<1>6. loop.pos # Top => k + 1 \in 1..Len(s) /\ loop.pos = s[k + 1]
  BY <1>4, <1>5 DEF At
<1> QED
  BY <1>1, <1>4, <1>5, <1>6

LEMMA StackDestroy ==
  ASSUME Heads = {Top}, Null \notin LoopType, StackInv, ST!BeginDestroy \/ ST!DestroyTurn \/ ST!EndDestroy, Inv'
  PROVE  StackInv' /\ UNCHANGED <<next, lists, sdata, sres>>
<1> DEFINE s == lists[Top]
<1>1. CASE ST!BeginDestroy
  <2>1. /\ alive /\ loop = Null /\ UNCHANGED <<next, lists, sdata, allocated, alive, sres>>
        /\ loop'.head = Top /\ loop'.seen = <<>> /\ loop'.all = s
    BY <1>1 DEF ST!BeginDestroy, ST!L!BeginLoop
  <2>2. Len(loop'.seen) + 1 = 1
    BY <2>1
  <2>3. loop' # Null => alive' /\ loop'.head = Top /\ loop'.all = lists'[Top]
        /\ \A e \in Nodes :
             e \in allocated' <=> \E i \in (Len(loop'.seen) + 1)..Len(lists'[Top]) : lists'[Top][i] = e
    BY <2>1, <2>2 DEF StackInv, Listed
  <2>4. alive' /\ loop' = Null => \A e \in Nodes : e \in allocated' <=> Listed(e)'
    BY <2>1 DEF StackInv, Listed
  <2> QED
    BY <2>1, <2>3, <2>4 DEF StackInv
<1>2. CASE ST!DestroyTurn
  <2> DEFINE k == Len(loop.seen)
             p == loop.pos
  <2>1. /\ alive /\ loop # Null /\ p # Top /\ UNCHANGED <<next, lists, sdata, alive, sres>>
        /\ loop' = Turned(loop, next) /\ allocated' = allocated \ {p}
    BY <1>2 DEF ST!DestroyTurn, ST!L!TurnKeep, ST!L!Advance, Turned, StackInv
  <2>2. /\ loop \in LoopType /\ s \in Seq(Nodes) /\ k \in 0..Len(s)
        /\ k + 1 \in 1..Len(s) /\ p = s[k + 1]
    BY <2>1, LoopPlace
  <2>3. /\ loop'.head = Top /\ loop'.all = s /\ loop'.seen = Append(loop.seen, p)
        /\ loop.seen \in Seq(Nodes) /\ p \in Nodes
    BY <2>1, <2>2 DEF Turned, LoopType, StackInv
  <2>4. Len(loop'.seen) = k + 1
    BY <2>3
  <2>5. ASSUME NEW e \in Nodes
        PROVE  e \in allocated' <=> \E i \in (k + 1 + 1)..Len(s) : s[i] = e
    <3>1. e \in allocated <=> \E i \in (k + 1)..Len(s) : s[i] = e
      BY <2>1 DEF StackInv
    <3>2. IsInjective(s)
      BY DEF StackInv, Inv, ListInv, Rings, IsInjective, IsInjective
    <3>3. \A i \in 1..Len(s) : s[i] = p => i = k + 1
      BY <2>2, <3>2 DEF IsInjective
    <3>4. /\ \A i \in (k + 1 + 1)..Len(s) : i \in (k + 1)..Len(s) /\ i \in 1..Len(s) /\ i # k + 1
          /\ \A i \in (k + 1)..Len(s) : i = k + 1 \/ i \in (k + 1 + 1)..Len(s)
      BY <2>2
    <3> HIDE DEF s, k, p
    <3> QED
      BY <2>1, <2>2, <3>1, <3>3, <3>4
  <2>6. loop' # Null
    <3>1. loop.n \in {Top} \cup Nodes /\ next \in [{Top} \cup Nodes -> {Top} \cup Nodes]
      BY <2>2 DEF StackInv, Inv, ListInv, Types, Cells, LoopType
    <3>2. loop' = [head |-> Top, pos |-> loop.n, n |-> next[loop.n],
                   seen |-> Append(loop.seen, p), all |-> s]
      BY <2>1, <2>2, <2>3 DEF Turned, LoopType
    <3>3. Append(loop.seen, p) \in Seq(Nodes) /\ next[loop.n] \in {Top} \cup Nodes
      BY <2>3, <3>1
    <3>4. loop' \in LoopType
      BY <2>2, <3>1, <3>2, <3>3 DEF LoopType, Cells
    <3> QED
      BY <3>4
  <2> QED
    BY <2>1, <2>3, <2>4, <2>5, <2>6 DEF StackInv
<1>3. CASE ST!EndDestroy
  <2>1. /\ loop # Null /\ loop.pos = Top /\ loop' = Null /\ alive' = FALSE
        /\ UNCHANGED <<next, lists, sdata, allocated, sres>>
    BY <1>3 DEF ST!EndDestroy, ST!L!EndLoop, StackInv
  <2> DEFINE k == Len(loop.seen)
  <2>2. s \in Seq(Nodes) /\ k \in 0..Len(s) /\ At(Top, s, k + 1) = Top
    BY <2>1, LoopPlace
  <2>3. k + 1 \notin 1..Len(s)
    <3> SUFFICES ASSUME k + 1 \in 1..Len(s) PROVE FALSE
      OBVIOUS
    <3>1. At(Top, s, k + 1) = s[k + 1] /\ s[k + 1] \in Nodes
      BY <2>2 DEF At
    <3> QED
      BY <2>2, <3>1, CellsAssumption
  <2>4. (k + 1)..Len(s) = {}
    BY <2>2, <2>3
  <2>5. allocated = {}
    BY <2>1, <2>4 DEF StackInv
  <2> QED
    BY <2>1, <2>5 DEF StackInv
<1> QED
  BY <1>1, <1>2, <1>3

LEMMA StackStep ==
  ASSUME Heads = {Top}, Null \notin LoopType, IsFiniteSet(Nodes),
         StackInv, [ST!Next]_(ST!vars)
  PROVE  StackInv' /\ [ST!Abstract!ANext]_(ST!Abstract!avars)
<1>1. Inv'
  BY ListStep DEF StackInv
<1>2. Holds /\ Holds'
  BY <1>1, StackHolds, HoldsNext DEF StackInv
<1>3. next[Top] = Top => ST!Contents = <<>>
  <2> SUFFICES ASSUME next[Top] = Top PROVE Len(lists[Top]) = 0
    BY <1>2 DEF Holds
  <2>1. lists[Top] \in Seq(Nodes) /\ At(Top, lists[Top], 1) = Top
    BY <1>2 DEF Holds
  <2>2. 1 \notin 1..Len(lists[Top])
    BY <2>1, CellsAssumption DEF At
  <2> QED
    BY <2>1, <2>2
<1>4. next[Top] # Top => ST!Contents # <<>> /\ Head(ST!Contents) = sdata[next[Top]]
  <2> SUFFICES ASSUME next[Top] # Top
               PROVE  ST!Contents # <<>> /\ Head(ST!Contents) = sdata[next[Top]]
    OBVIOUS
  <2> DEFINE s == lists[Top]
             l == Len(s)
             a == ST!Contents
  <2>1. s \in Seq(Nodes) /\ 1 \in 1..l /\ next[Top] = s[1] /\ l \in Nat
    BY <1>2 DEF Holds, At
  <2>2. \A i \in 1..l : sdata[s[i]] \in Values \cup {Null}
    BY <2>1 DEF StackInv
  <2>3. a = [i \in 1..l |-> sdata[s[i]]]
    BY <1>2 DEF Holds
  <2> HIDE DEF a, l
  <2>4. a \in [1..l -> Values \cup {Null}]
    BY <2>2, <2>3
  <2>5. a \in Seq(Values \cup {Null}) /\ Len(a) = l
    BY <2>1, <2>4
  <2>6. a # <<>> /\ Head(a) = a[1]
    BY <2>1, <2>5
  <2> QED
    BY <2>1, <2>3, <2>6 DEF a
<1>5. UNCHANGED <<next, lists, sdata>> => ST!Contents' = ST!Contents
  BY <1>2 DEF Holds
<1>6. ASSUME NEW e \in Nodes, NEW v \in Values, ST!Push(e, v)
      PROVE  StackInv' /\ ST!Abstract!APush(v)
  BY <1>1, <1>6, StackPush DEF ST!Push, ST!Abstract!APush
<1>7. ASSUME ST!Pop PROVE StackInv' /\ ST!Abstract!APop
  BY <1>1, <1>7, StackPop DEF ST!Abstract!APop
<1>8. ASSUME ST!BeginDestroy \/ ST!DestroyTurn \/ ST!EndDestroy
      PROVE  StackInv' /\ UNCHANGED ST!Abstract!avars
  BY <1>1, <1>5, <1>8, StackDestroy DEF ST!Abstract!avars
<1>9. ASSUME UNCHANGED <<next, prev, lists, loop, sdata, allocated, alive>> PROVE StackInv'
  BY <1>1, <1>9 DEF StackInv, Listed
<1>10. ASSUME ST!PushNoMemory PROVE StackInv' /\ ST!Abstract!APushFails
  BY <1>5, <1>9, <1>10 DEF ST!PushNoMemory, ST!listVars, ST!Abstract!APushFails
<1>11. ASSUME ST!PopEmpty PROVE StackInv' /\ ST!Abstract!APop
  BY <1>3, <1>5, <1>9, <1>11 DEF ST!PopEmpty, ST!listVars, ST!L!Empty, ST!Abstract!APop
<1>12. ASSUME ST!ReadTop PROVE StackInv' /\ ST!Abstract!ATop
  BY <1>3, <1>4, <1>5, <1>9, <1>12 DEF ST!ReadTop, ST!listVars, ST!L!Empty, ST!Abstract!ATop
<1>13. ASSUME UNCHANGED ST!vars PROVE StackInv' /\ UNCHANGED ST!Abstract!avars
  BY <1>5, <1>9, <1>13 DEF ST!vars, ST!Abstract!avars
<1> QED
  BY <1>6, <1>7, <1>8, <1>10, <1>11, <1>12, <1>13 DEF ST!Next, ST!Abstract!ANext

LEMMA StackInit ==
  ASSUME Heads = {Top}, IsFiniteSet(Nodes), ST!Init
  PROVE  StackInv /\ ST!Abstract!AInit
<1>1. Init
  BY DEF ST!Init, ST!L!Init, Init, ST!L!Cells, Cells
<1>2. Inv
  BY <1>1, InitInv
<1>3. lists[Top] = <<>> /\ loop = Null
  BY <1>1 DEF Init
<1>4. StackInv
  BY <1>2, <1>3 DEF ST!Init, StackInv, Listed
<1>5. ST!Contents = <<>>
  BY <1>2, <1>3, StackHolds DEF Holds
<1> QED
  BY <1>4, <1>5 DEF ST!Init, ST!Abstract!AInit

\* stack.c: whatever its entries, what the head leads to is the values pushed and
\* not yet popped, the newest first; pop and top give that one.
THEOREM StackImplementsLIFO ==
  ASSUME Heads = {Top}, Null \notin LoopType, IsFiniteSet(Nodes)
  PROVE  ST!Spec => ST!ImplementsLIFO
BY StackInit, StackStep, PTL DEF ST!Spec, ST!ImplementsLIFO, ST!Abstract!ASpec

\* stack.c, 79 to 95: the entries allocated are those in the list, the loop that
\* destroys the stack reads none it has freed, and it frees all of them.
THEOREM StackOwnsEntries ==
  ASSUME Heads = {Top}, Null \notin LoopType, IsFiniteSet(Nodes)
  PROVE  ST!Spec => []ST!EntriesOwned
<1>1. ASSUME StackInv PROVE ST!EntriesOwned
  <2> DEFINE s == lists[Top]
             k == Len(loop.seen)
  <2>1. s \in Seq(Nodes)
    BY <1>1 DEF StackInv, Inv, ListInv, Types
  <2>2. alive /\ loop = Null => allocated = ST!ToSet(s)
    <3> SUFFICES ASSUME alive, loop = Null PROVE \A e : e \in allocated <=> e \in ST!ToSet(s)
      OBVIOUS
    <3> QED
      BY <1>1, <2>1 DEF StackInv, Listed, ST!ToSet
  <2>3. ASSUME alive, loop # Null, loop.pos # Top PROVE {loop.pos, loop.n} \subseteq allocated \cup {Top}
    <3>1. /\ k + 1 \in 1..Len(s) /\ loop.pos = s[k + 1] /\ loop.n = At(Top, s, k + 2)
          /\ k \in 0..Len(s)
      BY <1>1, <2>3, LoopPlace
    <3>2. \A i \in (k + 1)..Len(s) : s[i] \in allocated
      <4>1. \A i \in (k + 1)..Len(s) : s[i] \in Nodes
        BY <2>1, <3>1
      <4> QED
        BY <1>1, <2>3, <4>1 DEF StackInv
    <3>3. k + 1 \in (k + 1)..Len(s) /\ (k + 2 \in 1..Len(s) => k + 2 \in (k + 1)..Len(s))
      BY <3>1
    <3> QED
      BY <3>1, <3>2, <3>3 DEF At
  <2> QED
    BY <1>1, <2>2, <2>3 DEF StackInv, ST!EntriesOwned
<1> QED
  BY <1>1, StackInit, StackStep, PTL DEF ST!Spec
===============================================================================
