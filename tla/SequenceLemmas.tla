---------------------------- MODULE SequenceLemmas ----------------------------
(***************************************************************************)
(* What the proofs about the lists need of sequences, and of the least     *)
(* number outside a set: facts about the operators of the community        *)
(* modules that the models use, none about the code.                       *)
(***************************************************************************)
EXTENDS Integers, Sequences, SequencesExt, SequenceTheorems, FiniteSetTheorems,
        WellFoundedInduction, TLAPS

LEMMA Least == ASSUME NEW P \in SUBSET Nat, P # {} PROVE \E i \in P : \A j \in P : i <= j
<1>1. IsWellFoundedOn(OpToRel(<,Nat), Nat)
  BY NatLessThanWellFounded
<1>2. PICK x \in P : \A y \in P : ~(<<y, x>> \in OpToRel(<, Nat))
  BY <1>1, WFMin
<1>3. \A y \in P : ~(y < x)
  BY <1>2 DEF OpToRel
<1>4. \A y \in P : x <= y
  BY <1>3
<1> QED
  BY <1>4

\* Of the numbers below n some set leaves out, one is the least.
LEMMA LeastOutside ==
  ASSUME NEW n \in Nat, NEW bits \in SUBSET (0..(n-1)), bits # 0..(n-1)
  PROVE  \E i \in 0..(n - 1) : i \notin bits /\ \A j \in 0..(i - 1) : j \in bits
<1> DEFINE T == (0..(n - 1)) \ bits
<1>1. T \subseteq Nat /\ T # {}
  <2>1. PICK i \in 0..(n - 1) : i \notin bits
    OBVIOUS
  <2> QED
    BY <2>1
<1>2. IsWellFoundedOn(OpToRel(<,Nat), Nat)
  BY NatLessThanWellFounded
<1>3. PICK x \in T : \A y \in T : ~(<<y, x>> \in OpToRel(<, Nat))
  BY <1>1, <1>2, WFMin
<1>4. \A y \in T : ~(y < x)
  BY <1>1, <1>3 DEF OpToRel
<1> QED
  BY <1>4

LEMMA AsSequence == ASSUME NEW V, NEW n \in Nat, NEW a \in [1..n -> V] PROVE a \in Seq(V) /\ Len(a) = n
OBVIOUS

\* What holds of 0 and goes on from every number to the next holds up to n.
LEMMA Climb ==
  ASSUME NEW n \in Nat, NEW P, 0 \in P, \A i \in 1..n : i - 1 \in P => i \in P
  PROVE  \A i \in 0..n : i \in P
<1> DEFINE bits == P \cap (0..n)
<1>1. n + 1 \in Nat /\ (n + 1) - 1 = n /\ bits \in SUBSET (0..n)
  OBVIOUS
<1>2. CASE bits # 0..n
  <2>1. PICK m \in 0..n : m \notin bits /\ \A j \in 0..(m - 1) : j \in bits
    <3> HIDE DEF bits
    <3> QED
      BY <1>1, <1>2, LeastOutside
  <2>2. m # 0 /\ m \in 1..n /\ m - 1 \in 0..(m - 1)
    BY <2>1
  <2> QED
    BY <2>1, <2>2
<1> QED
  BY <1>2

\* Appending to a sequence without repetitions.
LEMMA AppendOne ==
  ASSUME NEW S, NEW s \in Seq(S), NEW x \in S, IsInjective(s), x \notin ToSet(s)
  PROVE  /\ Append(s, x) \in Seq(S) /\ IsInjective(Append(s, x))
         /\ ToSet(Append(s, x)) = ToSet(s) \cup {x}
<1> DEFINE t == Append(s, x)
<1>1. /\ t \in Seq(S) /\ Len(t) = Len(s) + 1 /\ t[Len(s) + 1] = x
      /\ \A i \in 1..Len(s) : t[i] = s[i]
  OBVIOUS
<1> HIDE DEF t
<1>2. \A i \in 1..Len(t) : i \in 1..Len(s) \/ i = Len(s) + 1
  BY <1>1
<1>3. \A i \in 1..Len(s) : s[i] # x
  BY DEF ToSet
<1>4. IsInjective(t)
  <2> SUFFICES ASSUME NEW i \in 1..Len(t), NEW j \in 1..Len(t), t[i] = t[j] PROVE i = j
    BY <1>1 DEF IsInjective
  <2> QED
    BY <1>1, <1>2, <1>3 DEF IsInjective
<1>5. ToSet(t) = ToSet(s) \cup {x}
  <2>1. DOMAIN t = 1..Len(t) /\ DOMAIN s = 1..Len(s) /\ Len(s) + 1 \in 1..Len(t)
        /\ 1..Len(s) \subseteq 1..Len(t)
    BY <1>1
  <2> QED
    BY <1>1, <1>2, <2>1 DEF ToSet
<1> QED
  BY <1>1, <1>4, <1>5 DEF t

\* Taking the first off a sequence without repetitions.
LEMMA TailOne ==
  ASSUME NEW S, NEW s \in Seq(S), IsInjective(s), s # <<>>
  PROVE  /\ Tail(s) \in Seq(S) /\ IsInjective(Tail(s)) /\ Head(s) \in S /\ Head(s) \in ToSet(s)
         /\ ToSet(Tail(s)) = ToSet(s) \ {Head(s)}
<1> DEFINE t == Tail(s)
<1>1. /\ t \in Seq(S) /\ Len(t) = Len(s) - 1 /\ Len(s) \in Nat \ {0} /\ Head(s) = s[1]
      /\ \A i \in 1..Len(t) : t[i] = s[i + 1]
  OBVIOUS
<1> HIDE DEF t
<1>2. \A i, j \in 1..Len(s) : s[i] = s[j] => i = j
  BY DEF IsInjective
<1>3. DOMAIN s = 1..Len(s) /\ DOMAIN t = 1..Len(t)
  BY <1>1
<1>4. IsInjective(t)
  <2> SUFFICES ASSUME NEW i \in 1..Len(t), NEW j \in 1..Len(t), t[i] = t[j] PROVE i = j
    BY <1>3 DEF IsInjective
  <2>1. i + 1 \in 1..Len(s) /\ j + 1 \in 1..Len(s) /\ s[i + 1] = s[j + 1]
    BY <1>1
  <2>2. i + 1 = j + 1
    BY <1>2, <2>1
  <2> QED
    BY <1>1, <2>2
<1>5. 1 \in 1..Len(s)
  BY <1>1
<1>6. ASSUME NEW i \in 1..Len(s), s[i] # s[1] PROVE s[i] \in ToSet(t)
  <2>1. i - 1 \in 1..Len(t) /\ t[i - 1] = s[(i - 1) + 1] /\ (i - 1) + 1 = i
    BY <1>1, <1>6
  <2> QED
    BY <1>3, <2>1 DEF ToSet
<1>7. ASSUME NEW i \in 1..Len(t) PROVE t[i] \in ToSet(s) /\ t[i] # s[1]
  <2>1. i + 1 \in 1..Len(s) /\ t[i] = s[i + 1] /\ i + 1 # 1
    BY <1>1
  <2> QED
    BY <1>2, <1>3, <1>5, <2>1 DEF ToSet
<1>8. ToSet(t) = ToSet(s) \ {s[1]}
  BY <1>3, <1>6, <1>7 DEF ToSet
<1>9. s[1] \in S /\ s[1] \in ToSet(s)
  BY <1>3, <1>5 DEF ToSet
<1> QED
  BY <1>1, <1>4, <1>8, <1>9 DEF t

\* What is left when the only occurrence of a member is removed.
LEMMA RemoveFirstAt ==
  ASSUME NEW S, NEW s \in Seq(S), IsInjective(s), NEW k \in 1..Len(s)
  PROVE  LET t == RemoveFirst(s, s[k])
         IN  /\ t \in Seq(S) /\ Len(t) = Len(s) - 1
             /\ \A i \in 1..Len(t) : t[i] = IF i < k THEN s[i] ELSE s[i + 1]
<1> DEFINE x == s[k]
           t == RemoveFirst(s, x)
<1>1. {i \in 1..Len(s) : s[i] = x} = {k}
  BY DEF IsInjective
<1>2. Min({k}) = k
  BY DEF Min
<1>3. SelectInSeq(s, LAMBDA v : v = x) = k
  BY <1>1, <1>2 DEF SelectInSeq
<1>4. RemoveFirst(s, x) = RemoveAt(s, k)
  BY <1>3 DEF RemoveFirst
<1>5. t = SubSeq(s, 1, k-1) \o SubSeq(s, k+1, Len(s))
  BY <1>4 DEF RemoveAt
<1>6. /\ t \in Seq(S) /\ Len(t) = Len(s) - 1
      /\ \A i \in 1..Len(t) : t[i] = IF i < k THEN s[i] ELSE s[i + 1]
  <2>1. Len(s) \in Nat /\ k \in 1..Len(s)
    OBVIOUS
  <2>2. /\ SubSeq(s, 1, k - 1) \in Seq(S) /\ Len(SubSeq(s, 1, k - 1)) = k - 1
        /\ \A i \in 1..(k - 1) : SubSeq(s, 1, k - 1)[i] = s[i]
    BY <2>1
  <2>3. /\ SubSeq(s, k + 1, Len(s)) \in Seq(S) /\ Len(SubSeq(s, k + 1, Len(s))) = Len(s) - k
        /\ \A i \in 1..(Len(s) - k) : SubSeq(s, k + 1, Len(s))[i] = s[k + i]
    BY <2>1
  <2> DEFINE a == SubSeq(s, 1, k - 1)  b == SubSeq(s, k + 1, Len(s))
  <2> HIDE DEF a, b
  <2>4. /\ a \o b \in Seq(S) /\ Len(a \o b) = Len(s) - 1
        /\ \A i \in 1..Len(a \o b) :
             (a \o b)[i] = IF i <= Len(a) THEN a[i] ELSE b[i - Len(a)]
    <3>1. a \in Seq(S) /\ b \in Seq(S) /\ Len(a) = k - 1 /\ Len(b) = Len(s) - k
      BY <2>1, <2>2, <2>3 DEF a, b
    <3>2. Len(a) + Len(b) = Len(s) - 1 /\ Len(a) \in Nat
      BY <2>1, <3>1
    <3> QED
      BY <3>1, <3>2, ConcatProperties
  <2>5. t = a \o b
    BY <1>5 DEF a, b
  <2>6. ASSUME NEW i \in 1..Len(t) PROVE t[i] = IF i < k THEN s[i] ELSE s[i + 1]
    <3>1. CASE i < k
      BY <2>1, <2>2, <2>4, <2>5, <3>1 DEF a
    <3>2. CASE i >= k
      <4>1. Len(a) = k - 1
        BY <2>2 DEF a
      <4>2. i - Len(a) \in 1..(Len(s) - k) /\ ~(i <= Len(a))
        BY <2>1, <2>4, <2>5, <3>2, <4>1
      <4>3. t[i] = b[i - Len(a)]
        BY <2>4, <2>5, <4>2
      <4>4. b[i - Len(a)] = s[k + (i - Len(a))]
        BY <2>3, <4>2 DEF b
      <4>5. k + (i - Len(a)) = i + 1
        BY <2>1, <4>1
      <4> QED
        BY <3>2, <4>3, <4>4, <4>5
    <3> QED
      BY <2>1, <2>4, <2>5, <3>1, <3>2
  <2> QED
    BY <2>1, <2>4, <2>5, <2>6
<1> QED
  BY <1>6

\* Removing the only occurrence of a member, or nothing.
LEMMA RemoveOne ==
  ASSUME NEW S, NEW s \in Seq(S), NEW x, IsInjective(s)
  PROVE  LET t == RemoveFirst(s, x) IN t \in Seq(S) /\ IsInjective(t) /\ ToSet(t) = ToSet(s) \ {x}
<1>1. CASE x \notin ToSet(s)
  <2>1. RemoveFirst(s, x) = s
    BY <1>1 DEF ToSet, RemoveFirst
  <2> QED
    BY <1>1, <2>1
<1>2. CASE x \in ToSet(s)
  <2>1. PICK k \in 1..Len(s) : s[k] = x
    BY <1>2 DEF ToSet
  <2> DEFINE t == RemoveFirst(s, x)
  <2>2. /\ t \in Seq(S) /\ Len(t) = Len(s) - 1 /\ k \in 1..Len(s)
        /\ \A i \in 1..Len(t) : t[i] = IF i < k THEN s[i] ELSE s[i + 1]
    BY <2>1, RemoveFirstAt
  <2> HIDE DEF t
  <2>3. ToSet(t) = ToSet(s) \ {x}
    <3>1. ASSUME NEW i \in 1..Len(s), s[i] # x PROVE s[i] \in ToSet(t)
      <4>1. CASE i < k
        <5>1. i \in 1..Len(t) /\ t[i] = s[i]
          BY <2>2, <4>1
        <5> QED
          BY <5>1 DEF ToSet
      <4>2. CASE i > k
        <5>1. i - 1 \in 1..Len(t) /\ t[i - 1] = s[i]
          BY <2>2, <4>2
        <5>2. i - 1 \in DOMAIN t
          BY <2>2, <5>1
        <5> QED
          BY <5>1, <5>2, Zenon DEF ToSet
      <4> QED
        BY <2>1, <2>2, <3>1, <4>1, <4>2
    <3>2. ASSUME NEW i \in 1..Len(t) PROVE t[i] \in ToSet(s) \ {x}
      <4>1. CASE i < k
        <5>1. i \in 1..Len(s) /\ t[i] = s[i] /\ i # k
          BY <2>2, <4>1
        <5> QED
          BY <2>1, <5>1 DEF ToSet, IsInjective
      <4>2. CASE i >= k
        <5>1. i + 1 \in 1..Len(s) /\ t[i] = s[i + 1] /\ i + 1 # k
          BY <2>2, <4>2
        <5> QED
          BY <2>1, <5>1 DEF ToSet, IsInjective
      <4> QED
        BY <2>2, <4>1, <4>2
    <3> QED
      BY <3>1, <3>2 DEF ToSet
  <2>4. IsInjective(t)
    <3> SUFFICES ASSUME NEW i \in 1..Len(t), NEW j \in 1..Len(t), t[i] = t[j] PROVE i = j
      BY <2>2 DEF IsInjective
    <3> DEFINE at(m) == IF m < k THEN m ELSE m + 1
    <3>1. ASSUME NEW m \in 1..Len(t) PROVE at(m) \in 1..Len(s) /\ t[m] = s[at(m)]
      BY <2>2
    <3>2. at(i) = at(j)
      BY <3>1 DEF IsInjective
    <3> QED
      BY <2>2, <3>2
  <2> QED
    BY <2>2, <2>3, <2>4 DEF t
<1> QED
  BY <1>1, <1>2

-------------------------------------------------------------------------------
LEMMA UpTo == ASSUME NEW n \in Nat PROVE IsFiniteSet(1..n) /\ Cardinality(1..n) = n
<1>1. IsFiniteSet(1..n)
  BY FS_Interval
<1>2. Cardinality(1..n) = n
  BY FS_Interval
<1> QED
  BY <1>1, <1>2

\* A sequence without repetitions is no longer than its set is large.
LEMMA NoLonger ==
  ASSUME NEW S, IsFiniteSet(S), NEW s \in Seq(S), IsInjective(s)
  PROVE  Cardinality(S) \in Nat /\ Len(s) \in Nat /\ Len(s) <= Cardinality(S)
<1>1. s \in [1..Len(s) -> S] /\ Len(s) \in Nat
  OBVIOUS
<1>2. s \in Injection(1..Len(s), S)
  BY <1>1 DEF IsInjective, Injection
<1>3. Cardinality(1..Len(s)) <= Cardinality(S)
  BY <1>2, FS_Injection
<1>4. Cardinality(1..Len(s)) = Len(s)
  BY <1>1, UpTo
<1>5. Cardinality(S) \in Nat
  BY FS_CardinalityType
<1> QED
  BY <1>1, <1>3, <1>4, <1>5

-------------------------------------------------------------------------------
\* A walk over the places 1..n that makes a value of S out of every value and
\* place: it exists, as the definitions by recursion on 0..n presume, and two
\* walks that start alike and go on alike are alike.
IsWalk(f, n, S, base, step) ==
  f \in [0..n -> S] /\ f[0] = base /\ \A i \in 1..n : f[i] = step[<<f[i - 1], i>>]

Alike(f, g, n) == f[0] = g[0] /\ \A i \in 1..n : f[i - 1] = g[i - 1] => f[i] = g[i]

LEMMA WalkExists ==
  ASSUME NEW n \in Nat, NEW S, NEW base \in S, NEW step \in [S \X (1..n) -> S]
  PROVE  \E f : IsWalk(f, n, S, base, step)
<1> DEFINE fits(f, m) == /\ f \in [0..m -> S] /\ f[0] = base
                         /\ \A i \in 1..m : f[i] = step[<<f[i - 1], i>>]
           P == {m \in 0..n : \E f : fits(f, m)}
<1>1. P = 0..n
  <2> SUFFICES ASSUME P # 0..n PROVE FALSE
    OBVIOUS
  <2>1. n + 1 \in Nat /\ (n + 1) - 1 = n
    OBVIOUS
  <2>2. PICK m \in 0..n : m \notin P /\ \A j \in 0..(m - 1) : j \in P
    <3>1. P \in SUBSET (0..((n + 1) - 1)) /\ P # 0..((n + 1) - 1)
      BY <2>1
    <3> HIDE DEF P
    <3> QED
      BY <2>1, <3>1, LeastOutside
  <2>3. CASE m = 0
    <3>1. fits([i \in 0..0 |-> base], 0)
      OBVIOUS
    <3> QED
      BY <2>2, <2>3, <3>1
  <2>4. CASE m # 0
    <3>1. m - 1 \in 0..(m - 1) /\ m \in 1..n
      BY <2>4
    <3>2. PICK f : fits(f, m - 1)
      BY <2>2, <3>1
    <3> DEFINE g == [i \in 0..m |-> IF i < m THEN f[i] ELSE step[<<f[m - 1], m>>]]
    <3>3. \A i \in 0..(m - 1) : g[i] = f[i] /\ f[i] \in S
      BY <3>1, <3>2
    <3>4. g[m] = step[<<g[m - 1], m>>] /\ g[m] \in S
      <4>1. f[m - 1] \in S /\ g[m - 1] = f[m - 1]
        BY <3>1, <3>3
      <4>2. <<f[m - 1], m>> \in S \X (1..n)
        BY <3>1, <4>1
      <4>3. g[m] = step[<<f[m - 1], m>>]
        BY <3>1
      <4> QED
        BY <4>1, <4>2, <4>3
    <3>5. g \in [0..m -> S]
      <4>1. \A i \in 0..m : i \in 0..(m - 1) \/ i = m
        BY <3>1
      <4>2. \A i \in 0..m : g[i] \in S
        BY <3>3, <3>4, <4>1
      <4> QED
        BY <4>2
    <3>6. \A i \in 1..m : g[i] = step[<<g[i - 1], i>>]
      <4> SUFFICES ASSUME NEW i \in 1..m PROVE g[i] = step[<<g[i - 1], i>>]
        OBVIOUS
      <4> HIDE DEF g
      <4>1. CASE i = m
        BY <3>4, <4>1
      <4>2. CASE i # m
        <5>1. i \in 1..(m - 1) /\ i \in 0..(m - 1) /\ i - 1 \in 0..(m - 1)
          BY <3>1, <4>2
        <5> QED
          BY <3>2, <3>3, <5>1
      <4> QED
        BY <4>1, <4>2
    <3>7. g[0] = base
      BY <3>1, <3>2, <3>3
    <3>8. fits(g, m)
      <4> HIDE DEF g
      <4> QED
        BY <3>5, <3>6, <3>7
    <3> HIDE DEF g, fits
    <3> QED
      BY <2>2, <3>8
  <2> QED
    BY <2>3, <2>4
<1>2. n \in P
  <2> HIDE DEF P
  <2>1. n \in 0..n
    OBVIOUS
  <2> QED
    BY <1>1, <2>1
<1> QED
  BY <1>2 DEF IsWalk

LEMMA WalksAgree ==
  ASSUME NEW n \in Nat, NEW f, NEW g, Alike(f, g, n)
  PROVE  \A i \in 0..n : f[i] = g[i]
<1> DEFINE P == {i \in 0..n : f[i] = g[i]}
<1>1. P = 0..n
  <2> SUFFICES ASSUME P # 0..n PROVE FALSE
    OBVIOUS
  <2>1. n + 1 \in Nat /\ (n + 1) - 1 = n
    OBVIOUS
  <2>2. PICK m \in 0..n : m \notin P /\ \A j \in 0..(m - 1) : j \in P
    <3>1. P \in SUBSET (0..((n + 1) - 1)) /\ P # 0..((n + 1) - 1)
      BY <2>1
    <3> HIDE DEF P
    <3> QED
      BY <2>1, <3>1, LeastOutside
  <2>3. CASE m = 0
    BY <2>2, <2>3 DEF Alike
  <2>4. CASE m # 0
    <3>1. m - 1 \in 0..(m - 1) /\ m \in 1..n
      BY <2>4
    <3> QED
      BY <2>2, <3>1 DEF Alike
  <2> QED
    BY <2>3, <2>4
<1> QED
  BY <1>1

-------------------------------------------------------------------------------
\* A sequence with one value more behind, and without its first.
LongerAt(a, b, n, v, V) ==
  /\ n \in Nat /\ v \in V
  /\ a = [i \in 1..n |-> a[i]] /\ \A i \in 1..n : a[i] \in V
  /\ b = [i \in 1..(n + 1) |-> b[i]] /\ \A i \in 1..n : b[i] = a[i]
  /\ b[n + 1] = v

LEMMA Longer ==
  ASSUME NEW V, NEW n, NEW a, NEW b, NEW v, LongerAt(a, b, n, v, V)
  PROVE  Len(a) = n /\ b = Append(a, v)
<1> USE DEF LongerAt
<1>1. a \in [1..n -> V] /\ n \in Nat
  OBVIOUS
<1>2. a \in Seq(V) /\ Len(a) = n
  <2> HIDE DEF LongerAt
  <2> QED
    BY <1>1, AsSequence
<1>0. ASSUME NEW i \in 1..(n + 1) PROVE i \in 1..n \/ i = n + 1
  OBVIOUS
<1>3. \A i \in 1..(n + 1) : b[i] \in V
  BY <1>0
<1>4. b \in [1..(n + 1) -> V]
  BY <1>3
<1>5. b \in Seq(V) /\ Len(b) = n + 1
  BY <1>4
<1>6. Append(a, v) \in Seq(V) /\ Len(Append(a, v)) = n + 1
      /\ \A i \in 1..(n + 1) : Append(a, v)[i] = IF i <= n THEN a[i] ELSE v
  BY <1>2
<1>7. ASSUME NEW i \in 1..(n + 1) PROVE b[i] = Append(a, v)[i]
  <2>1. CASE i \in 1..n
    <3>1. Append(a, v)[i] = a[i]
      BY <1>6, <2>1
    <3> QED
      BY <2>1, <3>1
  <2>2. CASE i = n + 1
    <3>1. ~(n + 1 <= n) /\ n + 1 \in 1..(n + 1)
      OBVIOUS
    <3>2. Append(a, v)[n + 1] = v
      BY <1>6, <3>1
    <3> QED
      BY <2>2, <3>2
  <2> QED
    BY <1>0, <2>1, <2>2
<1>8. \A i \in 1..Len(b) : b[i] = Append(a, v)[i]
  BY <1>5, <1>7
<1>9. b = Append(a, v)
  BY <1>5, <1>6, <1>8, SeqEqual
<1> QED
  BY <1>2, <1>9

ShorterAt(a, b, n, V) ==
  /\ n \in Nat \ {0}
  /\ a = [i \in 1..n |-> a[i]] /\ \A i \in 1..n : a[i] \in V
  /\ b = [i \in 1..(n - 1) |-> b[i]] /\ \A i \in 1..(n - 1) : b[i] = a[i + 1]

LEMMA Shorter ==
  ASSUME NEW V, NEW n, NEW a, NEW b, ShorterAt(a, b, n, V)
  PROVE  a # <<>> /\ Head(a) = a[1] /\ b = Tail(a)
<1> USE DEF ShorterAt
<1>1. a \in [1..n -> V] /\ n \in Nat
  OBVIOUS
<1>2. a \in Seq(V) /\ Len(a) = n
  <2> HIDE DEF ShorterAt
  <2> QED
    BY <1>1, AsSequence
<1>3. a # <<>>
  BY <1>2
<1>4. /\ Tail(a) \in Seq(V) /\ Len(Tail(a)) = n - 1
      /\ \A i \in 1..(n - 1) : Tail(a)[i] = a[i + 1]
  BY <1>2, <1>3, HeadTailProperties
<1>5. \A i \in 1..(n - 1) : i + 1 \in 1..n
  OBVIOUS
<1>6. \A i \in 1..(n - 1) : b[i] \in V
  BY <1>5
<1>7. b \in [1..(n - 1) -> V] /\ n - 1 \in Nat
  BY <1>6
<1>8. b \in Seq(V) /\ Len(b) = n - 1
  <2> DEFINE m == n - 1
  <2>1. m \in Nat /\ b \in [1..m -> V]
    BY <1>7
  <2> HIDE DEF m
  <2>2. b \in Seq(V) /\ Len(b) = m
    BY <2>1
  <2> QED
    BY <2>2 DEF m
<1>9. b = Tail(a)
  BY <1>4, <1>8, SeqEqual
<1>10. Head(a) = a[1]
  BY <1>2, <1>3
<1> QED
  BY <1>3, <1>9, <1>10
===============================================================================
