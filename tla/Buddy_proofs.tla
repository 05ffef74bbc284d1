----------------------------- MODULE Buddy_proofs -----------------------------
(***************************************************************************)
(* Proofs about the buddy allocator for any number of orders and any       *)
(* requests, as long as nobody frees the address just behind the memory:   *)
(* free and held blocks tile the memory and agree with the mask, two       *)
(* buddies are never both free, and the allocator implements AbstractBuddy.*)
(***************************************************************************)
EXTENDS Buddy, SequenceLemmas

LEMMA PagesDouble ==
  /\ Pages \in [0..32 -> Nat] /\ Pages[0] = 1
  /\ \A i \in 1..32 : Pages[i] = 2 * Pages[i - 1]
<1> DEFINE step == [x \in Nat \X (1..32) |-> 2 * x[1]]
<1>1. step \in [Nat \X (1..32) -> Nat]
  OBVIOUS
<1>2. PICK f : IsWalk(f, 32, Nat, 1, step)
  <2> HIDE DEF step
  <2> QED
    BY <1>1, WalkExists
<1>3. ASSUME NEW i \in 1..32 PROVE f[i] = 2 * f[i - 1]
  <2>1. f[i - 1] \in Nat
    BY <1>2 DEF IsWalk
  <2>2. f[i] = step[<<f[i - 1], i>>]
    BY <1>2 DEF IsWalk
  <2> QED
    BY <2>1, <2>2
<1>4. f \in [0..32 -> Nat] /\ f[0] = 1
  BY <1>2 DEF IsWalk
<1>5. f = [order \in 0..32 |-> IF order = 0 THEN 1 ELSE 2 * f[order - 1]]
  <2>1. \A i \in 0..32 : i = 0 \/ i \in 1..32
    OBVIOUS
  <2> QED
    BY <1>3, <1>4, <2>1
<1>6. Pages = [order \in 0..32 |-> IF order = 0 THEN 1 ELSE 2 * Pages[order - 1]]
  BY <1>5 DEF Pages
<1>7. Alike(Pages, f, 32)
  <2>1. Pages[0] = 1
    BY <1>6
  <2>2. \A i \in 1..32 : Pages[i] = 2 * Pages[i - 1]
    BY <1>6
  <2> QED
    BY <1>3, <1>4, <2>1, <2>2 DEF Alike
<1>8. \A i \in 0..32 : Pages[i] = f[i]
  BY <1>7, WalksAgree
<1>9. DOMAIN Pages = 0..32 /\ Pages = [i \in 0..32 |-> Pages[i]]
  BY <1>6
<1> HIDE DEF step
<1> QED
  BY <1>3, <1>4, <1>8, <1>9

LEMMA PagesGrow ==
  /\ \A i \in 0..32 : Pages[i] \in Nat \ {0}
  /\ \A i, j \in 0..32 : i < j => 2 * Pages[i] <= Pages[j]
  /\ \A i, j \in 0..32 : i <= j => Pages[i] <= Pages[j]
<1> DEFINE P == {i \in 0..32 : Pages[i] # 0 /\ \A j \in 0..(i - 1) : 2 * Pages[j] <= Pages[i]}
<1>1. 0 \in P
  BY PagesDouble
<1>2. ASSUME NEW i \in 1..32, i - 1 \in P PROVE i \in P
  <2>1. Pages[i] = 2 * Pages[i - 1] /\ Pages[i - 1] \in Nat /\ Pages[i] \in Nat
    BY PagesDouble
  <2>2. ASSUME NEW j \in 0..(i - 1) PROVE 2 * Pages[j] <= Pages[i]
    <3>1. CASE j = i - 1
      BY <2>1, <3>1
    <3>2. CASE j # i - 1
      <4>1. j \in 0..((i - 1) - 1) /\ Pages[j] \in Nat
        BY <3>2, PagesDouble
      <4> QED
        BY <1>2, <2>1, <4>1
    <3> QED
      BY <3>1, <3>2
  <2> QED
    BY <1>2, <2>1, <2>2
<1>3. \A i \in 0..32 : i \in P
  <2> HIDE DEF P
  <2> QED
    BY <1>1, <1>2, Climb
<1>4. \A i, j \in 0..32 : i < j => 2 * Pages[i] <= Pages[j]
  BY <1>3
<1>5. \A i \in 0..32 : Pages[i] \in Nat \ {0}
  BY <1>3, PagesDouble
<1>6. ASSUME NEW i \in 0..32, NEW j \in 0..32, i <= j PROVE Pages[i] <= Pages[j]
  <2>1. Pages[i] \in Nat /\ Pages[j] \in Nat
    BY <1>5
  <2>2. CASE i < j
    BY <1>4, <2>1, <2>2
  <2>3. CASE i = j
    BY <2>1, <2>3
  <2> QED
    BY <1>6, <2>2, <2>3
<1> HIDE DEF P
<1> QED
  BY <1>4, <1>5, <1>6

LEMMA PagesTimes ==
  ASSUME NEW i \in 0..32, NEW j \in 0..(32 - i)
  PROVE  Pages[i + j] = Pages[i] * Pages[j]
<1> DEFINE P == {k \in 0..(32 - i) : Pages[i + k] = Pages[i] * Pages[k]}
<1>1. 0 \in P
  BY PagesDouble
<1>2. ASSUME NEW k \in 1..(32 - i), k - 1 \in P PROVE k \in P
  <2>1. Pages[i + k] = 2 * Pages[i + (k - 1)]
    <3>1. i + k \in 1..32 /\ (i + k) - 1 = i + (k - 1)
      OBVIOUS
    <3> QED
      BY <3>1, PagesDouble
  <2>2. Pages[k] = 2 * Pages[k - 1] /\ Pages[i] \in Nat /\ Pages[k - 1] \in Nat
    BY PagesDouble
  <2>3. Pages[i] * (2 * Pages[k - 1]) = 2 * (Pages[i] * Pages[k - 1])
    BY <2>2
  <2> QED
    BY <1>2, <2>1, <2>2, <2>3
<1>3. \A k \in 0..(32 - i) : k \in P
  <2> HIDE DEF P
  <2> QED
    BY <1>1, <1>2, Climb
<1> QED
  BY <1>3

-------------------------------------------------------------------------------
LEMMA Below ==
  ASSUME NEW S \in Nat \ {0}, NEW i \in Int, NEW j \in Int, i < j
  PROVE  i * S + S <= j * S
<1>1. (j - i - 1) * S >= 0
  OBVIOUS
<1>2. j * S = i * S + S + (j - i - 1) * S
  OBVIOUS
<1> QED
  BY <1>1, <1>2

LEMMA Quotient ==
  ASSUME NEW S \in Nat \ {0}, NEW i \in Int, NEW r \in 0..(S - 1)
  PROVE  (i * S + r) \div S = i /\ (i * S + r) % S = r
OBVIOUS

LEMMA Divides ==
  ASSUME NEW S \in Nat \ {0}, NEW a \in Int
  PROVE  /\ a \div S \in Int /\ a % S \in 0..(S - 1)
         /\ a = (a \div S) * S + (a % S)
OBVIOUS

LEMMA EvenOrOdd ==
  ASSUME NEW i \in Nat
  PROVE  i \div 2 \in Nat /\ (i % 2 = 0 => i = 2 * (i \div 2)) /\ (i % 2 # 0 => i = 2 * (i \div 2) + 1)
OBVIOUS

LEMMA TwoIntervals ==
  ASSUME NEW a \in Int, NEW S \in Nat \ {0}
  PROVE  /\ a..(a + 2 * S - 1) = (a..(a + S - 1)) \cup ((a + S)..(a + S + S - 1))
         /\ (a..(a + S - 1)) \cap ((a + S)..(a + S + S - 1)) = {}
<1>1. \A x \in Int : a <= x /\ x <= a + 2 * S - 1 <=>
                    \/ a <= x /\ x <= a + S - 1
                    \/ a + S <= x /\ x <= a + S + S - 1
  OBVIOUS
<1> QED
  BY <1>1

-------------------------------------------------------------------------------
\* The blocks there can be, and the other half of the next larger block.
Block == {b \in [addr : Memory, order : Levels] : b.addr % Pages[b.order] = 0}
Half(b) == [addr |-> BuddyOf(b.addr, b.order), order |-> b.order]
Whole(b) == [addr |-> IF b.addr < BuddyOf(b.addr, b.order) THEN b.addr ELSE BuddyOf(b.addr, b.order),
             order |-> b.order + 1]

LEMMA LevelsAre == Orders \in 0..31 /\ Orders \in Nat /\ Levels = 0..Orders
BY OrdersAssumption DEF Levels

LEMMA OrdersAre ==
  /\ Orders \in 0..31 /\ Levels = 0..Orders /\ Pages[Orders] \in Nat \ {0}
  /\ \A o \in Levels : /\ o \in 0..31 /\ Pages[o] \in Nat \ {0} /\ Pages[o] <= Pages[Orders]
                       /\ Orders - o \in Levels /\ Pages[Orders] = Pages[Orders - o] * Pages[o]
<1>1. Orders \in 0..31 /\ Levels = 0..Orders
  BY OrdersAssumption DEF Levels
<1>2. ASSUME NEW o \in Levels
      PROVE  /\ o \in 0..31 /\ Pages[o] \in Nat \ {0} /\ Pages[o] <= Pages[Orders]
             /\ Orders - o \in Levels /\ Pages[Orders] = Pages[Orders - o] * Pages[o]
  <2>1. o \in 0..31 /\ Orders - o \in 0..32 /\ o \in 0..(32 - (Orders - o)) /\ (Orders - o) + o = Orders
        /\ Orders - o \in Levels
    BY <1>1
  <2>2. Pages[(Orders - o) + o] = Pages[Orders - o] * Pages[o]
    BY <2>1, PagesTimes
  <2>3. o \in 0..32 /\ Orders \in 0..32 /\ o <= Orders
    BY <1>1
  <2>4. Pages[o] \in Nat \ {0} /\ Pages[o] <= Pages[Orders]
    BY <2>3, PagesGrow
  <2> QED
    BY <2>1, <2>2, <2>4
<1>3. Pages[Orders] \in Nat \ {0}
  <2>1. Orders \in 0..32
    BY <1>1
  <2> QED
    BY <2>1, PagesGrow
<1> QED
  BY <1>1, <1>2, <1>3

\* A block is numbered among those of its order.
LEMMA Numbered ==
  ASSUME NEW b \in Block
  PROVE  /\ b.order \in Levels /\ b.addr \in Nat /\ b = [addr |-> b.addr, order |-> b.order]
         /\ b.addr \div Pages[b.order] \in 0..(Pages[Orders - b.order] - 1)
         /\ b.addr = (b.addr \div Pages[b.order]) * Pages[b.order]
         /\ b.addr + Pages[b.order] <= Pages[Orders]
<1> DEFINE S == Pages[b.order]
           M == Pages[Orders - b.order]
           i == b.addr \div S
<1>1. /\ b.order \in Levels /\ b.addr \in Nat /\ b.addr <= Pages[Orders] - 1 /\ b.addr % S = 0
      /\ b = [addr |-> b.addr, order |-> b.order]
  BY OrdersAre DEF Block, Memory
<1>2. S \in Nat \ {0} /\ M \in Nat \ {0} /\ Pages[Orders] = M * S
  BY <1>1, OrdersAre
<1>3. i \in Int /\ b.addr = i * S
  BY <1>1, <1>2, Divides
<1> HIDE DEF S, M, i
<1>4. i >= 0
  <2>1. CASE i < 0
    <3>1. i * S + S <= 0 * S
      BY <1>2, <1>3, <2>1, Below
    <3> QED
      BY <1>1, <1>2, <1>3, <3>1
  <2> QED
    BY <1>3, <2>1
<1>5. i < M
  <2>1. CASE i = M
    BY <1>1, <1>2, <1>3, <2>1
  <2>2. CASE M < i
    <3>1. M * S + S <= i * S
      BY <1>2, <1>3, <2>2, Below
    <3> QED
      BY <1>1, <1>2, <1>3, <3>1
  <2> QED
    BY <1>2, <1>3, <2>1, <2>2
<1>6. b.addr + S <= Pages[Orders]
  <2>1. i * S + S <= M * S
    BY <1>2, <1>3, <1>5, Below
  <2> QED
    BY <1>2, <1>3, <2>1
<1> QED
  BY <1>1, <1>2, <1>3, <1>4, <1>5, <1>6 DEF S, M, i

LEMMA OrderOf ==
  ASSUME NEW b \in Block
  PROVE  /\ b.order \in Int /\ 0 <= b.order /\ b.order <= Orders /\ Orders \in Int /\ Orders <= 31
         /\ b.order \in Levels /\ Orders - b.order \in 0..31 /\ b.order \in 0..31
<1>1. b.order \in Levels
  BY DEF Block
<1>2. b.order \in 0..Orders /\ Orders \in 0..31
  BY <1>1, OrdersAre
<1> QED
  BY <1>1, <1>2

LEMMA NumberOf ==
  ASSUME NEW b \in Block
  PROVE  LET i == b.addr \div Pages[b.order]
         IN  /\ Pages[b.order] \in Nat \ {0} /\ i \in Nat /\ b.addr \in Nat
             /\ b.addr = i * Pages[b.order] /\ b.order \in 0..31
<1>1. /\ b.addr \in Nat /\ b.addr = (b.addr \div Pages[b.order]) * Pages[b.order]
      /\ b.addr \div Pages[b.order] \in 0..(Pages[Orders - b.order] - 1)
  BY Numbered
<1>2. b.order \in 0..31 /\ b.order \in 0..32
  BY OrderOf
<1>3. Pages[b.order] \in Nat \ {0}
  BY <1>2, PagesGrow
<1> QED
  BY <1>1, <1>2, <1>3

LEMMA BlockAt ==
  ASSUME NEW o \in Levels, NEW i \in 0..(Pages[Orders - o] - 1)
  PROVE  [addr |-> i * Pages[o], order |-> o] \in Block /\ (i * Pages[o]) \div Pages[o] = i
<1> DEFINE S == Pages[o]
           M == Pages[Orders - o]
<1>1. S \in Nat \ {0} /\ M \in Nat \ {0} /\ Pages[Orders] = M * S /\ i \in Nat /\ i < M
  BY OrdersAre
<1> HIDE DEF S, M
<1>2. i * S + S <= M * S
  BY <1>1, Below
<1>3. i * S \in Nat /\ i * S = i * S + 0 /\ 0 \in 0..(S - 1)
  BY <1>1
<1>4. (i * S) % S = 0 /\ (i * S) \div S = i
  BY <1>1, <1>3, Quotient
<1>5. i * S \in Memory
  BY <1>1, <1>2, <1>3 DEF Memory
<1> QED
  BY <1>4, <1>5 DEF S, Block

\* Two blocks that share a page are one inside the other.
LEMMA Nested ==
  ASSUME NEW b \in Block, NEW c \in Block, b.order <= c.order,
         NEW p \in PagesOf(b), p \in PagesOf(c)
  PROVE  /\ PagesOf(b) \subseteq PagesOf(c)
         /\ b.addr \div Pages[c.order] = c.addr \div Pages[c.order]
         /\ b.order = c.order => b = c
<1> DEFINE S == Pages[b.order]
           C == Pages[c.order]
           K == Pages[c.order - b.order]
           i == b.addr \div S
           j == c.addr \div C
<1>1. /\ S \in Nat \ {0} /\ C \in Nat \ {0} /\ i \in Nat /\ j \in Nat
      /\ b.addr \in Nat /\ c.addr \in Nat
      /\ b.addr = i * S /\ c.addr = j * C /\ b.order \in 0..31 /\ c.order \in 0..31
      /\ b = [addr |-> b.addr, order |-> b.order] /\ c = [addr |-> c.addr, order |-> c.order]
  BY Numbered, OrdersAre
<1>2. C = K * S /\ K \in Nat \ {0}
  <2>1. c.order - b.order \in 0..32 /\ b.order \in 0..(32 - (c.order - b.order))
        /\ (c.order - b.order) + b.order = c.order
    BY <1>1
  <2> QED
    BY <2>1, PagesTimes, PagesGrow
<1>3. p \in b.addr..(b.addr + S - 1) /\ p \in c.addr..(c.addr + C - 1)
  BY DEF PagesOf
<1> HIDE DEF S, C, K, i, j
<1>4. c.addr = (j * K) * S /\ c.addr + C = (j * K + K) * S
      /\ j * K \in Int /\ j * K + K \in Int
  BY <1>1, <1>2
<1> DEFINE lo == j * K
           hi == j * K + K
<1>5. lo \in Int /\ hi \in Int /\ c.addr = lo * S /\ c.addr + C = hi * S
  BY <1>4
<1> HIDE DEF lo, hi
<1>6. lo <= i
  <2>1. CASE i < lo
    <3>1. i * S + S <= lo * S
      BY <1>1, <1>5, <2>1, Below
    <3> QED
      BY <1>1, <1>3, <1>5, <3>1
  <2> QED
    BY <1>1, <1>5, <2>1
<1>7. i < hi
  <2>1. CASE hi < i
    <3>1. hi * S + S <= i * S
      BY <1>1, <1>5, <2>1, Below
    <3> QED
      BY <1>1, <1>2, <1>3, <1>5, <3>1
  <2>2. CASE hi = i
    BY <1>1, <1>2, <1>3, <1>5, <2>2
  <2> QED
    BY <1>1, <1>5, <2>1, <2>2
<1>8. c.addr <= b.addr
  <2>1. CASE lo < i
    <3>1. lo * S + S <= i * S
      BY <1>1, <1>5, <2>1, Below
    <3> QED
      BY <1>1, <1>5, <3>1
  <2>2. CASE lo = i
    BY <1>1, <1>5, <2>2
  <2> QED
    BY <1>1, <1>5, <1>6, <2>1, <2>2
<1>9. b.addr + S <= c.addr + C
  <2>1. i * S + S <= hi * S
    BY <1>1, <1>5, <1>7, Below
  <2> QED
    BY <1>1, <1>5, <2>1
<1>10. PagesOf(b) \subseteq PagesOf(c)
  BY <1>1, <1>8, <1>9 DEF PagesOf, S, C
<1>11. b.addr \div C = j
  <2>1. b.addr - c.addr \in 0..(C - 1) /\ b.addr = j * C + (b.addr - c.addr)
    BY <1>1, <1>8, <1>9
  <2>2. (j * C + (b.addr - c.addr)) \div C = j
    BY <1>1, <2>1, Quotient
  <2> QED
    BY <2>1, <2>2
<1>12. ASSUME b.order = c.order PROVE b = c
  <2>1. S = C
    BY <1>12 DEF S, C
  <2>2. b.addr = c.addr
    BY <1>1, <1>8, <1>9, <2>1
  <2> QED
    BY <1>1, <1>12, <2>2
<1> QED
  BY <1>10, <1>11, <1>12 DEF C, j

LEMMA OwnPages ==
  ASSUME NEW b \in Block
  PROVE  b.addr \in PagesOf(b) /\ PagesOf(b) \subseteq Memory
<1>1. b.addr \in Nat /\ Pages[b.order] \in Nat \ {0} /\ b.addr + Pages[b.order] <= Pages[Orders]
      /\ Pages[Orders] \in Nat
  BY Numbered, OrdersAre
<1> QED
  BY <1>1 DEF PagesOf, Memory

\* The two halves of a block.
LEMMA Halves ==
  ASSUME NEW b \in Block, b.order < Orders
  PROVE  /\ Half(b) \in Block /\ Half(b) # b /\ Half(Half(b)) = b /\ Whole(b) \in Block
         /\ Whole(Half(b)) = Whole(b)
         /\ PagesOf(Whole(b)) = PagesOf(b) \cup PagesOf(Half(b))
         /\ PagesOf(b) \cap PagesOf(Half(b)) = {}
<1> DEFINE o == b.order
           S == Pages[o]
           i == b.addr \div S
           N == Pages[Orders - (o + 1)]
<1>1. /\ o \in Levels /\ o + 1 \in Levels /\ S \in Nat \ {0} /\ i \in Nat /\ b.addr = i * S
      /\ i <= Pages[Orders - o] - 1 /\ b = [addr |-> b.addr, order |-> o]
      /\ o \in 0..31 /\ Orders \in 0..31
  <2>1. /\ o \in Levels /\ b.addr = i * S /\ i \in 0..(Pages[Orders - o] - 1)
        /\ b = [addr |-> b.addr, order |-> o]
    BY Numbered
  <2>2. /\ Orders \in 0..31 /\ Levels = 0..Orders /\ o \in 0..31 /\ S \in Nat \ {0}
        /\ Pages[Orders - o] \in Nat
    BY <2>1, OrdersAre
  <2>3. o < Orders
    OBVIOUS
  <2> HIDE DEF S, i, o
  <2>4. o + 1 \in Levels
    BY <2>2, <2>3
  <2> QED
    BY <2>1, <2>2, <2>4
<1>2. /\ Pages[o + 1] = 2 * S /\ Pages[Orders - o] = 2 * N /\ N \in Nat /\ i < 2 * N
  <2>1. o + 1 \in 1..32 /\ (o + 1) - 1 = o /\ Orders - o \in 1..32
        /\ (Orders - o) - 1 = Orders - (o + 1) /\ Orders - (o + 1) \in 0..32
    BY <1>1
  <2>2. Pages[Orders - o] = 2 * N /\ N \in Nat /\ Pages[o + 1] = 2 * S
    BY <2>1, PagesDouble
  <2> QED
    BY <1>1, <2>2
<1> HIDE DEF o, S, i, N
<1>3. CASE i % 2 = 0
  <2>1. PICK k \in Nat : i = 2 * k /\ k \in 0..(N - 1) /\ i + 1 \in 0..(2 * N - 1)
    <3>1. i = 2 * (i \div 2) /\ i \div 2 \in Nat
      BY <1>1, <1>3, EvenOrOdd
    <3> QED
      BY <1>1, <1>2, <3>1
  <2>2. (i + 1) % 2 # 0
    BY <2>1
  <2>3. BuddyOf(b.addr, o) = b.addr + S
    BY <1>3 DEF BuddyOf, S, i
  <2>4. [addr |-> (i + 1) * Pages[o], order |-> o] \in Block /\ ((i + 1) * Pages[o]) \div Pages[o] = i + 1
    BY <1>1, <1>2, <2>1, BlockAt
  <2>5. (i + 1) * S = b.addr + S /\ b.addr \in Nat
    BY <1>1
  <2>6. Half(b) = [addr |-> b.addr + S, order |-> o] /\ Half(b) \in Block
    BY <2>3, <2>4, <2>5 DEF Half, o, S
  <2>7. BuddyOf(b.addr + S, o) = b.addr
    <3>1. (b.addr + S) \div Pages[o] = i + 1
      BY <2>4, <2>5 DEF S
    <3> QED
      BY <1>1, <2>2, <2>5, <3>1 DEF BuddyOf, S
  <2>8. Half(Half(b)) = b
    BY <1>1, <2>6, <2>7 DEF Half
  <2>9. Whole(b) = [addr |-> b.addr, order |-> o + 1] /\ Whole(Half(b)) = [addr |-> b.addr, order |-> o + 1]
    <3>1. b.addr < b.addr + S /\ ~(b.addr + S < b.addr)
      BY <1>1, <2>5
    <3> QED
      BY <2>3, <2>6, <2>7, <3>1 DEF Whole, o
  <2>10. Whole(b) \in Block
    <3>1. [addr |-> k * Pages[o + 1], order |-> o + 1] \in Block
      <4>1. k \in 0..(Pages[Orders - (o + 1)] - 1)
        BY <2>1 DEF N
      <4> QED
        BY <1>1, <4>1, BlockAt
    <3>2. k * Pages[o + 1] = b.addr
      BY <1>1, <1>2, <2>1
    <3> QED
      BY <2>9, <3>1, <3>2
  <2>11. /\ PagesOf(b) = b.addr..(b.addr + S - 1)
         /\ PagesOf(Half(b)) = (b.addr + S)..(b.addr + S + S - 1)
         /\ PagesOf(Whole(b)) = b.addr..(b.addr + 2 * S - 1)
    BY <1>2, <2>6, <2>9 DEF PagesOf, S, o
  <2>12. /\ PagesOf(Whole(b)) = PagesOf(b) \cup PagesOf(Half(b))
         /\ PagesOf(b) \cap PagesOf(Half(b)) = {}
    <3>1. b.addr \in Int /\ S \in Nat \ {0}
      BY <1>1, <2>5
    <3>2. /\ b.addr..(b.addr + 2 * S - 1) = (b.addr..(b.addr + S - 1)) \cup ((b.addr + S)..(b.addr + S + S - 1))
          /\ (b.addr..(b.addr + S - 1)) \cap ((b.addr + S)..(b.addr + S + S - 1)) = {}
      BY <3>1, TwoIntervals
    <3> QED
      BY <2>11, <3>2
  <2>13. Half(b) # b
    BY <1>1, <2>5, <2>6
  <2> QED
    BY <2>6, <2>8, <2>9, <2>10, <2>12, <2>13
<1>4. CASE i % 2 # 0
  <2>1. PICK k \in Nat : i = 2 * k + 1 /\ k \in 0..(N - 1) /\ i - 1 \in 0..(2 * N - 1) /\ i - 1 = 2 * k
    <3>1. i = 2 * (i \div 2) + 1 /\ i \div 2 \in Nat
      BY <1>1, <1>4, EvenOrOdd
    <3> QED
      BY <1>1, <1>2, <3>1
  <2>2. (i - 1) % 2 = 0
    BY <2>1
  <2>3. BuddyOf(b.addr, o) = b.addr - S
    BY <1>4 DEF BuddyOf, S, i
  <2>4. [addr |-> (i - 1) * Pages[o], order |-> o] \in Block /\ ((i - 1) * Pages[o]) \div Pages[o] = i - 1
    BY <1>1, <1>2, <2>1, BlockAt
  <2>5. (i - 1) * S = b.addr - S /\ b.addr \in Nat /\ b.addr - S \in Nat
    BY <1>1, <2>1
  <2>6. Half(b) = [addr |-> b.addr - S, order |-> o] /\ Half(b) \in Block
    BY <2>3, <2>4, <2>5 DEF Half, o, S
  <2>7. BuddyOf(b.addr - S, o) = b.addr
    <3>1. (b.addr - S) \div Pages[o] = i - 1
      BY <2>4, <2>5 DEF S
    <3> QED
      BY <1>1, <2>2, <2>5, <3>1 DEF BuddyOf, S
  <2>8. Half(Half(b)) = b
    BY <1>1, <2>6, <2>7 DEF Half
  <2>9. Whole(b) = [addr |-> b.addr - S, order |-> o + 1]
        /\ Whole(Half(b)) = [addr |-> b.addr - S, order |-> o + 1]
    <3>1. ~(b.addr < b.addr - S) /\ b.addr - S < b.addr
      BY <1>1, <2>5
    <3> QED
      BY <2>3, <2>6, <2>7, <3>1 DEF Whole, o
  <2>10. Whole(b) \in Block
    <3>1. [addr |-> k * Pages[o + 1], order |-> o + 1] \in Block
      <4>1. k \in 0..(Pages[Orders - (o + 1)] - 1)
        BY <2>1 DEF N
      <4> QED
        BY <1>1, <4>1, BlockAt
    <3>2. k * Pages[o + 1] = b.addr - S
      BY <1>1, <1>2, <2>1
    <3> QED
      BY <2>9, <3>1, <3>2
  <2>11. /\ PagesOf(b) = b.addr..(b.addr + S - 1)
         /\ PagesOf(Half(b)) = (b.addr - S)..(b.addr - S + S - 1)
         /\ PagesOf(Whole(b)) = (b.addr - S)..(b.addr - S + 2 * S - 1)
    BY <1>2, <2>6, <2>9 DEF PagesOf, S, o
  <2>12. /\ PagesOf(Whole(b)) = PagesOf(b) \cup PagesOf(Half(b))
         /\ PagesOf(b) \cap PagesOf(Half(b)) = {}
    <3>1. b.addr - S + S = b.addr /\ b.addr - S \in Int
      BY <1>1, <2>5
    <3>2. /\ PagesOf(b) = ((b.addr - S) + S)..((b.addr - S) + S + S - 1)
          /\ PagesOf(Half(b)) = (b.addr - S)..((b.addr - S) + S - 1)
          /\ PagesOf(Whole(b)) = (b.addr - S)..((b.addr - S) + 2 * S - 1)
      BY <2>11, <3>1
    <3> QED
      BY <1>1, <3>1, <3>2, TwoIntervals
  <2>13. Half(b) # b
    BY <1>1, <2>5, <2>6
  <2> QED
    BY <2>6, <2>8, <2>9, <2>10, <2>12, <2>13
<1> QED
  BY <1>3, <1>4

\* A block of more than one page is the whole of its lower half.
LEMMA LowerHalf ==
  ASSUME NEW c \in Block, c.order > 0
  PROVE  LET b == [addr |-> c.addr, order |-> c.order - 1]
         IN  b \in Block /\ b.order < Orders /\ Whole(b) = c
<1> DEFINE o == c.order - 1
           b == [addr |-> c.addr, order |-> o]
           S == Pages[o]
           k == c.addr \div Pages[c.order]
<1>1. /\ c.order \in Levels /\ o \in Levels /\ o < Orders /\ S \in Nat \ {0} /\ k \in Nat
      /\ c.addr = k * Pages[c.order] /\ k <= Pages[Orders - c.order] - 1
      /\ c = [addr |-> c.addr, order |-> c.order] /\ c.addr \in Nat /\ o + 1 = c.order
      /\ c.order \in 0..31 /\ Orders \in 0..31
  <2>1. /\ c.order \in Levels /\ c.addr = k * Pages[c.order] /\ c.addr \in Nat
        /\ k \in 0..(Pages[Orders - c.order] - 1) /\ c = [addr |-> c.addr, order |-> c.order]
    BY Numbered
  <2>2. Orders \in 0..31 /\ Levels = 0..Orders /\ c.order \in 0..31 /\ Pages[Orders - c.order] \in Nat
    BY <2>1, OrdersAre
  <2>3. o \in Levels /\ o < Orders /\ o + 1 = c.order
    <3>1. c.order \in 0..Orders /\ Orders \in Int /\ Levels = 0..Orders
      <4>1. c.order \in Levels
        BY Numbered
      <4> QED
        BY <4>1, OrdersAre
    <3> QED
      BY <3>1
  <2>4. S \in Nat \ {0}
    BY <2>3, OrdersAre
  <2> HIDE DEF S, k, o
  <2> QED
    BY <2>1, <2>2, <2>3, <2>4
<1>2. /\ Pages[c.order] = 2 * S /\ Pages[Orders - o] = 2 * Pages[Orders - c.order]
      /\ Pages[Orders - c.order] \in Nat
  <2>1. c.order \in 1..32 /\ Orders - o \in 1..32 /\ Orders - c.order \in 0..32
        /\ (Orders - o) - 1 = Orders - c.order
    BY <1>1
  <2> QED
    BY <2>1, PagesDouble
<1> HIDE DEF k, S
<1>3. 2 * k \in 0..(Pages[Orders - o] - 1) /\ (2 * k) * S = c.addr
  BY <1>1, <1>2
<1>4. b \in Block /\ (2 * k) * Pages[o] = c.addr /\ c.addr \div Pages[o] = 2 * k
  BY <1>1, <1>3, BlockAt DEF S
<1>5. (2 * k) % 2 = 0
  BY <1>1
<1>6. BuddyOf(c.addr, o) = c.addr + S
  BY <1>4, <1>5 DEF BuddyOf, S
<1>7. c.addr < c.addr + S
  BY <1>1
<1>8. Whole(b) = c
  BY <1>1, <1>6, <1>7 DEF Whole
<1> QED
  BY <1>1, <1>4, <1>8

-------------------------------------------------------------------------------
SameNumber(m, n, x, y) ==
  /\ m \in 0..31 /\ n \in 0..31 /\ x \in 0..(Pages[m] - 1) /\ y \in 0..(Pages[n] - 1)
  /\ Pages[m] + x = Pages[n] + y

LEMMA Leading == ASSUME NEW m, NEW n, NEW x, NEW y, SameNumber(m, n, x, y) PROVE m = n /\ x = y
<1> USE DEF SameNumber
<1>0. m \in 0..32 /\ n \in 0..32
  OBVIOUS
<1>1. m \in 0..32 /\ n \in 0..32 /\ Pages[m] \in Nat /\ Pages[n] \in Nat
  BY <1>0, PagesGrow
<1>2. ~(m < n)
  <2>1. ASSUME m < n PROVE FALSE
    <3>1. 2 * Pages[m] <= Pages[n]
      BY <1>1, <2>1, PagesGrow
    <3> QED
      BY <1>1, <3>1
  <2> QED
    BY <2>1
<1>3. ~(n < m)
  <2>1. ASSUME n < m PROVE FALSE
    <3>1. 2 * Pages[n] <= Pages[m]
      BY <1>1, <2>1, PagesGrow
    <3> QED
      BY <1>1, <3>1
  <2> QED
    BY <2>1
<1>4. m = n
  BY <1>1, <1>2, <1>3
<1> QED
  BY <1>1, <1>4

LEMMA BitIs ==
  ASSUME NEW b \in Block
  PROVE  /\ Bit(b.addr, Level(b.order)) = Pages[Orders - b.order] - 1 + (b.addr \div Pages[b.order])
         /\ Orders - b.order \in 0..31 /\ Pages[Orders - b.order] \in Nat \ {0}
         /\ b.addr \div Pages[b.order] \in 0..(Pages[Orders - b.order] - 1)
<1>1. b.order \in Levels /\ b.addr \div Pages[b.order] \in 0..(Pages[Orders - b.order] - 1)
  BY Numbered
<1>2. Orders - b.order \in 0..31 /\ Pages[Orders - b.order] \in Nat \ {0}
      /\ Orders - (Orders - b.order) = b.order
  <2>1. /\ Orders - b.order \in 0..31 /\ Orders - b.order \in 0..32
        /\ Orders - (Orders - b.order) = b.order
    BY OrderOf
  <2> QED
    BY <2>1, PagesGrow
<1> QED
  BY <1>1, <1>2 DEF Bit, Level, SizeOfLevel

\* Different blocks have different bits.
LEMMA BitsDiffer ==
  ASSUME NEW b \in Block, NEW c \in Block, Bit(b.addr, Level(b.order)) = Bit(c.addr, Level(c.order))
  PROVE  b = c
<1> DEFINE m == Orders - b.order
           n == Orders - c.order
           x == b.addr \div Pages[b.order]
           y == c.addr \div Pages[c.order]
<1>1. /\ m \in 0..31 /\ n \in 0..31 /\ Pages[m] \in Nat /\ Pages[n] \in Nat
      /\ x \in 0..(Pages[m] - 1) /\ y \in 0..(Pages[n] - 1)
      /\ Bit(b.addr, Level(b.order)) = Pages[m] - 1 + x
      /\ Bit(c.addr, Level(c.order)) = Pages[n] - 1 + y
  BY BitIs
<1>2. Pages[m] - 1 + x = Pages[n] - 1 + y
  BY <1>1
<1> HIDE DEF m, n, x, y
<1>6. Pages[m] + x = Pages[n] + y
  BY <1>1, <1>2
<1>7. SameNumber(m, n, x, y)
  BY <1>1, <1>6 DEF SameNumber
<1>3. m = n /\ x = y
  BY <1>7, Leading
<1>4. b.order = c.order
  <2>2. b.order \in Int /\ c.order \in Int /\ Orders \in Int
    BY OrderOf
  <2> QED
    BY <1>3, <2>2 DEF m, n
<1>5. b.addr = x * Pages[b.order] /\ c.addr = y * Pages[c.order]
      /\ b = [addr |-> b.addr, order |-> b.order] /\ c = [addr |-> c.addr, order |-> c.order]
  BY Numbered DEF x, y
<1> QED
  BY <1>3, <1>4, <1>5

\* A block is inside another one when its number begins with the other's.
LEMMA Inside ==
  ASSUME NEW b \in Block, NEW c \in Block, b.order <= c.order
  PROVE  LET K == Pages[c.order - b.order]
             i == b.addr \div Pages[b.order]
             j == c.addr \div Pages[c.order]
         IN  /\ K \in Nat \ {0}
             /\ PagesOf(b) \subseteq PagesOf(c) => i - j * K \in 0..(K - 1)
             /\ i - j * K \in 0..(K - 1) => PagesOf(b) \subseteq PagesOf(c)
<1> DEFINE S == Pages[b.order]
           C == Pages[c.order]
           K == Pages[c.order - b.order]
           i == b.addr \div S
           j == c.addr \div C
<1>1. /\ S \in Nat \ {0} /\ C \in Nat \ {0} /\ i \in Nat /\ j \in Nat
      /\ b.addr \in Nat /\ c.addr \in Nat
      /\ b.addr = i * S /\ c.addr = j * C /\ b.order \in 0..31 /\ c.order \in 0..31
  BY NumberOf
<1>2. C = K * S /\ K \in Nat \ {0}
  <2>1. c.order - b.order \in 0..32 /\ b.order \in 0..(32 - (c.order - b.order))
        /\ (c.order - b.order) + b.order = c.order
    BY <1>1
  <2> QED
    BY <2>1, PagesTimes, PagesGrow
<1>3. PagesOf(b) = b.addr..(b.addr + S - 1) /\ PagesOf(c) = c.addr..(c.addr + C - 1)
  BY DEF PagesOf
<1> HIDE DEF S, C, K, i, j
<1> DEFINE lo == j * K
           hi == j * K + K
<1>4. lo \in Int /\ hi \in Int /\ c.addr = lo * S /\ c.addr + C = hi * S /\ hi = lo + K
  BY <1>1, <1>2
<1> HIDE DEF lo, hi
<1>5. ASSUME PagesOf(b) \subseteq PagesOf(c) PROVE i - lo \in 0..(K - 1)
  <2>1. c.addr <= b.addr /\ b.addr + S <= c.addr + C
    <3>1. b.addr \in PagesOf(b) /\ b.addr + S - 1 \in PagesOf(b)
      BY <1>1, <1>3
    <3>2. b.addr \in c.addr..(c.addr + C - 1) /\ b.addr + S - 1 \in c.addr..(c.addr + C - 1)
      BY <1>3, <1>5, <3>1
    <3> QED
      BY <1>1, <3>2
  <2>2. lo <= i
    <3>1. CASE i < lo
      <4>1. i * S + S <= lo * S
        BY <1>1, <1>4, <3>1, Below
      <4> QED
        BY <1>1, <1>4, <2>1, <4>1
    <3> QED
      BY <1>1, <1>4, <3>1
  <2>3. i < hi
    <3>1. CASE hi < i
      <4>1. hi * S + S <= i * S
        BY <1>1, <1>4, <3>1, Below
      <4> QED
        BY <1>1, <1>2, <1>4, <2>1, <4>1
    <3>2. CASE hi = i
      BY <1>1, <1>2, <1>4, <2>1, <3>2
    <3> QED
      BY <1>1, <1>4, <3>1, <3>2
  <2> QED
    BY <1>1, <1>2, <1>4, <2>2, <2>3
<1>6. ASSUME i - lo \in 0..(K - 1) PROVE PagesOf(b) \subseteq PagesOf(c)
  <2>1. lo <= i /\ i < hi
    BY <1>1, <1>2, <1>4, <1>6
  <2>2. b.addr + S <= c.addr + C
    <3>1. i * S + S <= hi * S
      BY <1>1, <1>4, <2>1, Below
    <3> QED
      BY <1>1, <1>4, <3>1
  <2>3. c.addr <= b.addr
    <3>1. CASE lo < i
      <4>1. lo * S + S <= i * S
        BY <1>1, <1>4, <3>1, Below
      <4> QED
        BY <1>1, <1>4, <4>1
    <3>2. CASE lo = i
      BY <1>1, <1>4, <3>2
    <3> QED
      BY <1>1, <1>4, <2>1, <3>1, <3>2
  <2> QED
    BY <1>1, <1>3, <2>2, <2>3
<1> QED
  BY <1>2, <1>5, <1>6 DEF S, C, K, i, j, lo

\* When the mask has the bits of the blocks H, a block's status is free when none
\* of H is inside it.
Bits(H) == {Bit(h.addr, Level(h.order)) : h \in H}

LEMMA StatusMeans ==
  ASSUME NEW H, H \subseteq Block, NEW c \in Block
  PROVE  Status(Bits(H), c.addr, Level(c.order)) = "free" <=>
           \A h \in H : ~(h.order <= c.order /\ PagesOf(h) \subseteq PagesOf(c))
<1> DEFINE bit == Bit(c.addr, Level(c.order))
           l == Orders - c.order
           j == c.addr \div Pages[c.order]
<1>1. /\ bit = Pages[l] - 1 + j /\ l \in 0..31 /\ Pages[l] \in Nat \ {0} /\ j \in 0..(Pages[l] - 1)
  BY BitIs
<1>2. Orders \in 0..31 /\ c.order \in 0..Orders /\ Level(Level(c.order)) = c.order
  BY OrderOf DEF Level
<1>3. Status(Bits(H), c.addr, Level(c.order)) = "free" <=>
        bit \notin Bits(H) /\ \A d \in Bits(H), k \in 0..c.order : (d + 1) \div Pages[k] # bit + 1
  BY <1>2 DEF Status, IsSplit
<1> HIDE DEF bit, j
<1>4. ASSUME NEW h \in H, h.order <= c.order, PagesOf(h) \subseteq PagesOf(c)
      PROVE  \E d \in Bits(H), k \in 0..c.order : (d + 1) \div Pages[k] = bit + 1
  <2> DEFINE d == Bit(h.addr, Level(h.order))
             m == Orders - h.order
             i == h.addr \div Pages[h.order]
             k == c.order - h.order
             K == Pages[k]
  <2>1. /\ d = Pages[m] - 1 + i /\ m \in 0..31 /\ Pages[m] \in Nat \ {0} /\ i \in 0..(Pages[m] - 1)
        /\ h \in Block
    BY BitIs
  <2>2. K \in Nat \ {0} /\ i - j * K \in 0..(K - 1)
    BY <1>4, <2>1, Inside DEF j
  <2>3. h.order \in Nat /\ k \in 0..c.order
    <3>1. h.order \in Levels
      BY <2>1, Numbered
    <3> QED
      BY <1>2, <1>4, <3>1, OrdersAre
  <2>4. Pages[m] = Pages[l] * K
    <3>1. l \in 0..32 /\ k \in 0..(32 - l) /\ l + k = m
      BY <1>1, <1>2, <2>3
    <3> QED
      BY <3>1, PagesTimes
  <2> HIDE DEF d, m, i, k, K
  <2>5. d + 1 = (Pages[l] + j) * K + (i - j * K) /\ Pages[l] + j \in Int
    BY <1>1, <2>1, <2>2, <2>4
  <2>6. (d + 1) \div K = Pages[l] + j
    <3> DEFINE q == Pages[l] + j
               r == i - j * K
    <3>1. q \in Int /\ r \in 0..(K - 1) /\ d + 1 = q * K + r
      BY <2>2, <2>5
    <3> HIDE DEF q, r
    <3>2. (q * K + r) \div K = q
      BY <2>2, <3>1, Quotient
    <3> QED
      BY <3>1, <3>2 DEF q
  <2>7. d \in Bits(H)
    BY DEF Bits, d
  <2>8. bit + 1 = Pages[l] + j
    BY <1>1
  <2> QED
    BY <2>3, <2>6, <2>7, <2>8 DEF K
<1>5. ASSUME NEW d \in Bits(H), NEW k \in 0..c.order, (d + 1) \div Pages[k] = bit + 1
      PROVE  \E h \in H : h.order <= c.order /\ PagesOf(h) \subseteq PagesOf(c)
  <2>1. PICK h \in H : d = Bit(h.addr, Level(h.order))
    BY DEF Bits
  <2> DEFINE m == Orders - h.order
             i == h.addr \div Pages[h.order]
             K == Pages[k]
             r == (d + 1) % K
  <2>2. /\ d = Pages[m] - 1 + i /\ m \in 0..31 /\ Pages[m] \in Nat \ {0} /\ i \in 0..(Pages[m] - 1)
        /\ h \in Block
    BY <2>1, BitIs
  <2>3. K \in Nat \ {0} /\ k \in 0..(32 - l) /\ l + k \in 0..31
    <3>1. k \in 0..32 /\ k \in 0..(32 - l) /\ l + k \in 0..31
      BY <1>2
    <3> QED
      BY <3>1, PagesGrow
  <2>4. Pages[l + k] = Pages[l] * K
    <3>1. l \in 0..32
      BY <1>1
    <3> QED
      BY <2>3, <3>1, PagesTimes
  <2> HIDE DEF m, i, K
  <2>5. d + 1 \in Int /\ d + 1 = Pages[m] + i
    BY <2>2
  <2>6. d + 1 = (bit + 1) * K + r /\ r \in 0..(K - 1)
    BY <1>5, <2>3, <2>5, Divides DEF K
  <2> HIDE DEF r
  <2>7. d + 1 = Pages[l] * K + (j * K + r) /\ j * K + r \in Nat
    <3>1. bit + 1 = Pages[l] + j /\ j \in Nat
      BY <1>1
    <3>2. j * K \in Nat
      BY <2>3, <3>1
    <3> QED
      BY <1>1, <2>3, <2>6, <3>1, <3>2
  <2>8. j * K + r < Pages[l] * K
    <3>1. j * K + K <= Pages[l] * K
      BY <1>1, <2>3, Below
    <3>2. j * K \in Int /\ Pages[l] * K \in Int
      BY <1>1, <2>3
    <3> QED
      BY <2>3, <2>6, <3>1, <3>2
  <2>9. m = l + k /\ i = j * K + r
    <3> DEFINE y == j * K + r
    <3>1. y \in 0..(Pages[l + k] - 1) /\ Pages[m] + i = Pages[l + k] + y
      <4>1. Pages[l + k] \in Nat
        <5>1. l + k \in 0..32
          BY <2>3
        <5> QED
          BY <5>1, PagesGrow
      <4> QED
        BY <2>4, <2>5, <2>7, <2>8, <4>1
    <3> HIDE DEF y, l
    <3>3. SameNumber(m, l + k, i, y)
      BY <2>2, <2>3, <3>1 DEF SameNumber
    <3>2. m = l + k /\ i = y
      BY <3>3, Leading
    <3> QED
      BY <3>2 DEF y
  <2>10. c.order - h.order = k /\ h.order <= c.order
    <3>2. h.order \in Int
      BY <2>2, OrderOf
    <3> QED
      BY <1>2, <2>9, <3>2 DEF m
  <2>11. i - j * K = r
    BY <1>1, <2>3, <2>6, <2>9
  <2>12. PagesOf(h) \subseteq PagesOf(c)
    <3>1. i - j * Pages[c.order - h.order] \in 0..(Pages[c.order - h.order] - 1)
      BY <2>6, <2>10, <2>11 DEF K
    <3> QED
      BY <2>2, <2>10, <3>1, Inside DEF i, j
  <2> QED
    BY <2>10, <2>12
<1>6. ASSUME bit \in Bits(H) PROVE \E d \in Bits(H), k \in 0..c.order : (d + 1) \div Pages[k] = bit + 1
  <2>1. bit + 1 \in Int /\ Pages[0] = 1 /\ 0 \in 0..c.order
    BY <1>1, <1>2, PagesDouble
  <2>2. (bit + 1) \div 1 = bit + 1
    BY <2>1
  <2> QED
    BY <1>6, <2>1, <2>2
<1> QED
  BY <1>3, <1>4, <1>5, <1>6

-------------------------------------------------------------------------------
\* What the free lists hold, as sequences and as blocks.
Lists(fl) == fl \in [Levels -> Seq(Memory)] /\ \A o \in Levels : IsInjective(fl[o])

Blk(a, o) == [addr |-> a, order |-> o]

LEMMA Listed ==
  ASSUME NEW fl, NEW b
  PROVE  b \in BlocksIn(fl) <=> b = Blk(b.addr, b.order) /\ b.order \in Levels /\ b.addr \in ToSet(fl[b.order])
BY DEF BlocksIn, Blk

LEMMA ListedAt ==
  ASSUME NEW fl, NEW a, NEW o \in Levels
  PROVE  Blk(a, o) \in BlocksIn(fl) <=> a \in ToSet(fl[o])
BY Listed DEF Blk

LEMMA Pushed ==
  ASSUME NEW fl, Lists(fl), NEW o \in Levels, NEW a \in Memory, Blk(a, o) \notin BlocksIn(fl)
  PROVE  Lists(PushTail(fl, o, a)) /\ BlocksIn(PushTail(fl, o, a)) = BlocksIn(fl) \cup {Blk(a, o)}
<1> DEFINE gl == PushTail(fl, o, a)
<1>1. fl \in [Levels -> Seq(Memory)] /\ \A m \in Levels : IsInjective(fl[m])
  BY DEF Lists
<1>2. a \notin ToSet(fl[o])
  BY ListedAt
<1>3. Append(fl[o], a) \in Seq(Memory) /\ IsInjective(Append(fl[o], a))
      /\ ToSet(Append(fl[o], a)) = ToSet(fl[o]) \cup {a}
  BY <1>1, <1>2, AppendOne
<1>4. gl = [fl EXCEPT ![o] = Append(fl[o], a)]
  BY DEF PushTail
<1>5. \A m \in Levels : gl[m] = IF m = o THEN Append(fl[o], a) ELSE fl[m]
  BY <1>1, <1>4
<1>6. Lists(gl)
  BY <1>1, <1>3, <1>4, <1>5 DEF Lists
<1> HIDE DEF gl
<1>7. ASSUME NEW b PROVE b \in BlocksIn(gl) <=> b \in BlocksIn(fl) \/ b = Blk(a, o)
  <2>1. CASE b = Blk(a, o)
    <3>1. a \in ToSet(gl[o])
      BY <1>3, <1>5
    <3> QED
      BY <2>1, <3>1, ListedAt
  <2>2. CASE b # Blk(a, o)
    <3>1. b.order \in Levels /\ b = Blk(b.addr, b.order) =>
            (b.addr \in ToSet(gl[b.order]) <=> b.addr \in ToSet(fl[b.order]))
      BY <1>3, <1>5, <2>2
    <3> QED
      BY <2>2, <3>1, Listed
  <2> QED
    BY <2>1, <2>2
<1> QED
  BY <1>6, <1>7 DEF gl

LEMMA Popped ==
  ASSUME NEW fl, Lists(fl), NEW o \in Levels, fl[o] # <<>>
  PROVE  /\ Lists(PopHead(fl, o)) /\ Blk(Head(fl[o]), o) \in BlocksIn(fl)
         /\ BlocksIn(PopHead(fl, o)) = BlocksIn(fl) \ {Blk(Head(fl[o]), o)}
<1> DEFINE gl == PopHead(fl, o)
           a == Head(fl[o])
<1>1. fl \in [Levels -> Seq(Memory)] /\ \A m \in Levels : IsInjective(fl[m])
  BY DEF Lists
<1>2. /\ Tail(fl[o]) \in Seq(Memory) /\ IsInjective(Tail(fl[o])) /\ a \in ToSet(fl[o])
      /\ ToSet(Tail(fl[o])) = ToSet(fl[o]) \ {a}
  BY <1>1, TailOne
<1>3. gl = [fl EXCEPT ![o] = Tail(fl[o])]
  BY DEF PopHead
<1>4. \A m \in Levels : gl[m] = IF m = o THEN Tail(fl[o]) ELSE fl[m]
  BY <1>1, <1>3
<1>5. Lists(gl)
  BY <1>1, <1>2, <1>3, <1>4 DEF Lists
<1> HIDE DEF gl, a
<1>6. Blk(a, o) \in BlocksIn(fl)
  BY <1>2, ListedAt
<1>7. ASSUME NEW b PROVE b \in BlocksIn(gl) <=> b \in BlocksIn(fl) /\ b # Blk(a, o)
  <2>1. CASE b = Blk(a, o)
    <3>1. a \notin ToSet(gl[o])
      BY <1>2, <1>4
    <3> QED
      BY <2>1, <3>1, ListedAt
  <2>2. CASE b # Blk(a, o)
    <3>1. b.order \in Levels /\ b = Blk(b.addr, b.order) =>
            (b.addr \in ToSet(gl[b.order]) <=> b.addr \in ToSet(fl[b.order]))
      BY <1>2, <1>4, <2>2
    <3> QED
      BY <2>2, <3>1, Listed
  <2> QED
    BY <2>1, <2>2
<1> QED
  BY <1>5, <1>6, <1>7 DEF gl, a

LEMMA Unlinked ==
  ASSUME NEW fl, Lists(fl), NEW o, NEW a, \A b \in BlocksIn(fl) : b.addr = a => b.order = o
  PROVE  Lists(Unlink(fl, a)) /\ BlocksIn(Unlink(fl, a)) = BlocksIn(fl) \ {Blk(a, o)}
<1> DEFINE gl == Unlink(fl, a)
<1>1. fl \in [Levels -> Seq(Memory)] /\ \A m \in Levels : IsInjective(fl[m])
  BY DEF Lists
<1>2. ASSUME NEW m \in Levels
      PROVE  /\ RemoveFirst(fl[m], a) \in Seq(Memory) /\ IsInjective(RemoveFirst(fl[m], a))
             /\ ToSet(RemoveFirst(fl[m], a)) = ToSet(fl[m]) \ {a}
  BY <1>1, RemoveOne
<1>3. gl = [m \in Levels |-> RemoveFirst(fl[m], a)]
  BY DEF Unlink
<1>4. Lists(gl)
  BY <1>2, <1>3 DEF Lists
<1>5. \A m \in Levels : ToSet(gl[m]) = ToSet(fl[m]) \ {a}
  BY <1>2, <1>3
<1> HIDE DEF gl
<1>6. ASSUME NEW b PROVE b \in BlocksIn(gl) <=> b \in BlocksIn(fl) /\ b # Blk(a, o)
  <2>1. CASE b.addr = a
    <3>1. b \in BlocksIn(fl) => b = Blk(a, o)
      BY <2>1, Listed
    <3>2. b \notin BlocksIn(gl)
      BY <1>5, <2>1, Listed
    <3> QED
      BY <3>1, <3>2
  <2>2. CASE b.addr # a
    <3>1. b # Blk(a, o)
      BY <2>2 DEF Blk
    <3>2. b.order \in Levels => (b.addr \in ToSet(gl[b.order]) <=> b.addr \in ToSet(fl[b.order]))
      BY <1>5, <2>2
    <3> QED
      BY <3>1, <3>2, Listed
  <2> QED
    BY <2>1, <2>2
<1> QED
  BY <1>4, <1>6 DEF gl

-------------------------------------------------------------------------------
\* Blocks that fill the memory and do not overlap.
Apart(B) == \A b, c \in B : \A p \in PagesOf(b) : p \in PagesOf(c) => b = c
Tiles(B) == B \subseteq Block /\ Apart(B) /\ \A p \in Memory : \E b \in B : p \in PagesOf(b)

LEMMA TilesMerge ==
  ASSUME NEW B, Tiles(B), NEW b \in B, b.order < Orders, Half(b) \in B
  PROVE  Whole(b) \notin B /\ Tiles((B \ {b, Half(b)}) \cup {Whole(b)})
<1> DEFINE l == b
           r == Half(b)
           w == Whole(b)
<1>1. /\ l \in Block /\ r \in Block /\ w \in Block
      /\ PagesOf(w) = PagesOf(l) \cup PagesOf(r)
      /\ w.order = b.order + 1 /\ b.order \in Int
  BY Halves, OrderOf DEF Tiles, Whole
<1>2. l.addr \in PagesOf(l)
  BY <1>1, OwnPages
<1>3. w \notin B
  <2>1. w # b
    BY <1>1
  <2> QED
    BY <1>1, <1>2, <2>1 DEF Tiles, Apart
<1> DEFINE C == (B \ {l, r}) \cup {w}
<1> HIDE DEF l, r, w
<1>4. ASSUME NEW c \in B \ {l, r}, NEW p \in PagesOf(c), p \in PagesOf(w) PROVE FALSE
  BY <1>1, <1>4 DEF Tiles, Apart, l, r
<1>5. Apart(C)
  <2> SUFFICES ASSUME NEW x \in C, NEW y \in C, NEW p \in PagesOf(x), p \in PagesOf(y) PROVE x = y
    BY DEF Apart
  <2> QED
    BY <1>4 DEF Tiles, Apart
<1>6. C \subseteq Block
  BY <1>1 DEF Tiles
<1>7. ASSUME NEW p \in Memory PROVE \E c \in C : p \in PagesOf(c)
  <2>1. PICK c \in B : p \in PagesOf(c)
    BY DEF Tiles
  <2> QED
    BY <1>1, <2>1
<1> QED
  BY <1>3, <1>5, <1>6, <1>7 DEF Tiles, l, r, w

LEMMA TilesSplit ==
  ASSUME NEW B, Tiles(B), NEW b \in Block, b.order < Orders, Whole(b) \in B
  PROVE  /\ b \notin B /\ Half(b) \notin B
         /\ Tiles((B \ {Whole(b)}) \cup {b, Half(b)})
<1> DEFINE l == b
           r == Half(b)
           w == Whole(b)
<1>1. /\ l \in Block /\ r \in Block /\ w \in Block /\ PagesOf(w) = PagesOf(l) \cup PagesOf(r)
      /\ PagesOf(l) \cap PagesOf(r) = {}
      /\ w.order = b.order + 1 /\ b.order \in Int /\ r.order = b.order
  BY Halves, OrderOf DEF Tiles, Whole, Half
<1>2. l.addr \in PagesOf(l) /\ r.addr \in PagesOf(r)
  BY <1>1, OwnPages
<1>3. l \notin B /\ r \notin B
  <2>1. w # l /\ w # r
    BY <1>1
  <2> QED
    BY <1>1, <1>2, <2>1 DEF Tiles, Apart
<1> DEFINE C == (B \ {w}) \cup {l, r}
<1> HIDE DEF l, r, w
<1>4. ASSUME NEW c \in B \ {w}, NEW p \in PagesOf(c), p \in PagesOf(w) PROVE FALSE
  BY <1>1, <1>4 DEF Tiles, Apart, w
<1>5. Apart(C)
  <2> SUFFICES ASSUME NEW x \in C, NEW y \in C, NEW p \in PagesOf(x), p \in PagesOf(y) PROVE x = y
    BY DEF Apart
  <2>1. CASE x \in B \ {w} /\ y \in B \ {w}
    BY <2>1 DEF Tiles, Apart
  <2>2. CASE x \in {l, r} /\ y \in {l, r}
    BY <1>1, <2>2
  <2>3. CASE x \in B \ {w} /\ y \in {l, r}
    BY <1>1, <1>4, <2>3
  <2>4. CASE x \in {l, r} /\ y \in B \ {w}
    BY <1>1, <1>4, <2>4
  <2> QED
    BY <2>1, <2>2, <2>3, <2>4
<1>6. C \subseteq Block
  BY <1>1 DEF Tiles
<1>7. ASSUME NEW p \in Memory PROVE \E c \in C : p \in PagesOf(c)
  <2>1. PICK c \in B : p \in PagesOf(c)
    BY DEF Tiles
  <2> QED
    BY <1>1, <2>1
<1> QED
  BY <1>3, <1>5, <1>6, <1>7 DEF Tiles, l, r, w

-------------------------------------------------------------------------------
\* The free lists and the blocks H that are held share out the memory.
Good(fl, H) ==
  Lists(fl) /\ Tiles(BlocksIn(fl) \cup H) /\ BlocksIn(fl) \cap H = {}

Settled(fl, order) == fl[order] # <<>> \/ \A o \in (order + 1)..Orders : fl[o] = <<>>

\* The order that is split is the smallest one that has a block.
NextSize(fl, order, i) ==
  /\ i \in (order + 1)..Orders /\ fl[i] # <<>>
  /\ \A o \in order..(i - 1) : fl[o] = <<>>

SplitAt(fl, i) ==
  PushTail(PushTail(PopHead(fl, i), i - 1, Head(fl[i])), i - 1, BuddyOf(Head(fl[i]), i - 1))

LEMMA SplitOnceIs ==
  ASSUME NEW fl, NEW order \in Levels
  PROVE  \/ Settled(fl, order) /\ SplitOnce(fl, order) = fl
         \/ \E i : NextSize(fl, order, i) /\ SplitOnce(fl, order) = SplitAt(fl, i)
<1>1. order \in Nat /\ Orders \in Nat
  BY OrdersAre
<1>2. CASE Settled(fl, order)
  BY <1>2 DEF Settled, SplitOnce, Larger
<1>3. CASE ~Settled(fl, order)
  <2> DEFINE P == Larger(fl, order)
             least(i) == i \in P /\ \A j \in P : i <= j
             i == CHOOSE i \in P : \A j \in P : i <= j
  <2>1. P \in SUBSET Nat /\ P # {} /\ fl[order] = <<>>
    BY <1>1, <1>3 DEF Settled, Larger
  <2>2. i \in P /\ \A j \in P : i <= j
    <3>1. \E x \in P : \A j \in P : x <= j
      <4> HIDE DEF P
      <4> QED
        BY <2>1, Least
    <3> QED
      BY <3>1
  <2>3. SplitOnce(fl, order) = SplitAt(fl, i)
    BY <2>1 DEF SplitOnce, SplitAt
  <2> HIDE DEF i
  <2>4. i \in (order + 1)..Orders /\ fl[i] # <<>>
    BY <2>2 DEF Larger
  <2>5. ASSUME NEW o \in order..(i - 1) PROVE fl[o] = <<>>
    <3>1. CASE o = order
      BY <2>1, <3>1
    <3>2. CASE o # order
      <4>1. o \in (order + 1)..Orders /\ ~(i <= o)
        BY <1>1, <2>4, <3>2
      <4> QED
        BY <2>2, <4>1 DEF Larger
    <3> QED
      BY <3>1, <3>2
  <2>6. NextSize(fl, order, i)
    BY <2>4, <2>5 DEF NextSize
  <2> QED
    BY <2>3, <2>6
<1> QED
  BY <1>2, <1>3

LEMMA SplitAtDoes ==
  ASSUME NEW fl, NEW H, Good(fl, H), NEW i \in 1..Orders, fl[i] # <<>>
  PROVE  LET l == Blk(Head(fl[i]), i - 1)
         IN  /\ Good(SplitAt(fl, i), H) /\ l \in Block /\ l.order < Orders
             /\ Whole(l) = Blk(Head(fl[i]), i) /\ Whole(l) \in BlocksIn(fl)
             /\ BlocksIn(SplitAt(fl, i)) = (BlocksIn(fl) \ {Whole(l)}) \cup {l, Half(l)}
             /\ \A o \in Levels : o \notin {i - 1, i} => SplitAt(fl, i)[o] = fl[o]
             /\ fl[i - 1] = <<>> => ToSet(SplitAt(fl, i)[i - 1]) = {l.addr, Half(l).addr}
<1> DEFINE a == Head(fl[i])
           c == Blk(a, i)
           l == Blk(a, i - 1)
           r == Half(l)
           f1 == PopHead(fl, i)
           f2 == PushTail(f1, i - 1, a)
           f3 == PushTail(f2, i - 1, r.addr)
           B == BlocksIn(fl)
<1>1. i \in Levels /\ i - 1 \in Levels /\ i > 0
  <2>1. Orders \in Nat /\ Levels = 0..Orders
    BY LevelsAre
  <2> QED
    BY <2>1
<1>2. Lists(fl) /\ Tiles(B \cup H) /\ B \cap H = {}
  BY DEF Good
<1>3. Lists(f1) /\ c \in B /\ BlocksIn(f1) = B \ {c}
  BY <1>1, <1>2, Popped
<1>4. c \in Block /\ c.order > 0
  BY <1>1, <1>2, <1>3 DEF Tiles, Blk
<1>5. l \in Block /\ l.order < Orders /\ Whole(l) = c
  <2>1. l = [addr |-> c.addr, order |-> c.order - 1]
    BY DEF Blk
  <2> HIDE DEF l, c
  <2> QED
    BY <1>4, <2>1, LowerHalf
<1>6. /\ l \notin B \cup H /\ r \notin B \cup H
      /\ Tiles(((B \cup H) \ {c}) \cup {l, r})
  <2> HIDE DEF l, c, B
  <2> QED
    BY <1>2, <1>3, <1>5, TilesSplit
<1>7. r \in Block /\ r # l /\ r = Blk(r.addr, i - 1) /\ r.addr \in Memory /\ a \in Memory
  <2>1. r \in Block /\ r # l
    BY <1>5, Halves
  <2> QED
    BY <1>5, <2>1 DEF Half, Blk, Block
<1>8. SplitAt(fl, i) = f3
  BY DEF SplitAt, Half, Blk
<1>9. Lists(f2) /\ BlocksIn(f2) = BlocksIn(f1) \cup {l}
  <2>1. Blk(a, i - 1) \notin BlocksIn(f1)
    BY <1>3, <1>6
  <2> HIDE DEF f1, a
  <2> QED
    BY <1>1, <1>3, <1>7, <2>1, Pushed
<1>10. Lists(f3) /\ BlocksIn(f3) = BlocksIn(f2) \cup {r}
  <2>1. Blk(r.addr, i - 1) \notin BlocksIn(f2)
    BY <1>3, <1>6, <1>7, <1>9
  <2>2. Lists(f2) /\ i - 1 \in Levels /\ r.addr \in Memory
    BY <1>1, <1>7, <1>9
  <2> HIDE DEF f2, r
  <2>3. Lists(f3) /\ BlocksIn(f3) = BlocksIn(f2) \cup {Blk(r.addr, i - 1)}
    BY <2>1, <2>2, Pushed
  <2> QED
    BY <1>7, <2>3
<1>11. BlocksIn(f3) = (B \ {c}) \cup {l, r}
  BY <1>3, <1>9, <1>10
<1>12. Good(f3, H)
  <2>1. BlocksIn(f3) \cup H = ((B \cup H) \ {c}) \cup {l, r}
    BY <1>2, <1>3, <1>11
  <2>2. BlocksIn(f3) \cap H = {}
    BY <1>2, <1>6, <1>11
  <2> HIDE DEF f3, B, c, l, r
  <2> QED
    BY <1>6, <1>10, <2>1, <2>2 DEF Good
<1>13. /\ DOMAIN fl = Levels
       /\ \A o \in Levels : o \notin {i - 1, i} => f3[o] = fl[o]
  BY <1>1, <1>2 DEF Lists, PopHead, PushTail
<1>14. ASSUME fl[i - 1] = <<>> PROVE ToSet(f3[i - 1]) = {a, r.addr}
  <2>1. ASSUME NEW x PROVE x \in ToSet(f3[i - 1]) <=> x = a \/ x = r.addr
    <3>1. x \in ToSet(f3[i - 1]) <=> Blk(x, i - 1) \in BlocksIn(f3)
      BY <1>1, ListedAt
    <3>2. Blk(x, i - 1) \notin B
      <4>1. x \notin ToSet(fl[i - 1])
        BY <1>14 DEF ToSet
      <4> QED
        BY <1>1, <4>1, ListedAt
    <3>3. Blk(x, i - 1) = l <=> x = a
      BY DEF Blk
    <3>4. Blk(x, i - 1) = r <=> x = r.addr
      BY <1>7 DEF Blk
    <3> HIDE DEF f3, B, c, l, r
    <3> QED
      BY <1>11, <3>1, <3>2, <3>3, <3>4
  <2> QED
    BY <2>1
<1>15. l.addr = a
  BY DEF Blk
<1> HIDE DEF f3, B, l, r, c
<1> QED
  BY <1>3, <1>5, <1>8, <1>11, <1>12, <1>13, <1>14, <1>15 DEF l, c, r, B

-------------------------------------------------------------------------------
\* Two halves that are both free, and what is known of them while a call splits.
Pair(fl, b) == b \in BlocksIn(fl) /\ b.order < Orders /\ Half(b) \in BlocksIn(fl)

PairsLast(fl, order) ==
  \A b : Pair(fl, b) => /\ order <= b.order /\ ToSet(fl[b.order]) = {b.addr, Half(b).addr}
                        /\ \A o \in order..(b.order - 1) : fl[o] = <<>>

LEMMA SplitKeepsPairs ==
  ASSUME NEW fl, NEW H, Good(fl, H), NEW order \in Levels, PairsLast(fl, order),
         NEW i, NextSize(fl, order, i)
  PROVE  PairsLast(SplitAt(fl, i), order)
<1> DEFINE l == Blk(Head(fl[i]), i - 1)
           r == Half(l)
           w == Whole(l)
           gl == SplitAt(fl, i)
<1>1. /\ order \in Nat /\ i \in 1..Orders /\ i \in (order + 1)..Orders /\ fl[i] # <<>>
      /\ \A o \in order..(i - 1) : fl[o] = <<>>
      /\ Orders \in Nat /\ Levels = 0..Orders
  <2>1. order \in 0..Orders /\ Orders \in Nat /\ Levels = 0..Orders
    BY OrdersAre
  <2> QED
    BY <2>1 DEF NextSize
<1>2. i - 1 \in order..(i - 1)
  BY <1>1
<1>3. /\ l \in Block /\ l.order < Orders /\ w = Blk(Head(fl[i]), i) /\ w \in BlocksIn(fl)
      /\ BlocksIn(gl) = (BlocksIn(fl) \ {w}) \cup {l, r}
      /\ \A o \in Levels : o \notin {i - 1, i} => gl[o] = fl[o]
      /\ ToSet(gl[i - 1]) = {l.addr, r.addr}
  BY <1>1, <1>2, SplitAtDoes
<1>4. r \in Block /\ Half(r) = l /\ l.order = i - 1 /\ r.order = i - 1
  <2>1. l.order = i - 1
    BY DEF Blk
  <2> HIDE DEF l
  <2> QED
    BY <1>3, <2>1, Halves DEF Half
<1>5. ASSUME NEW b, Pair(gl, b), b \in {l, r}
      PROVE  /\ order <= b.order /\ ToSet(gl[b.order]) = {b.addr, Half(b).addr}
             /\ \A o \in order..(b.order - 1) : gl[o] = <<>>
  <2>1. b.order = i - 1 /\ {b.addr, Half(b).addr} = {l.addr, r.addr}
    BY <1>4, <1>5
  <2>2. ASSUME NEW o \in order..(i - 2) PROVE gl[o] = <<>>
    <3>1. o \in Levels /\ o \notin {i - 1, i} /\ o \in order..(i - 1)
      BY <1>1
    <3> QED
      BY <1>1, <1>3, <3>1
  <2>3. (i - 1) - 1 = i - 2 /\ order <= i - 1
    BY <1>1
  <2> HIDE DEF gl, l, r
  <2> QED
    BY <1>3, <2>1, <2>2, <2>3
<1>6. ASSUME NEW b, Pair(gl, b), b \notin {l, r} PROVE FALSE
  <2>1. b \in BlocksIn(fl) /\ b # w /\ Half(b) \in BlocksIn(gl) /\ b.order < Orders
    BY <1>3, <1>6 DEF Pair
  <2>2. b \in Block
    BY <2>1 DEF Good, Tiles
  <2>3. Half(Half(b)) = b
    BY <2>1, <2>2, Halves
  <2>4. Half(b) \in BlocksIn(fl) /\ Half(b) # w
    BY <1>3, <1>4, <1>6, <2>1, <2>3
  <2>5. /\ order <= b.order /\ ToSet(fl[b.order]) = {b.addr, Half(b).addr}
        /\ \A o \in order..(b.order - 1) : fl[o] = <<>>
    BY <2>1, <2>4 DEF PairsLast, Pair
  <2>6. b.order \in Levels /\ b.order \in Int /\ b = Blk(b.addr, b.order)
        /\ Half(b) = Blk(Half(b).addr, b.order)
    BY <2>2, OrderOf, Numbered DEF Blk, Half
  <2>7. b.order = i
    <3>1. ~(b.order < i)
      <4>1. ASSUME b.order < i PROVE FALSE
        <5>1. b.order \in order..(i - 1)
          BY <1>1, <2>5, <2>6, <4>1
        <5>2. fl[b.order] = <<>>
          BY <1>1, <5>1
        <5>3. b.addr \in ToSet(fl[b.order])
          BY <2>5
        <5> QED
          BY <5>2, <5>3 DEF ToSet
      <4> QED
        BY <4>1
    <3>2. ~(i < b.order)
      <4>1. ASSUME i < b.order PROVE FALSE
        <5>1. i \in order..(b.order - 1)
          BY <1>1, <2>6, <4>1
        <5> QED
          BY <1>1, <2>5, <5>1
      <4> QED
        BY <4>1
    <3> QED
      BY <1>1, <2>6, <3>1, <3>2
  <2>8. Head(fl[i]) \in ToSet(fl[i])
    <3>1. w = Blk(Head(fl[i]), i) /\ w \in BlocksIn(fl) /\ i \in Levels
      BY <1>1, <1>3
    <3> QED
      BY <3>1, ListedAt
  <2>9. w \in {b, Half(b)}
    BY <1>3, <2>5, <2>6, <2>7, <2>8
  <2> QED
    BY <2>1, <2>4, <2>9
<1> HIDE DEF gl, l, r
<1> QED
  BY <1>5, <1>6 DEF PairsLast, gl

\* The passes of the loop that splits.
SplitSteps(f, fl, H, order) ==
  /\ f[0] = fl /\ f[Orders] = SplitDown(fl, order)
  /\ \A n \in 0..Orders : Good(f[n], H) /\ PairsLast(f[n], order)
  /\ \A n \in 1..Orders : f[n] = SplitOnce(f[n - 1], order)

LEMMA SplitWalk ==
  ASSUME NEW fl, NEW H, Good(fl, H), NEW order \in Levels, PairsLast(fl, order)
  PROVE  \E f : SplitSteps(f, fl, H, order)
<1> DEFINE L == {g \in [Levels -> Seq(Memory)] : Good(g, H) /\ PairsLast(g, order)}
           step == [x \in L \X (1..Orders) |-> SplitOnce(x[1], order)]
           fits(f) == f = [pass \in 0..Orders |-> IF pass = 0 THEN fl ELSE SplitOnce(f[pass - 1], order)]
           after == CHOOSE f : fits(f)
<1>0. Orders \in Nat
  BY LevelsAre
<1>1. ASSUME NEW g \in L PROVE SplitOnce(g, order) \in L
  <2>1. Good(g, H) /\ PairsLast(g, order)
    OBVIOUS
  <2>2. CASE SplitOnce(g, order) = g
    BY <2>2
  <2>3. CASE \E i : NextSize(g, order, i) /\ SplitOnce(g, order) = SplitAt(g, i)
    <3>1. PICK i : NextSize(g, order, i) /\ SplitOnce(g, order) = SplitAt(g, i)
      BY <2>3
    <3>2. PairsLast(SplitAt(g, i), order)
      BY <2>1, <3>1, SplitKeepsPairs
    <3>3. i \in 1..Orders /\ g[i] # <<>>
      <4>1. order \in 0..Orders
        BY OrdersAre
      <4> QED
        BY <1>0, <3>1, <4>1 DEF NextSize
    <3>4. Good(SplitAt(g, i), H)
      BY <2>1, <3>3, SplitAtDoes
    <3>5. SplitAt(g, i) \in [Levels -> Seq(Memory)]
      BY <3>4 DEF Good, Lists
    <3> QED
      BY <3>1, <3>2, <3>4, <3>5
  <2> QED
    BY <2>2, <2>3, SplitOnceIs
<1>2. step \in [L \X (1..Orders) -> L] /\ fl \in L
  <2>1. fl \in L
    BY DEF Good, Lists
  <2> HIDE DEF L
  <2> QED
    BY <1>1, <2>1
<1>3. PICK f : IsWalk(f, Orders, L, fl, step)
  <2> HIDE DEF step, L
  <2> QED
    BY <1>0, <1>2, WalkExists
<1>4. ASSUME NEW n \in 1..Orders PROVE f[n] = SplitOnce(f[n - 1], order)
  <2> HIDE DEF L
  <2>1. <<f[n - 1], n>> \in L \X (1..Orders)
    <3>1. n - 1 \in 0..Orders
      BY <1>0
    <3> QED
      BY <1>3, <3>1 DEF IsWalk
  <2>2. f[n] = step[<<f[n - 1], n>>]
    BY <1>3 DEF IsWalk
  <2> QED
    BY <2>1, <2>2
<1>5. fits(f)
  <2>1. \A n \in 0..Orders : f[n] = IF n = 0 THEN fl ELSE SplitOnce(f[n - 1], order)
    <3>1. \A n \in 0..Orders : n = 0 \/ n \in 1..Orders
      BY <1>0
    <3>2. f[0] = fl
      BY <1>3 DEF IsWalk
    <3> QED
      BY <1>4, <3>1, <3>2
  <2>2. f = [n \in 0..Orders |-> f[n]]
    BY <1>3 DEF IsWalk
  <2> HIDE DEF L
  <2> QED
    BY <2>1, <2>2
<1>6. fits(after)
  <2> HIDE DEF fits
  <2> QED
    BY <1>5
<1>7. SplitDown(fl, order) = after[Orders]
  BY Zenon DEF SplitDown
<1> HIDE DEF after
<1>8. \A n \in 0..Orders : after[n] = f[n]
  <2>1. after[0] = f[0]
    BY <1>0, <1>5, <1>6
  <2>2. \A n \in 1..Orders : after[n] = SplitOnce(after[n - 1], order)
    <3>1. \A n \in 1..Orders : n \in 0..Orders /\ n # 0
      BY <1>0
    <3> QED
      BY <1>6, <3>1
  <2>3. Alike(after, f, Orders)
    BY <1>4, <2>1, <2>2 DEF Alike
  <2> QED
    BY <1>0, <2>3, WalksAgree
<1>9. Orders \in 0..Orders
  BY <1>0
<1>10. \A n \in 0..Orders : f[n] \in L
  BY <1>3 DEF IsWalk
<1>11. f[0] = fl
  BY <1>3 DEF IsWalk
<1>12. SplitSteps(f, fl, H, order)
  BY <1>4, <1>7, <1>8, <1>9, <1>10, <1>11 DEF SplitSteps
<1> QED
  BY <1>12

\* Splitting ends with a block of the order, or there is none as large.
LEMMA SplitDownDoes ==
  ASSUME NEW fl, NEW H, Good(fl, H), NEW order \in Levels, \A b : ~Pair(fl, b)
  PROVE  LET gl == SplitDown(fl, order)
         IN  Good(gl, H) /\ PairsLast(gl, order) /\ Settled(gl, order)
<1>0. Orders \in Nat /\ order \in 0..Orders /\ Levels = 0..Orders
  BY OrdersAre
<1>1. PairsLast(fl, order)
  BY DEF PairsLast
<1>2. PICK f : SplitSteps(f, fl, H, order)
  BY <1>1, SplitWalk
<1> DEFINE P == {n \in 0..Orders : Settled(f[n], order) \/
                    \E i : NextSize(f[n], order, i) /\ i <= Orders - n}
<1>3. ASSUME NEW g, NEW n \in 0..Orders, ~Settled(g, order), SplitOnce(g, order) # g \/ ~Settled(g, order)
      PROVE  \E i : NextSize(g, order, i) /\ SplitOnce(g, order) = SplitAt(g, i)
  BY <1>3, SplitOnceIs
<1>4. 0 \in P
  <2>1. CASE ~Settled(f[0], order)
    <3>1. PICK i : NextSize(f[0], order, i)
      BY <1>0, <1>3, <2>1
    <3>2. i <= Orders - 0
      BY <1>0, <3>1 DEF NextSize
    <3> QED
      BY <1>0, <3>1, <3>2
  <2> QED
    BY <1>0, <2>1
<1>5. ASSUME NEW n \in 1..Orders, n - 1 \in P PROVE n \in P
  <2> DEFINE g == f[n - 1]
             h == f[n]
  <2>1. h = SplitOnce(g, order) /\ Good(g, H) /\ n - 1 \in 0..Orders
    <3>1. n - 1 \in 0..Orders
      BY <1>0
    <3> QED
      BY <1>2, <3>1 DEF SplitSteps
  <2> HIDE DEF g, h
  <2>2. CASE Settled(g, order)
    <3>1. ~ \E i : NextSize(g, order, i)
      <4>1. ASSUME NEW i, NextSize(g, order, i) PROVE FALSE
        <5>1. order \in order..(i - 1) /\ i \in (order + 1)..Orders /\ g[i] # <<>>
          BY <1>0, <4>1 DEF NextSize
        <5> QED
          BY <2>2, <4>1, <5>1 DEF Settled, NextSize
      <4> QED
        BY <4>1
    <3>2. h = g
      BY <2>1, <3>1, SplitOnceIs
    <3> QED
      BY <2>2, <3>2 DEF g, h
  <2>3. CASE ~Settled(g, order)
    <3>1. PICK i : NextSize(g, order, i) /\ h = SplitAt(g, i)
      BY <1>3, <2>1, <2>3
    <3>2. PICK j : NextSize(g, order, j) /\ j <= Orders - (n - 1)
      BY <1>5, <2>3 DEF g
    <3>3. i \in (order + 1)..Orders /\ j \in (order + 1)..Orders /\ g[i] # <<>> /\ g[j] # <<>>
          /\ (\A o \in order..(i - 1) : g[o] = <<>>) /\ \A o \in order..(j - 1) : g[o] = <<>>
      BY <3>1, <3>2 DEF NextSize
    <3>4. i = j
      <4>1. ~(i < j) /\ ~(j < i)
        <5>1. i < j => i \in order..(j - 1)
          BY <1>0, <3>3
        <5>2. j < i => j \in order..(i - 1)
          BY <1>0, <3>3
        <5> QED
          BY <3>3, <5>1, <5>2
      <4> QED
        BY <1>0, <3>3, <4>1
    <3>5. i \in 1..Orders /\ i - 1 \in Levels /\ i - 1 \in order..(i - 1)
      BY <1>0, <3>3
    <3>6. /\ \A o \in Levels : o \notin {i - 1, i} => h[o] = g[o]
          /\ ToSet(h[i - 1]) # {}
      <4> DEFINE l == Blk(Head(g[i]), i - 1)
                 hl == SplitAt(g, i)
      <4>1. g[i - 1] = <<>>
        BY <3>3, <3>5
      <4>2. /\ \A o \in Levels : o \notin {i - 1, i} => hl[o] = g[o]
            /\ ToSet(hl[i - 1]) = {l.addr, Half(l).addr}
        BY <2>1, <3>3, <3>5, <4>1, SplitAtDoes
      <4>3. ToSet(hl[i - 1]) # {}
        BY <4>2
      <4>4. h = hl
        BY <3>1
      <4> HIDE DEF hl
      <4> QED
        BY <4>2, <4>3, <4>4
    <3>7. h[i - 1] # <<>>
      BY <3>6 DEF ToSet
    <3>8. CASE i - 1 = order
      BY <3>7, <3>8 DEF Settled, h
    <3>9. CASE i - 1 # order
      <4>1. i - 1 \in (order + 1)..Orders
        BY <1>0, <3>3, <3>9
      <4>2. ASSUME NEW o \in order..((i - 1) - 1) PROVE h[o] = <<>>
        <5>1. o \in Levels /\ o \notin {i - 1, i} /\ o \in order..(i - 1)
          BY <1>0, <3>3
        <5> QED
          BY <3>3, <3>6, <5>1
      <4>3. NextSize(h, order, i - 1)
        BY <3>7, <4>1, <4>2 DEF NextSize
      <4>4. i - 1 <= Orders - n
        BY <1>0, <3>2, <3>3, <3>4
      <4> QED
        BY <1>0, <4>3, <4>4 DEF h
    <3> QED
      BY <3>8, <3>9
  <2> QED
    BY <2>2, <2>3
<1>6. Orders \in P
  <2> HIDE DEF P
  <2>1. Orders \in 0..Orders
    BY <1>0
  <2> QED
    BY <1>0, <1>4, <1>5, <2>1, Climb
<1>7. Settled(f[Orders], order)
  <2>1. ~ \E i : NextSize(f[Orders], order, i) /\ i <= Orders - Orders
    BY <1>0 DEF NextSize
  <2> QED
    BY <1>6, <2>1
<1>8. Orders \in 0..Orders
  BY <1>0
<1> QED
  BY <1>2, <1>7, <1>8 DEF SplitSteps

-------------------------------------------------------------------------------
\* Room that is not held is inside one free block, when no two halves smaller
\* than it are both free.
Spare(H, c) == \A h \in H : \A p \in PagesOf(h) : p \notin PagesOf(c)

LEMMA Covered ==
  ASSUME NEW fl, NEW H, Good(fl, H), NEW c \in Block, Spare(H, c),
         \A b : Pair(fl, b) => c.order <= b.order
  PROVE  \E b \in BlocksIn(fl) : c.order <= b.order /\ PagesOf(c) \subseteq PagesOf(b)
<1> DEFINE B == BlocksIn(fl)
<1>1. /\ B \subseteq Block /\ Apart(B \cup H) /\ Apart(B)
      /\ \A p \in Memory : \E b \in B \cup H : p \in PagesOf(b)
  BY DEF Good, Tiles, Apart
<1>2. c.addr \in PagesOf(c) /\ PagesOf(c) \subseteq Memory
  BY OwnPages
<1>3. ASSUME NEW p \in PagesOf(c) PROVE \E b \in B : p \in PagesOf(b)
  BY <1>1, <1>2 DEF Spare
<1>4. PICK t \in B : c.addr \in PagesOf(t)
  BY <1>2, <1>3
<1>5. CASE c.order <= t.order
  BY <1>1, <1>2, <1>4, <1>5, Nested
<1>6. CASE ~(c.order <= t.order)
  <2> DEFINE X == {b \in B : b.order <= c.order /\ b.order # c.order /\ \E p \in PagesOf(b) : p \in PagesOf(c)}
             sizes == {b.order : b \in X}
  <2>1. t \in X
    <3>1. t.order \in Int /\ c.order \in Int
      BY <1>1, OrderOf
    <3> QED
      BY <1>2, <1>4, <1>6, <3>1
  <2>2. sizes \in SUBSET Nat /\ sizes # {}
    <3>1. \A b \in X : b.order \in Nat
      BY <1>1, OrderOf
    <3> QED
      BY <2>1, <3>1
  <2>3. PICK x \in X : \A b \in X : x.order <= b.order
    <3>1. \E i \in sizes : \A j \in sizes : i <= j
      <4> HIDE DEF sizes
      <4> QED
        BY <2>2, Least
    <3> QED
      BY <3>1
  <2> DEFINE r == Half(x)
             w == Whole(x)
  <2>4. /\ x \in B /\ x \in Block /\ x.order \in Int /\ c.order \in Int /\ x.order < Orders
        /\ x.order < c.order /\ Orders \in Int
    <3>1. x \in Block /\ x.order <= c.order /\ x.order # c.order
      BY <1>1, <2>3
    <3>2. x.order \in Int /\ c.order \in Int /\ Orders \in Int /\ c.order <= Orders
      BY <3>1, OrderOf
    <3> QED
      BY <2>3, <3>1, <3>2
  <2>5. /\ r \in Block /\ w \in Block /\ PagesOf(w) = PagesOf(x) \cup PagesOf(r)
        /\ w.order = x.order + 1 /\ r.order = x.order
    BY <2>4, Halves DEF Whole, Half
  <2>6. x.addr \in PagesOf(x) /\ r.addr \in PagesOf(r)
    BY <2>4, <2>5, OwnPages
  <2> HIDE DEF r, w
  <2>7. PagesOf(w) \subseteq PagesOf(c)
    <3>1. PICK p \in PagesOf(x) : p \in PagesOf(c)
      BY <2>3
    <3>2. p \in PagesOf(w) /\ w.order <= c.order
      BY <2>4, <2>5, <3>1
    <3> QED
      BY <2>5, <3>1, <3>2, Nested
  <2>8. PICK u \in B : r.addr \in PagesOf(u)
    BY <1>3, <2>5, <2>6, <2>7
  <2>9. u \in Block /\ u.order \in Int
    BY <1>1, OrderOf
  <2>10. ~(u.order < x.order)
    <3>1. ASSUME u.order < x.order PROVE FALSE
      <4>1. u \in X
        BY <2>4, <2>5, <2>6, <2>7, <2>8, <2>9, <3>1
      <4> QED
        BY <2>3, <2>4, <2>9, <3>1, <4>1
    <3> QED
      BY <3>1
  <2>11. u.order # x.order
    <3>1. ASSUME u.order = x.order PROVE FALSE
      <4>1. r.order <= u.order /\ r.order = u.order
        BY <2>4, <2>5, <3>1
      <4>2. r = u
        BY <2>5, <2>6, <2>8, <2>9, <4>1, Nested
      <4>3. Pair(fl, x)
        BY <2>4, <2>8, <4>2 DEF Pair, r
      <4> QED
        BY <2>4, <4>3
    <3> QED
      BY <3>1
  <2>12. ~(x.order < u.order)
    <3>1. ASSUME x.order < u.order PROVE FALSE
      <4>1. w.order <= u.order /\ r.addr \in PagesOf(w)
        BY <2>4, <2>5, <2>6, <2>9, <3>1
      <4>2. PagesOf(w) \subseteq PagesOf(u)
        BY <2>5, <2>8, <2>9, <4>1, Nested
      <4>3. x.addr \in PagesOf(u)
        BY <2>5, <2>6, <4>2
      <4>4. x = u
        BY <1>1, <2>4, <2>6, <2>8, <4>3 DEF Apart
      <4> QED
        BY <2>4, <3>1, <4>4
    <3> QED
      BY <3>1
  <2> QED
    BY <2>4, <2>9, <2>10, <2>11, <2>12
<1> QED
  BY <1>5, <1>6

\* The other half of a free block is free when its status says so.
LEMMA FreeHalf ==
  ASSUME NEW fl, NEW H, Good(fl, H), NEW b \in BlocksIn(fl), b.order < Orders,
         \A x : Pair(fl, x) => b.order <= x.order,
         Status(Bits(H), Half(b).addr, Level(b.order)) = "free"
  PROVE  Half(b) \in BlocksIn(fl)
<1> DEFINE c == Half(b)
           B == BlocksIn(fl)
           w == Whole(b)
<1>1. /\ B \subseteq Block /\ H \subseteq Block /\ Apart(B \cup H) /\ B \cap H = {}
  BY DEF Good, Tiles
<1>2. /\ b \in Block /\ c \in Block /\ c.order = b.order /\ b.order \in Int /\ w \in Block
      /\ PagesOf(w) = PagesOf(b) \cup PagesOf(c) /\ w.order = b.order + 1 /\ c # b
  <2>1. b \in Block
    BY <1>1
  <2>2. /\ c \in Block /\ w \in Block /\ PagesOf(w) = PagesOf(b) \cup PagesOf(c) /\ c # b
    BY <2>1, Halves
  <2>3. b.order \in Int
    BY <2>1, OrderOf
  <2> QED
    BY <2>1, <2>2, <2>3 DEF Half, Whole
<1>3. b.addr \in PagesOf(b) /\ c.addr \in PagesOf(c)
  BY <1>2, OwnPages
<1> HIDE DEF c, w
<1>4. \A h \in H : ~(h.order <= c.order /\ PagesOf(h) \subseteq PagesOf(c))
  <2>1. Status(Bits(H), c.addr, Level(c.order)) = "free"
    BY <1>2 DEF c
  <2> QED
    BY <1>1, <1>2, <2>1, StatusMeans
<1>5. ASSUME NEW x \in B \cup H, NEW p \in PagesOf(x), p \in PagesOf(c) PROVE x.order <= c.order
  <2>1. x \in Block /\ x.order \in Int
    BY <1>1, OrderOf
  <2>2. ~(c.order < x.order)
    <3>1. ASSUME c.order < x.order PROVE FALSE
      <4>1. w.order <= x.order /\ p \in PagesOf(w)
        BY <1>2, <1>5, <2>1, <3>1
      <4>2. PagesOf(w) \subseteq PagesOf(x)
        BY <1>2, <2>1, <4>1, Nested
      <4>3. b = x
        BY <1>1, <1>2, <1>3, <4>2 DEF Apart
      <4> QED
        BY <1>2, <3>1, <4>3
    <3> QED
      BY <3>1
  <2> QED
    BY <1>2, <2>1, <2>2
<1>6. Spare(H, c)
  <2> SUFFICES ASSUME NEW h \in H, NEW p \in PagesOf(h), p \in PagesOf(c) PROVE FALSE
    BY DEF Spare
  <2>1. h.order <= c.order
    BY <1>5
  <2>2. PagesOf(h) \subseteq PagesOf(c)
    BY <1>1, <1>2, <2>1, Nested
  <2> QED
    BY <1>4, <2>1, <2>2
<1>7. PICK x \in B : c.order <= x.order /\ PagesOf(c) \subseteq PagesOf(x)
  <2>1. \A y : Pair(fl, y) => c.order <= y.order
    BY <1>2
  <2> QED
    BY <1>2, <1>6, <2>1, Covered
<1>8. x.order <= c.order
  BY <1>3, <1>5, <1>7
<1>9. c.order = x.order /\ x \in Block
  <2>1. x \in Block
    BY <1>1
  <2>2. x.order \in Int
    BY <2>1, OrderOf
  <2> QED
    BY <1>2, <1>7, <1>8, <2>1, <2>2
<1>10. c = x
  BY <1>2, <1>3, <1>7, <1>9, Nested
<1> QED
  BY <1>10 DEF c

-------------------------------------------------------------------------------
\* What a step of the allocator leaves behind, and what it finds.
Sound(fl, H) == Good(fl, H) /\ \A b : ~Pair(fl, b)

LEMMA AllocSound ==
  ASSUME NEW fl, NEW H, Sound(fl, H), NEW order \in Levels, SplitDown(fl, order)[order] # <<>>
  PROVE  LET gl == SplitDown(fl, order)
             b  == Blk(Head(gl[order]), order)
         IN  /\ Sound(PopHead(gl, order), H \cup {b}) /\ b \in Block /\ b \in BlocksIn(gl)
             /\ Good(gl, H)
<1> DEFINE gl == SplitDown(fl, order)
           b  == Blk(Head(gl[order]), order)
           pl == PopHead(gl, order)
<1>1. Good(gl, H) /\ PairsLast(gl, order)
  BY SplitDownDoes DEF Sound
<1> HIDE DEF gl
<1>2. gl[order] # <<>>
  BY DEF gl
<1>3. Lists(pl) /\ b \in BlocksIn(gl) /\ BlocksIn(pl) = BlocksIn(gl) \ {b}
  BY <1>1, <1>2, Popped DEF Good
<1>4. b.order = order /\ b.addr = Head(gl[order])
  BY DEF Blk
<1> HIDE DEF b, pl
<1>5. b \in Block /\ b \notin H
  BY <1>1, <1>3 DEF Good, Tiles
<1>6. Good(pl, H \cup {b})
  <2>1. BlocksIn(pl) \cup (H \cup {b}) = BlocksIn(gl) \cup H
    BY <1>3
  <2>2. BlocksIn(pl) \cap (H \cup {b}) = {}
    BY <1>1, <1>3 DEF Good
  <2> QED
    BY <1>1, <1>3, <2>1, <2>2 DEF Good
<1>7. ASSUME NEW x, Pair(pl, x) PROVE FALSE
  <2>1. Pair(gl, x) /\ x # b /\ Half(x) # b /\ x \in BlocksIn(gl)
    BY <1>3, <1>7 DEF Pair
  <2>2. /\ order <= x.order /\ ToSet(gl[x.order]) = {x.addr, Half(x).addr}
        /\ \A o \in order..(x.order - 1) : gl[o] = <<>>
    BY <1>1, <2>1 DEF PairsLast
  <2>3. x \in Block /\ x.order \in Int /\ order \in Int
    <3>1. x \in Block
      BY <1>1, <2>1 DEF Good, Tiles
    <3> QED
      BY <1>4, <1>5, <3>1, OrderOf
  <2>4. CASE x.order = order
    <3>1. b.addr \in {x.addr, Half(x).addr}
      <4>1. b.addr \in ToSet(gl[order])
        BY <1>3, <1>4, Listed
      <4> QED
        BY <2>2, <2>4, <4>1
    <3>2. b = Blk(b.addr, b.order) /\ x = Blk(x.addr, x.order) /\ Half(x) = Blk(Half(x).addr, x.order)
      BY <1>3, <2>1, Listed DEF Half, Blk
    <3> QED
      BY <1>4, <2>1, <2>4, <3>1, <3>2
  <2>5. CASE x.order # order
    <3>1. order \in order..(x.order - 1)
      BY <2>2, <2>3, <2>5
    <3> QED
      BY <1>2, <2>2, <3>1
  <2> QED
    BY <2>4, <2>5
<1>8. Sound(pl, H \cup {b})
  BY <1>6, <1>7 DEF Sound
<1> QED
  BY <1>1, <1>3, <1>5, <1>8 DEF gl, b, pl

-------------------------------------------------------------------------------
\* The block that a page's bit stands for is held, and it is the only one there.
LEMMA FreedIsHeld ==
  ASSUME NEW H, H \subseteq Block, Apart(H), NEW a \in Memory, NEW l \in Levels,
         a % SizeOfLevel(l) = 0, Bit(a, l) \in Bits(H)
  PROVE  LET h == Blk(a, Level(l))
         IN  /\ h \in H /\ {x \in H : x.addr # a} = H \ {h}
             /\ Bits(H) \ {Bit(a, l)} = Bits(H \ {h})
<1> DEFINE h == Blk(a, Level(l))
<1>1. Level(l) \in Levels /\ Level(Level(l)) = l
  BY OrdersAre DEF Level
<1>2. h \in Block /\ h.addr = a /\ h.order = Level(l)
  BY <1>1 DEF Block, Blk, SizeOfLevel
<1>3. Bit(h.addr, Level(h.order)) = Bit(a, l)
  BY <1>1, <1>2
<1> HIDE DEF h
<1>4. PICK x \in H : Bit(x.addr, Level(x.order)) = Bit(a, l)
  BY DEF Bits
<1>5. x = h
  BY <1>2, <1>3, <1>4, BitsDiffer
<1>6. ASSUME NEW y \in H, y.addr = a PROVE y = h
  <2>1. y.addr \in PagesOf(y) /\ h.addr \in PagesOf(h)
    BY <1>2, OwnPages
  <2> QED
    BY <1>2, <1>5, <1>6, <2>1 DEF Apart
<1>7. {y \in H : y.addr # a} = H \ {h}
  BY <1>2, <1>6
<1>8. \A y \in H : Bit(y.addr, Level(y.order)) = Bit(a, l) => y = h
  BY <1>2, <1>3, BitsDiffer
<1>9. Bits(H) \ {Bit(a, l)} = Bits(H \ {h})
  BY <1>3, <1>8 DEF Bits
<1> QED
  BY <1>5, <1>7, <1>9 DEF h

\* While buddy_free merges: the blocks share out the memory, and the only halves
\* that may both be free are the block that was freed and its buddy.
Current(at) == Blk(at.blk, Level(at.lvl))
Rising(at, H) ==
  /\ at \in [fl : [Levels -> Seq(Memory)], blk : Memory, lvl : Levels]
  /\ Good(at.fl, H) /\ Current(at) \in BlocksIn(at.fl)
  /\ \A b : Pair(at.fl, b) => b \in {Current(at), Half(Current(at))}

LEMMA Pushing ==
  ASSUME NEW fl, NEW H, Sound(fl, H), NEW h \in H, NEW l \in Levels, h = Blk(h.addr, Level(l))
  PROVE  Rising([fl |-> PushTail(fl, Level(l), h.addr), blk |-> h.addr, lvl |-> l], H \ {h})
<1> DEFINE gl == PushTail(fl, Level(l), h.addr)
           at == [fl |-> gl, blk |-> h.addr, lvl |-> l]
<1>1. /\ Lists(fl) /\ Tiles(BlocksIn(fl) \cup H) /\ BlocksIn(fl) \cap H = {}
      /\ \A b : ~Pair(fl, b)
  BY DEF Sound, Good
<1>2. h \in Block /\ h.addr \in Memory /\ Level(l) \in Levels
  BY <1>1, OrdersAre DEF Tiles, Block, Level
<1>3. Lists(gl) /\ BlocksIn(gl) = BlocksIn(fl) \cup {h}
  BY <1>1, <1>2, Pushed
<1>4. at.fl = gl /\ Current(at) = h /\ at \in [fl : [Levels -> Seq(Memory)], blk : Memory, lvl : Levels]
  BY <1>2, <1>3 DEF Current, Lists
<1> HIDE DEF gl
<1>5. Good(gl, H \ {h})
  <2>1. BlocksIn(gl) \cup (H \ {h}) = BlocksIn(fl) \cup H
    BY <1>3
  <2>2. BlocksIn(gl) \cap (H \ {h}) = {}
    BY <1>1, <1>3
  <2> QED
    BY <1>1, <1>3, <2>1, <2>2 DEF Good
<1>6. ASSUME NEW b, Pair(gl, b) PROVE b \in {h, Half(h)}
  <2>1. b \in Block /\ b.order < Orders
    BY <1>5, <1>6 DEF Good, Tiles, Pair
  <2>2. Half(Half(b)) = b
    BY <2>1, Halves
  <2>3. b = h \/ Half(b) = h
    BY <1>1, <1>3, <1>6 DEF Pair
  <2> QED
    BY <2>2, <2>3
<1> HIDE DEF at
<1>7. Rising(at, H \ {h})
  BY <1>3, <1>4, <1>5, <1>6 DEF Rising
<1> QED
  BY <1>7 DEF at, gl

Stopped(at, mask) == MergeOnce(at, mask) = at /\ \A b : ~Pair(at.fl, b)

-------------------------------------------------------------------------------
\* A pass that merges nothing has no two free halves left.
LEMMA MergeEnds ==
  ASSUME NEW at, NEW H, Rising(at, H),
         at.lvl = 0 \/ Status(Bits(H), BuddyOf(at.blk, Level(at.lvl)), at.lvl) # "free"
  PROVE  Stopped(at, Bits(H))
<1> DEFINE b == Current(at)
           c == Half(b)
           B == BlocksIn(at.fl)
<1>1. /\ b \in B /\ B \subseteq Block /\ H \subseteq Block /\ Apart(B \cup H) /\ B \cap H = {}
      /\ \A x : Pair(at.fl, x) => x \in {b, c}
      /\ b = Blk(at.blk, Level(at.lvl)) /\ at.lvl \in Levels
  BY DEF Rising, Good, Tiles, Current
<1>2. /\ b \in Block /\ b.order = Level(at.lvl) /\ c.order = Level(at.lvl)
      /\ c.addr = BuddyOf(at.blk, Level(at.lvl))
  BY <1>1 DEF Blk, Half
<1>3. MergeOnce(at, Bits(H)) = at
  BY DEF MergeOnce
<1>4. ASSUME NEW x, Pair(at.fl, x) PROVE FALSE
  <2> HIDE DEF b, c, B
  <2>1. x \in {b, c} /\ x.order < Orders /\ x \in B /\ Half(x) \in B
    BY <1>1, <1>4 DEF Pair, B
  <2>2. x.order = Level(at.lvl)
    BY <1>2, <2>1
  <2>3. CASE at.lvl = 0
    <3>1. Level(at.lvl) = Orders /\ Orders \in Int
      BY <2>3, OrdersAre DEF Level
    <3> QED
      BY <2>1, <2>2, <3>1
  <2>4. CASE Status(Bits(H), BuddyOf(at.blk, Level(at.lvl)), at.lvl) # "free"
    <3>1. b.order < Orders
      BY <1>2, <2>1, <2>2
    <3>2. c \in Block /\ Half(c) = b
      BY <1>2, <3>1, Halves DEF c
    <3>3. c \in B
      BY <2>1, <3>2 DEF c
    <3>4. Level(c.order) = at.lvl
      <4>1. at.lvl \in 0..Orders /\ Orders \in Nat
        BY <1>1, OrdersAre
      <4> QED
        BY <1>2, <4>1 DEF Level
    <3>5. Status(Bits(H), c.addr, Level(c.order)) # "free"
      BY <1>2, <2>4, <3>4
    <3>6. PICK h \in H : PagesOf(h) \subseteq PagesOf(c)
      BY <1>1, <3>2, <3>5, StatusMeans
    <3>7. h.addr \in PagesOf(h)
      BY <1>1, OwnPages
    <3>8. h = c
      BY <1>1, <3>3, <3>6, <3>7 DEF Apart
    <3> QED
      BY <1>1, <3>3, <3>8
  <2> QED
    BY <2>3, <2>4
<1> QED
  BY <1>3, <1>4 DEF Stopped

\* A pass that merges goes on one level up.
LEMMA MergeRises ==
  ASSUME NEW at, NEW H, Rising(at, H), at.lvl # 0,
         Status(Bits(H), BuddyOf(at.blk, Level(at.lvl)), at.lvl) = "free"
  PROVE  Rising(MergeOnce(at, Bits(H)), H) /\ MergeOnce(at, Bits(H)).lvl = at.lvl - 1
<1> DEFINE o == Level(at.lvl)
           b == Current(at)
           c == Half(b)
           w == Whole(b)
           B == BlocksIn(at.fl)
           f1 == Unlink(at.fl, b.addr)
           f2 == Unlink(f1, c.addr)
           f3 == PushTail(f2, w.order, w.addr)
           up == MergeOnce(at, Bits(H))
<1>1. /\ b \in B /\ B \subseteq Block /\ Tiles(B \cup H) /\ Apart(B \cup H) /\ B \cap H = {}
      /\ \A x : Pair(at.fl, x) => x \in {b, c}
      /\ b = Blk(at.blk, o) /\ at.lvl \in Levels /\ Lists(at.fl)
  BY DEF Rising, Good, Tiles, Current
<1>2. /\ b.addr = at.blk /\ b.order = o /\ c.order = o /\ c.addr = BuddyOf(at.blk, o)
      /\ w.order = o + 1 /\ w.addr = IF at.blk < BuddyOf(at.blk, o) THEN at.blk ELSE BuddyOf(at.blk, o)
  BY <1>1 DEF Blk, Half, Whole
<1>3. up = [fl |-> f3, blk |-> w.addr, lvl |-> at.lvl - 1]
  BY <1>2 DEF MergeOnce
<1>4. /\ o \in Levels /\ o < Orders /\ Level(o) = at.lvl /\ at.lvl - 1 \in Levels
      /\ Level(at.lvl - 1) = o + 1 /\ o \in Int /\ o + 1 \in Levels
  <2>1. at.lvl \in 0..Orders /\ Orders \in Nat /\ Levels = 0..Orders
    BY <1>1, OrdersAre
  <2> QED
    BY <2>1 DEF Level
<1> HIDE DEF o, b, c, w, B, up
<1>5. /\ b \in Block /\ c \in Block /\ w \in Block /\ Half(c) = b /\ c # b /\ b.order < Orders
      /\ c = Half(b) /\ w = Whole(b) /\ Whole(c) = w
  <2>1. b \in Block /\ b.order < Orders
    BY <1>1, <1>2, <1>4
  <2> QED
    BY <2>1, Halves DEF c, w
<1>6. c \in B
  <2>1. \A x : Pair(at.fl, x) => b.order <= x.order
    BY <1>1, <1>2, <1>4
  <2>2. Status(Bits(H), c.addr, Level(b.order)) = "free"
    BY <1>2, <1>4 DEF o
  <2> QED
    BY <1>1, <1>5, <2>1, <2>2, FreeHalf DEF B, Rising
<1>7. ASSUME NEW x \in B, NEW y \in B, x.addr = y.addr PROVE x = y
  <2>1. x.addr \in PagesOf(x) /\ y.addr \in PagesOf(y)
    BY <1>1, OwnPages
  <2> QED
    BY <1>1, <1>7, <2>1 DEF Apart
<1>8. b = Blk(b.addr, o) /\ c = Blk(c.addr, o) /\ w = Blk(w.addr, o + 1) /\ w.addr \in Memory
  BY <1>2, <1>5 DEF Block, Blk
<1>9. Lists(f1) /\ BlocksIn(f1) = B \ {b}
  <2>1. \A x \in BlocksIn(at.fl) : x.addr = b.addr => x.order = o
    BY <1>1, <1>2, <1>7 DEF B
  <2> QED
    BY <1>1, <1>8, <2>1, Unlinked DEF B
<1>10. Lists(f2) /\ BlocksIn(f2) = B \ {b, c}
  <2>1. \A x \in BlocksIn(f1) : x.addr = c.addr => x.order = o
    BY <1>2, <1>6, <1>7, <1>9
  <2> HIDE DEF f1
  <2>2. Lists(f2) /\ BlocksIn(f2) = BlocksIn(f1) \ {Blk(c.addr, o)}
    BY <1>9, <2>1, Unlinked
  <2> QED
    BY <1>8, <1>9, <2>2
<1>11. w \notin B \cup H /\ Tiles(((B \cup H) \ {b, c}) \cup {w})
  BY <1>1, <1>5, <1>6, TilesMerge
<1> HIDE DEF f2
<1>12. Lists(f3) /\ BlocksIn(f3) = (B \ {b, c}) \cup {w}
  <2>1. Blk(w.addr, w.order) \notin BlocksIn(f2)
    BY <1>2, <1>8, <1>10, <1>11
  <2>2. Lists(f3) /\ BlocksIn(f3) = BlocksIn(f2) \cup {Blk(w.addr, w.order)}
    BY <1>2, <1>4, <1>8, <1>10, <2>1, Pushed
  <2> QED
    BY <1>2, <1>8, <1>10, <2>2
<1> HIDE DEF f3
<1>13. Good(f3, H)
  <2>1. BlocksIn(f3) \cup H = ((B \cup H) \ {b, c}) \cup {w}
    BY <1>1, <1>6, <1>12
  <2>2. BlocksIn(f3) \cap H = {}
    BY <1>1, <1>11, <1>12
  <2> QED
    BY <1>11, <1>12, <2>1, <2>2 DEF Good
<1>14. Current(up) = w /\ up.fl = f3 /\ up.lvl = at.lvl - 1
  BY <1>3, <1>4, <1>8 DEF Current
<1>15. up \in [fl : [Levels -> Seq(Memory)], blk : Memory, lvl : Levels]
  BY <1>3, <1>4, <1>8, <1>12 DEF Lists
<1>16. ASSUME NEW x, Pair(f3, x) PROVE x \in {w, Half(w)}
  <2>1. x \in Block /\ x.order < Orders /\ x \in BlocksIn(f3) /\ Half(x) \in BlocksIn(f3)
    BY <1>13, <1>16 DEF Good, Tiles, Pair
  <2>2. Half(Half(x)) = x
    BY <2>1, Halves
  <2>3. b # w /\ c # w
    BY <1>1, <1>6, <1>11
  <2>4. CASE x # w /\ Half(x) # w
    <3>1. Pair(at.fl, x)
      BY <1>12, <2>1, <2>4 DEF Pair, B
    <3> QED
      BY <1>1, <1>12, <2>1, <2>3, <3>1
  <2> QED
    BY <2>2, <2>4
<1>17. Rising(up, H)
  BY <1>12, <1>13, <1>14, <1>15, <1>16 DEF Rising
<1> QED
  BY <1>14, <1>17 DEF up

LEMMA MergeUpDoes ==
  ASSUME NEW fl, NEW H, NEW a, NEW l, Rising([fl |-> fl, blk |-> a, lvl |-> l], H)
  PROVE  Sound(MergeUp(fl, Bits(H), a, l), H)
<1> DEFINE mask == Bits(H)
           A == {at \in [fl : [Levels -> Seq(Memory)], blk : Memory, lvl : Levels] : Rising(at, H)}
           at0 == [fl |-> fl, blk |-> a, lvl |-> l]
           step == [x \in A \X (1..Orders) |-> MergeOnce(x[1], mask)]
           fits(f) == f = [pass \in 0..Orders |->
             IF pass = 0 THEN [fl |-> fl, blk |-> a, lvl |-> l] ELSE MergeOnce(f[pass - 1], mask)]
           after == CHOOSE f : fits(f)
<1>0. Orders \in Nat /\ Levels = 0..Orders /\ Orders \in 0..Orders
  BY OrdersAre
<1> HIDE DEF mask
<1>1. ASSUME NEW at \in A
      PROVE  \/ Stopped(at, mask)
             \/ MergeOnce(at, mask) \in A /\ at.lvl # 0 /\ MergeOnce(at, mask).lvl = at.lvl - 1
  <2>1. CASE at.lvl = 0 \/ Status(Bits(H), BuddyOf(at.blk, Level(at.lvl)), at.lvl) # "free"
    BY <2>1, MergeEnds DEF mask
  <2>2. CASE at.lvl # 0 /\ Status(Bits(H), BuddyOf(at.blk, Level(at.lvl)), at.lvl) = "free"
    <3>1. Rising(MergeOnce(at, mask), H) /\ MergeOnce(at, mask).lvl = at.lvl - 1
      BY <2>2, MergeRises DEF mask
    <3> QED
      BY <2>2, <3>1 DEF Rising
  <2> QED
    BY <2>1, <2>2
<1>2. at0 \in A
  BY DEF Rising
<1>3. step \in [A \X (1..Orders) -> A]
  <2>1. ASSUME NEW at \in A PROVE MergeOnce(at, mask) \in A
    BY <1>1 DEF Stopped
  <2> HIDE DEF A
  <2> QED
    BY <2>1
<1>4. PICK f : IsWalk(f, Orders, A, at0, step)
  <2> HIDE DEF step, A, at0
  <2> QED
    BY <1>0, <1>2, <1>3, WalkExists
<1>5. ASSUME NEW n \in 1..Orders PROVE f[n] = MergeOnce(f[n - 1], mask)
  <2> HIDE DEF A
  <2>1. <<f[n - 1], n>> \in A \X (1..Orders)
    <3>1. n - 1 \in 0..Orders
      BY <1>0
    <3> QED
      BY <1>4, <3>1 DEF IsWalk
  <2>2. f[n] = step[<<f[n - 1], n>>]
    BY <1>4 DEF IsWalk
  <2> QED
    BY <2>1, <2>2
<1>6. fits(f)
  <2>1. \A n \in 0..Orders : f[n] = IF n = 0 THEN at0 ELSE MergeOnce(f[n - 1], mask)
    <3>1. \A n \in 0..Orders : n = 0 \/ n \in 1..Orders
      BY <1>0
    <3>2. f[0] = at0
      BY <1>4 DEF IsWalk
    <3> HIDE DEF at0
    <3> QED
      BY <1>5, <3>1, <3>2
  <2>2. f = [n \in 0..Orders |-> f[n]]
    BY <1>4 DEF IsWalk
  <2> HIDE DEF A
  <2> QED
    BY <2>1, <2>2
<1>7. fits(after)
  <2> HIDE DEF fits
  <2> QED
    BY <1>6
<1>8. MergeUp(fl, mask, a, l) = after[Orders].fl
  BY Zenon DEF MergeUp
<1> HIDE DEF after
<1>9. \A n \in 0..Orders : after[n] = f[n]
  <2>1. after[0] = f[0]
    BY <1>0, <1>6, <1>7
  <2>2. \A n \in 1..Orders : after[n] = MergeOnce(after[n - 1], mask)
    <3>1. \A n \in 1..Orders : n \in 0..Orders /\ n # 0
      BY <1>0
    <3> QED
      BY <1>7, <3>1
  <2>3. Alike(after, f, Orders)
    BY <1>5, <2>1, <2>2 DEF Alike
  <2> QED
    BY <1>0, <2>3, WalksAgree
<1>10. f \in [0..Orders -> A] /\ f[0] = at0
  BY <1>4 DEF IsWalk
<1> DEFINE P == {n \in 0..Orders : Stopped(f[n], mask) \/ f[n].lvl <= Orders - n}
<1>11. 0 \in P
  <2>1. f[0] \in A
    BY <1>0, <1>10
  <2>2. f[0].lvl \in Levels
    BY <2>1
  <2> QED
    BY <1>0, <2>2
<1>12. ASSUME NEW n \in 1..Orders, n - 1 \in P PROVE n \in P
  <2>1. n - 1 \in 0..Orders /\ f[n - 1] \in A /\ f[n] = MergeOnce(f[n - 1], mask)
    <3>1. n - 1 \in 0..Orders
      BY <1>0
    <3> HIDE DEF A
    <3> QED
      BY <1>5, <1>10, <3>1
  <2>2. CASE Stopped(f[n - 1], mask)
    BY <2>1, <2>2 DEF Stopped
  <2>3. CASE ~Stopped(f[n - 1], mask)
    <3>1. f[n].lvl = f[n - 1].lvl - 1 /\ f[n - 1].lvl <= Orders - (n - 1)
      BY <1>1, <1>12, <2>1, <2>3
    <3>2. f[n - 1].lvl \in Int
      BY <1>0, <2>1
    <3> HIDE DEF A
    <3> QED
      BY <1>0, <3>1, <3>2
  <2> QED
    BY <2>2, <2>3
<1>13. Orders \in P
  <2> HIDE DEF P
  <2> QED
    BY <1>0, <1>11, <1>12, Climb
<1>14. f[Orders] \in A
  BY <1>0, <1>10
<1>15. Stopped(f[Orders], mask)
  <2>1. CASE f[Orders].lvl <= Orders - Orders
    <3>1. f[Orders].lvl \in 0..Orders
      BY <1>0, <1>14
    <3>2. f[Orders].lvl = 0
      BY <1>0, <2>1, <3>1
    <3> QED
      BY <1>1, <1>14, <3>2
  <2> QED
    BY <1>13, <2>1
<1>16. MergeUp(fl, mask, a, l) = f[Orders].fl
  BY <1>0, <1>8, <1>9
<1> QED
  BY <1>14, <1>15, <1>16 DEF Sound, Stopped, Rising, mask

-------------------------------------------------------------------------------
\* The inductive invariant.
IInv == Sound(free_list, held) /\ tree_mask = Bits(held)

LEMMA InitSound == Init => IInv
<1> SUFFICES ASSUME Init PROVE IInv
  OBVIOUS
<1> DEFINE b == Blk(0, Orders)
<1>1. /\ Orders \in Levels /\ Pages[Orders] \in Nat \ {0} /\ 0 \in Memory
  BY OrdersAre DEF Memory
<1>2. b \in Block /\ PagesOf(b) = Memory
  BY <1>1 DEF Block, Blk, PagesOf, Memory
<1>3. /\ free_list = [o \in Levels |-> IF o = Orders THEN <<0>> ELSE <<>>] /\ held = {} /\ tree_mask = {}
  BY DEF Init
<1>4. <<0>> \in Seq(Memory) /\ <<>> \in Seq(Memory) /\ ToSet(<<0>>) = {0} /\ ToSet(<<>>) = {}
      /\ IsInjective(<<0>>) /\ IsInjective(<<>>)
  BY <1>1 DEF ToSet, IsInjective
<1>5. Lists(free_list)
  BY <1>3, <1>4 DEF Lists
<1>6. BlocksIn(free_list) = {b}
  <2>1. ASSUME NEW x PROVE x \in BlocksIn(free_list) <=> x = b
    <3>1. x \in BlocksIn(free_list) <=>
            x = Blk(x.addr, x.order) /\ x.order \in Levels /\ x.addr \in ToSet(free_list[x.order])
      BY Listed
    <3>2. b.addr = 0 /\ b.order = Orders
      BY DEF Blk
    <3> QED
      BY <1>1, <1>3, <1>4, <3>1, <3>2
  <2> QED
    BY <2>1
<1> HIDE DEF b
<1>7. Good(free_list, held)
  BY <1>2, <1>3, <1>5, <1>6 DEF Good, Tiles, Apart
<1>8. ASSUME NEW x, Pair(free_list, x) PROVE FALSE
  <2>1. x = b /\ Half(x) = b /\ x.order < Orders
    BY <1>6, <1>8 DEF Pair
  <2> QED
    BY <1>2, <2>1, Halves
<1> QED
  BY <1>3, <1>7, <1>8 DEF IInv, Sound, Bits

\* What a call that hands out a block has done.
LEMMA AllocStep ==
  ASSUME IInv, NEW bytes \in Sizes, Alloc(bytes)
  PROVE  LET b == Blk(res', SizeToOrder(bytes))
         IN  /\ IInv' /\ b \in Block /\ held' = held \cup {b}
             /\ \A h \in held : PagesOf(b) \cap PagesOf(h) = {}
<1> DEFINE order == SizeToOrder(bytes)
           gl == SplitDown(free_list, order)
           b == Blk(Head(gl[order]), order)
<1>1. /\ order \in Levels /\ gl[order] # <<>> /\ res' = Head(gl[order])
      /\ free_list' = PopHead(gl, order)
      /\ tree_mask' = tree_mask \cup {Bit(res', Level(order))}
      /\ held' = held \cup {[addr |-> res', order |-> order]}
  BY DEF Alloc
<1> HIDE DEF order
<1>2. /\ Sound(PopHead(gl, order), held \cup {b}) /\ b \in Block /\ b \in BlocksIn(gl) /\ Good(gl, held)
  BY <1>1, AllocSound DEF IInv
<1>3. held' = held \cup {b} /\ tree_mask' = tree_mask \cup {Bit(b.addr, Level(b.order))} /\ b = Blk(res', order)
  BY <1>1 DEF Blk
<1> HIDE DEF b, gl
<1>4. tree_mask' = Bits(held')
  BY <1>3 DEF IInv, Bits
<1>5. IInv'
  BY <1>1, <1>2, <1>3, <1>4 DEF IInv
<1>6. ASSUME NEW h \in held PROVE PagesOf(b) \cap PagesOf(h) = {}
  BY <1>2 DEF Good, Tiles, Apart
<1> QED
  BY <1>2, <1>3, <1>5, <1>6 DEF order

\* What a call that takes a block back has done.
LEMMA FreeBlockStep ==
  ASSUME IInv, NEW a, a \in Memory, FreeBlock(a)
  PROVE  IInv' /\ res' = 0 /\ \E h \in held : h.addr = a
<1>1. a \in Memory
  OBVIOUS
<1>2. /\ held \subseteq Block /\ Apart(held) /\ Sound(free_list, held) /\ tree_mask = Bits(held)
  BY DEF IInv, Sound, Good, Tiles, Apart
<1> DEFINE deepest(l) == l \in AllocatedLevels(a) /\ \A m \in AllocatedLevels(a) : l >= m
           lvl == CHOOSE l \in AllocatedLevels(a) : \A m \in AllocatedLevels(a) : l >= m
           h == Blk(a, Level(lvl))
           mask == tree_mask \ {Bit(a, lvl)}
<1>3. ASSUME NEW l \in AllocatedLevels(a)
      PROVE  /\ l \in Levels /\ Blk(a, Level(l)) \in held
             /\ {x \in held : x.addr # a} = held \ {Blk(a, Level(l))}
             /\ tree_mask \ {Bit(a, l)} = Bits(held \ {Blk(a, Level(l))})
  <2>1. l \in Levels /\ a % SizeOfLevel(l) = 0 /\ Bit(a, l) \in Bits(held)
    BY <1>2 DEF AllocatedLevels
  <2> QED
    <3>1. /\ Blk(a, Level(l)) \in held /\ {x \in held : x.addr # a} = held \ {Blk(a, Level(l))}
          /\ Bits(held) \ {Bit(a, l)} = Bits(held \ {Blk(a, Level(l))})
      <4>1. l \in Levels
        BY <2>1
      <4> QED
        BY ONLY <1>1, <1>2, <2>1, <4>1, FreedIsHeld, SMTT(60)
    <3> QED
      BY <1>2, <2>1, <3>1
<1>4. lvl \in AllocatedLevels(a)
  <2>1. PICK l \in AllocatedLevels(a) : TRUE
    BY DEF FreeBlock
  <2>2. l \in Int
    <3>1. l \in Levels
      BY <1>3
    <3> QED
      BY <3>1, OrdersAre
  <2>3. ASSUME NEW m \in AllocatedLevels(a) PROVE m = l
    <3>1. m \in Int /\ Orders \in Int
      <4>1. m \in Levels
        BY <1>3
      <4> QED
        BY <4>1, OrdersAre
    <3>2. Blk(a, Level(m)) \in held /\ Blk(a, Level(l)) \notin held \ {Blk(a, Level(m))}
      <4>1. held \ {Blk(a, Level(m))} = held \ {Blk(a, Level(l))}
        BY <1>3
      <4> QED
        BY <1>3, <4>1
    <3>3. Blk(a, Level(m)) = Blk(a, Level(l))
      BY <1>3, <3>2
    <3>4. Level(m) = Level(l)
      BY <3>3 DEF Blk
    <3> QED
      BY <2>2, <3>1, <3>4 DEF Level
  <2>4. \A m \in AllocatedLevels(a) : l >= m
    BY <2>2, <2>3
  <2> QED
    BY <2>4
<1>5. ~MergesAstray(mask, a, lvl)
  <2>1. lvl \in Levels /\ h \in Block /\ h.addr = a /\ h.order = Level(lvl)
    BY <1>2, <1>3, <1>4 DEF Blk
  <2> HIDE DEF lvl, h, mask
  <2>2. CASE lvl = 0
    BY <2>2 DEF MergesAstray
  <2>3. CASE lvl # 0
    <3>1. h.order < Orders
      BY <2>1, <2>3, LevelsAre DEF Level
    <3>2. Half(h) \in Block
      BY <2>1, <3>1, Halves
    <3>3. BuddyOf(a, Level(lvl)) \in Memory
      BY <2>1, <3>2 DEF Half, Block
    <3> QED
      BY <3>3 DEF MergesAstray
  <2> QED
    BY <2>2, <2>3
<1>6. /\ tree_mask' = mask /\ held' = {x \in held : x.addr # a} /\ res' = 0
      /\ free_list' = MergeUp(PushTail(free_list, Level(lvl), a), mask, a, lvl)
  <2> HIDE DEF MergesAstray
  <2> QED
    BY <1>5 DEF FreeBlock
<1> HIDE DEF lvl
<1>7. lvl \in Levels /\ h \in held /\ held' = held \ {h} /\ mask = Bits(held \ {h}) /\ h.addr = a
  BY <1>3, <1>4, <1>6 DEF Blk
<1> HIDE DEF mask
<1>8. h = Blk(h.addr, Level(lvl))
  BY <1>7
<1> HIDE DEF h
<1>9. Rising([fl |-> PushTail(free_list, Level(lvl), h.addr), blk |-> h.addr, lvl |-> lvl], held \ {h})
  BY <1>2, <1>7, <1>8, Pushing
<1>10. Sound(MergeUp(PushTail(free_list, Level(lvl), a), mask, a, lvl), held \ {h})
  <2> DEFINE fl == PushTail(free_list, Level(lvl), a)
             G == held \ {h}
  <2>1. Rising([fl |-> fl, blk |-> a, lvl |-> lvl], G)
    BY <1>7, <1>9
  <2> HIDE DEF fl, G
  <2>2. Sound(MergeUp(fl, Bits(G), a, lvl), G)
    BY <2>1, MergeUpDoes
  <2> QED
    BY <1>7, <2>2 DEF fl, G
<1>11. IInv'
  BY <1>6, <1>7, <1>10 DEF IInv
<1> QED
  BY <1>6, <1>7, <1>11

\* Where a valid address that is not just behind the memory lies.
LEMMA PageOf ==
  ASSUME NEW addr \in Int, Valid(addr), addr # Pages[Orders] * PageSize
  PROVE  addr \div PageSize \in Memory /\ addr = (addr \div PageSize) * PageSize
<1> DEFINE a == addr \div PageSize
           N == Pages[Orders]
<1>1. N \in Nat \ {0} /\ PageSize \in Nat \ {0}
  BY OrdersAre, SizesAssumption
<1>2. addr \in Int /\ addr >= 0 /\ addr <= N * PageSize /\ addr # N * PageSize /\ addr % PageSize = 0
  BY <1>1 DEF Valid, InRange, PageAligned
<1>3. a \in Int /\ addr = a * PageSize + (addr % PageSize)
  BY <1>1, Divides
<1> HIDE DEF a, N
<1>4. addr = a * PageSize
  BY <1>1, <1>2, <1>3
<1>5. a < N
  <2>1. SUFFICES ASSUME N <= a PROVE FALSE
    BY <1>1, <1>3
  <2>2. N = a \/ N < a
    BY <1>1, <1>3, <2>1
  <2>3. N < a => N * PageSize + PageSize <= a * PageSize
    BY <1>1, <1>3, Below
  <2>4. N * PageSize \in Nat
    BY <1>1
  <2>5. N # a
    BY <1>2, <1>4
  <2> QED
    BY <1>1, <1>2, <1>4, <2>2, <2>3, <2>4, <2>5
<1>6. 0 <= a
  <2>1. SUFFICES ASSUME a < 0 PROVE FALSE
    BY <1>3
  <2>2. a * PageSize + PageSize <= 0 * PageSize
    BY <1>1, <1>3, <2>1, Below
  <2> QED
    BY <1>1, <1>2, <1>4, <2>2
<1>7. a \in Memory
  BY <1>1, <1>3, <1>5, <1>6 DEF Memory, N
<1> QED
  BY <1>4, <1>7 DEF a

LEMMA FreeStep ==
  ASSUME IInv, Pages[Orders] * PageSize \notin FreeArgs, NEW addr \in FreeArgs, Free(addr)
  PROVE  IInv' /\ res' = 0 /\ \E h \in held : h.addr = addr \div PageSize /\ h.addr * PageSize = addr
<1>1. addr \div PageSize \in Memory /\ addr = (addr \div PageSize) * PageSize
  BY PageOf, SizesAssumption DEF Free
<1>2. FreeBlock(addr \div PageSize)
  BY DEF Free
<1> QED
  BY <1>1, <1>2, FreeBlockStep

LEMMA Inductive ==
  ASSUME IInv, Pages[Orders] * PageSize \notin FreeArgs, [Next]_vars
  PROVE  IInv'
<1>1. ASSUME NEW bytes \in Sizes, Alloc(bytes) PROVE IInv'
  BY <1>1, AllocStep
<1>2. ASSUME NEW a \in FreeArgs, Free(a) PROVE IInv'
  BY <1>2, FreeStep
<1>3. ASSUME UNCHANGED <<free_list, tree_mask, held>> PROVE IInv'
  BY <1>3 DEF IInv
<1> QED
  BY <1>1, <1>2, <1>3 DEF Next, AllocFails, FreeFails, vars

-------------------------------------------------------------------------------
\* The free lists, the mask and what clients hold tell the same story, whatever
\* is asked for and given back, as long as nobody frees the address just behind
\* the memory.
THEOREM Accounted ==
  ASSUME Pages[Orders] * PageSize \notin FreeArgs
  PROVE  Spec => []BlocksAccounted
<1>1. IInv => BlocksAccounted
  <2> SUFFICES ASSUME IInv PROVE BlocksAccounted
    OBVIOUS
  <2>1. /\ Lists(free_list) /\ Tiles(FreeBlocks \cup held) /\ FreeBlocks \cap held = {}
        /\ tree_mask = Bits(held)
    BY DEF IInv, Sound, Good, FreeBlocks
  <2> DEFINE B == FreeBlocks \cup held
  <2> HIDE DEF B
  <2>2. Tiles(B)
    BY <2>1 DEF B
  <2>3. ASSUME NEW p \in Memory PROVE Cardinality({b \in B : p \in PagesOf(b)}) = 1
    <3>1. PICK b \in B : p \in PagesOf(b)
      BY <2>2 DEF Tiles
    <3>2. {x \in B : p \in PagesOf(x)} = {b}
      BY <2>2, <3>1 DEF Tiles, Apart
    <3> QED
      BY <3>2, FS_Singleton
  <2>4. \A b \in B : b.addr % Pages[b.order] = 0
    BY <2>2 DEF Tiles, Block
  <2>5. Partition
    BY <2>1, <2>3, <2>4 DEF Partition, Lists, B
  <2> QED
    BY <2>1, <2>5 DEF BlocksAccounted, MaskAgrees, Bits
<1>2. Init => IInv
  BY InitSound
<1>3. IInv /\ [Next]_vars => IInv'
  BY Inductive
<1> QED
  BY <1>1, <1>2, <1>3, PTL DEF Spec

\* Freeing always merges as far as possible: two buddies are never both free.
THEOREM Merged ==
  ASSUME Pages[Orders] * PageSize \notin FreeArgs
  PROVE  Spec => []Coalesced
<1>1. IInv => Coalesced
  <2> SUFFICES ASSUME IInv, NEW b \in FreeBlocks, b.order < Orders, Half(b) \in FreeBlocks PROVE FALSE
    BY DEF Coalesced, Half
  <2>1. Pair(free_list, b)
    BY DEF Pair, FreeBlocks
  <2> QED
    BY <2>1 DEF IInv, Sound
<1>2. Init => IInv
  BY InitSound
<1>3. IInv /\ [Next]_vars => IInv'
  BY Inductive
<1> QED
  BY <1>1, <1>2, <1>3, PTL DEF Spec

\* buddy_free succeeds only for the address of a block that is handed out.
THEOREM FreeTakesWhatIsHeld ==
  ASSUME Pages[Orders] * PageSize \notin FreeArgs
  PROVE  Spec => FreeValidates
<1>1. IInv /\ [Next]_vars =>
        [\A addr \in FreeArgs : Free(addr) => \E h \in held : h.addr * PageSize = addr]_vars
  BY FreeStep
<1>2. Init => IInv
  BY InitSound
<1>3. IInv /\ [Next]_vars => IInv'
  BY Inductive
<1> QED
  BY <1>1, <1>2, <1>3, PTL DEF Spec, FreeValidates

-------------------------------------------------------------------------------
\* The pages a request is rounded up to; none when there is nothing to round or
\* the rounding wraps.
LEMMA Rounded ==
  ASSUME NEW bytes \in Sizes
  PROVE  LET pages == ((bytes + PageSize - 1) % Word) \div PageSize
         IN  /\ pages \in Nat /\ pages <= Word \div PageSize
             /\ pages = 0 => bytes = 0 \/ bytes + PageSize > Word
             /\ pages # 0 => 0 < bytes /\ bytes <= pages * PageSize /\ (pages - 1) * PageSize < bytes
<1> DEFINE S == PageSize
           M == Word \div S
           x == bytes + S - 1
           y == x % Word
           pages == y \div S
<1>1. S \in Nat \ {0} /\ Word \in Nat \ {0} /\ bytes \in 0..(Word - 1) /\ Word = M * S /\ M \in Nat \ {0}
  <2>1. S \in Nat \ {0} /\ Word % S = 0 /\ bytes \in 0..(Word - 1) /\ (Pages[Orders] + 1) * S <= Word
    BY SizesAssumption
  <2>2. Pages[Orders] \in Nat
    BY OrdersAre
  <2>3. (Pages[Orders] + 1) * S \in Nat \ {0}
    BY <2>1, <2>2
  <2>4. Word \in Int
    BY SizesAssumption
  <2>5. Word \in Nat \ {0}
    BY <2>1, <2>3, <2>4
  <2>6. M \in Int /\ Word = M * S + 0
    BY <2>1, <2>5, Divides
  <2> HIDE DEF S, M
  <2>7. ~(M <= 0)
    <3>1. ASSUME M <= 0 PROVE FALSE
      <4>1. CASE M = 0
        BY <2>1, <2>5, <2>6, <4>1
      <4>2. CASE M < 0
        <5>1. M * S + S <= 0 * S
          BY <2>1, <2>6, <4>2, Below
        <5> QED
          BY <2>1, <2>5, <2>6, <5>1
      <4> QED
        BY <2>6, <3>1, <4>1, <4>2
    <3> QED
      BY <3>1
  <2> QED
    BY <2>1, <2>5, <2>6, <2>7
<1> HIDE DEF S, M
<1>2. x \in Nat /\ x < Word + Word /\ x = bytes + S - 1
  <2>1. S <= Word
    <3>1. 1 * S <= M * S
      <4>1. (M - 1) * S >= 0
        BY <1>1
      <4>2. (M - 1) * S = M * S - S
        BY <1>1
      <4> QED
        BY <1>1, <4>1, <4>2
    <3> QED
      BY <1>1, <3>1
  <2> QED
    BY <1>1, <2>1
<1> HIDE DEF x
<1>3. y \in 0..(Word - 1) /\ (x < Word => y = x) /\ (x >= Word => y = x - Word)
  <2>1. \A i \in Int, t \in 0..(Word - 1) : (i * Word + t) % Word = t
    BY <1>1, Quotient
  <2>2. CASE x < Word
    <3>1. x \in 0..(Word - 1) /\ 0 * Word + x = x
      BY <1>1, <1>2, <2>2
    <3>2. (0 * Word + x) % Word = x
      BY <2>1, <3>1
    <3> QED
      BY <1>1, <2>2, <3>1, <3>2
  <2>3. CASE x >= Word
    <3> DEFINE t == x - Word
    <3>1. t \in 0..(Word - 1) /\ 1 * Word + t = x
      BY <1>1, <1>2, <2>3
    <3> HIDE DEF t
    <3>2. (1 * Word + t) % Word = t
      BY <2>1, <3>1
    <3> QED
      BY <1>1, <1>2, <2>3, <3>1, <3>2 DEF t
  <2> QED
    BY <1>1, <1>2, <2>2, <2>3
<1> HIDE DEF y
<1>4. pages \in Int /\ y % S \in 0..(S - 1) /\ y = pages * S + (y % S)
  BY <1>1, <1>3, Divides
<1> DEFINE r == y % S
<1> HIDE DEF pages, r
<1>5. pages \in Int /\ r \in 0..(S - 1) /\ y = pages * S + r
  BY <1>4 DEF r
<1>6. pages >= 0
  <2>1. CASE pages < 0
    <3>1. pages * S + S <= 0 * S
      BY <1>1, <1>5, <2>1, Below
    <3>2. pages * S \in Int
      BY <1>1, <1>5
    <3> QED
      BY <1>1, <1>3, <1>5, <3>1, <3>2
  <2> QED
    BY <1>5, <2>1
<1>7. pages <= M
  <2>1. CASE M < pages
    <3>1. M * S + S <= pages * S
      BY <1>1, <1>5, <2>1, Below
    <3>2. pages * S \in Int
      BY <1>1, <1>5
    <3> QED
      BY <1>1, <1>3, <1>5, <3>1, <3>2
  <2> QED
    BY <1>1, <1>5, <2>1
<1>8. ASSUME pages = 0 PROVE bytes = 0 \/ bytes + S > Word
  <2>1. y = r
    BY <1>1, <1>5, <1>8
  <2>2. CASE x < Word
    BY <1>1, <1>2, <1>3, <1>5, <2>1, <2>2
  <2>3. CASE x >= Word
    BY <1>1, <1>2, <2>3
  <2> QED
    BY <1>1, <1>2, <2>2, <2>3
<1>9. ASSUME pages # 0
      PROVE  0 < bytes /\ bytes <= pages * S /\ (pages - 1) * S < bytes
  <2>1. 0 * S + S <= pages * S
    BY <1>1, <1>5, <1>6, <1>9, Below
  <2>2. pages * S \in Int /\ (pages - 1) * S = pages * S - S
    BY <1>1, <1>5
  <2>3. y >= S
    BY <1>1, <1>3, <1>5, <2>1, <2>2
  <2>4. x < Word
    <3>1. CASE x >= Word
      BY <1>1, <1>2, <1>3, <2>3, <3>1
    <3> QED
      BY <1>1, <1>2, <3>1
  <2> QED
    BY <1>1, <1>2, <1>3, <1>5, <2>2, <2>3, <2>4
<1>10. pages \in Nat
  BY <1>5, <1>6
<1> QED
  BY <1>7, <1>8, <1>9, <1>10 DEF pages, y, x, M, S

\* SIZE_2_ORDER yields the order of the smallest block that holds the request.
LEMMA OrderFits ==
  ASSUME NEW bytes \in Sizes
  PROVE  LET order == SizeToOrder(bytes)
         IN  \/ order = 32 /\ (bytes = 0 \/ bytes + PageSize > Word)
             \/ /\ order \in 0..31 /\ 0 < bytes /\ bytes <= Pages[order] * PageSize
                /\ order > 0 => Pages[order - 1] * PageSize < bytes
<1> DEFINE pages == ((bytes + PageSize - 1) % Word) \div PageSize
           order == SizeToOrder(bytes)
           fits(k) == Pages[k] >= pages /\ (k = 0 \/ Pages[k - 1] < pages)
<1>1. /\ pages \in Nat /\ pages <= Word \div PageSize
      /\ pages = 0 => bytes = 0 \/ bytes + PageSize > Word
      /\ pages # 0 => 0 < bytes /\ bytes <= pages * PageSize /\ (pages - 1) * PageSize < bytes
  BY Rounded
<1>2. /\ pages = 0 => order = 32
      /\ pages # 0 => order = CHOOSE k \in 0..31 : fits(k)
  BY DEF SizeToOrder
<1>3. PageSize \in Nat \ {0} /\ Word \div PageSize <= Pages[30] /\ bytes \in Int
  BY SizesAssumption
<1> HIDE DEF pages, order
<1>4. CASE pages = 0
  BY <1>1, <1>2, <1>4 DEF order
<1>5. CASE pages # 0
  <2> DEFINE K == {k \in 0..31 : Pages[k] >= pages}
  <2>0. \A k \in 0..32 : Pages[k] \in Nat
    BY PagesGrow
  <2>1. 30 \in K
    <3>1. Pages[30] \in Nat /\ 30 \in 0..31
      BY <2>0
    <3>2. Word \div PageSize \in Int
      <4>1. Word \in Int
        BY SizesAssumption
      <4> QED
        BY <1>3, <4>1
    <3> QED
      BY <1>1, <1>3, <3>1, <3>2
  <2>2. PICK k \in K : \A j \in K : k <= j
    <3>1. K \in SUBSET Nat /\ K # {}
      BY <2>1
    <3> HIDE DEF K
    <3> QED
      BY <3>1, Least
  <2>3. k \in 0..31 /\ fits(k)
    <3>1. CASE k = 0
      BY <2>2, <3>1
    <3>2. CASE k # 0
      <4>1. k - 1 \in 0..31 /\ ~(k <= k - 1) /\ Pages[k - 1] \in Nat
        BY <2>0, <2>2, <3>2
      <4> QED
        BY <1>1, <2>2, <4>1
    <3> QED
      BY <3>1, <3>2
  <2>4. order \in 0..31 /\ fits(order)
    <3> HIDE DEF fits
    <3> QED
      BY <1>2, <1>5, <2>3
  <2>5. bytes <= Pages[order] * PageSize
    <3>1. Pages[order] \in Nat /\ Pages[order] >= pages
      BY <2>0, <2>4
    <3>2. (Pages[order] - pages) * PageSize >= 0
      BY <1>1, <1>3, <3>1
    <3>3. (Pages[order] - pages) * PageSize = Pages[order] * PageSize - pages * PageSize
      BY <1>1, <1>3, <3>1
    <3>4. Pages[order] * PageSize \in Int /\ pages * PageSize \in Int
      BY <1>1, <1>3, <3>1
    <3> QED
      BY <1>1, <1>3, <1>5, <3>2, <3>3, <3>4
  <2>6. ASSUME order > 0 PROVE Pages[order - 1] * PageSize < bytes
    <3> DEFINE P == Pages[order - 1]
    <3>1. P \in Nat /\ P < pages
      BY <2>0, <2>4, <2>6
    <3> HIDE DEF P
    <3>2. (pages - 1 - P) * PageSize >= 0
      BY <1>1, <1>3, <3>1
    <3>3. (pages - 1 - P) * PageSize = (pages - 1) * PageSize - P * PageSize
      BY <1>1, <1>3, <3>1
    <3>4. (pages - 1) * PageSize \in Int /\ P * PageSize \in Int
      BY <1>1, <1>3, <3>1
    <3>5. P * PageSize < bytes
      BY <1>1, <1>3, <1>5, <3>2, <3>3, <3>4
    <3> QED
      BY <3>5 DEF P
  <2> QED
    BY <1>1, <1>5, <2>4, <2>5, <2>6 DEF order
<1> QED
  BY <1>4, <1>5

\* No other order fits.
LEMMA OnlyFit ==
  ASSUME NEW bytes \in Sizes
  PROVE  /\ SizeToOrder(bytes) \in Levels => SizeToOrder(bytes) \in Abstract!Fit(bytes)
         /\ \A o \in Abstract!Fit(bytes) : o = SizeToOrder(bytes)
<1> DEFINE order == SizeToOrder(bytes)
<1>1. \/ order = 32 /\ (bytes = 0 \/ bytes + PageSize > Word)
      \/ /\ order \in 0..31 /\ 0 < bytes /\ bytes <= Pages[order] * PageSize
         /\ order > 0 => Pages[order - 1] * PageSize < bytes
  BY OrderFits
<1>2. /\ PageSize \in Nat \ {0} /\ bytes \in Nat /\ (Pages[Orders] + 1) * PageSize <= Word /\ Word \in Int
  BY SizesAssumption
<1>3. Orders \in 0..31 /\ Levels = 0..Orders /\ Pages[Orders] \in Nat
  BY OrdersAre
<1> HIDE DEF order
<1>4. ASSUME order \in Levels PROVE order \in Abstract!Fit(bytes)
  <2>1. order \in 0..Orders /\ order # 32
    BY <1>3, <1>4
  <2> QED
    BY <1>1, <2>1 DEF Abstract!Fit
<1>5. ASSUME NEW i \in 0..32, NEW j \in 0..32, i <= j, bytes <= Pages[i] * PageSize
      PROVE  bytes <= Pages[j] * PageSize
  <2> DEFINE p == Pages[i]
             q == Pages[j]
  <2>1. p \in Nat /\ q \in Nat /\ p <= q
    BY <1>5, PagesGrow
  <2> HIDE DEF p, q
  <2>2. (q - p) * PageSize >= 0 /\ (q - p) * PageSize = q * PageSize - p * PageSize
    BY <1>2, <2>1
  <2>3. q * PageSize \in Int /\ p * PageSize \in Int /\ bytes <= p * PageSize
    BY <1>2, <1>5, <2>1 DEF p
  <2>4. bytes <= q * PageSize
    BY <1>2, <2>2, <2>3
  <2> QED
    BY <2>4 DEF q
<1>6. ASSUME NEW o \in Abstract!Fit(bytes) PROVE o = order
  <2>1. /\ o \in 0..Orders /\ 0 < bytes /\ bytes <= Pages[o] * PageSize
        /\ o > 0 => Pages[o - 1] * PageSize < bytes
    BY <1>6 DEF Abstract!Fit
  <2>2. o \in 0..31 /\ o \in 0..32 /\ Orders \in 0..32 /\ o <= Orders
    BY <1>3, <2>1
  <2>3. order \in 0..31
    <3>1. bytes <= Pages[Orders] * PageSize
      BY <1>5, <2>1, <2>2
    <3>2. Pages[Orders] * PageSize + PageSize <= Word
      <4>1. (Pages[Orders] + 1) * PageSize = Pages[Orders] * PageSize + PageSize
        BY <1>2, <1>3
      <4> QED
        BY <1>2, <4>1
    <3>3. ~(bytes = 0 \/ bytes + PageSize > Word)
      <4>1. Pages[Orders] * PageSize \in Int
        BY <1>2, <1>3
      <4> QED
        BY <1>2, <2>1, <3>1, <3>2, <4>1
    <3> QED
      BY <1>1, <3>3
  <2>4. /\ bytes <= Pages[order] * PageSize
        /\ order > 0 => Pages[order - 1] * PageSize < bytes
    BY <1>1, <2>3
  <2>5. ~(o < order)
    <3>1. ASSUME o < order PROVE FALSE
      <4>1. order - 1 \in 0..32 /\ o <= order - 1 /\ order > 0
        BY <2>2, <2>3, <3>1
      <4>2. bytes <= Pages[order - 1] * PageSize
        BY <1>5, <2>1, <2>2, <4>1
      <4>3. Pages[order - 1] \in Nat
        BY <4>1, PagesGrow
      <4>4. Pages[order - 1] * PageSize \in Int
        BY <1>2, <4>3
      <4> QED
        BY <1>2, <2>4, <4>1, <4>2, <4>4
    <3> QED
      BY <3>1
  <2>6. ~(order < o)
    <3>1. ASSUME order < o PROVE FALSE
      <4>1. o - 1 \in 0..32 /\ order \in 0..32 /\ order <= o - 1 /\ o > 0
        BY <2>2, <2>3, <3>1
      <4>2. bytes <= Pages[o - 1] * PageSize
        BY <1>5, <2>4, <4>1
      <4>3. Pages[o - 1] \in Nat
        BY <4>1, PagesGrow
      <4>4. Pages[o - 1] * PageSize \in Int
        BY <1>2, <4>3
      <4> QED
        BY <1>2, <2>1, <4>1, <4>2, <4>4
    <3> QED
      BY <3>1
  <2> QED
    BY <2>2, <2>3, <2>5, <2>6
<1> QED
  BY <1>4, <1>6 DEF order

-------------------------------------------------------------------------------
\* A call that fails although a block of that size exists has found no room.
LEMMA FailStep ==
  ASSUME IInv, NEW bytes \in Sizes, AllocFails(bytes), NEW o \in Abstract!Fit(bytes)
  PROVE  Abstract!Room(o) = {}
<1> DEFINE gl == SplitDown(free_list, o)
<1>1. o = SizeToOrder(bytes) /\ o \in Levels /\ o \in Int /\ Orders \in Int /\ Levels = 0..Orders
  BY OnlyFit, OrdersAre DEF Abstract!Fit
<1>2. gl[o] = <<>>
  BY <1>1 DEF AllocFails
<1>3. Good(gl, held) /\ PairsLast(gl, o) /\ Settled(gl, o)
  BY <1>1, SplitDownDoes DEF IInv, Sound
<1> HIDE DEF gl
<1>4. ASSUME NEW c \in Abstract!Room(o) PROVE FALSE
  <2>1. c \in Block /\ c.order = o /\ \A h \in held : PagesOf(c) \cap PagesOf(h) = {}
    BY <1>1, <1>4 DEF Abstract!Room, Abstract!PagesOf, PagesOf, Block, Memory
  <2>2. Spare(held, c)
    BY <2>1 DEF Spare
  <2>3. \A x : Pair(gl, x) => c.order <= x.order
    BY <1>3, <2>1 DEF PairsLast
  <2>4. PICK b \in BlocksIn(gl) : c.order <= b.order
    BY <1>3, <2>1, <2>2, <2>3, Covered
  <2>5. b.order \in Levels /\ b.addr \in ToSet(gl[b.order])
    BY <2>4, Listed
  <2>6. gl[b.order] # <<>>
    BY <2>5 DEF ToSet
  <2>7. b.order \in (o + 1)..Orders
    BY <1>1, <1>2, <2>1, <2>4, <2>5, <2>6
  <2> QED
    BY <1>2, <1>3, <2>6, <2>7 DEF Settled
<1> QED
  BY <1>4

\* An address that is refused is not that of a held block.
LEMMA RefusedIsNotHeld ==
  ASSUME IInv, NEW addr, FreeFails(addr), NEW h \in held PROVE h.addr * PageSize # addr
<1>1. /\ h \in Block /\ h.addr \in Memory /\ h.order \in Levels /\ tree_mask = Bits(held)
      /\ h.addr % Pages[h.order] = 0
  BY DEF IInv, Sound, Good, Tiles, Block
<1>2. Level(h.order) \in Levels /\ Level(Level(h.order)) = h.order /\ Pages[Orders] \in Nat
  <2>1. Orders \in Nat /\ Levels = 0..Orders /\ h.order \in 0..Orders /\ Pages[Orders] \in Nat
    BY <1>1, OrdersAre
  <2> QED
    BY <2>1 DEF Level
<1>3. Valid(h.addr * PageSize) /\ (h.addr * PageSize) \div PageSize = h.addr
  <2> DEFINE x == h.addr
             N == Pages[Orders]
  <2>1. x \in Nat /\ N \in Nat /\ x < N /\ PageSize \in Nat \ {0}
    BY <1>1, <1>2, SizesAssumption DEF Memory
  <2> HIDE DEF x, N
  <2>2. x * PageSize \in Nat /\ N * PageSize \in Nat /\ x * PageSize = x * PageSize + 0
        /\ 0 \in 0..(PageSize - 1)
    BY <2>1
  <2>3. x * PageSize + PageSize <= N * PageSize
    BY <2>1, Below
  <2>4. (x * PageSize) % PageSize = 0 /\ (x * PageSize) \div PageSize = x
    BY <2>1, <2>2, Quotient
  <2>5. x * PageSize >= 0 /\ ~(x * PageSize > N * PageSize)
    BY <2>1, <2>2, <2>3
  <2> QED
    BY <2>4, <2>5 DEF Valid, InRange, PageAligned, x, N
<1>4. Level(h.order) \in AllocatedLevels(h.addr)
  BY <1>1, <1>2 DEF AllocatedLevels, Bits, SizeOfLevel
<1> QED
  BY <1>3, <1>4 DEF FreeFails

LEMMA StepImplements ==
  ASSUME IInv, Pages[Orders] * PageSize \notin FreeArgs, [Next]_vars
  PROVE  [Abstract!ANext]_<<held, res, asked>>
<1>1. ASSUME NEW bytes \in Sizes, Alloc(bytes) PROVE Abstract!AAlloc(bytes)
  <2> DEFINE o == SizeToOrder(bytes)
             b == Blk(res', o)
  <2>1. o \in Levels /\ o \in Abstract!Fit(bytes) /\ asked' = bytes
    BY <1>1, OnlyFit DEF Alloc
  <2>2. b \in Block /\ held' = held \cup {b} /\ \A h \in held : PagesOf(b) \cap PagesOf(h) = {}
    BY <1>1, AllocStep
  <2>3. b.order = o /\ b.addr = res' /\ b = [addr |-> res', order |-> o]
    BY DEF Blk
  <2> HIDE DEF b, o
  <2>4. b \in Abstract!Room(o)
    BY <2>2, <2>3 DEF Abstract!Room, Abstract!PagesOf, PagesOf, Block, Memory
  <2> QED
    BY <2>1, <2>2, <2>3, <2>4 DEF Abstract!AAlloc
<1>2. ASSUME NEW bytes \in Sizes, AllocFails(bytes) PROVE Abstract!AAlloc(bytes)
  <2>1. \A o \in Abstract!Fit(bytes) : Abstract!Room(o) = {}
    BY <1>2, FailStep
  <2> QED
    BY <1>2, <2>1 DEF Abstract!AAlloc, AllocFails
<1>3. ASSUME NEW addr \in FreeArgs, Free(addr) PROVE Abstract!AFree(addr)
  <2> DEFINE a == addr \div PageSize
  <2>1. \E h \in held : h.addr = a /\ h.addr * PageSize = addr
    BY <1>3, FreeStep
  <2>2. res' = 0
    BY <1>3, FreeStep
  <2>3. held' = {h \in held : h.addr # a} /\ asked' = Null
    BY <1>3 DEF Free, FreeBlock
  <2> HIDE DEF a
  <2>4. ASSUME NEW h \in held PROVE (h.addr # a) <=> (h.addr * PageSize # addr)
    <3>1. h.addr \in Nat /\ PageSize \in Nat \ {0}
      BY SizesAssumption, OrdersAre DEF IInv, Sound, Good, Tiles, Block, Memory
    <3>2. a \in Nat /\ a * PageSize = addr
      BY <2>1, OrdersAre DEF IInv, Sound, Good, Tiles, Block, Memory
    <3>3. h.addr < a => h.addr * PageSize + PageSize <= a * PageSize
      BY <3>1, <3>2, Below
    <3>4. a < h.addr => a * PageSize + PageSize <= h.addr * PageSize
      BY <3>1, <3>2, Below
    <3>5. h.addr * PageSize \in Nat /\ a * PageSize \in Nat
      BY <3>1, <3>2
    <3>6. h.addr = a => h.addr * PageSize = addr
      BY <3>2
    <3>7. h.addr < a \/ a < h.addr \/ h.addr = a
      BY <3>1, <3>2
    <3>8. h.addr # a => h.addr * PageSize # a * PageSize
      BY <3>1, <3>3, <3>4, <3>5, <3>7
    <3> QED
      BY <3>2, <3>6, <3>8
  <2>5. held' = {h \in held : h.addr * PageSize # addr}
    BY <2>3, <2>4
  <2> QED
    BY <2>1, <2>2, <2>3, <2>5 DEF Abstract!AFree
<1>4. ASSUME NEW addr \in FreeArgs, FreeFails(addr) PROVE Abstract!AFree(addr)
  <2>1. ~ \E h \in held : h.addr * PageSize = addr
    BY <1>4, RefusedIsNotHeld
  <2> QED
    BY <1>4, <2>1 DEF Abstract!AFree, FreeFails
<1>5. ASSUME UNCHANGED vars PROVE UNCHANGED <<held, res, asked>>
  BY <1>5 DEF vars
<1> QED
  BY <1>1, <1>2, <1>3, <1>4, <1>5 DEF Next, Abstract!ANext

\* The allocator keeps the abstract one's promises: a block is aligned, of the
\* smallest size that fits, and overlaps no other; a request fails only when
\* there is no aligned room for it, however the free lists came about; and only
\* what was handed out can be freed.
THEOREM Implementation ==
  ASSUME Pages[Orders] * PageSize \notin FreeArgs
  PROVE  Spec => ImplementsAbstract
<1>1. Init => Abstract!AInit
  BY DEF Init, Abstract!AInit
<1>2. Init => IInv
  BY InitSound
<1>3. IInv /\ [Next]_vars => IInv'
  BY Inductive
<1>4. IInv /\ [Next]_vars => [Abstract!ANext]_Abstract!avars
  BY StepImplements DEF Abstract!avars
<1> QED
  BY <1>1, <1>2, <1>3, <1>4, PTL DEF Spec, ImplementsAbstract, Abstract!ASpec

\* Type correctness.
THEOREM TypeCorrect ==
  ASSUME Pages[Orders] * PageSize \notin FreeArgs
  PROVE  Spec => []TypeOK
<1> DEFINE Kept == IInv /\ res \in {Null, -1} \cup Memory /\ asked \in Sizes \cup {Null}
<1>1. Kept => TypeOK
  <2> SUFFICES ASSUME Kept PROVE TypeOK
    OBVIOUS
  <2>1. /\ free_list \in [Levels -> Seq(Memory)] /\ held \subseteq Block /\ tree_mask = Bits(held)
    BY DEF IInv, Sound, Good, Lists, Tiles
  <2>2. ASSUME NEW h \in Block PROVE Bit(h.addr, Level(h.order)) \in 0..(Pages[Orders + 1] - 2)
    <3> DEFINE l == Orders - h.order
               j == h.addr \div Pages[h.order]
    <3>1. /\ Bit(h.addr, Level(h.order)) = Pages[l] - 1 + j /\ l \in 0..31
          /\ Pages[l] \in Nat \ {0} /\ j \in 0..(Pages[l] - 1)
      BY BitIs
    <3>2. l \in 0..32 /\ Orders + 1 \in 0..32 /\ l < Orders + 1
      BY OrderOf
    <3>3. 2 * Pages[l] <= Pages[Orders + 1] /\ Pages[Orders + 1] \in Nat
      BY <3>2, PagesGrow
    <3> HIDE DEF l, j
    <3> QED
      BY <3>1, <3>3
  <2>3. tree_mask \subseteq 0..(Pages[Orders + 1] - 2)
    BY <2>1, <2>2 DEF Bits
  <2> QED
    BY <2>1, <2>3 DEF TypeOK, Block
<1>2. Init => Kept
  BY InitSound DEF Init
<1>3. Kept /\ [Next]_vars => Kept'
  <2> SUFFICES ASSUME Kept, [Next]_vars PROVE Kept'
    OBVIOUS
  <2>1. IInv'
    BY Inductive
  <2>2. ASSUME NEW bytes \in Sizes, Alloc(bytes) PROVE res' \in Memory /\ asked' \in Sizes
    <3>1. Blk(res', SizeToOrder(bytes)) \in Block
      BY <2>2, AllocStep
    <3> QED
      BY <2>2, <3>1 DEF Alloc, Block, Blk
  <2>3. 0 \in Memory
    BY OrdersAre DEF Memory
  <2>4. res' \in {Null, -1} \cup Memory /\ asked' \in Sizes \cup {Null}
    <3>1. ASSUME NEW addr \in FreeArgs, Free(addr) PROVE res' = 0 /\ asked' = Null
      BY <3>1, FreeStep DEF Free, FreeBlock
    <3> QED
      BY <2>2, <2>3, <3>1 DEF Next, AllocFails, FreeFails, vars
  <2> QED
    BY <2>1, <2>4
<1> HIDE DEF Kept
<1> QED
  BY <1>1, <1>2, <1>3, PTL DEF Spec
===============================================================================
