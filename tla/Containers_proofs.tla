--------------------------- MODULE Containers_proofs ---------------------------
(***************************************************************************)
(* Proofs about Heap, RingBuffer, Queue, BinaryTree, HTable and Trie for   *)
(* any capacity and contents. The heap keeps its order, owns its copies    *)
(* and is a priority queue. The queue and the ring buffer are first-in     *)
(* first-out queues. The level-order tree is a sequence, and its traversal *)
(* breaks only in a tree larger than its queue. The hash table is a        *)
(* multimap that owns what is in its buckets. The trie is a set of words   *)
(* that reaches all its nodes.                                             *)
(***************************************************************************)
EXTENDS Heap, SequenceLemmas

CONSTANTS Items,            \* the values in all of them but the heap
          Capacity,         \* of the ring buffer, and of the hash table
          Nodes, QueueSize, \* of the binary tree
          Keys, MaxEntries, \* of the hash table
          Letters, Words,   \* of the trie
          Null

VARIABLES slots, head, tail, used, taken,  \* the ring buffer
          q, h, t, res,                    \* the queue
          root, left, right, ndata, bpc, op, arg, crt, to_delete, parent,  \* the tree
          hash, buckets, tpc, targ, tret, mem,  \* the hash table
          nodes, leafs, dangling, usable, rv  \* the trie

R == INSTANCE RingBuffer WITH Values <- Items, data <- slots, size <- used, res <- taken
Q == INSTANCE Queue WITH Values <- Nodes, Size <- QueueSize  \* the one of the tree: it carries any Nodes
BT == INSTANCE BinaryTree WITH Values <- Items, data <- ndata, pc <- bpc
H == INSTANCE HTable WITH Values <- Items, pc <- tpc, arg <- targ, ret <- tret
TR == INSTANCE Trie

-------------------------------------------------------------------------------
\* The variables but for owned, whose range follows from CopiesOwned.
Types ==
  /\ dir \in {"min", "max"}
  /\ capacity \in -1..MaxCapacity
  /\ size \in Nat /\ data \in [0..(size - 1) -> Values] /\ (size # 0 => size <= capacity)
  /\ pc \in {"idle", "up", "down"} /\ idx \in Nat
  /\ out \in {"rv", "null", "value"} \X (Values \cup -2..0)

\* Where the loops stand.
LoopInv ==
  /\ pc = "idle" => idx = 0
  /\ pc = "up" => idx < size
  /\ pc = "down" => idx = 0 \/ idx < size
  /\ pc # "idle" => capacity # -1

OrderInv == Types /\ LoopInv /\ HeapOrder

-------------------------------------------------------------------------------
LEMMA SizeIs == ASSUME NEW n \in Nat, DOMAIN data = 0..(n - 1) PROVE size = n
<1>1. Cardinality(0..(n - 1)) = IF 0 > n - 1 THEN 0 ELSE (n - 1) - 0 + 1
  BY FS_Interval
<1> QED
  BY <1>1 DEF size

LEMMA SizeIsNext == ASSUME NEW n \in Nat, DOMAIN data' = 0..(n - 1) PROVE size' = n
<1>1. Cardinality(0..(n - 1)) = IF 0 > n - 1 THEN 0 ELSE (n - 1) - 0 + 1
  BY FS_Interval
<1> QED
  BY <1>1 DEF size

\* Parents and children.
LEMMA Family ==
  ASSUME NEW i \in Nat \ {0}, NEW p \in Nat
  PROVE  /\ Parent(i) \in Nat /\ Parent(i) < i
         /\ Parent(i) = p <=> i \in {Left(p), Right(p)}
         /\ Left(p) # Right(p) /\ Left(p) > p /\ Right(p) > Left(p)
BY DEF Parent, Left, Right

\* Wrong is a strict linear order on the data.
LEMMA WrongOrder ==
  ASSUME dir \in {"min", "max"}, NEW a \in Values, NEW b \in Values, NEW c \in Values
  PROVE  /\ ~(Wrong(a, b) /\ Wrong(b, a)) /\ ~Wrong(a, a)
         /\ ~Wrong(a, b) /\ ~Wrong(b, c) => ~Wrong(a, c)
         /\ Wrong(a, b) \/ Wrong(b, a) \/ a = b
<1>1. a \in Int /\ b \in Int /\ c \in Int
  BY HeapAssumption
<1> QED
  BY <1>1 DEF Wrong

\* A call that changes neither the entries nor the loop keeps the order.
LEMMA SameOrder == HeapOrder /\ UNCHANGED <<dir, data, pc, idx>> => HeapOrder'
BY DEF HeapOrder, size, Wrong

\* The loop may stop at an entry that stands right below its parent and above
\* its children.
LEMMA SettledOrder ==
  ASSUME Types, HeapOrder, UNCHANGED <<dir, data>>, pc' = "idle",
         pc = "up" => ~(idx > 0 /\ Wrong(data[Parent(idx)], data[idx])),
         pc = "down" => \A i \in {Left(idx), Right(idx)} :
                           i < size => ~Wrong(data[idx], data[i])
  PROVE  HeapOrder'
<1>1. size' = size
  BY DEF size
<1>2. ASSUME NEW i \in 1..(size - 1) PROVE ~Wrong(data[Parent(i)], data[i])
  <2>1. i \in Nat \ {0} /\ size \in Nat
    BY DEF Types
  <2>2. CASE pc = "up" /\ idx = i
    BY <2>1, <2>2
  <2>3. CASE pc = "down" /\ idx = Parent(i)
    BY <2>1, <2>3, Family DEF Types
  <2> QED
    BY <2>2, <2>3 DEF HeapOrder
<1>3. \A a, b : Wrong(a, b)' <=> Wrong(a, b)
  BY DEF Wrong
<1> QED
  BY <1>1, <1>2 DEF HeapOrder, Wrong

-------------------------------------------------------------------------------
\* What a swap leaves where.
LEMMA SwapAt ==
  ASSUME Types, NEW i \in 0..(size - 1), NEW j \in 0..(size - 1), NEW d, d = Swap(data, i, j)
  PROVE  /\ d \in [0..(size - 1) -> Values] /\ d[i] = data[j] /\ d[j] = data[i]
         /\ \A k \in 0..(size - 1) : k # i /\ k # j => d[k] = data[k]
BY DEF Swap, Types

\* A turn of __heapify_up that swaps: the entry is now above its old parent,
\* whose other child and whose new children stand right below it.
LEMMA UpOrder ==
  ASSUME Types, LoopInv, HeapOrder, pc = "up", idx > 0, Wrong(data[Parent(idx)], data[idx]),
         data' = Swap(data, Parent(idx), idx), idx' = Parent(idx), UNCHANGED <<dir, pc>>
  PROVE  HeapOrder'
<1> DEFINE p == Parent(idx)
<1>1. /\ idx \in Nat \ {0} /\ idx \in 0..(size - 1) /\ p \in 0..(size - 1) /\ p \in Nat
      /\ size \in Nat /\ p < idx
  BY Family DEF Types, LoopInv
<1>2. /\ data' \in [0..(size - 1) -> Values] /\ data'[p] = data[idx] /\ data'[idx] = data[p]
      /\ \A k \in 0..(size - 1) : k # p /\ k # idx => data'[k] = data[k]
  BY <1>1, SwapAt
<1>3. size' = size
  BY <1>1, <1>2, SizeIsNext
<1>4. ASSUME NEW k \in 0..(size - 1) PROVE data[k] \in Values
  BY DEF Types
<1>5. \A a, b : Wrong(a, b)' <=> Wrong(a, b)
  BY DEF Wrong
<1>6. dir \in {"min", "max"}
  BY DEF Types
<1>7. ASSUME NEW i \in 1..(size - 1), i # p PROVE ~Wrong(data'[Parent(i)], data'[i])
  <2>1. i \in Nat \ {0} /\ Parent(i) \in 0..(size - 1) /\ Parent(i) # i
    BY <1>1, Family
  <2>2. CASE i = idx
    BY <1>1, <1>2, <1>4, <1>6, <2>2, WrongOrder
  <2>3. CASE i # idx /\ Parent(i) = p
    <3>1. ~Wrong(data[p], data[i])
      BY <1>1, <2>1, <2>3 DEF HeapOrder
    <3> QED
      BY <1>1, <1>2, <1>4, <1>6, <1>7, <2>1, <2>3, <3>1, WrongOrder
  <2>4. CASE i # idx /\ Parent(i) = idx
    <3>1. ~Wrong(data[p], data[i])
      BY <1>1, <2>1, <2>4, Family DEF HeapOrder
    <3> QED
      BY <1>1, <1>2, <1>7, <2>1, <2>4, <3>1
  <2>5. CASE i # idx /\ Parent(i) # p /\ Parent(i) # idx
    <3>1. ~Wrong(data[Parent(i)], data[i])
      BY <1>1, <2>1, <2>5 DEF HeapOrder
    <3> QED
      BY <1>1, <1>2, <1>7, <2>1, <2>5, <3>1
  <2> QED
    BY <2>2, <2>3, <2>4, <2>5
<1>8. ASSUME p > 0, NEW i \in {Left(p), Right(p)}, i < size
      PROVE  ~Wrong(data'[Parent(p)], data'[i])
  <2> DEFINE g == Parent(p)
  <2>1. /\ p \in Nat \ {0} /\ g \in 0..(size - 1) /\ g < p
        /\ i \in Nat \ {0} /\ Parent(i) = p /\ i \in 1..(size - 1)
    <3>1. p \in Nat \ {0} /\ g \in Nat /\ g < p
      BY <1>1, <1>8, Family
    <3>2. i \in Nat \ {0}
      BY <1>1 DEF Left, Right
    <3>3. Parent(i) = p
      BY <1>1, <3>2, Family
    <3> QED
      BY <1>1, <1>8, <3>1, <3>2, <3>3
  <2>2. ~Wrong(data[g], data[p]) /\ data'[g] = data[g]
    BY <1>1, <1>2, <2>1 DEF HeapOrder
  <2>3. CASE i = idx
    BY <1>2, <2>2, <2>3
  <2>4. CASE i # idx
    <3>1. ~Wrong(data[p], data[i]) /\ data'[i] = data[i]
      BY <1>1, <1>2, <2>1, <2>4, Family DEF HeapOrder
    <3> QED
      BY <1>1, <1>4, <1>6, <2>1, <2>2, <3>1, WrongOrder
  <2> QED
    BY <2>3, <2>4
<1> QED
  BY <1>3, <1>5, <1>7, <1>8 DEF HeapOrder, Wrong

\* A turn of __heapify_down that swaps the entry with its best child.
LEMMA BestChild ==
  ASSUME Types, NEW i \in 0..(size - 1), Best(i) # i
  PROVE  /\ Best(i) \in 0..(size - 1) /\ Best(i) \in {Left(i), Right(i)}
         /\ Wrong(data[i], data[Best(i)])
         /\ \A k \in {Left(i), Right(i)} : k < size => ~Wrong(data[Best(i)], data[k])
<1> DEFINE l == IF Left(i) < size /\ Wrong(data[i], data[Left(i)]) THEN Left(i) ELSE i
<1>1. /\ size \in Nat /\ Left(i) \in Nat /\ Right(i) \in Nat
      /\ \A k \in 0..(size - 1) : data[k] \in Values
      /\ dir \in {"min", "max"}
  BY DEF Types, Left, Right
<1>2. Best(i) = IF Right(i) < size /\ Wrong(data[l], data[Right(i)]) THEN Right(i) ELSE l
  BY DEF Best
<1>3. l \in 0..(size - 1) /\ (l = i \/ (l = Left(i) /\ Wrong(data[i], data[l])))
      /\ (Left(i) < size => ~Wrong(data[l], data[Left(i)]))
  BY <1>1, WrongOrder
<1> HIDE DEF l
<1>4. CASE Right(i) < size /\ Wrong(data[l], data[Right(i)])
  <2>1. Best(i) = Right(i) /\ Right(i) \in 0..(size - 1)
    BY <1>1, <1>2, <1>4
  <2>2. Wrong(data[i], data[Right(i)])
    BY <1>1, <1>3, <1>4, <2>1, WrongOrder
  <2>3. Left(i) < size => ~Wrong(data[Right(i)], data[Left(i)])
    BY <1>1, <1>3, <1>4, <2>1, WrongOrder
  <2>4. ~Wrong(data[Right(i)], data[Right(i)])
    BY <1>1, <2>1, WrongOrder
  <2> QED
    BY <2>1, <2>2, <2>3, <2>4
<1>5. CASE ~(Right(i) < size /\ Wrong(data[l], data[Right(i)]))
  BY <1>2, <1>3, <1>5
<1> QED
  BY <1>4, <1>5

LEMMA DownOrder ==
  ASSUME Types, LoopInv, HeapOrder, pc = "down", Left(idx) < size, Best(idx) # idx,
         data' = Swap(data, idx, Best(idx)), idx' = Best(idx), UNCHANGED <<dir, pc>>
  PROVE  HeapOrder'
<1> DEFINE b == Best(idx)
<1>1. /\ size \in Nat /\ idx \in 0..(size - 1) /\ idx \in Nat
  BY DEF Types, LoopInv, Left
<1>2. /\ b \in 1..(size - 1) /\ b \in Nat \ {0} /\ Parent(b) = idx /\ idx < b
      /\ Wrong(data[idx], data[b])
      /\ \A k \in {Left(idx), Right(idx)} : k < size => ~Wrong(data[b], data[k])
  <2>1. /\ b \in 0..(size - 1) /\ b \in {Left(idx), Right(idx)}
        /\ Wrong(data[idx], data[b])
        /\ \A k \in {Left(idx), Right(idx)} : k < size => ~Wrong(data[b], data[k])
    BY <1>1, BestChild
  <2>2. b \in Nat \ {0}
    BY <1>1, <2>1 DEF Left, Right
  <2>3. Parent(b) = idx /\ Parent(b) < b
    BY <1>1, <2>1, <2>2, Family
  <2> QED
    BY <1>1, <2>1, <2>2, <2>3
<1>3. /\ data' \in [0..(size - 1) -> Values] /\ data'[idx] = data[b] /\ data'[b] = data[idx]
      /\ \A k \in 0..(size - 1) : k # idx /\ k # b => data'[k] = data[k]
  <2>1. b \in 0..(size - 1)
    BY <1>1, <1>2
  <2> HIDE DEF b
  <2> QED
    BY <1>1, <2>1, SwapAt DEF b
<1>4. size' = size
  BY <1>1, <1>3, SizeIsNext
<1>5. ASSUME NEW k \in 0..(size - 1) PROVE data[k] \in Values
  BY DEF Types
<1>6. dir \in {"min", "max"}
  BY DEF Types
<1>7. ASSUME NEW i \in 1..(size - 1), Parent(i) # b PROVE ~Wrong(data'[Parent(i)], data'[i])
  <2>1. i \in Nat \ {0} /\ Parent(i) \in 0..(size - 1) /\ Parent(i) # i
    BY <1>1, Family
  <2>2. CASE i = b
    <3>1. data[idx] \in Values /\ data[b] \in Values /\ Parent(i) = idx
      BY <1>1, <1>2, <1>5, <2>2
    <3>2. ~Wrong(data[b], data[idx])
      BY <1>2, <1>6, <3>1, WrongOrder
    <3> QED
      BY <1>3, <2>2, <3>1, <3>2
  <2>3. CASE i # b /\ Parent(i) = idx
    <3>1. i \in {Left(idx), Right(idx)}
      BY <1>1, <2>1, <2>3, Family
    <3>2. data'[i] = data[i] /\ data'[Parent(i)] = data[b]
      BY <1>3, <2>1, <2>3
    <3>3. i < size
      BY <1>1, <1>7
    <3> QED
      BY <1>2, <3>1, <3>2, <3>3
  <2>4. CASE i = idx
    <3>1. b \in {Left(idx), Right(idx)} /\ b < size /\ idx > 0 /\ idx # b
      BY <1>1, <1>2, <2>1, <2>4, Family
    <3>2. ~Wrong(data[Parent(idx)], data[b])
      BY <3>1 DEF HeapOrder
    <3>3. data'[i] = data[b] /\ data'[Parent(i)] = data[Parent(idx)]
      BY <1>3, <1>7, <2>1, <2>4
    <3> QED
      BY <2>4, <3>2, <3>3
  <2>5. CASE i # b /\ i # idx /\ Parent(i) # idx
    <3>1. ~Wrong(data[Parent(i)], data[i])
      BY <1>1, <2>1, <2>5 DEF HeapOrder
    <3> QED
      BY <1>3, <1>7, <2>1, <2>5, <3>1
  <2> QED
    BY <2>2, <2>3, <2>4, <2>5
<1>8. ASSUME NEW i \in {Left(b), Right(b)}, i < size
      PROVE  ~Wrong(data'[Parent(b)], data'[i])
  <2>1. i \in Nat \ {0} /\ b < i
    BY <1>2 DEF Left, Right
  <2>2. Parent(i) = b /\ i \in 1..(size - 1)
    BY <1>1, <1>2, <1>8, <2>1, Family
  <2>3. ~Wrong(data[b], data[i])
    BY <1>2, <2>2 DEF HeapOrder
  <2> QED
    BY <1>2, <1>3, <2>1, <2>2, <2>3
<1>9. \A a, c : Wrong(a, c)' <=> Wrong(a, c)
  BY DEF Wrong
<1> QED
  BY <1>4, <1>7, <1>8, <1>9 DEF HeapOrder, Wrong

\* __heapify_up starts at the entry min_heap_insert put last.
LEMMA InsertOrder ==
  ASSUME Types, HeapOrder, NEW v \in Values, Insert(v), UNCHANGED dir
  PROVE  /\ data' \in [0..size -> Values] /\ size' = size + 1
         /\ data'[size] = v /\ \A i \in 0..(size - 1) : data'[i] = data[i]
         /\ HeapOrder'
<1>1. /\ size \in Nat /\ pc = "idle" /\ pc' = "up" /\ idx' = size
      /\ data' = [i \in 0..size |-> IF i = size THEN v ELSE data[i]]
      /\ \A i \in 0..(size - 1) : data[i] \in Values
  BY DEF Insert, Idle, Types
<1>2. /\ data' \in [0..size -> Values] /\ data'[size] = v
      /\ \A i \in 0..(size - 1) : data'[i] = data[i]
  BY <1>1
<1>3. size' = size + 1
  <2>1. DOMAIN data' = 0..((size + 1) - 1) /\ size + 1 \in Nat
    BY <1>1, <1>2
  <2> HIDE DEF size
  <2> QED
    BY <2>1, SizeIsNext
<1>4. ASSUME NEW i \in 1..(size - 1) PROVE ~Wrong(data'[Parent(i)], data'[i])
  <2>1. Parent(i) \in 0..(size - 1)
    BY <1>1, Family
  <2>2. ~Wrong(data[Parent(i)], data[i])
    BY <1>1 DEF HeapOrder
  <2> QED
    BY <1>1, <1>2, <2>1, <2>2
<1>5. Left(size) > size /\ Right(size) > size
  BY <1>1 DEF Left, Right
<1>6. \A a, b : Wrong(a, b)' <=> Wrong(a, b)
  BY DEF Wrong
<1>7. \A i \in 1..((size + 1) - 1) : i \in 1..(size - 1) \/ i = size
  BY <1>1
<1> HIDE DEF size
<1>8. \A i \in {Left(size), Right(size)} : ~(i < size + 1)
  BY <1>1, <1>5 DEF Left, Right
<1>9. (\A i \in 1..(size - 1) : ~Wrong(data[Parent(i)], data[i]) \/ i = idx)'
  BY <1>1, <1>3, <1>4, <1>6, <1>7 DEF Wrong
<1> QED
  BY <1>1, <1>2, <1>3, <1>8, <1>9 DEF HeapOrder

\* __heapify_down starts at the root, where min_heap_delete puts the last entry.
LEMMA DeleteOrder ==
  ASSUME Types, HeapOrder, Delete, UNCHANGED dir
  PROVE  /\ size > 0 /\ data' \in [0..(size - 2) -> Values] /\ size' = size - 1
         /\ size > 1 => data'[0] = data[size - 1]
         /\ \A i \in 1..(size - 2) : data'[i] = data[i]
         /\ HeapOrder'
<1>1. /\ size \in Nat \ {0} /\ pc = "idle" /\ pc' = "down" /\ idx' = 0
      /\ data' = [i \in 0..(size - 2) |-> IF i = 0 THEN data[size - 1] ELSE data[i]]
      /\ \A i \in 0..(size - 1) : data[i] \in Values
  BY DEF Delete, Idle, Types
<1>2. /\ data' \in [0..(size - 2) -> Values] /\ (size > 1 => data'[0] = data[size - 1])
      /\ \A i \in 1..(size - 2) : data'[i] = data[i]
  BY <1>1
<1>3. size' = size - 1
  <2>1. DOMAIN data' = 0..((size - 1) - 1) /\ size - 1 \in Nat
    BY <1>1, <1>2
  <2> HIDE DEF size
  <2> QED
    BY <2>1, SizeIsNext
<1>4. ASSUME NEW i \in 1..(size - 2), Parent(i) # 0 PROVE ~Wrong(data'[Parent(i)], data'[i])
  <2>1. Parent(i) \in 1..(size - 2)
    BY <1>1, <1>4, Family
  <2>2. ~Wrong(data[Parent(i)], data[i])
    BY <1>1 DEF HeapOrder
  <2> QED
    BY <1>1, <1>2, <2>1, <2>2
<1>5. \A a, b : Wrong(a, b)' <=> Wrong(a, b)
  BY DEF Wrong
<1>6. (size - 1) - 1 = size - 2
  BY <1>1
<1> HIDE DEF size
<1> QED
  BY <1>1, <1>2, <1>3, <1>4, <1>5, <1>6 DEF HeapOrder, Wrong

-------------------------------------------------------------------------------
LEMMA NoEntries == ASSUME data = <<>> PROVE size = 0 /\ DOMAIN data = 0..(-1)
<1>1. DOMAIN data = 0..(0 - 1)
  OBVIOUS
<1> QED
  BY <1>1, SizeIs

LEMMA NoEntriesNext == ASSUME data' = <<>> PROVE size' = 0 /\ DOMAIN data' = 0..(-1)
<1>1. DOMAIN data' = 0..(0 - 1)
  OBVIOUS
<1> QED
  BY <1>1, SizeIsNext

LEMMA OrderInit == Init => OrderInv
<1> SUFFICES ASSUME Init PROVE OrderInv
  OBVIOUS
<1>1. size = 0 /\ data \in [0..(size - 1) -> Values]
  BY NoEntries DEF Init
<1>2. capacity \in -1..MaxCapacity
  BY HeapAssumption DEF Init
<1> HIDE DEF size
<1> QED
  BY <1>1, <1>2 DEF Init, OrderInv, Types, LoopInv, HeapOrder

LEMMA OrderStep == OrderInv /\ [Next]_vars => OrderInv'
<1> SUFFICES ASSUME OrderInv, [Next]_vars PROVE OrderInv'
  OBVIOUS
<1> USE DEF OrderInv
<1>a. UNCHANGED data => size' = size
  BY DEF size
<1>1. ASSUME UNCHANGED dir, NEW c \in 0..MaxCapacity, Create(c) PROVE OrderInv'
  <2>1. HeapOrder'
    BY <1>1, SameOrder DEF Create
  <2>2. size = 0
    BY <1>1, HeapAssumption DEF Create, Types
  <2> QED
    BY <1>a, <1>1, <2>1, <2>2, HeapAssumption DEF Create, Types, LoopInv
<1>2. ASSUME UNCHANGED dir, NEW v \in Values, Insert(v) PROVE OrderInv'
  <2>1. data' \in [0..size -> Values] /\ size' = size + 1 /\ HeapOrder'
    BY <1>2, InsertOrder
  <2>2. size \in Nat /\ size + 1 <= capacity
    BY <1>2, HeapAssumption DEF Insert, Idle, Types
  <2>3. Types' /\ LoopInv'
    BY <1>2, <2>1, <2>2 DEF Insert, Idle, Types, LoopInv
  <2> QED
    BY <2>1, <2>3
<1>3. ASSUME UNCHANGED dir, InsertFull \/ InsertNoMemory \/ DeleteEmpty \/ Peek PROVE OrderInv'
  <2>1. HeapOrder'
    BY <1>3, SameOrder DEF InsertFull, InsertNoMemory, DeleteEmpty, Peek
  <2>2. out' \in {"rv", "null", "value"} \X (Values \cup -2..0)
    BY <1>3 DEF InsertFull, InsertNoMemory, DeleteEmpty, Peek, Types
  <2> QED
    BY <1>a, <1>3, <2>1, <2>2 DEF InsertFull, InsertNoMemory, DeleteEmpty, Peek, Types, LoopInv
<1>4. ASSUME UNCHANGED dir, Up PROVE OrderInv'
  <2>1. CASE idx > 0 /\ Wrong(data[Parent(idx)], data[idx])
    <3>1. HeapOrder'
      BY <1>4, <2>1, UpOrder DEF Up
    <3>2. Parent(idx) \in 0..(size - 1) /\ idx \in 0..(size - 1) /\ Parent(idx) < size
      BY <1>4, <2>1, Family DEF Up, Types, LoopInv
    <3>3. data' \in [0..(size - 1) -> Values]
      BY <1>4, <2>1, <3>2, SwapAt DEF Up
    <3>4. size' = size
      BY <3>3, SizeIsNext DEF Types
    <3> QED
      BY <1>4, <2>1, <3>1, <3>2, <3>3, <3>4 DEF Up, Types, LoopInv
  <2>2. CASE ~(idx > 0 /\ Wrong(data[Parent(idx)], data[idx]))
    <3>1. HeapOrder'
      BY <1>4, <2>2, SettledOrder DEF Up
    <3> QED
      BY <1>a, <1>4, <2>2, <3>1 DEF Up, Types, LoopInv
  <2> QED
    BY <2>1, <2>2
<1>5. ASSUME UNCHANGED dir, Delete PROVE OrderInv'
  <2>1. size > 0 /\ data' \in [0..(size - 2) -> Values] /\ size' = size - 1 /\ HeapOrder'
    BY <1>5, DeleteOrder
  <2>2. Types' /\ LoopInv'
    BY <1>5, <2>1 DEF Delete, Idle, Types, LoopInv
  <2> QED
    BY <2>1, <2>2
<1>6. ASSUME UNCHANGED dir, Down PROVE OrderInv'
  <2>1. CASE Left(idx) < size /\ Best(idx) # idx
    <3>1. HeapOrder'
      BY <1>6, <2>1, DownOrder DEF Down
    <3>2. idx \in 0..(size - 1)
      BY <1>6, <2>1 DEF Down, Types, LoopInv, Left
    <3>3. Best(idx) \in 0..(size - 1)
      BY <2>1, <3>2, BestChild
    <3>4. data' \in [0..(size - 1) -> Values]
      <4> DEFINE b == Best(idx)
      <4>1. b \in 0..(size - 1) /\ data' = Swap(data, idx, b)
        BY <1>6, <2>1, <3>3 DEF Down
      <4> HIDE DEF b
      <4> QED
        BY <3>2, <4>1, SwapAt
    <3>5. size' = size
      BY <3>4, SizeIsNext DEF Types
    <3>6. Best(idx) \in Nat /\ Best(idx) < size
      BY <3>3 DEF Types
    <3> QED
      BY <1>6, <2>1, <3>1, <3>4, <3>5, <3>6 DEF Down, Types, LoopInv
  <2>2. CASE ~(Left(idx) < size /\ Best(idx) # idx)
    <3>1. ASSUME NEW i \in {Left(idx), Right(idx)}, i < size PROVE ~Wrong(data[idx], data[i])
      <4>1. idx \in Nat /\ size \in Nat
        BY DEF Types
      <4>2. Left(idx) < size
        BY <3>1, <4>1 DEF Left, Right
      <4>3. idx \in 0..(size - 1) /\ Best(idx) = idx
        BY <2>2, <4>1, <4>2 DEF Left
      <4>4. \A k \in 0..(size - 1) : data[k] \in Values
        BY DEF Types
      <4> QED
        BY <3>1, <4>1, <4>2, <4>3 DEF Best, Left, Right
    <3>2. HeapOrder'
      BY <1>6, <2>2, <3>1, SettledOrder DEF Down
    <3> QED
      BY <1>a, <1>6, <2>2, <3>2 DEF Down, Types, LoopInv
  <2> QED
    BY <2>1, <2>2
<1>7. ASSUME UNCHANGED dir, Destroy PROVE OrderInv'
  <2>1. size' = 0 /\ data' \in [0..(size' - 1) -> Values]
    BY <1>7, NoEntriesNext DEF Destroy
  <2>2. HeapOrder'
    BY <1>7, <2>1 DEF Destroy, Idle, HeapOrder
  <2> QED
    BY <1>7, <2>1, <2>2, HeapAssumption DEF Destroy, Idle, Types, LoopInv
<1>8. CASE UNCHANGED vars
  <2>1. HeapOrder'
    BY <1>8, SameOrder DEF vars
  <2> QED
    BY <1>a, <1>8, <2>1 DEF vars, Types, LoopInv
<1> QED
  BY <1>1, <1>2, <1>3, <1>4, <1>5, <1>6, <1>7, <1>8 DEF Next

\* min_heap.c and max_heap.c, 41 to 84: every entry stands right below its
\* parent, but where a heapify loop is at work; when no loop runs, all do.
THEOREM HeapStaysOrdered == Spec => []HeapOrder
BY OrderInit, OrderStep, PTL DEF Spec, OrderInv

-------------------------------------------------------------------------------
\* The entries that hold a value.
Where(d, v) == {i \in DOMAIN d : d[i] = v}

LEMMA CountIs ==
  ASSUME Types
  PROVE  /\ Contents \in [Values -> Nat]
         /\ \A v : IsFiniteSet(Where(data, v)) /\ Where(data, v) \subseteq 0..(size - 1)
         /\ \A v \in Values : Contents[v] = Cardinality(Where(data, v))
<1>1. IsFiniteSet(0..(size - 1))
  BY FS_Interval DEF Types
<1>2. ASSUME NEW v PROVE IsFiniteSet(Where(data, v)) /\ Where(data, v) \subseteq 0..(size - 1)
  <2>1. Where(data, v) \subseteq 0..(size - 1)
    BY DEF Where, Types
  <2> QED
    BY <1>1, <2>1, FS_Subset
<1>3. ASSUME NEW v \in Values PROVE Cardinality(Where(data, v)) \in Nat
  BY <1>2, FS_CardinalityType
<1> QED
  BY <1>2, <1>3 DEF Contents, Where

LEMMA MoveOne ==
  ASSUME NEW S, IsFiniteSet(S), NEW i \in S, NEW j, j \notin S
  PROVE  Cardinality((S \ {i}) \cup {j}) = Cardinality(S)
<1>1. IsFiniteSet(S \ {i}) /\ Cardinality(S \ {i}) = Cardinality(S) - 1
  BY FS_RemoveElement
<1>2. Cardinality((S \ {i}) \cup {j}) = Cardinality(S \ {i}) + 1
  BY <1>1, FS_AddElement
<1>3. Cardinality(S) \in Nat
  BY FS_CardinalityType
<1> QED
  BY <1>1, <1>2, <1>3

\* A swap keeps what the heap holds.
LEMMA SwapKeeps ==
  ASSUME Types, NEW i \in 0..(size - 1), NEW j \in 0..(size - 1), data' = Swap(data, i, j)
  PROVE  Contents' = Contents
<1>1. /\ data' \in [0..(size - 1) -> Values] /\ data'[i] = data[j] /\ data'[j] = data[i]
      /\ \A k \in 0..(size - 1) : k # i /\ k # j => data'[k] = data[k]
  BY SwapAt
<1>2. DOMAIN data = 0..(size - 1) /\ DOMAIN data' = 0..(size - 1)
  BY <1>1 DEF Types
<1>3. ASSUME NEW v \in Values PROVE Cardinality(Where(data', v)) = Cardinality(Where(data, v))
  <2> DEFINE S == Where(data, v)
             T == Where(data', v)
             n == size
  <2>1. IsFiniteSet(S)
    BY CountIs
  <2>2. \A k \in 0..(n - 1) : (k \in S <=> data[k] = v) /\ (k \in T <=> data'[k] = v)
    BY <1>2 DEF Where
  <2>3. S \subseteq 0..(n - 1) /\ T \subseteq 0..(n - 1)
    BY <1>2 DEF Where
  <2>4. /\ i \in 0..(n - 1) /\ j \in 0..(n - 1)
        /\ (i \in T <=> j \in S) /\ (j \in T <=> i \in S)
        /\ \A k \in 0..(n - 1) : k # i /\ k # j => (k \in T <=> k \in S)
    BY <1>1, <2>2
  <2> HIDE DEF S, T, n
  <2>5. CASE i \in S /\ j \notin S
    <3>1. T = (S \ {i}) \cup {j}
      BY <2>3, <2>4, <2>5
    <3> QED
      BY <2>1, <2>5, <3>1, MoveOne DEF S, T
  <2>6. CASE i \notin S /\ j \in S
    <3>1. T = (S \ {j}) \cup {i}
      BY <2>3, <2>4, <2>6
    <3> QED
      BY <2>1, <2>6, <3>1, MoveOne DEF S, T
  <2>7. CASE i \in S <=> j \in S
    <3>1. \A k \in 0..(n - 1) : k \in T <=> k \in S
      BY <2>4, <2>7
    <3>2. T = S
      BY <2>3, <3>1
    <3> QED
      BY <3>2 DEF S, T
  <2> QED
    BY <2>5, <2>6, <2>7
<1> QED
  BY <1>3 DEF Contents, Where

LEMMA InsertAdds ==
  ASSUME Types, HeapOrder, NEW v \in Values, Insert(v), UNCHANGED dir
  PROVE  Contents' = [Contents EXCEPT ![v] = @ + 1]
<1>1. /\ data' \in [0..size -> Values] /\ data'[size] = v /\ size \in Nat
      /\ \A i \in 0..(size - 1) : data'[i] = data[i]
  BY InsertOrder DEF Types
<1>2. DOMAIN data = 0..(size - 1) /\ DOMAIN data' = 0..size
  BY <1>1 DEF Types
<1>3. ASSUME NEW w \in Values
      PROVE  Cardinality(Where(data', w)) =
               IF w = v THEN Cardinality(Where(data, w)) + 1 ELSE Cardinality(Where(data, w))
  <2>1. IsFiniteSet(Where(data, w)) /\ size \notin Where(data, w)
    <3>1. size \notin 0..(size - 1)
      BY <1>1
    <3> QED
      BY <3>1, CountIs
  <2>2. 0..size = 0..(size - 1) \cup {size}
    BY <1>1
  <2>3. Where(data', w) = IF w = v THEN Where(data, w) \cup {size} ELSE Where(data, w)
    BY <1>1, <1>2, <2>2 DEF Where
  <2> QED
    BY <2>1, <2>3, FS_AddElement
<1>4. Contents' = [w \in Values |-> Cardinality(Where(data', w))]
  BY DEF Contents, Where
<1> QED
  BY <1>3, <1>4, CountIs

LEMMA DeleteTakesRoot ==
  ASSUME Types, HeapOrder, Delete, UNCHANGED dir
  PROVE  /\ data[0] \in Values /\ Contents[data[0]] > 0
         /\ Contents' = [Contents EXCEPT ![data[0]] = @ - 1]
<1> DEFINE n == size
           r == data[0]
<1>1. /\ n \in Nat \ {0} /\ data' \in [0..(n - 2) -> Values]
      /\ n > 1 => data'[0] = data[n - 1]
      /\ \A i \in 1..(n - 2) : data'[i] = data[i]
  BY DeleteOrder DEF Types
<1>2. DOMAIN data = 0..(n - 1) /\ DOMAIN data' = 0..(n - 2) /\ r \in Values
  BY <1>1 DEF Types
<1>3. ASSUME NEW v
      PROVE  /\ IsFiniteSet(Where(data, v)) /\ Where(data, v) \subseteq 0..(n - 1)
             /\ Where(data', v) \subseteq 0..(n - 2)
             /\ \A i \in 0..(n - 1) : i \in Where(data, v) <=> data[i] = v
             /\ \A i \in 0..(n - 2) : i \in Where(data', v) <=> data'[i] = v
  BY <1>2, CountIs DEF Where
<1> HIDE DEF n
<1>4. 0 \in Where(data, r)
  BY <1>1, <1>3
<1>5. ASSUME NEW v \in Values
      PROVE  Cardinality(Where(data', v)) =
               IF v = r THEN Cardinality(Where(data, v)) - 1 ELSE Cardinality(Where(data, v))
  <2> DEFINE S == Where(data, v)
             T == Where(data', v)
  <2>1. /\ S \subseteq 0..(n - 1) /\ T \subseteq 0..(n - 2) /\ IsFiniteSet(S)
        /\ (0 \in S <=> v = r)
        /\ \A i \in 1..(n - 2) : i \in T <=> i \in S
        /\ n > 1 => (0 \in T <=> n - 1 \in S)
    BY <1>1, <1>3
  <2>2. /\ S \subseteq 0..(n - 1) /\ T \subseteq 0..(n - 1) /\ n - 1 \notin T
        /\ n = 1 => T = {}
        /\ \A k \in 0..(n - 1) : k = 0 \/ k = n - 1 \/ k \in 1..(n - 2)
    BY <1>1, <2>1
  <2> HIDE DEF S, T
  <2>3. CASE v = r /\ n - 1 \in S
    <3>1. \A k \in 0..(n - 1) : k \in T <=> k \in S /\ k # n - 1
      BY <1>1, <2>1, <2>2, <2>3
    <3>2. T = S \ {n - 1}
      BY <2>2, <3>1
    <3>3. Cardinality(T) = Cardinality(S) - 1
      BY <2>1, <2>3, <3>2, FS_RemoveElement
    <3> QED
      BY <2>3, <3>3 DEF S, T
  <2>4. CASE v = r /\ n - 1 \notin S
    <3>1. \A k \in 0..(n - 1) : k \in T <=> k \in S /\ k # 0
      BY <1>1, <2>1, <2>2, <2>4
    <3>2. T = S \ {0} /\ 0 \in S
      BY <2>1, <2>2, <2>4, <3>1
    <3>3. Cardinality(T) = Cardinality(S) - 1
      BY <2>1, <3>2, FS_RemoveElement
    <3> QED
      BY <2>4, <3>3 DEF S, T
  <2>5. CASE v # r /\ n - 1 \in S
    <3>1. \A k \in 0..(n - 1) : k \in T <=> (k \in S /\ k # n - 1) \/ k = 0
      BY <1>1, <2>1, <2>2, <2>5
    <3>2. T = (S \ {n - 1}) \cup {0}
      <4>1. 0 \in T
        BY <1>1, <3>1
      <4>2. \A k \in T : k \in (S \ {n - 1}) \cup {0}
        BY <2>2, <3>1
      <4>3. \A k \in S \ {n - 1} : k \in T
        BY <2>2, <3>1
      <4> QED
        BY <4>1, <4>2, <4>3
    <3> QED
      BY <2>1, <2>5, <3>2, MoveOne DEF S, T
  <2>6. CASE v # r /\ n - 1 \notin S
    <3>1. \A k \in 0..(n - 1) : k \in T <=> k \in S
      BY <1>1, <2>1, <2>2, <2>6
    <3>2. T = S
      BY <2>2, <3>1
    <3> QED
      BY <2>6, <3>2 DEF S, T
  <2> QED
    BY <2>3, <2>4, <2>5, <2>6
<1>6. Contents' = [v \in Values |-> Cardinality(Where(data', v))]
  BY DEF Contents, Where
<1>7. Contents[r] > 0
  <2>1. Cardinality(Where(data, r)) # 0
    BY <1>3, <1>4, FS_EmptySet
  <2>2. Contents[r] = Cardinality(Where(data, r)) /\ Contents[r] \in Nat
    BY <1>2, CountIs
  <2> QED
    BY <2>1, <2>2
<1>8. Contents' = [Contents EXCEPT ![r] = @ - 1]
  <2> HIDE DEF r
  <2> QED
    BY <1>2, <1>5, <1>6, CountIs
<1> QED
  BY <1>2, <1>7, <1>8

LEMMA LoopsKeep == ASSUME Types, LoopInv, Up \/ Down PROVE Contents' = Contents
<1>1. CASE UNCHANGED data
  BY <1>1 DEF Contents
<1>2. CASE Up /\ idx > 0 /\ Wrong(data[Parent(idx)], data[idx])
  <2>1. idx \in 0..(size - 1) /\ Parent(idx) \in 0..(size - 1)
    BY <1>2, Family DEF Up, Types, LoopInv
  <2> QED
    BY <1>2, <2>1, SwapKeeps DEF Up
<1>3. CASE Down /\ Left(idx) < size /\ Best(idx) # idx
  <2> DEFINE b == Best(idx)
  <2>1. idx \in 0..(size - 1)
    BY <1>3 DEF Down, Types, LoopInv, Left
  <2>2. b \in 0..(size - 1) /\ data' = Swap(data, idx, b)
    BY <1>3, <2>1, BestChild DEF Down
  <2> HIDE DEF b
  <2> QED
    BY <2>1, <2>2, SwapKeeps
<1> QED
  BY <1>1, <1>2, <1>3 DEF Up, Down

LEMMA NothingHeld == ASSUME data = <<>> PROVE Contents = [v \in Values |-> 0]
BY NoEntries, FS_EmptySet DEF Contents

LEMMA NothingHeldNext == ASSUME data' = <<>> PROVE Contents' = [v \in Values |-> 0]
BY NoEntriesNext, FS_EmptySet DEF Contents

\* A value counts as held exactly when some entry holds it.
LEMMA Held ==
  ASSUME Types, NEW v \in Values
  PROVE  Contents[v] > 0 <=> \E i \in 0..(size - 1) : data[i] = v
<1>1. Contents[v] = Cardinality(Where(data, v)) /\ IsFiniteSet(Where(data, v))
  BY CountIs
<1>2. Cardinality(Where(data, v)) = 0 <=> Where(data, v) = {}
  BY <1>1, FS_EmptySet
<1>3. Cardinality(Where(data, v)) \in Nat
  BY <1>1, FS_CardinalityType
<1>4. Where(data, v) # {} <=> \E i \in 0..(size - 1) : data[i] = v
  BY DEF Where, Types
<1> QED
  BY <1>1, <1>2, <1>3, <1>4

-------------------------------------------------------------------------------
HeapInv == OrderInv /\ CopiesOwned

\* Every copy the callbacks made is in the heap, once.
LEMMA CopiesStep == HeapInv /\ [Next]_vars => CopiesOwned'
<1> SUFFICES ASSUME HeapInv, [Next]_vars PROVE owned' = Contents'
  BY DEF CopiesOwned
<1>a. Types /\ LoopInv /\ HeapOrder /\ owned = Contents
  BY DEF HeapInv, OrderInv, CopiesOwned
<1>b. UNCHANGED <<owned, data>> => owned' = Contents'
  BY <1>a DEF Contents
<1>1. ASSUME NEW c \in 0..MaxCapacity, Create(c) PROVE owned' = Contents'
  BY <1>b, <1>1 DEF Create
<1>2. ASSUME UNCHANGED dir, NEW v \in Values, Insert(v) PROVE owned' = Contents'
  BY <1>a, <1>2, InsertAdds DEF Insert
<1>3. ASSUME InsertFull \/ InsertNoMemory \/ DeleteEmpty \/ Peek PROVE owned' = Contents'
  BY <1>b, <1>3 DEF InsertFull, InsertNoMemory, DeleteEmpty, Peek
<1>4. ASSUME Up \/ Down PROVE owned' = Contents'
  BY <1>a, <1>4, LoopsKeep DEF Up, Down
<1>5. ASSUME UNCHANGED dir, Delete PROVE owned' = Contents'
  BY <1>a, <1>5, DeleteTakesRoot DEF Delete
<1>6. ASSUME Destroy PROVE owned' = Contents'
  <2>1. \A v \in Values : owned[v] - Contents[v] = 0
    BY <1>a, CountIs
  <2> QED
    BY <1>6, <2>1, NothingHeldNext DEF Destroy
<1>7. CASE UNCHANGED vars
  BY <1>b, <1>7 DEF vars
<1> QED
  BY <1>1, <1>2, <1>3, <1>4, <1>5, <1>6, <1>7 DEF Next

LEMMA InvInit == Init => HeapInv
<1> SUFFICES ASSUME Init PROVE HeapInv
  OBVIOUS
<1>1. owned = Contents
  BY NothingHeld DEF Init
<1> QED
  BY <1>1, OrderInit DEF HeapInv, CopiesOwned

LEMMA InvStep == HeapInv /\ [Next]_vars => HeapInv'
BY OrderStep, CopiesStep DEF HeapInv

\* min_heap.c and max_heap.c, 139 to 231: what the copy callback made is in the
\* heap, and what leaves the heap the free callback gets, each copy once.
THEOREM HeapOwnsCopies == Spec => []CopiesOwned
BY InvInit, InvStep, PTL DEF Spec, HeapInv

\* Every variable of the heap keeps its type.
THEOREM HeapTypes == Spec => []TypeOK
<1>1. HeapInv => TypeOK
  <2> SUFFICES ASSUME HeapInv PROVE TypeOK
    OBVIOUS
  <2>1. Types /\ LoopInv /\ owned \in [Values -> Nat]
    BY CountIs DEF HeapInv, OrderInv, CopiesOwned
  <2>2. idx \in 0..MaxCapacity
    BY <2>1, HeapAssumption DEF Types, LoopInv
  <2> QED
    BY <2>1, <2>2 DEF Types, TypeOK
<1> QED
  BY <1>1, InvInit, InvStep, PTL DEF Spec

-------------------------------------------------------------------------------
\* In a heap at rest no entry belongs above the root: the parent of the least
\* such entry would be another.
LEMMA RootFirst ==
  ASSUME Types, LoopInv, HeapOrder, pc = "idle", NEW i \in 0..(size - 1)
  PROVE  ~Wrong(data[0], data[i])
<1> DEFINE T == {k \in 0..(size - 1) : Wrong(data[0], data[k])}
<1> SUFFICES ASSUME T # {} PROVE FALSE
  OBVIOUS
<1>1. T \subseteq Nat /\ \A k \in 0..(size - 1) : data[k] \in Values
  BY DEF Types
<1>2. IsWellFoundedOn(OpToRel(<, Nat), Nat)
  BY NatLessThanWellFounded
<1>3. PICK x \in T : \A y \in T : ~(<<y, x>> \in OpToRel(<, Nat))
  BY <1>1, <1>2, WFMin
<1>4. \A y \in T : ~(y < x)
  BY <1>1, <1>3 DEF OpToRel
<1>5. x \in 0..(size - 1) /\ Wrong(data[0], data[x]) /\ size \in Nat /\ dir \in {"min", "max"}
  BY DEF Types
<1>6. x # 0
  BY <1>1, <1>5, WrongOrder
<1>7. Parent(x) \in 0..(size - 1) /\ Parent(x) < x /\ x \in 1..(size - 1)
  BY <1>5, <1>6, Family
<1>8. ~Wrong(data[0], data[Parent(x)])
  BY <1>4, <1>7
<1>9. ~Wrong(data[Parent(x)], data[x])
  BY <1>7 DEF HeapOrder
<1> QED
  BY <1>1, <1>5, <1>7, <1>8, <1>9, WrongOrder

\* The root is what the abstract queue may show or remove.
LEMMA RootIsFirst ==
  ASSUME Types, LoopInv, HeapOrder, pc = "idle", size # 0
  PROVE  data[0] \in Abstract!First
<1>1. size \in Nat /\ 0 \in 0..(size - 1) /\ data[0] \in Values
  BY DEF Types
<1>2. Contents[data[0]] > 0
  BY <1>1, Held
<1>3. ASSUME NEW w \in Values, Contents[w] > 0
      PROVE  IF dir = "min" THEN data[0] <= w ELSE data[0] >= w
  <2>1. PICK i \in 0..(size - 1) : data[i] = w
    BY <1>3, Held
  <2>2. ~Wrong(data[0], w)
    BY <2>1, RootFirst
  <2>3. data[0] \in Int /\ w \in Int
    BY <1>1, HeapAssumption
  <2> HIDE DEF size
  <2> QED
    BY <2>2, <2>3 DEF Wrong
<1> QED
  BY <1>1, <1>2, <1>3 DEF Abstract!First, Abstract!Inside

LEMMA NothingInside == ASSUME Types PROVE size = 0 <=> Abstract!Inside = {}
<1>1. ASSUME size = 0, NEW v \in Values PROVE ~(Contents[v] > 0)
  BY <1>1, Held
<1>2. ASSUME size # 0 PROVE data[0] \in Values /\ Contents[data[0]] > 0
  <2>1. 0 \in 0..(size - 1) /\ data[0] \in Values
    BY <1>2 DEF Types
  <2> QED
    BY <2>1, Held
<1> QED
  BY <1>1, <1>2 DEF Abstract!Inside

LEMMA StepImplements == HeapInv /\ [Next]_vars => [Abstract!ANext]_(Abstract!avars)
<1> SUFFICES ASSUME HeapInv, [Next]_vars
             PROVE  Abstract!ANext \/ UNCHANGED <<dir, Contents, capacity, out>>
  BY DEF Abstract!avars
<1>a. Types /\ LoopInv /\ HeapOrder
  BY DEF HeapInv, OrderInv
<1>b. UNCHANGED data => Contents' = Contents
  BY DEF Contents
<1>1. ASSUME UNCHANGED dir, NEW c \in 0..MaxCapacity, Create(c) PROVE Abstract!ANext
  <2>1. Abstract!ACreate
    BY <1>b, <1>1 DEF Create, Abstract!ACreate
  <2> QED
    BY <1>1, <2>1 DEF Abstract!ANext
<1>2. ASSUME UNCHANGED dir, NEW v \in Values, Insert(v) PROVE Abstract!ANext
  <2>1. Abstract!AInsert(v)
    BY <1>a, <1>2, InsertAdds DEF Insert, Abstract!AInsert
  <2> QED
    BY <1>2, <2>1 DEF Insert, Idle, Abstract!ANext
<1>3. ASSUME UNCHANGED dir, InsertFull \/ InsertNoMemory PROVE Abstract!ANext
  <2>1. Abstract!AInsertFails
    BY <1>b, <1>3 DEF InsertFull, InsertNoMemory, Abstract!AInsertFails
  <2> QED
    BY <1>3, <2>1 DEF InsertFull, InsertNoMemory, Idle, Abstract!ANext
<1>4. ASSUME UNCHANGED dir, Up \/ Down PROVE UNCHANGED <<dir, Contents, capacity, out>>
  BY <1>a, <1>4, LoopsKeep DEF Up, Down
<1>5. ASSUME UNCHANGED dir, Delete PROVE Abstract!ANext
  <2>1. data[0] \in Abstract!First
    BY <1>a, <1>5, RootIsFirst DEF Delete, Idle
  <2>2. Abstract!ADelete
    BY <1>a, <1>5, <2>1, DeleteTakesRoot DEF Delete, Abstract!ADelete
  <2> QED
    BY <1>5, <2>2 DEF Delete, Idle, Abstract!ANext
<1>6. ASSUME UNCHANGED dir, DeleteEmpty PROVE Abstract!ANext
  <2>1. Abstract!ADeleteFails
    BY <1>a, <1>b, <1>6, NothingInside DEF DeleteEmpty, Abstract!ADeleteFails
  <2> QED
    BY <1>6, <2>1 DEF DeleteEmpty, Idle, Abstract!ANext
<1>7. ASSUME UNCHANGED dir, Peek PROVE Abstract!ANext
  <2>1. Abstract!APeek
    <3>1. CASE size = 0
      BY <1>a, <1>b, <1>7, <3>1, NothingInside DEF Peek, Abstract!APeek
    <3>2. CASE size # 0
      <4>1. data[0] \in Abstract!First /\ Abstract!Inside # {}
        BY <1>a, <1>7, <3>2, RootIsFirst, NothingInside DEF Peek, Idle
      <4> QED
        BY <1>b, <1>7, <3>2, <4>1 DEF Peek, Abstract!APeek
    <3> QED
      BY <3>1, <3>2
  <2> QED
    BY <1>7, <2>1 DEF Peek, Idle, Abstract!ANext
<1>8. ASSUME UNCHANGED dir, Destroy PROVE Abstract!ANext
  <2>1. Abstract!ADestroy
    BY <1>8, NothingHeldNext DEF Destroy, Abstract!ADestroy, Abstract!None
  <2> QED
    BY <1>8, <2>1 DEF Destroy, Idle, Abstract!ANext
<1>9. CASE UNCHANGED vars
  BY <1>b, <1>9 DEF vars
<1> QED
  BY <1>1, <1>2, <1>3, <1>4, <1>5, <1>6, <1>7, <1>8, <1>9 DEF Next

\* min_heap.c and max_heap.c: whatever the order inside, peek shows a first
\* value, delete removes it, and a call that fails changes nothing.
THEOREM HeapImplementsQueue == Spec => ImplementsPriorityQueue
<1>1. Init => Abstract!AInit
  BY NothingHeld DEF Init, Abstract!AInit, Abstract!None
<1> QED
  BY <1>1, InvInit, InvStep, StepImplements, PTL DEF Spec, ImplementsPriorityQueue, Abstract!ASpec

-------------------------------------------------------------------------------
LEMMA Wrap ==
  ASSUME NEW m \in Nat \ {0}, NEW x \in 0..(2 * m - 1)
  PROVE  x % m = IF x < m THEN x ELSE x - m
OBVIOUS

-------------------------------------------------------------------------------
\* The slots in use are the used slots from head on, around the end.
RingInv ==
  /\ slots \in [0..(Capacity - 1) -> Items \cup {Null}]
  /\ head \in 0..(Capacity - 1) /\ used \in 0..Capacity
  /\ tail = (head + used) % Capacity

Slot(i) == (head + i - 1) % Capacity

LEMMA RingSlots ==
  ASSUME Capacity \in Nat \ {0}, RingInv
  PROVE  /\ \A i \in 1..used : Slot(i) \in 0..(Capacity - 1) /\ (used < Capacity => Slot(i) # tail)
         /\ Slot(used + 1) = tail /\ tail \in 0..(Capacity - 1)
         /\ used < Capacity => (tail + 1) % Capacity = (head + (used + 1)) % Capacity
         /\ used > 0 => /\ (head + 1) % Capacity \in 0..(Capacity - 1) /\ Slot(1) = head
                        /\ tail = (((head + 1) % Capacity) + (used - 1)) % Capacity
                        /\ \A i \in 1..(used - 1) :
                             (((head + 1) % Capacity) + i - 1) % Capacity = Slot(i + 1)
<1> DEFINE wrap(x) == IF x < Capacity THEN x ELSE x - Capacity
<1>0. head \in 0..(Capacity - 1) /\ used \in 0..Capacity /\ Capacity \in Nat \ {0}
  BY DEF RingInv
<1>1. \A x \in 0..(2 * Capacity - 1) : x % Capacity = wrap(x)
  BY Wrap
<1>2. ASSUME NEW i \in 1..(used + 1) PROVE Slot(i) = wrap(head + i - 1)
  <2>1. head + i - 1 \in 0..(2 * Capacity - 1)
    BY <1>0
  <2> HIDE DEF wrap
  <2> QED
    BY <1>1, <2>1 DEF Slot
<1>3. tail = wrap(head + used)
  <2>1. head + used \in 0..(2 * Capacity - 1)
    BY <1>0
  <2> HIDE DEF wrap
  <2> QED
    BY <1>1, <2>1 DEF RingInv
<1>4. \A i \in 1..used : Slot(i) \in 0..(Capacity - 1) /\ (used < Capacity => Slot(i) # tail)
  <2> SUFFICES ASSUME NEW i \in 1..used
               PROVE  wrap(head + i - 1) \in 0..(Capacity - 1)
                      /\ (used < Capacity => wrap(head + i - 1) # wrap(head + used))
    BY <1>0, <1>2, <1>3
  <2> QED
    BY <1>0
<1>5. Slot(used + 1) = tail /\ tail \in 0..(Capacity - 1)
  BY <1>0, <1>2, <1>3
<1>6. ASSUME used < Capacity PROVE (tail + 1) % Capacity = (head + (used + 1)) % Capacity
  <2>1. tail + 1 \in 0..(2 * Capacity - 1) /\ head + (used + 1) \in 0..(2 * Capacity - 1)
    BY <1>0, <1>5, <1>6
  <2>2. wrap(wrap(head + used) + 1) = wrap(head + (used + 1))
    BY <1>0, <1>6
  <2> HIDE DEF wrap
  <2> QED
    BY <1>1, <1>3, <2>1, <2>2
<1>7. ASSUME used > 0
      PROVE  /\ (head + 1) % Capacity \in 0..(Capacity - 1) /\ Slot(1) = head
             /\ tail = (((head + 1) % Capacity) + (used - 1)) % Capacity
             /\ \A i \in 1..(used - 1) : (((head + 1) % Capacity) + i - 1) % Capacity = Slot(i + 1)
  <2>1. (head + 1) % Capacity = wrap(head + 1)
    <3>1. head + 1 \in 0..(2 * Capacity - 1)
      BY <1>0
    <3> HIDE DEF wrap
    <3> QED
      BY <1>1, <3>1
  <2>2. wrap(head + 1) \in 0..(Capacity - 1) /\ Slot(1) = head
    BY <1>0, <1>2, <1>7
  <2>3. ASSUME NEW i \in 1..used
        PROVE  (wrap(head + 1) + (i - 1)) % Capacity = wrap(head + i)
    <3>1. wrap(head + 1) + (i - 1) \in 0..(2 * Capacity - 1)
      BY <1>0, <2>2
    <3>2. wrap(wrap(head + 1) + (i - 1)) = wrap(head + i)
      BY <1>0
    <3> HIDE DEF wrap
    <3> QED
      BY <1>1, <3>1, <3>2
  <2>4. tail = (wrap(head + 1) + (used - 1)) % Capacity
    BY <1>0, <1>3, <1>7, <2>3
  <2>5. ASSUME NEW i \in 1..(used - 1) PROVE (wrap(head + 1) + i - 1) % Capacity = Slot(i + 1)
    <3>1. i \in 1..used /\ i + 1 \in 1..(used + 1) /\ head + (i + 1) - 1 = head + i
          /\ wrap(head + 1) + i - 1 = wrap(head + 1) + (i - 1)
      BY <1>0, <2>2
    <3> HIDE DEF wrap
    <3> QED
      BY <1>2, <2>3, <3>1
  <2> QED
    BY <2>1, <2>2, <2>4, <2>5
<1> QED
  BY <1>4, <1>5, <1>6, <1>7

\* What the ring buffer holds, as the refinement mapping reads it.
LEMMA RingHolds ==
  ASSUME Capacity \in Nat \ {0}, RingInv
  PROVE  /\ used \in Nat /\ R!Contents = [i \in 1..used |-> R!Contents[i]]
         /\ \A i \in 1..used : R!Contents[i] = slots[Slot(i)] /\ R!Contents[i] \in Items \cup {Null}
         /\ Len(R!Contents) = used
<1>1. \A i \in 1..used : slots[Slot(i)] \in Items \cup {Null}
  BY RingSlots DEF RingInv
<1>2. R!Contents = [i \in 1..used |-> slots[Slot(i)]] /\ used \in Nat
  BY DEF R!Contents, Slot, RingInv
<1> QED
  BY <1>1, <1>2

LEMMA RingPush ==
  ASSUME Capacity \in Nat \ {0}, RingInv, NEW v \in Items, R!Push(v)
  PROVE  /\ RingInv'
         /\ Len(R!Contents) < Capacity /\ R!Contents' = Append(R!Contents, v)
<1>1. /\ used < Capacity /\ slots' = [slots EXCEPT ![tail] = v] /\ used' = used + 1 /\ head' = head
      /\ tail' = (tail + 1) % Capacity
  BY DEF R!Push, RingInv
<1>2. /\ \A i \in 1..used : Slot(i) \in 0..(Capacity - 1) /\ Slot(i) # tail
      /\ Slot(used + 1) = tail /\ tail \in 0..(Capacity - 1)
      /\ tail' = (head' + used') % Capacity
  BY <1>1, RingSlots
<1>3. RingInv'
  BY <1>1, <1>2 DEF RingInv
<1>4. /\ slots'[tail] = v /\ \A i \in 1..used : slots'[Slot(i)] = slots[Slot(i)]
  BY <1>1, <1>2 DEF RingInv
<1>5. R!Contents' = [i \in 1..(used + 1) |-> slots'[Slot(i)]]
  BY <1>1 DEF R!Contents, Slot
<1>6. R!Contents' = [i \in 1..(used + 1) |-> R!Contents'[i]] /\ R!Contents'[used + 1] = v
      /\ \A i \in 1..used : R!Contents'[i] = R!Contents[i]
  <2>1. used \in Nat /\ \A i \in 1..used : R!Contents[i] = slots[Slot(i)]
    BY RingHolds
  <2> QED
    BY <1>2, <1>4, <1>5, <2>1
<1>7. v \in Items \cup {Null}
  OBVIOUS
<1> DEFINE a == R!Contents
           b == R!Contents'
<1>8. used \in Nat /\ a = [i \in 1..used |-> a[i]] /\ \A i \in 1..used : a[i] \in Items \cup {Null}
  BY RingHolds
<1>9. b = [i \in 1..(used + 1) |-> b[i]] /\ b[used + 1] = v /\ \A i \in 1..used : b[i] = a[i]
  BY <1>6
<1>10. Len(a) = used /\ b = Append(a, v)
  <2> HIDE DEF a, b
  <2>1. LongerAt(a, b, used, v, Items \cup {Null})
    BY <1>7, <1>8, <1>9 DEF LongerAt
  <2> QED
    BY <2>1, Longer
<1> QED
  BY <1>1, <1>3, <1>10

LEMMA RingPop ==
  ASSUME Capacity \in Nat \ {0}, RingInv, R!Pop
  PROVE  /\ RingInv'
         /\ R!Contents # <<>> /\ taken' = Head(R!Contents) /\ R!Contents' = Tail(R!Contents)
<1>1. /\ used > 0 /\ slots' = slots /\ used' = used - 1 /\ head' = (head + 1) % Capacity
      /\ tail' = tail /\ taken' = slots[head] /\ used \in Nat \ {0}
  BY DEF R!Pop, RingInv
<1>2. /\ head' \in 0..(Capacity - 1) /\ Slot(1) = head /\ tail' = (head' + used') % Capacity
      /\ \A i \in 1..(used - 1) : (head' + i - 1) % Capacity = Slot(i + 1)
  BY <1>1, RingSlots
<1>3. RingInv'
  <2>1. used - 1 \in 0..Capacity
    BY <1>1 DEF RingInv
  <2> QED
    BY <1>1, <1>2, <2>1 DEF RingInv
<1>4. R!Contents' = [i \in 1..(used - 1) |-> slots[Slot(i + 1)]]
  BY <1>1, <1>2 DEF R!Contents
<1> DEFINE a == R!Contents
           b == R!Contents'
<1>5. a = [i \in 1..used |-> a[i]]
      /\ \A i \in 1..used : a[i] = slots[Slot(i)] /\ a[i] \in Items \cup {Null}
  BY RingHolds
<1>6. b = [i \in 1..(used - 1) |-> b[i]] /\ \A i \in 1..(used - 1) : b[i] = slots[Slot(i + 1)]
  BY <1>4
<1>7. a # <<>> /\ Head(a) = a[1] /\ b = Tail(a)
  <2> HIDE DEF a, b
  <2>1. \A i \in 1..(used - 1) : i + 1 \in 1..used
    BY <1>1
  <2>2. \A i \in 1..(used - 1) : b[i] = a[i + 1]
    BY <1>5, <1>6, <2>1
  <2>3. ShorterAt(a, b, used, Items \cup {Null})
    BY <1>1, <1>5, <1>6, <2>2 DEF ShorterAt
  <2> QED
    BY <2>3, Shorter
<1>8. a[1] = slots[head]
  <2> HIDE DEF a
  <2>1. 1 \in 1..used
    BY <1>1
  <2>2. a[1] = slots[Slot(1)]
    BY <1>5, <2>1
  <2> QED
    BY <1>2, <2>2
<1> QED
  BY <1>1, <1>3, <1>7, <1>8

LEMMA RingStep ==
  ASSUME Capacity \in Nat \ {0}, RingInv, [R!Next]_(R!vars)
  PROVE  RingInv' /\ [R!Abstract!ANext]_(R!Abstract!avars)
<1>1. CASE UNCHANGED <<slots, head, tail, used>>
  <2>1. RingInv'
    BY <1>1 DEF RingInv
  <2>2. R!Contents' = R!Contents /\ (Capacity - used)' = Capacity - used
    BY <1>1 DEF R!Contents
  <2>3. ASSUME NEW v \in Items, R!PushFull(v) PROVE R!Abstract!ARefuse
    <3>1. Capacity - used = 0
      BY <2>3 DEF R!PushFull
    <3> QED
      BY <2>2, <2>3, <3>1 DEF R!PushFull, R!Abstract!ARefuse
  <2>4. ASSUME R!PopEmpty PROVE R!Abstract!APopEmpty
    <3>1. R!Contents = <<>>
      BY <2>4 DEF R!PopEmpty, R!Contents
    <3> QED
      BY <2>2, <2>4, <3>1 DEF R!PopEmpty, R!Abstract!APopEmpty
  <2>5. ASSUME R!Pop \/ \E v \in Items : R!Push(v) PROVE FALSE
    BY <1>1, <2>5 DEF R!Pop, R!Push, RingInv
  <2>6. CASE UNCHANGED R!vars
    <3>1. taken' = taken
      BY <2>6 DEF R!vars
    <3> QED
      BY <2>1, <2>2, <3>1 DEF R!Abstract!avars
  <2> QED
    BY <2>1, <2>3, <2>4, <2>5, <2>6 DEF R!Next, R!Abstract!ANext
<1>2. ASSUME NEW v \in Items, R!Push(v) PROVE RingInv' /\ R!Abstract!AAccept(v)
  <2>1. used' = used + 1 /\ used < Capacity /\ used \in Nat
    BY <1>2 DEF R!Push, RingInv
  <2>2. Capacity - used > 0 /\ Capacity - used' = Capacity - used - 1
    BY <2>1
  <2> QED
    BY <1>2, <2>2, RingPush DEF R!Push, R!Abstract!AAccept
<1>3. ASSUME R!Pop PROVE RingInv' /\ R!Abstract!APop
  <2>1. used' = used - 1 /\ used \in Nat
    BY <1>3 DEF R!Pop, RingInv
  <2>2. Capacity - used' = Capacity - used + 1
    BY <2>1
  <2> QED
    BY <1>3, <2>2, RingPop DEF R!Abstract!APop
<1> QED
  BY <1>1, <1>2, <1>3 DEF R!Next, R!PushFull, R!PopEmpty, R!vars, R!Abstract!ANext

\* rbuffer.c: whatever the capacity and however often head and tail go round,
\* values come out in the order they went in, and exactly a full buffer refuses.
THEOREM RingImplementsFIFO == ASSUME Capacity \in Nat \ {0} PROVE R!Spec => R!ImplementsFIFO
<1>1. R!Init => RingInv /\ R!Abstract!AInit
  <2> SUFFICES ASSUME R!Init PROVE RingInv /\ R!Abstract!AInit
    OBVIOUS
  <2>1. (0 + 0) % Capacity = 0
    BY Wrap
  <2>2. RingInv
    BY <2>1 DEF R!Init, R!Slots, RingInv
  <2>3. R!Contents = <<>> /\ Capacity - used = Capacity
    BY DEF R!Init, R!Contents
  <2> QED
    BY <2>2, <2>3 DEF R!Init, R!Abstract!AInit
<1> QED
  BY <1>1, RingStep, PTL DEF R!Spec, R!ImplementsFIFO, R!Abstract!ASpec

-------------------------------------------------------------------------------
\* The slots in use are those from h up to t; t never comes back.
QueueInv ==
  /\ q \in [0..(QueueSize - 1) -> Nodes \cup {Null}]
  /\ t \in 0..QueueSize /\ h \in 0..t

LEMMA QueueHolds ==
  ASSUME QueueSize \in Nat, QueueInv
  PROVE  /\ t - h \in 0..QueueSize /\ Q!Contents = [i \in 1..(t - h) |-> Q!Contents[i]]
         /\ \A i \in 1..(t - h) : Q!Contents[i] = q[h + i - 1]
                                  /\ Q!Contents[i] \in Nodes \cup {Null}
<1>1. t - h \in 0..QueueSize /\ \A i \in 1..(t - h) : h + i - 1 \in 0..(QueueSize - 1)
  BY DEF QueueInv
<1>2. \A i \in 1..(t - h) : q[h + i - 1] \in Nodes \cup {Null}
  BY <1>1 DEF QueueInv
<1> QED
  BY <1>1, <1>2 DEF Q!Contents

LEMMA Enqueued ==
  ASSUME QueueSize \in Nat, QueueInv, NEW v \in Nodes, Q!Enqueue(v)
  PROVE  /\ QueueInv'
         /\ Len(Q!Contents) < QueueSize /\ Q!Contents' = Append(Q!Contents, v)
<1>1. /\ t < QueueSize /\ q' = [q EXCEPT ![t] = v] /\ t' = t + 1 /\ h' = h
      /\ t \in 0..(QueueSize - 1) /\ h \in 0..t
  BY DEF Q!Enqueue, QueueInv
<1>2. QueueInv'
  BY <1>1 DEF QueueInv
<1> DEFINE a == Q!Contents
           b == Q!Contents'
           n == t - h
<1>3. n \in Nat /\ n < QueueSize /\ t' - h' = n + 1 /\ h + (n + 1) - 1 = t
      /\ \A i \in 1..n : h + i - 1 \in 0..(QueueSize - 1) /\ h + i - 1 # t
  BY <1>1
<1>4. b = [i \in 1..(n + 1) |-> q'[h + i - 1]]
  BY <1>1, <1>3 DEF Q!Contents
<1>5. q'[t] = v /\ \A i \in 1..n : q'[h + i - 1] = q[h + i - 1]
  BY <1>1, <1>3 DEF QueueInv
<1>6. a = [i \in 1..n |-> a[i]]
      /\ \A i \in 1..n : a[i] = q[h + i - 1] /\ a[i] \in Nodes \cup {Null}
  BY QueueHolds
<1>7. LongerAt(a, b, n, v, Nodes \cup {Null})
  <2> HIDE DEF a, n
  <2>1. b = [i \in 1..(n + 1) |-> b[i]] /\ \A i \in 1..(n + 1) : b[i] = q'[h + i - 1]
    <3> HIDE DEF b
    <3> QED
      BY <1>4
  <2> HIDE DEF b
  <2>2. b[n + 1] = v
    BY <1>3, <1>5, <2>1
  <2>3. \A i \in 1..n : b[i] = a[i]
    BY <1>3, <1>5, <1>6, <2>1
  <2> QED
    BY <1>3, <1>6, <2>1, <2>2, <2>3 DEF LongerAt
<1>8. Len(a) = n /\ b = Append(a, v)
  <2> HIDE DEF a, b, n
  <2> QED
    BY <1>7, Longer
<1> QED
  BY <1>2, <1>3, <1>8

LEMMA Dequeued ==
  ASSUME QueueSize \in Nat, QueueInv, Q!Dequeue
  PROVE  /\ QueueInv'
         /\ Q!Contents # <<>> /\ res' = Head(Q!Contents) /\ Q!Contents' = Tail(Q!Contents)
<1>1. /\ h # t /\ res' = q[h] /\ h' = h + 1 /\ q' = q /\ t' = t
      /\ t \in 0..QueueSize /\ h \in 0..t
  BY DEF Q!Dequeue, QueueInv
<1>2. QueueInv'
  BY <1>1 DEF QueueInv
<1> DEFINE a == Q!Contents
           b == Q!Contents'
           n == t - h
<1>3. n \in Nat \ {0} /\ t' - h' = n - 1 /\ h + 1 - 1 = h /\ 1 \in 1..n
      /\ \A i \in 1..(n - 1) : h + (i + 1) - 1 = h' + i - 1 /\ i + 1 \in 1..n
  BY <1>1
<1>4. b = [i \in 1..(n - 1) |-> q[h' + i - 1]]
  BY <1>1, <1>3 DEF Q!Contents
<1>5. a = [i \in 1..n |-> a[i]]
      /\ \A i \in 1..n : a[i] = q[h + i - 1] /\ a[i] \in Nodes \cup {Null}
  BY QueueHolds
<1>6. a # <<>> /\ Head(a) = a[1] /\ b = Tail(a)
  <2> HIDE DEF a, n
  <2>1. b = [i \in 1..(n - 1) |-> b[i]] /\ \A i \in 1..(n - 1) : b[i] = q[h' + i - 1]
    <3> HIDE DEF b
    <3> QED
      BY <1>4
  <2> HIDE DEF b
  <2>2. \A i \in 1..(n - 1) : b[i] = a[i + 1]
    BY <1>3, <1>5, <2>1
  <2>3. ShorterAt(a, b, n, Nodes \cup {Null})
    BY <1>3, <1>5, <2>1, <2>2 DEF ShorterAt
  <2> QED
    BY <2>3, Shorter
<1>7. a[1] = q[h]
  <2> HIDE DEF a, n
  <2> QED
    BY <1>3, <1>5
<1> QED
  BY <1>1, <1>2, <1>6, <1>7

LEMMA QueueStep ==
  ASSUME QueueSize \in Nat, QueueInv, [Q!Next]_(Q!vars)
  PROVE  QueueInv' /\ [Q!Abstract!ANext]_(Q!Abstract!avars)
<1>1. CASE UNCHANGED <<q, h, t>>
  <2>1. QueueInv'
    BY <1>1 DEF QueueInv
  <2>2. Q!Contents' = Q!Contents /\ (QueueSize - t)' = QueueSize - t
    BY <1>1 DEF Q!Contents
  <2>3. ASSUME Q!EnqueueFull PROVE Q!Abstract!ARefuse
    <3>1. QueueSize - t = 0
      BY <2>3 DEF Q!EnqueueFull, QueueInv
    <3> QED
      BY <2>2, <2>3, <3>1 DEF Q!EnqueueFull, Q!Abstract!ARefuse
  <2>4. ASSUME Q!DequeueEmpty PROVE Q!Abstract!APopEmpty
    <3>1. t - h = 0
      BY <2>4 DEF Q!DequeueEmpty, QueueInv
    <3>2. Q!Contents = <<>>
      BY <3>1 DEF Q!Contents
    <3> QED
      BY <2>2, <2>4, <3>2 DEF Q!DequeueEmpty, Q!Abstract!APopEmpty
  <2>5. ASSUME Q!Dequeue \/ \E v \in Nodes : Q!Enqueue(v) PROVE FALSE
    BY <1>1, <2>5 DEF Q!Dequeue, Q!Enqueue, QueueInv
  <2>6. CASE UNCHANGED Q!vars
    <3>1. res' = res
      BY <2>6 DEF Q!vars
    <3> QED
      BY <2>1, <2>2, <3>1 DEF Q!Abstract!avars
  <2> QED
    BY <2>1, <2>3, <2>4, <2>5, <2>6 DEF Q!Next, Q!Abstract!ANext
<1>2. ASSUME NEW v \in Nodes, Q!Enqueue(v) PROVE QueueInv' /\ Q!Abstract!AAccept(v)
  <2>1. t' = t + 1 /\ t < QueueSize /\ t \in Nat
    BY <1>2 DEF Q!Enqueue, QueueInv
  <2>2. QueueSize - t > 0 /\ QueueSize - t' = QueueSize - t - 1
    BY <2>1
  <2> QED
    BY <1>2, <2>2, Enqueued DEF Q!Enqueue, Q!Abstract!AAccept
<1>3. ASSUME Q!Dequeue PROVE QueueInv' /\ Q!Abstract!APop
  <2>1. t' = t
    BY <1>3 DEF Q!Dequeue
  <2> QED
    BY <1>3, <2>1, Dequeued DEF Q!Abstract!APop
<1> QED
  BY <1>1, <1>2, <1>3 DEF Q!Next, Q!EnqueueFull, Q!DequeueEmpty, Q!vars, Q!Abstract!ANext

\* queue.c: whatever its size, values come out in the order they went in, each
\* once, and one is refused exactly when QueueSize values have gone in.
THEOREM QueueImplementsFIFO == ASSUME QueueSize \in Nat PROVE Q!Spec => Q!ImplementsFIFO
<1>1. Q!Init => QueueInv /\ Q!Abstract!AInit
  <2> SUFFICES ASSUME Q!Init PROVE QueueInv /\ Q!Abstract!AInit
    OBVIOUS
  <2>1. QueueInv
    BY DEF Q!Init, QueueInv
  <2>2. Q!Contents = <<>> /\ QueueSize - t = QueueSize
    BY DEF Q!Init, Q!Contents
  <2> QED
    BY <2>1, <2>2 DEF Q!Init, Q!Abstract!AInit
<1> QED
  BY <1>1, QueueStep, PTL DEF Q!Spec, Q!ImplementsFIFO, Q!Abstract!ASpec

-------------------------------------------------------------------------------
TreeAssumption ==
  /\ IsFiniteSet(Nodes) /\ Null \notin Nodes
  /\ QueueSize \in Nat \ {0}

\* The node at place i of a tree whose nodes are s, level by level.
Pos(s, i) == IF i \in 1..Len(s) THEN s[i] ELSE Null

\* The pointers lay out s.
Laid(s) ==
  /\ s \in Seq(Nodes) /\ IsInjective(s)
  /\ root = Pos(s, 1)
  /\ \A i \in 1..Len(s) : left[s[i]] = Pos(s, 2 * i) /\ right[s[i]] = Pos(s, 2 * i + 1)
  /\ \A m \in Nodes : (\A i \in 1..Len(s) : s[i] # m) => left[m] = Null /\ right[m] = Null

\* The places that the traversal has looked at, in the tree or not.
Seen == 2 * h + (IF bpc = "next" THEN 1 ELSE IF bpc = "left" THEN -1 ELSE 0)

\* Of the nodes dequeued the last whose data match is to be deleted.
LastMatch(s, k, d) ==
  IF d = Null THEN \A i \in 1..k : ndata[s[i]] # arg
  ELSE \E i \in 1..k : d = s[i] /\ ndata[s[i]] = arg /\ \A j \in (i + 1)..k : ndata[s[j]] # arg

\* A running traversal: the queue has taken in the first t nodes, which are
\* those of the places seen, and has given out the first h.
Walking(s) ==
  /\ op \in {"insert", "delete"} /\ arg \in Items
  /\ h \in 0..t /\ t \in 1..Len(s) /\ t <= QueueSize /\ (bpc # "next" => h # 0)
  /\ \A i \in 1..t : q[i - 1] = s[i]
  /\ crt = Pos(s, h)
  /\ t = IF Seen <= Len(s) THEN Seen ELSE Len(s)
  /\ op = "insert" => Seen <= Len(s) /\ to_delete = Null
  /\ op = "delete" => parent = Pos(s, t \div 2) /\ LastMatch(s, h, to_delete)

TreeTypes ==
  /\ root \in Nodes \cup {Null}
  /\ left \in [Nodes -> Nodes \cup {Null}] /\ right \in [Nodes -> Nodes \cup {Null}]
  /\ ndata \in [Nodes -> Items \cup {Null}]
  /\ q \in [0..(QueueSize - 1) -> Nodes \cup {Null}]
  /\ bpc \in {"idle", "next", "left", "right", "aborted"}

Good(s) ==
  /\ TreeTypes /\ Laid(s)
  /\ bpc \in {"next", "left", "right"} => Walking(s)
  /\ bpc = "aborted" => Len(s) > QueueSize

-------------------------------------------------------------------------------
LEMMA SameCount == \A T : BT!Cardinality(T) = Cardinality(T)
BY DEF BT!Cardinality, Cardinality

\* At is the only function its definition fits, so it is what lays out s.
AtIsPos == \A s : Laid(s) =>
  /\ Len(s) <= Cardinality(Nodes)
  /\ DOMAIN BT!At = 1..(2 * Cardinality(Nodes) + 1)
  /\ \A i \in 1..(2 * Cardinality(Nodes) + 1) : BT!At[i] = Pos(s, i)

LEMMA AtHolds == ASSUME TreeAssumption PROVE AtIsPos
<1> SUFFICES ASSUME NEW s, Laid(s)
             PROVE  /\ Len(s) <= Cardinality(Nodes)
                    /\ DOMAIN BT!At = 1..(2 * Cardinality(Nodes) + 1)
                    /\ \A i \in 1..(2 * Cardinality(Nodes) + 1) : BT!At[i] = Pos(s, i)
  BY DEF AtIsPos
<1> DEFINE D == 1..(2 * BT!Cardinality(Nodes) + 1)
           W == [i \in D |-> Pos(s, i)]
           fits(f) == f = [i \in D |-> IF i = 1 THEN root
                                       ELSE LET up == f[i \div 2]
                                            IN IF up = Null THEN Null
                                               ELSE IF i % 2 = 0 THEN left[up] ELSE right[up]]
<1>1. /\ s \in Seq(Nodes) /\ Len(s) \in Nat /\ Cardinality(Nodes) \in Nat
      /\ Len(s) <= Cardinality(Nodes) /\ BT!Cardinality(Nodes) = Cardinality(Nodes)
  BY NoLonger, SameCount DEF Laid, TreeAssumption
<1>2. \A i \in D : i = 1 \/ (i \div 2 \in D /\ i \div 2 < i /\ i \div 2 \in 1..i
                            /\ i = 2 * (i \div 2) + (i % 2) /\ i % 2 \in {0, 1})
  BY <1>1
<1>3. ASSUME NEW i \in D, i # 1
      PROVE  Pos(s, i) = LET up == Pos(s, i \div 2)
                         IN IF up = Null THEN Null
                            ELSE IF i % 2 = 0 THEN left[up] ELSE right[up]
  <2>1. i \div 2 \in D /\ i = 2 * (i \div 2) + (i % 2) /\ i % 2 \in {0, 1} /\ i \in Nat
    BY <1>2, <1>3
  <2> DEFINE j == i \div 2
  <2>2. CASE j \in 1..Len(s)
    <3>1. Pos(s, j) = s[j] /\ s[j] \in Nodes
      BY <1>1, <2>2 DEF Pos
    <3>2. Pos(s, j) # Null
      BY <3>1 DEF TreeAssumption
    <3>3. left[s[j]] = Pos(s, 2 * j) /\ right[s[j]] = Pos(s, 2 * j + 1)
      BY <2>2 DEF Laid
    <3>4. CASE i % 2 = 0
      <4>1. i = 2 * j
        BY <2>1, <3>4
      <4> QED
        BY <3>1, <3>2, <3>3, <3>4, <4>1
    <3>5. CASE i % 2 = 1
      <4>1. i = 2 * j + 1
        BY <2>1, <3>5
      <4> QED
        BY <3>1, <3>2, <3>3, <3>5, <4>1
    <3> QED
      BY <2>1, <3>4, <3>5
  <2>3. CASE j \notin 1..Len(s)
    <3>1. Pos(s, j) = Null
      BY <2>3 DEF Pos
    <3>2. i \notin 1..Len(s)
      BY <1>1, <2>1, <2>3
    <3> QED
      BY <3>1, <3>2 DEF Pos
  <2> QED
    BY <2>2, <2>3
<1>4. fits(W)
  <2>1. \A i \in D : W[i] = IF i = 1 THEN root
                            ELSE LET up == W[i \div 2]
                                 IN IF up = Null THEN Null
                                    ELSE IF i % 2 = 0 THEN left[up] ELSE right[up]
    <3> SUFFICES ASSUME NEW i \in D
                 PROVE  W[i] = IF i = 1 THEN root
                               ELSE LET up == W[i \div 2]
                                    IN IF up = Null THEN Null
                                       ELSE IF i % 2 = 0 THEN left[up] ELSE right[up]
      OBVIOUS
    <3>1. CASE i = 1
      BY <3>1 DEF Laid
    <3>2. CASE i # 1
      <4>1. W[i \div 2] = Pos(s, i \div 2)
        BY <1>2, <3>2
      <4> QED
        BY <1>3, <3>2, <4>1
    <3> QED
      BY <3>1, <3>2
  <2> QED
    BY <2>1
<1>5. BT!At = CHOOSE f : fits(f)
  BY Zenon DEF BT!At
<1>6. fits(BT!At)
  <2> HIDE DEF fits, W
  <2> QED
    BY <1>4, <1>5
<1>7. DOMAIN BT!At = D
  BY <1>6
<1>8. \A i \in D : BT!At[i] = IF i = 1 THEN root
                           ELSE LET up == BT!At[i \div 2]
                                IN IF up = Null THEN Null
                                   ELSE IF i % 2 = 0 THEN left[up] ELSE right[up]
  BY <1>6
<1>9. \A i \in D : BT!At[i] = Pos(s, i)
  <2> DEFINE n == 2 * Cardinality(Nodes) + 2
             same == {0} \cup {i \in D : BT!At[i] = Pos(s, i)}
  <2>1. n \in Nat /\ D = 1..(n - 1) /\ same \in SUBSET (0..(n - 1))
    BY <1>1
  <2>2. same = 0..(n - 1)
    <3> SUFFICES ASSUME same # 0..(n - 1) PROVE FALSE
      OBVIOUS
    <3>1. PICK i \in 0..(n - 1) : i \notin same /\ \A j \in 0..(i - 1) : j \in same
      <4> HIDE DEF n, same
      <4> QED
        BY <2>1, LeastOutside
    <3>2. i \in D /\ BT!At[i] # Pos(s, i)
      <4>1. i # 0 /\ i \in 0..(n - 1)
        BY <3>1
      <4>2. i \in D
        <5> HIDE DEF n, D, same
        <5> QED
          BY <2>1, <4>1
      <4> QED
        BY <3>1, <4>2
    <3>3. CASE i = 1
      BY <1>8, <3>2, <3>3 DEF Laid
    <3>4. CASE i # 1
      <4>1. i \div 2 \in D /\ i \div 2 \in 0..(i - 1)
        BY <1>2, <3>2, <3>4
      <4>2. BT!At[i \div 2] = Pos(s, i \div 2)
        BY <3>1, <4>1
      <4> QED
        BY <1>3, <1>8, <3>2, <3>4, <4>2
    <3> QED
      BY <3>3, <3>4
  <2>3. \A i \in D : i \in same /\ i # 0
    <3> HIDE DEF n, D, same
    <3> QED
      BY <2>1, <2>2
  <2> QED
    BY <2>3
<1> QED
  BY <1>1, <1>7, <1>9

LEMMA AtNext == ASSUME TreeAssumption PROVE AtIsPos'
BY AtHolds, PTL

\* What the tree holds, and how many nodes it has, read off s.
ReadOff == \A s : Laid(s) =>
  /\ BT!InTree = {s[i] : i \in 1..Len(s)} /\ Cardinality(BT!InTree) = Len(s)
  /\ BT!Contents = [i \in 1..Len(s) |-> ndata[s[i]]]

LEMMA ReadOffHolds == ASSUME TreeAssumption PROVE ReadOff
<1> SUFFICES ASSUME NEW s, Laid(s)
             PROVE  /\ BT!InTree = {s[i] : i \in 1..Len(s)} /\ Cardinality(BT!InTree) = Len(s)
                    /\ BT!Contents = [i \in 1..Len(s) |-> ndata[s[i]]]
  BY DEF ReadOff
<1> DEFINE N == Cardinality(Nodes)
<1>1. /\ s \in Seq(Nodes) /\ IsInjective(s) /\ N \in Nat /\ Len(s) \in Nat
      /\ Len(s) <= N /\ DOMAIN BT!At = 1..(2 * N + 1)
      /\ \A i \in 1..(2 * N + 1) : BT!At[i] = Pos(s, i)
  BY AtHolds, NoLonger DEF AtIsPos, Laid, TreeAssumption
<1>2. \A i \in 1..Len(s) : i \in 1..(2 * N + 1) /\ s[i] \in Nodes /\ s[i] # Null
  BY <1>1 DEF TreeAssumption
<1>3. \A i \in 1..(2 * N + 1) : BT!At[i] # Null <=> i \in 1..Len(s)
  BY <1>1, <1>2 DEF Pos
<1>4. \A i \in 1..Len(s) : BT!At[i] = s[i]
  BY <1>1, <1>2 DEF Pos
<1>5. BT!InTree = {s[i] : i \in 1..Len(s)}
  <2> SUFFICES ASSUME NEW m PROVE m \in BT!InTree <=> m \in {s[i] : i \in 1..Len(s)}
    OBVIOUS
  <2> HIDE DEF N
  <2> QED
    BY <1>1, <1>2, <1>3, <1>4 DEF BT!InTree
<1>6. Cardinality(BT!InTree) = Len(s)
  <2>1. s \in Bijection(1..Len(s), BT!InTree)
    <3>1. s \in [1..Len(s) -> BT!InTree]
      BY <1>1, <1>5
    <3> QED
      BY <1>1, <1>5, <3>1 DEF IsInjective, Bijection, Injection, Surjection
  <2>2. IsFiniteSet(1..Len(s)) /\ Cardinality(1..Len(s)) = Len(s)
    BY <1>1, UpTo
  <2> QED
    BY <2>1, <2>2, FS_Bijection DEF ExistsBijection
<1>7. BT!Contents = [i \in 1..Len(s) |-> ndata[s[i]]]
  <2>1. CASE Len(s) = 0
    <3>1. root = Null
      BY <2>1 DEF Laid, Pos
    <3>2. [i \in 1..Len(s) |-> ndata[s[i]]] = <<>>
      BY <2>1
    <3> QED
      BY <3>1, <3>2 DEF BT!Contents
  <2>2. CASE Len(s) # 0
    <3>1. root # Null
      BY <1>1, <1>2, <2>2 DEF Laid, Pos
    <3>2. {j \in DOMAIN BT!At : BT!At[j] # Null} = 1..Len(s)
      <4> HIDE DEF N
      <4> QED
        BY <1>1, <1>2, <1>3
    <3>3. BT!Contents = [i \in 1..Len(s) |-> ndata[BT!At[i]]]
      BY <3>1, <3>2 DEF BT!Contents
    <3> QED
      BY <1>4, <3>3
  <2> QED
    BY <2>1, <2>2
<1> QED
  BY <1>5, <1>6, <1>7

LEMMA ReadOffNext == ASSUME TreeAssumption PROVE ReadOff'
BY ReadOffHolds, PTL

-------------------------------------------------------------------------------
\* What a step can do to the layout s and to the data.
Kept(s) == Good(s)' /\ UNCHANGED <<root, ndata>>
Emptied == Good(<<>>)'
Inserted(s, v) == \E n \in Nodes :
  /\ Good(Append(s, n))' /\ \A i \in 1..Len(s) : s[i] # n
  /\ ndata' = [ndata EXCEPT ![n] = v]
Deleted(s, v) == \E k \in 1..Len(s) :
  /\ ndata[s[k]] = v /\ \A j \in (k + 1)..Len(s) : ndata[s[j]] # v
  /\ Good(Front(s))'
  /\ ndata' = [ndata EXCEPT ![s[k]] = ndata[s[Len(s)]], ![s[Len(s)]] = Null]

\* An idle call leaves nothing to the locals that Good speaks of.
LEMMA TreeIdle ==
  ASSUME NEW s, TreeTypes', Laid(s)', bpc' = "idle"
  PROVE  Good(s)'
BY DEF Good

LEMMA SameTree ==
  ASSUME NEW s, Laid(s), UNCHANGED BT!treeVars
  PROVE  Laid(s)'
BY DEF Laid, Pos, BT!treeVars

\* One node more, at the next place.
LEMMA Attach ==
  ASSUME TreeAssumption, TreeTypes, NEW s, Laid(s), NEW n \in Nodes, \A i \in 1..Len(s) : s[i] # n,
         NEW k \in 1..Len(s), root' = root,
         \/ Len(s) + 1 = 2 * k /\ left' = [left EXCEPT ![s[k]] = n] /\ right' = right
         \/ Len(s) + 1 = 2 * k + 1 /\ right' = [right EXCEPT ![s[k]] = n] /\ left' = left
  PROVE  Laid(Append(s, n))'
<1> DEFINE z == Append(s, n)
<1>0. s \in Seq(Nodes) /\ IsInjective(s) /\ Len(s) \in Nat /\ n # Null
  BY DEF Laid, TreeAssumption
<1>1. z \in Seq(Nodes) /\ Len(z) = Len(s) + 1 /\ z[Len(s) + 1] = n
      /\ \A i \in 1..Len(s) : z[i] = s[i] /\ s[i] \in Nodes
  BY <1>0
<1>2. IsInjective(z)
  <2>1. n \notin ToSet(s)
    BY DEF ToSet
  <2> QED
    BY <1>0, <2>1, AppendOne
<1> HIDE DEF z
<1>3. ASSUME NEW i \in Nat, i # Len(s) + 1 PROVE Pos(z, i) = Pos(s, i)
  BY <1>0, <1>1, <1>3 DEF Pos
<1>4. Pos(z, Len(s) + 1) = n /\ Pos(s, Len(s) + 1) = Null
  BY <1>0, <1>1 DEF Pos
<1>5. root = Pos(s, 1) /\ \A i \in 1..Len(s) : left[s[i]] = Pos(s, 2 * i) /\ right[s[i]] = Pos(s, 2 * i + 1)
  BY DEF Laid
<1>6. ASSUME NEW i \in 1..Len(s) PROVE i # k => s[i] # s[k]
  BY <1>0 DEF IsInjective
<1>7. left \in [Nodes -> Nodes \cup {Null}] /\ right \in [Nodes -> Nodes \cup {Null}]
  BY DEF TreeTypes
<1>8. left[n] = Null /\ right[n] = Null /\ s[k] # n
  BY DEF Laid
<1>9. root' = Pos(z, 1)
  BY <1>0, <1>3, <1>5
<1>10. ASSUME NEW i \in 1..Len(z)
       PROVE  left'[z[i]] = Pos(z, 2 * i) /\ right'[z[i]] = Pos(z, 2 * i + 1)
  <2>1. CASE i \in 1..Len(s)
    <3>1. z[i] = s[i] /\ s[i] \in Nodes /\ 2 * i \in Nat /\ 2 * i + 1 \in Nat /\ 2 * i # 2 * k + 1
      BY <1>1, <2>1
    <3>2. left[s[i]] = Pos(s, 2 * i) /\ right[s[i]] = Pos(s, 2 * i + 1)
      BY <1>5, <2>1
    <3>3. CASE 2 * i = Len(s) + 1
      <4>1. i = k /\ left' = [left EXCEPT ![s[k]] = n] /\ right' = right
        BY <1>0, <2>1, <3>3
      <4>2. 2 * i + 1 # Len(s) + 1
        BY <1>0, <2>1, <3>3
      <4> QED
        BY <1>3, <1>4, <1>7, <3>1, <3>2, <3>3, <4>1, <4>2
    <3>4. CASE 2 * i + 1 = Len(s) + 1
      <4>1. i = k /\ right' = [right EXCEPT ![s[k]] = n] /\ left' = left
        BY <1>0, <2>1, <3>4
      <4>2. 2 * i # Len(s) + 1
        BY <1>0, <2>1, <3>4
      <4> QED
        BY <1>3, <1>4, <1>7, <3>1, <3>2, <3>4, <4>1, <4>2
    <3>5. CASE 2 * i # Len(s) + 1 /\ 2 * i + 1 # Len(s) + 1
      <4>1. left'[s[i]] = left[s[i]] /\ right'[s[i]] = right[s[i]]
        <5>1. CASE Len(s) + 1 = 2 * k /\ left' = [left EXCEPT ![s[k]] = n] /\ right' = right
          <6>1. s[i] # s[k]
            BY <1>6, <2>1, <3>5, <5>1
          <6> QED
            BY <1>7, <3>1, <5>1, <6>1
        <5>2. CASE Len(s) + 1 = 2 * k + 1 /\ right' = [right EXCEPT ![s[k]] = n] /\ left' = left
          <6>1. s[i] # s[k]
            BY <1>6, <2>1, <3>5, <5>2
          <6> QED
            BY <1>7, <3>1, <5>2, <6>1
        <5> QED
          BY <5>1, <5>2
      <4> QED
        BY <1>3, <3>1, <3>2, <3>5, <4>1
    <3> QED
      BY <3>3, <3>4, <3>5
  <2>2. CASE i = Len(s) + 1
    <3>1. z[i] = n /\ Pos(z, 2 * i) = Null /\ Pos(z, 2 * i + 1) = Null
      BY <1>0, <1>1, <2>2 DEF Pos
    <3>2. left'[n] = Null /\ right'[n] = Null
      BY <1>1, <1>7, <1>8
    <3> QED
      BY <3>1, <3>2
  <2> QED
    BY <1>0, <1>1, <2>1, <2>2
<1>11. ASSUME NEW m \in Nodes, \A i \in 1..Len(z) : z[i] # m
       PROVE  left'[m] = Null /\ right'[m] = Null
  <2>1. \A i \in 1..Len(s) : s[i] # m
    BY <1>0, <1>1, <1>11
  <2>2. left[m] = Null /\ right[m] = Null /\ m # s[k]
    BY <2>1 DEF Laid
  <2> QED
    BY <1>1, <1>7, <2>2
<1>12. Laid(z)'
  BY <1>1, <1>2, <1>9, <1>10, <1>11 DEF Laid, Pos
<1> QED
  BY <1>12 DEF z

\* One node less, the last.
LEMMA Detach ==
  ASSUME TreeAssumption, TreeTypes, NEW s, Laid(s), Len(s) > 1, root' = root,
         NEW k \in Nat, Len(s) \in {2 * k, 2 * k + 1},
         IF left[s[k]] = s[Len(s)] THEN left' = [left EXCEPT ![s[k]] = Null] /\ right' = right
                                   ELSE right' = [right EXCEPT ![s[k]] = Null] /\ left' = left
  PROVE  Laid(Front(s))'
<1> DEFINE z == Front(s)
           n == s[Len(s)]
<1>0. /\ s \in Seq(Nodes) /\ IsInjective(s) /\ Len(s) \in Nat /\ Len(s) > 1
      /\ k \in 1..(Len(s) - 1) /\ (Len(s) = 2 * k \/ Len(s) = 2 * k + 1)
  BY DEF Laid
<1>1. z \in Seq(Nodes) /\ Len(z) = Len(s) - 1 /\ n \in Nodes /\ n # Null
      /\ \A i \in 1..Len(z) : z[i] = s[i] /\ s[i] \in Nodes /\ s[i] # n
  <2>1. z = SubSeq(s, 1, Len(s) - 1)
    BY DEF Front
  <2>2. z \in Seq(Nodes) /\ Len(z) = Len(s) - 1 /\ \A i \in 1..Len(z) : z[i] = s[i] /\ s[i] \in Nodes
    BY <1>0, <2>1
  <2>3. \A i \in 1..(Len(s) - 1) : s[i] # n
    BY <1>0 DEF IsInjective
  <2> QED
    BY <1>0, <2>2, <2>3 DEF TreeAssumption
<1> HIDE DEF z
<1>2. IsInjective(z)
  <2>1. \A i \in 1..Len(z) : i \in 1..Len(s)
    BY <1>0, <1>1
  <2>2. DOMAIN z = 1..Len(z) /\ DOMAIN s = 1..Len(s)
    BY <1>0, <1>1
  <2> QED
    BY <1>0, <1>1, <2>1, <2>2, Zenon DEF IsInjective
<1>3. ASSUME NEW i \in Nat, i # Len(s) PROVE Pos(z, i) = Pos(s, i)
  BY <1>0, <1>1, <1>3 DEF Pos
<1>4. Pos(s, Len(s)) = n /\ Pos(z, Len(s)) = Null
  BY <1>0, <1>1 DEF Pos
<1>5. root = Pos(s, 1) /\ \A i \in 1..Len(s) : left[s[i]] = Pos(s, 2 * i) /\ right[s[i]] = Pos(s, 2 * i + 1)
  BY DEF Laid
<1>6. ASSUME NEW i \in 1..Len(s) PROVE i # k => s[i] # s[k]
  BY <1>0 DEF IsInjective
<1>7. left \in [Nodes -> Nodes \cup {Null}] /\ right \in [Nodes -> Nodes \cup {Null}]
  BY DEF TreeTypes
<1>8. left[n] = Null /\ right[n] = Null /\ s[k] # n
  <2>1. Pos(s, 2 * Len(s)) = Null /\ Pos(s, 2 * Len(s) + 1) = Null
    BY <1>0 DEF Pos
  <2>2. Len(s) \in 1..Len(s) /\ Len(s) # k
    BY <1>0
  <2>3. left[n] = Null /\ right[n] = Null
    BY <1>5, <2>1, <2>2
  <2>4. n # s[k]
    BY <1>6, <2>2
  <2> QED
    BY <2>3, <2>4
<1>9. root' = Pos(z, 1)
  BY <1>0, <1>3, <1>5
<1>10. \/ Len(s) = 2 * k /\ left' = [left EXCEPT ![s[k]] = Null] /\ right' = right
       \/ Len(s) = 2 * k + 1 /\ right' = [right EXCEPT ![s[k]] = Null] /\ left' = left
  <2>1. left[s[k]] = Pos(s, 2 * k)
    BY <1>0, <1>5
  <2>2. CASE Len(s) = 2 * k
    BY <1>4, <2>1, <2>2
  <2>3. CASE Len(s) = 2 * k + 1
    <3>1. Pos(s, 2 * k) = s[2 * k] /\ s[2 * k] # n
      BY <1>0, <2>3 DEF IsInjective, Pos
    <3> QED
      BY <2>1, <2>3, <3>1
  <2> QED
    BY <1>0, <2>2, <2>3
<1>11. ASSUME NEW i \in 1..Len(z)
       PROVE  left'[z[i]] = Pos(z, 2 * i) /\ right'[z[i]] = Pos(z, 2 * i + 1)
  <2>0. z[i] = s[i] /\ s[i] \in Nodes
    BY <1>1
  <2>1. /\ z[i] = s[i] /\ s[i] \in Nodes /\ 2 * i \in Nat /\ 2 * i + 1 \in Nat
        /\ i \in 1..Len(s)
    <3>1. Len(z) = Len(s) - 1
      BY <1>1
    <3> QED
      BY <1>0, <2>0, <3>1
  <2>2. left[s[i]] = Pos(s, 2 * i) /\ right[s[i]] = Pos(s, 2 * i + 1)
    BY <1>5, <2>1
  <2>3. CASE 2 * i = Len(s)
    <3>1. i = k /\ left' = [left EXCEPT ![s[k]] = Null] /\ right' = right
      BY <1>0, <1>10, <2>1, <2>3
    <3>2. 2 * i + 1 # Len(s)
      BY <1>0, <2>1, <2>3
    <3> QED
      BY <1>3, <1>4, <1>7, <2>1, <2>2, <2>3, <3>1, <3>2
  <2>4. CASE 2 * i + 1 = Len(s)
    <3>1. i = k /\ right' = [right EXCEPT ![s[k]] = Null] /\ left' = left
      BY <1>0, <1>10, <2>1, <2>4
    <3>2. 2 * i # Len(s)
      BY <1>0, <2>1, <2>4
    <3> QED
      BY <1>3, <1>4, <1>7, <2>1, <2>2, <2>4, <3>1, <3>2
  <2>5. CASE 2 * i # Len(s) /\ 2 * i + 1 # Len(s)
    <3>1. left'[s[i]] = left[s[i]] /\ right'[s[i]] = right[s[i]]
      <4>1. i # k
        BY <1>0, <2>1, <2>5
      <4>2. s[i] # s[k]
        BY <1>6, <2>1, <4>1
      <4> QED
        BY <1>7, <1>10, <2>1, <4>2
    <3> QED
      BY <1>3, <2>1, <2>2, <2>5, <3>1
  <2> QED
    BY <2>3, <2>4, <2>5
<1>12. ASSUME NEW m \in Nodes, \A i \in 1..Len(z) : z[i] # m
       PROVE  left'[m] = Null /\ right'[m] = Null
  <2>1. CASE m = n
    BY <1>7, <1>8, <1>10, <2>1, <1>1
  <2>2. CASE m # n
    <3>1. \A i \in 1..Len(s) : s[i] # m
      BY <1>0, <1>1, <1>12, <2>2
    <3>2. left[m] = Null /\ right[m] = Null /\ m # s[k]
      BY <1>0, <3>1 DEF Laid
    <3> QED
      BY <1>7, <1>10, <3>2
  <2> QED
    BY <2>1, <2>2
<1>13. Laid(z)'
  BY <1>1, <1>2, <1>9, <1>11, <1>12 DEF Laid, Pos
<1> QED
  BY <1>13 DEF z

\* malloc gives a node that is not in the tree.
LEMMA Fresh ==
  ASSUME TreeAssumption, NEW s, Laid(s), NEW n \in Nodes, BT!NewNode(n)
  PROVE  \A i \in 1..Len(s) : s[i] # n
<1>1. BT!InTree = {s[i] : i \in 1..Len(s)}
  BY ReadOffHolds DEF ReadOff
<1> QED
  BY <1>1 DEF BT!NewNode

LEMMA NoTree ==
  ASSUME TreeAssumption, NEW s, Laid(s), root = Null
  PROVE  s = <<>>
<1>1. s \in Seq(Nodes) /\ Pos(s, 1) = Null /\ Len(s) \in Nat
  BY DEF Laid
<1>2. CASE Len(s) = 0
  BY <1>1, <1>2
<1>3. CASE Len(s) # 0
  <2>1. 1 \in 1..Len(s) /\ s[1] \in Nodes
    BY <1>1, <1>3
  <2> QED
    BY <1>1, <2>1 DEF Pos, TreeAssumption
<1> QED
  BY <1>2, <1>3

LEMMA EmptyLaid ==
  ASSUME root' = Null, left' = [n \in Nodes |-> Null], right' = left'
  PROVE  Laid(<<>>)'
<1>1. /\ <<>> \in Seq(Nodes) /\ IsInjective(<<>>) /\ Len(<<>>) = 0
  BY DEF IsInjective
<1>2. Pos(<<>>, 1) = Null
  BY DEF Pos
<1> HIDE DEF Pos
<1> QED
  BY <1>1, <1>2 DEF Laid, Pos

LEMMA InitGood == ASSUME TreeAssumption, BT!Init PROVE Good(<<>>)
<1>1. /\ <<>> \in Seq(Nodes) /\ IsInjective(<<>>) /\ Len(<<>>) = 0
  BY DEF IsInjective
<1>2. Laid(<<>>)
  BY <1>1 DEF Laid, Pos, BT!Init
<1>3. TreeTypes
  BY DEF TreeTypes, BT!Init, BT!Q!Init, TreeAssumption
<1>4. bpc = "idle"
  BY DEF BT!Init
<1> QED
  BY <1>2, <1>3, <1>4 DEF Good

LEMMA InsertRootStep ==
  ASSUME TreeAssumption, NEW s, Good(s), NEW v \in Items, BT!InsertRoot(v)
  PROVE  Inserted(s, v)
<1>1. TreeTypes /\ Laid(s) /\ s = <<>>
  BY NoTree DEF Good, BT!InsertRoot
<1>2. PICK n \in Nodes : BT!NewNode(n) /\ ndata' = [ndata EXCEPT ![n] = v] /\ root' = n
  BY DEF BT!InsertRoot, BT!Link
<1> DEFINE z == Append(s, n)
<1>3. z \in Seq(Nodes) /\ Len(z) = 1 /\ z[1] = n /\ IsInjective(z) /\ Len(s) = 0
  BY <1>1 DEF IsInjective
<1> HIDE DEF z
<1>4. \A m \in Nodes : left[m] = Null /\ right[m] = Null
  BY <1>1, <1>3 DEF Laid
<1>5. left' = left /\ right' = right /\ q' = q /\ bpc' = "idle"
  BY DEF BT!InsertRoot, BT!queueVars
<1>6. /\ root' = Pos(z, 1)
      /\ \A i \in 1..Len(z) : left'[z[i]] = Pos(z, 2 * i) /\ right'[z[i]] = Pos(z, 2 * i + 1)
      /\ \A m \in Nodes : left'[m] = Null /\ right'[m] = Null
  BY <1>2, <1>3, <1>4, <1>5 DEF Pos
<1>7. Laid(z)'
  BY <1>3, <1>6 DEF Laid, Pos
<1>8. TreeTypes'
  BY <1>1, <1>2, <1>5 DEF TreeTypes
<1>9. Good(z)'
  BY <1>5, <1>7, <1>8, TreeIdle
<1>10. \A i \in 1..Len(s) : s[i] # n
  BY <1>3
<1> QED
  BY <1>2, <1>9, <1>10, Zenon DEF Inserted, z

LEMMA BeginStep ==
  ASSUME TreeAssumption, NEW s, Good(s), NEW v \in Items, NEW o \in {"insert", "delete"},
         BT!Begin(o, v)
  PROVE  Kept(s)
<1>1. TreeTypes /\ Laid(s) /\ s \in Seq(Nodes) /\ Len(s) \in Nat /\ root = Pos(s, 1) /\ root # Null
  BY DEF Good, Laid, BT!Begin
<1>2. Len(s) >= 1 /\ root = s[1] /\ root \in Nodes
  BY <1>1 DEF Pos
<1>3. /\ UNCHANGED BT!treeVars /\ h' = 0 /\ t' = 1 /\ bpc' = "next" /\ op' = o /\ arg' = v
      /\ q' = [i \in 0..(QueueSize - 1) |-> IF i = 0 THEN root ELSE Null]
      /\ crt' = Null /\ to_delete' = Null /\ parent' = Null
  BY DEF BT!Begin
<1>4. QueueSize \in Nat \ {0} /\ q'[0] = s[1]
  BY <1>2, <1>3 DEF TreeAssumption
<1>5. TreeTypes'
  BY <1>1, <1>3 DEF TreeTypes, BT!treeVars
<1>6. Laid(s)'
  BY <1>1, <1>3, SameTree
<1>7. Walking(s)'
  <2>1. Seen' = 1
    BY <1>3 DEF Seen
  <2>2. Pos(s, 0) = Null /\ 1 \div 2 = 0
    BY <1>1 DEF Pos
  <2>3. LastMatch(s, h, to_delete)'
    BY <1>3 DEF LastMatch
  <2>4. \A i \in 1..t' : q'[i - 1] = s[i]
    BY <1>3, <1>4
  <2> QED
    BY <1>1, <1>2, <1>3, <1>4, <2>1, <2>2, <2>3, <2>4 DEF Walking, Pos
<1> QED
  BY <1>3, <1>5, <1>6, <1>7 DEF Good, Kept, BT!treeVars

LEMMA NextNodeStep ==
  ASSUME TreeAssumption, NEW s, Good(s), BT!NextNode
  PROVE  Kept(s)
<1>1. /\ TreeTypes /\ Laid(s) /\ Walking(s) /\ s \in Seq(Nodes) /\ Len(s) \in Nat
      /\ bpc = "next" /\ QueueSize \in Nat \ {0}
  BY DEF Good, BT!NextNode, Laid, TreeAssumption
<1>2. /\ h # t /\ h' = h + 1 /\ q' = q /\ t' = t /\ crt' = q[h] /\ bpc' = "left"
      /\ to_delete' = IF op = "delete" /\ ndata[crt'] = arg THEN crt' ELSE to_delete
      /\ UNCHANGED BT!treeVars /\ op' = op /\ arg' = arg /\ parent' = parent
  BY DEF BT!NextNode, BT!Q!Dequeue
<1>3. /\ h \in 0..t /\ t \in 1..Len(s) /\ t <= QueueSize /\ \A i \in 1..t : q[i - 1] = s[i]
      /\ t = (IF Seen <= Len(s) THEN Seen ELSE Len(s))
      /\ op \in {"insert", "delete"} /\ arg \in Items
      /\ op = "insert" => Seen <= Len(s) /\ to_delete = Null
      /\ op = "delete" => parent = Pos(s, t \div 2) /\ LastMatch(s, h, to_delete)
  BY <1>1 DEF Walking
<1>4. h + 1 \in 1..t /\ h + 1 \in 1..Len(s) /\ h \in Nat
  BY <1>1, <1>2, <1>3
<1>5. crt' = s[h + 1] /\ s[h + 1] \in Nodes /\ Pos(s, h + 1) = s[h + 1]
  <2>1. q[(h + 1) - 1] = s[h + 1] /\ (h + 1) - 1 = h
    BY <1>3, <1>4
  <2> QED
    BY <1>1, <1>2, <1>4, <2>1 DEF Pos
<1>6. Seen = 2 * h + 1 /\ Seen' = 2 * h + 1
  BY <1>1, <1>2, <1>4 DEF Seen
<1>7. TreeTypes'
  BY <1>1, <1>2 DEF TreeTypes, BT!treeVars
<1>8. Laid(s)'
  BY <1>1, <1>2, SameTree
<1>9. op = "delete" => LastMatch(s, h, to_delete)'
  <2> SUFFICES ASSUME op = "delete" PROVE LastMatch(s, h, to_delete)'
    OBVIOUS
  <2>1. ndata' = ndata /\ arg' = arg /\ h' = h + 1 /\ LastMatch(s, h, to_delete) /\ crt' # Null
    BY <1>2, <1>3, <1>5 DEF BT!treeVars, TreeAssumption
  <2>2. \A i \in 1..(h + 1) : i \in 1..h \/ i = h + 1
    BY <1>4
  <2>3. CASE ndata[s[h + 1]] = arg
    <3>1. to_delete' = s[h + 1] /\ to_delete' # Null
      BY <1>2, <1>5, <2>1, <2>3
    <3>2. h + 1 \in 1..(h + 1) /\ \A j \in ((h + 1) + 1)..(h + 1) : FALSE
      BY <1>4
    <3> QED
      BY <2>1, <2>3, <3>1, <3>2 DEF LastMatch
  <2>4. CASE ndata[s[h + 1]] # arg
    <3>1. to_delete' = to_delete
      BY <1>2, <1>5, <2>4
    <3>2. CASE to_delete = Null
      BY <2>1, <2>2, <2>4, <3>1, <3>2 DEF LastMatch
    <3>3. CASE to_delete # Null
      <4>1. PICK k \in 1..h : /\ to_delete = s[k] /\ ndata[s[k]] = arg
                              /\ \A j \in (k + 1)..h : ndata[s[j]] # arg
        BY <2>1, <3>3 DEF LastMatch
      <4>2. k \in 1..(h + 1) /\ \A j \in (k + 1)..(h + 1) : j \in (k + 1)..h \/ j = h + 1
        BY <1>4
      <4> QED
        BY <2>1, <2>4, <3>1, <3>3, <4>1, <4>2 DEF LastMatch
    <3> QED
      BY <3>2, <3>3
  <2> QED
    BY <2>3, <2>4
<1>10. Walking(s)'
  <2>1. op' = "insert" => Seen' <= Len(s) /\ to_delete' = Null
    BY <1>2, <1>3, <1>6
  <2>2. op' = "delete" => parent' = Pos(s, t' \div 2)
    BY <1>2, <1>3
  <2>3. crt' = Pos(s, h')
    BY <1>2, <1>5
  <2>4. h' \in 0..t' /\ h' # 0 /\ t' \in 1..Len(s) /\ t' <= QueueSize
        /\ t' = IF Seen' <= Len(s) THEN Seen' ELSE Len(s)
    BY <1>2, <1>3, <1>4, <1>6
  <2> HIDE DEF Pos
  <2>5. \A i \in 1..t' : q'[i - 1] = s[i]
    BY <1>2, <1>3
  <2> QED
    BY <1>2, <1>3, <1>9, <2>1, <2>2, <2>3, <2>4, <2>5 DEF Walking, Pos
<1> QED
  BY <1>2, <1>7, <1>8, <1>10 DEF Good, Kept, BT!treeVars

\* The child the traversal looks at is at place c.
LEMMA ChildAt ==
  ASSUME TreeAssumption, NEW s, Good(s), bpc \in {"left", "right"}
  PROVE  \E c \in Nat :
           /\ Seen = c - 1 /\ BT!Child = Pos(s, c) /\ h \in 1..Len(s) /\ crt = s[h]
           /\ c = IF bpc = "left" THEN 2 * h ELSE 2 * h + 1
<1>1. /\ Laid(s) /\ Walking(s) /\ s \in Seq(Nodes) /\ Len(s) \in Nat
  BY DEF Good, Laid
<1>2. h \in 1..Len(s) /\ h \in Nat /\ crt = s[h]
  <2>1. h \in 0..t /\ t \in 1..Len(s) /\ h # 0 /\ crt = Pos(s, h)
    BY <1>1 DEF Walking
  <2>2. h \in 1..Len(s)
    BY <1>1, <2>1
  <2> QED
    BY <2>1, <2>2 DEF Pos
<1>3. left[s[h]] = Pos(s, 2 * h) /\ right[s[h]] = Pos(s, 2 * h + 1)
  BY <1>1, <1>2 DEF Laid
<1>4. CASE bpc = "left"
  <2>1. Seen = 2 * h - 1 /\ BT!Child = Pos(s, 2 * h) /\ 2 * h \in Nat
    BY <1>2, <1>3, <1>4 DEF Seen, BT!Child
  <2> QED
    BY <1>2, <1>4, <2>1
<1>5. CASE bpc = "right"
  <2>1. Seen = (2 * h + 1) - 1 /\ BT!Child = Pos(s, 2 * h + 1) /\ 2 * h + 1 \in Nat /\ bpc # "left"
    BY <1>2, <1>3, <1>5 DEF Seen, BT!Child
  <2> QED
    BY <1>2, <1>5, <2>1
<1> QED
  BY <1>4, <1>5

LEMMA VisitChildStep ==
  ASSUME TreeAssumption, NEW s, Good(s), BT!VisitChild
  PROVE  Kept(s)
<1>1. /\ TreeTypes /\ Laid(s) /\ Walking(s) /\ s \in Seq(Nodes) /\ Len(s) \in Nat
      /\ bpc \in {"left", "right"} /\ QueueSize \in Nat \ {0} /\ BT!Child # Null
  BY DEF Good, BT!VisitChild, Laid, TreeAssumption
<1>2. PICK c \in Nat : /\ Seen = c - 1 /\ BT!Child = Pos(s, c) /\ h \in 1..Len(s) /\ crt = s[h]
                       /\ c = IF bpc = "left" THEN 2 * h ELSE 2 * h + 1
  BY <1>1, ChildAt
<1>3. c \in 1..Len(s) /\ BT!Child = s[c] /\ s[c] \in Nodes
  BY <1>1, <1>2 DEF Pos
<1>4. /\ h \in 0..t /\ t \in 1..Len(s) /\ t <= QueueSize /\ \A i \in 1..t : q[i - 1] = s[i]
      /\ t = (IF Seen <= Len(s) THEN Seen ELSE Len(s)) /\ crt = Pos(s, h)
      /\ op \in {"insert", "delete"} /\ arg \in Items
      /\ op = "insert" => Seen <= Len(s) /\ to_delete = Null
      /\ op = "delete" => parent = Pos(s, t \div 2) /\ LastMatch(s, h, to_delete)
  BY <1>1 DEF Walking
<1>5. t = c - 1 /\ h # 0 /\ h \in Nat /\ Len(s) > t /\ t \in Nat
  BY <1>1, <1>2, <1>3, <1>4
<1>6. /\ UNCHANGED BT!treeVars /\ op' = op /\ arg' = arg /\ crt' = crt /\ to_delete' = to_delete
      /\ parent' = IF op = "delete" THEN crt ELSE parent
  BY DEF BT!VisitChild
<1>7. Laid(s)'
  BY <1>1, <1>6, SameTree
<1>8. CASE BT!Q!EnqueueFull /\ bpc' = "aborted"
  <2>1. TreeTypes' /\ Len(s) > QueueSize
    BY <1>1, <1>5, <1>6, <1>8 DEF TreeTypes, BT!treeVars, BT!Q!EnqueueFull
  <2> QED
    BY <1>6, <1>7, <1>8, <2>1 DEF Good, Kept, BT!treeVars
<1>9. CASE BT!Q!Enqueue(BT!Child) /\ bpc' = IF bpc = "left" THEN "right" ELSE "next"
  <2>1. /\ t < QueueSize /\ q' = [q EXCEPT ![t] = BT!Child] /\ t' = t + 1 /\ h' = h
        /\ bpc' \in {"right", "next"}
    BY <1>9 DEF BT!Q!Enqueue
  <2>2. q \in [0..(QueueSize - 1) -> Nodes \cup {Null}] /\ t \in 0..(QueueSize - 1)
    BY <1>1, <1>5, <2>1 DEF TreeTypes
  <2>3. TreeTypes'
    BY <1>1, <1>3, <1>6, <2>1, <2>2 DEF TreeTypes, BT!treeVars
  <2>4. Seen' = c /\ t' = c
    <3>1. CASE bpc = "left"
      <4>1. bpc' = "right" /\ c = 2 * h
        BY <1>2, <1>9, <3>1
      <4> QED
        BY <1>5, <2>1, <4>1 DEF Seen
    <3>2. CASE bpc = "right"
      <4>1. bpc' = "next" /\ c = 2 * h + 1
        BY <1>2, <1>9, <3>2
      <4> QED
        BY <1>5, <2>1, <4>1 DEF Seen
    <3> QED
      BY <1>1, <3>1, <3>2
  <2>5. \A i \in 1..t' : q'[i - 1] = s[i]
    <3> TAKE i \in 1..t'
    <3>1. CASE i = c
      <4>1. i - 1 = t
        BY <1>5, <3>1
      <4> QED
        BY <1>3, <2>1, <2>2, <3>1, <4>1
    <3>2. CASE i # c
      <4>1. i \in 1..t /\ i - 1 # t
        BY <1>5, <2>4, <3>2
      <4>2. i - 1 \in 0..(QueueSize - 1)
        BY <1>1, <1>5, <2>2, <4>1
      <4> QED
        BY <1>4, <2>1, <2>2, <4>1, <4>2
    <3> QED
      BY <3>1, <3>2
  <2>6. c \div 2 = h
    BY <1>2, <1>5
  <2>7. op' = "delete" => parent' = Pos(s, t' \div 2)
    BY <1>4, <1>6, <2>4, <2>6
  <2>8. op' = "insert" => Seen' <= Len(s) /\ to_delete' = Null
    BY <1>3, <1>4, <1>6, <2>4
  <2>9. op' = "delete" => LastMatch(s, h, to_delete)'
    BY <1>4, <1>6, <2>1 DEF LastMatch, BT!treeVars
  <2>10. /\ h' \in 0..t' /\ h' # 0 /\ t' \in 1..Len(s) /\ t' <= QueueSize
         /\ t' = IF Seen' <= Len(s) THEN Seen' ELSE Len(s)
    BY <1>1, <1>3, <1>4, <1>5, <2>1, <2>4
  <2>11. crt' = Pos(s, h')
    BY <1>4, <1>6, <2>1
  <2>12. Walking(s)'
    BY <1>4, <1>6, <2>5, <2>7, <2>8, <2>9, <2>10, <2>11 DEF Walking, Pos
  <2> QED
    BY <1>6, <1>7, <2>1, <2>3, <2>12 DEF Good, Kept, BT!treeVars
<1> QED
  BY <1>8, <1>9 DEF BT!VisitChild

LEMMA SkipChildStep ==
  ASSUME TreeAssumption, NEW s, Good(s), BT!SkipChild
  PROVE  Kept(s)
<1>1. /\ TreeTypes /\ Laid(s) /\ Walking(s) /\ s \in Seq(Nodes) /\ Len(s) \in Nat
      /\ bpc \in {"left", "right"} /\ BT!Child = Null /\ op = "delete"
  BY DEF Good, BT!SkipChild, Laid
<1>2. PICK c \in Nat : /\ Seen = c - 1 /\ BT!Child = Pos(s, c) /\ h \in 1..Len(s) /\ crt = s[h]
                       /\ c = IF bpc = "left" THEN 2 * h ELSE 2 * h + 1
  BY <1>1, ChildAt
<1>3. c > Len(s) /\ h \in Nat /\ c # 0
  BY <1>1, <1>2 DEF Pos, TreeAssumption
<1>4. /\ UNCHANGED <<BT!treeVars, BT!queueVars, BT!localVars>>
      /\ bpc' = IF bpc = "left" THEN "right" ELSE "next"
  BY DEF BT!SkipChild
<1>5. UNCHANGED <<q, h, t, op, arg, crt, to_delete, parent, root, left, right, ndata>>
  BY <1>4 DEF BT!treeVars, BT!queueVars, BT!localVars
<1>6. Seen' = c /\ bpc' \in {"right", "next"}
  BY <1>1, <1>2, <1>3, <1>4, <1>5 DEF Seen
<1>7. TreeTypes'
  BY <1>1, <1>5, <1>6 DEF TreeTypes
<1>8. Laid(s)'
  BY <1>1, <1>4, SameTree
<1>9. Walking(s)'
  <2>1. t = Len(s)
    BY <1>1, <1>2, <1>3 DEF Walking
  <2>2. t' = IF Seen' <= Len(s) THEN Seen' ELSE Len(s)
    BY <1>3, <1>5, <1>6, <2>1
  <2>3. LastMatch(s, h, to_delete)'
    BY <1>1, <1>5 DEF Walking, LastMatch
  <2>4. /\ op \in {"insert", "delete"} /\ arg \in Items /\ h \in 0..t /\ t \in 1..Len(s)
        /\ t <= QueueSize /\ h # 0 /\ \A i \in 1..t : q[i - 1] = s[i]
        /\ crt = Pos(s, h) /\ parent = Pos(s, t \div 2)
    BY <1>1, <1>2 DEF Walking
  <2> QED
    BY <1>1, <1>5, <2>2, <2>3, <2>4 DEF Walking, Pos
<1> QED
  BY <1>5, <1>6, <1>7, <1>8, <1>9 DEF Good, Kept

\* What every return leaves behind.
LEMMA Returned ==
  ASSUME TreeAssumption, TreeTypes, BT!Return
  PROVE  bpc' = "idle" /\ q' \in [0..(QueueSize - 1) -> Nodes \cup {Null}]
BY DEF TreeTypes, BT!Return

LEMMA InsertChildStep ==
  ASSUME TreeAssumption, NEW s, Good(s), BT!InsertChild
  PROVE  \E v \in Items : Inserted(s, v)
<1>1. /\ TreeTypes /\ Laid(s) /\ Walking(s) /\ s \in Seq(Nodes) /\ Len(s) \in Nat
      /\ bpc \in {"left", "right"} /\ BT!Child = Null /\ op = "insert" /\ BT!Return /\ root' = root
  BY DEF Good, BT!InsertChild, Laid
<1>2. PICK c \in Nat : /\ Seen = c - 1 /\ BT!Child = Pos(s, c) /\ h \in 1..Len(s) /\ crt = s[h]
                       /\ c = IF bpc = "left" THEN 2 * h ELSE 2 * h + 1
  BY <1>1, ChildAt
<1>3. c > Len(s) /\ h \in Nat
  <2>1. c \notin 1..Len(s) /\ h \in Nat
    BY <1>1, <1>2 DEF Pos, TreeAssumption
  <2> QED
    BY <1>1, <1>2, <2>1
<1>4. c = Len(s) + 1 /\ arg \in Items
  <2>1. Seen <= Len(s) /\ arg \in Items
    BY <1>1 DEF Walking
  <2> QED
    BY <1>1, <1>2, <1>3, <2>1
<1>5. PICK n \in Nodes :
        /\ BT!NewNode(n) /\ ndata' = [ndata EXCEPT ![n] = arg]
        /\ IF bpc = "left" THEN left' = [left EXCEPT ![crt] = n] /\ UNCHANGED right
                          ELSE right' = [right EXCEPT ![crt] = n] /\ UNCHANGED left
  BY DEF BT!InsertChild, BT!Link
<1>6. \A i \in 1..Len(s) : s[i] # n
  BY <1>1, <1>5, Fresh
<1>7. \/ Len(s) + 1 = 2 * h /\ left' = [left EXCEPT ![s[h]] = n] /\ right' = right
      \/ Len(s) + 1 = 2 * h + 1 /\ right' = [right EXCEPT ![s[h]] = n] /\ left' = left
  BY <1>1, <1>2, <1>4, <1>5
<1>8. Laid(Append(s, n))'
  <2>1. PICK k \in 1..Len(s) :
          \/ Len(s) + 1 = 2 * k /\ left' = [left EXCEPT ![s[k]] = n] /\ right' = right
          \/ Len(s) + 1 = 2 * k + 1 /\ right' = [right EXCEPT ![s[k]] = n] /\ left' = left
    BY <1>2, <1>7
  <2> QED
    BY <1>1, <1>6, <2>1, Attach
<1>9. TreeTypes'
  <2>1. bpc' = "idle" /\ q' \in [0..(QueueSize - 1) -> Nodes \cup {Null}]
    BY <1>1, Returned
  <2> QED
    BY <1>1, <1>4, <1>5, <1>7, <2>1 DEF TreeTypes
<1>10. Good(Append(s, n))'
  <2>1. bpc' = "idle"
    BY <1>1, Returned
  <2> QED
    BY <1>8, <1>9, <2>1, TreeIdle
<1>11. Inserted(s, arg)
  BY <1>5, <1>6, <1>10, Zenon DEF Inserted
<1> QED
  BY <1>4, <1>11, Zenon

LEMMA QuietReturn ==
  ASSUME TreeAssumption, NEW s, Good(s), BT!NoMemory \/ BT!NotFound
  PROVE  Kept(s)
<1>1. TreeTypes /\ Laid(s) /\ BT!Return /\ UNCHANGED BT!treeVars
  BY DEF Good, BT!NoMemory, BT!NotFound
<1>2. bpc' = "idle" /\ q' \in [0..(QueueSize - 1) -> Nodes \cup {Null}]
  BY <1>1, Returned
<1>3. TreeTypes'
  BY <1>1, <1>2 DEF TreeTypes, BT!treeVars
<1>4. Laid(s)'
  BY <1>1, SameTree
<1>5. Good(s)'
  BY <1>2, <1>3, <1>4, TreeIdle
<1> QED
  BY <1>1, <1>5 DEF Kept, BT!treeVars

\* A traversal that is over has taken out the whole tree, and deletes.
LEMMA Over ==
  ASSUME TreeAssumption, NEW s, Good(s), bpc = "next", h = t
  PROVE  /\ op = "delete" /\ h = Len(s) /\ h \in Nat \ {0} /\ arg \in Items
         /\ crt = s[h] /\ parent = Pos(s, h \div 2) /\ LastMatch(s, h, to_delete)
<1>1. /\ Laid(s) /\ Walking(s) /\ s \in Seq(Nodes) /\ Len(s) \in Nat
  BY DEF Good, Laid
<1>2. h \in 1..Len(s) /\ h \in Nat /\ crt = Pos(s, h)
  BY <1>1 DEF Walking
<1>3. Seen = 2 * h + 1
  BY <1>2 DEF Seen
<1>4. h = Len(s)
  BY <1>1, <1>2, <1>3 DEF Walking
<1>5. op = "delete"
  BY <1>1, <1>2, <1>3, <1>4 DEF Walking
<1>6. crt = s[h] /\ t = h
  BY <1>2 DEF Pos
<1>7. arg \in Items /\ parent = Pos(s, t \div 2) /\ LastMatch(s, h, to_delete)
  BY <1>1, <1>5 DEF Walking
<1> QED
  BY <1>2, <1>4, <1>5, <1>6, <1>7

LEMMA DeleteRootStep ==
  ASSUME TreeAssumption, NEW s, Good(s), BT!DeleteRoot
  PROVE  \E v \in Items : Deleted(s, v)
<1>1. /\ TreeTypes /\ Laid(s) /\ s \in Seq(Nodes) /\ Len(s) \in Nat
      /\ bpc = "next" /\ h = t /\ to_delete # Null /\ parent = Null /\ BT!Return
      /\ root' = Null /\ ndata' = [ndata EXCEPT ![root] = Null] /\ left' = left /\ right' = right
  BY DEF Good, BT!DeleteRoot, Laid
<1>2. /\ h = Len(s) /\ h \in Nat \ {0} /\ arg \in Items
      /\ parent = Pos(s, h \div 2) /\ LastMatch(s, h, to_delete)
  BY <1>1, Over
<1>3. Len(s) = 1
  <2>1. CASE h > 1
    <3>1. h \div 2 \in 1..Len(s)
      BY <1>2, <2>1
    <3> DEFINE k == h \div 2
    <3>2. k \in 1..Len(s) /\ Pos(s, k) = s[k]
      BY <3>1 DEF Pos
    <3> HIDE DEF k
    <3>3. s[k] \in Nodes
      BY <1>1, <3>2
    <3>4. parent = Pos(s, k)
      BY <1>2 DEF k
    <3> QED
      BY <1>1, <3>2, <3>3, <3>4 DEF TreeAssumption
  <2> QED
    BY <1>2, <2>1
<1>4. root = s[1] /\ s[1] \in Nodes /\ ndata[s[1]] = arg
  <2>1. root = s[1] /\ s[1] \in Nodes
    BY <1>1, <1>3 DEF Laid, Pos
  <2>2. PICK k \in 1..h : ndata[s[k]] = arg
    BY <1>1, <1>2 DEF LastMatch
  <2> QED
    BY <1>2, <1>3, <2>1, <2>2
<1>5. Front(s) = <<>>
  BY <1>1, <1>3 DEF Front
<1>6. Laid(<<>>)'
  <2>1. left[s[1]] = Null /\ right[s[1]] = Null
    <3>1. left[s[1]] = Pos(s, 2 * 1) /\ right[s[1]] = Pos(s, 2 * 1 + 1)
      <4>1. 1 \in 1..Len(s)
        BY <1>3
      <4> QED
        BY <1>1, <4>1, Zenon DEF Laid
    <3> QED
      BY <1>3, <3>1 DEF Pos
  <2>2. \A m \in Nodes : left[m] = Null /\ right[m] = Null
    <3> TAKE m \in Nodes
    <3>1. CASE m = s[1]
      BY <2>1, <3>1
    <3>2. CASE m # s[1]
      <4>1. \A i \in 1..Len(s) : s[i] # m
        BY <1>3, <3>2
      <4> QED
        BY <1>1, <4>1 DEF Laid
    <3> QED
      BY <3>1, <3>2
  <2>3. left' = [n \in Nodes |-> Null] /\ right' = left'
    BY <1>1, <2>2 DEF TreeTypes
  <2> QED
    BY <1>1, <2>3, EmptyLaid
<1>7. bpc' = "idle" /\ q' \in [0..(QueueSize - 1) -> Nodes \cup {Null}]
  BY <1>1, Returned
<1>8. TreeTypes'
  BY <1>1, <1>4, <1>7 DEF TreeTypes
<1>9. Good(<<>>)'
  BY <1>6, <1>7, <1>8, TreeIdle
<1>10. ndata' = [ndata EXCEPT ![s[1]] = ndata[s[Len(s)]], ![s[Len(s)]] = Null]
  BY <1>1, <1>3, <1>4 DEF TreeTypes
<1>11. 1 \in 1..Len(s) /\ \A j \in (1 + 1)..Len(s) : ndata[s[j]] # arg
  BY <1>3
<1>12. Good(Front(s))'
  BY <1>5, <1>9
<1>13. Deleted(s, arg)
  BY <1>4, <1>10, <1>11, <1>12, Zenon DEF Deleted
<1> QED
  BY <1>2, <1>13, Zenon

LEMMA DeleteNodeStep ==
  ASSUME TreeAssumption, NEW s, Good(s), BT!DeleteNode
  PROVE  \E v \in Items : Deleted(s, v)
<1>1. /\ TreeTypes /\ Laid(s) /\ s \in Seq(Nodes) /\ Len(s) \in Nat
      /\ bpc = "next" /\ h = t /\ to_delete # Null /\ parent # Null /\ BT!Return
      /\ root' = root /\ ndata' = [ndata EXCEPT ![to_delete] = ndata[crt], ![crt] = Null]
      /\ IF left[parent] = crt
         THEN left' = [left EXCEPT ![parent] = Null] /\ right' = right
         ELSE right' = [right EXCEPT ![parent] = Null] /\ left' = left
  BY DEF Good, BT!DeleteNode, Laid
<1>2. /\ h = Len(s) /\ h \in Nat \ {0} /\ arg \in Items /\ crt = s[h]
      /\ parent = Pos(s, h \div 2) /\ LastMatch(s, h, to_delete)
  BY <1>1, Over
<1>3. PICK k \in Nat : k = h \div 2 /\ h \in {2 * k, 2 * k + 1}
  <2>1. h \div 2 \in Nat /\ h \in {2 * (h \div 2), 2 * (h \div 2) + 1}
    BY <1>2
  <2> QED
    BY <2>1
<1>4. parent = s[k] /\ k \in 1..Len(s)
  BY <1>1, <1>2, <1>3 DEF Pos
<1>5. Len(s) > 1
  BY <1>1, <1>2, <1>3, <1>4
<1>6. Laid(Front(s))'
  <2>1. Len(s) \in {2 * k, 2 * k + 1}
    BY <1>2, <1>3
  <2>2. IF left[s[k]] = s[Len(s)] THEN left' = [left EXCEPT ![s[k]] = Null] /\ right' = right
                                  ELSE right' = [right EXCEPT ![s[k]] = Null] /\ left' = left
    BY <1>1, <1>2, <1>4
  <2> QED
    BY <1>1, <1>5, <2>1, <2>2, Detach
<1>7. PICK d \in 1..h : /\ to_delete = s[d] /\ ndata[s[d]] = arg
                        /\ \A j \in (d + 1)..h : ndata[s[j]] # arg
  BY <1>1, <1>2 DEF LastMatch
<1>8. bpc' = "idle" /\ q' \in [0..(QueueSize - 1) -> Nodes \cup {Null}]
  BY <1>1, Returned
<1>9. crt \in Nodes /\ ndata[crt] \in Items \cup {Null}
  BY <1>1, <1>2 DEF TreeTypes
<1>10. TreeTypes'
  BY <1>1, <1>8, <1>9 DEF TreeTypes
<1>11. Good(Front(s))'
  BY <1>6, <1>8, <1>10, TreeIdle
<1>12. ndata' = [ndata EXCEPT ![s[d]] = ndata[s[Len(s)]], ![s[Len(s)]] = Null]
  BY <1>1, <1>2, <1>7
<1>13. Deleted(s, arg)
  BY <1>2, <1>7, <1>11, <1>12, Zenon DEF Deleted
<1> QED
  BY <1>2, <1>13, Zenon

LEMMA DestroyStep ==
  ASSUME TreeAssumption, NEW s, Good(s), BT!Destroy
  PROVE  Emptied
<1>1. /\ TreeTypes /\ root' = Null /\ left' = [n \in Nodes |-> Null] /\ right' = left' /\ ndata' = left'
      /\ q' = q /\ bpc' = "idle"
  BY DEF Good, BT!Destroy, BT!queueVars
<1>2. Laid(<<>>)'
  BY <1>1, EmptyLaid
<1>3. TreeTypes'
  BY <1>1 DEF TreeTypes
<1>4. Good(<<>>)'
  BY <1>1, <1>2, <1>3, TreeIdle
<1> QED
  BY <1>4 DEF Emptied

LEMMA StepGood ==
  ASSUME TreeAssumption, NEW s, Good(s), [BT!Next]_(BT!vars)
  PROVE  Kept(s) \/ Emptied \/ \E v \in Items : Inserted(s, v) \/ Deleted(s, v)
<1>1. ASSUME NEW v \in Items, BT!InsertRoot(v) PROVE Inserted(s, v)
  BY <1>1, InsertRootStep
<1>2. ASSUME NEW v \in Items, NEW o \in {"insert", "delete"}, BT!Begin(o, v) PROVE Kept(s)
  BY <1>2, BeginStep
<1>3. CASE BT!NextNode
  BY <1>3, NextNodeStep
<1>4. CASE BT!VisitChild
  BY <1>4, VisitChildStep
<1>5. CASE BT!SkipChild
  BY <1>5, SkipChildStep
<1>6. CASE BT!InsertChild
  BY <1>6, InsertChildStep, Zenon
<1>7. CASE BT!NoMemory \/ BT!NotFound
  BY <1>7, QuietReturn
<1>8. CASE BT!DeleteRoot
  BY <1>8, DeleteRootStep, Zenon
<1>9. CASE BT!DeleteNode
  BY <1>9, DeleteNodeStep, Zenon
<1>10. CASE BT!Destroy
  BY <1>10, DestroyStep
<1>11. CASE UNCHANGED BT!vars
  <2>1. UNCHANGED <<root, left, right, ndata, q, h, t, bpc, op, arg, crt, to_delete, parent>>
    BY <1>11 DEF BT!vars, BT!treeVars, BT!queueVars, BT!localVars
  <2>2. TreeTypes' /\ Laid(s)'
    BY <2>1 DEF Good, TreeTypes, Laid, Pos
  <2>3. Walking(s) => Walking(s)'
    BY <2>1 DEF Walking, Pos, Seen, LastMatch
  <2> QED
    BY <2>1, <2>2, <2>3 DEF Good, Kept
<1> QED
  BY <1>1, <1>2, <1>3, <1>4, <1>5, <1>6, <1>7, <1>8, <1>9, <1>10, <1>11, Zenon DEF BT!Next

\* Every reachable tree is filled level by level, and the call at work in it is
\* where its locals and its queue say.
LevelByLevel == \E s : Good(s)

THEOREM TreeLevelByLevel == ASSUME TreeAssumption PROVE BT!Spec => []LevelByLevel
<1>1. BT!Init => LevelByLevel
  BY InitGood DEF LevelByLevel
<1>2. LevelByLevel /\ [BT!Next]_(BT!vars) => LevelByLevel'
  <2> SUFFICES ASSUME LevelByLevel, [BT!Next]_(BT!vars) PROVE LevelByLevel'
    OBVIOUS
  <2>1. PICK s : Good(s)
    BY DEF LevelByLevel
  <2>2. Kept(s) \/ Emptied \/ \E v \in Items : Inserted(s, v) \/ Deleted(s, v)
    BY <2>1, StepGood
  <2>3. \E z : Good(z)'
    BY <2>2, Zenon DEF Kept, Emptied, Inserted, Deleted
  <2> QED
    BY <2>3 DEF LevelByLevel
<1> QED
  BY <1>1, <1>2, PTL DEF BT!Spec

\* The assertions of binary_tree_insert and binary_tree_delete on queue_enqueue
\* fail only in a tree of more nodes than the queue has slots.
THEOREM TreeAborts == ASSUME TreeAssumption PROVE BT!Spec => []BT!AbortsOnlyBeyondQueue
<1>1. LevelByLevel => BT!AbortsOnlyBeyondQueue
  <2> SUFFICES ASSUME NEW s, Good(s), bpc = "aborted"
               PROVE  Cardinality(BT!InTree) > QueueSize
    BY SameCount DEF LevelByLevel, BT!AbortsOnlyBeyondQueue
  <2>1. Cardinality(BT!InTree) = Len(s) /\ Len(s) > QueueSize
    BY ReadOffHolds DEF ReadOff, Good
  <2> QED
    BY <2>1
<1> QED
  BY <1>1, TreeLevelByLevel, PTL

-------------------------------------------------------------------------------
LEMMA TreeHolds ==
  ASSUME TreeAssumption, NEW s, Good(s)
  PROVE  /\ BT!Contents = [i \in 1..Len(s) |-> ndata[s[i]]] /\ BT!Contents \in Seq(Items \cup {Null})
         /\ Len(BT!Contents) = Len(s) /\ s \in Seq(Nodes) /\ IsInjective(s)
         /\ ndata \in [Nodes -> Items \cup {Null}]
<1>1. s \in Seq(Nodes) /\ IsInjective(s) /\ ndata \in [Nodes -> Items \cup {Null}] /\ Laid(s)
  BY DEF Good, Laid, TreeTypes
<1>2. BT!Contents = [i \in 1..Len(s) |-> ndata[s[i]]]
  BY <1>1, ReadOffHolds DEF ReadOff
<1>3. [i \in 1..Len(s) |-> ndata[s[i]]] \in Seq(Items \cup {Null})
  BY <1>1
<1>4. Len([i \in 1..Len(s) |-> ndata[s[i]]]) = Len(s)
  BY <1>1
<1> QED
  BY <1>1, <1>2, <1>3, <1>4

LEMMA TreeHoldsNext ==
  ASSUME TreeAssumption, NEW s, Good(s)'
  PROVE  BT!Contents' = [i \in 1..Len(s) |-> ndata'[s[i]]]
BY ReadOffNext DEF ReadOff, Good

LEMMA InsertedAppends ==
  ASSUME TreeAssumption, NEW s, Good(s), NEW v \in Items, Inserted(s, v)
  PROVE  BT!Contents' = Append(BT!Contents, v)
<1>1. PICK n \in Nodes : /\ Good(Append(s, n))' /\ \A i \in 1..Len(s) : s[i] # n
                         /\ ndata' = [ndata EXCEPT ![n] = v]
  BY Zenon DEF Inserted
<1> DEFINE z == Append(s, n)
<1>2. /\ BT!Contents = [i \in 1..Len(s) |-> ndata[s[i]]] /\ BT!Contents \in Seq(Items \cup {Null})
      /\ Len(BT!Contents) = Len(s) /\ s \in Seq(Nodes) /\ ndata \in [Nodes -> Items \cup {Null}]
  BY TreeHolds
<1>3. BT!Contents' = [i \in 1..Len(z) |-> ndata'[z[i]]]
  BY <1>1, TreeHoldsNext
<1>4. Len(z) = Len(s) + 1 /\ z[Len(s) + 1] = n /\ Len(s) \in Nat
      /\ \A i \in 1..Len(s) : z[i] = s[i] /\ s[i] \in Nodes
  BY <1>2
<1> HIDE DEF z
<1>5. \A i \in 1..Len(s) : ndata'[z[i]] = ndata[s[i]]
  BY <1>1, <1>2, <1>4
<1>6. ndata'[z[Len(s) + 1]] = v
  BY <1>1, <1>2, <1>4
<1> DEFINE w == Append(BT!Contents, v)
<1>7. /\ w = [i \in 1..(Len(s) + 1) |-> w[i]]
      /\ w[Len(s) + 1] = v /\ \A i \in 1..Len(s) : w[i] = BT!Contents[i]
  BY <1>2
<1> HIDE DEF w
<1>8. ASSUME NEW i \in 1..(Len(s) + 1) PROVE ndata'[z[i]] = w[i]
  <2>1. CASE i = Len(s) + 1
    BY <1>6, <1>7, <2>1
  <2>2. CASE i # Len(s) + 1
    <3>1. i \in 1..Len(s)
      BY <1>4, <2>2
    <3>2. BT!Contents[i] = ndata[s[i]]
      BY <1>2, <3>1
    <3> QED
      BY <1>5, <1>7, <3>1, <3>2
  <2> QED
    BY <2>1, <2>2
<1>9. BT!Contents' = w
  BY <1>3, <1>4, <1>7, <1>8
<1> QED
  BY <1>9 DEF w

LEMMA Greatest ==
  ASSUME NEW I \in SUBSET Int, NEW k \in I, \A i \in I : k >= i
  PROVE  (CHOOSE x \in I : \A y \in I : x >= y) = k
<1> DEFINE c == CHOOSE x \in I : \A y \in I : x >= y
<1>1. c \in I /\ \A y \in I : c >= y
  OBVIOUS
<1> HIDE DEF c
<1>2. c \in Int /\ k \in Int /\ c >= k /\ k >= c
  BY <1>1
<1>3. c = k
  BY <1>2
<1> QED
  BY <1>3 DEF c

LEMMA DeletedReplaces ==
  ASSUME TreeAssumption, NEW s, Good(s), NEW v \in Items, Deleted(s, v)
  PROVE  BT!Abstract!ADelete(v)
<1>1. PICK k \in 1..Len(s) :
        /\ ndata[s[k]] = v /\ \A j \in (k + 1)..Len(s) : ndata[s[j]] # v
        /\ Good(Front(s))'
        /\ ndata' = [ndata EXCEPT ![s[k]] = ndata[s[Len(s)]], ![s[Len(s)]] = Null]
  BY Zenon DEF Deleted
<1>2. /\ BT!Contents = [i \in 1..Len(s) |-> ndata[s[i]]] /\ BT!Contents \in Seq(Items \cup {Null})
      /\ Len(BT!Contents) = Len(s) /\ s \in Seq(Nodes) /\ ndata \in [Nodes -> Items \cup {Null}]
      /\ IsInjective(s) /\ Len(s) \in Nat
  BY TreeHolds
<1> DEFINE w == BT!Contents
           z == Front(s)
<1> DEFINE I == {i \in 1..Len(w) : w[i] = v}
<1>3. k \in I /\ (CHOOSE x \in I : \A y \in I : x >= y) = k
  <2>1. k \in I /\ I \in SUBSET Int
    BY <1>1, <1>2
  <2>2. ASSUME NEW i \in 1..Len(w), w[i] = v PROVE k >= i
    <3>1. i \in 1..Len(s) /\ ndata[s[i]] = v
      BY <1>2, <2>2
    <3>2. i \notin (k + 1)..Len(s)
      BY <1>1, <3>1
    <3> QED
      BY <1>2, <3>1, <3>2
  <2>3. \A i \in I : k >= i
    BY <2>2
  <2> HIDE DEF I
  <2> QED
    BY <2>1, <2>3, Greatest
<1>4. BT!Contents' = [i \in 1..Len(z) |-> ndata'[z[i]]]
  BY <1>1, TreeHoldsNext
<1>5. /\ Len(z) = Len(s) - 1
      /\ \A i \in 1..(Len(s) - 1) : z[i] = s[i] /\ s[i] \in Nodes /\ s[i] # s[Len(s)]
  <2>1. z = SubSeq(s, 1, Len(s) - 1)
    BY DEF Front
  <2>2. Len(z) = Len(s) - 1 /\ \A i \in 1..(Len(s) - 1) : z[i] = s[i] /\ s[i] \in Nodes
    BY <1>2, <2>1
  <2>3. \A i \in 1..(Len(s) - 1) : s[i] # s[Len(s)]
    BY <1>2 DEF IsInjective
  <2> QED
    BY <2>2, <2>3
<1> HIDE DEF w, z
<1> DEFINE u == [w EXCEPT ![k] = Last(w)]
           f == Front(u)
<1>6. /\ u \in Seq(Items \cup {Null}) /\ Len(u) = Len(s)
      /\ \A i \in 1..Len(s) : u[i] = IF i = k THEN ndata[s[Len(s)]] ELSE ndata[s[i]]
  <2>1. w \in Seq(Items \cup {Null}) /\ Len(w) = Len(s) /\ \A i \in 1..Len(s) : w[i] = ndata[s[i]]
    BY <1>2 DEF w
  <2>2. Last(w) = w[Len(s)] /\ Len(s) \in 1..Len(s)
    BY <1>2, <2>1 DEF Last
  <2> QED
    BY <1>2, <2>1, <2>2
<1> HIDE DEF u
<1>7. /\ f = [i \in 1..(Len(s) - 1) |-> f[i]]
      /\ \A i \in 1..(Len(s) - 1) : f[i] = u[i]
  <2>1. f = SubSeq(u, 1, Len(s) - 1)
    BY <1>6 DEF Front
  <2> QED
    BY <1>2, <1>6, <2>1
<1> HIDE DEF f
<1>8. ASSUME NEW i \in 1..(Len(s) - 1) PROVE ndata'[z[i]] = f[i]
  <2>1. z[i] = s[i] /\ s[i] \in Nodes /\ s[i] # s[Len(s)] /\ i \in 1..Len(s)
    BY <1>2, <1>5
  <2>2. f[i] = IF i = k THEN ndata[s[Len(s)]] ELSE ndata[s[i]]
    BY <1>6, <1>7, <2>1
  <2>3. i # k => s[i] # s[k]
    BY <1>2, <2>1 DEF IsInjective
  <2> QED
    BY <1>1, <1>2, <2>1, <2>2, <2>3
<1>9. BT!Contents' = f
  BY <1>4, <1>5, <1>7, <1>8
<1>10. k # 0 /\ BT!Contents' = Front([BT!Contents EXCEPT ![k] = Last(BT!Contents)])
  BY <1>9 DEF f, u, w
<1>11. BT!Abstract!SelectLastInSeq(BT!Contents, LAMBDA x : x = v) = k
  <2>1. BT!Abstract!SelectLastInSeq(BT!Contents, LAMBDA x : x = v)
          = IF I # {} THEN CHOOSE x \in I : \A y \in I : x >= y ELSE 0
    BY DEF BT!Abstract!SelectLastInSeq, BT!Abstract!Max, w
  <2> HIDE DEF I
  <2> QED
    BY <1>3, <2>1
<1> HIDE DEF I
<1> QED
  BY <1>10, <1>11 DEF BT!Abstract!ADelete, BT!Abstract!Front, BT!Abstract!Last, Front, Last

\* A tree that only inserts and deletes level by level touch is a sequence: an
\* insertion appends, a deletion replaces the last match by the last datum, and
\* in between the contents do not change.
THEOREM TreeImplementsLevelOrder == ASSUME TreeAssumption PROVE BT!Spec => BT!ImplementsLevelOrder
<1>1. BT!Init => BT!Abstract!AInit
  <2> SUFFICES ASSUME BT!Init PROVE BT!Contents = <<>>
    BY DEF BT!Abstract!AInit
  <2> QED
    BY DEF BT!Init, BT!Contents
<1>2. LevelByLevel /\ [BT!Next]_(BT!vars) => [BT!Abstract!ANext]_(BT!Contents)
  <2> SUFFICES ASSUME NEW s, Good(s), [BT!Next]_(BT!vars) PROVE BT!Abstract!ANext \/ BT!Contents' = BT!Contents
    BY DEF LevelByLevel
  <2>1. CASE Kept(s)
    <3>1. BT!Contents' = [i \in 1..Len(s) |-> ndata'[s[i]]] /\ ndata' = ndata
      BY <2>1, TreeHoldsNext DEF Kept
    <3> QED
      BY <3>1, TreeHolds
  <2>2. CASE Emptied
    <3>1. BT!Contents' = [i \in 1..Len(<<>>) |-> ndata'[<<>>[i]]]
      BY <2>2, TreeHoldsNext DEF Emptied
    <3>2. BT!Contents' = <<>>
      BY <3>1
    <3> QED
      BY <3>2 DEF BT!Abstract!ANext, BT!Abstract!AClear
  <2>3. ASSUME NEW v \in Items, Inserted(s, v) PROVE BT!Abstract!ANext
    BY <2>3, InsertedAppends DEF BT!Abstract!ANext, BT!Abstract!AInsert
  <2>4. ASSUME NEW v \in Items, Deleted(s, v) PROVE BT!Abstract!ANext
    BY <2>4, DeletedReplaces DEF BT!Abstract!ANext
  <2> QED
    BY <2>1, <2>2, <2>3, <2>4, StepGood
<1> QED
  BY <1>1, <1>2, TreeLevelByLevel, PTL DEF BT!Spec, BT!ImplementsLevelOrder, BT!Abstract!ASpec

-------------------------------------------------------------------------------
\* The hash table.  Its recursions, as functions of what they walk along.
OwnSteps(f, s, k) ==
  /\ f \in [0..Len(s) -> Seq(Items)]
  /\ f[0] = <<>> /\ H!Own(s, k) = f[Len(s)]
  /\ \A i \in 1..Len(s) : f[i] = IF s[i].key = k THEN Append(f[i - 1], s[i].value) ELSE f[i - 1]

WithoutSteps(f, s, k) ==
  /\ f \in [0..Len(s) -> Seq(H!Entry)]
  /\ f[0] = <<>> /\ H!Without(s, k) = f[Len(s)]
  /\ \A i \in 1..Len(s) : f[i] = IF s[i].key = k THEN f[i - 1] ELSE Append(f[i - 1], s[i])

LEMMA OwnWalk == ASSUME NEW s \in Seq(H!Entry), NEW k PROVE \E f : OwnSteps(f, s, k)
<1> DEFINE n == Len(s)
           L == Seq(Items)
           step == [x \in L \X (1..n) |->
                      IF s[x[2]].key = k THEN Append(x[1], s[x[2]].value) ELSE x[1]]
           fits(f) == f = [i \in 0..Len(s) |-> IF i = 0 THEN <<>> ELSE IF s[i].key = k
                                               THEN Append(f[i - 1], s[i].value) ELSE f[i - 1]]
           own == CHOOSE f : fits(f)
<1>1. n \in Nat /\ \A i \in 1..n : s[i].value \in Items
  <2>1. n \in Nat /\ \A i \in 1..n : s[i] \in H!Entry
    OBVIOUS
  <2> HIDE DEF n
  <2> QED
    BY <2>1 DEF H!Entry
<1>2. step \in [L \X (1..n) -> L] /\ <<>> \in L
  BY <1>1
<1>3. PICK f : IsWalk(f, n, L, <<>>, step)
  <2> HIDE DEF n, L, step
  <2> QED
    BY <1>1, <1>2, WalkExists
<1>4. ASSUME NEW i \in 1..n
      PROVE  f[i] = IF s[i].key = k THEN Append(f[i - 1], s[i].value) ELSE f[i - 1]
  <2>1. i \in 0..n /\ i - 1 \in 0..n /\ i # 0
    BY <1>1
  <2>2. f[i] = step[<<f[i - 1], i>>]
    BY <1>3 DEF IsWalk
  <2>3. <<f[i - 1], i>> \in L \X (1..n)
    BY <1>3, <2>1 DEF IsWalk
  <2> HIDE DEF L, n
  <2> QED
    BY <2>2, <2>3
<1>5. fits(f)
  <2>1. \A i \in 0..n : f[i] = IF i = 0 THEN <<>> ELSE IF s[i].key = k
                               THEN Append(f[i - 1], s[i].value) ELSE f[i - 1]
    <3>1. \A i \in 0..n : i = 0 \/ i \in 1..n
      BY <1>1
    <3>2. f[0] = <<>>
      BY <1>3 DEF IsWalk
    <3> HIDE DEF n
    <3> QED
      BY <1>4, <3>1, <3>2
  <2> QED
    BY <1>3, <2>1 DEF IsWalk
<1>6. fits(own)
  <2> HIDE DEF fits
  <2> QED
    BY <1>5
<1>7. H!Own(s, k) = own[n]
  BY Zenon DEF H!Own
<1> HIDE DEF own
<1>8. \A i \in 0..n : own[i] = f[i]
  <2>1. own[0] = f[0]
    BY <1>1, <1>5, <1>6
  <2>4. \A i \in 1..n : i \in 0..n /\ i # 0
    BY <1>1
  <2>2. \A i \in 1..n : own[i] = IF s[i].key = k THEN Append(own[i - 1], s[i].value) ELSE own[i - 1]
    BY <1>6, <2>4
  <2> HIDE DEF n
  <2>3. Alike(own, f, n)
    BY <1>4, <2>1, <2>2 DEF Alike
  <2> QED
    BY <1>1, <2>3, WalksAgree
<1>9. n \in 0..n /\ 0 \in 0..n
  BY <1>1
<1> QED
  BY <1>3, <1>4, <1>7, <1>8, <1>9 DEF IsWalk, OwnSteps

LEMMA WithoutWalk == ASSUME NEW s \in Seq(H!Entry), NEW k PROVE \E f : WithoutSteps(f, s, k)
<1> DEFINE n == Len(s)
           L == Seq(H!Entry)
           step == [x \in L \X (1..n) |-> IF s[x[2]].key = k THEN x[1] ELSE Append(x[1], s[x[2]])]
           fits(f) == f = [i \in 0..Len(s) |-> IF i = 0 THEN <<>> ELSE IF s[i].key = k
                                               THEN f[i - 1] ELSE Append(f[i - 1], s[i])]
           kept == CHOOSE f : fits(f)
<1>1. n \in Nat /\ \A i \in 1..n : s[i] \in H!Entry
  OBVIOUS
<1>2. step \in [L \X (1..n) -> L] /\ <<>> \in L
  BY <1>1
<1>3. PICK f : IsWalk(f, n, L, <<>>, step)
  <2> HIDE DEF n, L, step
  <2> QED
    BY <1>1, <1>2, WalkExists
<1>4. ASSUME NEW i \in 1..n
      PROVE  f[i] = IF s[i].key = k THEN f[i - 1] ELSE Append(f[i - 1], s[i])
  <2>1. i \in 0..n /\ i - 1 \in 0..n /\ i # 0
    BY <1>1
  <2>2. f[i] = step[<<f[i - 1], i>>]
    BY <1>3 DEF IsWalk
  <2>3. <<f[i - 1], i>> \in L \X (1..n)
    BY <1>3, <2>1 DEF IsWalk
  <2> HIDE DEF L, n
  <2> QED
    BY <2>2, <2>3
<1>5. fits(f)
  <2>1. \A i \in 0..n : f[i] = IF i = 0 THEN <<>> ELSE IF s[i].key = k
                               THEN f[i - 1] ELSE Append(f[i - 1], s[i])
    <3>1. \A i \in 0..n : i = 0 \/ i \in 1..n
      BY <1>1
    <3>2. f[0] = <<>>
      BY <1>3 DEF IsWalk
    <3> HIDE DEF n
    <3> QED
      BY <1>4, <3>1, <3>2
  <2> QED
    BY <1>3, <2>1 DEF IsWalk
<1>6. fits(kept)
  <2> HIDE DEF fits
  <2> QED
    BY <1>5
<1>7. H!Without(s, k) = kept[n]
  BY Zenon DEF H!Without
<1> HIDE DEF kept
<1>8. \A i \in 0..n : kept[i] = f[i]
  <2>1. kept[0] = f[0]
    BY <1>1, <1>5, <1>6
  <2>4. \A i \in 1..n : i \in 0..n /\ i # 0
    BY <1>1
  <2>2. \A i \in 1..n : kept[i] = IF s[i].key = k THEN kept[i - 1] ELSE Append(kept[i - 1], s[i])
    BY <1>6, <2>4
  <2> HIDE DEF n
  <2>3. Alike(kept, f, n)
    BY <1>4, <2>1, <2>2 DEF Alike
  <2> QED
    BY <1>1, <2>3, WalksAgree
<1>9. n \in 0..n /\ 0 \in 0..n
  BY <1>1
<1> QED
  BY <1>3, <1>4, <1>7, <1>8, <1>9 DEF IsWalk, WithoutSteps

\* The values of a key in a bucket with one more entry, and in one walked along
\* by a deletion.
LEMMA OwnOf ==
  ASSUME NEW k
  PROVE  /\ H!Own(<<>>, k) = <<>>
         /\ \A s \in Seq(H!Entry) : H!Own(s, k) \in Seq(Items)
         /\ \A s \in Seq(H!Entry), e \in H!Entry :
              H!Own(Append(s, e), k) = IF e.key = k THEN Append(H!Own(s, k), e.value) ELSE H!Own(s, k)
<1>1. H!Own(<<>>, k) = <<>>
  <2>1. <<>> \in Seq(H!Entry) /\ Len(<<>>) = 0
    OBVIOUS
  <2>2. PICK f : OwnSteps(f, <<>>, k)
    BY <2>1, OwnWalk
  <2> QED
    BY <2>1, <2>2 DEF OwnSteps
<1>2. ASSUME NEW s \in Seq(H!Entry) PROVE H!Own(s, k) \in Seq(Items)
  <2>1. Len(s) \in 0..Len(s)
    OBVIOUS
  <2>2. PICK f : OwnSteps(f, s, k)
    BY OwnWalk
  <2> QED
    BY <2>1, <2>2 DEF OwnSteps
<1>3. ASSUME NEW s \in Seq(H!Entry), NEW e \in H!Entry
      PROVE  H!Own(Append(s, e), k) = IF e.key = k THEN Append(H!Own(s, k), e.value) ELSE H!Own(s, k)
  <2> DEFINE longer == Append(s, e)
             n == Len(s)
  <2>1. /\ longer \in Seq(H!Entry) /\ Len(longer) = n + 1 /\ longer[n + 1] = e /\ n \in Nat
        /\ \A i \in 1..n : longer[i] = s[i]
    OBVIOUS
  <2> HIDE DEF longer
  <2>2. PICK f : OwnSteps(f, s, k)
    BY OwnWalk
  <2>3. PICK g : OwnSteps(g, longer, k)
    BY <2>1, OwnWalk
  <2> HIDE DEF n
  <2>4. Alike(f, g, n)
    <3>1. \A i \in 1..n : i \in 1..(n + 1)
      BY <2>1
    <3> QED
      BY <2>1, <2>2, <2>3, <3>1 DEF Alike, OwnSteps, n
  <2>5. f[n] = g[n]
    <3>1. n \in 0..n /\ n \in Nat
      BY <2>1
    <3> QED
      BY <2>4, <3>1, WalksAgree
  <2>6. g[n + 1] = IF e.key = k THEN Append(g[n], e.value) ELSE g[n]
    <3>1. n + 1 \in 1..(n + 1) /\ (n + 1) - 1 = n
      BY <2>1
    <3> QED
      BY <2>1, <2>3, <3>1 DEF OwnSteps
  <2> QED
    BY <2>1, <2>2, <2>3, <2>5, <2>6 DEF OwnSteps, longer, n
<1> QED
  BY <1>1, <1>2, <1>3

LEMMA WithoutOf ==
  ASSUME NEW s \in Seq(H!Entry), NEW k, NEW x
  PROVE  /\ H!Without(s, k) \in Seq(H!Entry)
         /\ H!Own(H!Without(s, k), x) = IF x = k THEN <<>> ELSE H!Own(s, x)
<1> DEFINE n == Len(s)
<1>1. n \in Nat /\ n \in 0..n /\ \A i \in 1..n : s[i] \in H!Entry /\ i \in 0..n /\ i - 1 \in 0..n
  OBVIOUS
<1>2. PICK f : OwnSteps(f, s, x)
  BY OwnWalk
<1>3. PICK w : WithoutSteps(w, s, k)
  BY WithoutWalk
<1> DEFINE g == [i \in 0..n |-> H!Own(w[i], x)]
           u == [i \in 0..n |-> IF x = k THEN <<>> ELSE f[i]]
<1>4. Alike(g, u, n)
  <2>1. g[0] = <<>> /\ u[0] = <<>>
    <3>1. 0 \in 0..n
      BY <1>1
    <3> QED
      BY <1>2, <1>3, <3>1, OwnOf DEF OwnSteps, WithoutSteps
  <2>2. ASSUME NEW i \in 1..n, g[i - 1] = u[i - 1] PROVE g[i] = u[i]
    <3>1. /\ g[i] = H!Own(w[i], x) /\ g[i - 1] = H!Own(w[i - 1], x)
          /\ u[i] = (IF x = k THEN <<>> ELSE f[i]) /\ u[i - 1] = IF x = k THEN <<>> ELSE f[i - 1]
          /\ s[i] \in H!Entry /\ w[i - 1] \in Seq(H!Entry)
      BY <1>1, <1>3 DEF WithoutSteps
    <3> HIDE DEF g, u
    <3>2. CASE s[i].key = k
      <4>1. w[i] = w[i - 1]
        BY <1>3, <3>2 DEF WithoutSteps
      <4>2. x # k => f[i] = f[i - 1]
        BY <1>2, <3>2 DEF OwnSteps
      <4> QED
        BY <2>2, <3>1, <4>1, <4>2
    <3>3. CASE s[i].key # k
      <4>1. H!Own(w[i], x) = IF s[i].key = x THEN Append(H!Own(w[i - 1], x), s[i].value) ELSE H!Own(w[i - 1], x)
        <5>1. w[i] = Append(w[i - 1], s[i])
          BY <1>3, <3>3 DEF WithoutSteps
        <5>2. s[i] \in H!Entry /\ w[i - 1] \in Seq(H!Entry)
          BY <3>1
        <5> DEFINE v == w[i - 1]  e == s[i]
        <5>3. H!Own(Append(v, e), x) = IF e.key = x THEN Append(H!Own(v, x), e.value) ELSE H!Own(v, x)
          <6> HIDE DEF v, e
          <6> QED
            BY <5>2, OwnOf DEF v, e
        <5> QED
          BY <5>1, <5>3
      <4>2. f[i] = IF s[i].key = x THEN Append(f[i - 1], s[i].value) ELSE f[i - 1]
        BY <1>2 DEF OwnSteps
      <4> QED
        BY <2>2, <3>1, <3>3, <4>1, <4>2
    <3> QED
      BY <3>2, <3>3
  <2> HIDE DEF g, u, n
  <2> QED
    BY <2>1, <2>2 DEF Alike
<1>5. g[n] = u[n]
  <2> HIDE DEF g, u, n
  <2> QED
    BY <1>1, <1>4, WalksAgree
<1>6. H!Own(H!Without(s, k), x) = IF x = k THEN <<>> ELSE H!Own(s, x)
  BY <1>1, <1>2, <1>3, <1>5 DEF OwnSteps, WithoutSteps
<1> QED
  BY <1>1, <1>3, <1>6 DEF WithoutSteps

\* How many entries the buckets b have, and the values of a key in all of them.
Total(b) ==
  LET sum[i \in 0..Capacity] == IF i = 0 THEN 0 ELSE sum[i - 1] + Len(b[i - 1]) IN sum[Capacity]
Found(b, k) ==
  LET found[i \in 0..Capacity] == IF i = 0 THEN <<>> ELSE found[i - 1] \o H!Own(b[i - 1], k)
  IN found[Capacity]

TotalSteps(f, b) ==
  /\ f \in [0..Capacity -> Nat] /\ f[0] = 0 /\ Total(b) = f[Capacity]
  /\ \A i \in 1..Capacity : f[i] = f[i - 1] + Len(b[i - 1])

FoundSteps(f, b, k) ==
  /\ f \in [0..Capacity -> Seq(Items)] /\ f[0] = <<>> /\ Found(b, k) = f[Capacity]
  /\ \A i \in 1..Capacity : f[i] = f[i - 1] \o H!Own(b[i - 1], k)

LEMMA TotalWalk ==
  ASSUME Capacity \in Nat, NEW b \in [H!Ids -> Seq(H!Entry)]
  PROVE  \E f : TotalSteps(f, b)
<1> DEFINE step == [x \in Nat \X (1..Capacity) |-> x[1] + Len(b[x[2] - 1])]
           fits(f) == f = [i \in 0..Capacity |-> IF i = 0 THEN 0 ELSE f[i - 1] + Len(b[i - 1])]
           sum == CHOOSE f : fits(f)
<1>1. \A i \in 1..Capacity : Len(b[i - 1]) \in Nat /\ i \in 0..Capacity /\ i # 0
  <2>1. \A i \in 1..Capacity : i - 1 \in H!Ids /\ i \in 0..Capacity /\ i # 0
    BY DEF H!Ids
  <2> QED
    BY <2>1
<1>2. step \in [Nat \X (1..Capacity) -> Nat] /\ 0 \in Nat
  BY <1>1
<1>3. PICK f : IsWalk(f, Capacity, Nat, 0, step)
  <2> HIDE DEF step
  <2> QED
    BY <1>2, WalkExists
<1>4. ASSUME NEW i \in 1..Capacity PROVE f[i] = f[i - 1] + Len(b[i - 1])
  <2>1. <<f[i - 1], i>> \in Nat \X (1..Capacity)
    <3>1. i - 1 \in 0..Capacity
      OBVIOUS
    <3> QED
      BY <1>3, <3>1 DEF IsWalk
  <2>2. f[i] = step[<<f[i - 1], i>>]
    BY <1>3 DEF IsWalk
  <2> QED
    BY <2>1, <2>2
<1>5. fits(f)
  <2>1. \A i \in 0..Capacity : f[i] = IF i = 0 THEN 0 ELSE f[i - 1] + Len(b[i - 1])
    <3>1. \A i \in 0..Capacity : i = 0 \/ i \in 1..Capacity
      OBVIOUS
    <3>2. f[0] = 0
      BY <1>3 DEF IsWalk
    <3> QED
      BY <1>4, <3>1, <3>2
  <2> QED
    BY <1>3, <2>1 DEF IsWalk
<1>6. fits(sum)
  <2> HIDE DEF fits
  <2> QED
    BY <1>5
<1>7. Total(b) = sum[Capacity]
  BY Zenon DEF Total
<1> HIDE DEF sum
<1>8. \A i \in 0..Capacity : sum[i] = f[i]
  <2>1. sum[0] = f[0]
    BY <1>5, <1>6
  <2>2. \A i \in 1..Capacity : sum[i] = sum[i - 1] + Len(b[i - 1])
    BY <1>1, <1>6
  <2>3. Alike(sum, f, Capacity)
    BY <1>4, <2>1, <2>2 DEF Alike
  <2> QED
    BY <2>3, WalksAgree
<1>9. Capacity \in 0..Capacity
  OBVIOUS
<1>10. TotalSteps(f, b)
  BY <1>3, <1>4, <1>7, <1>8, <1>9 DEF IsWalk, TotalSteps
<1> QED
  BY <1>10

LEMMA FoundWalk ==
  ASSUME Capacity \in Nat, NEW b \in [H!Ids -> Seq(H!Entry)], NEW k
  PROVE  \E f : FoundSteps(f, b, k)
<1> DEFINE L == Seq(Items)
           step == [x \in L \X (1..Capacity) |-> x[1] \o H!Own(b[x[2] - 1], k)]
           fits(f) == f = [i \in 0..Capacity |-> IF i = 0 THEN <<>> ELSE f[i - 1] \o H!Own(b[i - 1], k)]
           found == CHOOSE f : fits(f)
<1>1. \A i \in 1..Capacity : H!Own(b[i - 1], k) \in L /\ i \in 0..Capacity /\ i # 0
  <2>1. \A i \in 1..Capacity : i - 1 \in H!Ids /\ i \in 0..Capacity /\ i # 0
    BY DEF H!Ids
  <2> QED
    BY <2>1, OwnOf
<1>2. step \in [L \X (1..Capacity) -> L] /\ <<>> \in L
  BY <1>1
<1>3. PICK f : IsWalk(f, Capacity, L, <<>>, step)
  <2> HIDE DEF step, L
  <2> QED
    BY <1>2, WalkExists
<1>4. ASSUME NEW i \in 1..Capacity PROVE f[i] = f[i - 1] \o H!Own(b[i - 1], k)
  <2>1. <<f[i - 1], i>> \in L \X (1..Capacity)
    <3>1. i - 1 \in 0..Capacity
      OBVIOUS
    <3> QED
      BY <1>3, <3>1 DEF IsWalk
  <2>2. f[i] = step[<<f[i - 1], i>>]
    BY <1>3 DEF IsWalk
  <2> QED
    BY <2>1, <2>2
<1>5. fits(f)
  <2>1. \A i \in 0..Capacity : f[i] = IF i = 0 THEN <<>> ELSE f[i - 1] \o H!Own(b[i - 1], k)
    <3>1. \A i \in 0..Capacity : i = 0 \/ i \in 1..Capacity
      OBVIOUS
    <3>2. f[0] = <<>>
      BY <1>3 DEF IsWalk
    <3> QED
      BY <1>4, <3>1, <3>2
  <2> QED
    BY <1>3, <2>1 DEF IsWalk
<1>6. fits(found)
  <2> HIDE DEF fits
  <2> QED
    BY <1>5
<1>7. Found(b, k) = found[Capacity]
  BY Zenon DEF Found
<1> HIDE DEF found
<1>8. \A i \in 0..Capacity : found[i] = f[i]
  <2>1. found[0] = f[0]
    BY <1>5, <1>6
  <2>2. \A i \in 1..Capacity : found[i] = found[i - 1] \o H!Own(b[i - 1], k)
    BY <1>1, <1>6
  <2>3. Alike(found, f, Capacity)
    BY <1>4, <2>1, <2>2 DEF Alike
  <2> QED
    BY <2>3, WalksAgree
<1>9. Capacity \in 0..Capacity
  OBVIOUS
<1>10. FoundSteps(f, b, k)
  BY <1>3, <1>4, <1>7, <1>8, <1>9 DEF IsWalk, FoundSteps
<1> QED
  BY <1>10

LEMMA TotalChange ==
  ASSUME Capacity \in Nat, NEW b \in [H!Ids -> Seq(H!Entry)], NEW j \in H!Ids, NEW s \in Seq(H!Entry)
  PROVE  /\ Total(b) \in Nat
         /\ Total([b EXCEPT ![j] = s]) = Total(b) + (Len(s) - Len(b[j]))
<1> DEFINE c == [b EXCEPT ![j] = s]
           d == Len(s) - Len(b[j])
<1>1. /\ c \in [H!Ids -> Seq(H!Entry)] /\ c[j] = s /\ \A i \in H!Ids : i # j => c[i] = b[i]
      /\ Len(s) \in Nat /\ Len(b[j]) \in Nat /\ j \in 0..(Capacity - 1)
  BY DEF H!Ids
<1> HIDE DEF c
<1>2. PICK f : TotalSteps(f, b)
  BY TotalWalk
<1>3. PICK g : TotalSteps(g, c)
  BY <1>1, TotalWalk
<1> DEFINE u == [i \in 0..Capacity |-> IF i > j THEN f[i] + d ELSE f[i]]
<1>4. Alike(g, u, Capacity)
  <2>1. g[0] = 0 /\ u[0] = 0
    <3>1. 0 \in 0..Capacity /\ ~(0 > j)
      BY <1>1
    <3> QED
      BY <1>2, <1>3, <3>1 DEF TotalSteps
  <2>2. ASSUME NEW i \in 1..Capacity, g[i - 1] = u[i - 1] PROVE g[i] = u[i]
    <3>1. /\ u[i] = (IF i > j THEN f[i] + d ELSE f[i])
          /\ u[i - 1] = (IF i - 1 > j THEN f[i - 1] + d ELSE f[i - 1])
          /\ i - 1 \in H!Ids /\ i \in Int /\ j \in Int /\ f[i - 1] \in Nat /\ f[i] \in Nat
      <4>1. i - 1 \in H!Ids /\ i \in Int /\ j \in Int /\ i \in 0..Capacity /\ i - 1 \in 0..Capacity
        BY <1>1 DEF H!Ids
      <4>2. f[i - 1] \in Nat /\ f[i] \in Nat
        BY <1>2, <4>1 DEF TotalSteps
      <4>3. \A x \in 0..Capacity : u[x] = IF x > j THEN f[x] + d ELSE f[x]
        OBVIOUS
      <4> HIDE DEF u, d
      <4> QED
        BY <4>1, <4>2, <4>3
    <3>2. g[i] = g[i - 1] + Len(c[i - 1]) /\ f[i] = f[i - 1] + Len(b[i - 1])
      BY <1>2, <1>3 DEF TotalSteps
    <3> HIDE DEF u
    <3>3. CASE i - 1 = j
      <4>1. i > j /\ ~(i - 1 > j)
        BY <3>1, <3>3
      <4>2. c[i - 1] = s /\ b[i - 1] = b[j]
        BY <1>1, <3>3
      <4> QED
        BY <1>1, <2>2, <3>1, <3>2, <4>1, <4>2
    <3>4. CASE i - 1 # j
      <4>1. i > j <=> i - 1 > j
        BY <3>1, <3>4
      <4>2. c[i - 1] = b[i - 1] /\ Len(b[i - 1]) \in Nat
        BY <1>1, <3>1, <3>4
      <4> QED
        BY <1>1, <2>2, <3>1, <3>2, <4>1, <4>2
    <3> QED
      BY <3>3, <3>4
  <2> HIDE DEF u
  <2> QED
    BY <2>1, <2>2 DEF Alike
<1>5. g[Capacity] = u[Capacity]
  <2> HIDE DEF u
  <2>1. Capacity \in 0..Capacity
    OBVIOUS
  <2> QED
    BY <1>4, <2>1, WalksAgree
<1>6. u[Capacity] = f[Capacity] + d
  <2>1. Capacity \in 0..Capacity /\ Capacity > j
    BY <1>1
  <2> QED
    BY <2>1
<1>7. f[Capacity] \in Nat
  <2>1. Capacity \in 0..Capacity
    OBVIOUS
  <2> QED
    BY <1>2, <2>1 DEF TotalSteps
<1> QED
  BY <1>2, <1>3, <1>5, <1>6, <1>7 DEF TotalSteps, c

LEMMA EmptyBuckets ==
  ASSUME Capacity \in Nat
  PROVE  LET b == [i \in H!Ids |-> <<>>]
         IN b \in [H!Ids -> Seq(H!Entry)] /\ Total(b) = 0 /\ \A k : Found(b, k) = <<>>
<1> DEFINE b == [i \in H!Ids |-> <<>>]
<1>1. b \in [H!Ids -> Seq(H!Entry)] /\ \A i \in 1..Capacity : b[i - 1] = <<>>
  BY DEF H!Ids
<1> HIDE DEF b
<1>2. Capacity \in 0..Capacity
  OBVIOUS
<1>3. Total(b) = 0
  <2> DEFINE u == [i \in 0..Capacity |-> 0]
  <2>1. PICK f : TotalSteps(f, b)
    BY <1>1, TotalWalk
  <2>2. Alike(f, u, Capacity)
    <3>1. u[0] = 0 /\ \A i \in 1..Capacity : u[i - 1] = 0 /\ u[i] = 0 /\ Len(b[i - 1]) = 0
      BY <1>1
    <3> HIDE DEF u
    <3>2. f[0] = 0 /\ \A i \in 1..Capacity : f[i] = f[i - 1] + Len(b[i - 1])
      BY <2>1 DEF TotalSteps
    <3>3. \A i \in 1..Capacity : f[i - 1] = u[i - 1] => f[i] = u[i]
      BY <3>1, <3>2
    <3> QED
      BY <3>1, <3>2, <3>3 DEF Alike
  <2>3. f[Capacity] = u[Capacity]
    <3> HIDE DEF u
    <3> QED
      BY <1>2, <2>2, WalksAgree
  <2> QED
    BY <1>2, <2>1, <2>3 DEF TotalSteps
<1>4. ASSUME NEW k PROVE Found(b, k) = <<>>
  <2> DEFINE u == [i \in 0..Capacity |-> <<>>]
  <2>1. PICK f : FoundSteps(f, b, k)
    BY <1>1, FoundWalk
  <2>2. Alike(f, u, Capacity)
    <3>1. u[0] = <<>> /\ \A i \in 1..Capacity : u[i - 1] = <<>> /\ u[i] = <<>> /\ H!Own(b[i - 1], k) = <<>>
      BY <1>1, OwnOf
    <3>2. <<>> \o <<>> = <<>>
      OBVIOUS
    <3> HIDE DEF u
    <3> QED
      BY <2>1, <3>1, <3>2 DEF FoundSteps, Alike
  <2>3. f[Capacity] = u[Capacity]
    <3> HIDE DEF u
    <3> QED
      BY <1>2, <2>2, WalksAgree
  <2> QED
    BY <1>2, <2>1, <2>3 DEF FoundSteps
<1> QED
  BY <1>1, <1>3, <1>4 DEF b

\* When the entries are where the hash function wants them, the values of a key
\* are those in its bucket.
LEMMA FoundIs ==
  ASSUME Capacity \in Nat, NEW b \in [H!Ids -> Seq(H!Entry)], NEW k, NEW j \in 0..Capacity,
         \A i \in H!Ids : i # j => H!Own(b[i], k) = <<>>
  PROVE  Found(b, k) = IF j \in H!Ids THEN H!Own(b[j], k) ELSE <<>>
<1> DEFINE all == IF j \in H!Ids THEN H!Own(b[j], k) ELSE <<>>
           u == [i \in 0..Capacity |-> IF i > j THEN all ELSE <<>>]
<1>1. PICK f : FoundSteps(f, b, k)
  BY FoundWalk
<1>2. all \in Seq(Items)
  <2>1. \A i \in H!Ids : H!Own(b[i], k) \in Seq(Items)
    BY OwnOf
  <2>2. <<>> \in Seq(Items)
    OBVIOUS
  <2> QED
    BY <2>1, <2>2
<1>3. Alike(f, u, Capacity)
  <2>1. f[0] = <<>> /\ u[0] = <<>>
    BY <1>1 DEF FoundSteps
  <2>2. ASSUME NEW i \in 1..Capacity, f[i - 1] = u[i - 1] PROVE f[i] = u[i]
    <3>1. /\ u[i] = (IF i > j THEN all ELSE <<>>) /\ u[i - 1] = (IF i - 1 > j THEN all ELSE <<>>)
          /\ i - 1 \in H!Ids /\ i \in Int /\ j \in Int
      BY DEF H!Ids
    <3>2. f[i] = f[i - 1] \o H!Own(b[i - 1], k)
      BY <1>1 DEF FoundSteps
    <3>3. H!Own(b[i - 1], k) \in Seq(Items)
      BY <3>1, OwnOf
    <3>4. \A s \in Seq(Items) : s \o <<>> = s /\ <<>> \o s = s
      OBVIOUS
    <3>5. CASE i - 1 = j
      <4>1. i > j /\ ~(i - 1 > j)
        BY <3>1, <3>5
      <4>2. H!Own(b[i - 1], k) = all
        BY <3>1, <3>5
      <4> HIDE DEF all, u
      <4> QED
        BY <1>2, <2>2, <3>1, <3>2, <3>4, <4>1, <4>2
    <3>6. CASE i - 1 # j
      <4>1. i > j <=> i - 1 > j
        BY <3>1, <3>6
      <4>2. H!Own(b[i - 1], k) = <<>>
        BY <3>1, <3>6
      <4> HIDE DEF all, u
      <4>3. <<>> \in Seq(Items)
        OBVIOUS
      <4> QED
        BY <1>2, <2>2, <3>1, <3>2, <3>4, <4>1, <4>2, <4>3
    <3> QED
      BY <3>5, <3>6
  <2> HIDE DEF u
  <2> QED
    BY <2>1, <2>2 DEF Alike
<1>4. f[Capacity] = u[Capacity]
  <2> HIDE DEF u
  <2>1. Capacity \in 0..Capacity
    OBVIOUS
  <2> QED
    BY <1>3, <2>1, WalksAgree
<1>5. u[Capacity] = all
  <2>1. Capacity \in 0..Capacity /\ (j \in H!Ids <=> Capacity > j)
    BY DEF H!Ids
  <2> HIDE DEF u
  <2>2. u[Capacity] = IF Capacity > j THEN all ELSE <<>>
    BY <2>1 DEF u
  <2> QED
    BY <2>1, <2>2
<1> HIDE DEF all, u
<1>6. Found(b, k) = all
  BY <1>1, <1>4, <1>5 DEF FoundSteps
<1> QED
  BY <1>6 DEF all

-------------------------------------------------------------------------------
\* Every entry is in the bucket of its key; the insertion under way is of an
\* entry that has a bucket, and has allocated what its place in the call says.
TableInv ==
  /\ hash \in [Keys -> 0..Capacity] /\ buckets \in [H!Ids -> Seq(H!Entry)]
  /\ \A k \in Keys : \A i \in H!Ids : i # hash[k] => H!Own(buckets[i], k) = <<>>
  /\ tpc \in {"idle", "node", "key", "value", "destroyed"} /\ targ \in H!Entry \cup {Null}
  /\ tpc \in {"node", "key", "value"} => targ \in H!Entry /\ hash[targ.key] \in H!Ids
  /\ mem \in [{"node", "key", "value"} -> Nat]
  /\ tpc # "destroyed" =>
       /\ mem["node"] = Total(buckets) + IF tpc \in {"key", "value"} THEN 1 ELSE 0
       /\ mem["key"] = Total(buckets) + IF tpc = "value" THEN 1 ELSE 0
       /\ mem["value"] = Total(buckets)
  /\ tpc = "destroyed" => \A part \in {"node", "key", "value"} : mem[part] = 0

LEMMA ContentsAre ==
  ASSUME Capacity \in Nat, TableInv, NEW k \in Keys
  PROVE  H!Contents[k] = IF hash[k] \in H!Ids THEN H!Own(buckets[hash[k]], k) ELSE <<>>
<1>1. H!Contents[k] = Found(buckets, k)
  BY Zenon DEF H!Contents, H!ValuesOf, Found
<1>2. hash[k] \in 0..Capacity /\ buckets \in [H!Ids -> Seq(H!Entry)]
      /\ \A i \in H!Ids : i # hash[k] => H!Own(buckets[i], k) = <<>>
  BY DEF TableInv
<1> QED
  BY <1>1, <1>2, FoundIs

LEMMA ContentsBecome ==
  ASSUME Capacity \in Nat, TableInv', NEW k \in Keys
  PROVE  (H!Contents')[k] = IF hash'[k] \in H!Ids THEN H!Own(buckets'[hash'[k]], k) ELSE <<>>
<1>1. (H!Contents')[k] = Found(buckets', k)
  BY Zenon DEF H!Contents, H!ValuesOf, Found
<1>2. hash'[k] \in 0..Capacity /\ buckets' \in [H!Ids -> Seq(H!Entry)]
      /\ \A i \in H!Ids : i # hash'[k] => H!Own(buckets'[i], k) = <<>>
  BY DEF TableInv
<1> QED
  BY <1>1, <1>2, FoundIs

\* The steps that leave the buckets alone.
LEMMA TableKeeps ==
  ASSUME Capacity \in Nat, Null \notin H!Entry, TableInv, UNCHANGED <<hash, buckets>>,
         \/ UNCHANGED H!vars \/ H!AllocNode \/ H!AllocKey \/ H!GiveUp
         \/ \E k \in Keys, v \in Items : H!Insert(k, v)
         \/ \E k \in Keys : H!InsertRefused(k) \/ H!DeleteRefused(k)
  PROVE  TableInv' /\ H!Contents' = H!Contents /\ (UNCHANGED tret \/ tret' < 0)
<1>1. H!Contents' = H!Contents
  BY DEF H!Contents, H!ValuesOf
<1> DEFINE N == Total(buckets)
<1>2. N \in Nat
  <2>1. mem["value"] \in Nat /\ (tpc # "destroyed" => mem["value"] = N)
    BY DEF TableInv
  <2>2. CASE Capacity = 0
    <3>1. PICK f : TotalSteps(f, buckets)
      BY TotalWalk DEF TableInv
    <3> QED
      BY <2>2, <3>1 DEF TotalSteps
  <2>3. CASE Capacity # 0
    <3>1. 0 \in H!Ids
      BY <2>3 DEF H!Ids
    <3>2. <<>> \in Seq(H!Entry)
      OBVIOUS
    <3> QED
      BY <3>1, <3>2, TotalChange DEF TableInv
  <2> QED
    BY <2>2, <2>3
<1>3. Total(buckets') = N
  OBVIOUS
<1> HIDE DEF N
<1>4. /\ hash' \in [Keys -> 0..Capacity] /\ buckets' \in [H!Ids -> Seq(H!Entry)]
      /\ \A k \in Keys : \A i \in H!Ids : i # hash'[k] => H!Own(buckets'[i], k) = <<>>
  BY DEF TableInv
<1>5. /\ tpc' \in {"idle", "node", "key", "value", "destroyed"} /\ targ' \in H!Entry \cup {Null}
      /\ tpc' \in {"node", "key", "value"} => targ' \in H!Entry /\ hash'[targ'.key] \in H!Ids
  <2>1. CASE \E k \in Keys, v \in Items : H!Insert(k, v)
    BY <2>1 DEF H!Insert, H!Entry
  <2>2. CASE \E k \in Keys : H!InsertRefused(k) \/ H!DeleteRefused(k)
    BY <2>2 DEF TableInv, H!InsertRefused, H!DeleteRefused
  <2>3. CASE UNCHANGED H!vars \/ H!AllocNode \/ H!AllocKey \/ H!GiveUp
    BY <2>3 DEF TableInv, H!vars, H!AllocNode, H!AllocKey, H!GiveUp
  <2> QED
    BY <2>1, <2>2, <2>3
<1>6. /\ mem' \in [{"node", "key", "value"} -> Nat]
      /\ tpc' # "destroyed" =>
           /\ mem'["node"] = N + IF tpc' \in {"key", "value"} THEN 1 ELSE 0
           /\ mem'["key"] = N + IF tpc' = "value" THEN 1 ELSE 0
           /\ mem'["value"] = N
      /\ tpc' = "destroyed" => \A part \in {"node", "key", "value"} : mem'[part] = 0
  <2>0. /\ mem \in [{"node", "key", "value"} -> Nat]
        /\ tpc # "destroyed" =>
             /\ mem["node"] = N + IF tpc \in {"key", "value"} THEN 1 ELSE 0
             /\ mem["key"] = N + IF tpc = "value" THEN 1 ELSE 0
             /\ mem["value"] = N
        /\ tpc = "destroyed" => \A part \in {"node", "key", "value"} : mem[part] = 0
    BY DEF TableInv, N
  <2>1. CASE UNCHANGED H!vars
    BY <2>0, <2>1 DEF H!vars
  <2>2. CASE H!AllocNode
    <3>1. tpc = "node" /\ tpc' = "key" /\ mem' = [mem EXCEPT !["node"] = @ + 1]
      BY <2>2 DEF H!AllocNode
    <3> QED
      BY <1>2, <2>0, <3>1
  <2>3. CASE H!AllocKey
    <3>1. tpc = "key" /\ tpc' = "value" /\ mem' = [mem EXCEPT !["key"] = @ + 1]
      BY <2>3 DEF H!AllocKey
    <3> QED
      BY <1>2, <2>0, <3>1
  <2>4. CASE H!GiveUp
    <3>1. tpc' = "idle" /\ tpc \in {"node", "key", "value"}
      BY <2>4 DEF H!GiveUp
    <3>2. CASE tpc = "node"
      <4>1. mem' = mem
        BY <2>4, <3>2 DEF H!GiveUp
      <4> QED
        BY <2>0, <3>1, <3>2, <4>1
    <3>3. CASE tpc = "key"
      <4>1. mem' = [mem EXCEPT !["node"] = @ - 1]
        BY <2>4, <3>3 DEF H!GiveUp
      <4> QED
        BY <1>2, <2>0, <3>1, <3>3, <4>1
    <3>4. CASE tpc = "value"
      <4>1. mem' = [mem EXCEPT !["key"] = @ - 1, !["node"] = @ - 1]
        BY <2>4, <3>4 DEF H!GiveUp
      <4> QED
        BY <1>2, <2>0, <3>1, <3>4, <4>1
    <3> QED
      BY <3>1, <3>2, <3>3, <3>4
  <2>5. CASE \E k \in Keys, v \in Items : H!Insert(k, v)
    <3>1. tpc = "idle" /\ tpc' = "node" /\ mem' = mem
      BY <2>5 DEF H!Insert
    <3> QED
      BY <1>2, <2>0, <3>1
  <2>6. CASE \E k \in Keys : H!InsertRefused(k) \/ H!DeleteRefused(k)
    <3>1. tpc' = tpc /\ mem' = mem
      BY <2>6 DEF H!InsertRefused, H!DeleteRefused
    <3> QED
      BY <2>0, <3>1
  <2> QED
    BY <2>1, <2>2, <2>3, <2>4, <2>5, <2>6
<1>7. TableInv'
  BY <1>3, <1>4, <1>5, <1>6 DEF TableInv
<1>8. UNCHANGED tret \/ tret' < 0
  BY DEF H!vars, H!AllocNode, H!AllocKey, H!GiveUp, H!Insert, H!InsertRefused, H!DeleteRefused
<1> QED
  BY <1>1, <1>7, <1>8

LEMMA TableTakes ==
  ASSUME Capacity \in Nat, TableInv, H!AllocValue
  PROVE  TableInv' /\ \E k \in Keys, v \in Items : H!Abstract!AInsert(k, v)
<1> DEFINE j == hash[targ.key]
           s == Append(buckets[j], targ)
<1>1. /\ targ \in H!Entry /\ targ.key \in Keys /\ targ.value \in Items /\ j \in H!Ids
      /\ tpc = "value" /\ tpc' = "idle" /\ targ' = Null /\ hash' = hash
      /\ buckets' = [buckets EXCEPT ![j] = s] /\ mem' = [mem EXCEPT !["value"] = @ + 1]
  <2>1. targ \in H!Entry /\ j \in H!Ids
    BY DEF H!AllocValue, TableInv
  <2> QED
    BY <2>1 DEF H!AllocValue, H!Entry
<1>2. buckets \in [H!Ids -> Seq(H!Entry)] /\ hash \in [Keys -> 0..Capacity]
  BY DEF TableInv
<1>3. s \in Seq(H!Entry) /\ Len(s) = Len(buckets[j]) + 1 /\ Len(buckets[j]) \in Nat
  BY <1>1, <1>2
<1>4. Total(buckets) \in Nat /\ Total(buckets') = Total(buckets) + 1
  <2>1. /\ Total(buckets) \in Nat
        /\ Total([buckets EXCEPT ![j] = s]) = Total(buckets) + (Len(s) - Len(buckets[j]))
    <3> HIDE DEF s, j
    <3> QED
      BY <1>1, <1>2, <1>3, TotalChange
  <2> QED
    BY <1>1, <1>3, <2>1
<1>5. \A k \in Keys : H!Own(s, k) = IF targ.key = k THEN Append(H!Own(buckets[j], k), targ.value)
                                    ELSE H!Own(buckets[j], k)
  BY <1>1, <1>2, OwnOf
<1> HIDE DEF s
<1>6. /\ buckets' \in [H!Ids -> Seq(H!Entry)]
      /\ \A i \in H!Ids : buckets'[i] = IF i = j THEN s ELSE buckets[i]
  BY <1>1, <1>2, <1>3
<1>7. \A k \in Keys : \A i \in H!Ids : i # hash'[k] => H!Own(buckets'[i], k) = <<>>
  <2> SUFFICES ASSUME NEW k \in Keys, NEW i \in H!Ids, i # hash[k] PROVE H!Own(buckets'[i], k) = <<>>
    BY <1>1
  <2>1. H!Own(buckets[i], k) = <<>>
    BY DEF TableInv
  <2>2. CASE i = j
    <3>1. targ.key # k
      BY <2>2
    <3> QED
      BY <1>5, <1>6, <2>1, <2>2, <3>1
  <2>3. CASE i # j
    BY <1>6, <2>1, <2>3
  <2> QED
    BY <2>2, <2>3
<1>8. /\ mem' \in [{"node", "key", "value"} -> Nat]
      /\ mem'["node"] = Total(buckets') /\ mem'["key"] = Total(buckets') /\ mem'["value"] = Total(buckets')
  <2>1. /\ mem \in [{"node", "key", "value"} -> Nat] /\ mem["node"] = Total(buckets) + 1
        /\ mem["key"] = Total(buckets) + 1 /\ mem["value"] = Total(buckets)
    BY <1>1 DEF TableInv
  <2>2. mem' = [mem EXCEPT !["value"] = @ + 1]
    BY <1>1
  <2> QED
    BY <1>4, <2>1, <2>2
<1>9. TableInv'
  <2>1. mem'["node"] = Total(buckets') + 0 /\ mem'["key"] = Total(buckets') + 0
    BY <1>4, <1>8
  <2> QED
    BY <1>1, <1>2, <1>6, <1>7, <1>8, <2>1 DEF TableInv
<1>10. H!Abstract!AInsert(targ.key, targ.value)
  <2> DEFINE M == [H!Contents EXCEPT ![targ.key] = Append(@, targ.value)]
  <2>1. DOMAIN H!Contents = Keys /\ H!Contents = [k \in Keys |-> H!Contents[k]]
    BY DEF H!Contents
  <2>2. H!Contents' = [k \in Keys |-> (H!Contents')[k]]
    BY DEF H!Contents
  <2>3. ASSUME NEW k \in Keys PROVE (H!Contents')[k] = M[k]
    <3>1. H!Contents[k] = IF hash[k] \in H!Ids THEN H!Own(buckets[hash[k]], k) ELSE <<>>
      BY ContentsAre
    <3>2. (H!Contents')[k] = IF hash[k] \in H!Ids THEN H!Own(buckets'[hash[k]], k) ELSE <<>>
      BY <1>1, <1>9, ContentsBecome
    <3>3. M[k] = IF k = targ.key THEN Append(H!Contents[k], targ.value) ELSE H!Contents[k]
      BY <1>1, <2>1
    <3> HIDE DEF M
    <3>4. CASE k = targ.key
      <4>1. hash[k] = j /\ j \in H!Ids
        BY <1>1, <3>4
      <4> HIDE DEF j
      <4> QED
        BY <1>5, <1>6, <3>1, <3>2, <3>3, <3>4, <4>1
    <3>5. CASE k # targ.key
      <4>1. hash[k] \in H!Ids => H!Own(buckets'[hash[k]], k) = H!Own(buckets[hash[k]], k)
        BY <1>5, <1>6, <3>5
      <4> QED
        BY <3>1, <3>2, <3>3, <3>5, <4>1
    <3> QED
      BY <3>4, <3>5
  <2>4. M = [k \in Keys |-> M[k]]
    BY <2>1
  <2> HIDE DEF M
  <2>5. H!Contents' = M
    BY <2>2, <2>3, <2>4
  <2> QED
    BY <2>5 DEF H!Abstract!AInsert, H!AllocValue, M
<1> QED
  BY <1>1, <1>9, <1>10

LEMMA TableDrops ==
  ASSUME Capacity \in Nat, TableInv, NEW x \in Keys, H!Delete(x)
  PROVE  TableInv' /\ H!Abstract!ADelete(x)
<1> DEFINE j == hash[x]
           s == H!Without(buckets[j], x)
<1>1. /\ tpc = "idle" /\ tpc' = "idle" /\ targ' = targ /\ hash' = hash /\ j \in H!Ids
      /\ buckets' = [buckets EXCEPT ![j] = s]
  BY DEF H!Delete
<1>2. buckets \in [H!Ids -> Seq(H!Entry)] /\ hash \in [Keys -> 0..Capacity] /\ targ \in H!Entry \cup {Null}
  BY DEF TableInv
<1>3. s \in Seq(H!Entry) /\ \A k : H!Own(s, k) = IF k = x THEN <<>> ELSE H!Own(buckets[j], k)
  BY <1>1, <1>2, WithoutOf
<1>4. /\ Total(buckets) \in Nat /\ Total(buckets') \in Nat
      /\ Total(buckets') = Total(buckets) + (Len(s) - Len(buckets[j]))
      /\ Len(s) \in Nat /\ Len(buckets[j]) \in Nat
  <2> HIDE DEF s, j
  <2>1. /\ Total(buckets) \in Nat
        /\ Total([buckets EXCEPT ![j] = s]) = Total(buckets) + (Len(s) - Len(buckets[j]))
    BY <1>1, <1>2, <1>3, TotalChange
  <2>2. buckets' \in [H!Ids -> Seq(H!Entry)]
    BY <1>1, <1>2, <1>3
  <2>3. Total([buckets' EXCEPT ![j] = s]) = Total([buckets EXCEPT ![j] = s]) /\ Total(buckets') \in Nat
    <3>1. [buckets' EXCEPT ![j] = s] = [buckets EXCEPT ![j] = s]
      BY <1>1, <1>2
    <3> DEFINE b == buckets'
    <3> HIDE DEF b
    <3>2. Total(b) \in Nat
      BY <1>1, <1>3, <2>2, TotalChange DEF b
    <3> QED
      BY <3>1, <3>2 DEF b
  <2> QED
    BY <1>1, <1>2, <1>3, <2>1, <2>3
<1>5. mem' = [part \in DOMAIN mem |-> mem[part] - (Len(buckets[j]) - Len(s))]
  <2>1. buckets'[j] = s
    BY <1>1, <1>2
  <2> QED
    BY <1>1, <2>1 DEF H!Delete, H!Freed
<1> HIDE DEF s
<1>6. /\ buckets' \in [H!Ids -> Seq(H!Entry)]
      /\ \A i \in H!Ids : buckets'[i] = IF i = j THEN s ELSE buckets[i]
  BY <1>1, <1>2, <1>3
<1>7. \A k \in Keys : \A i \in H!Ids : i # hash'[k] => H!Own(buckets'[i], k) = <<>>
  <2> SUFFICES ASSUME NEW k \in Keys, NEW i \in H!Ids, i # hash[k] PROVE H!Own(buckets'[i], k) = <<>>
    BY <1>1
  <2>1. H!Own(buckets[i], k) = <<>>
    BY DEF TableInv
  <2> QED
    BY <1>3, <1>6, <2>1
<1>8. /\ mem' \in [{"node", "key", "value"} -> Nat]
      /\ mem'["node"] = Total(buckets') /\ mem'["key"] = Total(buckets') /\ mem'["value"] = Total(buckets')
  <2>1. /\ mem \in [{"node", "key", "value"} -> Nat] /\ mem["node"] = Total(buckets)
        /\ mem["key"] = Total(buckets) /\ mem["value"] = Total(buckets)
    <3>1. mem["node"] = Total(buckets) + 0 /\ mem["key"] = Total(buckets) + 0
      BY <1>1 DEF TableInv
    <3> QED
      BY <1>1, <1>4, <3>1 DEF TableInv
  <2>2. \A part \in {"node", "key", "value"} : mem'[part] = Total(buckets')
    BY <1>4, <1>5, <2>1
  <2> QED
    BY <1>4, <1>5, <2>1, <2>2
<1>9. TableInv'
  <2>1. mem'["node"] = Total(buckets') + 0 /\ mem'["key"] = Total(buckets') + 0
    BY <1>4, <1>8
  <2> QED
    BY <1>1, <1>2, <1>6, <1>7, <1>8, <2>1 DEF TableInv
<1>10. H!Abstract!ADelete(x)
  <2> DEFINE M == [H!Contents EXCEPT ![x] = <<>>]
  <2>1. DOMAIN H!Contents = Keys /\ H!Contents = [k \in Keys |-> H!Contents[k]]
    BY DEF H!Contents
  <2>2. H!Contents' = [k \in Keys |-> (H!Contents')[k]]
    BY DEF H!Contents
  <2>3. ASSUME NEW k \in Keys PROVE (H!Contents')[k] = M[k]
    <3>1. H!Contents[k] = IF hash[k] \in H!Ids THEN H!Own(buckets[hash[k]], k) ELSE <<>>
      BY ContentsAre
    <3>2. (H!Contents')[k] = IF hash[k] \in H!Ids THEN H!Own(buckets'[hash[k]], k) ELSE <<>>
      BY <1>1, <1>9, ContentsBecome
    <3>3. M[k] = IF k = x THEN <<>> ELSE H!Contents[k]
      BY <2>1
    <3> HIDE DEF M
    <3>4. CASE k = x
      BY <1>1, <1>3, <1>6, <3>2, <3>3, <3>4
    <3>5. CASE k # x
      <4>1. hash[k] \in H!Ids => H!Own(buckets'[hash[k]], k) = H!Own(buckets[hash[k]], k)
        BY <1>3, <1>6, <3>5
      <4> QED
        BY <3>1, <3>2, <3>3, <3>5, <4>1
    <3> QED
      BY <3>4, <3>5
  <2>4. M = [k \in Keys |-> M[k]]
    BY <2>1
  <2> HIDE DEF M
  <2>5. H!Contents' = M
    BY <2>2, <2>3, <2>4
  <2> QED
    <3>1. tret' < 0
      BY DEF H!Delete
    <3> QED
      BY <2>5, <3>1 DEF H!Abstract!ADelete, M
<1> QED
  BY <1>9, <1>10

LEMMA TableEnds ==
  ASSUME Capacity \in Nat, TableInv, H!Destroy
  PROVE  TableInv' /\ H!Abstract!ADestroy
<1>1. /\ tpc = "idle" /\ tpc' = "destroyed" /\ targ' = targ /\ hash' = hash
      /\ buckets' = [i \in H!Ids |-> <<>>] /\ mem' = [part \in DOMAIN mem |-> mem[part] - H!Count]
  BY DEF H!Destroy, H!Freed
<1>2. buckets' \in [H!Ids -> Seq(H!Entry)] /\ \A k : Found(buckets', k) = <<>>
  BY <1>1, EmptyBuckets
<1>3. H!Count = Total(buckets)
  BY Zenon DEF H!Count, Total
<1>4. mem' \in [{"node", "key", "value"} -> Nat] /\ \A part \in {"node", "key", "value"} : mem'[part] = 0
  <2>1. mem \in [{"node", "key", "value"} -> Nat] /\ mem["value"] = Total(buckets)
        /\ mem["node"] = Total(buckets) + 0 /\ mem["key"] = Total(buckets) + 0
    BY <1>1 DEF TableInv
  <2>2. \A part \in {"node", "key", "value"} : mem'[part] = 0
    BY <1>1, <1>3, <2>1
  <2> QED
    BY <1>1, <2>1, <2>2
<1>5. \A k \in Keys : \A i \in H!Ids : H!Own(buckets'[i], k) = <<>>
  BY <1>1, OwnOf
<1>6. TableInv'
  BY <1>1, <1>2, <1>4, <1>5 DEF TableInv
<1>7. H!Contents' = [k \in Keys |-> <<>>]
  <2>1. H!Contents' = [k \in Keys |-> (H!Contents')[k]]
    BY DEF H!Contents
  <2>2. ASSUME NEW k \in Keys PROVE (H!Contents')[k] = <<>>
    <3>1. (H!Contents')[k] = Found(buckets', k)
      BY Zenon DEF H!Contents, H!ValuesOf, Found
    <3> QED
      BY <1>2, <3>1
  <2> HIDE DEF H!Contents
  <2> QED
    BY <2>1, <2>2
<1> QED
  BY <1>6, <1>7 DEF H!Abstract!ADestroy, H!Destroy

LEMMA TableStep ==
  ASSUME Capacity \in Nat, Null \notin H!Entry, TableInv, [H!Next]_(H!vars)
  PROVE  TableInv' /\ [H!Abstract!ANext]_<<H!Contents, tret>>
<1>1. CASE \/ UNCHANGED H!vars \/ H!AllocNode \/ H!AllocKey \/ H!GiveUp
           \/ \E k \in Keys, v \in Items : H!Insert(k, v)
           \/ \E k \in Keys : H!InsertRefused(k) \/ H!DeleteRefused(k)
  <2>1. UNCHANGED <<hash, buckets>>
    BY <1>1 DEF H!vars, H!AllocNode, H!AllocKey, H!GiveUp, H!Insert, H!InsertRefused, H!DeleteRefused
  <2>2. TableInv' /\ H!Contents' = H!Contents /\ (UNCHANGED tret \/ tret' < 0)
    BY <1>1, <2>1, TableKeeps
  <2> QED
    BY <2>2 DEF H!Abstract!ANext, H!Abstract!AInsertFails
<1>2. CASE H!AllocValue
  <2>1. TableInv' /\ \E k \in Keys, v \in Items : H!Abstract!AInsert(k, v)
    BY <1>2, TableTakes
  <2> QED
    BY <2>1 DEF H!Abstract!ANext
<1>3. ASSUME NEW k \in Keys, H!Delete(k) PROVE TableInv' /\ [H!Abstract!ANext]_<<H!Contents, tret>>
  <2>1. TableInv' /\ H!Abstract!ADelete(k)
    BY <1>3, TableDrops
  <2> QED
    BY <2>1 DEF H!Abstract!ANext
<1>4. CASE H!Destroy
  <2>1. TableInv' /\ H!Abstract!ADestroy
    BY <1>4, TableEnds
  <2> QED
    BY <2>1 DEF H!Abstract!ANext
<1>5. \/ UNCHANGED H!vars \/ H!AllocNode \/ H!AllocKey \/ H!GiveUp \/ H!AllocValue \/ H!Destroy
      \/ \E k \in Keys : \/ H!InsertRefused(k) \/ H!Delete(k) \/ H!DeleteRefused(k)
                         \/ \E v \in Items : H!Insert(k, v)
  BY DEF H!Next
<1> QED
  BY <1>1, <1>2, <1>3, <1>4, <1>5

LEMMA TableInit == ASSUME Capacity \in Nat, H!Init PROVE TableInv /\ H!Abstract!AInit
<1>1. /\ hash \in [Keys -> 0..Capacity] /\ buckets = [i \in H!Ids |-> <<>>] /\ tpc = "idle"
      /\ targ = Null /\ tret = 0 /\ mem = [node |-> 0, key |-> 0, value |-> 0]
  BY DEF H!Init
<1>2. buckets \in [H!Ids -> Seq(H!Entry)] /\ Total(buckets) = 0 /\ \A k : Found(buckets, k) = <<>>
  BY <1>1, EmptyBuckets
<1>3. \A k \in Keys : \A i \in H!Ids : H!Own(buckets[i], k) = <<>>
  BY <1>1, OwnOf
<1>4. /\ mem \in [{"node", "key", "value"} -> Nat]
      /\ mem["node"] = 0 + 0 /\ mem["key"] = 0 + 0 /\ mem["value"] = 0
  BY <1>1
<1>5. TableInv
  BY <1>1, <1>2, <1>3, <1>4 DEF TableInv
<1>6. H!Contents = [k \in Keys |-> <<>>]
  <2>1. H!Contents = [k \in Keys |-> H!Contents[k]]
    BY DEF H!Contents
  <2>2. ASSUME NEW k \in Keys PROVE H!Contents[k] = <<>>
    <3>1. H!Contents[k] = Found(buckets, k)
      BY Zenon DEF H!Contents, H!ValuesOf, Found
    <3> QED
      BY <1>2, <3>1
  <2> HIDE DEF H!Contents
  <2> QED
    BY <2>1, <2>2
<1> QED
  BY <1>1, <1>5, <1>6 DEF H!Abstract!AInit

\* htable.c, 45 to 75 and 235 to 280: whichever allocation of an insertion fails,
\* between calls exactly the parts of the entries in the buckets are allocated,
\* and a destroyed table owns nothing.
THEOREM TableOwnsEntries ==
  ASSUME Capacity \in Nat, Null \notin H!Entry
  PROVE  H!Spec => []H!NothingLeaked
<1>1. TableInv => H!NothingLeaked
  <2> SUFFICES ASSUME TableInv PROVE H!NothingLeaked
    OBVIOUS
  <2>1. H!Count = Total(buckets)
    BY Zenon DEF H!Count, Total
  <2>2. DOMAIN mem = {"node", "key", "value"} /\ mem["value"] \in Nat
    BY DEF TableInv
  <2>3. ASSUME tpc = "idle", NEW part \in {"node", "key", "value"} PROVE mem[part] = Total(buckets)
    <3>1. /\ mem["node"] = Total(buckets) + 0 /\ mem["key"] = Total(buckets) + 0
          /\ mem["value"] = Total(buckets)
      BY <2>3 DEF TableInv
    <3> QED
      BY <2>2, <2>3, <3>1
  <2>4. ASSUME tpc = "destroyed", NEW part \in {"node", "key", "value"} PROVE mem[part] = 0
    BY <2>4 DEF TableInv
  <2> QED
    BY <2>1, <2>2, <2>3, <2>4 DEF H!NothingLeaked
<1>2. H!Init => TableInv
  BY TableInit
<1>3. TableInv /\ [H!Next]_(H!vars) => TableInv'
  BY TableStep
<1> QED
  BY <1>1, <1>2, <1>3, PTL DEF H!Spec

\* htable.c, 190 to 280: a key keeps its values in the order they were inserted,
\* and a deletion takes all of them and no other key's, wherever the client's hash
\* function puts the keys.
THEOREM TableImplementsMultimap ==
  ASSUME Capacity \in Nat, Null \notin H!Entry
  PROVE  H!Spec => H!ImplementsMultimap
<1>1. H!Init => TableInv /\ H!Abstract!AInit
  BY TableInit
<1>2. TableInv /\ [H!Next]_(H!vars) => TableInv' /\ [H!Abstract!ANext]_<<H!Contents, tret>>
  BY TableStep
<1> QED
  BY <1>1, <1>2, PTL DEF H!Spec, H!ImplementsMultimap, H!Abstract!ASpec

-------------------------------------------------------------------------------
\* Clients pass words of at least one letter.
WordsAssumption == Words \subseteq Seq(Letters) \ {<<>>}

\* Every node is reached from the root, through nodes and never through memory
\* that was freed, and only nodes are marked: neither an insertion that fails on
\* its way nor a deletion leaves behind what destroying the trie would not free.
AllReached ==
  /\ \A p \in nodes : TR!Paths(p) \subseteq nodes /\ p[1] \notin dangling
  /\ leafs \subseteq nodes

TrieInv == nodes \subseteq Seq(Letters) \ {<<>>} /\ AllReached

\* The paths that lead to a word.
LEMMA PathFacts ==
  ASSUME NEW p \in Seq(Letters), NEW n \in 1..Len(p)
  PROVE  /\ TR!Path(p, n) \in Seq(Letters) \ {<<>>}
         /\ Len(TR!Path(p, n)) = n
         /\ \A i \in 1..n : TR!Path(p, n)[i] = p[i]
         /\ TR!Path(p, n) \in TR!Paths(p)
         /\ Append(Front(TR!Path(p, n)), p[n]) = TR!Path(p, n)
<1>1. /\ TR!Path(p, n) \in Seq(Letters) /\ Len(TR!Path(p, n)) = n
      /\ \A i \in 1..n : TR!Path(p, n)[i] = p[i]
  BY DEF TR!Path
<1>2. Append(Front(TR!Path(p, n)), p[n]) = TR!Path(p, n)
  <2> DEFINE s == TR!Path(p, n)
             f == SubSeq(s, 1, n - 1)
  <2>1. s \in Seq(Letters) /\ Len(s) = n /\ s[n] = p[n]
    BY <1>1
  <2>2. f \in Seq(Letters) /\ Len(f) = n - 1 /\ \A i \in 1..(n - 1) : f[i] = s[i]
    BY <2>1
  <2> HIDE DEF s
  <2>3. p[n] \in Letters
    OBVIOUS
  <2>4. Append(f, p[n]) = s
    BY <2>1, <2>2, <2>3, SMTT(30)
  <2> QED
    BY <2>1, <2>4 DEF Front, s
<1> QED
  BY <1>1, <1>2 DEF TR!Paths

LEMMA Whole == ASSUME NEW p \in Seq(Letters) \ {<<>>} PROVE p \in TR!Paths(p) /\ TR!Path(p, Len(p)) = p
<1>1. Len(p) \in 1..Len(p)
  OBVIOUS
<1>2. TR!Path(p, Len(p)) = p
  BY <1>1 DEF TR!Path
<1> QED
  BY <1>1, <1>2 DEF TR!Paths

\* Sequences alike so far.
LEMMA SamePath ==
  ASSUME NEW p \in Seq(Letters), NEW s \in Seq(Letters), NEW n \in 1..Len(p), n <= Len(s),
         \A i \in 1..n : p[i] = s[i]
  PROVE  TR!Path(p, n) = TR!Path(s, n)
<1> DEFINE a == TR!Path(p, n)
           b == TR!Path(s, n)
<1>1. /\ a \in Seq(Letters) /\ Len(a) = n /\ \A i \in 1..n : a[i] = p[i]
      /\ b \in Seq(Letters) /\ Len(b) = n /\ \A i \in 1..n : b[i] = s[i]
  BY PathFacts, n \in 1..Len(s)
<1> HIDE DEF a, b
<1>2. a = b
  BY <1>1
<1> QED
  BY <1>2 DEF a, b

LEMMA PrefixIs ==
  ASSUME NEW p \in Seq(Letters), NEW s \in Seq(Letters)
  PROVE  IsPrefix(p, s) <=> Len(p) <= Len(s) /\ \A i \in 1..Len(p) : p[i] = s[i]
<1>1. SubSeq(p, 1, Len(p)) = p
  OBVIOUS
<1>2. CASE Len(p) <= Len(s)
  <2> DEFINE b == SubSeq(s, 1, Len(p))
  <2>1. b \in Seq(Letters) /\ Len(b) = Len(p) /\ \A i \in 1..Len(p) : b[i] = s[i]
    BY <1>2
  <2> HIDE DEF b
  <2>2. p = b <=> \A i \in 1..Len(p) : p[i] = s[i]
    BY <2>1
  <2> QED
    BY <1>1, <1>2, <2>2 DEF IsPrefix, b
<1> QED
  BY <1>2 DEF IsPrefix

LEMMA PathsOfPaths ==
  ASSUME NEW p \in Seq(Letters), NEW s \in TR!Paths(p)
  PROVE  TR!Paths(s) \subseteq TR!Paths(p)
<1>1. PICK n \in 1..Len(p) : s = TR!Path(p, n)
  BY DEF TR!Paths
<1>2. s \in Seq(Letters) /\ Len(s) = n /\ \A i \in 1..n : s[i] = p[i]
  BY <1>1, PathFacts
<1>3. ASSUME NEW m \in 1..Len(s) PROVE TR!Path(s, m) = TR!Path(p, m) /\ m \in 1..Len(p)
  BY <1>2, <1>3, SamePath
<1> QED
  BY <1>3 DEF TR!Paths

-------------------------------------------------------------------------------
\* How far the longest prefix reaches.
LEMMA Reach ==
  ASSUME NEW w \in Seq(Letters), TR!Paths(w) \subseteq nodes
  PROVE  /\ TR!LongestPrefix(w) \in 0..Len(w)
         /\ \A i \in 1..Len(w) : TR!Branches(TR!Path(w, i)) => i <= TR!LongestPrefix(w)
<1> DEFINE S == {0} \cup {i \in 1..Len(w) : TR!Branches(TR!Path(w, i))}
           P == {n \in Nat : \A i \in S : i <= n}
<1>1. S \subseteq 0..Len(w) /\ 0 \in S
  OBVIOUS
<1> HIDE DEF S
<1>2. Len(w) \in P
  BY <1>1
<1>3. PICK m \in P : \A j \in P : m <= j
  BY <1>2, Least
<1>4. m \in S
  <2> SUFFICES ASSUME m \notin S PROVE FALSE
    OBVIOUS
  <2>1. m # 0 /\ m \in Nat
    BY <1>1
  <2>2. m - 1 \in P
    BY <1>1, <2>1
  <2> QED
    BY <1>3, <2>1, <2>2
<1>5. m \in S /\ \A i \in S : m >= i
  BY <1>1, <1>4
<1>6. Max(S) \in S /\ \A i \in S : Max(S) >= i
  BY <1>5 DEF Max
<1>7. TR!LongestPrefix(w) = Max(S)
  BY DEF TR!LongestPrefix, TR!Max, Max, S
<1> QED
  BY <1>1, <1>6, <1>7 DEF S

\* Where a path leaves that of w, w branches.
LEMMA Leaves ==
  ASSUME TrieInv, NEW w \in Seq(Letters), NEW s \in nodes, NEW n \in 1..Len(w), n <= Len(s),
         \A i \in 1..(n - 1) : s[i] = w[i], s[n] # w[n]
  PROVE  TR!Branches(TR!Path(w, n))
<1>1. s \in Seq(Letters) /\ n \in 1..Len(s) /\ s[n] \in Letters
  BY DEF TrieInv
<1> DEFINE a == TR!Path(w, n)
           b == TR!Path(s, n)
<1>2. /\ a \in Seq(Letters) /\ Len(a) = n /\ \A i \in 1..n : a[i] = w[i]
      /\ b \in Seq(Letters) /\ Len(b) = n /\ \A i \in 1..n : b[i] = s[i]
      /\ Append(Front(b), s[n]) = b /\ b \in nodes
  BY <1>1, PathFacts DEF TrieInv, AllReached
<1>3. Front(a) = Front(b)
  <2> DEFINE c == SubSeq(a, 1, n - 1)
             d == SubSeq(b, 1, n - 1)
  <2> HIDE DEF a, b
  <2>1. /\ c \in Seq(Letters) /\ Len(c) = n - 1 /\ \A i \in 1..(n - 1) : c[i] = a[i]
        /\ d \in Seq(Letters) /\ Len(d) = n - 1 /\ \A i \in 1..(n - 1) : d[i] = b[i]
    BY <1>2
  <2>2. \A i \in 1..(n - 1) : c[i] = d[i]
    BY <1>2, <2>1
  <2> HIDE DEF c, d
  <2>3. c = d
    BY <2>1, <2>2
  <2> QED
    BY <1>2, <2>3 DEF Front, c, d
<1>4. Last(a) = w[n] /\ n \in 1..n
  BY <1>2 DEF Last
<1> HIDE DEF a, b
<1>5. Append(Front(a), s[n]) \in nodes /\ s[n] \in Letters \ {Last(a)}
  BY <1>1, <1>2, <1>3, <1>4
<1> QED
  BY <1>5 DEF TR!Branches, TR!Front, TR!Last, Front, Last, a

\* Deleting w takes only paths comparable with it.
LEMMA TakesComparable ==
  ASSUME TrieInv, NEW w \in Seq(Letters) \ {<<>>}, TR!Paths(w) \subseteq nodes,
         NEW k \in 1..Len(w), TR!LongestPrefix(w) <= k,
         NEW s \in nodes, IsPrefix(TR!Path(w, k), s)
  PROVE  IsPrefix(s, w) \/ IsPrefix(w, s)
<1>0. s \in Seq(Letters)
  BY DEF TrieInv
<1>1. \A i \in 1..k : s[i] = w[i] /\ i <= Len(s)
  BY <1>0, PathFacts, PrefixIs
<1> DEFINE D == {i \in 1..Len(w) : i <= Len(s) /\ s[i] # w[i]}
<1>2. CASE D = {}
  BY <1>0, <1>2, PrefixIs
<1>3. CASE D # {}
  <2>1. PICK n \in D : \A j \in D : n <= j
    BY <1>3, Least, D \subseteq Nat
  <2>2. n \in 1..Len(w) /\ n <= Len(s) /\ s[n] # w[n] /\ k < n /\ \A i \in 1..(n - 1) : s[i] = w[i]
    BY <1>0, <1>1, <2>1
  <2>3. TR!Branches(TR!Path(w, n))
    BY <2>2, Leaves
  <2>4. TR!LongestPrefix(w) \in 0..Len(w) /\ n <= TR!LongestPrefix(w)
    BY <2>2, <2>3, Reach
  <2> QED
    BY <2>2, <2>4
<1> QED
  BY <1>2, <1>3

\* The words the code finds.
words == {w \in Words : TR!Search(w)}

LEMMA WordsAre ==
  /\ TrieInv => words = Words \cap leafs
  /\ TrieInv' => words' = Words \cap leafs'
<1>1. TrieInv => \A w \in leafs : TR!Paths(w) \subseteq nodes
  BY DEF TrieInv, AllReached
<1>2. TrieInv' => \A w \in leafs' : TR!Paths(w)' \subseteq nodes'
  BY DEF TrieInv, AllReached
<1> QED
  BY <1>1, <1>2 DEF words, TR!Search

\* The node a deletion takes out, with all below it.
Cut(w) == TR!Path(w, IF TR!LongestPrefix(w) = 0 THEN 1 ELSE TR!LongestPrefix(w))
Gone(w) == TR!Below(Cut(w))

LEMMA GoneIs ==
  ASSUME TrieInv, NEW w \in Seq(Letters) \ {<<>>}, TR!Paths(w) \subseteq nodes
  PROVE  /\ w \in Gone(w)
         /\ \A p \in Gone(w) : p \in nodes /\ (IsPrefix(p, w) \/ IsPrefix(w, p))
         /\ \A p \in nodes : (\E s \in TR!Paths(p) : s \in Gone(w)) => p \in Gone(w)
         /\ TR!LongestPrefix(w) = 0 => nodes = Gone(w)
<1> DEFINE k == IF TR!LongestPrefix(w) = 0 THEN 1 ELSE TR!LongestPrefix(w)
           c == TR!Path(w, k)
<1>1. TR!LongestPrefix(w) \in 0..Len(w) /\ 1 \in 1..Len(w)
  BY Reach
<1>2. k \in 1..Len(w) /\ TR!LongestPrefix(w) <= k
  BY <1>1
<1>3. Cut(w) = c
  BY DEF Cut
<1> HIDE DEF k
<1>4. c \in Seq(Letters) /\ Len(c) = k /\ \A i \in 1..k : c[i] = w[i]
  BY <1>2, PathFacts
<1> HIDE DEF c
<1>5. \A p : p \in Gone(w) <=> p \in nodes /\ IsPrefix(c, p)
  BY <1>3 DEF Gone, TR!Below, TR!IsPrefix, IsPrefix
<1>6. w \in Gone(w)
  <2>1. w \in nodes
    BY Whole
  <2>2. IsPrefix(c, w)
    BY <1>2, <1>4, PrefixIs
  <2> QED
    BY <1>5, <2>1, <2>2
<1>7. ASSUME NEW p \in Gone(w) PROVE p \in nodes /\ (IsPrefix(p, w) \/ IsPrefix(w, p))
  BY <1>2, <1>5, <1>7, TakesComparable DEF c
<1>8. ASSUME NEW p \in nodes, NEW s \in TR!Paths(p), s \in Gone(w) PROVE p \in Gone(w)
  <2>1. p \in Seq(Letters)
    BY DEF TrieInv
  <2>2. PICK n \in 1..Len(p) : s = TR!Path(p, n)
    BY DEF TR!Paths
  <2>3. s \in Seq(Letters) /\ Len(s) = n /\ \A i \in 1..n : s[i] = p[i]
    BY <2>1, <2>2, PathFacts
  <2>4. Len(c) <= Len(s) /\ \A i \in 1..Len(c) : c[i] = s[i]
    BY <1>4, <1>5, <1>8, <2>3, PrefixIs
  <2>5. Len(c) <= Len(p) /\ \A i \in 1..Len(c) : c[i] = p[i]
    BY <1>4, <2>3, <2>4
  <2>6. IsPrefix(c, p)
    BY <1>4, <2>1, <2>5, PrefixIs
  <2> QED
    BY <1>5, <2>6
<1>9. ASSUME TR!LongestPrefix(w) = 0, NEW p \in nodes PROVE p \in Gone(w)
  <2>1. p \in Seq(Letters) /\ Len(p) >= 1
    BY DEF TrieInv
  <2>2. p[1] = w[1]
    <3> SUFFICES ASSUME p[1] # w[1] PROVE FALSE
      OBVIOUS
    <3>1. TR!Branches(TR!Path(w, 1))
      BY <1>1, <2>1, Leaves
    <3> QED
      BY <1>1, <1>9, <3>1, Reach
  <2>3. k = 1
    BY <1>9 DEF k
  <2>4. Len(c) <= Len(p) /\ \A i \in 1..Len(c) : c[i] = p[i]
    BY <1>4, <2>1, <2>2, <2>3
  <2>5. IsPrefix(c, p)
    BY <1>4, <2>1, <2>4, PrefixIs
  <2> QED
    BY <1>5, <2>5
<1> QED
  BY <1>5, <1>6, <1>7, <1>8, <1>9

-------------------------------------------------------------------------------
LEMMA TrieStarts == TR!Init => TrieInv
BY DEF TR!Init, TrieInv, AllReached

LEMMA InsertKeeps ==
  ASSUME TrieInv, NEW w \in Seq(Letters) \ {<<>>}, w[1] \notin dangling,
         NEW P \in SUBSET TR!Paths(w), \A p \in P : TR!Paths(p) \subseteq P,
         nodes' = nodes \cup P, leafs' = leafs \/ (leafs' = leafs \cup {w} /\ w \in P),
         dangling' = dangling
  PROVE  TrieInv'
<1>1. ASSUME NEW p \in P PROVE p \in Seq(Letters) \ {<<>>} /\ p[1] = w[1]
  <2>1. PICK n \in 1..Len(w) : p = TR!Path(w, n)
    BY <1>1 DEF TR!Paths
  <2> QED
    BY <2>1, PathFacts
<1>2. \A p \in nodes \cup P : TR!Paths(p) \subseteq nodes \cup P
  BY DEF TrieInv, AllReached
<1>3. \A p : TR!Paths(p)' = TR!Paths(p)
  BY DEF TR!Paths, TR!Path
<1> QED
  BY <1>1, <1>2, <1>3 DEF TrieInv, AllReached

LEMMA TrieKeeps == ASSUME WordsAssumption, TrieInv, [TR!Next]_(TR!vars) PROVE TrieInv'
<1>1. ASSUME NEW w \in Words PROVE w \in Seq(Letters) \ {<<>>}
  BY <1>1 DEF WordsAssumption
<1>2. ASSUME NEW w \in Words, TR!Insert(w) PROVE TrieInv'
  <2>1. \A p \in TR!Paths(w) : TR!Paths(p) \subseteq TR!Paths(w)
    BY <1>1, PathsOfPaths
  <2>2. w \in TR!Paths(w)
    BY <1>1, Whole
  <2>3. /\ w[1] \notin dangling /\ nodes' = nodes \cup TR!Paths(w)
        /\ leafs' = leafs \cup {w} /\ dangling' = dangling
    BY <1>2 DEF TR!Insert
  <2> QED
    BY <1>1, <2>1, <2>2, <2>3, InsertKeeps
<1>3. ASSUME NEW w \in Words, TR!InsertFails(w) PROVE TrieInv'
  <2>1. PICK n \in 1..Len(w) : nodes' = nodes \cup TR!Paths(TR!Path(w, n - 1))
    BY <1>3 DEF TR!InsertFails
  <2>2. w[1] \notin dangling /\ leafs' = leafs /\ dangling' = dangling
    BY <1>3 DEF TR!InsertFails
  <2> DEFINE P == TR!Paths(TR!Path(w, n - 1))
  <2>3. P \subseteq TR!Paths(w) /\ \A p \in P : TR!Paths(p) \subseteq P
    <3>1. CASE n = 1
      <4>1. TR!Path(w, 0) = <<>>
        BY <1>1 DEF TR!Path
      <4>2. P = {}
        BY <3>1, <4>1 DEF TR!Paths
      <4> QED
        BY <4>2
    <3>2. CASE n # 1
      <4>1. n - 1 \in 1..Len(w)
        BY <3>2
      <4>2. TR!Path(w, n - 1) \in Seq(Letters) /\ TR!Path(w, n - 1) \in TR!Paths(w)
        BY <1>1, <4>1, PathFacts
      <4> QED
        BY <1>1, <4>2, PathsOfPaths
    <3> QED
      BY <3>1, <3>2
  <2> HIDE DEF P
  <2>4. nodes' = nodes \cup P
    BY <2>1 DEF P
  <2> QED
    BY <1>1, <2>2, <2>3, <2>4, InsertKeeps
<1>4. ASSUME NEW w \in Words, TR!Delete(w) PROVE TrieInv'
  <2>1. CASE TR!LongestPrefix(w) < 0
    <3>1. UNCHANGED <<nodes, leafs, dangling>>
      BY <1>4, <2>1 DEF TR!Delete
    <3> QED
      BY <3>1 DEF TrieInv, AllReached, TR!Paths, TR!Path
  <2>2. CASE ~(TR!LongestPrefix(w) < 0)
    <3>1. TR!Paths(w) \subseteq nodes
      BY <2>2 DEF TR!LongestPrefix
    <3>2. /\ nodes' = nodes \ Gone(w) /\ leafs' = leafs \ Gone(w)
          /\ dangling' = IF TR!LongestPrefix(w) = 0 THEN dangling \cup {w[1]} ELSE dangling
      BY <1>4, <2>2 DEF TR!Delete, Gone, Cut
    <3>3. /\ \A p \in nodes : (\E s \in TR!Paths(p) : s \in Gone(w)) => p \in Gone(w)
          /\ TR!LongestPrefix(w) = 0 => nodes = Gone(w)
      BY <1>1, <3>1, GoneIs
    <3>4. \A p : TR!Paths(p)' = TR!Paths(p)
      BY DEF TR!Paths, TR!Path
    <3>5. \A p \in nodes' : TR!Paths(p) \subseteq nodes'
      BY <3>2, <3>3 DEF TrieInv, AllReached
    <3>6. \A p \in nodes' : p[1] \notin dangling'
      BY <3>2, <3>3 DEF TrieInv, AllReached
    <3> QED
      BY <3>2, <3>4, <3>5, <3>6 DEF TrieInv, AllReached
  <2> QED
    BY <2>1, <2>2
<1>5. CASE TR!UseFreed
  BY <1>5 DEF TR!UseFreed, TrieInv, AllReached, TR!Paths, TR!Path
<1>6. CASE TR!Destroy
  BY <1>6 DEF TR!Destroy, TrieInv, AllReached
<1>7. CASE UNCHANGED TR!vars
  BY <1>7 DEF TR!vars, TrieInv, AllReached, TR!Paths, TR!Path
<1> QED
  BY <1>2, <1>3, <1>4, <1>5, <1>6, <1>7 DEF TR!Next

\* The words of the trie change as AbstractWords allows.
LEMMA TrieRefines ==
  ASSUME WordsAssumption, TrieInv, TrieInv', [TR!Next]_(TR!vars)
  PROVE  [TR!Abstract!Next]_<<words, rv, dangling # {}, ~usable>>
<1>1. ASSUME NEW w \in Words PROVE w \in Seq(Letters) \ {<<>>}
  BY <1>1 DEF WordsAssumption
<1>2. words = Words \cap leafs /\ words' = Words \cap leafs'
  BY WordsAre
<1>3. ASSUME NEW w \in Words, TR!Insert(w) PROVE TR!Abstract!Insert(w)
  <2>1. words' = words \cup {w}
    BY <1>2, <1>3 DEF TR!Insert
  <2> QED
    BY <1>3, <2>1 DEF TR!Insert, TR!Abstract!Insert, words
<1>4. ASSUME NEW w \in Words, TR!InsertFails(w) PROVE TR!Abstract!InsertFails(w)
  <2>1. w \notin words
    BY <1>4 DEF TR!InsertFails, words, TR!Search, TR!Paths
  <2>2. words' = words
    BY <1>2, <1>4 DEF TR!InsertFails
  <2> QED
    BY <1>4, <2>1, <2>2 DEF TR!InsertFails, TR!Abstract!InsertFails, words
<1>5. ASSUME NEW w \in Words, TR!Delete(w) PROVE TR!Abstract!DeleteFails(w) \/ TR!Abstract!Delete(w)
  <2>1. CASE TR!LongestPrefix(w) < 0
    <3>1. ~(TR!Paths(w) \subseteq nodes)
      <4> SUFFICES ASSUME TR!Paths(w) \subseteq nodes PROVE FALSE
        OBVIOUS
      <4>1. TR!LongestPrefix(w) \in 0..Len(w)
        BY <1>1, Reach
      <4> QED
        BY <2>1, <4>1
    <3>2. w \notin words
      BY <3>1 DEF words, TR!Search
    <3>3. rv' = "NULL" /\ UNCHANGED <<nodes, leafs, dangling, usable>>
      BY <1>5, <2>1 DEF TR!Delete
    <3>4. words' = words
      BY <1>2, <3>3
    <3> QED
      BY <3>2, <3>3, <3>4 DEF TR!Abstract!DeleteFails, TR!Abstract!InsertFails, words
  <2>2. CASE ~(TR!LongestPrefix(w) < 0)
    <3>1. TR!Paths(w) \subseteq nodes
      BY <2>2 DEF TR!LongestPrefix
    <3>2. /\ leafs' = leafs \ Gone(w) /\ nodes' = nodes \ Gone(w)
          /\ dangling' = IF TR!LongestPrefix(w) = 0 THEN dangling \cup {w[1]} ELSE dangling
          /\ rv' = "root" /\ usable' = usable
      BY <1>5, <2>2 DEF TR!Delete, Gone, Cut
    <3>3. /\ w \in Gone(w)
          /\ \A p \in Gone(w) : IsPrefix(p, w) \/ IsPrefix(w, p)
          /\ TR!LongestPrefix(w) = 0 => nodes = Gone(w)
      BY <1>1, <3>1, GoneIs
    <3>4. words' \subseteq words \ {w} /\ \A v \in words \ words' : v \in Gone(w)
      BY <1>2, <3>2, <3>3
    <3>5. ASSUME NEW v \in words \ words' PROVE TR!Abstract!Comparable(v, w)
      <4>1. v \in Seq(Letters) /\ w \in Seq(Letters) /\ (IsPrefix(v, w) \/ IsPrefix(w, v))
        BY <1>1, <3>3, <3>4 DEF words
      <4>2. \A i \in DOMAIN v \cap DOMAIN w : v[i] = w[i]
        BY <4>1, PrefixIs
      <4> QED
        BY <4>2 DEF TR!Abstract!Comparable
    <3>6. dangling' = dangling \/ (dangling' # {} /\ words' = {})
      BY <1>2, <3>2, <3>3 DEF TrieInv, AllReached
    <3> QED
      BY <3>2, <3>4, <3>5, <3>6 DEF TR!Abstract!Delete, words
  <2> QED
    BY <2>1, <2>2
<1>6. ASSUME TR!UseFreed PROVE TR!Abstract!Crash
  <2>1. words' = words
    BY <1>2, <1>6 DEF TR!UseFreed
  <2> QED
    BY <1>6, <2>1 DEF TR!UseFreed, TR!Abstract!Crash, words
<1>7. ASSUME TR!Destroy PROVE TR!Abstract!Destroy
  <2>1. words' = {}
    BY <1>2, <1>7 DEF TR!Destroy
  <2> QED
    BY <1>7, <2>1 DEF TR!Destroy, TR!Abstract!Destroy, words
<1>8. ASSUME UNCHANGED TR!vars PROVE UNCHANGED <<words, rv, dangling # {}, ~usable>>
  BY <1>2, <1>8 DEF TR!vars
<1> QED
  BY <1>3, <1>4, <1>5, <1>6, <1>7, <1>8 DEF TR!Next, TR!Abstract!Next, words

-------------------------------------------------------------------------------
\* Whatever insertions fail and whatever deletions cut off, what remains is
\* reached from the root, and no path leads through what was freed.
THEOREM TrieReachesAll == ASSUME WordsAssumption PROVE TR!Spec => []AllReached
<1>1. TR!Init => TrieInv
  BY TrieStarts
<1>2. TrieInv /\ [TR!Next]_(TR!vars) => TrieInv'
  BY TrieKeeps
<1>3. TrieInv => AllReached
  BY DEF TrieInv
<1> QED
  BY <1>1, <1>2, <1>3, PTL DEF TR!Spec

\* The trie is a set of words: an insertion adds its word, a deletion takes its
\* own and no word but those that begin it or that it begins, and freed memory is
\* only used after a deletion that left no word.
THEOREM TrieStaysWithinBound == ASSUME WordsAssumption PROVE TR!Spec => TR!WithinBound
<1>1. TR!Init => TrieInv /\ TR!Abstract!Init
  BY TrieStarts DEF TR!Init, TR!Abstract!Init, TR!Search
<1>2. TrieInv /\ [TR!Next]_(TR!vars) => TrieInv'
  BY TrieKeeps
<1>3. TrieInv /\ TrieInv' /\ [TR!Next]_(TR!vars) => [TR!Abstract!Next]_<<words, rv, dangling # {}, ~usable>>
  BY TrieRefines
<1> QED
  BY <1>1, <1>2, <1>3, PTL DEF TR!Spec, TR!WithinBound, TR!Abstract!ASpec, words
===============================================================================
