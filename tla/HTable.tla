-------------------------------- MODULE HTable --------------------------------
(***************************************************************************)
(* The hash table of htable/htable.c, over the lists of KDList.  A bucket  *)
(* is the sequence of its entries.  An action is one call, except that an  *)
(* insertion takes a step per allocation: node, copy of the key, copy of   *)
(* the value, any of which can fail.                                       *)
(***************************************************************************)
EXTENDS Integers, Sequences, SequencesExt, FiniteSets, FiniteSetsExt

CONSTANTS Keys, Values,
          Capacity,    \* the number of buckets
          MaxEntries,  \* bound: insertions stop there
          Null

VARIABLES
  hash,     \* the client's hash function; it may go beyond the buckets
  buckets,  \* per bucket, its entries in list order
  pc,       \* "idle", the allocation an insertion is at, or "destroyed"
  arg,      \* Null, or the entry that is being inserted
  ret,      \* what the last call returned
  mem       \* how many nodes, key copies and value copies are allocated

vars == <<hash, buckets, pc, arg, ret, mem>>

Ids == 0..(Capacity - 1)
Entry == [key : Keys, value : Values]
Count ==
  LET sum[i \in 0..Capacity] == IF i = 0 THEN 0 ELSE sum[i - 1] + Len(buckets[i - 1])
  IN sum[Capacity]

Init ==
  /\ hash \in [Keys -> 0..Capacity]
  /\ buckets = [i \in Ids |-> <<>>]
  /\ pc = "idle" /\ arg = Null /\ ret = 0
  /\ mem = [node |-> 0, key |-> 0, value |-> 0]

\* htable_insert compares the size with the capacity first, but nothing changes
\* the size: the test fails only for a table without buckets.
Insert(k, v) ==
  /\ pc = "idle" /\ hash[k] \in Ids
  /\ Count < MaxEntries
  /\ pc' = "node" /\ arg' = [key |-> k, value |-> v]
  /\ UNCHANGED <<hash, buckets, ret, mem>>

InsertRefused(k) ==
  /\ pc = "idle" /\ hash[k] \notin Ids
  /\ ret' = IF Capacity = 0 THEN -2 ELSE -3
  /\ UNCHANGED <<hash, buckets, pc, arg, mem>>

AllocNode ==
  /\ pc = "node"
  /\ mem' = [mem EXCEPT !.node = @ + 1]
  /\ pc' = "key"
  /\ UNCHANGED <<hash, buckets, arg, ret>>

AllocKey ==
  /\ pc = "key"
  /\ mem' = [mem EXCEPT !.key = @ + 1]
  /\ pc' = "value"
  /\ UNCHANGED <<hash, buckets, arg, ret>>

\* The value's copy is made, and the node goes to the tail of its bucket.
AllocValue ==
  /\ pc = "value"
  /\ mem' = [mem EXCEPT !.value = @ + 1]
  /\ buckets' = [buckets EXCEPT ![hash[arg.key]] = Append(@, arg)]
  /\ pc' = "idle" /\ arg' = Null /\ ret' = 0
  /\ UNCHANGED hash

\* Mutant: the labels are entered one too late.
GiveUpHalfway ==
  /\ pc \in {"node", "key", "value"}
  /\ mem' = CASE pc = "node" -> mem
              [] pc = "key" -> mem
              [] pc = "value" -> [mem EXCEPT !.node = @ - 1]
  /\ pc' = "idle" /\ arg' = Null /\ ret' = -4
  /\ UNCHANGED <<hash, buckets>>

\* An allocation fails: what was allocated before it is freed.
GiveUp ==
  /\ pc \in {"node", "key", "value"}
  /\ mem' = CASE pc = "node" -> mem
              [] pc = "key" -> [mem EXCEPT !.node = @ - 1]
              [] pc = "value" -> [mem EXCEPT !.key = @ - 1, !.node = @ - 1]
  /\ pc' = "idle" /\ arg' = Null /\ ret' = -4
  /\ UNCHANGED <<hash, buckets>>

Freed(n) == [part \in DOMAIN mem |-> mem[part] - n]


\* What the walk along a bucket leaves in it.
Without(s, k) ==
  LET kept[i \in 0..Len(s)] ==
        IF i = 0 THEN <<>> ELSE IF s[i].key = k THEN kept[i - 1] ELSE Append(kept[i - 1], s[i])
  IN kept[Len(s)]

\* Every entry of the bucket that has the key is unlinked and freed; what is
\* returned is an error in any case.
Delete(k) ==
  /\ pc = "idle" /\ hash[k] \in Ids
  /\ buckets' = [buckets EXCEPT ![hash[k]] = Without(@, k)]
  /\ mem' = Freed(Len(buckets[hash[k]]) - Len(buckets'[hash[k]]))
  /\ ret' = IF buckets[hash[k]] = <<>> THEN -3 ELSE -4
  /\ UNCHANGED <<hash, pc, arg>>

DeleteRefused(k) ==
  /\ pc = "idle" /\ hash[k] \notin Ids
  /\ ret' = -2
  /\ UNCHANGED <<hash, buckets, pc, arg, mem>>

Destroy ==
  /\ pc = "idle"
  /\ mem' = Freed(Count)
  /\ buckets' = [i \in Ids |-> <<>>]
  /\ pc' = "destroyed"
  /\ UNCHANGED <<hash, arg, ret>>

Next ==
  \/ AllocNode \/ AllocKey \/ AllocValue \/ GiveUp \/ Destroy
  \/ \E k \in Keys :
       \/ InsertRefused(k) \/ Delete(k) \/ DeleteRefused(k)
       \/ \E v \in Values : Insert(k, v)

Spec == Init /\ [][Next]_vars

-------------------------------------------------------------------------------
TypeOK ==
  /\ hash \in [Keys -> 0..Capacity]
  /\ buckets \in [Ids -> Seq(Entry)]
  /\ pc \in {"idle", "node", "key", "value", "destroyed"} /\ arg \in Entry \cup {Null}
  /\ ret \in -4..0
  /\ mem \in [{"node", "key", "value"} -> Nat]

\* Between calls exactly the entries in the buckets are allocated, whichever
\* allocation failed in the calls before; a destroyed table owns nothing.
NothingLeaked ==
  /\ pc = "idle" => \A part \in DOMAIN mem : mem[part] = Count
  /\ pc = "destroyed" => \A part \in DOMAIN mem : mem[part] = 0

\* The values that entries of s have for the key, in order.
Own(s, k) ==
  LET own[i \in 0..Len(s)] ==
        IF i = 0 THEN <<>> ELSE IF s[i].key = k THEN Append(own[i - 1], s[i].value) ELSE own[i - 1]
  IN own[Len(s)]
ValuesOf(k) ==
  LET found[i \in 0..Capacity] == IF i = 0 THEN <<>> ELSE found[i - 1] \o Own(buckets[i - 1], k)
  IN found[Capacity]

\* The table implements a multimap, wherever its hash function puts the keys, and
\* tells the client whether an insertion has added its value.
Contents == [k \in Keys |-> ValuesOf(k)]
Abstract == INSTANCE AbstractMultimap WITH map <- Contents
ImplementsMultimap == Abstract!ASpec
===============================================================================
