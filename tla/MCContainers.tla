----------------------------- MODULE MCContainers -----------------------------
(***************************************************************************)
(* The containers over arrays, over the kernel-style lists and over words, *)
(* checked side by side: a behaviour exercises one of them, so their       *)
(* states add up instead of multiplying.                                   *)
(***************************************************************************)
EXTENDS Heap

CONSTANTS Items, Room, Entries, Keys, Null

VARIABLES kind,
          ring, rhead, rtail, rsize, rres,
          q, h, t, qres,
          snext, sprev, slists, sloop, sdata, allocated, alive, sres,
          hash, buckets, tpc, targ, tret, mem,
          nodes, leafs, dangling, wusable, wrv,
          tree, reliable, usable, rv

ringVars == <<ring, rhead, rtail, rsize, rres>>
queueVars == <<q, h, t, qres>>
stackVars == <<snext, sprev, slists, sloop, sdata, allocated, alive, sres>>
tableVars == <<hash, buckets, tpc, targ, tret, mem>>
trieVars == <<nodes, leafs, dangling, wusable, wrv>>
radixVars == <<tree, reliable, usable, rv>>
wordVars == <<trieVars, radixVars>>

\* Words that begin one another, share edges to be split, and stand apart.
MCWords == {<<1>>, <<1, 2>>, <<1, 2, 1>>, <<1, 2, 2>>, <<2>>}

R == INSTANCE RingBuffer WITH Values <- Items, Capacity <- Room,
       data <- ring, head <- rhead, tail <- rtail, size <- rsize, res <- rres
Q == INSTANCE Queue WITH Values <- Items, Size <- Room, res <- qres
S == INSTANCE Stack WITH Top <- "top", Values <- Items, next <- snext, prev <- sprev,
       lists <- slists, loop <- sloop, data <- sdata, res <- sres
T == INSTANCE HTable WITH Values <- Items, Capacity <- 2, MaxEntries <- Room, pc <- tpc, arg <- targ,
       ret <- tret
W == INSTANCE Trie WITH Letters <- 1..2, Words <- MCWords \cup {<<2, 1>>},
       usable <- wusable, rv <- wrv
X == INSTANCE RadixTree WITH Letters <- 1..2, Words <- MCWords, Values <- Items

MCInit ==
  /\ kind \in {"heap", "ring", "queue", "stack", "table", "trie", "radix tree"}
  /\ Init /\ R!Init /\ Q!Init /\ S!Init /\ T!Init /\ W!Init /\ X!Init
  /\ kind # "heap" => dir = "min"
  /\ kind # "table" => hash = [k \in Keys |-> 0]
  /\ kind # "radix tree" => reliable

MCNext ==
  /\ UNCHANGED kind
  /\ \/ kind = "heap" /\ Next /\ UNCHANGED <<ringVars, queueVars, stackVars, tableVars, wordVars>>
     \/ kind = "ring" /\ R!Next /\ UNCHANGED <<vars, queueVars, stackVars, tableVars, wordVars>>
     \/ kind = "queue" /\ Q!Next /\ UNCHANGED <<vars, ringVars, stackVars, tableVars, wordVars>>
     \/ kind = "stack" /\ S!Next /\ UNCHANGED <<vars, ringVars, queueVars, tableVars, wordVars>>
     \/ kind = "table" /\ T!Next /\ UNCHANGED <<vars, ringVars, queueVars, stackVars, wordVars>>
     \/ kind = "trie" /\ W!Next
        /\ UNCHANGED <<vars, ringVars, queueVars, stackVars, tableVars, radixVars>>
     \/ kind = "radix tree" /\ X!Next
        /\ UNCHANGED <<vars, ringVars, queueVars, stackVars, tableVars, trieVars>>

MCSpec ==
  MCInit /\ [][MCNext]_<<vars, kind, ringVars, queueVars, stackVars, tableVars, wordVars>>

\* All memory is accounted for: the heap owns the copies it points to, each once;
\* a stack's entries are the ones allocated; a table frees what it unlinks.
MemoryOwned == CopiesOwned /\ S!EntriesOwned /\ T!NothingLeaked

\* The linear containers keep their order: ring buffer and queue first in first
\* out, the stack last in first out.
LinearContainersImplement == R!ImplementsFIFO /\ Q!ImplementsFIFO /\ S!ImplementsLIFO

RadixImplementsMap == X!ImplementsMap
TrieWithinBound == W!WithinBound
TrieDeletesItsWordOnly == W!DeletesItsWordOnly
TrieListsMatch == kind = "trie" => W!ListsMatch
===============================================================================
