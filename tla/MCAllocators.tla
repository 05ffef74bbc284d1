----------------------------- MODULE MCAllocators -----------------------------
(***************************************************************************)
(* The buddy and the slab allocator, checked side by side: a behaviour     *)
(* exercises one of them, so their states add up instead of multiplying.   *)
(***************************************************************************)
EXTENDS Buddy, SlabParameters, TLC

VARIABLES kind, status, size, lists, used, count, live, sheld

slabVars == <<status, size, lists, used, count, live, sheld>>

ASSUME PagesArePowers == \A order \in 0..20 : Pages[order] = 2^order

\* A byte, the smallest request of every larger order, the whole memory, one byte
\* more than it has, and the largest uint32_t.
MCSizes ==
  {0, 1, PageSize + 1, 2 * PageSize + 1, 4 * PageSize, 2^Orders * PageSize,
   2^Orders * PageSize + 1, Word - 1}

\* The start of every page, whether a block begins there or not, addresses inside
\* a page, and addresses on both sides of the memory, but for its end.
MCInside ==
  {PageSize * page : page \in (-1..(2^Orders + 1)) \ {2^Orders}}
    \cup {1, 2^Orders * PageSize - 1, 2^Orders * PageSize + 1}

\* Also the address just behind the memory.
MCAround == MCInside \cup {2^Orders * PageSize}

S == INSTANCE Slab WITH held <- sheld

MCInit == kind \in {"buddy", "slab"} /\ Init /\ S!Init

MCNext ==
  /\ UNCHANGED kind
  /\ \/ kind = "buddy" /\ Next /\ UNCHANGED slabVars
     \/ kind = "slab" /\ S!Next /\ UNCHANGED vars

MCSpec == MCInit /\ [][MCNext]_<<vars, kind, slabVars>>

\* Slabs and cpus differ by nothing but their names.
Symmetry == Permutations(Slabs) \cup Permutations(Cpus)

\* The properties of the slab allocator (slab.c), under names a configuration
\* can give; Slab says what they mean.
ListsMatchCounts == S!ListsMatchCounts
BitmapsMatchHeld == S!BitmapsMatchHeld
AllocFromLive == S!AllocFromLive
===============================================================================
