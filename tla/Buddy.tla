-------------------------------- MODULE Buddy --------------------------------
(***************************************************************************)
(* The buddy allocator of allocator/buddy.c.  Blocks are named by their    *)
(* first page, counted from the aligned start of the memory; what clients  *)
(* pass to buddy_free is an address, in bytes from that start.  A free     *)
(* list is the sequence of its nodes, which live in the free blocks        *)
(* themselves, so a node is named by its page.  The allocator has no lock  *)
(* and the API is sequential: an action is one whole call.                 *)
(***************************************************************************)
EXTENDS Integers, FiniteSets, Sequences, SequencesExt

CONSTANTS
  Orders,     \* BUDDY_ORDERS: the memory is 2^Orders pages
  PageSize,   \* PAGE_SIZE
  Word,       \* requests are uint32_t: sizes and their rounding wrap at Word
  Sizes,      \* the byte counts clients ask for
  FreeArgs,   \* the addresses clients pass to buddy_free
  Null,
  Undefined   \* what is known after the allocator has used memory it does not own

\* 1 << order: the pages in a block of that order.
Pages[order \in 0..32] == IF order = 0 THEN 1 ELSE 2 * Pages[order - 1]

ASSUME OrdersAssumption == Orders \in 0..31 /\ Pages[Orders + 1] - 1 <= 64  \* buddy.h, 80
\* uint32_t holds whole pages, as many as the memory has and one more to round.
ASSUME SizesAssumption ==
  /\ PageSize \in Nat \ {0} /\ Word \in Nat /\ Word % PageSize = 0
  /\ Word \div PageSize <= Pages[30] /\ (Pages[Orders] + 1) * PageSize <= Word
  /\ Sizes \subseteq 0..(Word - 1)
  /\ FreeArgs \subseteq Int

VARIABLES
  free_list,  \* buddy_t.free_list: per order, the pages where free blocks begin
  tree_mask,  \* buddy_t.tree_mask: the set of bits that are 1
  held,       \* history: the blocks clients hold, as [addr, order]
  res,        \* what the last call returned: a page, Null, 0, -1 or Undefined
  asked       \* history: the bytes the last call asked for, Null if it was a free

vars == <<free_list, tree_mask, held, res, asked>>

Levels == 0..Orders
Level(order) == Orders - order                      \* ORDER_2_LEVEL, LEVEL_2_ORDER
SizeOfLevel(lvl) == Pages[Level(lvl)]               \* SIZE_OF_LEVEL, in pages
Memory == 0..(Pages[Orders] - 1)

\* SIZE_2_ORDER: round up to pages, then the bit length of the count less one.
\* No page at all (zero bytes, or a size whose rounding wraps) yields 32.
SizeToOrder(bytes) ==
  LET pages == (((bytes + PageSize - 1) % Word) \div PageSize)
  IN IF pages = 0 THEN 32
     ELSE CHOOSE k \in 0..31 : Pages[k] >= pages /\ (k = 0 \/ Pages[k - 1] < pages)

\* __blk_2_buddy: flip the bit of the block's size in its address.
BuddyOf(a, order) ==
  IF (a \div Pages[order]) % 2 = 0 THEN a + Pages[order] ELSE a - Pages[order]

\* __blk_in_lvl_2_bit: blocks of the tree are numbered level by level.
Bit(a, lvl) == Pages[lvl] - 1 + a \div SizeOfLevel(lvl)

\* __blk_is_split: is the bit or one below it in the tree set?  The bits below b
\* are 2b + 1 and 2b + 2, so with 1 added a division leads up.
IsSplit(mask, bit, lvl) ==
  \E set \in mask, k \in 0..Level(lvl) : (set + 1) \div Pages[k] = bit + 1

\* __blk_get_status.
Status(mask, a, lvl) ==
  IF Bit(a, lvl) \in mask THEN "allocated"
  ELSE IF IsSplit(mask, Bit(a, lvl), lvl) THEN "split" ELSE "free"

-------------------------------------------------------------------------------
PushTail(fl, order, a) == [fl EXCEPT ![order] = Append(@, a)]
PopHead(fl, order) == [fl EXCEPT ![order] = Tail(@)]

\* kdlist_delete unlinks the node from whatever list it is in.
Unlink(fl, a) == [o \in Levels |-> RemoveFirst(fl[o], a)]

\* One pass of the while loop of __blk_alloc: when the order has no block,
\* split the smallest larger one, pushing both halves one order below.
\* Mutants: only the next order is tried; the second half is lost.
LargerByOne(fl, order) == {i \in (order + 1)..Orders : fl[i] # <<>> /\ i = order + 1}
Larger(fl, order) == {i \in (order + 1)..Orders : fl[i] # <<>>}
SplitInHalf(fl, order) ==
  IF fl[order] # <<>> \/ Larger(fl, order) = {} THEN fl
  ELSE LET i == CHOOSE i \in Larger(fl, order) : \A j \in Larger(fl, order) : i <= j
       IN PushTail(PopHead(fl, i), i - 1, Head(fl[i]))
SplitOnce(fl, order) ==
  IF fl[order] # <<>> \/ Larger(fl, order) = {} THEN fl
  ELSE LET i == CHOOSE i \in Larger(fl, order) : \A j \in Larger(fl, order) : i <= j
           a == Head(fl[i])
       IN PushTail(PushTail(PopHead(fl, i), i - 1, a), i - 1, BuddyOf(a, i - 1))

\* The loop ends after as many splits as there are orders in between.
SplitDown(fl, order) ==
  LET after[pass \in 0..Orders] == IF pass = 0 THEN fl ELSE SplitOnce(after[pass - 1], order)
  IN after[Orders]

\* One pass of the while loop of __blk_free: unless this is the whole memory or
\* the buddy is in use, merge the two and go on one level up.
\* Mutant: the loop ends below the top of the tree.
MergeBelowTop(at, mask) ==
  LET order == Level(at.lvl)
      buddy == BuddyOf(at.blk, order)
      low   == IF at.blk < buddy THEN at.blk ELSE buddy
  IN IF at.lvl <= 1 \/ Status(mask, buddy, at.lvl) # "free" THEN at
     ELSE [fl |-> PushTail(Unlink(Unlink(at.fl, at.blk), buddy), order + 1, low),
           blk |-> low, lvl |-> at.lvl - 1]

MergeOnce(at, mask) ==
  LET order == Level(at.lvl)
      buddy == BuddyOf(at.blk, order)
      low   == IF at.blk < buddy THEN at.blk ELSE buddy
  IN IF at.lvl = 0 \/ Status(mask, buddy, at.lvl) # "free" THEN at
     ELSE [fl |-> PushTail(Unlink(Unlink(at.fl, at.blk), buddy), order + 1, low),
           blk |-> low, lvl |-> at.lvl - 1]

MergeUp(fl, mask, a, lvl) ==
  LET after[pass \in 0..Orders] ==
        IF pass = 0 THEN [fl |-> fl, blk |-> a, lvl |-> lvl] ELSE MergeOnce(after[pass - 1], mask)
  IN after[Orders].fl

-------------------------------------------------------------------------------
Init ==
  /\ free_list = [o \in Levels |-> IF o = Orders THEN <<0>> ELSE <<>>]
  /\ tree_mask = {}
  /\ held = {}
  /\ res = Null /\ asked = Null

\* buddy_alloc when a block of the order exists or can be split off.
Alloc(bytes) ==
  LET order == SizeToOrder(bytes)
      fl    == SplitDown(free_list, order)
  IN /\ order \in Levels
     /\ fl[order] # <<>>
     /\ res' = Head(fl[order])
     /\ free_list' = PopHead(fl, order)
     /\ tree_mask' = tree_mask \cup {Bit(res', Level(order))}
     /\ held' = held \cup {[addr |-> res', order |-> order]}
     /\ asked' = bytes

\* buddy_alloc when the request is invalid or no block can be found.
AllocFails(bytes) ==
  LET order == SizeToOrder(bytes)
  IN /\ order \in Levels => SplitDown(free_list, order)[order] = <<>>
     /\ res' = Null /\ asked' = bytes
     /\ UNCHANGED <<free_list, tree_mask, held>>

\* The level buddy_free takes the block for: the deepest one at which the
\* address is aligned and its bit is set.
AllocatedLevels(a) == {l \in Levels : a % SizeOfLevel(l) = 0 /\ Bit(a, l) \in tree_mask}

\* The validation of buddy_free: its range test admits the address just behind
\* the memory.
InRange(addr) == addr >= 0 /\ ~(addr > Pages[Orders] * PageSize)
PageAligned(addr) == addr % PageSize = 0
Valid(addr) == InRange(addr) /\ PageAligned(addr)

\* The first pass of the loop of __blk_free goes on to a buddy behind the memory,
\* whose node was never linked: kdlist_delete follows pointers nobody has set.
\* (The node of the address just behind the memory, which is linked before, is
\* taken to fit in what BUDDY_XTRA leaves there.)
MergesAstray(mask, a, lvl) ==
  LET buddy == BuddyOf(a, Level(lvl))
  IN lvl # 0 /\ Status(mask, buddy, lvl) = "free" /\ buddy \notin Memory

\* Mutant: the bit of the freed block stays set.
FreeKeepsBit(a) ==
  /\ AllocatedLevels(a) # {}
  /\ LET lvl == CHOOSE l \in AllocatedLevels(a) : \A m \in AllocatedLevels(a) : l >= m
     IN free_list' = MergeUp(PushTail(free_list, Level(lvl), a), tree_mask, a, lvl)
  /\ held' = {h \in held : h.addr # a}
  /\ res' = 0 /\ asked' = Null
  /\ UNCHANGED tree_mask

\* __blk_free of the block that begins at page a.
FreeBlock(a) ==
  /\ AllocatedLevels(a) # {}
  /\ LET lvl  == CHOOSE l \in AllocatedLevels(a) : \A m \in AllocatedLevels(a) : l >= m
         mask == tree_mask \ {Bit(a, lvl)}
     IN /\ tree_mask' = mask
        /\ IF MergesAstray(mask, a, lvl) THEN res' = Undefined /\ UNCHANGED free_list
           ELSE /\ res' = 0
                /\ free_list' = MergeUp(PushTail(free_list, Level(lvl), a), mask, a, lvl)
  /\ held' = {h \in held : h.addr # a}
  /\ asked' = Null

Free(addr) == Valid(addr) /\ FreeBlock(addr \div PageSize)

FreeFails(addr) ==
  /\ ~Valid(addr) \/ AllocatedLevels(addr \div PageSize) = {}
  /\ res' = -1 /\ asked' = Null
  /\ UNCHANGED <<free_list, tree_mask, held>>

\* Nothing can be said of a call after memory was used that is not the allocator's.
Next ==
  /\ res # Undefined
  /\ \/ \E bytes \in Sizes : Alloc(bytes) \/ AllocFails(bytes)
     \/ \E addr \in FreeArgs : Free(addr) \/ FreeFails(addr)

Spec == Init /\ [][Next]_vars

-------------------------------------------------------------------------------
TypeOK ==
  /\ free_list \in [Levels -> Seq(Memory)]
  /\ tree_mask \subseteq 0..(Pages[Orders + 1] - 2)
  /\ held \subseteq [addr : Memory, order : Levels]
  /\ res \in {Null, -1} \cup Memory
  /\ asked \in Sizes \cup {Null}

\* The blocks in the free lists, one record per node.
BlocksIn(fl) == UNION {{[addr |-> a, order |-> o] : a \in ToSet(fl[o])} : o \in Levels}
FreeBlocks == BlocksIn(free_list)

PagesOf(b) == b.addr .. (b.addr + Pages[b.order] - 1)

\* Every page belongs to exactly one block, free or held, and every block is
\* aligned to its size: nothing is lost, handed out twice or listed twice.
Partition ==
  /\ \A p \in Memory : Cardinality({b \in FreeBlocks \cup held : p \in PagesOf(b)}) = 1
  /\ \A b \in FreeBlocks \cup held : b.addr % Pages[b.order] = 0
  /\ FreeBlocks \cap held = {}
  /\ \A o \in Levels : IsInjective(free_list[o])

\* tree_mask marks the held blocks and nothing else: buddy_free trusts it for
\* the size of a block, and the merge for the state of the buddy.
MaskAgrees == tree_mask = {Bit(h.addr, Level(h.order)) : h \in held}

\* The free lists, the mask and what clients hold tell the same story.
BlocksAccounted == Partition /\ MaskAgrees

\* Freeing merges as far as possible: two buddies are never both free.
Coalesced ==
  \A b \in FreeBlocks : b.order < Orders =>
    [addr |-> BuddyOf(b.addr, b.order), order |-> b.order] \notin FreeBlocks

\* "Validation (address in range and page aligned)" (buddy.c, 372): buddy_free
\* takes a block back only at an address that buddy_alloc returned and nobody
\* has freed.
FreeValidates ==
  [][\A addr \in FreeArgs : Free(addr) => \E h \in held : h.addr * PageSize = addr]_vars

\* The allocator implements the abstract one; above all, a block has the
\* smallest size that fits the request, and a request that could be served fails
\* only when no aligned room is left ("out_of_memory", buddy.c, 178).
Abstract == INSTANCE AbstractBuddy
ImplementsAbstract == Abstract!ASpec
===============================================================================
