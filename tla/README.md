# Data-structures: a TLA+ model of the library

The repository is a C library of data structures and of a few low-level system
components, each a pair of a header and a source file with a small test program.
Three of them (read-write lock, barrier, RCU) run concurrently; the others are
used by one thread at a time. This directory models the library in TLA+, checks
the models with TLC and proves the main results with TLAPS.

    tlc -workers 2 -config RWLock.cfg RWLock        # one run
    tlapm RWLock_proofs.tla                         # one proof module

`PROJECT.json` lists the components, the runs, the mutants that show each property
can fail, the source lines each definition stands for, the hazards and the
theorems.

## 1. Inventory

Paths are below `src/src/` and `src/include/`.

| component | state | operations | what is hard | what makes it correct |
|---|---|---|---|---|
| read-write lock `synchronization/rwlock.c` | atomics `cnt` (readers, or -1) and `writers` (announced) | read/write lock, trylock, unlock | loads and compare-and-swaps of any number of threads interleave; weak CAS may fail spuriously; trylock must undo its announcement | readers exclude writers; counters mean what they say; pending writers are not overtaken; somebody gets through |
| barrier `synchronization/barrier.c` | atomics `count`, `state`; per thread the saved `crt_state` | `barrier_wait` | reset of `count` and advance of `state` are two steps; threads come round again before slow ones look; `state` wraps | nobody passes before all arrive; everybody passes |
| RCU `synchronization/rcu.c` | registered slots, nesting counters, callback list under a mutex | register, read lock/unlock, dereference, assign, synchronize, call, cleanup, destroy | `rcu_synchronize` reads counters one by one without the lock; callbacks of several writers share one list; store/load reordering; failed malloc | no object freed under a reader, twice, or never; synchronize waits for open sections and returns |
| buddy allocator `allocator/buddy.c` | a free list per order, a bit per tree node | alloc, free (split, merge) | long call sequences; index arithmetic; 32-bit rounding | blocks partition memory; buddies coalesce; a request fails only when no room is left |
| slab allocator `allocator/slab.c` | per cpu full, partial and free lists; per slab bitmap and count | create, alloc, free, shrink, destroy | frees through another cpu carry slabs over to its lists | a slab is in the list its count calls for; no object twice; no slab lost |
| doubly linked list `list/kdoubly_linked_list.c` | `next`, `prev` of every node | push, pop, delete, safe loop | removal under a running loop; stale links | both directions lead through the same nodes |
| singly linked list (intrusive) `list/ksingly_linked_list.c` | `next` of every node | push, pop, replace | the walks for the tail; stale links | as above |
| singly linked list `list/singly_linked_list.c` | `next`, the caller's head pointer | insert and delete at either end or next to an entry, removal of duplicates; middle, nth, palindrome, loop and its start | head updates, deletion two links back, the place where two pointers meet | a sequence of data; no entry lost; right answers |
| ring buffer `ring_buffer/rbuffer.c` | array, `head`, `tail`, `size` | push, pop | wrap, full against empty | bounded FIFO |
| queue `queue/queue.c` | array, `_h`, `_t` | enqueue, dequeue | slots are used once | FIFO that refuses exactly when its slots are used up |
| stack `stack/stack.c` | entries on a doubly linked list | push, pop, top, destroy | frees entries inside the loop | LIFO, owns its entries |
| min-heap, max-heap `heap/*.c` | array of copies made by callbacks | insert, delete, peek | index boundaries, ownership of copies | heap order; a priority queue |
| hash table `htable/htable.c` | buckets of nodes with copied key and value | insert, delete, destroy | three allocations that may fail; duplicate keys | a multimap; owns its copies |
| AVL tree `tree/avl_tree.c` | nodes with heights, callbacks for copies | insert, delete, prints | recursion that assigns links on the way back when an allocation failed below | balanced search tree of what was inserted |
| binary tree `tree/binary_tree.c` | nodes; a queue of 128 slots per traversal | level-order insert and delete, prints | the queue's slots are used once | complete tree of what was inserted |
| tree problems `tree/binary_tree_problems.c` | none (pure functions) | reconstruction from traversals, cousins, halves, perfect, foldable, sum trees, duplicates | error paths, sums of subtrees | agree with their definition |
| radix tree `tree/radix_tree.c` | nodes with edge strings | insert (split), remove (merge, clean up), lookup | edges merge on the way back up; failed allocations half way | a map from words |
| trie `tree/trie.c` | nodes with 26 children | insert, delete, search, word lists by prefix and regex | what deletion cuts off; pointers left to freed children | a set of words (it is not one: deletion takes others along) |
| graph `graph/graph.c` | adjacency matrix, visited flags | add edges; BFS, DFS, level, cycle detection, longest path, counting cycles, Bellman-Ford | queue capacity, order of relaxation | reachability, least weights |

**Interactions.** The stack, the hash table, the buddy and the slab allocator link
their blocks with the doubly linked list; RCU keeps its callbacks on the singly
linked one; trees and graph traverse with the queue, of whose used-once slots they
must be aware. Heaps, table and trees own copies made by callbacks of the client.
The concurrent components share state only through their atomics and, in RCU, a
mutex. Nothing is persisted and nothing crosses a network, so crash recovery and
message loss do not occur; the failures there are come from `malloc` and from
callbacks.

## 2. Modules

| module | models | checked by |
|---|---|---|
| `RWLock` (refines `AbstractRWLock`), `RWLock_proofs` | rwlock.c | run `rwlock`, tlapm |
| `Barrier` (refines `AbstractBarrier`), `Barrier_proofs` | barrier.c | run `barrier`, tlapm |
| `RCU`, `MCRCU`, `RCU_proofs` | rcu.c and its clients in test/rcu.c | `rcu`, `rcu_live`, `rcu_two_cleaners`, `rcu_store_buffer`, tlapm |
| `Buddy` (refines `AbstractBuddy`), `Buddy_proofs` | buddy.c | `allocators`, `buddy_end`, tlapm |
| `Slab` on `SlabParameters`, `Slab_proofs` | slab.c | `allocators`, `slab_shrink`, tlapm |
| `MCAllocators` | the two allocators side by side | `allocators`, `buddy_end`, `slab_shrink` |
| `KDList`, `KSList`, `KDList_proofs` (and the stack) | the two kernel-style lists | `linked`, tlapm |
| `SList` (refines `AbstractSequence`) | singly_linked_list.c | `linked` |
| `RingBuffer`, `Queue` (refine `AbstractFIFO`), `Stack` on `KDList` (refines `AbstractLIFO`), `Heap` (refines `AbstractPriorityQueue`), `HTable` (refines `AbstractMultimap`), `MCContainers` | the containers | `containers` |
| `Containers_proofs` (heap, ring buffer, queue, hash table, `BinaryTree`, trie) | the same | tlapm |
| `SequenceLemmas` | nothing of the code: what the proofs need of sequences | tlapm |
| `AVLTree` (refines `AbstractSet`) | avl_tree.c | `linked` |
| `BinaryTree` on `Queue` (refines `AbstractLevelOrder`) | binary_tree.c: level-order insertion and deletion | `linked`, tlapm |
| `TreeWalks` | binary_tree.c: trees linked by the client, traversals, measures | `linked` |
| `TreeProblems` on `TreeWalks` | binary_tree_problems.c | `linked` |
| `Graph` | graph.c | `linked` |
| `MCLinked` | the composition of lists, trees and graph | `linked` |
| `Trie` (stays within the bound `AbstractWords`) | trie.c | `containers`, `trie_delete`, tlapm |
| `RadixTree` (refines `AbstractMap`) | radix_tree.c | `containers` |

### How state and actions correspond to the code

- **RWLock.** `cnt` and `writers` are the two atomics; `c[t]` is the local copy a
  reader compares with, `pc[t]` the place of a thread between two accesses.
  Every action is one atomic access, so all interleavings of the accesses are there. The weak
  compare-and-swap may fail although the value matches. `ahead[t]` is history: the
  writers that waited when the reader called.
- **Barrier.** One action per access to `count` or `state`; `state` wraps at
  `StateMod`, which stands for 2^32 and is 2 in the run, the smallest value for which
  the waiting test can work. `round` and `phase` are history and do not wrap.
- **RCU.** A critical section under the mutex is one action, the counter accesses are
  one each, and `rcu_synchronize` advances an index slot by slot. The clients follow
  test/rcu.c: readers nest sections, writers replace the object by
  compare-and-swap or by `rcu_assign_pointer`, retire the old one by `rcu_call` or keep it to
  free it after `rcu_synchronize`, and clean up; main joins them, cleans up and
  destroys. `rcu_call` (`RetireByCall`) and entering `rcu_synchronize` (`Synchronize`) are steps of their own,
  between which other threads may do anything. `buf` holds a release store that other threads do not see yet.
- **Buddy.** Blocks are named by their first page, counted from the aligned start; what a client
  passes to `buddy_free` is an address in bytes, which the code's validation tests (`Valid`: range and alignment). A call that
  would merge with a node behind the memory, which nobody has linked, returns `Undefined`, and nothing is said of what follows. The free lists are
  sequences, the mask a set of tree positions, sizes are computed modulo `Word`; `Pages[order]`
  stands for `1 << order`. The loops that split and merge are functions of the number of their passes.
- **Slab.** A list is a sequence of slabs and an object an index in its slab; for
  every size the cache accepts a bitmap is one word. Pages that were freed may be
  handed out again.
- **KDList, KSList.** `next` and `prev` are functions on heads and nodes, updated in the
  order of the assignments; `lists` is history that says what each head should
  lead to. The safe loop keeps `pos` and `n` as the macro does, its body may delete `pos`.
- **Stack** uses the actions of `KDList` on one head and adds who owns the
  entries. Its destroying loop is a step per turn.
- **Heap** has one module for both files, which differ by the direction of
  comparisons (`Wrong`). A turn of a heapify loop is an action, which allows the
  order to be stated while the loop runs, no call being able to interleave.
- **HTable** takes a step per allocation of an insertion, each of which may fail.
  The client's hash function is any function, also one that leaves the buckets. `ret` is the return code. The
  walk of `htable_delete` along a bucket, which nothing can interleave with, is one operation on the bucket's sequence.

- **AVLTree.** A tree is a nested record, and the recursions are the code's. The
  callback that copies may fail: `copies` says how many more succeed in a
  deletion, and `InsertFails` is what the code does to the root when an allocation fails anywhere
  below. `usable` ends when the entry's root is freed memory or has lost its data.
- **BinaryTree.** The nodes' pointers, and one action per dequeue and per child that is
  looked at, on the queue of `Queue`. A failed assertion ends in "aborted".
- **TreeWalks, TreeProblems.** A tree is the set of its places, 1 for the root and 2n, 2n+1 for the
  children of n; the client links and destroys nodes as the tests do. Each loop over a stack
  or a queue is a recursive operator on what that holds, so a traversal is one value.
  The problems that compare data (sum trees, duplicates) are asked of data computed from the
  places, since no call changes them.
- **SList.** `mem` maps the memory of the list to the entries in it, so an entry that is
  freed and still led to, or allocated and not led to, is visible. The recursive searches keep the one
  or two entries the code's loops remember. `bent` says whether the client has bent the last
  link back into the list, which is how lists with loops come to be; it straightens it before
  it calls anything else. `call` is history for the refinement. The client's comparison
  callback is equality, and it removes duplicates from sorted lists only, as the
  function requires.
- **Trie.** A node is the path that leads to it. `dangling` holds the letters whose child of
  the root was freed while the root kept the pointer; `usable` ends when one of them is
  followed. Words are not empty.
- **RadixTree.** Nodes are nested records and the recursions are the code's; `allocs` and
  `reallocs` say how many more allocations of a call succeed. A failed reallocation in
  a merge leaves a node without a prefix and ends `usable`. Keys are not empty and the client's
  `_free` accepts NULL, which `radix_tree_destroy` passes to it.
- **Graph.** `mat` is the matrix, in which 0 is no edge. The flags in `visited` are scratch that
  every algorithm resets first, so they are an argument of the operators and not state. A recursive
  algorithm returns the flags together with its answer, loops over nodes are folds in the code's order.

## 3. Runs

| run | question | bounds, and why they suffice |
|---|---|---|
| `rwlock` | do three threads exclude each other, count right, respect waiting writers, implement the lock and progress? | 3 threads: two readers and a writer, or two writers and a reader, are the smallest groups in which a third thread can come between the steps of two; no other bound |
| `barrier` | does nobody pass early, and everybody pass? | 4 threads, 5 phases, wrap every second phase: a fast thread meets a slow one across two wraps |
| `rcu` | is nothing freed under a reader, twice or never? | 1 reader that nests twice, 2 writers racing on the pointer, 4 objects that are reused |
| `rcu_live` | does `rcu_synchronize` wait for all open sections, and return? | 2 readers so that one can restart the scan after the other, 1 writer, both ways to publish and to retire, failing allocations |
| `rcu_two_cleaners` | does a callback wait for all readers when two writers clean up? It does not | as `rcu` without nesting |
| `rcu_store_buffer` | is `rcu_assign_pointer` enough when loads may overtake its store? It is not | 1 reader, 1 writer, 3 objects |
| `allocators` | buddy: do the blocks partition memory and agree with the mask (`BlocksAccounted`), are buddies coalesced, and is room found when there is some? Slab: is every slab in the list its count calls for (`ListsMatchCounts`) and do the bitmaps know what clients hold (`BitmapsMatchHeld`), with cross-cpu frees? | buddy: 8 pages; requests of every order, the whole memory included, of zero bytes, of one byte more than the memory and of the largest 32-bit kind (64 stands for 2^32); frees at every page, inside pages and outside the memory. Slab: 2 cpus, 3 slabs; object sizes that put 4, 1 and 0 objects in a slab and one in between |
| `buddy_end` | does `buddy_free` reject every address outside? Not the first one behind | same, with that address |
| `slab_shrink` | is the slab an allocation takes from allocated? Not after a shrink | 2 cpus, 3 slabs, one size |
| `linked` | do the links represent the lists after any calls? Does the list with allocated entries implement a sequence? Does the AVL tree stay balanced and implement a set, the binary tree a level order that only breaks beyond its queue? Do all traversals, tree problems (`TreesAnswer`), questions on lists (`SListAnswers`) and graph algorithms (`GraphAnswers`, `DistancesLeast`) do what they are named for? | kernel-style lists: 2 heads, 3 nodes: first, middle and last position, moves between heads. Entries: 4 with 2 data values: repeated data, every length of tail and loop up to 4. AVL: every tree over 7 keys, which reach four levels, so that double rotations happen at the root and below it; at most two copies. Level order: 7 nodes, a queue of 6. Walks: all 677 trees of up to 4 levels. Graphs: 4 nodes; directed with up to 3 edges of weight -1 or 2, the fewest that have paths relaxed over three turns and negative cycles away from the source; undirected with up to 3 edges of weight 1 or 2, and every undirected one of weight 1 |
| `containers` | does each container implement its abstraction and own its memory (`MemoryOwned`)? Do ring buffer, queue and stack keep their order (`LinearContainersImplement`), does the radix tree implement a map (`RadixImplementsMap`)? Do the trie's word lists agree with its searches (`TrieListsMatch`), and does a deletion take only words on its own path (`TrieWithinBound`)? | heaps of up to 7 entries (three levels, every shape of the last parent) with 3 values; 4 slots; 3 entries; 2 keys in 2 buckets under every hash function; words of up to 3 letters over 2 letters: 6 in the trie, 5 with 2 values each in the radix tree, which begin one another, share edges to be split twice, and stand apart; every regex over those lengths |
| `trie_delete` | does a deletion from the trie take its own word only? It does not | as `containers`; "a" and "ab" suffice |

The three composed runs (`allocators`, `linked`, `containers`) exercise one component per
behaviour, so the state spaces add up.

**Fairness.** rwlock: every thread that is inside a call or holds the lock keeps being
scheduled (weak fairness on `Step`), since the code spins with `sched_yield` and
critical sections end; nobody has to call again; and a weak CAS does not fail
spuriously for ever. barrier: weak fairness per thread, which assumes that every
thread makes its calls, as the test does. RCU: weak fairness on a writer that has begun an
update; readers owe nothing, so they may sleep in a section for ever, and
`SyncEnds` has the premise that sections end and stop coming. That premise is
needed: a single reader that comes and goes can restart the scan for ever. So is that of
`ReadersResume`, since one thread that repeats `rwlock_write_trylock` can
shut readers out. Writer progress is progress of some writer: among writers the
compare-and-swap lets one starve.

## 4. Proofs

All theorems hold for any finite set of threads, nodes, slabs or entries, any capacity and any
values, under the assumptions named in the modules and, where one is named below, in the theorem.

**Read-write lock** (`RWLock_proofs`). Mutual exclusion is not inductive: a writer enters because `cnt`
is 0, so `cnt` must be known to count the readers, and a reader enters because `cnt`
equals its copy `c`, so `c` must be known to be non-negative there. `IInv` joins
types, exclusion, the meaning of both counters, that fact on `c`, and what `ahead`
may contain. From it: `TypeCorrect`, `Exclusion`, `Counters`, `Priority` (no
reader overtakes a writer that waited first) and `Implementation` (refinement of
`AbstractRWLock`).

**Barrier** (`Barrier_proofs`). `IInv` joins types, how `state`, `phase` and saved states of the threads relate,
that only one thread is ever last, and what `count` counts; that the last
arrival is really last needs a counting argument on cardinalities. From it:
`Safety`, `Counting`, `Implementation`. The wrap needs `StateMod >= 2` only, because
nobody is two phases ahead.

**RCU** (`RCU_proofs`), in three layers.

- `IInv` is about slots and scans. `TypeCorrect` includes that the registered slots fit the
  array, which needs that no thread holds two slots, the pigeonhole principle, and the
  assumption that no more than `MaxThreads` threads exist: `rcu_register_thread`
  does not test it. `FullGracePeriod`: a reader that was inside when
  `rcu_synchronize` began and still is stands in a slot the scan has not passed since
  it last started.
- `MemInv` adds where an object is: in one place only among a writer's new and old object, the store buffers,
  the pointer, the callback list and the parts of it being run, and in that once
  (`PlaceInv`), with what the writers' and main's program counters say about those places. `FreesOnce`
  follows, whenever writers clean up.
- `SafeInv` adds that what a reader uses is allocated, and that whoever is about to free it is a writer
  that still waits for that very reader, or has not entered `rcu_synchronize` yet (`UseInv`). `ReadersAreSafe` and `CallbacksAfterReaders` follow. `NothingIsLost` says with
  `KeptInv` that every allocated object is in one of those places.

  The assumptions are the ones without which runs show the properties to fail, or the clients leak by design.
  `OrderedStores`: loads do not overtake the release store (`rcu_store_buffer` shows what happens
  otherwise), and `rcu_assign_pointer` is used by a single writer, since two that publish with it lose
  each other's object. `Cleaning = "alone"`, for the two safety theorems only: no writer cleans up while another one has its grace period before it, that is, is about to retire
  its object, has done so, or waits (`rcu_two_cleaners`). `CallMayFail = FALSE`, for `NothingIsLost` only: after a failed malloc in `rcu_call` the caller has
  nobody to hand the object to.

**Slab** (`Slab_proofs`). `ListsMatchCounts` is not inductive without the bitmaps: that a slab taken from the partial
list has room follows from `count` being the cardinality of its bits, and that the bits have a free place below
`Per` from a finite set being smaller than an interval. `Inv` joins types, `BitsInv` (the
bits are exactly the objects held and `count` counts them), `PlaceInv` (each slab in one list at most, once, the one for its
count) and `AliveInv` (no allocated slab drops out of the lists). From it: `BitmapsAgree`, `ListsAgree`,
`AllocatesFromLive`, `TypeCorrect`. They assume `ShrinkIdle = FALSE`: the client calls `slab_cache_shrink`
only for a cpu whose free list is empty. Otherwise the call leaves freed slabs in the list, which `slab_shrink` shows.

**Buddy allocator** (`Buddy_proofs`). `BlocksAccounted` and `Coalesced` are proved together, as `IInv`: the free lists and the held
blocks are aligned and tile the memory (`Good`), no two free blocks are halves of the same one, and the mask has
exactly the bits of the held blocks. `StatusMeans` shows that then `__blk_get_status` tells free from in
use, for which the bits above and below a block must be told from those of others by the arithmetic of the tree; that a block is aligned means
that of two blocks that share a page one contains the other (`Covered`). `SplitDownDoes`: after the splitting loop the list of the order is not empty
or there was no larger free block; in between two free halves are only where the last pass made them, below which every list is empty. `MergeUpDoes`:
the merging loop keeps the tiling with one pair of free halves at most, the one it is about to merge, and ends without one. `OrderFits` and `OnlyFit` say that the rounding
in `SIZE_2_ORDER` gives the smallest order that holds the request, modulo 2^32. The loops are recursive functions of
the pass; what they do is shown with `WalkExists` and `Climb` (`SequenceLemmas`), again by least pass and not by induction. From
it: `Accounted`, `Merged`, `FreeTakesWhatIsHeld`, `TypeCorrect` and `Implementation` (refinement of `AbstractBuddy`), where that a
request fails only without room is the reason why coalescing matters. They assume `Pages[Orders] * PageSize \notin FreeArgs`: nobody frees
the address just behind the memory, which `buddy_end` shows to be necessary.

**Heap** (`Containers_proofs`). `HeapOrder` is stated so that it holds in the middle of a heapify loop: every entry stands right below its parent but
at the index the loop is at, whose children stand right below its parent. With types and `LoopInv` (that index is in the heap) it is inductive;
each turn is a case distinction over the three or four entries that a swap touches, and the index arithmetic is in lemmas of its
own. From it: `HeapStaysOrdered`, `HeapTypes`. `HeapOwnsCopies` adds that the entries are different copies, all allocated and no
others. `HeapImplementsQueue` (refinement of `AbstractPriorityQueue`) needs that the root comes first of all, for
which a least index that does not come after the root would have a parent with a smaller index; a swap maps to stuttering, since the
bag of entries stays the same.

**Doubly linked list** (`KDList_proofs`). The invariant says place by place that `next` goes from the cell at place i of a
ring to that at i + 1 and `prev` back (`Rings`), each ring without a repetition, and that the rings
share no node (`Apart`). All pushes are instances of one lemma on putting a node at place k + 1 (`InsertKeepsRing`), all deletions of one on
bypassing a place (`RemoveKeepsRing`). `LoopInv` adds for the safe loop that there is a place d such that the list behind d is what the list it
began with has behind the nodes seen. From it: `LinksLead` (the invariant `Represents`), `LoopIsSafe` (`LoopSeesAll`: every node is
seen once and in order, although the body deletes and the links of what is deleted become anything), `TypeCorrect`.

**Singly linked list** (`KDList_proofs` too, which shares the lemmas on what pushes and pops do to the list). `KInv` says the same of
chains that end in `Null` (`Chain`). A call that walks, to the last cell or to the one before a node, needs to know where it stops:
`WalkStops` shows that `WalkTo`, bounded by the number of nodes, stops before the first end on the chain, since a list
without repetitions is no longer than there are nodes; the walk and the chain cannot part at a least place, so no induction is needed. Each call is then
one of three: put a node at a place (`KPush`), bypass one (`KPop`), put another in its place (`KRelink`). From it:
`SingleLinksLead` (the invariant `Represents` of `KSList`), for finitely many nodes.

**Ring buffer, queue and stack** (`Containers_proofs`, the stack in `KDList_proofs`). `RingInv`: `tail` is `head + size` around the end. Every access is then
a place counted from `head`, and the modulo a subtraction at most (`RingSlots`); `RingImplementsFIFO` follows by comparing the contents before and after
position by position. `QueueImplementsFIFO` needs `0 <= h <= t <= Size` only. Both refinements are exact: `AbstractFIFO` has a variable for
the room that is left, and a call is refused if and only if there is none; they differ in whether a value that leaves makes room (`SlotsReused`). `StackImplementsLIFO` and `StackOwnsEntries` use the invariant of
`KDList` on one head, which is why they assume `Heads = {Top}`: the contents are read off `next` alone, and `PathIs` shows that the only way `next` leads from the head
around to it is the list (two ways cannot part at a least place). `StackInv` adds which entries are
allocated, in the destroying loop those it has not visited. They assume finitely many entries and that `Null` is not
a loop.

**Hash table** (`Containers_proofs`). `TableInv`: every entry is in the bucket the hash function gives its key, and what is allocated is
what the buckets hold and, in the middle of an insertion, the parts its place in the call has got. The count of entries, what a
deletion leaves and the values of a key are recursive functions; instead of an induction, `WalkExists` and `WalksAgree` (`SequenceLemmas`) show
that a function that takes such steps exists and that two that do are the same, again by least place. From it:
`TableOwnsEntries`, `TableImplementsMultimap` (refinement of `AbstractMultimap`), for any number of buckets, none included, and any hash
function, also one that leaves them; they assume that `Null` is not an entry.

**Binary tree** (`Containers_proofs`). `AbortsOnlyBeyondQueue` needs to know what the
queue has taken in. `Good(s)` says that the pointers lay out the sequence s of nodes, node i having those at 2i and 2i + 1 for
children (`Laid`), and that a running traversal has taken the first `h` of s out of the queue and put the first `t` in, `t` being
the number of places it has looked at, but at most the length of s (`Walking`); `parent` and `to_delete` are told by `t` and `h`. `At`, which
the model defines by recursion on the place, is shown to be that layout by least place (`AtHolds`), which needs no
induction. Each action then appends a node to s (`Attach`), takes the last one off (`Detach`), empties s or leaves it alone. From it:
`TreeLevelByLevel`, `TreeAborts`, `TreeImplementsLevelOrder` (refinement of `AbstractLevelOrder`), for finitely many nodes, `Null` not among them, and a
queue of at least one slot.

**Trie** (`Containers_proofs`). `TrieInv`: nodes are paths of at least one letter, every path that begins one of a node is a node,
only nodes are marked and none lies behind a dangling pointer of the root. How far `trie_longest_prefix` reaches (`Reach`) and that a path branches
wherever another leaves it (`Leaves`) give what a deletion takes (`GoneIs`): the first place where a path it takes differs from the word
would be a branching behind the last one, so it takes only words that begin its own or that it begins; and all of the tree if nothing
branches, which is the one case that leaves a dangling pointer. From it: `TrieReachesAll` and `TrieStaysWithinBound` (refinement of
`AbstractWords`, which is a bound and no set of words, see `trie_delete`), for words of at least one letter. That the word lists are complete and in order stays with TLC (`TrieListsMatch`): they
are defined by recursion on the tree, which would need induction.

Only model-checked, and why:

- Liveness (`WriterProgress`, `ReadersResume`, `AllPass`, `SyncEnds`): fairness and ENABLED are outside the reach of the prover.
- `SList`, `RadixTree`, `Graph`, `TreeWalks`, `TreeProblems` and `AVLTree` follow the recursions of the code with
  RECURSIVE operators, which the prover cannot reason about.

## 5. Where the code and what is said of it disagree

Shown by a run: a callback may run before its grace period when two writers clean up
(`rcu_two_cleaners`); `rcu_assign_pointer` needs a full fence before the scan
(`rcu_store_buffer`); `buddy_free` accepts the address just behind the memory
(`buddy_end`); a shrunk slab cache allocates from freed slabs (`slab_shrink`); `trie_delete`, documented as "Remove an entry
from a trie" (trie.c:317), removes other words with it (`trie_delete`).

- `buddy_end`: the bit of that address at an inner level l is 2^(l+1)-1, the bit of the first block one
  level down, so `buddy_free` takes it for a held block. It then merges it with its buddy, which lies behind the memory
  too: `kdlist_delete` follows the pointers of a node that nobody has written. At the root's level there is nothing to merge with,
  and the address goes to the free list.
- `trie_delete`: it cuts the path below its last branching, where words that end on the way do not count as a
  branching. With "a" and "ab" in the trie, deleting either removes both.
  `AbstractWords` says what remains true.

Seen while reading, and modelled as the code has it or left out:

- `rwlock_write_trylock` tests `writers` after it has added itself, so it never gets
  the lock; in `RWLock` it always fails, and the compare-and-swap behind the test is unreachable.
- `rcu_destroy` walks a list that is not empty one step too far. In `RCU` that
  is a crash; main's own cleanup keeps every behaviour away from it.
- `stack_top` reads in front of the head when the stack is empty; `Stack` lets it
  return anything.
- `htable_delete` returns -4 when it has walked the bucket, whatever it found there; `HTable` does the same (`ret`). The table's
  size stays 0, so the test of a full table fails only for one without buckets; `HTable` leaves the variable out.
- `avl_tree_delete` of the only element frees the root, reports an error and keeps
  the pointer; a failed insertion drops a whole side of the root. `AVLTree` does the same (`usable`).
- `binary_tree_divide_two_halves` does not destroy its queue when it finds the halves.
- `binary_tree_by_traversals` checks one inclusion only, and the buffers of its halves
  are too small for data that repeat; `TreeProblems` has data that differ.
- Object sizes just below the slab size pass `slab_cache_create` and the first allocation
  ends in an assertion (`Slab`, status "aborted").
- `trie_delete` also deletes a path that is no word, and when the path is the only one, the root keeps a pointer to the
  freed child. `Trie` does the same (`dangling`).
- `trie_get_leafs_by_prefix` and `trie_print_leafs_by_prefix` promise all words for a prefix that is NULL, but jump to the
  recursive lookup with `tmp` uninitialised (trie.c:447-449 and 538-540). `Trie` leaves the NULL prefix out, as the models do with
  all NULL arguments; its empty prefix is the empty string, which starts at the root.
- `graph_node_level` does not test the node it is given; for one beyond the graph it answers level -1 (`NodeLevel(N)`). The
  other calls refuse such a node before they read anything.
- After some orders of removals the radix tree keeps nodes that lead to no word (with "a", "ab", "abb",
  removing the shorter ones first), since a node with children only loses its data and its parent is not
  compacted then; `radix_tree_is_empty` stays false, although all lookups are right. `RadixTree` does the same.
- A `realloc` that fails in `__node_merge` has already lost the prefix of the node; `RadixTree` lets the
  tree be unusable afterwards.

## 6. Not modelled, and the plan

Every component of the library has a module. Not modelled: printing and dump functions
(the orders of the binary tree's and the graph's prints are), the content of red zones, alignment
padding, test drivers other than test/rcu.c, `words.txt`. A `malloc` that fails in a
create function leaves nothing behind and is left out, as is one that fails while the trie
builds a word list, and arguments that are NULL.
