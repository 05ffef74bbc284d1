--------------------------------- MODULE Slab ---------------------------------
(***************************************************************************)
(* The slab allocator of allocator/slab.c: one cache with a full, a        *)
(* partial and a free list of slabs per cpu.  The cache has no lock and is *)
(* used by one thread at a time, as in test/slab.c; an action is one call. *)
(* A list is the sequence of its slabs, a bitmap the set of its 1 bits     *)
(* (one 64-bit word is enough for every object size the cache accepts), an *)
(* object a pair of a slab and an index.                                   *)
(***************************************************************************)
EXTENDS SlabParameters, FiniteSets, Sequences, SequencesExt

VARIABLES
  status,  \* "none" before create and after destroy, "alive", "aborted"
  size,    \* slab_cache_t.obj_size
  lists,   \* slab_cache_t._cpu: lists[cpu][class] is a sequence of slabs
  used,    \* slab_t.bitmap: the indices of the allocated objects
  count,   \* slab_t.count
  live,    \* the slabs that are allocated memory
  held     \* history: the objects clients hold

vars == <<status, size, lists, used, count, live, held>>

Classes == {"full", "partial", "free"}
NoLists == [c \in Cpus |-> [k \in Classes |-> <<>>]]
Listed(c, k) == ToSet(lists[c][k])
Per == ObjPerSlab(size)

Init ==
  /\ status = "none"
  /\ size = 0
  /\ lists = NoLists
  /\ used = [s \in Slabs |-> {}]
  /\ count = [s \in Slabs |-> 0]
  /\ live = {}
  /\ held = {}

\* slab_cache_create: the accepted sizes are MinSize to MemSize.
Create(sz) ==
  /\ status = "none"
  /\ MinSize <= sz /\ sz <= MemSize
  /\ status' = "alive"
  /\ size' = sz
  /\ lists' = NoLists
  /\ UNCHANGED <<used, count, live, held>>

-------------------------------------------------------------------------------
\* kdlist_delete takes the slab out of whatever list it is in, kdlist_push_tail
\* appends it to one list of a cpu.
Unlink(s) == [c \in Cpus |-> [k \in Classes |-> RemoveFirst(lists[c][k], s)]]
Move(s, c, k) == [Unlink(s) EXCEPT ![c][k] = Append(@, s)]

\* __slab_alloc takes the lowest free object of the slab; the slab then joins
\* the full list or, unless it is there already, the partial list of the cpu.
TakeObject(s, c, bits, n) ==
  LET i == CHOOSE i \in 0..(Per - 1) : i \notin bits /\ \A j \in 0..(i - 1) : j \in bits
  IN /\ used' = [used EXCEPT ![s] = bits \cup {i}]
     /\ count' = [count EXCEPT ![s] = n + 1]
     /\ held' = held \cup {<<s, i>>}
     /\ lists' = IF n + 1 = Per THEN Move(s, c, "full")
                 ELSE IF s \in Listed(c, "partial") THEN lists
                 ELSE Move(s, c, "partial")

\* slab_cache_alloc from the first partial slab of the cpu.
AllocPartial(c) ==
  /\ status = "alive"
  /\ lists[c]["partial"] # <<>>
  /\ LET s == Head(lists[c]["partial"]) IN TakeObject(s, c, used[s], count[s])
  /\ UNCHANGED <<status, size, live>>

\* slab_cache_alloc from the first free slab of the cpu.
AllocFree(c) ==
  /\ status = "alive"
  /\ lists[c]["partial"] = <<>> /\ lists[c]["free"] # <<>>
  /\ LET s == Head(lists[c]["free"]) IN TakeObject(s, c, used[s], count[s])
  /\ UNCHANGED <<status, size, live>>

\* slab_cache_alloc from a new slab; assert(_bits) in __slab_alloc ends the
\* program when a slab has no room for even one object.
AllocNew(c) ==
  /\ status = "alive"
  /\ lists[c]["partial"] = <<>> /\ lists[c]["free"] = <<>>
  /\ \E s \in Slabs \ live :
       /\ live' = live \cup {s}
       /\ IF Per = 0 THEN status' = "aborted" /\ UNCHANGED <<lists, used, count, held>>
          ELSE TakeObject(s, c, {}, 0) /\ UNCHANGED status
  /\ UNCHANGED size

\* slab_cache_free, through any cpu.  An object whose bit is clear fails an
\* assertion; a slab that leaves its class moves to a list of the caller's cpu.
\* Mutant: a full slab stays in the full list.
FreeStaysFull(s, i, c) ==
  /\ status = "alive" /\ s \in live
  /\ i \in used[s]
  /\ used' = [used EXCEPT ![s] = @ \ {i}]
  /\ count' = [count EXCEPT ![s] = @ - 1]
  /\ held' = held \ {<<s, i>>}
  /\ lists' = IF count[s] = 1 THEN Move(s, c, "free") ELSE lists
  /\ UNCHANGED <<status, size, live>>

\* Mutant: the bit of the freed object stays set.
FreeKeepsBit(s, i, c) ==
  /\ status = "alive" /\ s \in live
  /\ i \in used[s]
  /\ count' = [count EXCEPT ![s] = @ - 1]
  /\ held' = held \ {<<s, i>>}
  /\ lists' = IF count[s] = 1 THEN Move(s, c, "free")
              ELSE IF count[s] = Per THEN Move(s, c, "partial") ELSE lists
  /\ UNCHANGED <<status, size, live, used>>

Free(s, i, c) ==
  /\ status = "alive" /\ s \in live
  /\ i \in used[s]
  /\ used' = [used EXCEPT ![s] = @ \ {i}]
  /\ count' = [count EXCEPT ![s] = @ - 1]
  /\ held' = held \ {<<s, i>>}
  /\ lists' = IF count[s] = 1 THEN Move(s, c, "free")
              ELSE IF count[s] = Per THEN Move(s, c, "partial") ELSE lists
  /\ UNCHANGED <<status, size, live>>

\* slab_cache_shrink frees the slabs of the free list and leaves the list as it
\* is, so it is harmless only when that list is empty.
Shrink(c) ==
  /\ status = "alive"
  /\ ShrinkIdle \/ lists[c]["free"] = <<>>
  /\ live' = live \ Listed(c, "free")
  /\ UNCHANGED <<status, size, lists, used, count, held>>

\* slab_cache_destroy frees every slab of every list.
Destroy ==
  /\ status = "alive"
  /\ live' = live \ UNION {Listed(c, k) : c \in Cpus, k \in Classes}
  /\ lists' = NoLists
  /\ held' = {}
  /\ used' = [s \in Slabs |-> {}]
  /\ count' = [s \in Slabs |-> 0]
  /\ status' = "none"
  /\ size' = 0

Next ==
  \/ \E sz \in ObjSizes : Create(sz)
  \/ \E c \in Cpus :
       \/ AllocPartial(c) \/ AllocFree(c) \/ AllocNew(c) \/ Shrink(c)
       \/ \E s \in Slabs : \E i \in used[s] : Free(s, i, c)
  \/ Destroy

Spec == Init /\ [][Next]_vars

-------------------------------------------------------------------------------
TypeOK ==
  /\ status \in {"none", "alive", "aborted"}
  /\ size \in {0} \cup ObjSizes
  /\ lists \in [Cpus -> [Classes -> Seq(Slabs)]]
  /\ used \in [Slabs -> SUBSET (0..(IF size = 0 THEN -1 ELSE Per - 1))]
  /\ count \in [Slabs -> 0..(IF size = 0 THEN 0 ELSE Per)]
  /\ live \subseteq Slabs
  /\ held \subseteq Slabs \X (0..63)

\* The class a slab belongs to by its count.
ClassOf(s) == IF count[s] = 0 THEN "free" ELSE IF count[s] = Per THEN "full" ELSE "partial"

\* Every slab is in one list, once, and in the list its count calls for,
\* through frees from other cpus that carry it over to their own lists: a full
\* slab in a partial list would fail the assertion of __slab_alloc, and one that
\* dropped out of the lists would outlive the cache.
ListsMatchCounts ==
  /\ status = "none" => live = {}
  /\ status = "alive" =>
       /\ \A s \in live : Cardinality({c \in Cpus : s \in Listed(c, ClassOf(s))}) = 1
       /\ \A c \in Cpus, k \in Classes : IsInjective(lists[c][k])
       /\ \A c \in Cpus, k \in Classes : \A s \in Listed(c, k) : ClassOf(s) = k

\* The bitmaps know exactly the objects clients hold, and count counts them: no
\* object is handed out twice, and a double free never gets past the bitmap.
BitmapsMatchHeld ==
  /\ held = UNION {{s} \X used[s] : s \in Slabs}
  /\ \A s \in Slabs : count[s] = Cardinality(used[s])

\* "If any free slab found, perform the allocation" (slab.c, 440): the slab an
\* allocation takes its object from is allocated memory.
AllocFromLive ==
  [][\A c \in Cpus : AllocFree(c) => Head(lists[c]["free"]) \in live]_vars
===============================================================================
