---------------------------- MODULE SlabParameters ----------------------------
(***************************************************************************)
(* The parameters of the slab allocator of allocator/slab.c, and how many  *)
(* objects of a size a slab holds.                                         *)
(***************************************************************************)
EXTENDS Integers

CONSTANTS
  Cpus,
  Slabs,       \* the pages posix_memalign can return; it reuses freed ones
  MemSize,     \* SLAB_MEM_SIZE: bytes for objects in a slab
  Alignment,   \* SLAB_OBJ_ALIGNMENT
  RedZone,     \* RED_ZONE_SIZE
  MinSize,     \* SLAB_OBJ_MIN_SIZE
  ObjSizes,    \* the object sizes clients ask slab_cache_create for
  ShrinkIdle   \* do clients call slab_cache_shrink while it has work to do?

\* obj_size_align and obj_per_slab as slab_cache_create computes them.
AlignUp(x) == ((x + Alignment - 1) \div Alignment) * Alignment
ObjPerSlab(size) == MemSize \div AlignUp(size + RedZone)

ASSUME ObjSizesAssumption ==
  /\ {MemSize, Alignment, MinSize} \subseteq Nat \ {0} /\ RedZone \in Nat
  /\ ObjSizes \subseteq Nat /\ \A size \in ObjSizes : ObjPerSlab(size) < 64
ASSUME ShrinkAssumption == ShrinkIdle \in BOOLEAN
===============================================================================
