SPECIFICATION MCSpec
CONSTANTS
  Orders = 3
  PageSize = 4
  Word = 64
  Sizes <- MCSizes
  FreeArgs <- MCInside
  Null = Null
  Undefined = Undefined
  Cpus = {c1, c2}
  Slabs = {s1, s2, s3}
  MemSize = 16
  Alignment = 4
  RedZone = 1
  MinSize = 2
  ObjSizes = {2, 4, 10, 16}
  ShrinkIdle = FALSE
SYMMETRY Symmetry
INVARIANTS BlocksAccounted Coalesced ListsMatchCounts BitmapsMatchHeld
PROPERTIES ImplementsAbstract
CHECK_DEADLOCK FALSE
