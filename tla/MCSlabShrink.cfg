SPECIFICATION MCSpec
CONSTANTS
  Orders = 0
  PageSize = 4
  Word = 64
  Sizes = {}
  FreeArgs = {}
  Null = Null
  Undefined = Undefined
  Cpus = {c1, c2}
  Slabs = {s1, s2, s3}
  MemSize = 16
  Alignment = 4
  RedZone = 1
  MinSize = 2
  ObjSizes = {2}
  ShrinkIdle = TRUE
SYMMETRY Symmetry
PROPERTIES AllocFromLive
CHECK_DEADLOCK FALSE
