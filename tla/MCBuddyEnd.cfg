SPECIFICATION MCSpec
CONSTANTS
  Orders = 3
  PageSize = 4
  Word = 64
  Sizes <- MCSizes
  FreeArgs <- MCAround
  Null = Null
  Undefined = Undefined
  Cpus = {c1}
  Slabs = {s1}
  MemSize = 16
  Alignment = 4
  RedZone = 1
  MinSize = 2
  ObjSizes = {4}
  ShrinkIdle = FALSE
PROPERTIES FreeValidates
CHECK_DEADLOCK FALSE
