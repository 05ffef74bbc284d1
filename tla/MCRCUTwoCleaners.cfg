SPECIFICATION Spec
CONSTANTS
  Readers = {r1}
  Writers = {w1, w2}
  Objects = {o1, o2, o3, o4}
  Null = Null
  MaxNest = 1
  MaxThreads = 3
  Publish = {"cas"}
  Retire = {"call"}
  Cleaning = "any"
  LoadsOvertake = FALSE
  CallMayFail = FALSE
SYMMETRY Symmetry
PROPERTIES CallbackAfterReaders
CHECK_DEADLOCK FALSE
