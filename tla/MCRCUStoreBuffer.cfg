SPECIFICATION Spec
CONSTANTS
  Readers = {r1}
  Writers = {w1}
  Objects = {o1, o2, o3}
  Null = Null
  MaxNest = 1
  MaxThreads = 3
  Publish = {"assign"}
  Retire = {"direct"}
  Cleaning = "alone"
  LoadsOvertake = TRUE
  CallMayFail = FALSE
SYMMETRY Symmetry
INVARIANTS ReaderSafe
CHECK_DEADLOCK FALSE
