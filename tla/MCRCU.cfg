SPECIFICATION Spec
CONSTANTS
  Readers = {r1}
  Writers = {w1, w2}
  Objects = {o1, o2, o3, o4}
  Null = Null
  MaxNest = 2
  MaxThreads = 3
  Publish = {"cas"}
  Retire = {"call"}
  Cleaning = "alone"
  LoadsOvertake = FALSE
  CallMayFail = FALSE
SYMMETRY Symmetry
INVARIANTS TypeOK ReaderSafe NothingLost
PROPERTIES FreedOnce
CHECK_DEADLOCK FALSE
