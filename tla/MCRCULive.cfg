SPECIFICATION FairSpec
CONSTANTS
  Readers = {r1, r2}
  Writers = {w1}
  Objects = {o1, o2, o3}
  Null = Null
  MaxNest = 1
  MaxThreads = 3
  Publish = {"cas", "assign"}
  Retire = {"call", "direct"}
  Cleaning = "alone"
  LoadsOvertake = FALSE
  CallMayFail = TRUE
PROPERTIES GracePeriod SyncEnds
CHECK_DEADLOCK FALSE
