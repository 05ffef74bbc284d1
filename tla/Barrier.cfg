SPECIFICATION FairSpec
CONSTANTS
  Threads = {t1, t2, t3, t4}
  Phases = 5
  StateMod = 2
INVARIANTS NoEarlyPass CountAgrees
PROPERTIES ImplementsAbstract AllPass
CHECK_DEADLOCK FALSE
