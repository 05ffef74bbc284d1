SPECIFICATION FairSpec
CONSTANTS
  Threads = {t1, t2, t3}
  WeakCasMayFail = TRUE
INVARIANTS MutualExclusion CountersAgree
PROPERTIES NoOvertaking ImplementsAbstract WriterProgress ReadersResume
