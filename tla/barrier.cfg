SPECIFICATION FairSpec
CONSTANTS
  Threads = {t1, t2, t3, t4}
  ncores = 4
  MaxRounds = 3
INVARIANTS
  TypeOK
  CountIsArrivals
  NobodyLeftBehind
PROPERTIES
  Refines
  RoundsComplete
