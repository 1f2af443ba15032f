SPECIFICATION Spec
CONSTANTS
  Tasks = {t1, t2}
  MaxMessages = 2
  MaxAttempts = 2
  Life = 2
  Margin = 1
  CacheSize = 1
  Page = 1
SYMMETRY Symmetry
INVARIANTS
  OrphansHaveACause
  KeptIsWhole
  StaleUrlsAreResolvedAgain
  ScanMissesNothing
CHECK_DEADLOCK FALSE
