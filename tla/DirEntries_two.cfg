SPECIFICATION Spec
CONSTANTS
  Dirs = {1, 2}
  Names = {a}
  Ids = {i1, i2}
  Tasks = {t1, t2}
  NoName = NoName
  NoId = NoId
  NoTask = NoTask
  NullsDistinct = TRUE
  MaxCuts = 1
SYMMETRY Symmetry
INVARIANT ListableUnlessBlindOrOverlaid
PROPERTY LocksInOrder
CHECK_DEADLOCK FALSE
