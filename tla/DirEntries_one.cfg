SPECIFICATION Spec
CONSTANTS
  Dirs = {1}
  Names = {a, b}
  Ids = {i1, i2}
  Tasks = {t1, t2}
  NoName = NoName
  NoId = NoId
  NoTask = NoTask
  NullsDistinct = FALSE
  MaxCuts = 2
SYMMETRY Symmetry
INVARIANT TypeOK
INVARIANT StagedTagHasOneOwner
INVARIANT ListableUnlessBlindOrOverlaid
CHECK_DEADLOCK FALSE
