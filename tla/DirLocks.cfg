SPECIFICATION FairSpec
CONSTANTS
  Dirs = {1, 2}
  Tasks = {t1, t2, t3}
  Locks = {1, 2, 3}
  NoLock = NoLock
  NoTask = NoTask
  Nesting = {t1, t2}
  MaxDepth = 2
INVARIANT RegistryServesEveryUser
INVARIANT RegistryDoesNotGrow
INVARIANT OnlyNestingEntangles
PROPERTY NoOvertaking
PROPERTY EveryCallerGetsIn
PROPERTY ImplementsMutex
