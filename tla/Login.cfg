SPECIFICATION FairSpec
CONSTANTS
  Tasks = {t1, t2, t3}
  Addresses = {a}
  Devices = {d1, d2}
  SessionIds = {s1}
  Concurrency = 1
  Queue = 1
  DeviceThreshold = 1
  AddressThreshold = 2
  BaseLockout = 1
  MaxLockout = 2
  ForgetAfter = 2
  MaxFailures = 3
  IdleCeiling = 2
  AbsoluteCeiling = 3
  SweepInterval = 1
  Lifetimes = {1, 4}
  NoCounter = NoCounter
  NoSession = NoSession
  NoSource = NoSource
INVARIANTS
  LateGuessesAreBounded
  KeysAreForgotten
PROPERTIES
  LockoutsEnd
