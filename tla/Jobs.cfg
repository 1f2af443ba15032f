SPECIFICATION FairSpec
CONSTANTS
  Sessions = {s1}
  file = file
  folder = folder
  Entries <- MCEntries
  Requests = {r1, r2}
  Chunks <- MCChunks
  MaxJobs = 2
  NoEntry = NoEntry
  NoSession = NoSession
INVARIANTS
  SurvivorsAreNamed
  DoneMeansGone
  OutlivesItsSessionByOneEntry
  RunningJobsAreKnown
PROPERTIES
  EveryJobEnds
CHECK_DEADLOCK FALSE
