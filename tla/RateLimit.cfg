SPECIFICATION FairSpec
CONSTANTS
  t1 = t1
  t2 = t2
  t3 = t3
  post = post
  get = get
  bucket = bucket
  Tasks = {t1, t2, t3}
  Routes = {post, get}
  Buckets = {bucket}
  RouteOf <- MCRouteOf
  BucketOf <- MCBucketOf
  MaxConcurrency = 2
  MaxAttempts = 2
  Limit = 1
  Window = 2
  Unknown = Unknown
INVARIANTS
  NeverOverspent
PROPERTIES
  PausesAreWaitedOut
  EveryRequestEnds
