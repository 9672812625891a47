\* One target, two faults of any kind, an endless run.
CONSTANTS
  t1 = t1
  t2 = t2
  j1 = j1
  j2 = j2
  j3 = j3
  w1 = w1
  w2 = w2
  r1 = r1
  r2 = r2
  Targets = {t1}
  Jobs = {j1, j2}
  Workers = {w1}
  Requests = {}
  NoTarget = NoTarget
  NoJob = NoJob
  NoWorker = NoWorker
  Never = Never
  Intervals = {1}
  Lease = 1
  Cooldown = 0
  StuckQueuedAfter = 0
  StuckRunningAfter = 0
  MaxAge = 1
  FaultKinds = {"crash", "error", "enqueue", "stall", "redis"}
  MaxFaults = 2
  BucketCapacity = 2
  TokenCost = 2
  BucketLifetime = 5
  UsageLifetime = 2
  ThrottlePercent = 90
  ThrottleDelay = 4
  LastCall = 5
SPECIFICATION FairSpec
PROPERTIES
  EveryJobEnds
  EveryDueTargetWalked
