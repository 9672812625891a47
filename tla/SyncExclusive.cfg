\* One target, every fault: a walk may outlive its job, which is swept and replaced.
CONSTANTS
  t1 = t1
  t2 = t2
  j1 = j1
  j2 = j2
  j3 = j3
  w1 = w1
  w2 = w2
  r1 = r1
  r2 = r2
  Targets = {t1}
  Jobs = {j1, j2}
  Workers = {w1, w2}
  Requests = {r1}
  NoTarget = NoTarget
  NoJob = NoJob
  NoWorker = NoWorker
  Never = Never
  Intervals = {2}
  Lease = 1
  Cooldown = 1
  StuckQueuedAfter = 1
  StuckRunningAfter = 1
  MaxAge = 2
  FaultKinds = {"crash", "error", "enqueue", "stall", "redis"}
  MaxFaults = 1
  BucketCapacity = 2
  TokenCost = 2
  BucketLifetime = 5
  UsageLifetime = 2
  ThrottlePercent = 90
  ThrottleDelay = 4
  LastCall = 5
SYMMETRY JobAndWorkerSymmetry
SPECIFICATION Spec
INVARIANTS
  TypeOK
  OneRunner
PROPERTIES
  ImplementsTurns
