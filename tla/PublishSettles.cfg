\* Progress of one reply through two faults.
CONSTANTS
  c1 = c1
  c2 = c2
  w1 = w1
  w2 = w2
  Comments = {c1}
  Workers = {w1}
  TextOf <- DistinctTexts
  NoComment = NoComment
  NoWorker = NoWorker
  NoCopy = NoCopy
  Account = Account
  MaxPublishAttempts = 3
  ReconcileWindow = 2
  StuckQueuedAfter = 1
  StuckProcessingAfter = 5
  FaultKinds = {"crash", "error", "search", "enqueue"}
  MaxFaults = 2
  MaxTime = 14
SPECIFICATION FairSpec
PROPERTIES
  EveryReplySettles
\* Once every reply is settled nothing is left to do.
CHECK_DEADLOCK FALSE
