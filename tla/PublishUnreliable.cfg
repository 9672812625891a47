\* One reply whose job may run twice at once.
CONSTANTS
  c1 = c1
  c2 = c2
  w1 = w1
  w2 = w2
  Comments = {c1}
  Workers = {w1, w2}
  TextOf <- DistinctTexts
  NoComment = NoComment
  NoWorker = NoWorker
  NoCopy = NoCopy
  Account = Account
  MaxPublishAttempts = 2
  ReconcileWindow = 0
  StuckQueuedAfter = 0
  StuckProcessingAfter = 1
  FaultKinds = {"crash", "stall", "redis"}
  MaxFaults = 1
  MaxTime = 2
SYMMETRY WorkerSymmetry
SPECIFICATION Spec
INVARIANTS
  OneRowPerCopy
  PostedIsOnPlatform
  OutcomeAnnounced
  NoGhostAnnouncement
\* Once every reply is settled nothing is left to do.
CHECK_DEADLOCK FALSE
