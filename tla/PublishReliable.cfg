\* One reply, every fault but those that break BullMQ's job exclusion.
CONSTANTS
  c1 = c1
  c2 = c2
  w1 = w1
  w2 = w2
  Comments = {c1}
  Workers = {w1, w2}
  TextOf <- DistinctTexts
  NoComment = NoComment
  NoWorker = NoWorker
  NoCopy = NoCopy
  Account = Account
  MaxPublishAttempts = 3
  ReconcileWindow = 2
  StuckQueuedAfter = 1
  StuckProcessingAfter = 4
  FaultKinds = {"crash", "error", "search", "enqueue"}
  MaxFaults = 2
  MaxTime = 6
SYMMETRY WorkerSymmetry
SPECIFICATION Spec
INVARIANTS
  TypeOK
  CopiesSpaced
  SendLeavesEvidence
PROPERTIES
  ImplementsLifecycle
\* Once every reply is settled nothing is left to do.
CHECK_DEADLOCK FALSE
