\* Two events, one of them an echo, and a row the queue refuses; passes may overlap after a stall.
CONSTANTS
  e1 = e1
  e2 = e2
  p1 = p1
  Events = {e1, e2, p1}
  Poison = {p1}
  Echoes = {e2}
  Orders <- PoisonAhead
  Runners = {r1, r2}
  BatchSize = 2
  PoisonAttempts = 2
  MaxFaults = 2
SPECIFICATION FairSpec
INVARIANTS
  StampedWasDelivered
PROPERTIES
  NeverQueuedOnceSettled
  EveryEventRelayed
  PoisonIsReported
\* With the table empty between passes nothing is left to do.
CHECK_DEADLOCK FALSE
