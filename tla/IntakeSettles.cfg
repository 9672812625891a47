\* One delivery to two workspaces, the first with any credential, the second with a good one.
CONSTANTS
  p = p
  junk = junk
  e1 = e1
  e2 = e2
  a1 = a1
  a2 = a2
  Slots = {d1}
  Payloads = {p, junk}
  Malformed = {junk}
  Accounts = {a1, a2}
  StepsOf <- WithJunk
  Thin = {e1}
  Workers = {w1, w2}
  Conditions <- FirstIsAnything
  NoRow = NoRow
  Idle = Idle
  Nobody = Nobody
  JobAttempts = 2
  MaxTurns = 1
  MaxFaults = 1
SPECIFICATION FairSpec
INVARIANTS
  ProcessedIsComplete
  HealthIsAnnounced
PROPERTIES
  AckedIsSettled
  AnnouncedIsRecorded
\* A service nobody writes to is at rest.
CHECK_DEADLOCK FALSE
