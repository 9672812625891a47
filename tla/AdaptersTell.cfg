\* Two calls at once on one account of any platform, one failure and one new credential.
CONSTANTS
  Publishers = {p1}
  Readers = {r1}
  PageSize = 1
  ReplyPage = 1
  MaxPages = 2
  MaxComments = 2
  MaxDeleted = 1
  MaxBlocked = 1
  MaxWrites = 1
  MaxFaults = 1
  MaxRotations = 1
SPECIFICATION FairSpec
INVARIANTS
  OutcomeHonest
  AbsenceIsTrue
PROPERTIES
  FixedCredentialServes
