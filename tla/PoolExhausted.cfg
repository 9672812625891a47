\* As many replies to new contacts as the pool has connections.
CONSTANTS
  p = p
  o = o
  q = q
  r1 = r1
  r2 = r2
  x = x
  y = y
  k = k
  short = short
  other = other
  long = long
  Requests = {r1, r2}
  Existing = {p, o, q}
  ParentOf <- TwoThreads
  AuthorOf <- TwoAuthors
  Post = Post
  Self = Self
  Anonymous = Anonymous
  Plans <- Contacting
  NoKey = NoKey
  LongTexts = {long}
  MaxReplyDepth = 1
  ContactLimit = 2
  PoolSize = 2
  NoRow = NoRow
  Nobody = Nobody
  None = None
  MaxTime = 1
  MaxChanges = 0
  Selections <- NoFilter
  Unfiltered = Unfiltered
  Start = Start
  Rank <- IdOrder
  PageSize = 1
SPECIFICATION ListFairSpec
PROPERTIES
  EveryRequestAnswered
\* The handlers come to a stop: that is the finding.
CHECK_DEADLOCK FALSE
