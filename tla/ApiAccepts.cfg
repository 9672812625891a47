\* Two concurrent write requests of any kind, and a client that pages through the comments.
CONSTANTS
  p = p
  o = o
  q = q
  r1 = r1
  r2 = r2
  x = x
  y = y
  k = k
  short = short
  other = other
  long = long
  Requests = {r1, r2}
  Existing = {p, o, q}
  ParentOf <- TwoThreads
  AuthorOf <- TwoAuthors
  Post = Post
  Self = Self
  Anonymous = Anonymous
  Plans <- Everything
  NoKey = NoKey
  LongTexts = {long}
  MaxReplyDepth = 1
  ContactLimit = 1
  PoolSize = 3
  NoRow = NoRow
  Nobody = Nobody
  None = None
  MaxTime = 1
  MaxChanges = 1
  Selections <- Filters
  Unfiltered = Unfiltered
  Start = Start
  Rank <- IdOrder
  PageSize = 1
SPECIFICATION ListFairSpec
INVARIANTS
  ListTypeOK
  AcceptedWhole
  LimitKept
  SameKeySameComment
  PagesExact
PROPERTIES
  EveryRequestAnswered
  ImplementsAcceptance
\* A service nobody writes to is at rest.
CHECK_DEADLOCK FALSE
