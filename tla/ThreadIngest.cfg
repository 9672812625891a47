\* A comment and its reply; webhooks, walks and the purge at once.
CONSTANTS
  a = a
  b = b
  Ids = {a, b}
  Post = Post
  ParentOf <- ThreadOfTwo
  PageOf <- ReplyFirst
  Anonymous = {b}
  Platforms = {"meta", "bluesky"}
  NoKey = NoKey
  Slots = {s1}
  Walker = Walker
  Idle = Idle
  Unresolved = Unresolved
  Thin = Thin
  Erased = Erased
  MaxEdits = 0
  MaxHidden = 1
  MaxCutoff = 1
  MaxPurges = 1
  MaxAborts = 0
SPECIFICATION Spec
INVARIANTS
  TypeOK
  RepliesCounted
  TreeIsPlatforms
  EachRowAnnouncedOnce
  NoFalseDeletion
  ActivityCoversThread
PROPERTIES
  ErasureIsPermanent
\* A post without a schedule is at rest once its platform is.
CHECK_DEADLOCK FALSE
