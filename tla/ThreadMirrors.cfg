\* One comment, edited twice, removed or hidden; a walk may fail once.
CONSTANTS
  a = a
  b = b
  Ids = {a}
  Post = Post
  ParentOf <- ThreadOfOne
  PageOf <- OnePage
  Anonymous = {}
  Platforms = {"meta", "bluesky"}
  NoKey = NoKey
  Slots = {s1}
  Walker = Walker
  Idle = Idle
  Unresolved = Unresolved
  Thin = Thin
  Erased = Erased
  MaxEdits = 2
  MaxHidden = 1
  MaxCutoff = 0
  MaxPurges = 0
  MaxAborts = 1
SPECIFICATION FairSpec
PROPERTIES
  EventuallyMirrored
\* A post without a schedule is at rest once its platform is.
CHECK_DEADLOCK FALSE
