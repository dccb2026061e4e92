SPECIFICATION FairSpec
CONSTANTS
  e1 = e1
  e2 = e2
  work = work
  ci = ci
  im = im
  Events = {e1, e2}
  Kinds = {work, alert}
  Alert = alert
  Publishers = {p1}
  Workers = {w1}
  Operators = {o1}
  RetryDelay = 1
  Interval = 1
  MaxRetryDelay = 1
  DeadThreshold = 2
  AlertThreshold = 1
  Limit = 0
  Answers = {"ok", "lost"}
  MaxReplays = 1
  MaxCrashes = 1
  MaxTime = 1
  KindOf <- OnlyWork
  Hooks <- OneHook
  Types <- AllTypes
  Accepts <- AllKinds
  Filters <- OneOrAll
  Overlap = FALSE
  TornFile = TRUE
INVARIANT TypeOK
INVARIANT NoEventLost
INVARIANT RetriesAreBounded
PROPERTY ImplementsPromise
PROPERTY EventuallySettled
