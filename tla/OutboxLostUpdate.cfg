SPECIFICATION Spec
CONSTANTS
  e1 = e1
  e2 = e2
  work = work
  ci = ci
  im = im
  Events = {e1, e2}
  Kinds = {work, alert}
  Alert = alert
  Publishers = {p1}
  Workers = {w1}
  Operators = {}
  RetryDelay = 1
  Interval = 1
  MaxRetryDelay = 2
  DeadThreshold = 2
  AlertThreshold = 1
  Limit = 0
  Answers = {"ok", "lost", "retry", "reject"}
  MaxReplays = 0
  MaxTime = 2
  KindOf <- OnlyWork
  Hooks <- OneHook
  Types <- AllTypes
  Accepts <- AllKinds
  Filters <- OneOrAll
  Overlap = TRUE
  TornFile = FALSE
  MaxCrashes = 0
INVARIANT NoEventLost
