SPECIFICATION Spec
CONSTANTS
  e1 = e1
  e2 = e2
  work = work
  ci = ci
  im = im
  Events = {e1}
  Kinds = {work, alert}
  Alert = alert
  Publishers = {p1}
  Workers = {w1, w2}
  Operators = {o1}
  RetryDelay = 1
  Interval = 1
  MaxRetryDelay = 1
  DeadThreshold = 2
  AlertThreshold = 1
  Limit = 0
  Answers = {"ok", "lost", "reject"}
  MaxReplays = 1
  MaxTime = 0
  KindOf <- OnlyWork
  Hooks <- TwoHooks
  Types <- AllTypes
  Accepts <- AllKinds
  Filters <- OneOrAll
  Overlap = TRUE
  TornFile = FALSE
  MaxCrashes = 0
INVARIANT FileTellsTruth
VIEW WithoutCounts
