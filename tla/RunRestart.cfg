SPECIFICATION FairSpec
CONSTANTS
  e1 = e1
  e2 = e2
  s1 = s1
  a = a
  b = b
  Executors = {e1, e2}
  Stoppers = {}
  N = 2
  Services = {a}
  ServiceOf <- OneService
  RetryCount = 0
  AllowOverlap = FALSE
  AllowCrash = TRUE
  AllowReportError = TRUE
INVARIANT ScenarioAtMostOnce
PROPERTY ImplementsLifecycle
PROPERTY CallsReturn
