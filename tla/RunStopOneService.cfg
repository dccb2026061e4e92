SPECIFICATION Spec
CONSTANTS
  e1 = e1
  e2 = e2
  s1 = s1
  a = a
  b = b
  Executors = {e1}
  Stoppers = {s1}
  N = 2
  Services = {a}
  ServiceOf <- OneService
  RetryCount = 1
  AllowOverlap = FALSE
  AllowCrash = FALSE
  AllowReportError = TRUE
INVARIANT TypeOK
INVARIANT QuiescentRunTruthful
