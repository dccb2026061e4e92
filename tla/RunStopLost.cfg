SPECIFICATION Spec
CONSTANTS
  e1 = e1
  e2 = e2
  s1 = s1
  a = a
  b = b
  Executors = {e1}
  Stoppers = {s1}
  N = 1
  Services = {a}
  ServiceOf <- OneService
  RetryCount = 0
  AllowOverlap = FALSE
  AllowCrash = FALSE
  AllowReportError = FALSE
PROPERTY NoStartAfterStop
