SPECIFICATION FairSpec
CONSTANTS
  d1 = d1
  p1 = p1
  o1 = o1
  s1 = s1
  a1 = a1
  d2 = d2
  d3 = d3
  Devices = {d1, d2, d3}
  Flaky = {d1}
  Patrols = {p1}
  Operators = {o1}
  Syncers = {s1}
  Admins = {a1}
  Settings <- SomeSettings
  Threshold = 2
  Interval = 1
  ProbeInterval = 1
  Outcomes = {"success", "failed"}
  Regimes <- AllRegimes
INVARIANT TypeOK
INVARIANT DevicesAreServed
PROPERTY QuarantineOnEvidence
PROPERTY QuarantineEnds
PROPERTY EnabledTaskRuns
