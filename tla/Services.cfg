SPECIFICATION MCSpec
CONSTANTS
  Processes = {1, 2}
  Paths <- RunPaths
  Place <- RunFiles
  DefaultRules <- Rules
  GateKeys = {"k", "l"}
  Requesters = {1, 2}
  Requests = {"q"}
  Editors = {1, 2}
  Hops = 3
  Readers = {1, 2}
  TextAge = 3
  DataAge = 3
  Interval = 1
  Events = {"e", "f"}
  Names = {"n", "m", "b", "c", "d"}
  RetryDelay = 1
  DeadThreshold = 2
  AlertThreshold = 2
  Circumstances <- MonitoringCases
  RetentionCircumstances <- RetentionCases
  MonkeyCircumstances <- MonkeyCases
  GateCircumstances <- GateCases
  SubmissionCircumstances <- SubmissionCases
  LoopCircumstances <- LoopCases
  AnalysisCircumstances <- AnalysisCases
  EvidenceCircumstances <- EvidenceCases
  ReadingCircumstances <- ReadingCases
  DaemonCircumstances <- DaemonCases
CHECK_DEADLOCK FALSE
INVARIANT AllTypesOK
PROPERTY RetentionSafe
INVARIANT MonkeySafe
PROPERTY GateSafe
INVARIANT SubmissionsSafe
INVARIANT LoopsSafe
INVARIANT TraceSafe
PROPERTY AnalysisSafe
PROPERTY EvidenceSafe
INVARIANT ReadingsSafe
INVARIANT DaemonSafe
