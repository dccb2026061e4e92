SPECIFICATION MCSpec
CONSTANTS
  Processes = {1, 2}
  Actors = {"cli", "r1"}
  Fields = {"f"}
  Values = {"a", "b", "c", "bad", "absent", "default"}
  Given = {"b", "c", "bad"}
  Wrong = {"bad"}
  Required = {1, 2}
  MaxCandidates = 2
  MaxVersions = 3
  Circumstances <- AllCircumstances
  Families = {1, 2, 3}
  MaxFamilies = 2
  MaxAudits = 2
  Keys = {"k"}
  ChangePriority <- Priorities
  Persons = {"a", "b"}
  Automatic <- Automatics
  Issues = {"i"}
  Defects = {7}
  Role <- RoleOf
  External = {"d"}
  TTL = 3
  Margin = 1
  BaselineCircumstances <- BaselineCases
  AdmissionCircumstances <- CasesOfAdmission
  CollaborationCircumstances <- CollaborationCases
  SuiteCircumstances <- SuiteCases
CHECK_DEADLOCK FALSE
INVARIANT AllTypesOK
PROPERTY PublishedAsReviewed
PROPERTY FilesFollowVersions
INVARIANT HistoryIsSound
INVARIANT PromotionAddsNothing
INVARIANT StoresAgree
INVARIANT HistoryExplainsCase
PROPERTY CollaborationSafe
PROPERTY GoldenSafe
