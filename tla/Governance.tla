------------------------------- MODULE Governance -------------------------------
(* The records people decide over: the analysis rules, the golden suite,   *)
(* the baselines, the admission cases, and the sessions and issues.  No    *)
(* two of them share a file, so a behaviour moves one of them, focus, and  *)
(* leaves the others as they started.                                      *)
EXTENDS RuleGovernance

CONSTANTS
  Keys, Families, ChangePriority, MaxFamilies, MaxAudits,   \* of the baselines,
  Persons, Automatic,                                      \* of the admission cases,
  Issues, Defects, Role, External, TTL, Margin,             \* of the collaboration,
  \* and the circumstances of each part (those of the rules are Circumstances).
  BaselineCircumstances, AdmissionCircumstances, CollaborationCircumstances, SuiteCircumstances

VARIABLES
  focus,
  bCircumstance, reports, registry, audit, revision, bCommand,
  aCircumstance, baseline, override, record, cases, index, announced, accepted, aCommand,
  cCircumstance, now, issued, sessions, issues, cCommand,
  sCircumstance, sRules, draft, target, sCommand, sLeft, promoted

baselineVars == <<bCircumstance, reports, registry, audit, revision, bCommand>>
admissionVars == <<aCircumstance, baseline, override, record, cases, index, announced,
                   accepted, aCommand>>
collaborationVars == <<cCircumstance, now, issued, sessions, issues, cCommand>>
suiteVars == <<sCircumstance, sRules, draft, target, sCommand, sLeft, promoted>>

-----------------------------------------------------------------------------
(* The parts.                                                              *)
Baselines == INSTANCE Baselines WITH
  MaxVersions <- MaxAudits,
  Circumstances <- BaselineCircumstances, circumstance <- bCircumstance, command <- bCommand
Admissions == INSTANCE AdmissionCases WITH
  Actors <- Persons,
  Circumstances <- AdmissionCircumstances, circumstance <- aCircumstance, command <- aCommand
Collaborations == INSTANCE Collaboration WITH
  Circumstances <- CollaborationCircumstances, circumstance <- cCircumstance, command <- cCommand
Suites == INSTANCE GoldenSuite WITH
  Circumstances <- SuiteCircumstances, circumstance <- sCircumstance, rules <- sRules,
  command <- sCommand, left <- sLeft

-----------------------------------------------------------------------------
AllInit ==
  /\ focus \in {"rules", "baselines", "admissions", "collaborations", "suites"}
  /\ Init /\ Baselines!Init /\ Admissions!Init /\ Collaborations!Init /\ Suites!Init

AllNext ==
  \/ /\ focus = "rules" /\ Next
     /\ UNCHANGED <<focus, baselineVars, admissionVars, collaborationVars, suiteVars>>
  \/ /\ focus = "baselines" /\ Baselines!Next
     /\ UNCHANGED <<focus, vars, admissionVars, collaborationVars, suiteVars>>
  \/ /\ focus = "admissions" /\ Admissions!Next
     /\ UNCHANGED <<focus, vars, baselineVars, collaborationVars, suiteVars>>
  \/ /\ focus = "collaborations" /\ Collaborations!Next
     /\ UNCHANGED <<focus, vars, baselineVars, admissionVars, suiteVars>>
  \/ /\ focus = "suites" /\ Suites!Next
     /\ UNCHANGED <<focus, vars, baselineVars, admissionVars, collaborationVars>>

allVars == <<focus, vars, baselineVars, admissionVars, collaborationVars, suiteVars>>
AllSpec == AllInit /\ [][AllNext]_allVars

-----------------------------------------------------------------------------
\* The types of the one that moves (the others are as they started).
AllTypesOK ==
  CASE focus = "rules" -> TypeOK
    [] focus = "baselines" -> Baselines!TypeOK
    [] focus = "admissions" -> Admissions!TypeOK
    [] focus = "collaborations" -> Collaborations!TypeOK
    [] focus = "suites" -> Suites!TypeOK

\* The properties of the parts, each as stated in its module.
\* History, baseline and audit say the same, and a rollback takes back one entry.
HistoryIsSound == Baselines!HistoryIsSound
\* Record, case and the contracts announced of it agree.
StoresAgree == Admissions!StoresAgree
\* What a case's history names of entries led to what the case is.
HistoryExplainsCase == Admissions!HistoryExplainsCase
\* The events of an issue tell its state and links, it was resolved only on acceptable
\* defects, and a defect has one link; a person has one fresh session, and a revoked one
\* stays revoked.
CollaborationSafe == Collaborations!CollaborationSafe
\* A draft passes as drafted, what it calls unchanged is grouped the same, a suite written
\* by promotions passes and is what was promoted, and is replaced only as told.
GoldenSafe == Suites!GoldenSafe
\* A promotion adds no failure, finding or family.
PromotionAddsNothing == Baselines!PromotionAddsNothing
=============================================================================
