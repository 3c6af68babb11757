SPECIFICATION Spec
CONSTANTS
  c1 = c1  c2 = c2  r1 = r1  r2 = r2  r3 = r3  e1 = e1  e2 = e2  e3 = e3
  None = None
  Case = {c1}
  Report = {r1, r2}
  Evidence = {e1, e2}
  EvidenceOf <- DistinctEvidence
  Filer = {f1}
  Moderator = {m1}
  Triage = {t1}
  ResponseWindow = 1
  DecisionWindow = 2
  ValidUntil = 2
  MaxNotices = 2
  MaxResponses = 1
  EarlyBanForQA = FALSE
  MaxTime = 3
INVARIANTS
  RulingJustified
  RulingsRespectHorizon
  BanAfterAServedWindow
  AutomatedRulingsSound
CHECK_DEADLOCK FALSE
