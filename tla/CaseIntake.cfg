SPECIFICATION FairSpec
CONSTANTS
  c1 = c1  c2 = c2  r1 = r1  r2 = r2  r3 = r3  e1 = e1  e2 = e2  e3 = e3
  None = None
  Case = {c1, c2}
  Report = {r1, r2, r3}
  Evidence = {e1, e2, e3}
  EvidenceOf <- MixedEvidence
  Filer = {f1, f2}
  Moderator = {}
  Triage = {}
  ResponseWindow = 1
  DecisionWindow = 1
  ValidUntil = 2
  MaxNotices = 2
  MaxResponses = 0
  EarlyBanForQA = TRUE
  MaxTime = 1
INVARIANTS
  NoticeForEveryAllegation
PROPERTIES
  ImplementsContract
  OverdueDecided
CHECK_DEADLOCK FALSE
