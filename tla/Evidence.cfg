SPECIFICATION Spec
CONSTANTS
  c1 = c1  c2 = c2  c3 = c3  m1 = m1  k1 = k1  k2 = k2  d1 = d1  d2 = d2
  None = None
  Permanent = Permanent
  Key = {k1}
  Image <- OnePhoto
  Case = {c1, c2, c3}
  Mandate = {m1}
  MandateOf <- OneMandate
  ValidUntil <- ConsentEnds
  Preserving = {c1, c3}
  Consented <- ShortTails
  Published <- PublishedTails
  ReviewsImages = TRUE
  Preimage <- Disclosed
  Client = {f1}
  f1 = f1
  DecisionWindow = 1
  AppealWindow = 1
  BanTerm = 1
  MaxParked = 1
  MaxPerFiling = 1
  MaxPerCase = 1
  MaxTime = 2
INVARIANTS
  MediaOnFile
  DutyOnBooks
  TermsOutliveRecord
PROPERTY HeldKept
CHECK_DEADLOCK FALSE
