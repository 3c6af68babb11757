SPECIFICATION Spec
CONSTANTS
  a1 = a1  a2 = a2  k1 = k1  k2 = k2  m1 = m1  m2 = m2
  Appellant = {a1, a2}
  Claimant = {k1}
  Moderator = {m1, m2}
  MaxAppeals = 2
  MaxNewHolderClaims = 2
SYMMETRY Symmetric
INVARIANTS
  PinnedReviewReadFile
  OutcomesReviewed
  RefusalHeardEveryClaim
CHECK_DEADLOCK FALSE
