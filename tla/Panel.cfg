SPECIFICATION Spec
CONSTANTS
  h1 = h1  h2 = h2
  m1 = m1  m2 = m2
  c1 = c1  c2 = c2
  k1 = k1
  Holder <- MCHolder
  Moderator <- MCModerator
  ClaimId <- MCClaimId
  Case <- MCCase
  None = None
  MaxOpen = 2
  SessionHours = 2
  GrantLife = 1
  MaxTime = 2
  MaxLogins = 2
SYMMETRY Symmetric
INVARIANT GrantsAccounted
CHECK_DEADLOCK FALSE
