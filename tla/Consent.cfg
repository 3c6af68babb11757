SPECIFICATION Spec
CONSTANTS
  u1 = u1  c1 = c1  c2 = c2  c3 = c3
  User = {u1}
  Challenge = {c1, c2, c3}
  Binding = {b1, b2}
  Manifest = {1, 2}
  ValidUntil <- TwoEditions
  Mandate <- Consents
  Request <- Requests
  Caller = {k1, k2}
  Session = {s1}
  MaxSkew = 0
  ConsentSkew = 1
  TTL = 1
  MaxPerWindow = 3
  Window = 2
  MaxOutstanding = 1
  None = None
  MaxTime = 3
  MaxEpoch = 1
  MaxSteps = 8
SYMMETRY Symmetric
INVARIANTS
  OutstandingBounded
  AdmittedOnce
  RotationGapless
PROPERTY NewestGoverns
CHECK_DEADLOCK FALSE
