SPECIFICATION DocketSpec
CONSTANTS
  a = a  b = b  u = u  k = k  p = p
  authority = authority  phone = phone  key = key
  Case = {a, b}
  User = {u}
  Class = {k, p}
  Key = {key}
  Party = {authority, phone}
  Permanent = Permanent
  None = None
  Verdict <- Rulings
  Manifest <- Manifests
  Mandate <- Mandates
  Document <- Documents
  Submission <- Deliveries
  Handler = {h1}
  MaxFile = 4
  Tolerance = 1
  Skew = 5
  Instant = {0, 10, 21, 32}
INVARIANTS
  ReadingsAgree
  
PROPERTY NoticesAdvance
CHECK_DEADLOCK FALSE
