SPECIFICATION Spec
CONSTANTS
  a = a  b = b  u1 = u1  u2 = u2
  None = None
  Permanent = Permanent
  Case = {a, b}
  User = {u1, u2}
  Device = {d1}
  Session = {s1, s2}
  Ingest = {i1}
  MaxTime = 2
  MaxFaults = 1
  Verdict <- SuspendedUnnoticed
  Grant <- GrantAndUnban
INVARIANTS
  MovedOnlyByGrant
  MarkCarriedByABan
  RecoveredStaysClear
CHECK_DEADLOCK FALSE
