SPECIFICATION FairSpec
CONSTANTS
  a = a  b = b  u1 = u1  u2 = u2
  None = None
  Permanent = Permanent
  Case = {a, b}
  User = {u1, u2}
  Device = {d1}
  Session = {s1}
  Ingest = {i1}
  RequireRecall = FALSE
  MaxTime = 2
  MaxFaults = 1
  Verdict <- BanBesideOpen
INVARIANTS
  RefusedWhileBanned
  WritesAccounted
PROPERTIES
  MarksConverge
CHECK_DEADLOCK FALSE
