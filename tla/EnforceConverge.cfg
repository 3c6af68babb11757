SPECIFICATION FairSpec
CONSTANTS
  a = a  b = b  u1 = u1  u2 = u2
  None = None
  Permanent = Permanent
  Case = {a, b}
  User = {u1}
  Device = {d1, d2}
  Session = {s1}
  Ingest = {i1}
  MaxTime = 3
  MaxFaults = 1
  Verdict <- ExpiresBesideDismissed
  Grant <- NoGrants

  
  
PROPERTIES
  MarksConverge
CHECK_DEADLOCK FALSE
