SPECIFICATION FairSpec
CONSTANTS
  k1 = k1  k2 = k2  t1 = t1  t2 = t2
  Issuance = {1}
  Caller = {k1, k2}
  Drain = {t1, t2}
  MaxRefusals = 2
  MaxFaults = 2
INVARIANTS
  GateHeldByOneDrain
  DeliveredWasExecuted
PROPERTY EveryVerdictSettles
CHECK_DEADLOCK FALSE
