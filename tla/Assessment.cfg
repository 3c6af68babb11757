SPECIFICATION FairSpec
CONSTANTS
  c1 = c1  text = text
  None = None
  Case = {c1}
  Class <- RuledClasses
  Code <- KnownAndNot
  Label <- Labels
  Profile <- Shipped
  Output <- Outputs
  Half = 1
  ClassOf <- Classes
  OpenedAt <- Opening
  Reported <- Filed
  Image = {i1}
  Text = text
  Window = 1
  DecisionWindow = 3
  MaxAttempts = 2
  Batch = 1
  Base = 1
  Ceiling = 2
  MaxResponses = 1
  MaxTime = 3
  MaxSteps = 2
INVARIANTS
  CallsBounded
  RuledUnderTerms
  FloodingNeverAcquits
  VerdictsReadable
PROPERTIES
  RulingReadWhole
  DecisionsSettle
CHECK_DEADLOCK FALSE
