SPECIFICATION Spec
CONSTANTS
  Queries <- Sample
  MinBand = 2
  MinGridRows = 10
  SessionWindow = 3
  MaxSpanDays = 2
  Contracts = 1
  MaxRows = 2
  Pool = 5
  Widths = {1, 2, 5}
  Left = {1, 5}
  MaxShards = 3
  MaxAttempts = 2
CHECK_DEADLOCK FALSE
INVARIANT TypeOK PlanIsSound AnswersAreTruthful
PROPERTY EveryQueryEnds
