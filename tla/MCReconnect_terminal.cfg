SPECIFICATION SafetySpec
CONSTANTS
  Policies <- OnlyAuto
  NumHosts = 2
  Budget <- SmallBudget
  MaxElapsed = 6
  StableWindow = 3
  DefaultWindow = 3
  WaitMs = 1
  WaitMaxMs = 3
  WaitRestartMs = 2
  WaitRateLimited = 3
  JitterWindow = 1
  CustomMaxDelay = 1
  CounterMax = 4
CHECK_DEADLOCK FALSE
INVARIANT TerminalEventOnGiveUp
