SPECIFICATION SafetySpec
CONSTANTS
  caller1 = caller1
  caller2 = caller2
  quotes = quotes
  allTrades = allTrades
  Callers <- TwoCallers
  ContractIds <- OneContract
  FullIds <- NoFull
  ChannelCapacity = 2
  Uncorrelated = FALSE
  MaxCalls = 4
  MaxFaults = 2
SYMMETRY CallerSymmetry
CHECK_DEADLOCK FALSE
INVARIANT TypeOK PendingNamesLiveInstance NoUncorrelatedSubscribe TrackedIsDriven SettledAgreement NotLiveBeforeReplay
PROPERTY ImplementsLedger
