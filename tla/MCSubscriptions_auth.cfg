SPECIFICATION SafetySpec
CONSTANTS
  caller1 = caller1
  caller2 = caller2
  quotes = quotes
  allTrades = allTrades
  Callers <- TwoCallers
  ContractIds <- OneContract
  FullIds <- NoFull
  ChannelCapacity = 1
  Uncorrelated = FALSE
  MaxCalls = 1
  MaxFaults = 1
CHECK_DEADLOCK FALSE
INVARIANT NotAuthenticatedAfterExit
