SPECIFICATION SafetySpec
CONSTANTS
  caller1 = caller1
  caller2 = caller2
  quotes = quotes
  allTrades = allTrades
  Callers <- TwoCallers
  ContractIds <- OneContract
  FullIds <- OneFull
  ChannelCapacity = 2
  Uncorrelated = TRUE
  MaxCalls = 3
  MaxFaults = 1
SYMMETRY CallerSymmetry
CHECK_DEADLOCK FALSE
INVARIANT SettledStreamsAreTracked
