SPECIFICATION Spec
CONSTANTS
  user = user
  quotes = quotes
  Users <- OneUser
  Streams <- OneStream
  MaxSessions = 2
  MaxCalls = 3
CHECK_DEADLOCK FALSE
INVARIANT TypeOK SessionsAreOwned DrainIsTruthful ReconnectKeepsSubscriptions
PROPERTY CallsReturn
