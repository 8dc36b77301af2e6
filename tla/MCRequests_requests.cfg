SPECIFICATION Spec
CONSTANTS
  query = query
  stream = stream
  inner = inner
  nobody = nobody
  NoOne <- nobody
  Requests <- ThreeRequests
  Streaming <- OneStream
  Nested <- OneNested
  MaxPermits = 2
  MaxAttempts = 2
  HasEnvelope = TRUE
  MaxRevocations = 2
CHECK_DEADLOCK FALSE
INVARIANT TypeOK LoginsAreCalledFor OneLoginPerBurst FailuresAreOwn DeliveredOnce AttemptsBounded RejectionsAreRecovered
PROPERTY EveryCallEnds
