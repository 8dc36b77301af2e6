SPECIFICATION Spec
CONSTANTS
  reader1 = reader1
  task = task
  Threads <- OneThread
  Task <- task
  RingSize = 2
  MaxEvents = 3
  BatchSize = 2
  Capacity = 1
CHECK_DEADLOCK FALSE
INVARIANT TypeOK EndIsTruthful
PROPERTY ImplementsStream TeardownEnds PullsAreServed
