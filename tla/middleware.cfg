CONSTANTS
  c1 = c1
  c2 = c2
  w1 = w1
  NoTask = NoTask
  Calls <- MCCalls
  Workers <- MCWorkers
  Retryable <- MCRetryable
  Chains <- MCChains
  MaxRetries = 1
  QueueSize = 1
SPECIFICATION FairSpec
INVARIANTS
  AnswerIsOwn
  PanicStaysIn
PROPERTIES
  PoolIsDispatcher
  CallsReturn
CHECK_DEADLOCK FALSE
