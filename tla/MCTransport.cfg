SPECIFICATION FairSpec
CONSTANTS
  Workers = {w1, w2}
  Retries = 1
  RefusalBudget = 2
  AuthBudget = 2
  MaxCalls = 3
INVARIANTS TypeOK StopsWithinOneRequest FailedCountsUnanswered
PROPERTIES BreakerSpec EveryCallReturns
CHECK_DEADLOCK FALSE
