SPECIFICATION Spec
CONSTANTS
  Workers = {w1}
  Retries = 1
  RefusalBudget = 2
  AuthBudget = 2
  MaxCalls = 6
INVARIANT NeverAbandonsATalker
CHECK_DEADLOCK FALSE
