SPECIFICATION MCSpec
CONSTANTS
  d1 = d1
  d2 = d2
  Dispatchers <- MCDispatchers
  RunIds = {1, 2}
  Limit <- MCLimit
  Budget <- MCBudget
  RetryDelay = 1
  MaxDelay = 2
  RetryAfters = {0}
  MaxRetries = 1
  MaxInterruptions = 2
INVARIANTS
  BudgetKept
PROPERTIES
  KeepsPromise
  PatientRetries
  EveryRunSettles
