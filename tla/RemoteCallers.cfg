SPECIFICATION RemoteSpec
CONSTANTS
  big = big
  small = small
  plain = plain
  Ids <- ThreeTaskIds
  Consults <- TwoConsults
  Size <- OneIsBig
  MaxActive = 2
  MaxActiveBytes = 3
  MaxTerminal = 1
  Calls = {p, q, r}
  KeyLimit = 3
  RateLimit = 2
  Estimates = {0, 2}
  Costs = {1, 4}
  PastSpend = 1
  Children = {c1, c2}
  Ceiling = 3
  Prices = {1, 2}
  MaxLostAppends = 1
INVARIANTS
  RemoteTypesOK
  FirstEndedFirstOut
  RunsBelongToWorkingTasks
  KeyBudgetHolds
  BudgetIsKept
PROPERTIES
  WorkingTaskEnds
  TrailIsTransaction
CHECK_DEADLOCK FALSE
