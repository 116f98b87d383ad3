SPECIFICATION Spec
CONSTANTS
  e1 = e1
  e2 = e2
  t1 = t1
  h1 = h1
  h2 = h2
  a1 = a1
  r1 = r1
  r2 = r2
  Events = {e1}
  Tests = {t1}
  MessageEvents = {e1}
  Hooks = {h1}
  FullHooks = {h1}
  Accounts = {a1}
  AnyAccount = AnyAccount
  AccountOf <- MCAccountOf
  BoundTo <- MCBoundTo
  Filter <- MCFilter
  Requests = {r1, r2}
  QueueCap = 1
  Workers = 1
  RetryLimit = 1
  MaxCrashes = 1
  MaxFaults = 1
  None = None
INVARIANTS SingleFlight RetryBudget
PROPERTIES RowClearedOnlyWhenSettled PromiseKept
SYMMETRY RequestSymmetry
