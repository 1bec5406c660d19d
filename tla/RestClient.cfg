\* One call of every method against a lossy, late and cycling exchange.
CONSTANTS
  MaxRetries = 2
  BaseDelay = 1
  MaxDelay = 1
  Budgeted = TRUE
  TotalTimeout = 1
  AttemptTime = 1
  Hints = {0, 5}
  Signers = {caller}
  Closers = {closer}
  NoOne = NoOne
  CursorSeenCap = 2
  Cursors = {c1, c2, c3}
  Unlimited = Unlimited
  PageLimits = {2, Unlimited}
  CloseDuring = {"orders.create_v2", "markets.list_all", "klear.margin.settlement_prices"}
SPECIFICATION Spec
INVARIANTS
  TypeOK
  BudgetHonoured
  NothingUnsigned
  RouteIntact
  NoPageTwice
  PoolDiesWithAuth
PROPERTIES
  CallSpec
  EveryCallReturns
\* A call that has returned is not followed by another.
CHECK_DEADLOCK FALSE
