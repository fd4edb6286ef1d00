SPECIFICATION FairSpec
CONSTANTS
  m1 = m1
  start = start
  w1 = w1
  w2 = w2
  NoRule = NoRule
  Nobody = Nobody
  Messages = {m1}
  Rules = {start}
  RuleOf <- StartRuleOf
  Timed = {start}
  Groups <- OneGroup
  Workers = {w1, w2}
  MaxAttempts = 3
  MaxLosses = 2
  MaxRenewals = 2
CHECK_DEADLOCK FALSE
INVARIANTS
  IInv
  DispatchHoldsClaim
  BudgetKept
PROPERTIES
  WithdrawnIsNotSent
  ImplementsDelivery
  MessagesSettle
