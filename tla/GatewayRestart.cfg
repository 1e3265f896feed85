SPECIFICATION GatewaySpec
CONSTANTS
  MaxGateways = 4
  MaxReconnects = 2
  MaxStartAttempts = 2
  Budgets <- MCBudgets
CHECK_DEADLOCK FALSE
INVARIANTS DeferredIsHonoured
