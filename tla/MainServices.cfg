SPECIFICATION ServicesSpec
CONSTANTS
  i1 = i1
  i2 = i2
  s1 = s1
  c1 = c1
  k1 = k1
  k2 = k2
  Inbound = {i1, i2}
  Scheduled = {s1}
  ConvOf <- OneConversation
  MaxAttempts = 2
  Limits <- MCLimits
  Clients = {k1, k2}
  MaxAutoRestarts = 1
  Troubles <- MCTroubles
  MaxProcs = 4
  MaxGateways = 5
  MaxReconnects = 2
  MaxStartAttempts = 2
  Budgets <- MCBudgets
CHECK_DEADLOCK FALSE
INVARIANTS SendBudget  ScopesServed GatewayHeld StopIsFinal
PROPERTIES NoResend InboundOnce OutboundEnds CallsSettle GatewayRecovers
