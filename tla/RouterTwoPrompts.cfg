SPECIFICATION RouterSpec
CONSTANTS
  r1 = r1
  r2 = r2
  r3 = r3
  c1 = c1
  c2 = c2
  c3 = c3
  Runs = {r1, r2}
  Conversations = {c1}
  NoConversation = NoConversation
  NoRun = NoRun
  NoId = NoId
  Scopes <- MCScopes
  Batches <- MCBatches
  MaxLineageDepth = 3
  RunConv <- OneConversation
  ParentOf <- NoParent
  MaxEvents = 0
  MaxGen = 1
  MaxLost = 2
  MaxCrashes = 1
  MaxOutages = 1
  MaxEdits = 0
  UserCancels = {r1, r2}
  MayClose = FALSE
CHECK_DEADLOCK FALSE
INVARIANTS LeaseAgrees TerminalIsDurable
PROPERTIES StartedBeforeEnd
