SPECIFICATION RouterSpec
CONSTANTS
  r1 = r1
  r2 = r2
  r3 = r3
  c1 = c1
  c2 = c2
  c3 = c3
  Runs = {r1, r2}
  Conversations = {c1, c2}
  NoConversation = NoConversation
  NoRun = NoRun
  NoId = NoId
  Scopes <- MCScopes
  Batches <- MCBatches
  MaxLineageDepth = 3
  RunConv <- TreeConv
  ParentOf <- TreeParent
  MaxEvents = 0
  MaxGen = 1
  MaxLost = 1
  MaxCrashes = 0
  MaxOutages = 0
  MaxEdits = 0
  UserCancels = {r1}
  MayClose = FALSE
CHECK_DEADLOCK FALSE
INVARIANTS CancelReachesChildren
PROPERTIES NoDispatchUnderCancel
