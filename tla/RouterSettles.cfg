SPECIFICATION FairRouterSpec
CONSTANTS
  r1 = r1
  r2 = r2
  r3 = r3
  c1 = c1
  c2 = c2
  c3 = c3
  Runs = {r1}
  Conversations = {c1}
  NoConversation = NoConversation
  NoRun = NoRun
  NoId = NoId
  Scopes <- MCScopes
  Batches <- MCBatches
  MaxLineageDepth = 3
  RunConv <- OneConversation
  ParentOf <- NoParent
  MaxEvents = 1
  MaxGen = 1
  MaxLost = 2
  MaxCrashes = 1
  MaxOutages = 1
  MaxEdits = 0
  UserCancels = {r1}
  MayClose = TRUE
CHECK_DEADLOCK FALSE
PROPERTIES ConversationsFree CloseFinishes PromptsSettle RunsEnd
