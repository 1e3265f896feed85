SPECIFICATION StoreSpec
CONSTANTS
  Conversations = {c1, c2}
  Runs = {r1, r2}
  NoConversation = NoConversation
  NoRun = NoRun
  NoId = NoId
  i1 = i1
  Scopes = {s1, s2}
  MaxLineageDepth = 1
  MaxTurns = 4
  Batches <- MCBatches
SYMMETRY MCSymmetry
CONSTRAINT MCBound
INVARIANTS
  StoreTypeOK
  AnswerFollowsPrompt
  EventLogReplayable
  LineageSound
PROPERTIES
  LedgerSpec

