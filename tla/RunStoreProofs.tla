--------------------------- MODULE RunStoreProofs ---------------------------
(***************************************************************************)
(* The promises of RunStore hold for every set of conversations, runs,      *)
(* scopes and batches and every nesting limit.                              *)
(*                                                                          *)
(* OneActiveRun, AnswerFollowsPrompt and AnsweredIffCommitted are not       *)
(* inductive: committing r is safe only because the last turn of its        *)
(* conversation is still the prompt of r, which the lease guarantees.       *)
(* ActiveHoldsTail states that; StoreInv collects what an induction needs.  *)
(* One lemma per transaction shows that it preserves StoreInv.              *)
(***************************************************************************)
EXTENDS RunStore, SequenceTheorems, TLAPS

LEMMA TurnTyped ==
  ASSUME StoreTypeOK, NEW c \in Conversations
  PROVE  /\ turns[c] \in Seq(TurnSpace)
         /\ Len(turns[c]) \in Nat
         /\ DOMAIN turns[c] = 1 .. Len(turns[c])
         /\ \A i \in DOMAIN turns[c] : turns[c][i] \in TurnSpace /\ turns[c][i].run \in Runs
<1>1. turns[c] \in Seq(TurnSpace)
  BY DEF StoreTypeOK
<1>2. Len(turns[c]) \in Nat /\ DOMAIN turns[c] = 1 .. Len(turns[c])
  BY <1>1
<1>3. \A i \in DOMAIN turns[c] : turns[c][i] \in TurnSpace
  BY <1>1, <1>2
<1> QED BY <1>1, <1>2, <1>3 DEF TurnSpace

\* A prompt names its run.
LEMMA PromptOwner == \A q, r \in Runs : UserTurn(q) = UserTurn(r) => q = r
<1>1. \A r \in Runs : UserTurn(r).run = r
  BY DEF UserTurn
<1> QED BY <1>1

LEMMA InitInv == StoreInit => StoreInv
<1> SUFFICES ASSUME StoreInit PROVE StoreInv
  OBVIOUS
<1> USE SentinelAssumption, DepthAssumption DEF StoreInit
<1>1. StoreTypeOK
  BY DEF StoreTypeOK
<1>2. RowsPlaced /\ TurnsOwned /\ ActiveHoldsTail
  BY DEF RowsPlaced, TurnsOwned, ActiveHoldsTail, Row, IsActive, Active
<1>3. AnswerFollowsPrompt /\ AnsweredIffCommitted
  BY DEF AnswerFollowsPrompt, AnsweredIffCommitted, Answered, Terminal
<1>4. EventLogReplayable /\ LineageSound /\ BranchSourceKept
  BY DEF EventLogReplayable, LineageSound, BranchSourceKept
<1> QED BY <1>1, <1>2, <1>3, <1>4 DEF StoreInv

(***************************************************************************)
(* Conversations                                                            *)
(***************************************************************************)

LEMMA CreateInv ==
  ASSUME StoreInv, NEW c \in Conversations, CreateConversation(c)
  PROVE  StoreInv'
<1> USE DEF CreateConversation, StoreInv, identity
<1>1. StoreTypeOK'
  BY DEF StoreTypeOK
<1>2. RowsPlaced' /\ TurnsOwned' /\ ActiveHoldsTail'
  BY DEF StoreTypeOK, RowsPlaced, TurnsOwned, ActiveHoldsTail, Row, IsActive,
         UserTurn
<1>3. AnswerFollowsPrompt' /\ AnsweredIffCommitted' /\ EventLogReplayable'
  BY DEF AnswerFollowsPrompt, AnsweredIffCommitted, EventLogReplayable,
         Answered, Answer, UserTurn
<1>4. LineageSound' /\ BranchSourceKept'
  BY DEF LineageSound, BranchSourceKept, UserTurn, StoreTypeOK
<1> QED BY <1>1, <1>2, <1>3, <1>4

LEMMA SoftDeleteInv ==
  ASSUME StoreInv, NEW c \in Conversations, SoftDeleteConversation(c)
  PROVE  StoreInv'
<1> USE DEF SoftDeleteConversation, StoreInv, identity
<1>1. StoreTypeOK'
  BY DEF StoreTypeOK
<1>2. RowsPlaced' /\ TurnsOwned' /\ ActiveHoldsTail'
  BY DEF StoreTypeOK, RowsPlaced, TurnsOwned, ActiveHoldsTail, Row, IsActive,
         UserTurn
<1>3. AnswerFollowsPrompt' /\ AnsweredIffCommitted' /\ EventLogReplayable'
  BY DEF AnswerFollowsPrompt, AnsweredIffCommitted, EventLogReplayable,
         Answered, Answer, UserTurn
<1>4. LineageSound' /\ BranchSourceKept'
  BY DEF LineageSound, BranchSourceKept, UserTurn, StoreTypeOK
<1> QED BY <1>1, <1>2, <1>3, <1>4

LEMMA BranchInv ==
  ASSUME StoreInv, NEW b \in Conversations, NEW c \in Conversations,
         BranchConversation(b, c)
  PROVE  StoreInv'
<1> USE DEF BranchConversation, StoreInv, identity
<1>1. StoreTypeOK'
  BY DEF StoreTypeOK
<1>2. RowsPlaced' /\ TurnsOwned' /\ ActiveHoldsTail'
  BY DEF StoreTypeOK, RowsPlaced, TurnsOwned, ActiveHoldsTail, Row, IsActive,
         UserTurn
<1>3. AnswerFollowsPrompt' /\ AnsweredIffCommitted' /\ EventLogReplayable'
  BY DEF AnswerFollowsPrompt, AnsweredIffCommitted, EventLogReplayable,
         Answered, Answer, UserTurn
<1>4. LineageSound'
  BY DEF LineageSound, UserTurn, StoreTypeOK
<1>5. conv[c] = "live"
  BY DEF Readable
<1>6. BranchSourceKept'
  BY <1>5 DEF BranchSourceKept, StoreTypeOK
<1> QED BY <1>1, <1>2, <1>3, <1>4, <1>6

LEMMA HardDeleteInv ==
  ASSUME StoreInv, NEW c \in Conversations, HardDeleteConversation(c)
  PROVE  StoreInv'
<1> USE SentinelAssumption DEF HardDeleteConversation, StoreInv
<1>1. StoreTypeOK'
  <2>1. /\ conv' \in [Conversations -> {"absent", "live", "deleted"}]
        /\ branchOf' \in [Conversations -> Conversations \cup {NoConversation}]
        /\ status' \in [Runs -> {"absent"} \cup Active \cup Terminal]
        /\ convOf' \in [Runs -> Conversations \cup {NoConversation}]
        /\ scopeOf' \in [Runs -> Scopes \cup {NoId}]
        /\ parent' \in [Runs -> Runs \cup {NoRun}]
    BY DEF StoreTypeOK
  <2>2. turns' \in [Conversations -> Seq(TurnSpace)]
    BY DEF StoreTypeOK
  <2>3. depth' \in [Runs -> 0 .. MaxLineageDepth] /\ lastSeq' \in [Runs -> Nat]
    BY DepthAssumption DEF StoreTypeOK
  <2>4. recovered' \in [Runs -> BOOLEAN]
    BY Zenon DEF StoreTypeOK
  <2>5. checkpoint' \in [Runs -> BOOLEAN]
    BY Zenon DEF StoreTypeOK
  <2> QED BY <2>1, <2>2, <2>3, <2>4, <2>5 DEF StoreTypeOK
<1>2. RowsPlaced'
  BY DEF StoreTypeOK, RowsPlaced, Row
<1>3. TurnsOwned'
  <2> SUFFICES ASSUME NEW d \in Conversations
      PROVE  /\ conv'[d] = "absent" => turns'[d] = <<>> /\ branchOf'[d] = NoConversation
             /\ \A i \in DOMAIN turns'[d] : convOf'[turns'[d][i].run] = d
    BY DEF TurnsOwned
  <2>1. CASE d = c
    BY <2>1 DEF StoreTypeOK
  <2>2. CASE d # c
    <3>1. turns'[d] = turns[d] /\ conv'[d] = conv[d] /\ branchOf'[d] = branchOf[d]
      BY <2>2 DEF StoreTypeOK
    <3>2. ASSUME NEW i \in DOMAIN turns[d] PROVE convOf'[turns[d][i].run] = d
      <4>2. turns[d][i].run \in Runs
        BY TurnTyped
      <4>3. convOf[turns[d][i].run] = d
        BY DEF TurnsOwned
      <4> QED BY <2>2, <4>2, <4>3
    <3> QED BY <3>1, <3>2 DEF TurnsOwned
  <2> QED BY <2>1, <2>2
<1>4. ActiveHoldsTail'
  <2> SUFFICES ASSUME NEW r \in Runs, IsActive(r)'
      PROVE  /\ turns'[convOf'[r]] # <<>>
             /\ turns'[convOf'[r]][Len(turns'[convOf'[r]])] = UserTurn(r)
    BY DEF ActiveHoldsTail, UserTurn
  <2>1. IsActive(r) /\ convOf[r] # c /\ convOf'[r] = convOf[r]
    BY DEF IsActive, Active
  <2>2. convOf[r] \in Conversations
    BY <2>1 DEF RowsPlaced, Row, IsActive, Active
  <2>3. turns'[convOf[r]] = turns[convOf[r]]
    BY <2>1, <2>2 DEF StoreTypeOK
  <2> QED BY <2>1, <2>3 DEF ActiveHoldsTail
<1>5. AnswerFollowsPrompt'
  <2> SUFFICES ASSUME NEW d \in Conversations, NEW i \in DOMAIN turns'[d],
                      turns'[d][i].role = "assistant"
      PROVE  i > 1 /\ turns'[d][i - 1] = UserTurn(turns'[d][i].run)
    BY DEF AnswerFollowsPrompt, UserTurn
  <2>1. d # c /\ turns'[d] = turns[d]
    BY DEF StoreTypeOK
  <2> QED BY <2>1 DEF AnswerFollowsPrompt
<1>6. AnsweredIffCommitted'
  <2> SUFFICES ASSUME NEW r \in Runs
      PROVE  Answered(r)' <=> (status'[r] \in Terminal /\ ~recovered'[r])
    BY DEF AnsweredIffCommitted
  <2>1. Answer(r).run = r /\ Answer(r)' = Answer(r)
    BY DEF Answer
  <2>2. \A d \in Conversations : \A i \in DOMAIN turns[d] :
          turns[d][i] = Answer(r) => convOf[r] = d
    BY <2>1 DEF TurnsOwned
  <2>3. CASE convOf[r] = c
    <3>1. status'[r] = "absent"
      BY <2>3
    <3>2. ~ Answered(r)'
      BY <2>1, <2>2, <2>3 DEF Answered, StoreTypeOK
    <3> QED BY <3>1, <3>2 DEF Terminal
  <2>4. CASE convOf[r] # c
    <3>1. status'[r] = status[r] /\ recovered'[r] = recovered[r]
      BY <2>4
    <3>2. Answered(r)' <=> Answered(r)
      BY <2>1, <2>2, <2>4 DEF Answered, StoreTypeOK
    <3> QED BY <3>1, <3>2 DEF AnsweredIffCommitted
  <2> QED BY <2>3, <2>4
<1>7. EventLogReplayable'
  BY DEF EventLogReplayable
<1>8. LineageSound'
  <2> SUFFICES ASSUME NEW r \in Runs, parent'[r] # NoRun
      PROVE  /\ depth'[r] = depth'[parent'[r]] + 1
             /\ convOf'[parent'[r]] # convOf'[r]
             /\ turns'[convOf'[r]] # <<>> /\ turns'[convOf'[r]][1] = UserTurn(r)
    BY DEF LineageSound, UserTurn
  <2>1. /\ parent'[r] = parent[r] /\ parent[r] # NoRun
        /\ convOf[r] # c /\ convOf[parent[r]] # c
    OBVIOUS
  <2>2. parent[r] \in Runs
    BY <2>1 DEF StoreTypeOK
  <2>3. /\ convOf'[r] = convOf[r] /\ convOf'[parent[r]] = convOf[parent[r]]
        /\ depth'[r] = depth[r] /\ depth'[parent[r]] = depth[parent[r]]
    BY <2>1, <2>2
  <2>4. convOf[r] \in Conversations
    BY <2>1 DEF RowsPlaced
  <2>5. turns'[convOf[r]] = turns[convOf[r]]
    BY <2>1, <2>4 DEF StoreTypeOK
  <2> QED BY <2>1, <2>3, <2>5 DEF LineageSound
<1>9. BranchSourceKept'
  BY DEF BranchSourceKept, StoreTypeOK, Unbranched
<1> QED BY <1>1, <1>2, <1>3, <1>4, <1>5, <1>6, <1>7, <1>8, <1>9

(***************************************************************************)
(* Runs                                                                     *)
(***************************************************************************)

LEMMA MarkInv ==
  ASSUME StoreInv, NEW r \in Runs, NEW s \in Scopes, MarkRunStarted(r, s)
  PROVE  StoreInv'
<1> USE DEF MarkRunStarted, StoreInv, identity
<1>1. StoreTypeOK'
  BY DEF StoreTypeOK, Active
<1>2. RowsPlaced' /\ TurnsOwned' /\ ActiveHoldsTail'
  BY DEF StoreTypeOK, RowsPlaced, TurnsOwned, ActiveHoldsTail, Row, IsActive,
         UserTurn, Active
<1>3. AnswerFollowsPrompt' /\ EventLogReplayable'
  BY DEF AnswerFollowsPrompt, EventLogReplayable, UserTurn
<1>4. AnsweredIffCommitted'
  BY DEF AnsweredIffCommitted, Answered, Answer, Terminal, StoreTypeOK
<1>5. LineageSound' /\ BranchSourceKept'
  BY DEF LineageSound, BranchSourceKept, UserTurn
<1> QED BY <1>1, <1>2, <1>3, <1>4, <1>5

LEMMA CheckpointInv ==
  ASSUME StoreInv, NEW r \in Runs, NEW s \in Scopes, PutCheckpoint(r, s)
  PROVE  StoreInv'
<1> USE DEF PutCheckpoint, StoreInv, identity
<1>1. StoreTypeOK'
  BY DEF StoreTypeOK
<1>2. RowsPlaced' /\ TurnsOwned' /\ ActiveHoldsTail'
  BY DEF RowsPlaced, TurnsOwned, ActiveHoldsTail, Row, IsActive, UserTurn
<1>3. AnswerFollowsPrompt' /\ AnsweredIffCommitted' /\ EventLogReplayable'
  BY DEF AnswerFollowsPrompt, AnsweredIffCommitted, EventLogReplayable,
         Answered, Answer, UserTurn
<1>4. LineageSound' /\ BranchSourceKept'
  BY DEF LineageSound, BranchSourceKept, UserTurn
<1> QED BY <1>1, <1>2, <1>3, <1>4

LEMMA RecoverInv ==
  ASSUME StoreInv, RecoverInterruptedRuns
  PROVE  StoreInv'
<1> USE DEF RecoverInterruptedRuns, StoreInv, identity
<1>1. StoreTypeOK'
  <2>1. status' \in [Runs -> {"absent"} \cup Active \cup Terminal]
    BY DEF StoreTypeOK, Terminal
  <2>2. recovered' \in [Runs -> BOOLEAN]
    BY Zenon DEF StoreTypeOK, IsActive
  <2> QED BY <2>1, <2>2 DEF StoreTypeOK
<1>2. RowsPlaced'
  BY DEF StoreTypeOK, RowsPlaced, Row, IsActive, Active
<1>3. TurnsOwned' /\ ActiveHoldsTail'
  BY DEF TurnsOwned, ActiveHoldsTail, IsActive, Active
<1>4. AnswerFollowsPrompt' /\ EventLogReplayable'
  BY DEF AnswerFollowsPrompt, EventLogReplayable, UserTurn
<1>5. AnsweredIffCommitted'
  BY DEF AnsweredIffCommitted, Answered, Answer, Terminal, IsActive, Active
<1>6. LineageSound' /\ BranchSourceKept'
  BY DEF LineageSound, BranchSourceKept, UserTurn
<1> QED BY <1>1, <1>2, <1>3, <1>4, <1>5, <1>6

LEMMA AppendEventsInv ==
  ASSUME StoreInv, NEW r \in Runs, NEW s \in Scopes, NEW b \in Batches,
         AppendEvents(r, s, b)
  PROVE  StoreInv'
<1> USE DEF AppendEvents, StoreInv, identity
<1>1. \A i \in DOMAIN b : b[i].seq \in Nat \ {0}
  BY BatchAssumption
<1>2. PICK top \in {lastSeq[r]} \cup {b[i].seq : i \in DOMAIN b} :
        /\ lastSeq[r] <= top
        /\ \A i \in DOMAIN b : b[i].seq <= top
        /\ lastSeq' = [lastSeq EXCEPT ![r] = top]
  OBVIOUS
<1>3. top \in Nat /\ lastSeq[r] \in Nat
  BY <1>1, <1>2 DEF StoreTypeOK
<1>4. StoreTypeOK'
  BY <1>2, <1>3 DEF StoreTypeOK
<1>5. RowsPlaced'
  BY <1>2 DEF RowsPlaced, Row, IsActive, Active, StoreTypeOK
<1>6. TurnsOwned' /\ ActiveHoldsTail'
  BY DEF TurnsOwned, ActiveHoldsTail, IsActive, UserTurn
<1>7. AnswerFollowsPrompt' /\ AnsweredIffCommitted'
  BY DEF AnswerFollowsPrompt, AnsweredIffCommitted, Answered, Answer, UserTurn
<1>8. EventLogReplayable'
  <2> DEFINE rows == log[r] \cup {b[i] : i \in DOMAIN b}
  <2>1. log' = [log EXCEPT ![r] = rows]
    OBVIOUS
  <2>2. {e.seq : e \in log[r]} = 1 .. lastSeq[r]
    BY DEF EventLogReplayable
  <2>3. \A i \in DOMAIN b : InSequence(r, b, i)
    BY DEF Appendable
  <2>4. {e.seq : e \in rows} \subseteq 1 .. top
    BY <1>1, <1>2, <1>3, <2>2
  <2>5. ASSUME NEW k \in 1 .. top PROVE \E e \in rows : e.seq = k
    <3>1. CASE k <= lastSeq[r]
      BY <1>3, <2>2, <3>1
    <3>2. CASE k > lastSeq[r]
      <4>1. PICK i \in DOMAIN b : b[i].seq = top
        BY <1>2, <1>3, <3>2
      <4>2. ~ \E e \in log[r] : e.seq = b[i].seq
        BY <1>3, <2>2, <3>2, <4>1
      <4>3. \A m \in lastSeq[r] + 1 .. b[i].seq - 1 :
              \E j \in 1 .. i - 1 : b[j].seq = m
        BY <2>3, <4>2 DEF InSequence
      <4>4. \A j \in 1 .. i - 1 : j \in DOMAIN b
        BY BatchAssumption
      <4>5. CASE k = top
        BY <4>1, <4>5
      <4>6. CASE k < top
        <5>1. k \in lastSeq[r] + 1 .. b[i].seq - 1
          BY <1>3, <3>2, <4>1, <4>6
        <5> QED BY <4>3, <4>4, <5>1
      <4> QED BY <1>3, <4>5, <4>6
    <3> QED BY <1>3, <3>1, <3>2
  <2>6. ASSUME NEW d \in rows, NEW e \in rows, d.seq = e.seq PROVE d = e
    <3>1. \A x \in log[r], i \in DOMAIN b : x.seq = b[i].seq => x = b[i]
      BY <2>3 DEF InSequence, RowsBefore
    <3>2. \A i, j \in DOMAIN b : i < j /\ b[i].seq = b[j].seq => b[i] = b[j]
      <4> SUFFICES ASSUME NEW i \in DOMAIN b, NEW j \in DOMAIN b, i < j,
                          b[i].seq = b[j].seq
          PROVE  b[i] = b[j]
        OBVIOUS
      <4>1. i \in 1 .. j - 1
        BY BatchAssumption
      <4>2. b[i] \in RowsBefore(r, b, j)
        BY <4>1 DEF RowsBefore
      <4> QED BY <2>3, <4>2 DEF InSequence
    <3>3. \A i, j \in DOMAIN b : b[i].seq = b[j].seq => b[i] = b[j]
      BY <3>2, BatchAssumption
    <3>4. \A x, y \in log[r] : x.seq = y.seq => x = y
      BY DEF EventLogReplayable
    <3> QED BY <2>6, <3>1, <3>3, <3>4
  <2>7. {e.seq : e \in rows} = 1 .. top
    BY <2>4, <2>5
  <2> HIDE DEF rows
  <2>8. ASSUME NEW q \in Runs, q # r
        PROVE  log'[q] = log[q] /\ lastSeq'[q] = lastSeq[q]
    BY <1>2, <2>8 DEF StoreTypeOK
  <2>9. log'[r] = rows /\ lastSeq'[r] = top
    BY <1>2, <2>1 DEF StoreTypeOK
  <2>10. ASSUME NEW q \in Runs
         PROVE  /\ {e.seq : e \in log'[q]} = 1 .. lastSeq'[q]
                /\ \A d, e \in log'[q] : d.seq = e.seq => d = e
    <3>1. CASE q = r
      BY <2>6, <2>7, <2>9, <3>1
    <3>2. CASE q # r
      BY <2>8, <3>2 DEF EventLogReplayable
    <3> QED BY <3>1, <3>2
  <2> QED BY <2>10 DEF EventLogReplayable
<1>9. LineageSound' /\ BranchSourceKept'
  BY DEF LineageSound, BranchSourceKept, UserTurn
<1> QED BY <1>4, <1>5, <1>6, <1>7, <1>8, <1>9

\* Appending one turn to the conversation d of a run.
LEMMA AppendTurn ==
  ASSUME StoreTypeOK, NEW d \in Conversations, NEW t \in TurnSpace,
         turns' = [turns EXCEPT ![d] = Append(@, t)]
  PROVE  /\ turns' \in [Conversations -> Seq(TurnSpace)]
         /\ turns'[d] # <<>>
         /\ Len(turns'[d]) = Len(turns[d]) + 1
         /\ DOMAIN turns'[d] = 1 .. Len(turns[d]) + 1
         /\ \A i \in 1 .. Len(turns[d]) : turns'[d][i] = turns[d][i]
         /\ turns'[d][Len(turns[d]) + 1] = t
         /\ \A c \in Conversations : c # d => turns'[c] = turns[c]
<1>1. turns[d] \in Seq(TurnSpace)
  BY DEF StoreTypeOK
<1>2. turns'[d] = Append(turns[d], t)
  BY DEF StoreTypeOK
<1>3. /\ Append(turns[d], t) \in Seq(TurnSpace)
      /\ Append(turns[d], t) # <<>>
      /\ Len(Append(turns[d], t)) = Len(turns[d]) + 1
      /\ \A i \in 1 .. Len(turns[d]) : Append(turns[d], t)[i] = turns[d][i]
      /\ Append(turns[d], t)[Len(turns[d]) + 1] = t
  BY <1>1, AppendProperties
<1>4. turns' \in [Conversations -> Seq(TurnSpace)]
  BY <1>3 DEF StoreTypeOK
<1>5. DOMAIN turns'[d] = 1 .. Len(turns[d]) + 1
  BY <1>2, <1>3
<1>6. \A c \in Conversations : c # d => turns'[c] = turns[c]
  BY DEF StoreTypeOK
<1> QED BY <1>2, <1>3, <1>4, <1>5, <1>6

LEMMA AdmitInv ==
  ASSUME StoreInv, NEW r \in Runs, NEW c \in Conversations, NEW s \in Scopes,
         NEW p \in Runs \cup {NoRun}, AdmitRun(r, c, s, p)
  PROVE  StoreInv'
<1> USE SentinelAssumption DEF AdmitRun, Admissible, StoreInv
<1>1. UserTurn(r) \in TurnSpace
  BY DEF UserTurn, TurnSpace
<1>2. /\ turns' \in [Conversations -> Seq(TurnSpace)]
      /\ turns'[c] # <<>>
      /\ Len(turns'[c]) = Len(turns[c]) + 1
      /\ DOMAIN turns'[c] = 1 .. Len(turns[c]) + 1
      /\ \A i \in 1 .. Len(turns[c]) : turns'[c][i] = turns[c][i]
      /\ turns'[c][Len(turns[c]) + 1] = UserTurn(r)
      /\ \A d \in Conversations : d # c => turns'[d] = turns[d]
  BY <1>1, AppendTurn
<1>3. /\ Len(turns[c]) \in Nat /\ DOMAIN turns[c] = 1 .. Len(turns[c])
  BY TurnTyped
<1>4. p # NoRun => /\ p \in Runs /\ p # r /\ Row(p)
                   /\ depth[p] + 1 \in 0 .. MaxLineageDepth
  BY DepthAssumption DEF StoreTypeOK, ChildAdmissible, IsActive, Active, Row
<1>5. StoreTypeOK'
  <2>1. depth' \in [Runs -> 0 .. MaxLineageDepth]
    BY <1>4, DepthAssumption DEF StoreTypeOK
  <2>2. status' \in [Runs -> {"absent"} \cup Active \cup Terminal]
    BY DEF StoreTypeOK, Active
  <2> QED BY <1>2, <2>1, <2>2 DEF StoreTypeOK
<1>6. \A q \in Runs : q # r => /\ status'[q] = status[q] /\ convOf'[q] = convOf[q]
                               /\ parent'[q] = parent[q] /\ depth'[q] = depth[q]
  BY DEF StoreTypeOK
<1>7. /\ status'[r] = "admitted" /\ convOf'[r] = c /\ parent'[r] = p
      /\ depth'[r] = IF p = NoRun THEN 0 ELSE depth[p] + 1
  BY DEF StoreTypeOK
<1>8. ~Row(r) /\ convOf[r] = NoConversation /\ ~recovered[r]
  BY DEF RowsPlaced, Row
<1>9. RowsPlaced'
  <2> SUFFICES ASSUME NEW q \in Runs
      PROVE  /\ Row(q)' => convOf'[q] \in Conversations /\ conv'[convOf'[q]] # "absent"
             /\ ~Row(q)' => /\ convOf'[q] = NoConversation /\ parent'[q] = NoRun
                            /\ lastSeq'[q] = 0 /\ log'[q] = {} /\ ~recovered'[q]
             /\ parent'[q] # NoRun => status'[parent'[q]] # "absent"
             /\ recovered'[q] => status'[q] = "interrupted"
    BY DEF RowsPlaced, Row
  <2>1. CASE q = r
    BY <1>4, <1>6, <1>7, <1>8, <2>1 DEF Row
  <2>2. CASE q # r
    <3>1. parent[q] # NoRun => parent[q] \in Runs /\ Row(parent[q])
      BY DEF RowsPlaced, StoreTypeOK
    <3> QED BY <1>6, <1>7, <1>8, <2>2, <3>1 DEF RowsPlaced, Row
  <2> QED BY <2>1, <2>2
<1>10. TurnsOwned'
  <2> SUFFICES ASSUME NEW d \in Conversations
      PROVE  /\ conv'[d] = "absent" => turns'[d] = <<>> /\ branchOf'[d] = NoConversation
             /\ \A i \in DOMAIN turns'[d] : convOf'[turns'[d][i].run] = d
    BY DEF TurnsOwned
  <2>1. ASSUME NEW e \in Conversations, NEW i \in DOMAIN turns[e]
        PROVE  convOf'[turns[e][i].run] = e
    <3>1. turns[e][i].run \in Runs /\ convOf[turns[e][i].run] = e
      BY TurnTyped DEF TurnsOwned
    <3> QED BY <1>6, <1>8, <3>1
  <2>2. CASE d = c
    <3>1. UserTurn(r).run = r
      BY DEF UserTurn
    <3>2. \A i \in 1 .. Len(turns[c]) + 1 : i \in 1 .. Len(turns[c]) \/ i = Len(turns[c]) + 1
      BY <1>3
    <3>3. \A i \in DOMAIN turns'[c] : convOf'[turns'[c][i].run] = c
      BY <1>2, <1>3, <1>7, <2>1, <3>1, <3>2
    <3> QED BY <2>2, <3>3
  <2>3. CASE d # c
    BY <1>2, <2>1, <2>3 DEF TurnsOwned
  <2> QED BY <2>2, <2>3
<1>11. ActiveHoldsTail'
  <2> SUFFICES ASSUME NEW q \in Runs, IsActive(q)'
      PROVE  /\ turns'[convOf'[q]] # <<>>
             /\ turns'[convOf'[q]][Len(turns'[convOf'[q]])] = UserTurn(q)
    BY DEF ActiveHoldsTail, UserTurn
  <2>1. CASE q = r
    BY <1>2, <1>7, <2>1
  <2>2. CASE q # r
    <3>1. IsActive(q) /\ convOf'[q] = convOf[q]
      BY <1>6, <2>2 DEF IsActive
    <3>2. convOf[q] # c /\ convOf[q] \in Conversations
      BY <3>1 DEF LeaseFree, RowsPlaced, IsActive, Active, Row
    <3> QED BY <1>2, <3>1, <3>2 DEF ActiveHoldsTail
  <2> QED BY <2>1, <2>2
<1>12. AnswerFollowsPrompt'
  <2> SUFFICES ASSUME NEW d \in Conversations, NEW i \in DOMAIN turns'[d],
                      turns'[d][i].role = "assistant"
      PROVE  i > 1 /\ turns'[d][i - 1] = UserTurn(turns'[d][i].run)
    BY DEF AnswerFollowsPrompt, UserTurn
  <2>1. CASE d # c
    BY <1>2, <2>1 DEF AnswerFollowsPrompt
  <2>2. CASE d = c
    <3>1. i # Len(turns[c]) + 1
      BY <1>2, <2>2 DEF UserTurn
    <3>2. i \in 1 .. Len(turns[c]) /\ turns'[c][i] = turns[c][i]
      BY <1>2, <1>3, <2>2, <3>1
    <3>3. i > 1 /\ turns[c][i - 1] = UserTurn(turns[c][i].run)
      BY <1>3, <2>2, <3>2 DEF AnswerFollowsPrompt
    <3>4. i - 1 \in 1 .. Len(turns[c])
      BY <1>3, <3>2, <3>3
    <3> QED BY <1>2, <2>2, <3>2, <3>3, <3>4
  <2> QED BY <2>1, <2>2
<1>13. AnsweredIffCommitted'
  <2>1. \A q \in Runs : Answered(q)' <=> Answered(q)
    <3> SUFFICES ASSUME NEW q \in Runs PROVE Answered(q)' <=> Answered(q)
      OBVIOUS
    <3>1. Answer(q) # UserTurn(r) /\ Answer(q)' = Answer(q)
      BY DEF Answer, UserTurn
    <3>2. (\E i \in DOMAIN turns'[c] : turns'[c][i] = Answer(q))
            <=> (\E i \in DOMAIN turns[c] : turns[c][i] = Answer(q))
      <4>1. \A i \in DOMAIN turns'[c] : turns'[c][i] = Answer(q) =>
              i \in DOMAIN turns[c] /\ turns[c][i] = Answer(q)
        BY <1>2, <1>3, <3>1
      <4>2. \A i \in DOMAIN turns[c] : i \in DOMAIN turns'[c] /\ turns'[c][i] = turns[c][i]
        BY <1>2, <1>3
      <4> QED BY <4>1, <4>2
    <3> QED BY <1>2, <3>1, <3>2 DEF Answered
  <2>2. status[r] \notin Terminal /\ status'[r] \notin Terminal
    BY <1>7, <1>8 DEF Row, Terminal
  <2> QED BY <1>6, <2>1, <2>2 DEF AnsweredIffCommitted
<1>14. EventLogReplayable'
  BY DEF EventLogReplayable
<1>15. LineageSound'
  <2> SUFFICES ASSUME NEW q \in Runs, parent'[q] # NoRun
      PROVE  /\ depth'[q] = depth'[parent'[q]] + 1
             /\ convOf'[parent'[q]] # convOf'[q]
             /\ turns'[convOf'[q]] # <<>> /\ turns'[convOf'[q]][1] = UserTurn(q)
    BY DEF LineageSound, UserTurn
  <2>1. CASE q = r
    <3>1. p \in Runs /\ p # r /\ p # NoRun /\ ChildAdmissible(c, p)
      BY <1>4, <1>7, <2>1
    <3>2. convOf[p] # c /\ Len(turns[c]) = 0
      BY <3>1 DEF ChildAdmissible
    <3> QED BY <1>2, <1>6, <1>7, <2>1, <3>1, <3>2
  <2>2. CASE q # r
    <3>1. parent'[q] = parent[q] /\ parent[q] \in Runs /\ Row(parent[q])
      BY <1>6, <2>2 DEF RowsPlaced, StoreTypeOK
    <3>2. parent[q] # r /\ Row(q)
      BY <1>8, <3>1, <2>2, <1>6 DEF RowsPlaced
    <3>3. convOf[q] \in Conversations
      BY <3>2 DEF RowsPlaced
    <3>4. /\ depth[q] = depth[parent[q]] + 1
          /\ convOf[parent[q]] # convOf[q]
          /\ turns[convOf[q]] # <<>> /\ turns[convOf[q]][1] = UserTurn(q)
      BY <1>6, <2>2 DEF LineageSound
    <3>5. turns'[convOf[q]] # <<>> /\ turns'[convOf[q]][1] = turns[convOf[q]][1]
      <4>1. CASE convOf[q] = c
        <5>1. 1 \in 1 .. Len(turns[c])
          BY <1>3, <3>4, <4>1, TurnTyped, EmptySeq
        <5> QED BY <1>2, <4>1, <5>1
      <4>2. CASE convOf[q] # c
        BY <1>2, <3>3, <3>4, <4>2
      <4> QED BY <4>1, <4>2
    <3> QED BY <1>6, <2>2, <3>1, <3>2, <3>4, <3>5
  <2> QED BY <2>1, <2>2
<1>16. BranchSourceKept'
  BY DEF BranchSourceKept
<1> QED BY <1>5, <1>9, <1>10, <1>11, <1>12, <1>13, <1>14, <1>15, <1>16

LEMMA CommitRunInv ==
  ASSUME StoreInv, NEW r \in Runs, NEW s \in Scopes, NEW outcome \in Terminal,
         CommitTerminalRun(r, s, outcome)
  PROVE  StoreInv'
<1> USE SentinelAssumption DEF CommitTerminalRun, StoreInv, identity
<1> DEFINE c == convOf[r]
<1>1. c \in Conversations /\ conv[c] # "absent" /\ ~recovered[r]
  BY DEF RowsPlaced, Row, IsActive, Active
<1>2. turns[c] # <<>> /\ turns[c][Len(turns[c])] = UserTurn(r)
  BY DEF ActiveHoldsTail
<1>3. Answer(r) \in TurnSpace
  BY DEF Answer, TurnSpace
<1>4. turns' = [turns EXCEPT ![c] = Append(@, Answer(r))]
  OBVIOUS
<1> HIDE DEF c
<1>5. /\ turns' \in [Conversations -> Seq(TurnSpace)]
      /\ turns'[c] # <<>>
      /\ Len(turns'[c]) = Len(turns[c]) + 1
      /\ DOMAIN turns'[c] = 1 .. Len(turns[c]) + 1
      /\ \A i \in 1 .. Len(turns[c]) : turns'[c][i] = turns[c][i]
      /\ turns'[c][Len(turns[c]) + 1] = Answer(r)
      /\ \A d \in Conversations : d # c => turns'[d] = turns[d]
  BY <1>1, <1>3, <1>4, AppendTurn
<1>6. /\ Len(turns[c]) \in Nat \ {0} /\ DOMAIN turns[c] = 1 .. Len(turns[c])
  BY <1>1, <1>2, TurnTyped, EmptySeq
<1>7. /\ status'[r] = outcome
      /\ \A q \in Runs : q # r => status'[q] = status[q]
  BY DEF StoreTypeOK
<1>8. StoreTypeOK'
  BY <1>5 DEF StoreTypeOK
<1>9. RowsPlaced'
  BY <1>1, <1>7 DEF RowsPlaced, Row, StoreTypeOK, Terminal, c
<1>10. TurnsOwned'
  <2> SUFFICES ASSUME NEW d \in Conversations
      PROVE  /\ conv[d] = "absent" => turns'[d] = <<>> /\ branchOf[d] = NoConversation
             /\ \A i \in DOMAIN turns'[d] : convOf[turns'[d][i].run] = d
    BY DEF TurnsOwned
  <2>1. CASE d = c
    <3>1. Answer(r).run = r /\ convOf[r] = c
      BY DEF Answer, c
    <3>2. \A i \in 1 .. Len(turns[c]) + 1 : i \in 1 .. Len(turns[c]) \/ i = Len(turns[c]) + 1
      BY <1>6
    <3>3. \A i \in 1 .. Len(turns[c]) : convOf[turns[c][i].run] = c
      BY <1>1, <1>6 DEF TurnsOwned
    <3> QED BY <1>1, <1>5, <2>1, <3>1, <3>2, <3>3
  <2>2. CASE d # c
    BY <1>5, <2>2 DEF TurnsOwned
  <2> QED BY <2>1, <2>2
<1>11. ActiveHoldsTail'
  <2> SUFFICES ASSUME NEW q \in Runs, IsActive(q)'
      PROVE  /\ turns'[convOf[q]] # <<>>
             /\ turns'[convOf[q]][Len(turns'[convOf[q]])] = UserTurn(q)
    BY DEF ActiveHoldsTail, UserTurn
  <2>1. q # r
    BY <1>7 DEF IsActive, Active, Terminal
  <2>2. IsActive(q) /\ convOf[q] \in Conversations
    BY <1>7, <2>1 DEF IsActive, Active, RowsPlaced, Row
  <2>3. convOf[q] # c
    BY <1>2, <2>1, <2>2, PromptOwner DEF ActiveHoldsTail
  <2> QED BY <1>5, <2>2, <2>3 DEF ActiveHoldsTail
<1>12. AnswerFollowsPrompt'
  <2> SUFFICES ASSUME NEW d \in Conversations, NEW i \in DOMAIN turns'[d],
                      turns'[d][i].role = "assistant"
      PROVE  i > 1 /\ turns'[d][i - 1] = UserTurn(turns'[d][i].run)
    BY DEF AnswerFollowsPrompt, UserTurn
  <2>1. CASE d # c
    BY <1>5, <2>1 DEF AnswerFollowsPrompt
  <2>2. CASE d = c /\ i = Len(turns[c]) + 1
    <3>1. Answer(r).run = r
      BY DEF Answer
    <3>2. i > 1 /\ i - 1 = Len(turns[c]) /\ i - 1 \in 1 .. Len(turns[c])
      BY <1>6, <2>2
    <3> QED BY <1>2, <1>5, <2>2, <3>1, <3>2
  <2>3. CASE d = c /\ i # Len(turns[c]) + 1
    <3>1. i \in 1 .. Len(turns[c]) /\ turns'[c][i] = turns[c][i]
      BY <1>5, <1>6, <2>3
    <3>2. i > 1 /\ turns[c][i - 1] = UserTurn(turns[c][i].run)
      BY <1>1, <1>6, <2>3, <3>1 DEF AnswerFollowsPrompt
    <3>3. i - 1 \in 1 .. Len(turns[c])
      BY <1>6, <3>1, <3>2
    <3> QED BY <1>5, <2>3, <3>1, <3>2, <3>3
  <2> QED BY <2>1, <2>2, <2>3
<1>13. AnsweredIffCommitted'
  <2>1. Answered(r)'
    <3>1. Len(turns[c]) + 1 \in DOMAIN turns'[c]
      BY <1>5, <1>6
    <3> QED BY <1>1, <1>5, <3>1 DEF Answered, Answer
  <2>2. ASSUME NEW q \in Runs, q # r PROVE Answered(q)' <=> Answered(q)
    <3>1. Answer(q) # Answer(r) /\ Answer(q)' = Answer(q)
      BY <2>2 DEF Answer
    <3>2. \A i \in DOMAIN turns'[c] : turns'[c][i] = Answer(q) =>
            i \in DOMAIN turns[c] /\ turns[c][i] = Answer(q)
      BY <1>5, <1>6, <3>1
    <3>3. \A i \in DOMAIN turns[c] : i \in DOMAIN turns'[c] /\ turns'[c][i] = turns[c][i]
      BY <1>5, <1>6
    <3> QED BY <1>5, <3>1, <3>2, <3>3 DEF Answered
  <2> QED BY <1>1, <1>7, <2>1, <2>2 DEF AnsweredIffCommitted
<1>14. EventLogReplayable' /\ BranchSourceKept'
  BY DEF EventLogReplayable, BranchSourceKept
<1>15. LineageSound'
  <2> SUFFICES ASSUME NEW q \in Runs, parent[q] # NoRun
      PROVE  turns'[convOf[q]] # <<>> /\ turns'[convOf[q]][1] = UserTurn(q)
    BY DEF LineageSound, UserTurn
  <2>1. convOf[q] \in Conversations
    BY DEF RowsPlaced
  <2>2. turns[convOf[q]] # <<>> /\ turns[convOf[q]][1] = UserTurn(q)
    BY DEF LineageSound
  <2>3. 1 \in 1 .. Len(turns[c])
    BY <1>6
  <2> QED BY <1>5, <2>1, <2>2, <2>3
<1> QED BY <1>8, <1>9, <1>10, <1>11, <1>12, <1>13, <1>14, <1>15

(***************************************************************************)
(* The theorems                                                             *)
(***************************************************************************)

LEMMA StepInv == StoreInv /\ [StoreNext]_storeVars => StoreInv'
<1> SUFFICES ASSUME StoreInv, [StoreNext]_storeVars PROVE StoreInv'
  OBVIOUS
<1>1. CASE UNCHANGED storeVars
  <2> USE <1>1 DEF storeVars, identity, StoreInv
  <2>1. StoreTypeOK'
    BY DEF StoreTypeOK
  <2>2. RowsPlaced' /\ TurnsOwned' /\ ActiveHoldsTail'
    BY DEF RowsPlaced, TurnsOwned, ActiveHoldsTail, Row, IsActive, UserTurn
  <2>3. AnswerFollowsPrompt' /\ AnsweredIffCommitted' /\ EventLogReplayable'
    BY DEF AnswerFollowsPrompt, AnsweredIffCommitted, EventLogReplayable,
           Answered, Answer, UserTurn
  <2>4. LineageSound' /\ BranchSourceKept'
    BY DEF LineageSound, BranchSourceKept, UserTurn
  <2> QED BY <2>1, <2>2, <2>3, <2>4
<1>2. CASE StoreNext
  BY <1>2, CreateInv, SoftDeleteInv, HardDeleteInv, BranchInv, AdmitInv, MarkInv,
     AppendEventsInv, CommitRunInv, CheckpointInv, RecoverInv DEF StoreNext
<1> QED BY <1>1, <1>2

\* The inductive invariant holds in every reachable state of the tables.
THEOREM StoreInvariance == StoreSpec => []StoreInv
<1>1. StoreInit => StoreInv
  BY InitInv
<1>2. StoreInv /\ [StoreNext]_storeVars => StoreInv'
  BY StepInv
<1> QED BY <1>1, <1>2, PTL DEF StoreSpec

\* Every column of the tables keeps its domain, whatever the clients send.
THEOREM StoreTypeCorrect == StoreSpec => []StoreTypeOK
<1>1. StoreInv => StoreTypeOK
  BY DEF StoreInv
<1> QED BY <1>1, StoreInvariance, PTL

\* A conversation never has two active runs.
THEOREM StoreOneActiveRun == StoreSpec => []OneActiveRun
<1>1. StoreInv => OneActiveRun
  BY PromptOwner DEF StoreInv, OneActiveRun, ActiveHoldsTail
<1> QED BY <1>1, StoreInvariance, PTL

\* Every answer stands directly behind the prompt it answers.
THEOREM StoreAnswerFollowsPrompt == StoreSpec => []AnswerFollowsPrompt
<1>1. StoreInv => AnswerFollowsPrompt
  BY DEF StoreInv
<1> QED BY <1>1, StoreInvariance, PTL

\* A run is answered exactly when a terminal commit ended it.
THEOREM StoreAnsweredIffCommitted == StoreSpec => []AnsweredIffCommitted
<1>1. StoreInv => AnsweredIffCommitted
  BY DEF StoreInv
<1> QED BY <1>1, StoreInvariance, PTL

\* No sequence of batches, replays or rollbacks leaves a gap or a conflict in
\* the event log of a run.
THEOREM StoreEventLogReplayable == StoreSpec => []EventLogReplayable
<1>1. StoreInv => EventLogReplayable
  BY DEF StoreInv
<1> QED BY <1>1, StoreInvariance, PTL

\* Child runs keep their nesting, their own conversation and its first prompt.
THEOREM StoreLineageSound == StoreSpec => []LineageSound
<1>1. StoreInv => LineageSound
  BY DEF StoreInv
<1> QED BY <1>1, StoreInvariance, PTL

\* The source of a branch outlives the branch.
THEOREM StoreBranchSourceKept == StoreSpec => []BranchSourceKept
<1>1. StoreInv => BranchSourceKept
  BY DEF StoreInv
<1> QED BY <1>1, StoreInvariance, PTL

\* Nothing but the hard deletion of its conversation changes a terminal run.
THEOREM StoreTerminalRunFrozen == StoreSpec => TerminalRunFrozen
<1> DEFINE Frozen(r) == status[r] \in Terminal =>
             \/ status'[r] = "absent"
             \/ UNCHANGED <<status[r], convOf[r], scopeOf[r], depth[r],
                            lastSeq[r], log[r], recovered[r]>>
<1>1. StoreInv /\ [StoreNext]_storeVars => \A r \in Runs : Frozen(r)
  <2> SUFFICES ASSUME StoreInv, [StoreNext]_storeVars, NEW r \in Runs,
                      status[r] \in Terminal
      PROVE  \/ status'[r] = "absent"
             \/ UNCHANGED <<status[r], convOf[r], scopeOf[r], depth[r],
                            lastSeq[r], log[r], recovered[r]>>
    OBVIOUS
  <2>1. status[r] \notin {"absent", "admitted", "running"} /\ ~IsActive(r)
    BY DEF Terminal, IsActive, Active
  <2> USE <2>1 DEF identity, StoreInv, StoreTypeOK
  <2>2. CASE UNCHANGED storeVars
    BY <2>2 DEF storeVars
  <2>3. ASSUME NEW c \in Conversations, CreateConversation(c) \/ SoftDeleteConversation(c)
                 \/ \E b \in Conversations : BranchConversation(b, c)
        PROVE  UNCHANGED <<status, convOf, scopeOf, depth, lastSeq, log, recovered>>
    BY <2>3 DEF CreateConversation, SoftDeleteConversation, BranchConversation
  <2>4. ASSUME NEW c \in Conversations, HardDeleteConversation(c)
        PROVE  status'[r] = "absent" \/ UNCHANGED <<status[r], convOf[r], scopeOf[r],
                 depth[r], lastSeq[r], log[r], recovered[r]>>
    BY <2>4 DEF HardDeleteConversation
  <2>5. ASSUME NEW c \in Conversations, NEW q \in Runs, NEW s \in Scopes,
               NEW p \in Runs \cup {NoRun}, AdmitRun(q, c, s, p)
        PROVE  UNCHANGED <<status[r], convOf[r], scopeOf[r], depth[r], lastSeq[r],
                           log[r], recovered[r]>>
    BY <2>5 DEF AdmitRun, Admissible
  <2>6. ASSUME NEW q \in Runs, NEW s \in Scopes, MarkRunStarted(q, s)
        PROVE  UNCHANGED <<status[r], convOf[r], scopeOf[r], depth[r], lastSeq[r],
                           log[r], recovered[r]>>
    BY <2>6 DEF MarkRunStarted
  <2>7. ASSUME NEW q \in Runs, NEW s \in Scopes, NEW b \in Batches, AppendEvents(q, s, b)
        PROVE  UNCHANGED <<status[r], convOf[r], scopeOf[r], depth[r], lastSeq[r],
                           log[r], recovered[r]>>
    BY <2>7 DEF AppendEvents
  <2>8. ASSUME NEW q \in Runs, NEW s \in Scopes,
               PutCheckpoint(q, s) \/ \E o \in Terminal : CommitTerminalRun(q, s, o)
        PROVE  UNCHANGED <<status[r], convOf[r], scopeOf[r], depth[r], lastSeq[r],
                           log[r], recovered[r]>>
    BY <2>8 DEF PutCheckpoint, CommitTerminalRun
  <2>9. CASE RecoverInterruptedRuns
    BY <2>9 DEF RecoverInterruptedRuns, RowsPlaced
  <2> QED BY <2>2, <2>3, <2>4, <2>5, <2>6, <2>7, <2>8, <2>9 DEF StoreNext
<1>2. StoreInv /\ [StoreNext]_storeVars => [\A r \in Runs : Frozen(r)]_storeVars
  BY <1>1
<1> QED BY <1>2, StoreInvariance, PTL DEF StoreSpec, TerminalRunFrozen
-----------------------------------------------------------------------------
(* The tables implement the ledger *)

\* An active run is the latest of its conversation: its prompt is the newest turn.
LEMMA ActiveIsLatest ==
  ASSUME StoreInv, NEW r \in Runs, IsActive(r)
  PROVE  LatestRun(convOf[r]) = r /\ convOf[r] \in Conversations
<1>1. UserTurn(r).run = r
  BY DEF UserTurn
<1>2. turns[convOf[r]] # <<>> /\ turns[convOf[r]][Len(turns[convOf[r]])] = UserTurn(r)
  BY DEF StoreInv, ActiveHoldsTail
<1>3. convOf[r] \in Conversations
  BY DEF StoreInv, RowsPlaced, IsActive, Active, Row
<1> QED BY <1>1, <1>2, <1>3 DEF LatestRun

\* Appending a turn of a run makes that run the latest.
LEMMA LatestAppended ==
  ASSUME StoreInv, NEW c \in Conversations, NEW t \in TurnSpace,
         turns' = [turns EXCEPT ![c] = Append(@, t)]
  PROVE  \A d \in Conversations :
           LatestRun(d)' = IF d = c THEN t.run ELSE LatestRun(d)
<1> SUFFICES ASSUME NEW d \in Conversations
    PROVE  LatestRun(d)' = IF d = c THEN t.run ELSE LatestRun(d)
  OBVIOUS
<1>1. turns \in [Conversations -> Seq(TurnSpace)]
  BY DEF StoreInv, StoreTypeOK
<1>2. CASE d = c
  <2>1. turns'[c] = Append(turns[c], t) /\ turns[c] \in Seq(TurnSpace)
    BY <1>1
  <2>2. turns'[c] # <<>> /\ turns'[c][Len(turns'[c])] = t
    BY <2>1
  <2> QED BY <1>2, <2>2 DEF LatestRun
<1>3. CASE d # c
  <2>1. turns'[d] = turns[d]
    BY <1>1, <1>3
  <2> QED BY <1>3, <2>1 DEF LatestRun
<1> QED BY <1>2, <1>3

LEMMA LedgerInitially == StoreInit => Ledger!LedgerInit
<1> SUFFICES ASSUME StoreInit PROVE Ledger!LedgerInit
  OBVIOUS
<1>1. [c \in Conversations |-> LatestRun(c)] = [c \in Conversations |-> NoRun]
  BY DEF StoreInit, LatestRun
<1>2. [r \in Runs |-> FateOf(r)] = [r \in Runs |-> "none"]
  BY DEF StoreInit, FateOf, Row
<1> QED BY <1>1, <1>2 DEF StoreInit, Ledger!LedgerInit

\* Transactions the ledger does not see.
LEMMA LedgerUnmoved ==
  ASSUME UNCHANGED <<turns, convOf, log, recovered>>,
         \A r \in Runs : FateOf(r)' = FateOf(r)
  PROVE  UNCHANGED Ledger!ledgerVars
<1>1. [c \in Conversations |-> LatestRun(c)]' = [c \in Conversations |-> LatestRun(c)]
  BY DEF LatestRun
<1>2. [r \in Runs |-> FateOf(r)]' = [r \in Runs |-> FateOf(r)]
  OBVIOUS
<1> QED BY <1>1, <1>2 DEF Ledger!ledgerVars

LEMMA LedgerAdmit ==
  ASSUME StoreInv, NEW r \in Runs, NEW c \in Conversations, NEW s \in Scopes,
         NEW p \in Runs \cup {NoRun}, AdmitRun(r, c, s, p)
  PROVE  Ledger!Open(r, c)
<1> USE DEF AdmitRun, Admissible
<1>1. FateOf(r) = "none"
  BY DEF FateOf, Row
<1>2. ASSUME NEW q \in Runs PROVE ~(convOf[q] = c /\ FateOf(q) = "open")
  BY DEF LeaseFree, FateOf
<1>3. UserTurn(r) \in TurnSpace /\ UserTurn(r).run = r
  BY DEF UserTurn, TurnSpace
<1>4. \A d \in Conversations : LatestRun(d)' = IF d = c THEN r ELSE LatestRun(d)
  BY <1>3, LatestAppended
<1>5. [d \in Conversations |-> LatestRun(d)]'
        = [[d \in Conversations |-> LatestRun(d)] EXCEPT ![c] = r]
  BY <1>4
<1>6. status \in [Runs -> {"absent"} \cup Active \cup Terminal]
  BY DEF StoreInv, StoreTypeOK
<1>7. \A q \in Runs : FateOf(q)' = IF q = r THEN "open" ELSE FateOf(q)
  BY <1>6 DEF FateOf, Row, IsActive, Active
<1>8. [q \in Runs |-> FateOf(q)]' = [[q \in Runs |-> FateOf(q)] EXCEPT ![r] = "open"]
  BY <1>7
<1> QED BY <1>1, <1>2, <1>5, <1>8 DEF Ledger!Open, Ledger!Holds

\* What an active run holds in the ledger.
LEMMA ActiveHolds ==
  ASSUME StoreInv, NEW r \in Runs, IsActive(r)
  PROVE  Ledger!Holds(r, convOf[r])
<1>1. FateOf(r) = "open"
  BY DEF FateOf, IsActive, Active, Row
<1>2. LatestRun(convOf[r]) = r /\ convOf[r] \in Conversations
  BY ActiveIsLatest
<1> QED BY <1>1, <1>2 DEF Ledger!Holds

LEMMA LedgerAppend ==
  ASSUME StoreInv, NEW r \in Runs, NEW s \in Scopes, NEW b \in Batches,
         AppendEvents(r, s, b)
  PROVE  Ledger!Record(r, convOf[r])
<1> USE DEF AppendEvents
<1>1. Ledger!Holds(r, convOf[r])
  BY ActiveHolds
<1>2. DOMAIN log = Runs
  BY DEF StoreInv, StoreTypeOK
<1>3. log[r] \subseteq log'[r] /\ log' = [log EXCEPT ![r] = log'[r]]
  BY <1>2
<1>4. [c \in Conversations |-> LatestRun(c)]' = [c \in Conversations |-> LatestRun(c)]
  BY DEF LatestRun
<1>5. [q \in Runs |-> FateOf(q)]' = [q \in Runs |-> FateOf(q)]
  BY DEF FateOf, Row, IsActive
<1> QED BY <1>1, <1>3, <1>4, <1>5 DEF Ledger!Record, identity

LEMMA LedgerCommit ==
  ASSUME StoreInv, NEW r \in Runs, NEW s \in Scopes, NEW o \in Terminal,
         CommitTerminalRun(r, s, o)
  PROVE  Ledger!Answered(r, convOf[r])
<1> USE DEF CommitTerminalRun
<1>1. Ledger!Holds(r, convOf[r]) /\ LatestRun(convOf[r]) = r
         /\ convOf[r] \in Conversations
  BY ActiveHolds, ActiveIsLatest
<1>2. Answer(r) \in TurnSpace /\ Answer(r).run = r
  BY DEF Answer, TurnSpace
<1>3. \A d \in Conversations : LatestRun(d)' = LatestRun(d)
  BY <1>1, <1>2, LatestAppended
<1>4. [c \in Conversations |-> LatestRun(c)]' = [c \in Conversations |-> LatestRun(c)]
  BY <1>3
<1>5. ~recovered[r]
  BY DEF StoreInv, RowsPlaced, IsActive, Active
<1>6. status \in [Runs -> {"absent"} \cup Active \cup Terminal]
  BY DEF StoreInv, StoreTypeOK
<1>7. \A q \in Runs : FateOf(q)' = IF q = r THEN "answered" ELSE FateOf(q)
  BY <1>5, <1>6 DEF FateOf, Row, IsActive, Active, Terminal
<1>8. [q \in Runs |-> FateOf(q)]' = [[q \in Runs |-> FateOf(q)] EXCEPT ![r] = "answered"]
  BY <1>7
<1> QED BY <1>1, <1>4, <1>8 DEF Ledger!Answered, identity

LEMMA LedgerErase ==
  ASSUME StoreInv, NEW c \in Conversations, HardDeleteConversation(c)
  PROVE  Ledger!Erase(c)
<1> USE DEF HardDeleteConversation
<1>1. turns \in [Conversations -> Seq(TurnSpace)]
  BY DEF StoreInv, StoreTypeOK
<1>2. \A d \in Conversations : LatestRun(d)' = IF d = c THEN NoRun ELSE LatestRun(d)
  BY <1>1 DEF LatestRun
<1>3. [d \in Conversations |-> LatestRun(d)]'
        = [[d \in Conversations |-> LatestRun(d)] EXCEPT ![c] = NoRun]
  BY <1>2
<1>4. \A r \in Runs : FateOf(r)' = IF convOf[r] = c THEN "none" ELSE FateOf(r)
  BY DEF FateOf, Row, IsActive, Active
<1>5. [r \in Runs |-> FateOf(r)]'
        = [r \in Runs |-> IF convOf[r] = c THEN "none" ELSE [q \in Runs |-> FateOf(q)][r]]
  BY <1>4
<1> QED BY <1>3, <1>5 DEF Ledger!Erase

LEMMA LedgerRecover ==
  ASSUME StoreInv, RecoverInterruptedRuns
  PROVE  Ledger!Interrupt
<1> USE DEF RecoverInterruptedRuns
<1>1. [c \in Conversations |-> LatestRun(c)]' = [c \in Conversations |-> LatestRun(c)]
  BY DEF LatestRun
<1>2. ASSUME NEW r \in Runs
      PROVE  FateOf(r)' = IF FateOf(r) = "open" THEN "interrupted" ELSE FateOf(r)
  <2>1. CASE IsActive(r)
    BY <2>1 DEF FateOf, Row, IsActive, Active
  <2>2. CASE ~IsActive(r)
    BY <2>2 DEF FateOf, Row, IsActive, Active
  <2> QED BY <2>1, <2>2
<1>3. [r \in Runs |-> FateOf(r)]'
        = [r \in Runs |-> IF [q \in Runs |-> FateOf(q)][r] = "open" THEN "interrupted"
                          ELSE [q \in Runs |-> FateOf(q)][r]]
  BY <1>2
<1> QED BY <1>1, <1>3 DEF Ledger!Interrupt, identity

\* Each transaction is one step of the ledger or invisible to it.
LEMMA LedgerStep ==
  StoreInv /\ [StoreNext]_storeVars => [Ledger!LedgerNext]_(Ledger!ledgerVars)
<1> SUFFICES ASSUME StoreInv, [StoreNext]_storeVars
    PROVE  Ledger!LedgerNext \/ UNCHANGED Ledger!ledgerVars
  OBVIOUS
<1>1. CASE UNCHANGED storeVars
  <2>1. UNCHANGED <<turns, convOf, log, recovered, status>>
    BY <1>1 DEF storeVars, identity
  <2>2. \A r \in Runs : FateOf(r)' = FateOf(r)
    BY <2>1 DEF FateOf, Row, IsActive
  <2> QED BY <2>1, <2>2, LedgerUnmoved
<1>2. ASSUME NEW c \in Conversations, CreateConversation(c) \/ SoftDeleteConversation(c)
               \/ \E b \in Conversations : BranchConversation(b, c)
      PROVE  UNCHANGED Ledger!ledgerVars
  <2>1. UNCHANGED <<turns, convOf, log, recovered, status>>
    BY <1>2 DEF CreateConversation, SoftDeleteConversation, BranchConversation, identity
  <2>2. \A r \in Runs : FateOf(r)' = FateOf(r)
    BY <2>1 DEF FateOf, Row, IsActive
  <2> QED BY <2>1, <2>2, LedgerUnmoved
<1>3. ASSUME NEW r \in Runs, NEW s \in Scopes, MarkRunStarted(r, s) \/ PutCheckpoint(r, s)
      PROVE  UNCHANGED Ledger!ledgerVars
  <2>1. UNCHANGED <<turns, convOf, log, recovered>>
    BY <1>3 DEF MarkRunStarted, PutCheckpoint, identity
  <2>2. status \in [Runs -> {"absent"} \cup Active \cup Terminal]
    BY DEF StoreInv, StoreTypeOK
  <2>3. \A q \in Runs : FateOf(q)' = FateOf(q)
    BY <1>3, <2>1, <2>2 DEF MarkRunStarted, PutCheckpoint, FateOf, Row, IsActive, Active
  <2> QED BY <2>1, <2>3, LedgerUnmoved
<1>4. ASSUME NEW c \in Conversations, HardDeleteConversation(c)
      PROVE  Ledger!LedgerNext
  BY <1>4, LedgerErase DEF Ledger!LedgerNext
<1>5. ASSUME NEW c \in Conversations, NEW r \in Runs, NEW s \in Scopes,
             NEW p \in Runs \cup {NoRun}, AdmitRun(r, c, s, p)
      PROVE  Ledger!LedgerNext
  BY <1>5, LedgerAdmit DEF Ledger!LedgerNext
<1>6. ASSUME NEW r \in Runs, NEW s \in Scopes, NEW b \in Batches, AppendEvents(r, s, b)
      PROVE  Ledger!LedgerNext
  <2>1. convOf[r] \in Conversations
    BY <1>6, ActiveIsLatest DEF AppendEvents
  <2> QED BY <1>6, <2>1, LedgerAppend DEF Ledger!LedgerNext
<1>7. ASSUME NEW r \in Runs, NEW s \in Scopes, NEW o \in Terminal,
             CommitTerminalRun(r, s, o)
      PROVE  Ledger!LedgerNext
  <2>1. convOf[r] \in Conversations
    BY <1>7, ActiveIsLatest DEF CommitTerminalRun
  <2> QED BY <1>7, <2>1, LedgerCommit DEF Ledger!LedgerNext
<1>8. CASE RecoverInterruptedRuns
  BY <1>8, LedgerRecover DEF Ledger!LedgerNext
<1> QED BY <1>1, <1>2, <1>3, <1>4, <1>5, <1>6, <1>7, <1>8 DEF StoreNext

\* The tables of ClawXDataStore implement the ledger: whatever clients send, a
\* conversation has one open run at most, its latest, and closed runs stay as
\* they are.
THEOREM StoreImplementsLedger == StoreSpec => LedgerSpec
<1>1. StoreInit => Ledger!LedgerInit
  BY LedgerInitially
<1>2. StoreInv /\ [StoreNext]_storeVars => [Ledger!LedgerNext]_(Ledger!ledgerVars)
  BY LedgerStep
<1> QED BY <1>1, <1>2, StoreInvariance, PTL DEF StoreSpec, LedgerSpec, Ledger!LedgerSpec
=============================================================================
