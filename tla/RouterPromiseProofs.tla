-------------------------- MODULE RouterPromiseProofs -------------------------
(***************************************************************************)
(* What the router promises beyond the tables: the Renderer is shown what  *)
(* is durable and nothing after the end, the map and the lease agree, a    *)
(* completed answer is whole, a cancel catches the children, close leaves  *)
(* no lease.  First, what any step can do to one part of the state; the    *)
(* invariants follow from these few moves.                                 *)
(***************************************************************************)
EXTENDS ConversationRouterProofs

(* What a step can do to a run state *)

\* Someone asks for the commit of the run, with an outcome of his own, when no
\* append is under way.
Begins(r) ==
  /\ ~state[r].done /\ state[r].commit = "none"
  /\ state[r].flush # "appending" \/ pc[r] = "checking"
  /\ queue' = Append(queue, CommitCall(r))
  /\ \E o \in Terminal :
       /\ state'[r] = [state[r] EXCEPT !.commit = "sent", !.outcome = o,
                                       !.snap = state[r].seen]
       /\ \/ o # "completed"
          \/ /\ o = Reported(r, "completed") /\ state[r].flush = "idle"
             /\ pc[r] \in {"draining", "redraining"}
          \/ o = Reported(r, "failed")
          \/ o = Reported(r, "interrupted")

LEMMA BeginMoves ==
  ASSUME RouterTypeOK, NEW r \in Runs, NEW o \in Terminal, BeginCommit(r, o),
         state[r].flush # "appending" \/ pc[r] = "checking",
         \/ o # "completed"
         \/ /\ o = Reported(r, "completed") /\ state[r].flush = "idle"
            /\ pc[r] \in {"draining", "redraining"}
         \/ o = Reported(r, "failed")
         \/ o = Reported(r, "interrupted")
  PROVE  /\ \A q \in Runs \ {r} : state'[q] = state[q]
         /\ state'[r] = state[r] \/ Begins(r)
<1>1. DOMAIN state = Runs /\ state[r] \in RunStates
  BY DEF RouterTypeOK, RunStateOK
<1>2. CASE UNCHANGED state
  BY <1>2
<1>3. CASE /\ ~state[r].done /\ state[r].commit = "none"
           /\ state' = [state EXCEPT ![r].commit = "sent", ![r].outcome = o,
                                     ![r].snap = state[r].seen]
           /\ queue' = Append(queue, CommitCall(r))
  <2>1. state'[r] = [state[r] EXCEPT !.commit = "sent", !.outcome = o,
                                     !.snap = state[r].seen]
    BY <1>1, <1>3 DEF RunStates
  <2> QED BY <1>1, <1>3, <2>1 DEF Begins
<1> QED BY <1>2, <1>3 DEF BeginCommit

\* The steps of others than the tail, the commit and the kernel.
Moves(q) ==
  \/ state'[q] = state[q]
  \/ Connect(q) /\ state'[q] = [state[q] EXCEPT !.live = TRUE]
  \/ Begins(q)
  \/ KernelEmit(q) /\ Accepts(q)
  \/ TailStep(q)
  \/ CommitStep(q)
  \/ /\ \E p \in Runs : Cancel(p) /\ q \in Reached(p)
     /\ state'[q] = [state[q] EXCEPT !.cancelReq = TRUE]
  \/ CloseDone /\ state'[q] = [state[q] EXCEPT !.live = FALSE]

LEMMA StateMoves ==
  ASSUME RouterTypeOK, [RouterNext]_vars, NEW q \in Runs
  PROVE  Moves(q)
<1> USE DEF Moves
<1>0. DOMAIN state = Runs /\ state[q] \in RunStates
  BY DEF RouterTypeOK, RunStateOK
<1>1. CASE UNCHANGED vars
  BY <1>1 DEF vars, mainVars
<1>2. ASSUME NEW r \in Runs,
             \/ Prompt(r) \/ SpawnChild(r) \/ Resolve(r) \/ Open(r) \/ Create(r)
             \/ Admit(r) \/ Compile(r) \/ Start(r) \/ Prepare(r) \/ Dispatch(r)
             \/ KernelAnswer(r) \/ Checkpoint(r) \/ Attach(r) \/ PromptRefused(r)
             \/ PromptLost(r) \/ SweepPhantom(r) \/ PromptTimeout(r)
      PROVE  Moves(q)
  BY <1>2 DEF Prompt, SpawnChild, BeginPrompt, Resolve, Open, Create, Admit, Compile,
     Start, Prepare, Dispatch, KernelAnswer, Checkpoint, Attach, PromptRefused,
     PromptLost, SweepPhantom, PromptTimeout
<1>3. ASSUME NEW r \in Runs, Connect(r) PROVE Moves(q)
  BY <1>0, <1>3 DEF Connect
<1>4. ASSUME NEW r \in Runs, CheckParent(r) \/ Drain(r) \/ Unwind(r) \/ CloseDrain(r)
      PROVE  Moves(q)
  <2>1. /\ Reported(r, "completed") \in Terminal /\ Reported(r, "failed") \in Terminal
        /\ Reported(r, "interrupted") \in Terminal
        /\ "cancelled" \in Terminal /\ "cancelled" # "completed"
    BY ReportedTerminal DEF Terminal
  <2>2. CASE UNCHANGED state
    BY <2>2
  <2>3. CASE /\ \/ BeginCommit(r, "cancelled") \/ BeginCommit(r, Reported(r, "failed"))
                \/ BeginCommit(r, Reported(r, "interrupted"))
             /\ state[r].flush # "appending" \/ pc[r] = "checking"
    BY <2>1, <2>3, BeginMoves
  <2>4. CASE /\ BeginCommit(r, Reported(r, "completed")) /\ state[r].flush = "idle"
             /\ pc[r] \in {"draining", "redraining"}
    BY <2>1, <2>4, BeginMoves
  <2> QED BY <1>4, <2>2, <2>3, <2>4 DEF CheckParent, Drain, Unwind, CloseDrain
<1>5. ASSUME NEW r \in Runs, KernelEmit(r) PROVE Moves(q)
  BY <1>0, <1>5 DEF KernelEmit
<1>6. ASSUME NEW r \in Runs, TailStep(r) PROVE Moves(q)
  BY <1>0, <1>6 DEF TailStep, Flush, Appended, AppendRefused, AppendLost, Poison
<1>7. ASSUME NEW r \in Runs, CommitStep(r) PROVE Moves(q)
  BY <1>0, <1>7 DEF CommitStep, Commit, Disconnect, CommitRefused, CommitLost, CommitFails
<1>8. ASSUME NEW r \in Runs, Cancel(r) PROVE Moves(q)
  BY <1>8 DEF Cancel
<1>9. ASSUME NEW k \in Runs \X Callers, CancelStep(k) PROVE Moves(q)
  <2>1. CASE UNCHANGED state
    BY <2>1
  <2>2. CASE BeginCommit(k[1], "cancelled") /\ state[k[1]].flush # "appending"
    <3>1. k[1] \in Runs /\ "cancelled" \in Terminal /\ "cancelled" # "completed"
      BY DEF Terminal
    <3> QED BY <2>2, <3>1, BeginMoves
  <2> QED BY <1>9, <2>1, <2>2 DEF CancelStep, CancelRequest, CancelAnswer, CancelDrain
<1>10. CASE CloseDone
  BY <1>10 DEF CloseDone
<1>11. CASE \/ Close \/ CloseRuns \/ KernelStop \/ KernelExit \/ KernelStart
            \/ DataCrash \/ Edit
  BY <1>11 DEF Close, CloseRuns, KernelStop, KernelExit, KernelStart, DataCrash, Edit,
     mainVars
<1> HIDE DEF Moves
<1> QED BY <1>1, <1>2, <1>3, <1>4, <1>5, <1>6, <1>7, <1>8, <1>9, <1>10, <1>11
        DEF RouterNext, PromptStep

\* Which moves touch which part of the run state.
LEMMA FieldMoves ==
  ASSUME RouterTypeOK, [RouterNext]_vars, NEW q \in Runs
  PROVE  /\ \/ state'[q].live = state[q].live
            \/ Connect(q) /\ state'[q].live
            \/ CloseDone
         /\ \/ state'[q].cancelReq = state[q].cancelReq
            \/ /\ \E p \in Runs : Cancel(p) /\ q \in Reached(p)
               /\ state'[q].cancelReq /\ state'[q].done = state[q].done
         /\ \/ /\ state'[q].commit = state[q].commit /\ state'[q].done = state[q].done
               /\ state'[q].outcome = state[q].outcome /\ state'[q].snap = state[q].snap
            \/ Begins(q) \/ CommitStep(q)
         /\ \/ /\ state'[q].pend = state[q].pend /\ state'[q].flush = state[q].flush
               /\ state'[q].batch = state[q].batch /\ state'[q].seen = state[q].seen
            \/ KernelEmit(q) /\ Accepts(q)
            \/ TailStep(q)
<1>1. DOMAIN state = Runs /\ state[q] \in RunStates
  BY DEF RouterTypeOK, RunStateOK
<1>2. Moves(q)
  BY StateMoves
<1>3. CASE state'[q] = state[q]
  BY <1>3
<1>4. CASE \/ Connect(q) /\ state'[q] = [state[q] EXCEPT !.live = TRUE]
           \/ CloseDone /\ state'[q] = [state[q] EXCEPT !.live = FALSE]
  BY <1>1, <1>4 DEF RunStates
<1>5. CASE Begins(q)
  BY <1>1, <1>5 DEF RunStates, Begins
<1>6. CASE /\ \E p \in Runs : Cancel(p) /\ q \in Reached(p)
           /\ state'[q] = [state[q] EXCEPT !.cancelReq = TRUE]
  BY <1>1, <1>6 DEF RunStates
<1>7. CASE KernelEmit(q) /\ Accepts(q)
  <2>1. state'[q] = [state[q] EXCEPT !.pend = state[q].pend \cup {Len(sent[q]) + 1},
                       !.flush = IF state[q].flush = "idle" THEN "waiting" ELSE state[q].flush]
    BY <1>1, <1>7 DEF KernelEmit, RunStates
  <2> QED BY <1>1, <1>7, <2>1 DEF RunStates
<1>8. CASE TailStep(q)
  <2>1. /\ state'[q].live = state[q].live /\ state'[q].cancelReq = state[q].cancelReq
        /\ state'[q].commit = state[q].commit /\ state'[q].done = state[q].done
        /\ state'[q].outcome = state[q].outcome /\ state'[q].snap = state[q].snap
    <3>1. CASE Flush(q)
      <4>1. \/ state' = [state EXCEPT ![q].flush = "appending", ![q].pend = {},
                                      ![q].batch = state[q].pend]
            \/ state' = [state EXCEPT ![q].flush = "poisoned", ![q].pend = {}]
        BY <3>1 DEF Flush
      <4> QED BY <1>1, <4>1 DEF RunStates
    <3>2. CASE Appended(q)
      <4>1. PICK n, f : state' = [state EXCEPT ![q].seen = n, ![q].batch = {}, ![q].flush = f]
        BY <3>2 DEF Appended
      <4> QED BY <1>1, <4>1 DEF RunStates
    <3>3. CASE AppendRefused(q) \/ AppendLost(q)
      BY <1>1, <3>3 DEF AppendRefused, AppendLost, Poison, RunStates
    <3> QED BY <1>8, <3>1, <3>2, <3>3 DEF TailStep
  <2> QED BY <1>8, <2>1
<1>9. CASE CommitStep(q)
  <2>1. \E c, d : state'[q] = [state[q] EXCEPT !.commit = c, !.done = d]
    <3>1. CASE Commit(q)
      BY <1>1, <3>1 DEF Commit
    <3>2. CASE Disconnect(q)
      <4>1. state'[q] = [state[q] EXCEPT !.commit = "none", !.done = state[q].done]
        BY <1>1, <3>2 DEF Disconnect, RunStates
      <4> QED BY <4>1
    <3>3. CASE CommitRefused(q) \/ CommitLost(q)
      <4> DEFINE abandon == pc[q] = "abandoning" \/ xpc[q] = "committing"
      <4>1. state' = [state EXCEPT ![q].commit = "none", ![q].done = abandon]
        BY <3>3 DEF CommitRefused, CommitLost, CommitFails
      <4> HIDE DEF abandon
      <4>2. state'[q] = [state[q] EXCEPT !.commit = "none", !.done = abandon]
        BY <1>1, <4>1
      <4> QED BY <4>2
    <3> QED BY <1>9, <3>1, <3>2, <3>3 DEF CommitStep
  <2> QED BY <1>1, <1>9, <2>1 DEF RunStates
<1> QED BY <1>2, <1>3, <1>4, <1>5, <1>6, <1>7, <1>8, <1>9 DEF Moves

(* What a step can do to the row of a run *)

RowMoves(q) ==
  \/ status'[q] = status[q]
  \/ /\ status[q] = "absent" /\ pc[q] = "admitting" /\ status'[q] = "admitted"
     /\ Admit(q) \/ PromptLost(q)
  \/ status[q] = "admitted" /\ status'[q] = "running"
  \/ /\ IsActive(q) /\ state[q].commit = "sent" /\ status'[q] = state[q].outcome
     /\ Commit(q) \/ CommitLost(q)
  \/ IsActive(q) /\ status'[q] = "interrupted" /\ DataCrash
  \/ status'[q] = "absent" /\ (Edit \/ \E r \in Runs : SweepPhantom(r))

LEMMA DeletedRows ==
  ASSUME NEW c, HardDeleteConversation(c), NEW q \in Runs
  PROVE  /\ status'[q] \in {status[q], "absent"}
         /\ status'[q] # "absent" =>
              /\ convOf'[q] = convOf[q] /\ lastSeq'[q] = lastSeq[q] /\ log'[q] = log[q]
BY DEF HardDeleteConversation

LEMMA StatusMoves ==
  ASSUME RouterTypeOK, EndInv, [RouterNext]_vars, NEW q \in Runs
  PROVE  RowMoves(q)
<1> USE DEF RowMoves
<1>0. DOMAIN status = Runs
  BY DEF EndInv
<1>1. CASE UNCHANGED vars
  BY <1>1 DEF vars, storeVars
<1>2. ASSUME NEW r \in Runs,
             \/ Prompt(r) \/ SpawnChild(r) \/ Resolve(r) \/ Open(r) \/ Create(r)
             \/ Connect(r) \/ Compile(r) \/ Prepare(r) \/ Dispatch(r) \/ KernelAnswer(r)
             \/ Checkpoint(r) \/ Attach(r) \/ PromptRefused(r) \/ PromptTimeout(r)
             \/ CheckParent(r) \/ Drain(r) \/ Unwind(r) \/ CloseDrain(r) \/ KernelEmit(r)
             \/ Flush(r) \/ AppendRefused(r) \/ Disconnect(r) \/ CommitRefused(r) \/ Cancel(r)
      PROVE  RowMoves(q)
  BY <1>2 DEF Prompt, SpawnChild, BeginPrompt, Resolve, Open, Create, CreateConversation,
     Connect, Compile, Prepare, Dispatch, KernelAnswer, Checkpoint, PutCheckpoint, Attach,
     PromptRefused, PromptTimeout, CheckParent, Drain, Unwind, CloseDrain, KernelEmit,
     Flush, AppendRefused, Disconnect, CommitRefused, Cancel, storeVars
<1>3. ASSUME NEW r \in Runs, Admit(r) PROVE RowMoves(q)
  BY <1>0, <1>3 DEF Admit, AdmitRun, Admissible
<1>4. ASSUME NEW r \in Runs, Start(r) PROVE RowMoves(q)
  BY <1>0, <1>4 DEF Start, MarkRunStarted
<1>5. ASSUME NEW r \in Runs, PromptLost(r) PROVE RowMoves(q)
  <2>1. Applied(r) \/ UNCHANGED storeVars
    BY <1>5 DEF PromptLost, Lost
  <2> QED BY <1>0, <1>5, <2>1 DEF Applied, CreateConversation, AdmitRun, Admissible,
          MarkRunStarted, PutCheckpoint, storeVars
<1>6. ASSUME NEW r \in Runs, SweepPhantom(r) PROVE RowMoves(q)
  <2>1. status'[q] \in {status[q], "absent"}
    <3>1. HardDeleteConversation(RunConv[r]) \/ UNCHANGED storeVars
      BY <1>6 DEF SweepPhantom
    <3>2. CASE HardDeleteConversation(RunConv[r])
      BY <3>2, DeletedRows
    <3> QED BY <3>1, <3>2 DEF storeVars
  <2> QED BY <1>6, <2>1
<1>7. ASSUME NEW r \in Runs, Appended(r) \/ AppendLost(r) PROVE RowMoves(q)
  <2>1. AppendBatch(r) => UNCHANGED status
    BY DEF AppendBatch, AppendEvents
  <2> QED BY <1>7, <2>1 DEF Appended, AppendLost, Lost, storeVars
<1>8. ASSUME NEW r \in Runs, Commit(r) \/ CommitLost(r) PROVE RowMoves(q)
  <2>1. CommitTerminalRun(r, gen[r], state[r].outcome) \/ UNCHANGED storeVars
    BY <1>8 DEF Commit, CommitLost, Lost
  <2>2. state[r].commit = "sent"
    BY <1>8 DEF Commit, CommitLost
  <2> QED BY <1>0, <1>8, <2>1, <2>2 DEF CommitTerminalRun, storeVars
<1>9. ASSUME NEW k \in Runs \X Callers, CancelStep(k) PROVE RowMoves(q)
  BY <1>9 DEF CancelStep, CancelRequest, CancelAnswer, CancelDrain, storeVars
<1>10. CASE DataCrash
  BY <1>0, <1>10 DEF DataCrash, RecoverInterruptedRuns
<1>11. CASE Edit
  <2>1. status'[q] \in {status[q], "absent"}
    BY <1>11, DeletedRows DEF Edit
  <2> QED BY <1>11, <2>1
<1>12. CASE \/ Close \/ CloseRuns \/ CloseDone \/ KernelStop \/ KernelExit \/ KernelStart
  BY <1>12 DEF Close, CloseRuns, CloseDone, KernelStop, KernelExit, KernelStart, storeVars
<1> HIDE DEF RowMoves
<1> QED BY <1>1, <1>2, <1>3, <1>4, <1>5, <1>6, <1>7, <1>8, <1>9, <1>10, <1>11, <1>12
        DEF RouterNext, PromptStep, TailStep, CommitStep

(* What a step can do to the place of a prompt and to its session *)

PlaceMoves(q) ==
  /\ pc'[q] \in Early => pc[q] \in Early
  /\ pc'[q] = "connecting" => pc[q] = "connecting" \/ Admit(q)
  /\ pc'[q] \in Entered => pc[q] \in Entered \/ Connect(q)
  /\ pc'[q] = "arming" => pc[q] = "arming" \/ (CheckParent(q) /\ ~ParentEnded(q))

LEMMA PcMoves ==
  ASSUME RouterTypeOK, EndInv, CommitInv, [RouterNext]_vars, NEW q \in Runs
  PROVE  PlaceMoves(q)
<1> USE DEF PlaceMoves, Early, BeforeRun, Entered
<1>0. DOMAIN pc = Runs /\ DOMAIN session = Runs
  BY DEF EndInv, CommitInv
<1>1. CASE UNCHANGED vars
  BY <1>1 DEF vars, mainVars, promptVars
<1>2. ASSUME NEW r \in Runs,
             \/ KernelEmit(r) \/ TailStep(r) \/ Commit(r) \/ Cancel(r) \/ CloseDrain(r)
      PROVE  PlaceMoves(q)
  BY <1>2 DEF KernelEmit, TailStep, Flush, Appended, AppendRefused, AppendLost, Commit,
     Cancel, CloseDrain, promptVars
<1>3. ASSUME NEW r \in Runs, Prompt(r) \/ SpawnChild(r) \/ Resolve(r) PROVE PlaceMoves(q)
  BY <1>0, <1>3 DEF Prompt, SpawnChild, BeginPrompt, Resolve, Rejection
<1>4. ASSUME NEW r \in Runs, Open(r) \/ Create(r) PROVE PlaceMoves(q)
  BY <1>0, <1>4 DEF Open, Create, ToAdmission, Continue, Rejection
<1>5. ASSUME NEW r \in Runs, Admit(r) \/ Connect(r) \/ Compile(r) \/ Start(r) \/ Prepare(r)
      PROVE  PlaceMoves(q)
  BY <1>0, <1>5 DEF Admit, Connect, Compile, Start, Prepare, Continue
<1>6. ASSUME NEW r \in Runs, CheckParent(r) PROVE PlaceMoves(q)
  BY <1>0, <1>6 DEF CheckParent, Wait
<1>7. ASSUME NEW r \in Runs, Dispatch(r) \/ PromptTimeout(r) \/ SweepPhantom(r)
      PROVE  PlaceMoves(q)
  BY <1>0, <1>7 DEF Dispatch, PromptTimeout, SweepPhantom
<1>8. ASSUME NEW r \in Runs, KernelAnswer(r) PROVE PlaceMoves(q)
  BY <1>0, <1>8 DEF KernelAnswer
<1>9. ASSUME NEW r \in Runs, Checkpoint(r) \/ Attach(r) \/ Drain(r) \/ Unwind(r)
      PROVE  PlaceMoves(q)
  BY <1>0, <1>9 DEF Checkpoint, Attach, Drain, Unwind, Continue, Wait
<1>10. ASSUME NEW r \in Runs, PromptRefused(r) \/ PromptLost(r) PROVE PlaceMoves(q)
  BY <1>0, <1>10 DEF PromptRefused, PromptLost, FailPrompt, Rejection
<1>11. ASSUME NEW r \in Runs, Disconnect(r) \/ CommitRefused(r) \/ CommitLost(r)
       PROVE  PlaceMoves(q)
  BY <1>0, <1>11 DEF Disconnect, CommitRefused, CommitLost, CommitFails, Settle
<1>12. ASSUME NEW k \in Runs \X Callers, CancelStep(k) PROVE PlaceMoves(q)
  BY <1>12 DEF CancelStep, CancelRequest, CancelAnswer, CancelDrain, promptVars
<1>13. CASE KernelExit
  BY <1>0, <1>13 DEF KernelExit
<1>14. CASE \/ Close \/ CloseRuns \/ CloseDone \/ KernelStop \/ KernelStart \/ DataCrash \/ Edit
  BY <1>14 DEF Close, CloseRuns, CloseDone, KernelStop, KernelStart, DataCrash, Edit,
     mainVars, promptVars
<1> HIDE DEF PlaceMoves
<1> QED BY <1>1, <1>2, <1>3, <1>4, <1>5, <1>6, <1>7, <1>8, <1>9, <1>10, <1>11, <1>12,
           <1>13, <1>14 DEF RouterNext, PromptStep, CommitStep

KernelMoves(q) ==
  /\ \/ session'[q] = session[q]
     \/ /\ Dispatch(q) /\ pc[q] = "arming" /\ session'[q] = "open"
        /\ ~state[q].cancelReq /\ ~state[q].done /\ UNCHANGED <<state, cpc, closing>>
     \/ session[q] = "open" /\ session'[q] = "answered"
     \/ session[q] # "none" /\ session'[q] = "gone"
  /\ \/ sent'[q] = sent[q]
     \/ /\ KernelEmit(q)
        /\ \E sort \in EventSorts : sent'[q] = Append(sent[q], sort)

LEMMA SessionMoves ==
  ASSUME RouterTypeOK, CommitInv, [RouterNext]_vars, NEW q \in Runs
  PROVE  KernelMoves(q)
<1> USE DEF KernelMoves
<1>0. DOMAIN session = Runs /\ DOMAIN sent = Runs
  BY DEF CommitInv, RouterTypeOK
<1>1. CASE UNCHANGED vars
  BY <1>1 DEF vars, kernelVars
<1>2. ASSUME NEW r \in Runs,
             \/ Prompt(r) \/ SpawnChild(r) \/ Resolve(r) \/ Open(r) \/ Create(r) \/ Admit(r)
             \/ Connect(r) \/ Compile(r) \/ Start(r) \/ Prepare(r) \/ CheckParent(r)
             \/ Checkpoint(r) \/ Drain(r) \/ Attach(r) \/ PromptRefused(r) \/ PromptLost(r)
             \/ SweepPhantom(r) \/ Unwind(r) \/ PromptTimeout(r) \/ TailStep(r)
             \/ CommitStep(r) \/ Cancel(r) \/ CloseDrain(r)
      PROVE  KernelMoves(q)
  BY <1>2 DEF Prompt, SpawnChild, BeginPrompt, Resolve, Open, Create, Admit, Connect,
     Compile, Start, Prepare, CheckParent, Checkpoint, Drain, Attach, PromptRefused,
     PromptLost, SweepPhantom, Unwind, PromptTimeout, TailStep, Flush, Appended,
     AppendRefused, AppendLost, CommitStep, Commit, Disconnect, CommitRefused, CommitLost,
     Cancel, CloseDrain, kernelVars
<1>3. ASSUME NEW r \in Runs, Dispatch(r) \/ KernelAnswer(r) PROVE KernelMoves(q)
  BY <1>0, <1>3 DEF Dispatch, KernelAnswer
<1>4. ASSUME NEW r \in Runs, KernelEmit(r) PROVE KernelMoves(q)
  BY <1>0, <1>4 DEF KernelEmit
<1>5. ASSUME NEW k \in Runs \X Callers, CancelStep(k) PROVE KernelMoves(q)
  BY <1>5 DEF CancelStep, CancelRequest, CancelAnswer, CancelDrain, kernelVars
<1>6. CASE KernelExit
  BY <1>0, <1>6 DEF KernelExit
<1>7. CASE \/ Close \/ CloseRuns \/ CloseDone \/ KernelStop \/ KernelStart \/ DataCrash \/ Edit
  BY <1>7 DEF Close, CloseRuns, CloseDone, KernelStop, KernelStart, DataCrash, Edit,
     kernelVars
<1> HIDE DEF KernelMoves
<1> QED BY <1>1, <1>2, <1>3, <1>4, <1>5, <1>6, <1>7 DEF RouterNext, PromptStep

(* What the Renderer is told *)

LEMMA UiMoves ==
  ASSUME EndInv, [RouterNext]_vars, NEW q \in Runs
  PROVE  \/ ui'[q] = ui[q]
         \/ Disconnect(q)
         \/ Start(q) /\ status[q] = "admitted" /\ ui'[q].terminal = ui[q].terminal
<1>0. DOMAIN ui = Runs /\ DOMAIN ui[q] = {"started", "terminal"}
  BY DEF EndInv
<1>1. CASE UNCHANGED vars
  BY <1>1 DEF vars
<1>2. ASSUME NEW r \in Runs,
             \/ Prompt(r) \/ SpawnChild(r) \/ Resolve(r) \/ Open(r) \/ Create(r)
             \/ Admit(r) \/ Connect(r) \/ Compile(r) \/ Prepare(r) \/ CheckParent(r)
             \/ Dispatch(r) \/ KernelAnswer(r) \/ Checkpoint(r) \/ Attach(r) \/ Drain(r)
             \/ Unwind(r) \/ PromptRefused(r) \/ PromptLost(r) \/ SweepPhantom(r)
             \/ PromptTimeout(r) \/ KernelEmit(r) \/ TailStep(r) \/ Commit(r)
             \/ CommitRefused(r) \/ CommitLost(r) \/ Cancel(r) \/ CloseDrain(r)
      PROVE  ui'[q] = ui[q]
  BY <1>2 DEF Prompt, SpawnChild, BeginPrompt, Resolve, Open, Create, Admit, Connect,
     Compile, Prepare, CheckParent, Dispatch, KernelAnswer, Checkpoint, Attach, Drain,
     Unwind, PromptRefused, PromptLost, SweepPhantom, PromptTimeout, KernelEmit, TailStep,
     Flush, Appended, AppendRefused, AppendLost, Commit, CommitRefused, CommitLost,
     CommitFails, Cancel, CloseDrain
<1>3. ASSUME NEW r \in Runs, Start(r)
      PROVE  ui'[q] = ui[q] \/ (q = r /\ status[r] = "admitted" /\ ui'[r].terminal = ui[r].terminal)
  BY <1>0, <1>3 DEF Start, MarkRunStarted
<1>4. ASSUME NEW r \in Runs, Disconnect(r) PROVE ui'[q] = ui[q] \/ q = r
  BY <1>0, <1>4 DEF Disconnect
<1>5. CASE \/ \E k \in Runs \X Callers : CancelStep(k)
           \/ Close \/ CloseRuns \/ CloseDone \/ KernelStop \/ KernelExit \/ KernelStart
           \/ DataCrash \/ Edit
  BY <1>5 DEF CancelStep, CancelRequest, CancelAnswer, CancelDrain, Close, CloseRuns,
     CloseDone, KernelStop, KernelExit, KernelStart, DataCrash, Edit
<1> QED BY <1>1, <1>2, <1>3, <1>4, <1>5 DEF RouterNext, PromptStep, CommitStep

(* A commit is begun for an unfinished run and reported once *)

Kinds == {"lost", "crashes", "outages", "edits"}

LEMMA SpendTyped ==
  ASSUME spent \in [Kinds -> Nat], NEW k \in Kinds, NEW b, Spend(k, b)
  PROVE  /\ spent' \in [Kinds -> Nat] /\ spent'[k] # 0
         /\ \A j \in Kinds : spent'[j] = 0 => spent[j] = 0
BY DEF Spend

LEMMA SpentMoves ==
  ASSUME spent \in [Kinds -> Nat], [RouterNext]_vars
  PROVE  /\ spent' \in [Kinds -> Nat]
         /\ \A j \in Kinds : spent'[j] = 0 => spent[j] = 0
<1>0. "lost" \in Kinds /\ "crashes" \in Kinds /\ "outages" \in Kinds /\ "edits" \in Kinds
  BY DEF Kinds
<1>1. \/ UNCHANGED spent \/ Spend("lost", MaxLost) \/ Spend("crashes", MaxCrashes)
      \/ Spend("outages", MaxOutages) \/ Spend("edits", MaxEdits)
  <2>1. CASE UNCHANGED vars
    BY <2>1 DEF vars
  <2>2. ASSUME NEW r \in Runs,
               \/ Prompt(r) \/ SpawnChild(r) \/ Resolve(r) \/ Open(r) \/ Create(r)
               \/ Admit(r) \/ Connect(r) \/ Compile(r) \/ Start(r) \/ Prepare(r)
               \/ CheckParent(r) \/ Dispatch(r) \/ KernelAnswer(r) \/ Checkpoint(r)
               \/ Attach(r) \/ Drain(r) \/ Unwind(r) \/ PromptRefused(r) \/ KernelEmit(r)
               \/ Flush(r) \/ Appended(r) \/ AppendRefused(r) \/ Commit(r) \/ Disconnect(r)
               \/ CommitRefused(r) \/ Cancel(r) \/ CloseDrain(r)
        PROVE  UNCHANGED spent
    BY <2>2 DEF Prompt, SpawnChild, BeginPrompt, Resolve, Open, Create, Admit, Connect,
       Compile, Start, Prepare, CheckParent, Dispatch, KernelAnswer, Checkpoint, Attach,
       Drain, Unwind, PromptRefused, KernelEmit, Flush, Appended, AppendRefused, Commit,
       Disconnect, CommitRefused, Cancel, CloseDrain
  <2>3. ASSUME NEW r \in Runs, \/ PromptLost(r) \/ AppendLost(r) \/ CommitLost(r)
                               \/ SweepPhantom(r) \/ PromptTimeout(r)
        PROVE  UNCHANGED spent \/ Spend("lost", MaxLost) \/ Spend("outages", MaxOutages)
    BY <2>3 DEF PromptLost, AppendLost, CommitLost, Lost, SweepPhantom, PromptTimeout
  <2>4. ASSUME NEW k \in Runs \X Callers, CancelStep(k)
        PROVE  UNCHANGED spent \/ Spend("outages", MaxOutages)
    BY <2>4 DEF CancelStep, CancelRequest, CancelAnswer, CancelDrain
  <2>5. CASE \/ Close \/ CloseRuns \/ CloseDone \/ KernelStop \/ KernelExit \/ KernelStart
             \/ DataCrash \/ Edit
    BY <2>5 DEF Close, CloseRuns, CloseDone, KernelStop, KernelExit, KernelStart, DataCrash,
       Edit
  <2> QED BY <2>1, <2>2, <2>3, <2>4, <2>5 DEF RouterNext, PromptStep, TailStep, CommitStep
<1> QED BY <1>0, <1>1, SpendTyped

LEMMA SessionTyped ==
  ASSUME CommitInv, [RouterNext]_vars, RouterTypeOK
  PROVE  session' \in [Runs -> {"none", "open", "answered", "gone"}]
<1>1. \A q \in Runs : session'[q] \in {"none", "open", "answered", "gone"}
  BY SessionMoves DEF KernelMoves, CommitInv
<1>2. session' = [q \in Runs |-> session'[q]]
  <2>1. DOMAIN session = Runs /\ session = [q \in Runs |-> session[q]]
    BY DEF CommitInv
  <2>2. CASE UNCHANGED session
    BY <2>1, <2>2
  <2>3. CASE \E r \in Runs : \E s : session' = [session EXCEPT ![r] = s]
    BY <2>1, <2>3
  <2>4. CASE KernelExit
    BY <2>4 DEF KernelExit
  <2> QED
    <3>1. CASE UNCHANGED vars
      BY <2>2, <3>1 DEF vars, kernelVars
    <3>2. ASSUME NEW r \in Runs, Dispatch(r) \/ KernelAnswer(r)
          PROVE  \E s : session' = [session EXCEPT ![r] = s]
      BY <3>2 DEF Dispatch, KernelAnswer
    <3>3. ASSUME NEW r \in Runs,
             \/ Prompt(r) \/ SpawnChild(r) \/ Resolve(r) \/ Open(r) \/ Create(r) \/ Admit(r)
             \/ Connect(r) \/ Compile(r) \/ Start(r) \/ Prepare(r) \/ CheckParent(r)
             \/ Checkpoint(r) \/ Drain(r) \/ Attach(r) \/ PromptRefused(r) \/ PromptLost(r)
             \/ SweepPhantom(r) \/ Unwind(r) \/ PromptTimeout(r) \/ KernelEmit(r)
             \/ TailStep(r) \/ CommitStep(r) \/ Cancel(r) \/ CloseDrain(r)
          PROVE UNCHANGED session
      BY <3>3 DEF Prompt, SpawnChild, BeginPrompt, Resolve, Open, Create, Admit, Connect,
         Compile, Start, Prepare, CheckParent, Checkpoint, Drain, Attach, PromptRefused,
         PromptLost, SweepPhantom, Unwind, PromptTimeout, KernelEmit, TailStep, Flush,
         Appended, AppendRefused, AppendLost, CommitStep, Commit, Disconnect, CommitRefused,
         CommitLost, Cancel, CloseDrain, kernelVars
    <3>4. CASE \/ \E k \in Runs \X Callers : CancelStep(k)
               \/ Close \/ CloseRuns \/ CloseDone \/ KernelStop \/ KernelStart
               \/ DataCrash \/ Edit
      BY <2>2, <3>4 DEF CancelStep, CancelRequest, CancelAnswer, CancelDrain, Close,
         CloseRuns, CloseDone, KernelStop, KernelStart, DataCrash, Edit, kernelVars
    <3> QED BY <2>2, <2>3, <2>4, <3>1, <3>2, <3>3, <3>4 DEF RouterNext, PromptStep
<1> QED BY <1>1, <1>2

LEMMA FreshKept ==
  ASSUME RouterTypeOK, EndInv, EndInv', CommitInv, [RouterNext]_vars, NEW q \in Runs,
         pc'[q] \in Early
  PROVE  Fresh(q)'
<1>1. pc[q] \in Early /\ Untouched(q)'
  <2>1. pc[q] \in Early
    BY PcMoves DEF PlaceMoves
  <2> QED BY <2>1 DEF EndInv, EndSound
<1>2. Fresh(q) /\ Untouched(q)
  BY <1>1 DEF CommitInv, CommitSound, EndInv, EndSound
<1>3. /\ ~state[q].live /\ state[q].commit = "none" /\ state[q].flush = "idle"
      /\ session[q] = "none" /\ sent[q] = <<>> /\ state[q] = FreshState
  BY <1>2 DEF Fresh, FreshState
<1>4. ~KernelEmit(q) /\ ~TailStep(q) /\ ~CommitStep(q)
  BY <1>3 DEF KernelEmit, TailStep, Flush, Appended, AppendRefused, AppendLost, CommitStep,
     Commit, Disconnect, CommitRefused, CommitLost
<1>5. session'[q] = "none" /\ sent'[q] = <<>>
  <2>1. KernelMoves(q)
    BY SessionMoves
  <2>2. pc[q] # "arming"
    BY <1>1 DEF Early, BeforeRun
  <2> QED BY <1>3, <1>4, <2>1, <2>2 DEF KernelMoves
<1>6. state'[q] = FreshState
  <2>1. CASE Connect(q) /\ state'[q] = [state[q] EXCEPT !.live = TRUE]
    <3>1. pc'[q] = "compiling"
      BY <2>1 DEF Connect, EndInv
    <3> QED BY <1>1, <3>1, <2>1 DEF Untouched, Early, BeforeRun
  <2>2. CASE Begins(q)
    <3>1. state'[q].commit = "sent"
      BY <1>3, <2>2 DEF Begins, FreshState
    <3> QED BY <1>1, <3>1 DEF Untouched
  <2>3. ASSUME NEW p \in Runs, Cancel(p), q \in Reached(p) PROVE FALSE
    BY <1>3, <2>3 DEF Cancel, Reached, InRuns
  <2>4. CASE CloseDone /\ state'[q] = [state[q] EXCEPT !.live = FALSE]
    <3>1. state[q] \in RunStates /\ state[q].live = FALSE
      BY <1>3 DEF RouterTypeOK, RunStateOK, RunStates
    <3>2. [state[q] EXCEPT !.live = FALSE] = state[q]
      BY <3>1 DEF RunStates
    <3> QED BY <1>3, <2>4, <3>2
  <2> QED BY StateMoves, <1>3, <1>4, <2>1, <2>2, <2>3, <2>4 DEF Moves
<1> QED BY <1>5, <1>6 DEF Fresh

LEMMA CommitSoundKept ==
  ASSUME RouterTypeOK, EndInv, EndInv', CommitInv, [RouterNext]_vars, NEW q \in Runs
  PROVE  CommitSound(q)'
<1>0. DOMAIN state = Runs /\ state[q] \in RunStates /\ CommitSound(q)
  BY DEF RouterTypeOK, RunStateOK, CommitInv
<1>1. pc'[q] \in Early => Fresh(q)'
  BY FreshKept
<1>2. /\ \/ state'[q].commit = state[q].commit /\ state'[q].done = state[q].done
         \/ Begins(q) \/ CommitStep(q)
  BY FieldMoves
<1>3. CASE Begins(q)
  <2>1. state'[q].commit = "sent" /\ ~state'[q].done
    BY <1>0, <1>3 DEF Begins, RunStates
  <2> QED BY <1>1, <2>1 DEF CommitSound
<1>4. CASE Commit(q)
  <2>1. state'[q].commit = "disconnecting" /\ state'[q].done /\ UNCHANGED ui
    BY <1>0, <1>4 DEF Commit, RunStates
  <2>2. ui[q].terminal = "none"
    BY <1>4, ActiveNotEnded DEF Commit, CommitTerminalRun, EndInv
  <2> QED BY <1>1, <2>1, <2>2 DEF CommitSound
<1>5. CASE Disconnect(q) \/ CommitRefused(q) \/ CommitLost(q)
  <2>1. state'[q].commit = "none"
    <3>1. CASE Disconnect(q)
      BY <1>0, <3>1 DEF Disconnect, RunStates
    <3>2. CASE CommitRefused(q) \/ CommitLost(q)
      BY <1>0, <3>2 DEF CommitRefused, CommitLost, CommitFails, RunStates
    <3> QED BY <1>5, <3>1, <3>2
  <2> QED BY <1>1, <2>1 DEF CommitSound
<1>6. CASE /\ state'[q].commit = state[q].commit /\ state'[q].done = state[q].done
           /\ ~Disconnect(q)
  <2>1. ui'[q].terminal = ui[q].terminal
    BY <1>6, UiMoves
  <2> QED BY <1>0, <1>1, <1>6, <2>1 DEF CommitSound
<1> QED BY <1>2, <1>3, <1>4, <1>5, <1>6 DEF CommitStep

LEMMA CommitStepKept ==
  RouterTypeOK /\ EndInv /\ EndInv' /\ CommitInv /\ [RouterNext]_vars => CommitInv'
<1> SUFFICES ASSUME RouterTypeOK, EndInv, EndInv', CommitInv, [RouterNext]_vars
             PROVE  CommitInv'
  OBVIOUS
<1>1. spent' \in [Kinds -> Nat]
  BY SpentMoves DEF CommitInv, Kinds
<1> QED BY <1>1, SessionTyped, CommitSoundKept DEF CommitInv, Kinds

LEMMA CommitInit == RouterInit => CommitInv
BY DEF RouterInit, CommitInv, CommitSound, Fresh, FreshState, Early

\* Main's account of the commits of a run, and of what a run has before its
\* prompt is admitted.
LEMMA RouterCommits == RouterSpec => [](RouterTypeOK /\ EndInv /\ CommitInv)
BY RouterInitTyped, RouterStepTyped, EndInit, EndStep, CommitInit, CommitStepKept, PTL
   DEF RouterSpec

\* After the terminal event nothing more of the run reaches the Renderer: what is
\* reduced needs a row that is active, and a commit is reported once.
THEOREM RouterQuietAfterTerminal == RouterSpec => QuietAfterTerminal
<1>1. ASSUME RouterTypeOK, EndInv, CommitInv, [RouterNext]_vars, NEW r \in Runs,
             ui[r].terminal # "none"
      PROVE  state'[r].seen = state[r].seen /\ ui'[r] = ui[r]
  <2>1. ~IsActive(r)
    BY <1>1, ActiveNotEnded DEF EndInv
  <2>2. state[r] \in RunStates /\ DOMAIN state = Runs
    BY <1>1 DEF RouterTypeOK, RunStateOK
  <2>3. ui'[r] = ui[r]
    <3>1. ~Disconnect(r)
      BY <1>1 DEF Disconnect, CommitInv, CommitSound
    <3>2. status[r] # "admitted"
      BY <2>1 DEF IsActive, Active
    <3> QED BY <1>1, <3>1, <3>2, UiMoves
  <2>4. state'[r].seen = state[r].seen
    <3>1. CASE KernelEmit(r) /\ Accepts(r)
      <4>1. state'[r] = [state[r] EXCEPT !.pend = state[r].pend \cup {Len(sent[r]) + 1},
                       !.flush = IF state[r].flush = "idle" THEN "waiting" ELSE state[r].flush]
        BY <2>2, <3>1 DEF KernelEmit, RunStates
      <4> QED BY <2>2, <4>1 DEF RunStates
    <3>2. CASE Flush(r)
      <4>1. \/ state' = [state EXCEPT ![r].flush = "appending", ![r].pend = {},
                                      ![r].batch = state[r].pend]
            \/ state' = [state EXCEPT ![r].flush = "poisoned", ![r].pend = {}]
        BY <3>2 DEF Flush
      <4> QED BY <2>2, <4>1 DEF RunStates
    <3>3. CASE AppendRefused(r) \/ AppendLost(r)
      BY <2>2, <3>3 DEF AppendRefused, AppendLost, Poison, RunStates
    <3>4. ~Appended(r)
      BY <2>1 DEF Appended, AppendBatch, AppendEvents
    <3> QED BY <1>1, <3>1, <3>2, <3>3, <3>4, FieldMoves DEF TailStep
  <2> QED BY <2>3, <2>4
<1>2. RouterTypeOK /\ EndInv /\ CommitInv /\ [RouterNext]_vars =>
        [\A r \in Runs : ui[r].terminal # "none" =>
           state'[r].seen = state[r].seen /\ ui'[r] = ui[r]]_vars
  BY <1>1
<1> QED BY <1>2, RouterCommits, PTL DEF RouterSpec, QuietAfterTerminal

\* Nor is a run announced as started once its end was shown, although a cancel may
\* overtake the start: the start finds a row that is no longer admitted.
THEOREM RouterStartedBeforeEnd == RouterSpec => StartedBeforeEnd
<1>1. ASSUME RouterTypeOK, EndInv, CommitInv, [RouterNext]_vars, NEW r \in Runs,
             ui'[r].started # ui[r].started
      PROVE  ui[r].terminal = "none"
  <2>1. CASE Disconnect(r)
    BY <2>1, <1>1 DEF Disconnect, CommitInv, CommitSound
  <2>2. CASE status[r] = "admitted"
    BY <2>2, <1>1, ActiveNotEnded DEF EndInv, IsActive, Active
  <2> QED BY <1>1, <2>1, <2>2, UiMoves
<1>2. RouterTypeOK /\ EndInv /\ CommitInv /\ [RouterNext]_vars =>
        [\A r \in Runs : ui'[r].started # ui[r].started => ui[r].terminal = "none"]_vars
  BY <1>1
<1> QED BY <1>2, RouterCommits, PTL DEF RouterSpec, StartedBeforeEnd
-----------------------------------------------------------------------------
(* What is shown is durable *)

LEMMA LogMoves ==
  ASSUME RouterTypeOK, [RouterNext]_vars, NEW q \in Runs
  PROVE  \/ lastSeq'[q] = lastSeq[q] /\ log'[q] = log[q]
         \/ status'[q] = "absent"
         \/ (Appended(q) \/ AppendLost(q)) /\ AppendBatch(q)
<1> DEFINE Same == lastSeq'[q] = lastSeq[q] /\ log'[q] = log[q]
<1>1. CASE UNCHANGED vars
  BY <1>1 DEF vars, storeVars
<1>2. ASSUME NEW r \in Runs,
             \/ Prompt(r) \/ SpawnChild(r) \/ Resolve(r) \/ Open(r) \/ Create(r) \/ Admit(r)
             \/ Start(r) \/ Connect(r) \/ Compile(r) \/ Prepare(r) \/ Dispatch(r)
             \/ KernelAnswer(r) \/ Checkpoint(r) \/ Attach(r) \/ PromptRefused(r)
             \/ PromptTimeout(r) \/ CheckParent(r) \/ Drain(r) \/ Unwind(r) \/ CloseDrain(r)
             \/ KernelEmit(r) \/ Flush(r) \/ AppendRefused(r) \/ Disconnect(r)
             \/ CommitRefused(r) \/ Cancel(r)
      PROVE  Same
  BY <1>2 DEF Prompt, SpawnChild, BeginPrompt, Resolve, Open, Create, CreateConversation,
     Admit, AdmitRun, Start, MarkRunStarted, Connect, Compile, Prepare, Dispatch,
     KernelAnswer, Checkpoint, PutCheckpoint, Attach, PromptRefused, PromptTimeout,
     CheckParent, Drain, Unwind, CloseDrain, KernelEmit, Flush, AppendRefused, Disconnect,
     CommitRefused, Cancel, storeVars
<1>3. ASSUME NEW r \in Runs, PromptLost(r) PROVE Same
  <2>1. Applied(r) \/ UNCHANGED storeVars
    BY <1>3 DEF PromptLost, Lost
  <2> QED BY <2>1 DEF Applied, CreateConversation, AdmitRun, MarkRunStarted, PutCheckpoint,
          storeVars
<1>4. ASSUME NEW c, HardDeleteConversation(c) PROVE Same \/ status'[q] = "absent"
  BY <1>4, DeletedRows
<1>5. ASSUME NEW r \in Runs, SweepPhantom(r) PROVE Same \/ status'[q] = "absent"
  <2>1. HardDeleteConversation(RunConv[r]) \/ UNCHANGED storeVars
    BY <1>5 DEF SweepPhantom
  <2> QED BY <1>4, <2>1 DEF storeVars
<1>6. ASSUME NEW r \in Runs, Appended(r) \/ AppendLost(r)
      PROVE  Same \/ (q = r /\ AppendBatch(r))
  <2>1. AppendBatch(r) \/ UNCHANGED storeVars
    BY <1>6 DEF Appended, AppendLost, Lost
  <2>2. ASSUME AppendBatch(r), q # r PROVE Same
    BY <2>2 DEF AppendBatch, AppendEvents
  <2> QED BY <2>1, <2>2 DEF storeVars
<1>7. ASSUME NEW r \in Runs, Commit(r) \/ CommitLost(r) PROVE Same
  <2>1. CommitTerminalRun(r, gen[r], state[r].outcome) \/ UNCHANGED storeVars
    BY <1>7 DEF Commit, CommitLost, Lost
  <2> QED BY <2>1 DEF CommitTerminalRun, storeVars
<1>8. CASE \/ \E k \in Runs \X Callers : CancelStep(k)
           \/ Close \/ CloseRuns \/ CloseDone \/ KernelStop \/ KernelExit \/ KernelStart
           \/ DataCrash
  BY <1>8 DEF CancelStep, CancelRequest, CancelAnswer, CancelDrain, Close, CloseRuns,
     CloseDone, KernelStop, KernelExit, KernelStart, DataCrash, RecoverInterruptedRuns,
     storeVars
<1>9. CASE Edit
  BY <1>4, <1>9 DEF Edit
<1> HIDE DEF Same
<1>10. CASE \E r \in Runs : PromptStep(r) \/ Prompt(r) \/ SpawnChild(r) \/ PromptTimeout(r)
  BY <1>2, <1>3, <1>5, <1>10 DEF PromptStep, Same
<1>11. CASE \E r \in Runs : KernelEmit(r) \/ TailStep(r) \/ CommitStep(r) \/ Cancel(r)
                              \/ CloseDrain(r)
  BY <1>2, <1>6, <1>7, <1>11 DEF TailStep, CommitStep, Same
<1> QED BY <1>1, <1>8, <1>9, <1>10, <1>11 DEF RouterNext, Same

LEMMA SeenMoves ==
  ASSUME RouterTypeOK, [RouterNext]_vars, NEW q \in Runs
  PROVE  state'[q].seen = state[q].seen \/ (Appended(q) /\ state'[q].seen = Upto(q))
<1>1. state[q] \in RunStates /\ DOMAIN state = Runs
  BY DEF RouterTypeOK, RunStateOK
<1>2. CASE KernelEmit(q) /\ Accepts(q)
  <2>1. state'[q] = [state[q] EXCEPT !.pend = state[q].pend \cup {Len(sent[q]) + 1},
                   !.flush = IF state[q].flush = "idle" THEN "waiting" ELSE state[q].flush]
    BY <1>1, <1>2 DEF KernelEmit, RunStates
  <2> QED BY <1>1, <2>1 DEF RunStates
<1>3. CASE Flush(q)
  <2>1. \/ state' = [state EXCEPT ![q].flush = "appending", ![q].pend = {},
                                  ![q].batch = state[q].pend]
        \/ state' = [state EXCEPT ![q].flush = "poisoned", ![q].pend = {}]
    BY <1>3 DEF Flush
  <2> QED BY <1>1, <2>1 DEF RunStates
<1>4. CASE AppendRefused(q) \/ AppendLost(q)
  BY <1>1, <1>4 DEF AppendRefused, AppendLost, Poison, RunStates
<1>5. CASE Appended(q)
  <2>1. PICK f : state' = [state EXCEPT ![q].seen = Upto(q), ![q].batch = {}, ![q].flush = f]
    BY <1>5 DEF Appended
  <2> QED BY <1>1, <1>5, <2>1 DEF RunStates
<1> QED BY <1>2, <1>3, <1>4, <1>5, FieldMoves DEF TailStep

\* The outstanding batch of the tail, once appended, is at the end of the log.
LEMMA BatchAppended ==
  ASSUME RouterTypeOK, StoreTypeOK, NEW q \in Runs, ShownSound(q), Row(q),
         state[q].flush = "appending", AppendBatch(q)
  PROVE  /\ Upto(q) <= lastSeq'[q] /\ lastSeq[q] <= lastSeq'[q]
         /\ lastSeq[q] <= Upto(q) => lastSeq'[q] <= Upto(q)
         /\ \A e \in log'[q] : e.seq \in 1 .. Len(sent[q]) /\ e = StoreEvent(q, e.seq)
<1>1. /\ state[q].seen \in Nat /\ Upto(q) \in Nat /\ Len(sent[q]) \in Nat
      /\ state[q].seen <= Upto(q) /\ Upto(q) <= Len(sent[q])
  <2>1. RunStateOK(state[q], Len(sent[q])) /\ Len(sent[q]) \in Nat
    BY DEF RouterTypeOK
  <2>2. Cardinality(state[q].batch) \in Nat
    BY <2>1, EventCount DEF RunStateOK
  <2> QED BY <2>1, <2>2 DEF RunStateOK, RunStates, Upto
<1> DEFINE k == Upto(q) - state[q].seen
           b == StoreBatch(q, state[q].seen, Upto(q))
<1>2. AppendEvents(q, gen[q], b)
  BY DEF AppendBatch
<1>3. k \in Nat /\ DOMAIN b = 1 .. k /\ \A i \in 1 .. k : b[i] = StoreEvent(q, state[q].seen + i)
  BY <1>1 DEF StoreBatch
<1>4. \A i \in 1 .. k : b[i].seq = state[q].seen + i
  <2>1. \A n : StoreEvent(q, n).seq = n
    BY DEF StoreEvent
  <2> HIDE DEF b, k
  <2> QED BY <1>3, <2>1
<1> HIDE DEF b
<1>5. PICK top \in {lastSeq[q]} \cup {b[i].seq : i \in DOMAIN b} :
        /\ lastSeq[q] <= top
        /\ \A i \in DOMAIN b : b[i].seq <= top
        /\ lastSeq' = [lastSeq EXCEPT ![q] = top]
  BY <1>2 DEF AppendEvents
<1>6. lastSeq'[q] = top /\ state[q].seen <= top /\ top \in Nat
  <2>1. lastSeq'[q] = top /\ lastSeq[q] \in Nat
    BY <1>5 DEF StoreTypeOK
  <2>2. top \in Nat
    BY <1>1, <1>3, <1>4, <1>5, <2>1
  <2> QED BY <1>1, <1>5, <2>1, <2>2 DEF ShownSound
<1>7. Upto(q) <= top
  <2>1. CASE k = 0
    BY <1>1, <1>6, <2>1
  <2>2. CASE k # 0
    <3>1. k \in 1 .. k
      BY <1>3, <2>2
    <3>2. b[k].seq = Upto(q) /\ b[k].seq <= top
      BY <1>1, <1>3, <1>4, <1>5, <3>1
    <3> QED BY <3>2
  <2> QED BY <2>1, <2>2
<1>11. lastSeq[q] <= Upto(q) => top <= Upto(q)
  BY <1>1, <1>3, <1>4, <1>5
<1>8. log'[q] = log[q] \cup {b[i] : i \in DOMAIN b}
  BY <1>2 DEF AppendEvents, StoreTypeOK
<1>9. ASSUME NEW i \in 1 .. k
      PROVE  b[i].seq \in 1 .. Len(sent[q]) /\ b[i] = StoreEvent(q, b[i].seq)
  BY <1>1, <1>3, <1>4
<1>10. \A e \in log[q] : e.seq \in 1 .. Len(sent[q]) /\ e = StoreEvent(q, e.seq)
  BY DEF ShownSound
<1> QED BY <1>3, <1>5, <1>6, <1>7, <1>8, <1>9, <1>10, <1>11

LEMMA SentGrows ==
  ASSUME RouterTypeOK, CommitInv, [RouterNext]_vars, NEW q \in Runs
  PROVE  /\ Len(sent[q]) \in Nat /\ Len(sent'[q]) \in Nat /\ Len(sent[q]) <= Len(sent'[q])
         /\ \A n \in 1 .. Len(sent[q]) :
              sent'[q][n] = sent[q][n] /\ StoreEvent(q, n)' = StoreEvent(q, n)
<1>1. sent[q] \in Seq(EventSorts)
  BY DEF RouterTypeOK
<1>2. sent'[q] = sent[q] \/ \E sort \in EventSorts : sent'[q] = Append(sent[q], sort)
  BY SessionMoves DEF KernelMoves
<1>3. /\ Len(sent[q]) \in Nat /\ Len(sent'[q]) \in Nat /\ Len(sent[q]) <= Len(sent'[q])
      /\ \A n \in 1 .. Len(sent[q]) : sent'[q][n] = sent[q][n]
  BY <1>1, <1>2
<1> QED BY <1>3 DEF StoreEvent

LEMMA ShownKept ==
  ASSUME RouterTypeOK, StoreInv, EndInv, CommitInv, [RouterNext]_vars, NEW q \in Runs,
         ShownSound(q), status'[q] # "absent"
  PROVE  ShownSound(q)'
<1>1. StoreTypeOK /\ RowsPlaced
  BY DEF StoreInv
<1>2. CASE ~Row(q)
  <2>1. pc[q] = "admitting" /\ UNCHANGED state
    <3>1. pc[q] = "admitting" /\ (Admit(q) \/ PromptLost(q))
      BY <1>2, StatusMoves DEF RowMoves, Row, IsActive, Active
    <3> QED BY <3>1 DEF Admit, PromptLost
  <2>2. state[q].seen = 0
    BY <2>1 DEF CommitInv, CommitSound, Fresh, FreshState, Early, BeforeRun
  <2>3. lastSeq[q] = 0 /\ log[q] = {}
    BY <1>1, <1>2 DEF RowsPlaced
  <2>4. lastSeq'[q] = 0 /\ log'[q] = {}
    <3>1. ~AppendBatch(q)
      BY <1>2 DEF AppendBatch, AppendEvents, IsActive, Active, Row
    <3> QED BY <2>3, <3>1, LogMoves
  <2> QED BY <2>1, <2>2, <2>4 DEF ShownSound
<1>3. CASE Row(q)
  <2>1. \A n \in 1 .. Len(sent[q]) : StoreEvent(q, n)' = StoreEvent(q, n)
    BY SentGrows
  <2>2. Len(sent[q]) \in Nat /\ Len(sent'[q]) \in Nat /\ Len(sent[q]) <= Len(sent'[q])
    BY SentGrows
  <2>3. state[q].seen \in Nat /\ lastSeq[q] \in Nat /\ state[q].seen <= lastSeq[q]
    BY <1>1, <1>3 DEF RouterTypeOK, RunStateOK, RunStates, StoreTypeOK, ShownSound
  <2>4. CASE (Appended(q) \/ AppendLost(q)) /\ AppendBatch(q)
    <3>1. /\ Upto(q) <= lastSeq'[q] /\ lastSeq[q] <= lastSeq'[q]
          /\ \A e \in log'[q] : e.seq \in 1 .. Len(sent[q]) /\ e = StoreEvent(q, e.seq)
      BY <1>1, <1>3, <2>4, BatchAppended DEF Appended, AppendLost
    <3>2. state'[q].seen <= lastSeq'[q]
      <4>1. CASE Appended(q) /\ state'[q].seen = Upto(q)
        BY <3>1, <4>1
      <4>2. CASE state'[q].seen = state[q].seen
        <5>1. lastSeq'[q] \in Nat
          BY <2>4, <1>1 DEF AppendBatch, AppendEvents, StoreTypeOK, StoreBatch, StoreEvent
        <5> QED BY <2>3, <3>1, <4>2, <5>1
      <4> QED BY <4>1, <4>2, SeenMoves
    <3>3. \A e \in log'[q] : e.seq \in 1 .. Len(sent'[q]) /\ e = StoreEvent(q, e.seq)'
      BY <2>1, <2>2, <3>1
    <3> QED BY <3>2, <3>3 DEF ShownSound
  <2>5. CASE lastSeq'[q] = lastSeq[q] /\ log'[q] = log[q] /\ ~Appended(q)
    <3>1. state'[q].seen <= lastSeq'[q]
      BY <2>3, <2>5, SeenMoves
    <3>2. \A e \in log[q] : e.seq \in 1 .. Len(sent[q]) /\ e = StoreEvent(q, e.seq)
      BY <1>3 DEF ShownSound
    <3>3. \A e \in log'[q] : e.seq \in 1 .. Len(sent'[q]) /\ e = StoreEvent(q, e.seq)'
      BY <2>1, <2>2, <2>5, <3>2
    <3> QED BY <3>1, <3>3 DEF ShownSound
  <2>6. Appended(q) => AppendBatch(q)
    BY DEF Appended
  <2> QED BY <2>4, <2>5, <2>6, LogMoves
<1> QED BY <1>2, <1>3

LEMMA RouterShown == RouterSpec => []ShownInv
<1>1. RouterInit => ShownInv
  BY DEF RouterInit, StoreInit, ShownInv, ShownSound, Row
<1>2. RouterTypeOK /\ StoreInv /\ EndInv /\ CommitInv /\ ShownInv /\ [RouterNext]_vars => ShownInv'
  <2> SUFFICES ASSUME RouterTypeOK, StoreInv, EndInv, CommitInv, ShownInv, [RouterNext]_vars,
                      NEW q \in Runs
               PROVE  ShownSound(q)'
    BY DEF ShownInv
  <2>1. CASE status'[q] = "absent"
    BY <2>1 DEF ShownSound, Row
  <2> QED BY <2>1, ShownKept DEF ShownInv
<1> QED BY <1>1, <1>2, RouterCommits, RouterKeepsStore, PTL DEF RouterSpec

\* What the Renderer was shown of a run is in its log, and the log holds what the
\* kernel emitted, in its order, over lost replies, refused and poisoned batches.
THEOREM RouterShownIsDurable == RouterSpec => []ShownIsDurable
<1>1. ShownInv => ShownIsDurable
  BY DEF ShownInv, ShownSound, ShownIsDurable
<1> QED BY <1>1, RouterShown, PTL
-----------------------------------------------------------------------------
(* The map and the lease *)

LEMMA OneActive == StoreInv => OneActiveRun
<1> SUFFICES ASSUME StoreInv, NEW q \in Runs, NEW r \in Runs, IsActive(q), IsActive(r),
                    convOf[q] = convOf[r]
             PROVE  q = r
  BY DEF OneActiveRun
<1>1. UserTurn(q) = UserTurn(r)
  BY DEF StoreInv, ActiveHoldsTail
<1> QED BY <1>1, PromptOwner

LEMMA ConvMoves ==
  ASSUME StoreTypeOK, [RouterNext]_vars, NEW q \in Runs
  PROVE  \/ convOf'[q] = convOf[q]
         \/ status'[q] = "absent"
         \/ convOf'[q] = RunConv[q] /\ status[q] = "absent"
<1> DEFINE Same == convOf'[q] = convOf[q]
<1>0. DOMAIN convOf = Runs
  BY DEF StoreTypeOK
<1>1. CASE UNCHANGED vars
  BY <1>1 DEF vars, storeVars, identity
<1>2. ASSUME NEW r \in Runs,
             \/ Prompt(r) \/ SpawnChild(r) \/ Resolve(r) \/ Open(r) \/ Create(r)
             \/ Start(r) \/ Connect(r) \/ Compile(r) \/ Prepare(r) \/ Dispatch(r)
             \/ KernelAnswer(r) \/ Checkpoint(r) \/ Attach(r) \/ PromptRefused(r)
             \/ PromptTimeout(r) \/ CheckParent(r) \/ Drain(r) \/ Unwind(r) \/ CloseDrain(r)
             \/ KernelEmit(r) \/ Flush(r) \/ AppendRefused(r) \/ Disconnect(r)
             \/ CommitRefused(r) \/ Cancel(r)
      PROVE  Same
  BY <1>2 DEF Prompt, SpawnChild, BeginPrompt, Resolve, Open, Create, CreateConversation,
     Start, MarkRunStarted, Connect, Compile, Prepare, Dispatch, KernelAnswer, Checkpoint,
     PutCheckpoint, Attach, PromptRefused, PromptTimeout, CheckParent, Drain, Unwind,
     CloseDrain, KernelEmit, Flush, AppendRefused, Disconnect, CommitRefused, Cancel,
     storeVars, identity
<1>3. ASSUME NEW r \in Runs, AdmitRun(r, RunConv[r], gen[r], ParentOf[r])
      PROVE  Same \/ (convOf'[q] = RunConv[q] /\ status[q] = "absent")
  BY <1>0, <1>3 DEF AdmitRun, Admissible
<1>4. ASSUME NEW r \in Runs, Admit(r)
      PROVE  Same \/ (convOf'[q] = RunConv[q] /\ status[q] = "absent")
  BY <1>3, <1>4 DEF Admit
<1>5. ASSUME NEW r \in Runs, PromptLost(r)
      PROVE  Same \/ (convOf'[q] = RunConv[q] /\ status[q] = "absent")
  <2>1. Applied(r) \/ UNCHANGED storeVars
    BY <1>5 DEF PromptLost, Lost
  <2>2. CreateConversation(RunConv[r]) \/ MarkRunStarted(r, gen[r]) \/ PutCheckpoint(r, gen[r])
          => Same
    BY DEF CreateConversation, MarkRunStarted, PutCheckpoint, identity
  <2> QED BY <1>3, <2>1, <2>2 DEF Applied, storeVars, identity
<1>6. ASSUME NEW c, HardDeleteConversation(c) PROVE Same \/ status'[q] = "absent"
  BY <1>6, DeletedRows
<1>7. ASSUME NEW r \in Runs, SweepPhantom(r) PROVE Same \/ status'[q] = "absent"
  <2>1. HardDeleteConversation(RunConv[r]) \/ UNCHANGED storeVars
    BY <1>7 DEF SweepPhantom
  <2> QED BY <1>6, <2>1 DEF storeVars, identity
<1>8. ASSUME NEW r \in Runs, Appended(r) \/ AppendLost(r) PROVE Same
  <2>1. AppendBatch(r) \/ UNCHANGED storeVars
    BY <1>8 DEF Appended, AppendLost, Lost
  <2> QED BY <2>1 DEF AppendBatch, AppendEvents, storeVars, identity
<1>9. ASSUME NEW r \in Runs, Commit(r) \/ CommitLost(r) PROVE Same
  <2>1. CommitTerminalRun(r, gen[r], state[r].outcome) \/ UNCHANGED storeVars
    BY <1>9 DEF Commit, CommitLost, Lost
  <2> QED BY <2>1 DEF CommitTerminalRun, storeVars, identity
<1>10. CASE \/ \E k \in Runs \X Callers : CancelStep(k)
            \/ Close \/ CloseRuns \/ CloseDone \/ KernelStop \/ KernelExit \/ KernelStart
            \/ DataCrash
  BY <1>10 DEF CancelStep, CancelRequest, CancelAnswer, CancelDrain, Close, CloseRuns,
     CloseDone, KernelStop, KernelExit, KernelStart, DataCrash, RecoverInterruptedRuns,
     storeVars, identity
<1>11. CASE Edit
  BY <1>6, <1>11 DEF Edit
<1> HIDE DEF Same
<1>12. CASE \E r \in Runs : PromptStep(r) \/ Prompt(r) \/ SpawnChild(r) \/ PromptTimeout(r)
  BY <1>2, <1>4, <1>5, <1>7, <1>12 DEF PromptStep, Same
<1>13. CASE \E r \in Runs : KernelEmit(r) \/ TailStep(r) \/ CommitStep(r) \/ Cancel(r)
                              \/ CloseDrain(r)
  BY <1>2, <1>8, <1>9, <1>13 DEF TailStep, CommitStep, Same
<1> QED BY <1>1, <1>10, <1>11, <1>12, <1>13 DEF RouterNext, Same

LEMMA ActiveMoves ==
  ASSUME DOMAIN active = Conversations, [RouterNext]_vars
  PROVE  /\ DOMAIN active' = Conversations
         /\ \A c \in Conversations :
              \/ active'[c] = active[c]
              \/ \E r \in Runs : Connect(r) /\ c = RunConv[r] /\ active'[c] = r
              \/ \E r \in Runs : Commit(r) /\ c = RunConv[r]
              \/ \E r \in Runs :
                   /\ CommitRefused(r) \/ CommitLost(r)
                   /\ c = RunConv[r] /\ active[c] = r
                   /\ pc[r] = "abandoning" \/ xpc[r] = "committing"
              \/ CloseDone
<1>1. CASE UNCHANGED active
  BY <1>1
<1>2. ASSUME NEW r \in Runs, Connect(r) PROVE active' = [active EXCEPT ![RunConv[r]] = r]
  BY <1>2 DEF Connect
<1>3. ASSUME NEW r \in Runs, Commit(r) PROVE active' = [active EXCEPT ![RunConv[r]] = NoRun]
  BY <1>3 DEF Commit
<1>4. ASSUME NEW r \in Runs, CommitRefused(r) \/ CommitLost(r)
      PROVE  active' = [active EXCEPT ![RunConv[r]] =
               IF (pc[r] = "abandoning" \/ xpc[r] = "committing") /\ @ = r THEN NoRun ELSE @]
  BY <1>4 DEF CommitRefused, CommitLost, CommitFails
<1>5. CASE CloseDone
  BY <1>5 DEF CloseDone
<1>6. CASE UNCHANGED vars
  BY <1>1, <1>6 DEF vars, mainVars
<1>7. ASSUME NEW r \in Runs,
             \/ Prompt(r) \/ SpawnChild(r) \/ Resolve(r) \/ Open(r) \/ Create(r)
             \/ Admit(r) \/ Compile(r) \/ Start(r) \/ Prepare(r) \/ CheckParent(r)
             \/ Dispatch(r) \/ KernelAnswer(r) \/ Checkpoint(r) \/ Attach(r) \/ Drain(r)
             \/ Unwind(r) \/ PromptRefused(r) \/ PromptLost(r) \/ SweepPhantom(r)
             \/ PromptTimeout(r) \/ KernelEmit(r) \/ TailStep(r) \/ Disconnect(r)
             \/ Cancel(r) \/ CloseDrain(r)
      PROVE  UNCHANGED active
  BY <1>7 DEF Prompt, SpawnChild, BeginPrompt, Resolve, Open, Create, Admit, Compile, Start,
     Prepare, CheckParent, Dispatch, KernelAnswer, Checkpoint, Attach, Drain, Unwind,
     PromptRefused, PromptLost, SweepPhantom, PromptTimeout, KernelEmit, TailStep, Flush,
     Appended, AppendRefused, AppendLost, Disconnect, Cancel, CloseDrain
<1>8. CASE \/ \E k \in Runs \X Callers : CancelStep(k)
           \/ Close \/ CloseRuns \/ KernelStop \/ KernelExit \/ KernelStart \/ DataCrash \/ Edit
  BY <1>1, <1>8 DEF CancelStep, CancelRequest, CancelAnswer, CancelDrain, Close, CloseRuns,
     KernelStop, KernelExit, KernelStart, DataCrash, Edit, mainVars
<1>9. ASSUME NEW r \in Runs, Connect(r) \/ Commit(r) \/ CommitRefused(r) \/ CommitLost(r)
      PROVE  /\ DOMAIN active' = Conversations
             /\ \A c \in Conversations :
                  \/ active'[c] = active[c]
                  \/ Connect(r) /\ c = RunConv[r] /\ active'[c] = r
                  \/ Commit(r) /\ c = RunConv[r]
                  \/ /\ CommitRefused(r) \/ CommitLost(r)
                     /\ c = RunConv[r] /\ active[c] = r
                     /\ pc[r] = "abandoning" \/ xpc[r] = "committing"
  <2>1. CASE Connect(r)
    BY <1>2, <2>1
  <2>2. CASE Commit(r)
    BY <1>3, <2>2
  <2>3. CASE CommitRefused(r) \/ CommitLost(r)
    BY <1>4, <2>3
  <2> QED BY <1>9, <2>1, <2>2, <2>3
<1>10. CASE \E r \in Runs : Connect(r) \/ Commit(r) \/ CommitRefused(r) \/ CommitLost(r)
  BY <1>9, <1>10
<1> QED BY <1>1, <1>5, <1>6, <1>7, <1>8, <1>10 DEF RouterNext, PromptStep, CommitStep

LEMMA DeadMoves ==
  ASSUME [RouterNext]_vars, NEW r \in Runs
  PROVE  /\ PromptCall(r) \in dead => PromptCall(r) \in dead' \/ PromptLost(r)
         /\ CommitCall(r) \in dead' => CommitCall(r) \in dead \/ DataCrash
         /\ FlushCall(r) \in dead' => FlushCall(r) \in dead \/ DataCrash
         /\ CommitCall(r) \in dead => CommitCall(r) \in dead' \/ CommitLost(r)
<1> USE DEF PromptCall, FlushCall, CommitCall
<1>1. CASE UNCHANGED dead
  BY <1>1
<1>2. CASE UNCHANGED vars
  BY <1>1, <1>2 DEF vars, dataVars
<1>3. ASSUME NEW q \in Runs,
             \/ Prompt(q) \/ SpawnChild(q) \/ Resolve(q) \/ Open(q) \/ Create(q)
             \/ Admit(q) \/ Connect(q) \/ Compile(q) \/ Start(q) \/ Prepare(q)
             \/ CheckParent(q) \/ Dispatch(q) \/ KernelAnswer(q) \/ Checkpoint(q)
             \/ Attach(q) \/ Drain(q) \/ Unwind(q) \/ PromptRefused(q) \/ SweepPhantom(q)
             \/ PromptTimeout(q) \/ KernelEmit(q) \/ Flush(q) \/ Appended(q)
             \/ AppendRefused(q) \/ Commit(q) \/ Disconnect(q) \/ CommitRefused(q)
             \/ Cancel(q) \/ CloseDrain(q)
      PROVE  UNCHANGED dead
  BY <1>3 DEF Prompt, SpawnChild, BeginPrompt, Resolve, Open, Create, Admit, Connect,
     Compile, Start, Prepare, CheckParent, Dispatch, KernelAnswer, Checkpoint, Attach,
     Drain, Unwind, PromptRefused, SweepPhantom, PromptTimeout, KernelEmit, Flush,
     Appended, AppendRefused, Commit, Disconnect, CommitRefused, Cancel, CloseDrain, dataVars
<1>4. ASSUME NEW q \in Runs, AppendLost(q) \/ CommitLost(q) \/ PromptLost(q)
      PROVE  \/ UNCHANGED dead
             \/ dead' = dead \ {<<q, "flush">>}
             \/ dead' = dead \ {<<q, "commit">>} /\ CommitLost(q)
             \/ dead' = dead \ {<<q, "prompt">>} /\ PromptLost(q)
  BY <1>4 DEF AppendLost, CommitLost, PromptLost, Lost
<1>5. CASE \E q \in Runs : AppendLost(q) \/ CommitLost(q) \/ PromptLost(q)
  BY <1>4, <1>5
<1>6. CASE DataCrash
  BY <1>6 DEF DataCrash
<1>7. CASE \/ \E k \in Runs \X Callers : CancelStep(k)
           \/ Close \/ CloseRuns \/ CloseDone \/ KernelStop \/ KernelExit \/ KernelStart
           \/ Edit
  BY <1>1, <1>7 DEF CancelStep, CancelRequest, CancelAnswer, CancelDrain, Close, CloseRuns,
     CloseDone, KernelStop, KernelExit, KernelStart, Edit, dataVars
<1> QED BY <1>1, <1>2, <1>3, <1>5, <1>6, <1>7 DEF RouterNext, PromptStep, TailStep, CommitStep

(* When a run becomes and when it stops being active *)

LEMMA ActiveBorn ==
  ASSUME RouterTypeOK, EndInv, [RouterNext]_vars, NEW q \in Runs, ~IsActive(q), IsActive(q)'
  PROVE  pc[q] = "admitting" /\ (Admit(q) \/ PromptLost(q))
<1>1. state[q].outcome \notin Active
  BY DEF RouterTypeOK, RunStateOK, RunStates, Terminal, Active
<1> QED BY <1>1, StatusMoves DEF RowMoves, IsActive, Active

LEMMA SweepSpares ==
  ASSUME StoreInv, NEW q \in Runs, IsActive(q), NEW r \in Runs, SweepPhantom(r)
  PROVE  status'[q] = status[q]
<1>1. CASE UNCHANGED storeVars
  BY <1>1 DEF storeVars
<1>2. CASE turns[RunConv[r]] = <<>> /\ HardDeleteConversation(RunConv[r])
  <2>1. convOf[q] # RunConv[r]
    BY <1>2 DEF StoreInv, ActiveHoldsTail
  <2> QED BY <1>2, <2>1 DEF HardDeleteConversation
<1> QED BY <1>1, <1>2 DEF SweepPhantom

LEMMA ActiveEnds ==
  ASSUME RouterTypeOK, StoreInv, EndInv, [RouterNext]_vars,
         NEW q \in Runs, IsActive(q), ~IsActive(q)'
  PROVE  \/ state[q].commit = "sent" /\ (Commit(q) \/ CommitLost(q))
         \/ DataCrash
         \/ Edit
BY StatusMoves, SweepSpares DEF RowMoves, IsActive, Active

LEMMA NoEditYet ==
  ASSUME CommitInv, [RouterNext]_vars, spent'.edits = 0
  PROVE  spent.edits = 0 /\ ~Edit
<1>1. "edits" \in Kinds /\ spent \in [Kinds -> Nat]
  BY DEF Kinds, CommitInv
<1> QED BY <1>1, SpentMoves, SpendTyped DEF Edit

LEMMA LeaseKept ==
  ASSUME RouterTypeOK, StoreInv, StoreInv', EndInv, EndInv', CommitInv, LeaseInv,
         [RouterNext]_vars, spent'.edits = 0, NEW q \in Runs
  PROVE  LeaseSound(q)'
<1>0. /\ spent.edits = 0 /\ ~Edit /\ \A r \in Runs : LeaseSound(r)
      /\ RunConv[q] \in Conversations
      /\ state[q] \in RunStates /\ DOMAIN state = Runs
  BY NoEditYet, PromptAssumption DEF LeaseInv, RouterTypeOK, RunStateOK
<1>1. Row(q)' => convOf'[q] = RunConv[q]
  <2>1. CASE convOf'[q] = convOf[q] /\ ~Row(q)
    BY <2>1, SentinelAssumption DEF StoreInv, RowsPlaced
  <2> QED BY <1>0, <2>1, ConvMoves DEF LeaseSound, Row, StoreInv
<1>2. ASSUME pc'[q] = "connecting", PromptCall(q) \notin dead'
      PROVE  IsActive(q)'
  <2>1. CASE Admit(q)
    BY <2>1 DEF Admit, AdmitRun, EndInv, IsActive, Active
  <2>2. CASE pc[q] = "connecting"
    <3>1. ~PromptLost(q)
      BY <1>2, <2>2 DEF PromptLost, FailPrompt, Rejection, BeforeRun, EndInv
    <3>2. IsActive(q)
      BY <1>0, <1>2, <2>2, <3>1, DeadMoves DEF LeaseSound
    <3>3. ~DataCrash
      BY <1>2, <2>2 DEF DataCrash
    <3>4. state[q].commit # "sent"
      BY <2>2 DEF EndInv, EndSound, Untouched, Early, BeforeRun
    <3> QED BY <1>0, <3>2, <3>3, <3>4, ActiveEnds
  <2> QED BY <1>2, <2>1, <2>2, PcMoves DEF PlaceMoves
<1>3. ASSUME InRuns(q)', ~state'[q].done, IsActive(q)'
      PROVE  active'[RunConv[q]] = q
  <2>1. ~CloseDone
    BY <1>0, <1>3 DEF CloseDone, InRuns, RunStates
  <2>2. CASE Connect(q)
    BY <1>0, <2>2 DEF Connect, LeaseInv
  <2>3. CASE ~Connect(q)
    <3>1. InRuns(q)
      BY <1>3, <2>1, <2>3, FieldMoves DEF InRuns
    <3>2. IsActive(q)
      <4>1. pc[q] # "admitting"
        BY <3>1 DEF InRuns, EndInv, EndSound, Untouched, Early, BeforeRun
      <4> QED BY <1>3, <4>1, ActiveBorn
    <3>3. ~Commit(q)
      BY <1>0, <1>3 DEF Commit, RunStates
    <3>4. CommitRefused(q) \/ CommitLost(q) => ~(pc[q] = "abandoning" \/ xpc[q] = "committing")
      BY <1>0, <1>3 DEF CommitRefused, CommitLost, CommitFails, RunStates
    <3>5. ~state[q].done
      <4>1. CASE Begins(q)
        BY <4>1 DEF Begins
      <4>2. CASE Disconnect(q)
        BY <1>0, <1>3, <4>2 DEF Disconnect, RunStates
      <4>3. CASE CommitRefused(q) \/ CommitLost(q)
        BY <4>3 DEF CommitInv, CommitSound, CommitRefused, CommitLost
      <4> QED BY <1>3, <3>3, <4>1, <4>2, <4>3, FieldMoves DEF CommitStep
    <3>6. active[RunConv[q]] = q /\ convOf[q] = RunConv[q]
      BY <1>0, <3>1, <3>2, <3>5 DEF LeaseSound, Row, IsActive, Active
    <3>7. ASSUME NEW r \in Runs, IsActive(r), RunConv[r] = RunConv[q] PROVE r = q
      <4>1. convOf[r] = RunConv[r]
        BY <1>0, <3>7 DEF LeaseSound, Row, IsActive, Active
      <4> QED BY <3>2, <3>6, <3>7, <4>1, OneActive DEF OneActiveRun
    <3>8. ASSUME NEW r \in Runs, Connect(r), RunConv[r] = RunConv[q] PROVE r = q
      BY <1>0, <3>7, <3>8 DEF Connect, LeaseSound
    <3>9. ASSUME NEW r \in Runs, Commit(r), RunConv[r] = RunConv[q] PROVE FALSE
      BY <3>3, <3>7, <3>9 DEF Commit, CommitTerminalRun
    <3> QED BY <1>0, <2>1, <3>4, <3>6, <3>8, <3>9, ActiveMoves DEF LeaseInv
  <2> QED BY <2>2, <2>3
<1> QED BY <1>1, <1>2, <1>3 DEF LeaseSound

\* The map activeByConversation names the run that holds the lease, as long as
\* nobody deletes conversations beside the router: it is written after the
\* admission and cleared after the commit, and the lease of the tables keeps a
\* second run out in between.
THEOREM RouterLeaseAgrees == RouterSpec => []LeaseAgrees
<1>1. RouterInit => LeaseInv
  BY DEF RouterInit, StoreInit, LeaseInv, LeaseSound, Row, InRuns, FreshState
<1>2. /\ RouterTypeOK /\ StoreInv /\ StoreInv' /\ EndInv /\ EndInv' /\ CommitInv /\ LeaseInv
      /\ [RouterNext]_vars
      => LeaseInv'
  BY LeaseKept, ActiveMoves DEF LeaseInv
<1>3. LeaseInv => LeaseAgrees
  BY DEF LeaseInv, LeaseSound, LeaseAgrees
<1> QED BY <1>1, <1>2, <1>3, RouterCommits, RouterKeepsStore, PTL DEF RouterSpec
-----------------------------------------------------------------------------
(* The requests, and what close() has settled *)

Requests == Runs \X {"prompt", "flush", "commit"}

Queued(t) == \E i \in DOMAIN queue : queue[i] = t

AppendEnds(r) == Appended(r) \/ AppendRefused(r) \/ AppendLost(r)
CommitEnds(r) == Commit(r) \/ CommitRefused(r) \/ CommitLost(r)

QueueMoves ==
  \/ queue' = queue
  \/ queue' = <<>> /\ DataCrash
  \/ \E r \in Runs :
       \/ /\ Served(PromptCall(r))
          /\ queue' = Tail(queue) \/ queue' = Append(Tail(queue), PromptCall(r))
       \/ Served(FlushCall(r)) /\ AppendEnds(r) /\ queue' = Tail(queue)
       \/ Served(CommitCall(r)) /\ CommitEnds(r) /\ queue' = Tail(queue)
       \/ queue' = Append(queue, PromptCall(r))
       \/ /\ queue' = Append(queue, FlushCall(r))
          /\ state[r].flush = "waiting" /\ state'[r].flush = "appending"
       \/ /\ queue' = Append(queue, CommitCall(r))
          /\ state[r].commit = "none" /\ state'[r].commit = "sent"

LEMMA QueueMoved ==
  ASSUME RouterTypeOK, [RouterNext]_vars
  PROVE  QueueMoves
<1> USE DEF QueueMoves
<1>1. CASE UNCHANGED vars
  BY <1>1 DEF vars, dataVars
<1>2. ASSUME NEW r \in Runs, UNCHANGED queue \/ \E o : BeginCommit(r, o) PROVE QueueMoves
  <2>1. CASE UNCHANGED queue
    BY <2>1
  <2>2. ASSUME NEW o, BeginCommit(r, o), ~UNCHANGED queue PROVE QueueMoves
    <3>1. queue' = Append(queue, CommitCall(r))
      BY <2>2 DEF BeginCommit
    <3>2. state[r].commit = "none" /\ state'[r].commit = "sent"
      BY <2>2 DEF BeginCommit, RouterTypeOK, RunStateOK, RunStates
    <3> QED BY <3>1, <3>2
  <2> QED BY <1>2, <2>1, <2>2
<1>3. ASSUME NEW r \in Runs,
             \/ Prompt(r) \/ SpawnChild(r) \/ Dispatch(r) \/ SweepPhantom(r)
             \/ PromptTimeout(r) \/ KernelEmit(r) \/ Disconnect(r) \/ Cancel(r)
      PROVE  QueueMoves
  BY <1>3 DEF Prompt, SpawnChild, BeginPrompt, Dispatch, SweepPhantom, PromptTimeout,
     KernelEmit, Disconnect, Cancel, dataVars
<1>4. ASSUME NEW r \in Runs, Resolve(r) \/ Connect(r) \/ KernelAnswer(r) PROVE QueueMoves
  BY <1>4 DEF Resolve, Connect, KernelAnswer
<1>12. ASSUME NEW r \in Runs, Flush(r) PROVE QueueMoves
  <2>1. state[r] \in RunStates /\ DOMAIN state = Runs
    BY DEF RouterTypeOK, RunStateOK
  <2>2. \/ UNCHANGED queue
        \/ /\ queue' = Append(queue, FlushCall(r))
           /\ state' = [state EXCEPT ![r].flush = "appending", ![r].pend = {},
                                     ![r].batch = state[r].pend]
    BY <1>12 DEF Flush
  <2>3. state[r].flush = "waiting"
    BY <1>12 DEF Flush
  <2> QED BY <2>1, <2>2, <2>3 DEF RunStates
<1>5. ASSUME NEW r \in Runs,
             \/ Open(r) \/ Create(r) \/ Admit(r) \/ Compile(r) \/ Start(r) \/ Prepare(r)
             \/ Checkpoint(r) \/ Attach(r)
      PROVE  QueueMoves
  <2>1. Served(PromptCall(r)) /\ \E next : Continue(r, next)
    BY <1>5 DEF Open, Create, ToAdmission, Admit, Compile, Start, Prepare, Checkpoint,
       Attach
  <2> QED BY <2>1 DEF Continue
<1>6. ASSUME NEW r \in Runs,
             PromptRefused(r) \/ Appended(r) \/ AppendRefused(r) \/ Commit(r) \/ CommitRefused(r)
      PROVE  QueueMoves
  <2>1. CASE PromptRefused(r)
    BY <2>1 DEF PromptRefused
  <2>2. CASE Appended(r) \/ AppendRefused(r)
    <3>1. Served(FlushCall(r)) /\ queue' = Tail(queue)
      BY <2>2 DEF Appended, AppendRefused
    <3> QED BY <2>2, <3>1 DEF AppendEnds
  <2>3. CASE Commit(r) \/ CommitRefused(r)
    <3>1. Served(CommitCall(r)) /\ queue' = Tail(queue)
      BY <2>3 DEF Commit, CommitRefused
    <3> QED BY <2>3, <3>1 DEF CommitEnds
  <2> QED BY <1>6, <2>1, <2>2, <2>3
<1>7. ASSUME NEW r \in Runs, PromptLost(r) \/ AppendLost(r) \/ CommitLost(r) PROVE QueueMoves
  <2>1. ASSUME PromptLost(r) PROVE QueueMoves
    BY <2>1 DEF PromptLost, Lost
  <2>2. ASSUME AppendLost(r) PROVE QueueMoves
    <3>1. queue' = queue \/ (Served(FlushCall(r)) /\ queue' = Tail(queue))
      BY <2>2 DEF AppendLost, Lost
    <3> QED BY <2>2, <3>1 DEF AppendEnds
  <2>3. ASSUME CommitLost(r) PROVE QueueMoves
    <3>1. queue' = queue \/ (Served(CommitCall(r)) /\ queue' = Tail(queue))
      BY <2>3 DEF CommitLost, Lost
    <3> QED BY <2>3, <3>1 DEF CommitEnds
  <2> QED BY <1>7, <2>1, <2>2, <2>3
<1>8. ASSUME NEW r \in Runs, CheckParent(r) \/ Unwind(r) \/ CloseDrain(r) PROVE QueueMoves
  BY <1>2, <1>8 DEF CheckParent, Unwind, CloseDrain
<1>9. ASSUME NEW r \in Runs, Drain(r) PROVE QueueMoves
  <2>1. queue' = Append(queue, PromptCall(r)) \/ UNCHANGED queue \/ \E o : BeginCommit(r, o)
    BY <1>9 DEF Drain
  <2> QED BY <1>2, <2>1
<1>10. ASSUME NEW k \in Runs \X Callers, CancelStep(k) PROVE QueueMoves
  <2>1. UNCHANGED queue \/ BeginCommit(k[1], "cancelled")
    BY <1>10 DEF CancelStep, CancelRequest, CancelAnswer, CancelDrain, dataVars
  <2>2. k[1] \in Runs
    OBVIOUS
  <2> QED BY <1>2, <2>1, <2>2
<1>11. CASE \/ Close \/ CloseRuns \/ CloseDone \/ KernelStop \/ KernelExit \/ KernelStart
            \/ DataCrash \/ Edit
  BY <1>11 DEF Close, CloseRuns, CloseDone, KernelStop, KernelExit, KernelStart,
     DataCrash, Edit, dataVars
<1> HIDE DEF QueueMoves
<1> QED BY <1>1, <1>3, <1>4, <1>12, <1>5, <1>6, <1>7, <1>8, <1>9, <1>10, <1>11
        DEF RouterNext, PromptStep, TailStep, CommitStep

LEMMA QueueHolds ==
  ASSUME queue \in Seq(Requests), QueueMoves
  PROVE  /\ queue' \in Seq(Requests)
         /\ \A r \in Runs : Queued(CommitCall(r))' =>
              Queued(CommitCall(r)) \/ state'[r].commit = "sent"
<1> USE DEF Requests
<1>0. \A r \in Runs : /\ PromptCall(r) \in Requests /\ FlushCall(r) \in Requests
                      /\ CommitCall(r) \in Requests
  BY DEF PromptCall, FlushCall, CommitCall
<1>1. ASSUME NEW r \in Runs, Queued(CommitCall(r))'
      PROVE  Queued(CommitCall(r)) \/ state'[r].commit = "sent"
  <2>0. PICK i \in DOMAIN queue' : queue'[i] = CommitCall(r)
    BY <1>1 DEF Queued, CommitCall
  <2>1. \A q \in Runs : /\ PromptCall(q) # CommitCall(r) /\ FlushCall(q) # CommitCall(r)
                        /\ CommitCall(q) = CommitCall(r) => q = r
    BY DEF PromptCall, FlushCall, CommitCall
  <2>2. ASSUME queue # <<>>, NEW j \in DOMAIN Tail(queue)
        PROVE  \E n \in DOMAIN queue : queue[n] = Tail(queue)[j]
    <3>1. j + 1 \in DOMAIN queue /\ Tail(queue)[j] = queue[j + 1]
      BY <2>2
    <3> QED BY <3>1
  <2>3. ASSUME NEW s \in Seq(Requests), NEW t \in Requests, NEW j \in DOMAIN Append(s, t)
        PROVE  (j \in DOMAIN s /\ Append(s, t)[j] = s[j]) \/ Append(s, t)[j] = t
    BY <2>3
  <2>4. queue # <<>> => Tail(queue) \in Seq(Requests)
    OBVIOUS
  <2>5. CASE queue' = queue \/ queue' = <<>>
    BY <2>0, <2>5 DEF Queued
  <2>6. CASE queue # <<>> /\ queue' = Tail(queue)
    BY <2>0, <2>2, <2>6 DEF Queued
  <2>7. ASSUME NEW q \in Runs, queue # <<>>, queue' = Append(Tail(queue), PromptCall(q))
        PROVE  Queued(CommitCall(r))
    <3>1. i \in DOMAIN Tail(queue) /\ Tail(queue)[i] = CommitCall(r)
      BY <1>0, <2>0, <2>1, <2>3, <2>4, <2>7
    <3> QED BY <2>2, <2>7, <3>1 DEF Queued
  <2>8. ASSUME NEW q \in Runs, NEW t \in Requests, queue' = Append(queue, t)
        PROVE  Queued(CommitCall(r)) \/ t = CommitCall(r)
    BY <2>0, <2>3, <2>8 DEF Queued
  <2>9. \/ queue' = queue \/ queue' = <<>>
        \/ queue # <<>> /\ queue' = Tail(queue)
        \/ \E q \in Runs : queue # <<>> /\ queue' = Append(Tail(queue), PromptCall(q))
        \/ \E q \in Runs, t \in Requests :
             /\ queue' = Append(queue, t)
             /\ t = CommitCall(q) => state'[q].commit = "sent"
             /\ t \in {PromptCall(q), FlushCall(q), CommitCall(q)}
    BY <1>0 DEF QueueMoves, Served, PromptCall, FlushCall, CommitCall
  <2> QED BY <1>0, <2>1, <2>5, <2>6, <2>7, <2>8, <2>9
<1>2. queue' \in Seq(Requests)
  <2>1. queue # <<>> => Tail(queue) \in Seq(Requests)
    OBVIOUS
  <2>2. \A s \in Seq(Requests), t \in Requests : Append(s, t) \in Seq(Requests)
    OBVIOUS
  <2> HIDE DEF Requests
  <2>3. <<>> \in Seq(Requests)
    OBVIOUS
  <2> QED BY <1>0, <2>1, <2>2, <2>3 DEF QueueMoves, Served
<1> QED BY <1>1, <1>2

LEMMA XpcMoves ==
  ASSUME EndInv, [RouterNext]_vars, NEW q \in Runs, xpc'[q] = "settled"
  PROVE  \/ xpc[q] = "settled"
         \/ CloseDrain(q) /\ state[q].done
         \/ Disconnect(q) \/ CommitRefused(q) \/ CommitLost(q)
<1>0. DOMAIN xpc = Runs
  BY DEF EndInv
<1>1. CASE UNCHANGED xpc
  BY <1>1
<1>2. CASE UNCHANGED vars
  BY <1>1, <1>2 DEF vars, mainVars
<1>3. ASSUME NEW r \in Runs,
             \/ Prompt(r) \/ SpawnChild(r) \/ Resolve(r) \/ Open(r) \/ Create(r)
             \/ Admit(r) \/ Connect(r) \/ Compile(r) \/ Start(r) \/ Prepare(r)
             \/ CheckParent(r) \/ Dispatch(r) \/ KernelAnswer(r) \/ Checkpoint(r)
             \/ Attach(r) \/ Drain(r) \/ Unwind(r) \/ PromptRefused(r) \/ PromptLost(r)
             \/ SweepPhantom(r) \/ PromptTimeout(r) \/ KernelEmit(r) \/ TailStep(r)
             \/ Commit(r) \/ Cancel(r)
      PROVE  UNCHANGED xpc
  BY <1>3 DEF Prompt, SpawnChild, BeginPrompt, Resolve, Open, Create, Admit, Connect,
     Compile, Start, Prepare, CheckParent, Dispatch, KernelAnswer, Checkpoint, Attach,
     Drain, Unwind, PromptRefused, PromptLost, SweepPhantom, PromptTimeout, KernelEmit,
     TailStep, Flush, Appended, AppendRefused, AppendLost, Commit, Cancel
<1>4. ASSUME NEW r \in Runs, Disconnect(r) \/ CommitRefused(r) \/ CommitLost(r)
      PROVE  xpc'[q] = xpc[q] \/ q = r
  BY <1>0, <1>4 DEF Disconnect, CommitRefused, CommitLost, CommitFails, Settle
<1>5. ASSUME NEW r \in Runs, CloseDrain(r)
      PROVE  xpc'[q] = xpc[q] \/ (q = r /\ state[q].done)
  BY <1>0, <1>5 DEF CloseDrain, Wait
<1>6. CASE \/ \E k \in Runs \X Callers : CancelStep(k)
           \/ Close \/ CloseDone \/ KernelStop \/ KernelExit \/ KernelStart \/ DataCrash
           \/ Edit
  BY <1>1, <1>6 DEF CancelStep, CancelRequest, CancelAnswer, CancelDrain, Close, CloseDone,
     KernelStop, KernelExit, KernelStart, DataCrash, Edit, mainVars
<1>7. CASE CloseRuns
  BY <1>7 DEF CloseRuns
<1> QED BY <1>1, <1>2, <1>3, <1>4, <1>5, <1>6, <1>7 DEF RouterNext, PromptStep, CommitStep

LEMMA CloseKept ==
  ASSUME RouterTypeOK, StoreInv, EndInv, EndInv', CommitInv, CloseInv, [RouterNext]_vars,
         NEW q \in Runs
  PROVE  CloseSound(q)'
<1>0. /\ CloseSound(q) /\ CommitSound(q) /\ EndSound(q) /\ EndSound(q)'
      /\ state[q] \in RunStates /\ DOMAIN state = Runs
  BY DEF CloseInv, CommitInv, EndInv, RouterTypeOK, RunStateOK
<1>1. ASSUME pc'[q] \in Early
      PROVE  ~Outstanding(CommitCall(q))'
  <2>1. pc[q] \in Early /\ ~Outstanding(CommitCall(q)) /\ state'[q].commit = "none"
    BY <1>0, <1>1, PcMoves DEF PlaceMoves, CloseSound, EndSound, Untouched
  <2>2. ~Queued(CommitCall(q))'
    <3>1. ~Queued(CommitCall(q))
      BY <2>1 DEF Outstanding, Queued
    <3> QED BY <2>1, <3>1, QueueMoved, QueueHolds DEF CloseInv, Requests
  <2>3. CommitCall(q) \notin dead'
    <3>1. CASE DataCrash
      BY <2>1, <3>1 DEF DataCrash, Outstanding, PromptCall, CommitCall
    <3> QED BY <2>1, <3>1, DeadMoves DEF Outstanding
  <2> QED BY <2>2, <2>3 DEF Outstanding, Queued, CommitCall
<1>2. ASSUME CommitCall(q) \in dead'
      PROVE  ~IsActive(q)'
  <2>1. CASE DataCrash
    BY <2>1 DEF DataCrash, RecoverInterruptedRuns, IsActive, Active
  <2>2. CASE CommitCall(q) \in dead
    <3>1. ~IsActive(q) /\ pc[q] \notin Early
      BY <1>0, <2>2 DEF CloseSound, Outstanding
    <3> QED BY <3>1, ActiveBorn DEF Early, BeforeRun
  <2> QED BY <1>2, <2>1, <2>2, DeadMoves
<1>3. ASSUME spent'.lost = 0, state'[q].done \/ xpc'[q] = "settled", IsActive(q)'
      PROVE  FALSE
  <2>0. spent.lost = 0 /\ ~Spend("lost", MaxLost)
    <3>1. "lost" \in Kinds /\ spent \in [Kinds -> Nat]
      BY DEF Kinds, CommitInv
    <3> QED BY <1>3, <3>1, SpentMoves, SpendTyped
  <2>1. IsActive(q)
    <3>1. ASSUME ~IsActive(q) PROVE FALSE
      <4>1. pc[q] \in Early /\ (Admit(q) \/ PromptLost(q))
        BY <1>3, <3>1, ActiveBorn DEF Early, BeforeRun
      <4>2. ~state[q].done /\ xpc[q] # "settled"
        BY <1>0, <4>1 DEF CommitSound, Fresh, FreshState, EndSound, Untouched
      <4> QED BY <1>3, <4>1, <4>2 DEF Admit, PromptLost
    <3> QED BY <3>1
  <2>2. ~state[q].done /\ xpc[q] # "settled"
    BY <1>0, <2>0, <2>1 DEF CloseSound
  <2>3. ~CommitRefused(q)
    BY <2>1 DEF CommitRefused
  <2>4. ~CommitLost(q)
    BY <1>0, <2>0, <2>1 DEF CommitLost, Lost, CloseSound
  <2>5. ~Commit(q)
    <3>1. state[q].outcome \notin Active
      BY <1>0 DEF RunStates, Terminal, Active
    <3> QED BY <1>3, <3>1 DEF Commit, CommitTerminalRun, EndInv, IsActive
  <2>6. ~Disconnect(q)
    BY <1>0, <2>2 DEF Disconnect, CommitSound
  <2>7. ~state'[q].done
    <3>1. CASE Begins(q)
      BY <1>0, <2>2, <3>1 DEF Begins, RunStates
    <3> QED BY <2>2, <2>3, <2>4, <2>5, <2>6, <3>1, FieldMoves DEF CommitStep
  <2> QED BY <1>3, <2>2, <2>3, <2>4, <2>6, <2>7, XpcMoves
<1> QED BY <1>1, <1>2, <1>3 DEF CloseSound

LEMMA RouterCloses == RouterSpec => []CloseInv
<1>1. RouterInit => CloseInv
  <2> SUFFICES ASSUME RouterInit PROVE CloseInv
    OBVIOUS
  <2>1. queue \in Seq(Requests) /\ dead = {} /\ queue = <<>>
    BY DEF RouterInit
  <2>2. \A r \in Runs : ~IsActive(r)
    BY DEF RouterInit, StoreInit, IsActive, Active
  <2> QED BY <2>1, <2>2 DEF CloseInv, CloseSound, Outstanding, Requests
<1>2. /\ RouterTypeOK /\ StoreInv /\ EndInv /\ EndInv' /\ CommitInv /\ CloseInv
      /\ [RouterNext]_vars
      => CloseInv'
  BY CloseKept, QueueMoved, QueueHolds DEF CloseInv, Requests
<1> QED BY <1>1, <1>2, RouterCommits, RouterKeepsStore, PTL DEF RouterSpec

\* When close() has settled a run, no lease is left of it, over crashes of the
\* DataService and failing commits, as long as no reply is lost: what a crash
\* rejects was interrupted by the sweep, and what the store refuses was over.
THEOREM RouterCloseLeavesNoLease == RouterSpec => []CloseLeavesNoLease
<1>1. CloseInv => CloseLeavesNoLease
  BY DEF CloseInv, CloseSound, CloseLeavesNoLease
<1> QED BY <1>1, RouterCloses, PTL
-----------------------------------------------------------------------------
(* The cancels *)

LEMMA ClosingMoves ==
  ASSUME [RouterNext]_vars
  PROVE  /\ closing = "closed" => closing' = "closed"
         /\ closing' \in {"open", "closing"} => closing \in {"open", "closing"}
         /\ CloseDone => closing' = "closed"
<1>1. CASE UNCHANGED vars
  BY <1>1 DEF vars, mainVars, CloseDone
<1>2. ASSUME NEW r \in Runs,
             \/ Prompt(r) \/ SpawnChild(r) \/ Resolve(r) \/ Open(r) \/ Create(r)
             \/ Admit(r) \/ Connect(r) \/ Compile(r) \/ Start(r) \/ Prepare(r)
             \/ CheckParent(r) \/ Dispatch(r) \/ KernelAnswer(r) \/ Checkpoint(r)
             \/ Attach(r) \/ Drain(r) \/ Unwind(r) \/ PromptRefused(r) \/ PromptLost(r)
             \/ SweepPhantom(r) \/ PromptTimeout(r) \/ KernelEmit(r) \/ TailStep(r)
             \/ CommitStep(r) \/ Cancel(r) \/ CloseDrain(r)
      PROVE  UNCHANGED closing
  BY <1>2 DEF Prompt, SpawnChild, BeginPrompt, Resolve, Open, Create, Admit, Connect,
     Compile, Start, Prepare, CheckParent, Dispatch, KernelAnswer, Checkpoint, Attach,
     Drain, Unwind, PromptRefused, PromptLost, SweepPhantom, PromptTimeout, KernelEmit,
     TailStep, Flush, Appended, AppendRefused, AppendLost, CommitStep, Commit, Disconnect,
     CommitRefused, CommitLost, Cancel, CloseDrain
<1>3. CASE \/ \E k \in Runs \X Callers : CancelStep(k)
           \/ KernelStop \/ KernelExit \/ KernelStart \/ DataCrash \/ Edit
  <2>1. UNCHANGED closing
    BY <1>3 DEF CancelStep, CancelRequest, CancelAnswer, CancelDrain, KernelStop, KernelExit,
       KernelStart, DataCrash, Edit, mainVars
  <2> QED BY <2>1 DEF CloseDone
<1>4. CASE Close \/ CloseRuns \/ CloseDone
  BY <1>4 DEF Close, CloseRuns, CloseDone
<1> QED BY <1>1, <1>2, <1>3, <1>4 DEF RouterNext, PromptStep, CloseDone

\* A prompt that has come has come for good, and a new one finds its parent there.
LEMMA BegunMoves ==
  ASSUME EndInv, CommitInv, RouterTypeOK, [RouterNext]_vars
  PROVE  \/ Begun' = Begun
         \/ \E r \in Runs \ Begun :
              /\ Begun' = Begun \cup {r}
              /\ ParentOf[r] = NoRun \/ (ParentOf[r] \in Begun)
<1> DEFINE Same == Begun' = Begun
           Grows == \E r \in Runs \ Begun :
                      /\ Begun' = Begun \cup {r}
                      /\ ParentOf[r] = NoRun \/ (ParentOf[r] \in Begun)
<1> SUFFICES Same \/ Grows
  OBVIOUS
<1>0. DOMAIN pc = Runs
  BY DEF EndInv
<1>1. ASSUME UNCHANGED pc PROVE Same
  BY <1>1 DEF Begun
<1>2. ASSUME NEW r \in Runs, NEW n, pc[r] # "idle", n # "idle", pc' = [pc EXCEPT ![r] = n]
      PROVE  Same
  BY <1>0, <1>2 DEF Begun
<1>3. CASE UNCHANGED vars
  BY <1>1, <1>3 DEF vars, mainVars, promptVars
<1>4. ASSUME NEW r \in Runs, BeginPrompt(r), ParentOf[r] = NoRun \/ InRuns(ParentOf[r])
      PROVE  Grows
  <2>1. r \in Runs \ Begun /\ Begun' = Begun \cup {r}
    BY <1>0, <1>4 DEF Begun, BeginPrompt
  <2>2. InRuns(ParentOf[r]) => ParentOf[r] \in Begun
    BY PromptAssumption DEF InRuns, Begun, EndInv, EndSound, Untouched, Early
  <2> QED BY <1>4, <2>1, <2>2
<1>5. ASSUME NEW r \in Runs, Prompt(r) \/ SpawnChild(r) PROVE Grows
  BY <1>4, <1>5 DEF Prompt, SpawnChild
<1>6. ASSUME NEW r \in Runs,
             \/ KernelEmit(r) \/ TailStep(r) \/ Commit(r) \/ Cancel(r) \/ CloseDrain(r)
      PROVE  Same
  BY <1>1, <1>6 DEF KernelEmit, TailStep, Flush, Appended, AppendRefused, AppendLost, Commit,
     Cancel, CloseDrain, promptVars
<1>7. ASSUME NEW r \in Runs,
             \/ Resolve(r) \/ Open(r) \/ Create(r) \/ Admit(r) \/ Connect(r) \/ Compile(r)
             \/ Start(r) \/ Prepare(r) \/ CheckParent(r) \/ Dispatch(r) \/ Checkpoint(r)
             \/ Attach(r) \/ Drain(r) \/ Unwind(r) \/ PromptTimeout(r) \/ SweepPhantom(r)
             \/ PromptRefused(r) \/ PromptLost(r)
      PROVE  Same
  <2>1. pc[r] # "idle"
    BY <1>7 DEF Resolve, Open, Create, Admit, Connect, Compile, Start, Prepare, CheckParent,
       Dispatch, Checkpoint, Attach, Drain, Unwind, PromptTimeout, SweepPhantom,
       PromptRefused, PromptLost, DataCalls
  <2>2. \E n : n # "idle" /\ pc' = [pc EXCEPT ![r] = n]
    <3>1. CASE Resolve(r) \/ Open(r) \/ Create(r)
      BY <3>1 DEF Resolve, Open, Create, ToAdmission, Continue, Rejection
    <3>2. CASE Admit(r) \/ Connect(r) \/ Compile(r) \/ Start(r) \/ Prepare(r)
      BY <3>2 DEF Admit, Connect, Compile, Start, Prepare, Continue
    <3>3. CASE CheckParent(r) \/ Dispatch(r) \/ Checkpoint(r) \/ Attach(r)
      BY <3>3 DEF CheckParent, Dispatch, Checkpoint, Attach, Continue, Wait
    <3>4. CASE Drain(r) \/ Unwind(r) \/ PromptTimeout(r) \/ SweepPhantom(r)
      BY <3>4 DEF Drain, Unwind, Wait, PromptTimeout, SweepPhantom
    <3>5. CASE PromptRefused(r) \/ PromptLost(r)
      BY <1>0, <3>5 DEF PromptRefused, PromptLost, FailPrompt, Rejection
    <3> QED BY <1>7, <3>1, <3>2, <3>3, <3>4, <3>5
  <2> QED BY <1>2, <2>1, <2>2
<1>8. ASSUME NEW r \in Runs, KernelAnswer(r) PROVE Same
  BY <1>1, <1>2, <1>8 DEF KernelAnswer
<1>9. ASSUME NEW r \in Runs, Disconnect(r) \/ CommitRefused(r) \/ CommitLost(r) PROVE Same
  <2>1. \E a \in {"returned", "unwinding"} :
          pc' = [pc EXCEPT ![r] = CASE @ = "committing" -> a
                                    [] @ = "abandoning" -> "rejected"
                                    [] OTHER -> @]
    BY <1>9 DEF Disconnect, CommitRefused, CommitLost, CommitFails, Settle
  <2> QED BY <1>0, <2>1 DEF Begun
<1>10. CASE KernelExit
  BY <1>0, <1>10 DEF KernelExit, Begun
<1>11. CASE \/ \E k \in Runs \X Callers : CancelStep(k)
            \/ Close \/ CloseRuns \/ CloseDone \/ KernelStop \/ KernelStart \/ DataCrash
            \/ Edit
  BY <1>1, <1>11 DEF CancelStep, CancelRequest, CancelAnswer, CancelDrain, Close, CloseRuns,
     CloseDone, KernelStop, KernelStart, DataCrash, Edit, mainVars, promptVars
<1> HIDE DEF Same, Grows
<1>12. CASE \E r \in Runs : PromptStep(r) \/ Prompt(r) \/ SpawnChild(r) \/ PromptTimeout(r)
  BY <1>5, <1>7, <1>8, <1>12 DEF PromptStep
<1>13. CASE \E r \in Runs : KernelEmit(r) \/ TailStep(r) \/ CommitStep(r) \/ Cancel(r)
                              \/ CloseDrain(r)
  BY <1>6, <1>9, <1>13 DEF CommitStep
<1> QED BY <1>3, <1>10, <1>11, <1>12, <1>13 DEF RouterNext

LEMMA LineageKept ==
  ASSUME EndInv, CommitInv, RouterTypeOK, LineageGrows, [RouterNext]_vars
  PROVE  LineageGrows'
<1>1. CASE Begun' = Begun
  BY <1>1 DEF LineageGrows
<1>2. ASSUME NEW r \in Runs \ Begun, Begun' = Begun \cup {r},
             ParentOf[r] = NoRun \/ ParentOf[r] \in Begun
      PROVE  LineageGrows'
  <2>1. \A q \in Begun' : ParentOf[q] \in Begun' \cup {NoRun}
    BY <1>2 DEF LineageGrows
  <2>2. ASSUME NEW S \in SUBSET Begun', S # {}
        PROVE  \E q \in S : ParentOf[q] \notin S
    <3>1. CASE r \notin S
      BY <1>2, <2>2, <3>1 DEF LineageGrows
    <3>2. CASE S = {r}
      BY <1>2, <3>2, SentinelAssumption
    <3>3. CASE r \in S /\ S # {r}
      <4>1. S \ {r} \in SUBSET Begun /\ S \ {r} # {}
        BY <1>2, <2>2, <3>3
      <4>2. PICK q \in S \ {r} : ParentOf[q] \notin S \ {r}
        BY <4>1 DEF LineageGrows
      <4>3. ParentOf[q] # r
        BY <4>1, <4>2, <1>2, SentinelAssumption DEF LineageGrows
      <4> QED BY <4>2, <4>3
    <3> QED BY <3>1, <3>2, <3>3
  <2> QED BY <2>1, <2>2 DEF LineageGrows
<1> QED BY <1>1, <1>2, BegunMoves

CpcMoves(k) ==
  \/ cpc'[k] = cpc[k]
  \/ \E p \in Runs :
       Cancel(p) /\ k[1] \in Reached(p) /\ cpc[k] = "idle" /\ cpc'[k] = "children"
  \/ CancelRequest(k) /\ cpc'[k] \in {"requesting", "rejected"}
  \/ /\ cpc[k] \in {"requesting", "draining", "committing"}
     /\ cpc'[k] \in {"draining", "committing", "settled", "rejected"}
     /\ cpc'[k] = "settled" => state[k[1]].done \/ Disconnect(k[1])

LEMMA ReachedSelf ==
  ASSUME NEW p \in Runs
  PROVE  p \in Reached(p)
<1>1. {p} \in SUBSET Runs /\ p \in {p} /\ \A x \in {p} \ {p} : FALSE
  OBVIOUS
<1> QED BY <1>1 DEF Reached

LEMMA CancelMoved ==
  ASSUME EndInv, [RouterNext]_vars, NEW k \in Runs \X Callers
  PROVE  CpcMoves(k)
<1> USE DEF CpcMoves
<1>0. DOMAIN cpc = Runs \X Callers
  BY DEF EndInv
<1>1. CASE UNCHANGED vars
  BY <1>1 DEF vars, mainVars
<1>2. ASSUME NEW r \in Runs,
             \/ Prompt(r) \/ SpawnChild(r) \/ Resolve(r) \/ Open(r) \/ Create(r)
             \/ Admit(r) \/ Connect(r) \/ Compile(r) \/ Start(r) \/ Prepare(r)
             \/ CheckParent(r) \/ Dispatch(r) \/ KernelAnswer(r) \/ Checkpoint(r)
             \/ Attach(r) \/ Drain(r) \/ Unwind(r) \/ PromptRefused(r) \/ PromptLost(r)
             \/ SweepPhantom(r) \/ PromptTimeout(r) \/ KernelEmit(r) \/ TailStep(r)
             \/ Commit(r) \/ CloseDrain(r)
      PROVE  CpcMoves(k)
  BY <1>2 DEF Prompt, SpawnChild, BeginPrompt, Resolve, Open, Create, Admit, Connect,
     Compile, Start, Prepare, CheckParent, Dispatch, KernelAnswer, Checkpoint, Attach,
     Drain, Unwind, PromptRefused, PromptLost, SweepPhantom, PromptTimeout, KernelEmit,
     TailStep, Flush, Appended, AppendRefused, AppendLost, Commit, CloseDrain
<1>3. ASSUME NEW r \in Runs, Disconnect(r) PROVE CpcMoves(k)
  BY <1>3 DEF Disconnect, Settle
<1>4. ASSUME NEW r \in Runs, CommitRefused(r) \/ CommitLost(r) PROVE CpcMoves(k)
  BY <1>4 DEF CommitRefused, CommitLost, CommitFails, Settle
<1>5. ASSUME NEW r \in Runs, Cancel(r) PROVE CpcMoves(k)
  <2>1. cpc[<<r, "user">>] = "idle" /\ r \in Reached(r)
    BY <1>5, ReachedSelf DEF Cancel
  <2>2. cpc'[k] = IF k = <<r, "user">> \/ (k[2] = "parent" /\ k[1] \in Reached(r) \ {r})
                  THEN "children" ELSE cpc[k]
    BY <1>5 DEF Cancel
  <2>3. CASE k = <<r, "user">>
    BY <1>5, <2>1, <2>2, <2>3
  <2>4. CASE k[2] = "parent" /\ k[1] \in Reached(r) \ {r}
    <3>1. k = <<k[1], "parent">> /\ cpc[<<k[1], "parent">>] = "idle"
      BY <2>4 DEF Reached
    <3> QED BY <1>5, <2>2, <2>4, <3>1
  <2> QED BY <2>2, <2>3, <2>4
<1>6. ASSUME NEW j \in Runs \X Callers, CancelStep(j) PROVE CpcMoves(k)
  <2>1. CASE CancelRequest(j)
    BY <1>0, <2>1 DEF CancelRequest
  <2>2. CASE CancelAnswer(j)
    BY <1>0, <2>2 DEF CancelAnswer
  <2>3. CASE CancelDrain(j)
    BY <1>0, <2>3 DEF CancelDrain, Wait
  <2> QED BY <1>6, <2>1, <2>2, <2>3 DEF CancelStep
<1>7. CASE KernelExit
  BY <1>7 DEF KernelExit
<1>8. CASE \/ Close \/ CloseRuns \/ CloseDone \/ KernelStop \/ KernelStart \/ DataCrash \/ Edit
  BY <1>8 DEF Close, CloseRuns, CloseDone, KernelStop, KernelStart, DataCrash, Edit, mainVars
<1> HIDE DEF CpcMoves
<1> QED BY <1>1, <1>2, <1>3, <1>4, <1>5, <1>6, <1>7, <1>8 DEF RouterNext, PromptStep, CommitStep

LEMMA DoneStays ==
  ASSUME RouterTypeOK, CommitInv, [RouterNext]_vars, NEW q \in Runs, state[q].done
  PROVE  state'[q].done
<1>0. DOMAIN state = Runs /\ state[q] \in RunStates /\ CommitSound(q)
  BY DEF RouterTypeOK, RunStateOK, CommitInv
<1>1. CASE Commit(q) \/ Disconnect(q)
  BY <1>0, <1>1 DEF Commit, Disconnect, RunStates
<1>2. ~Begins(q) /\ ~CommitRefused(q) /\ ~CommitLost(q)
  BY <1>0 DEF Begins, CommitSound, CommitRefused, CommitLost
<1> QED BY <1>1, <1>2, FieldMoves DEF CommitStep

LEMMA InMapKept ==
  ASSUME RouterTypeOK, EndInv, CommitInv, CancelInv, [RouterNext]_vars, NEW q \in Runs
  PROVE  InMap(q)'
<1> SUFFICES ASSUME closing' # "closed",
                    pc'[q] \in Entered \/ session'[q] # "none" \/ state'[q].cancelReq
             PROVE  state'[q].live
  BY DEF InMap
<1>0. InMap(q) /\ closing # "closed" /\ ~CloseDone /\ state[q].cancelReq \in BOOLEAN
  BY ClosingMoves DEF CancelInv, RouterTypeOK, RunStateOK, RunStates
<1>1. CASE Connect(q)
  BY <1>1 DEF Connect, RouterTypeOK, RunStateOK, RunStates
<1>2. state[q].live => state'[q].live
  BY <1>0, <1>1, FieldMoves
<1>3. pc'[q] \in Entered => pc[q] \in Entered \/ Connect(q)
  BY PcMoves DEF PlaceMoves
<1>4. session'[q] # "none" => session[q] # "none" \/ pc[q] \in Entered
  BY SessionMoves DEF KernelMoves, Entered
<1>5. ASSUME NEW p \in Runs, Cancel(p), q \in Reached(p) PROVE state[q].live
  <2>1. CASE q = p
    BY <1>5, <2>1 DEF Cancel, InRuns
  <2> QED BY <1>5, <2>1 DEF Reached, InRuns
<1>6. state'[q].cancelReq => state[q].cancelReq \/ state[q].live
  BY <1>0, <1>5, FieldMoves
<1> QED BY <1>0, <1>1, <1>2, <1>3, <1>4, <1>6 DEF InMap

LEMMA KnownKept ==
  ASSUME RouterTypeOK, EndInv, CommitInv, CancelInv, [RouterNext]_vars, NEW q \in Runs
  PROVE  CancelKnown(q)'
<1> SUFFICES ASSUME NEW w \in Callers
             PROVE  /\ cpc'[<<q, w>>] # "idle" => state'[q].cancelReq
                    /\ cpc'[<<q, w>>] = "settled" => state'[q].done
  BY DEF CancelKnown
<1> DEFINE k == <<q, w>>
<1>0. CancelKnown(q) /\ k \in Runs \X Callers /\ k[1] = q
  BY DEF CancelInv
<1>1. ASSUME NEW p \in Runs, Cancel(p), q \in Reached(p) PROVE state'[q].cancelReq
  <2>1. state'[q] = [state[q] EXCEPT !.cancelReq = TRUE]
    BY <1>1 DEF Cancel
  <2> QED BY <2>1 DEF RouterTypeOK, RunStateOK, RunStates
<1>2. state[q].cancelReq => state'[q].cancelReq
  BY <1>1, FieldMoves
<1>3. state[q].done => state'[q].done
  BY DoneStays
<1>4. Disconnect(q) => state[q].done
  BY DEF Disconnect, CommitInv, CommitSound
<1>5. CpcMoves(k)
  BY <1>0, CancelMoved
<1>6. cpc[k] # "idle" => state[q].cancelReq
  BY <1>0 DEF CancelKnown
<1>7. cpc[k] = "settled" => state[q].done
  BY <1>0 DEF CancelKnown
<1> HIDE DEF k
<1>8. CASE cpc'[k] = cpc[k]
  BY <1>2, <1>3, <1>6, <1>7, <1>8 DEF k
<1>9. CASE \E p \in Runs :
             Cancel(p) /\ k[1] \in Reached(p) /\ cpc[k] = "idle" /\ cpc'[k] = "children"
  BY <1>0, <1>1, <1>9 DEF k
<1>10. CASE CancelRequest(k) /\ cpc'[k] \in {"requesting", "rejected"}
  <2>1. cpc[k] = "children"
    BY <1>10 DEF CancelRequest
  <2> QED BY <1>2, <1>6, <1>10, <2>1 DEF k
<1>11. CASE /\ cpc[k] \in {"requesting", "draining", "committing"}
            /\ cpc'[k] = "settled" => state[k[1]].done \/ Disconnect(k[1])
  BY <1>0, <1>2, <1>3, <1>4, <1>6, <1>11 DEF k
<1> QED BY <1>5, <1>8, <1>9, <1>10, <1>11 DEF CpcMoves

\* A cancel that reaches the parent of a run in the map, and does not come from it,
\* reaches the run, is behind another cancel of it, or finds it finished.
LEMMA CancelCatches ==
  ASSUME RouterTypeOK, EndInv, CommitInv, CancelInv, NEW d \in Runs,
         NEW x \in Runs, Cancel(x), ParentOf[d] \in Reached(x), state[d].live
  PROVE  /\ d \in Reached(x) \/ state[d].done \/ cpc[<<d, "parent">>] # "idle"
         /\ d # x
<1> DEFINE p == ParentOf[d]
<1>0. p \in Runs /\ InRuns(d)
  BY SentinelAssumption DEF Reached, InRuns
<1>1. PICK chain \in SUBSET Runs :
        /\ p \in chain
        /\ \A y \in chain \ {x} :
             /\ InRuns(y) /\ ~state[y].done /\ cpc[<<y, "parent">>] = "idle"
             /\ ParentOf[y] \in chain
  BY DEF Reached
<1>2. d # x
  <2> SUFFICES ASSUME d = x PROVE FALSE
    OBVIOUS
  <2>1. \A y \in chain : InRuns(y) /\ ParentOf[y] \in chain
    BY <1>0, <1>1
  <2>2. \A y \in Runs : state[y].live => pc[y] # "idle"
    BY DEF EndInv, EndSound, Untouched, Early
  <2>3. chain \in SUBSET Begun /\ chain # {}
    BY <1>1, <2>1, <2>2 DEF Begun, InRuns
  <2> QED BY <2>1, <2>3 DEF CancelInv, LineageGrows
<1>3. CASE ~state[d].done /\ cpc[<<d, "parent">>] = "idle"
  <2> DEFINE more == chain \cup {d}
  <2>1. more \in SUBSET Runs /\ d \in more
    OBVIOUS
  <2>2. \A y \in more \ {x} :
             /\ InRuns(y) /\ ~state[y].done /\ cpc[<<y, "parent">>] = "idle"
             /\ ParentOf[y] \in more
    BY <1>0, <1>1, <1>3
  <2> HIDE DEF more
  <2> QED BY <1>2, <2>1, <2>2 DEF Reached
<1> QED BY <1>2, <1>3

LEMMA CaughtKept ==
  ASSUME RouterTypeOK, EndInv, CommitInv, CancelInv, [RouterNext]_vars,
         NEW d \in Runs
  PROVE  ChildCaught(d)'
<1> DEFINE p == ParentOf[d]
           kp == <<p, "user">>
           kd == <<d, "parent">>
<1> SUFFICES ASSUME closing' # "closed", p # NoRun, state'[p].cancelReq
             PROVE  /\ pc'[d] = "arming" => state'[d].cancelReq \/ state'[d].done
                    /\ session'[d] # "none" => state'[d].done \/ cpc'[kd] # "idle"
                    /\ session'[d] # "none" /\ cpc'[kp] \notin {"idle", "children", "rejected"}
                         => state'[d].done \/ cpc'[kd] = "rejected"
  BY DEF ChildCaught
<1>0. /\ p \in Runs /\ closing # "closed" /\ ~CloseDone
      /\ InMap(d) /\ InMap(p) /\ CancelKnown(d) /\ CancelKnown(p) /\ ChildCaught(d)
      /\ kp \in Runs \X Callers /\ kd \in Runs \X Callers
      /\ kp[1] = p /\ kd[1] = d
  BY ClosingMoves, PromptAssumption DEF CancelInv, Callers
<1> HIDE DEF p, kp, kd
<1>1. /\ state[d].done => state'[d].done
      /\ state[d].cancelReq => state'[d].cancelReq
  <2>1. ASSUME NEW x \in Runs, Cancel(x), d \in Reached(x) PROVE state'[d].cancelReq
    BY <2>1 DEF Cancel, RouterTypeOK, RunStateOK, RunStates
  <2> QED BY <2>1, DoneStays, FieldMoves
<1>2. cpc[kd] # "idle" => cpc'[kd] # "idle"
  <2>1. CpcMoves(kd)
    BY <1>0, CancelMoved
  <2> QED BY <2>1 DEF CpcMoves
<1>3. cpc[kd] = "rejected" => cpc'[kd] = "rejected"
  <2>1. CpcMoves(kd)
    BY <1>0, CancelMoved
  <2> QED BY <2>1 DEF CpcMoves, CancelRequest
<1>4. CASE state[p].cancelReq
  <2>1. /\ pc[d] = "arming" => state[d].cancelReq \/ state[d].done
        /\ session[d] # "none" => state[d].done \/ cpc[kd] # "idle"
        /\ session[d] # "none" /\ cpc[kp] \notin {"idle", "children", "rejected"}
             => state[d].done \/ cpc[kd] = "rejected"
    BY <1>0, <1>4 DEF ChildCaught, p, kp, kd
  <2>2. pc'[d] = "arming" => pc[d] = "arming"
    <3>1. ParentEnded(d)
      BY <1>0, <1>4, SentinelAssumption DEF ParentEnded, InMap, InRuns, p
    <3> QED BY <3>1, PcMoves DEF PlaceMoves
  <2>3. session'[d] # "none" => session[d] # "none"
    BY <2>1, SessionMoves DEF KernelMoves
  <2>4. ASSUME session[d] # "none", cpc'[kp] \notin {"idle", "children", "rejected"}
        PROVE  state'[d].done \/ cpc'[kd] = "rejected"
    <3>1. CASE cpc[kp] \notin {"idle", "children", "rejected"}
      BY <1>1, <1>3, <2>1, <2>4, <3>1
    <3>2. CASE CancelRequest(kp) /\ cpc[kp] = "children"
      <4>1. cpc[kd] \in Over
        BY <1>0, <3>2 DEF CancelRequest, p, kd
      <4>2. cpc[kd] = "settled" => state[d].done
        BY <1>0 DEF CancelKnown, Callers, kd
      <4> QED BY <1>1, <1>3, <2>1, <2>4, <4>1, <4>2 DEF Over
    <3>3. CpcMoves(kp)
      BY <1>0, CancelMoved
    <3>4. CancelRequest(kp) => cpc[kp] = "children"
      BY DEF CancelRequest
    <3> QED BY <2>4, <3>1, <3>2, <3>3, <3>4 DEF CpcMoves
  <2> QED BY <1>1, <1>2, <2>1, <2>2, <2>3, <2>4
<1>5. CASE ~state[p].cancelReq
  <2>1. PICK x \in Runs : Cancel(x) /\ p \in Reached(x)
    <3>1. state[p].cancelReq \in BOOLEAN /\ ~state[p].cancelReq /\ state'[p].cancelReq
      BY <1>0, <1>5 DEF RouterTypeOK, RunStateOK, RunStates
    <3>2. \/ state'[p].cancelReq = state[p].cancelReq
          \/ \E y \in Runs : Cancel(y) /\ p \in Reached(y)
      BY <1>0, FieldMoves
    <3> QED BY <3>1, <3>2
  <2>2. UNCHANGED <<pc, session>>
    BY <2>1 DEF Cancel, promptVars, kernelVars
  <2>3. ASSUME state[d].live
        PROVE  /\ state'[d].cancelReq \/ state'[d].done
               /\ state'[d].done \/ cpc'[kd] # "idle"
    <3>1. (d \in Reached(x) \/ state[d].done \/ cpc[kd] # "idle") /\ d # x
      BY <2>1, <2>3, CancelCatches DEF p, kd
    <3>2. CASE d \in Reached(x)
      <4>1. state'[d].cancelReq
        BY <2>1, <3>2 DEF Cancel, RouterTypeOK, RunStateOK, RunStates
      <4>2. cpc'[kd] = "children"
        BY <1>0, <2>1, <3>1, <3>2 DEF Cancel, kd
      <4> QED BY <4>1, <4>2
    <3>3. CASE state[d].done
      BY <1>1, <3>3
    <3>4. CASE cpc[kd] # "idle"
      <4>1. state[d].cancelReq
        BY <1>0, <3>4 DEF CancelKnown, Callers, kd
      <4> QED BY <1>1, <1>2, <3>4, <4>1
    <3> QED BY <3>1, <3>2, <3>3, <3>4
  <2>4. cpc'[kp] \in {"idle", "children", "rejected"}
    <3>1. cpc[kp] = "idle"
      BY <1>0, <1>5 DEF CancelKnown, Callers, kp
    <3>2. CpcMoves(kp)
      BY <1>0, CancelMoved
    <3> QED BY <3>1, <3>2 DEF CpcMoves, CancelRequest
  <2>5. pc[d] = "arming" \/ session[d] # "none" => state[d].live
    BY <1>0 DEF InMap, Entered
  <2> QED BY <2>2, <2>3, <2>4, <2>5
<1> QED BY <1>4, <1>5

LEMMA CancelInit == RouterInit => CancelInv
<1> SUFFICES ASSUME RouterInit PROVE CancelInv
  OBVIOUS
<1>1. LineageGrows
  BY DEF RouterInit, LineageGrows, Begun
<1>2. ASSUME NEW r \in Runs PROVE InMap(r) /\ CancelKnown(r) /\ ChildCaught(r)
  <2>1. /\ pc[r] = "idle" /\ session[r] = "none" /\ ~state[r].cancelReq
        /\ \A w \in Callers : cpc[<<r, w>>] = "idle"
    BY DEF RouterInit, FreshState
  <2>2. ParentOf[r] # NoRun => ~state[ParentOf[r]].cancelReq
    BY PromptAssumption DEF RouterInit, FreshState
  <2> QED BY <2>1, <2>2 DEF InMap, CancelKnown, ChildCaught, Entered
<1> QED BY <1>1, <1>2 DEF CancelInv

LEMMA CancelStepKept ==
  RouterTypeOK /\ EndInv /\ CommitInv /\ CancelInv /\ [RouterNext]_vars => CancelInv'
<1> SUFFICES ASSUME RouterTypeOK, EndInv, CommitInv, CancelInv, [RouterNext]_vars
             PROVE  CancelInv'
  OBVIOUS
<1>1. LineageGrows' /\ \A r \in Runs : InMap(r)' /\ CancelKnown(r)'
  BY LineageKept, InMapKept, KnownKept DEF CancelInv
<1>2. \A r \in Runs : ChildCaught(r)'
  BY CaughtKept
<1> QED BY <1>1, <1>2 DEF CancelInv

LEMMA RouterCancels == RouterSpec => []CancelInv
BY CancelInit, CancelStepKept, RouterCommits, PTL DEF RouterSpec

\* A child prompt is not dispatched under a cancelled parent, wherever its setup
\* was when the cancel came: the cancel marks the children in the map, and a child
\* behind it looks at its parent before it arms.
THEOREM RouterNoDispatchUnderCancel == RouterSpec => NoDispatchUnderCancel
<1>1. ASSUME RouterTypeOK, CommitInv, CancelInv, [RouterNext]_vars, NEW r \in Runs,
             session[r] = "none", session'[r] = "open", ParentOf[r] # NoRun
      PROVE  closing = "closed" \/ ~state[ParentOf[r]].cancelReq
  <2>1. pc[r] = "arming" /\ ~state[r].cancelReq /\ ~state[r].done
    BY <1>1, SessionMoves DEF KernelMoves
  <2> QED BY <1>1, <2>1 DEF CancelInv, ChildCaught
<1>2. RouterTypeOK /\ CommitInv /\ CancelInv /\ [RouterNext]_vars =>
        [\A r \in Runs :
           session[r] = "none" /\ session'[r] = "open" /\ ParentOf[r] # NoRun =>
             closing = "closed" \/ ~state[ParentOf[r]].cancelReq]_vars
  BY <1>1
<1> QED BY <1>2, RouterCommits, RouterCancels, PTL DEF RouterSpec, NoDispatchUnderCancel

\* When the cancel of a run has settled, its children at the kernel are finished or
\* their own cancel failed: the parent's request waited for theirs.
THEOREM RouterCancelReachesChildren == RouterSpec => []CancelReachesChildren
<1>1. CancelInv => CancelReachesChildren
  <2> SUFFICES ASSUME CancelInv, closing # "closed", NEW r \in Runs, NEW d \in Runs,
                      cpc[<<r, "user">>] = "settled", ParentOf[d] = r, session[d] # "none"
               PROVE  state[d].done \/ cpc[<<d, "parent">>] = "rejected"
    BY DEF CancelReachesChildren
  <2>1. state[r].cancelReq
    BY DEF CancelInv, CancelKnown, Callers
  <2> QED BY <2>1, SentinelAssumption DEF CancelInv, ChildCaught
<1> QED BY <1>1, RouterCancels, PTL
-----------------------------------------------------------------------------
(* The whole answer: the requests of a run in the queue *)

LEMMA TailHolds ==
  ASSUME NEW s \in Seq(Requests), s # <<>>, NEW t, NEW u
  PROVE  /\ Holds(Tail(s), t) => Holds(s, t)
         /\ Holds(s, t) /\ Head(s) # t => Holds(Tail(s), t)
         /\ Once(s, t) => Once(Tail(s), t)
         /\ Once(s, t) /\ Head(s) = t => ~Holds(Tail(s), t)
         /\ Before(s, t, u) => Before(Tail(s), t, u)
<1> DEFINE r == Tail(s)
<1>1. \A i \in DOMAIN r : i \in Nat /\ i >= 1 /\ i + 1 \in DOMAIN s /\ r[i] = s[i + 1]
  OBVIOUS
<1>2. \A i \in DOMAIN s : i = 1 \/ (i - 1 \in DOMAIN r /\ r[i - 1] = s[i])
  OBVIOUS
<1>3. 1 \in DOMAIN s /\ Head(s) = s[1]
  OBVIOUS
<1> HIDE DEF r
<1>4. Holds(r, t) => Holds(s, t)
  BY <1>1 DEF Holds
<1>5. Holds(s, t) /\ Head(s) # t => Holds(r, t)
  BY <1>2, <1>3 DEF Holds
<1>6. Once(s, t) => Once(r, t)
  BY <1>1 DEF Once
<1>7. Once(s, t) /\ Head(s) = t => ~Holds(r, t)
  <2> SUFFICES ASSUME Once(s, t), Head(s) = t, NEW i \in DOMAIN r, r[i] = t PROVE FALSE
    BY DEF Holds
  <2>1. i + 1 \in DOMAIN s /\ s[i + 1] = t /\ s[1] = t /\ i >= 1 /\ i \in Nat
    BY <1>1, <1>3
  <2>2. i + 1 = 1
    BY <1>3, <2>1 DEF Once
  <2> QED BY <2>1, <2>2
<1>8. Before(s, t, u) => Before(r, t, u)
  <2> SUFFICES ASSUME Before(s, t, u), NEW i \in DOMAIN r, NEW j \in DOMAIN r, r[i] = t, r[j] = u
               PROVE  i < j
    BY DEF Before
  <2>1. i + 1 < j + 1
    BY <1>1 DEF Before
  <2> QED BY <1>1, <2>1
<1> QED BY <1>4, <1>5, <1>6, <1>7, <1>8 DEF r

LEMMA AppendHolds ==
  ASSUME NEW s \in Seq(Requests), NEW x \in Requests, NEW r, r = Append(s, x), NEW t, NEW u
  PROVE  /\ Holds(r, t) => Holds(s, t) \/ x = t
         /\ Holds(s, t) \/ x = t => Holds(r, t)
         /\ Once(s, t) /\ (x # t \/ ~Holds(s, t)) => Once(r, t)
         /\ Before(s, t, u) /\ (x # t \/ ~Holds(s, u)) /\ t # u => Before(r, t, u)
<1> DEFINE n == Len(s)
<1>1. /\ n \in Nat /\ DOMAIN s = 1 .. n /\ DOMAIN r = 1 .. n + 1
      /\ r[n + 1] = x /\ \A i \in 1 .. n : r[i] = s[i]
  OBVIOUS
<1> HIDE DEF n
<1>0. /\ \A i \in 1 .. n + 1 : i \in Nat /\ (i = n + 1 \/ (i \in 1 .. n /\ i < n + 1))
      /\ 1 .. n \subseteq 1 .. n + 1 /\ n + 1 \in 1 .. n + 1
  BY <1>1
<1>2. (Holds(r, t) => Holds(s, t) \/ x = t) /\ (Holds(s, t) \/ x = t => Holds(r, t))
  BY <1>0, <1>1 DEF Holds
<1>3. Once(s, t) /\ (x # t \/ ~Holds(s, t)) => Once(r, t)
  BY <1>0, <1>1 DEF Holds, Once
<1>4. Before(s, t, u) /\ (x # t \/ ~Holds(s, u)) /\ t # u => Before(r, t, u)
  BY <1>0, <1>1 DEF Holds, Before
<1> QED BY <1>2, <1>3, <1>4

LEMMA SnapMoves ==
  ASSUME RouterTypeOK, [RouterNext]_vars, NEW q \in Runs
  PROVE  state'[q].snap = state[q].snap \/ Begins(q)
<1>0. DOMAIN state = Runs /\ state[q] \in RunStates
  BY DEF RouterTypeOK, RunStateOK
<1>1. CASE Commit(q) \/ Disconnect(q)
  BY <1>0, <1>1 DEF Commit, Disconnect, RunStates
<1>2. CASE CommitRefused(q) \/ CommitLost(q)
  <2>1. PICK d : state' = [state EXCEPT ![q].commit = "none", ![q].done = d]
    BY <1>2 DEF CommitRefused, CommitLost, CommitFails
  <2> QED BY <1>0, <2>1 DEF RunStates
<1> QED BY <1>1, <1>2, FieldMoves DEF CommitStep

\* Which steps take a tail out of its append, and a commit into the queue.
LEMMA FlushMoves ==
  ASSUME RouterTypeOK, [RouterNext]_vars, NEW q \in Runs
  PROVE  /\ state[q].flush = "appending" /\ state'[q].flush # "appending" => AppendEnds(q)
         /\ state[q].flush = "idle" /\ state'[q].flush # "idle" => KernelEmit(q)
         /\ state[q].flush = "poisoned" => state'[q].flush = "poisoned"
<1>0. DOMAIN state = Runs /\ state[q] \in RunStates
  BY DEF RouterTypeOK, RunStateOK
<1>1. CASE KernelEmit(q) /\ Accepts(q)
  <2>1. state'[q].flush = IF state[q].flush = "idle" THEN "waiting" ELSE state[q].flush
    <3>1. state'[q] = [state[q] EXCEPT !.pend = state[q].pend \cup {Len(sent[q]) + 1},
                 !.flush = IF state[q].flush = "idle" THEN "waiting" ELSE state[q].flush]
      BY <1>0, <1>1 DEF KernelEmit, RunStates
    <3> QED BY <1>0, <3>1 DEF RunStates
  <2> QED BY <1>1, <2>1
<1>2. CASE TailStep(q)
  <2>1. Flush(q) => state[q].flush = "waiting"
    BY DEF Flush
  <2>2. AppendEnds(q) => state[q].flush = "appending"
    BY DEF AppendEnds, Appended, AppendRefused, AppendLost
  <2> QED BY <1>2, <2>1, <2>2 DEF TailStep, AppendEnds
<1> QED BY <1>1, <1>2, FieldMoves

LEMMA SentCommit ==
  ASSUME RouterTypeOK, [RouterNext]_vars, NEW q \in Runs, state'[q].commit = "sent"
  PROVE  \/ Begins(q)
         \/ /\ state[q].commit = "sent" /\ ~CommitEnds(q)
            /\ state'[q].outcome = state[q].outcome /\ state'[q].snap = state[q].snap
<1>0. DOMAIN state = Runs /\ state[q] \in RunStates
  BY DEF RouterTypeOK, RunStateOK
<1>1. ~CommitStep(q)
  <2>1. ~Commit(q) /\ ~Disconnect(q)
    BY <1>0 DEF Commit, Disconnect, RunStates
  <2>2. ASSUME CommitRefused(q) \/ CommitLost(q) PROVE FALSE
    <3>1. PICK d : state' = [state EXCEPT ![q].commit = "none", ![q].done = d]
      BY <2>2 DEF CommitRefused, CommitLost, CommitFails
    <3> QED BY <1>0, <3>1 DEF RunStates
  <2> QED BY <2>1, <2>2 DEF CommitStep
<1> QED BY <1>1, FieldMoves DEF CommitStep, CommitEnds

\* What a step can do to the place of one request in the queue.
LEMMA CallTypes ==
  ASSUME NEW r \in Runs
  PROVE  /\ PromptCall(r) \in Requests /\ FlushCall(r) \in Requests
         /\ CommitCall(r) \in Requests
         /\ FlushCall(r) # CommitCall(r)
         /\ \A q \in Runs : /\ PromptCall(q) # FlushCall(r) /\ PromptCall(q) # CommitCall(r)
                            /\ FlushCall(q) # CommitCall(r)
                            /\ FlushCall(q) = FlushCall(r) => q = r
                            /\ CommitCall(q) = CommitCall(r) => q = r
BY DEF PromptCall, FlushCall, CommitCall, Requests

LEMMA FlushQueue ==
  ASSUME queue \in Seq(Requests), QueueMoves, NEW q \in Runs, Once(queue, FlushCall(q)),
         state[q].flush # "appending" => ~Holds(queue, FlushCall(q))
  PROVE  /\ Once(queue', FlushCall(q))
         /\ Holds(queue', FlushCall(q)) =>
              /\ ~(Served(FlushCall(q)) /\ queue' = Tail(queue))
              /\ \/ Holds(queue, FlushCall(q))
                 \/ state[q].flush = "waiting" /\ state'[q].flush = "appending"
<1> DEFINE f == FlushCall(q)
<1> USE CallTypes
<1>1. CASE queue' = queue \/ queue' = <<>>
  <2>1. queue' = <<>> => Once(queue', f) /\ ~Holds(queue', f)
    BY DEF Once, Holds
  <2>2. queue' = queue /\ queue # <<>> => queue' # Tail(queue)
    <3>1. queue # <<>> => Len(Tail(queue)) = Len(queue) - 1 /\ Len(queue) \in Nat
      OBVIOUS
    <3> QED BY <3>1
  <2> QED BY <1>1, <2>1, <2>2 DEF Served
<1>2. ASSUME queue # <<>>, queue' = Tail(queue)
      PROVE  /\ Once(queue', f)
             /\ Holds(queue', f) => Holds(queue, f) /\ ~Served(f)
  BY <1>2, TailHolds DEF Served
<1>3. ASSUME NEW r \in Runs, queue # <<>>, queue' = Append(Tail(queue), PromptCall(r))
      PROVE  /\ Once(queue', f)
             /\ Holds(queue', f) => Holds(queue, f) /\ queue' # Tail(queue)
  <2>1. Tail(queue) \in Seq(Requests) /\ Len(queue') = Len(Tail(queue)) + 1
    BY <1>3
  <2>2. Once(Tail(queue), f) /\ (Holds(Tail(queue), f) => Holds(queue, f))
    BY <1>3, TailHolds
  <2>3. Once(queue', f) /\ (Holds(queue', f) => Holds(Tail(queue), f))
    <3>1. PromptCall(r) \in Requests /\ PromptCall(r) # f
      OBVIOUS
    <3>2. /\ Holds(queue', f) => Holds(Tail(queue), f) \/ PromptCall(r) = f
          /\ Once(Tail(queue), f) /\ (PromptCall(r) # f \/ ~Holds(Tail(queue), f))
               => Once(queue', f)
      BY <1>3, <2>1, <3>1, AppendHolds
    <3> QED BY <2>2, <3>1, <3>2
  <2>4. queue' # Tail(queue)
    BY <2>1
  <2> QED BY <2>2, <2>3, <2>4
<1>4. ASSUME NEW x \in Requests, queue' = Append(queue, x)
      PROVE  /\ ~(queue # <<>> /\ queue' = Tail(queue))
             /\ Holds(queue', f) => Holds(queue, f) \/ x = f
             /\ Once(queue, f) /\ (x # f \/ ~Holds(queue, f)) => Once(queue', f)
  <2>1. queue # <<>> => Len(Tail(queue)) = Len(queue) - 1 /\ Len(queue) \in Nat
    OBVIOUS
  <2>2. Len(queue') = Len(queue) + 1
    BY <1>4
  <2> HIDE DEF f
  <2>3. /\ Holds(queue', f) => Holds(queue, f) \/ x = f
        /\ Once(queue, f) /\ (x # f \/ ~Holds(queue, f)) => Once(queue', f)
    BY <1>4, AppendHolds
  <2> QED BY <2>1, <2>2, <2>3
<1>5. \/ queue' = queue \/ queue' = <<>>
      \/ queue # <<>> /\ queue' = Tail(queue)
      \/ \E r \in Runs : queue # <<>> /\ queue' = Append(Tail(queue), PromptCall(r))
      \/ \E x \in Requests :
           /\ queue' = Append(queue, x)
           /\ x = f => state[q].flush = "waiting" /\ state'[q].flush = "appending"
  BY DEF QueueMoves, Served
<1> HIDE DEF f
<1>6. Served(f) => queue # <<>>
  BY DEF Served
<1> QED BY <1>1, <1>2, <1>3, <1>4, <1>5, <1>6 DEF f

LEMMA AppendOnceKept ==
  ASSUME RouterTypeOK, CloseInv, [RouterNext]_vars, NEW q \in Runs, AppendOnce(q)
  PROVE  AppendOnce(q)'
<1> DEFINE f == FlushCall(q)
<1>0. /\ queue \in Seq(Requests) /\ QueueMoves
      /\ Once(queue, f)
      /\ f \in dead => ~Holds(queue, f)
      /\ state[q].flush # "appending" => f \notin dead /\ ~Holds(queue, f)
      /\ f' = f
  BY QueueMoved DEF CloseInv, Requests, AppendOnce, FlushCall
<1>1. /\ Once(queue', f)
      /\ Holds(queue', f) =>
           /\ ~(Served(f) /\ queue' = Tail(queue))
           /\ \/ Holds(queue, f)
              \/ state[q].flush = "waiting" /\ state'[q].flush = "appending"
  BY <1>0, FlushQueue
<1>2. DataCrash => queue' = <<>> /\ ~Holds(queue', f)
  BY DEF DataCrash, Holds
<1>3. f \in dead' => f \in dead \/ DataCrash
  BY DeadMoves
<1>4. f \in dead' => ~Holds(queue', f)
  BY <1>0, <1>1, <1>2, <1>3
<1>5. ASSUME state'[q].flush # "appending"
      PROVE  f \notin dead' /\ ~Holds(queue', f)
  <2>1. CASE AppendEnds(q)
    <3>1. CASE Appended(q) \/ AppendRefused(q)
      <4>1. Served(f) /\ queue' = Tail(queue) /\ dead' = dead
        BY <3>1 DEF Appended, AppendRefused
      <4>2. Holds(queue, f)
        BY <1>0, <4>1 DEF Served, Holds
      <4> QED BY <1>0, <1>1, <4>1, <4>2
    <3>2. CASE AppendLost(q)
      <4>1. \/ f \in dead /\ dead' = dead \ {f} /\ queue' = queue
            \/ Served(f) /\ queue' = Tail(queue) /\ dead' = dead
        BY <3>2 DEF AppendLost, Lost
      <4>2. Served(f) => Holds(queue, f)
        BY <1>0 DEF Served, Holds
      <4> QED BY <1>0, <1>1, <4>1, <4>2
    <3> QED BY <2>1, <3>1, <3>2 DEF AppendEnds
  <2>2. CASE state[q].flush # "appending"
    <3>1. f \notin dead /\ ~Holds(queue, f) /\ ~Holds(queue', f)
      BY <1>0, <1>1, <1>5, <2>2
    <3>2. ASSUME DataCrash PROVE f \notin dead'
      <4>1. /\ dead' = dead \cup {queue[i] : i \in DOMAIN queue}
                            \cup {PromptCall(r) : r \in {p \in Runs : pc[p] = "connecting"}}
        BY <3>2 DEF DataCrash
      <4> QED BY <3>1, <4>1, CallTypes DEF Holds
    <3> QED BY <1>3, <3>1, <3>2
  <2> QED BY <1>5, <2>1, <2>2, FlushMoves
<1> QED BY <1>0, <1>1, <1>4, <1>5 DEF AppendOnce

LEMMA CommitQueue ==
  ASSUME queue \in Seq(Requests), QueueMoves, NEW q \in Runs, ~DataCrash,
         state[q].commit = "sent", ~CommitEnds(q),
         Before(queue, CommitCall(q), FlushCall(q))
  PROVE  /\ Before(queue', CommitCall(q), FlushCall(q))
         /\ Holds(queue, CommitCall(q)) => Holds(queue', CommitCall(q))
<1> DEFINE c == CommitCall(q)
           f == FlushCall(q)
<1>0. c # f
  BY CallTypes
<1>5. ASSUME NEW s \in Seq(Requests), NEW x \in Requests, x # c, queue' = Append(s, x),
             Before(s, c, f), Holds(queue, c) => Holds(s, c)
      PROVE  Before(queue', c, f) /\ (Holds(queue, c) => Holds(queue', c))
  <2>1. /\ Holds(s, c) \/ x = c => Holds(queue', c)
        /\ Before(s, c, f) /\ (x # c \/ ~Holds(s, f)) /\ c # f => Before(queue', c, f)
    BY <1>5, AppendHolds
  <2> HIDE DEF c, f
  <2> QED BY <1>0, <1>5, <2>1
<1>1. CASE queue' = queue
  BY <1>1
<1>2. ASSUME queue # <<>>, Head(queue) # c
      PROVE  /\ Before(Tail(queue), c, f) /\ Tail(queue) \in Seq(Requests)
             /\ Holds(queue, c) => Holds(Tail(queue), c)
  BY <1>2, TailHolds
<1>3. ASSUME NEW r \in Runs, Served(PromptCall(r)),
             queue' = Tail(queue) \/ queue' = Append(Tail(queue), PromptCall(r))
      PROVE  Before(queue', c, f) /\ (Holds(queue, c) => Holds(queue', c))
  <2>1. queue # <<>> /\ Head(queue) # c /\ PromptCall(r) \in Requests /\ PromptCall(r) # c
    BY <1>3, CallTypes DEF Served
  <2> HIDE DEF c, f
  <2> QED BY <1>2, <1>3, <1>5, <2>1
<1>4. ASSUME NEW r \in Runs, queue' = Tail(queue),
             Served(FlushCall(r)) \/ (Served(CommitCall(r)) /\ CommitEnds(r))
      PROVE  Before(queue', c, f) /\ (Holds(queue, c) => Holds(queue', c))
  <2>1. queue # <<>> /\ Head(queue) # c
    BY <1>4, CallTypes DEF Served
  <2> HIDE DEF c, f
  <2> QED BY <1>2, <1>4, <2>1
<1>6. \/ queue' = queue
      \/ \E r \in Runs :
           \/ /\ Served(PromptCall(r))
              /\ queue' = Tail(queue) \/ queue' = Append(Tail(queue), PromptCall(r))
           \/ /\ queue' = Tail(queue)
              /\ Served(FlushCall(r)) \/ (Served(CommitCall(r)) /\ CommitEnds(r))
      \/ \E x \in Requests : x # c /\ queue' = Append(queue, x)
  BY CallTypes DEF QueueMoves
<1> HIDE DEF c, f
<1> QED BY <1>1, <1>3, <1>4, <1>5, <1>6 DEF c, f

LEMMA CommitFirstKept ==
  ASSUME RouterTypeOK, CommitInv, CloseInv, [RouterNext]_vars, NEW q \in Runs,
         AppendOnce(q), CommitFirst(q),
         pc[q] = "checking" => state[q].flush # "appending"
  PROVE  CommitFirst(q)'
<1> DEFINE c == CommitCall(q)
           f == FlushCall(q)
<1>0. queue \in Seq(Requests) /\ QueueMoves /\ c' = c /\ f' = f
  BY QueueMoved DEF CloseInv, Requests, CommitCall, FlushCall
<1> SUFFICES ASSUME state'[q].commit = "sent"
             PROVE  (c \in dead' \/ Holds(queue', c)) /\ Before(queue', c, f)
  BY <1>0 DEF CommitFirst
<1>1. CASE Begins(q)
  <2>1. queue' = Append(queue, c) /\ ~Holds(queue, f) /\ c \in Requests /\ c # f
    BY <1>1, CallTypes DEF Begins, AppendOnce
  <2>2. Before(queue, c, f)
    BY <2>1 DEF Before, Holds
  <2>3. Holds(queue', c) /\ Before(queue', c, f)
    <3>1. /\ Holds(queue, c) \/ c = c => Holds(queue', c)
          /\ Before(queue, c, f) /\ (c # c \/ ~Holds(queue, f)) /\ c # f
               => Before(queue', c, f)
      BY <1>0, <2>1, AppendHolds
    <3> HIDE DEF c, f
    <3> QED BY <2>1, <2>2, <3>1
  <2> QED BY <2>3
<1>2. CASE /\ state[q].commit = "sent" /\ ~CommitEnds(q)
  <2>1. (c \in dead \/ Holds(queue, c)) /\ Before(queue, c, f)
    BY <1>2 DEF CommitFirst
  <2>2. CASE DataCrash
    <3>1. queue' = <<>> /\ dead \cup {queue[i] : i \in DOMAIN queue} \subseteq dead'
      BY <2>2 DEF DataCrash
    <3> HIDE DEF c, f
    <3> QED BY <2>1, <3>1 DEF Holds, Before
  <2>3. CASE ~DataCrash
    <3>1. Before(queue', c, f) /\ (Holds(queue, c) => Holds(queue', c))
      BY <1>0, <1>2, <2>1, <2>3, CommitQueue
    <3>2. c \in dead => c \in dead'
      BY <1>2, DeadMoves DEF CommitEnds
    <3> QED BY <2>1, <3>1, <3>2
  <2> QED BY <2>2, <2>3
<1> QED BY <1>1, <1>2, SentCommit

(* The whole answer: sessions, and the log behind what is reduced *)

\* What is known of a session without the calm.
SessionSound(r) ==
  /\ \A i \in 1 .. Len(sent[r]) - 1 : sent[r][i] = "delta"
  /\ pc[r] \in Early \cup Entered => session[r] = "none"
  /\ session[r] = "none" => sent[r] = <<>> /\ state[r].flush = "idle"

LEMMA SessionKept ==
  ASSUME RouterTypeOK, EndInv, CommitInv, [RouterNext]_vars, NEW q \in Runs, SessionSound(q)
  PROVE  SessionSound(q)'
<1>0. /\ sent[q] \in Seq(EventSorts) /\ DOMAIN pc = Runs
      /\ session[q] \in {"none", "open", "answered", "gone"}
      /\ KernelMoves(q) /\ PlaceMoves(q)
  BY SessionMoves, PcMoves DEF RouterTypeOK, EndInv, CommitInv
<1>1. \A i \in 1 .. Len(sent'[q]) - 1 : sent'[q][i] = "delta"
  <2>1. CASE sent'[q] = sent[q]
    BY <2>1 DEF SessionSound
  <2>2. ASSUME KernelEmit(q), NEW sort \in EventSorts, sent'[q] = Append(sent[q], sort)
        PROVE  \A i \in 1 .. Len(sent'[q]) - 1 : sent'[q][i] = "delta"
    <3>1. \A i \in 1 .. Len(sent[q]) : sent[q][i] = "delta"
      BY <1>0, <2>2 DEF KernelEmit
    <3>2. Len(sent'[q]) - 1 = Len(sent[q]) /\ \A i \in 1 .. Len(sent[q]) : sent'[q][i] = sent[q][i]
      BY <1>0, <2>2
    <3> QED BY <3>1, <3>2
  <2> QED BY <1>0, <2>1, <2>2 DEF KernelMoves
<1>3. pc'[q] \in Early \cup Entered => session'[q] = "none"
  <2> SUFFICES ASSUME pc'[q] \in Early \cup Entered PROVE session'[q] = "none"
    OBVIOUS
  <2>1. pc[q] \in Early \cup Entered
    <3>1. Connect(q) => pc[q] \in Early
      BY DEF Connect, Early, BeforeRun
    <3> QED BY <1>0, <3>1 DEF PlaceMoves
  <2>2. ~(Dispatch(q) /\ session'[q] = "open" /\ session[q] = "none"
            /\ ~state[q].cancelReq /\ ~state[q].done)
    <3> SUFFICES ASSUME Dispatch(q), session'[q] = "open", session[q] = "none",
                        ~state[q].cancelReq, ~state[q].done
                 PROVE  FALSE
      OBVIOUS
    <3>1. pc'[q] = "prompting"
      BY <1>0 DEF Dispatch, CommitInv
    <3> QED BY <3>1 DEF Early, BeforeRun, Entered
  <2> QED BY <1>0, <2>1, <2>2 DEF SessionSound, KernelMoves
<1>4. session'[q] = "none" => sent'[q] = <<>> /\ state'[q].flush = "idle"
  BY <1>0, FlushMoves DEF SessionSound, KernelMoves, KernelEmit
<1> QED BY <1>1, <1>3, <1>4 DEF SessionSound

LEMMA ActiveFresh ==
  ASSUME RouterTypeOK, EndInv, CommitInv, StoreInv, [RouterNext]_vars, NEW q \in Runs,
         ~IsActive(q), IsActive(q)'
  PROVE  /\ state[q] = FreshState /\ UNCHANGED state
         /\ lastSeq[q] = 0 /\ lastSeq'[q] = 0
<1>1. pc[q] = "admitting" /\ (Admit(q) \/ PromptLost(q))
  BY ActiveBorn
<1>2. state[q] = FreshState
  BY <1>1 DEF CommitInv, CommitSound, Fresh, Early, BeforeRun
<1>3. UNCHANGED state
  BY <1>1 DEF Admit, PromptLost
<1>4. status[q] = "absent"
  <2>1. state[q].commit # "sent"
    BY <1>2 DEF FreshState
  <2>2. state[q].outcome \notin Active
    BY DEF RouterTypeOK, RunStateOK, RunStates, Terminal, Active
  <2> QED BY <2>1, <2>2, StatusMoves DEF RowMoves, IsActive, Active
<1>5. lastSeq[q] = 0
  BY <1>4 DEF StoreInv, RowsPlaced, Row
<1>6. lastSeq'[q] = 0
  <2>1. ~AppendBatch(q)
    BY DEF AppendBatch, AppendEvents
  <2>2. status'[q] # "absent"
    BY DEF IsActive, Active
  <2> QED BY <1>5, <2>1, <2>2, LogMoves
<1> QED BY <1>2, <1>3, <1>5, <1>6

LEMMA LogReducedKept ==
  ASSUME RouterTypeOK, EndInv, CommitInv, StoreInv, ShownInv, [RouterNext]_vars,
         NEW q \in Runs, LogReduced(q)
  PROVE  LogReduced(q)'
<1> SUFFICES ASSUME IsActive(q)', state'[q].flush # "poisoned"
             PROVE  state'[q].seen = lastSeq'[q]
  BY DEF LogReduced
<1>1. CASE ~IsActive(q)
  <2>1. state'[q].seen = 0 /\ lastSeq'[q] = 0
    BY <1>1, ActiveFresh DEF FreshState
  <2> QED BY <2>1
<1>2. CASE IsActive(q)
  <2>0. state[q].seen = lastSeq[q] /\ Row(q)
    BY <1>2, FlushMoves DEF LogReduced, Row, IsActive, Active
  <2>1. ~AppendLost(q)
    <3>1. DOMAIN state = Runs /\ state[q] \in RunStates
      BY DEF RouterTypeOK, RunStateOK
    <3> QED BY <3>1 DEF AppendLost, Poison, RunStates
  <2>2. CASE Appended(q)
    <3>1. /\ StoreTypeOK /\ ShownSound(q) /\ state[q].flush = "appending" /\ AppendBatch(q)
      BY <2>2 DEF StoreInv, ShownInv, Appended
    <3>2. /\ Upto(q) <= lastSeq'[q]
          /\ lastSeq[q] <= Upto(q) => lastSeq'[q] <= Upto(q)
      BY <2>0, <3>1, BatchAppended
    <3>3. Upto(q) \in Nat /\ lastSeq[q] <= Upto(q)
      <4>1. RunStateOK(state[q], Len(sent[q])) /\ Len(sent[q]) \in Nat
        BY DEF RouterTypeOK
      <4>2. Cardinality(state[q].batch) \in Nat
        BY <4>1, EventCount DEF RunStateOK
      <4> QED BY <2>0, <4>1, <4>2 DEF RunStateOK, RunStates, Upto
    <3>4. state'[q].seen = Upto(q)
      <4>1. DOMAIN state = Runs /\ state[q] \in RunStates
        BY DEF RouterTypeOK, RunStateOK
      <4>2. PICK f : state' = [state EXCEPT ![q].seen = Upto(q), ![q].batch = {}, ![q].flush = f]
        BY <2>2 DEF Appended
      <4> QED BY <4>1, <4>2 DEF RunStates
    <3>5. lastSeq'[q] \in Nat
      BY <3>1 DEF AppendBatch, AppendEvents, StoreTypeOK, StoreBatch, StoreEvent
    <3> QED BY <3>2, <3>3, <3>4, <3>5
  <2>3. CASE ~Appended(q)
    <3>1. status'[q] # "absent"
      BY DEF IsActive, Active
    <3> QED BY <2>0, <2>1, <2>3, <3>1, LogMoves, SeenMoves
  <2> QED BY <2>2, <2>3
<1> QED BY <1>1, <1>2

(* The whole answer: the commit *)

\* Whoever asks for a commit as completed has reduced all of the log, without a
\* failure in it, and in the calm all the kernel has emitted.
LEMMA BeginsWhole ==
  ASSUME RouterTypeOK, StoreInv, ShownInv, WholeInv, NEW q \in Runs,
         Begins(q), state'[q].outcome = "completed"
  PROVE  /\ state'[q].snap = state[q].seen
         /\ Calm => state[q].seen = Len(sent[q])
         /\ \A i \in 1 .. state[q].seen : sent[q][i] # "failed"
         /\ IsActive(q) => state[q].seen = lastSeq[q]
<1> DEFINE n == state[q].seen
           m == Len(sent[q])
<1>0. /\ sent[q] \in Seq(EventSorts) /\ m \in Nat
      /\ state[q] \in RunStates /\ n <= m /\ n \in Nat
      /\ WholeSound(q)
      /\ state'[q].snap = n /\ ~state[q].done
  BY DEF RouterTypeOK, RunStateOK, RunStates, WholeInv, Begins
<1>1. ASSUME NEW k \in 1 .. n, sent[q][k] = "completed"
      PROVE  /\ n = m
             /\ \A i \in 1 .. n : sent[q][i] # "failed"
             /\ IsActive(q) => n = lastSeq[q]
  <2>1. \A i \in 1 .. m - 1 : sent[q][i] = "delta"
    BY <1>0 DEF WholeSound
  <2>2. k = m
    BY <1>0, <1>1, <2>1
  <2>3. n = m
    BY <1>0, <1>1, <2>2
  <2>4. \A i \in 1 .. n : sent[q][i] # "failed"
    BY <1>0, <1>1, <2>1, <2>2, <2>3
  <2>5. ASSUME IsActive(q) PROVE n = lastSeq[q]
    <3>1. /\ n <= lastSeq[q] /\ lastSeq[q] \in Nat
          /\ \A e \in log[q] : e.seq \in 1 .. m
      BY <2>5 DEF ShownInv, ShownSound, Row, IsActive, Active, StoreInv, StoreTypeOK
    <3>2. {e.seq : e \in log[q]} = 1 .. lastSeq[q]
      BY DEF StoreInv, EventLogReplayable
    <3>3. \A j \in 1 .. lastSeq[q] : j \in 1 .. m
      BY <3>1, <3>2
    <3>4. lastSeq[q] <= m
      <4> HIDE DEF m
      <4> QED BY <1>0, <3>1, <3>3
    <3> HIDE DEF n, m
    <3> QED BY <1>0, <2>3, <3>1, <3>4
  <2> QED BY <2>3, <2>4, <2>5
<1>2. ASSUME NEW other, other # "completed", Reported(q, other) = "completed"
      PROVE  \E k \in 1 .. n : sent[q][k] = "completed"
  BY <1>2 DEF Reported
<1>3. ASSUME Reported(q, "completed") = "completed", state[q].flush = "idle"
      PROVE  \/ \E k \in 1 .. n : sent[q][k] = "completed"
             \/ /\ Calm => n = m
                /\ \A i \in 1 .. n : sent[q][i] # "failed"
                /\ IsActive(q) => n = lastSeq[q]
  <2>1. CASE \E k \in 1 .. n : sent[q][k] # "delta"
    BY <1>3, <2>1 DEF Reported
  <2>2. CASE \A k \in 1 .. n : sent[q][k] = "delta"
    <3>1. Calm => n = m
      BY <1>0, <1>3 DEF WholeSound, TailWhole
    <3>2. IsActive(q) => n = lastSeq[q]
      BY <1>0, <1>3 DEF WholeSound, LogReduced
    <3> QED BY <2>2, <3>1, <3>2
  <2> QED BY <2>1, <2>2
<1>4. PICK o \in Terminal :
        /\ state'[q] = [state[q] EXCEPT !.commit = "sent", !.outcome = o,
                                        !.snap = state[q].seen]
        /\ \/ o # "completed"
           \/ /\ o = Reported(q, "completed") /\ state[q].flush = "idle"
              /\ pc[q] \in {"draining", "redraining"}
           \/ o = Reported(q, "failed")
           \/ o = Reported(q, "interrupted")
  BY DEF Begins
<1>5. o = "completed"
  BY <1>0, <1>4 DEF RunStates
<1> HIDE DEF n, m
<1>6. \/ \E k \in 1 .. n : sent[q][k] = "completed"
      \/ /\ Calm => n = m
         /\ \A i \in 1 .. n : sent[q][i] # "failed"
         /\ IsActive(q) => n = lastSeq[q]
  BY <1>2, <1>3, <1>4, <1>5
<1>7. /\ Calm => n = m
      /\ \A i \in 1 .. n : sent[q][i] # "failed"
      /\ IsActive(q) => n = lastSeq[q]
  BY <1>1, <1>6
<1> QED BY <1>0, <1>7 DEF n, m

\* The log of a live run stands between the request of its commit and the answer.
LEMMA LogStands ==
  ASSUME RouterTypeOK, CloseInv, [RouterNext]_vars, NEW q \in Runs, CommitFirst(q),
         state[q].commit = "sent", IsActive(q), status'[q] # "absent"
  PROVE  lastSeq'[q] = lastSeq[q]
<1>1. CommitCall(q) \notin dead
  BY DEF CloseInv, CloseSound
<1>2. PICK i \in DOMAIN queue : queue[i] = CommitCall(q)
  BY <1>1 DEF CommitFirst, Holds
<1>3. ASSUME Served(FlushCall(q)) PROVE FALSE
  <2>1. queue \in Seq(Requests) /\ 1 \in DOMAIN queue /\ queue[1] = FlushCall(q)
    BY <1>3 DEF Served, CloseInv, Requests
  <2>2. i < 1
    BY <1>2, <2>1 DEF CommitFirst, Before
  <2> QED BY <2>1, <2>2
<1>4. ASSUME Appended(q) \/ AppendLost(q) PROVE lastSeq'[q] = lastSeq[q]
  BY <1>3, <1>4 DEF Appended, AppendLost, Lost, storeVars
<1> QED BY <1>4, LogMoves

LEMMA CommitWholeKept ==
  ASSUME RouterTypeOK, EndInv, CommitInv, StoreInv, ShownInv, CloseInv, WholeInv,
         [RouterNext]_vars, NEW q \in Runs
  PROVE  CommitWhole(q)'
<1> SUFFICES ASSUME IsActive(q)', state'[q].commit = "sent", state'[q].outcome = "completed"
             PROVE  /\ state'[q].snap = lastSeq'[q] /\ state'[q].snap <= Len(sent'[q])
                    /\ \A i \in 1 .. state'[q].snap : sent'[q][i] # "failed"
  BY DEF CommitWhole
<1>0. /\ CommitFirst(q) /\ CommitWhole(q)
      /\ state[q].seen \in Nat /\ state[q].seen <= Len(sent[q]) /\ state[q].snap \in Nat
  BY DEF WholeInv, WholeSound, RouterTypeOK, RunStateOK, RunStates
<1>1. IsActive(q)
  <2>1. ASSUME ~IsActive(q) PROVE FALSE
    <3>1. state[q] = FreshState /\ UNCHANGED state
      BY <2>1, ActiveFresh
    <3> QED BY <3>1 DEF FreshState
  <2> QED BY <2>1
<1>2. status'[q] # "absent"
  BY DEF IsActive, Active
<1>3. /\ Len(sent[q]) \in Nat /\ Len(sent'[q]) \in Nat /\ Len(sent[q]) <= Len(sent'[q])
      /\ \A i \in 1 .. Len(sent[q]) : sent'[q][i] = sent[q][i]
  BY SentGrows
<1>4. CASE Begins(q)
  <2>1. /\ state'[q].snap = state[q].seen /\ state[q].seen = lastSeq[q]
        /\ \A i \in 1 .. state[q].seen : sent[q][i] # "failed"
    BY <1>1, <1>4, BeginsWhole
  <2>2. ~Appended(q) /\ ~AppendLost(q)
    <3>1. DOMAIN state = Runs /\ state[q] \in RunStates
      BY DEF RouterTypeOK, RunStateOK
    <3>2. Appended(q) => state'[q].commit = state[q].commit
      <4>1. ASSUME Appended(q) PROVE state'[q].commit = state[q].commit
        <5>1. PICK f : state' = [state EXCEPT ![q].seen = Upto(q), ![q].batch = {}, ![q].flush = f]
          BY <4>1 DEF Appended
        <5> QED BY <3>1, <5>1 DEF RunStates
      <4> QED BY <4>1
    <3>3. AppendLost(q) => state'[q].commit = state[q].commit
      BY <3>1 DEF AppendLost, Poison, RunStates
    <3>4. state[q].commit = "none"
      BY <1>4 DEF Begins
    <3> QED BY <3>2, <3>3, <3>4
  <2>3. lastSeq'[q] = lastSeq[q]
    BY <1>2, <2>2, LogMoves
  <2> QED BY <1>0, <1>3, <2>1, <2>3
<1>5. CASE /\ state[q].commit = "sent" /\ state'[q].outcome = state[q].outcome
           /\ state'[q].snap = state[q].snap
  <2>1. /\ state[q].snap = lastSeq[q] /\ state[q].snap <= Len(sent[q])
        /\ \A i \in 1 .. state[q].snap : sent[q][i] # "failed"
    BY <1>0, <1>1, <1>5 DEF CommitWhole
  <2>2. lastSeq'[q] = lastSeq[q]
    BY <1>0, <1>1, <1>2, <1>5, LogStands
  <2> QED BY <1>0, <1>3, <1>5, <2>1, <2>2
<1> QED BY <1>4, <1>5, SentCommit

(* The whole answer: the calm *)

\* Without an outage the kernel stays what it is, and every prompt has its scope.
LEMMA GenMoves ==
  ASSUME RouterTypeOK, [RouterNext]_vars, NEW q \in Runs
  PROVE  /\ kernel' = kernel \/ KernelStop \/ KernelExit \/ KernelStart
         /\ gen'[q] = gen[q] \/ gen'[q] = kernel.gen
<1>0. DOMAIN gen = Runs
  BY DEF RouterTypeOK
<1>1. CASE UNCHANGED vars
  BY <1>1 DEF vars, mainVars, promptVars, kernelVars
<1>2. ASSUME NEW r \in Runs,
             \/ Resolve(r) \/ Open(r) \/ Create(r) \/ Admit(r) \/ Connect(r) \/ Compile(r)
             \/ Start(r) \/ Prepare(r) \/ CheckParent(r) \/ Dispatch(r) \/ KernelAnswer(r)
             \/ Checkpoint(r) \/ Attach(r) \/ Drain(r) \/ Unwind(r) \/ PromptRefused(r)
             \/ PromptLost(r) \/ SweepPhantom(r) \/ PromptTimeout(r) \/ KernelEmit(r)
             \/ TailStep(r) \/ CommitStep(r) \/ Cancel(r) \/ CloseDrain(r)
      PROVE  UNCHANGED <<kernel, gen>>
  BY <1>2 DEF Resolve, Open, Create, Admit, Connect, Compile, Start, Prepare, CheckParent,
     Dispatch, KernelAnswer, Checkpoint, Attach, Drain, Unwind, PromptRefused, PromptLost,
     SweepPhantom, PromptTimeout, KernelEmit, TailStep, Flush, Appended, AppendRefused,
     AppendLost, CommitStep, Commit, Disconnect, CommitRefused, CommitLost, Cancel,
     CloseDrain, kernelVars, promptVars
<1>3. ASSUME NEW r \in Runs, Prompt(r) \/ SpawnChild(r)
      PROVE  UNCHANGED kernel /\ (gen'[q] = gen[q] \/ gen'[q] = kernel.gen)
  BY <1>0, <1>3 DEF Prompt, SpawnChild, BeginPrompt, kernelVars
<1>4. CASE \/ \E k \in Runs \X Callers : CancelStep(k)
           \/ Close \/ CloseRuns \/ CloseDone \/ DataCrash \/ Edit
  BY <1>4 DEF CancelStep, CancelRequest, CancelAnswer, CancelDrain, Close, CloseRuns,
     CloseDone, DataCrash, Edit, mainVars, promptVars, kernelVars
<1>5. CASE KernelStop \/ KernelExit \/ KernelStart
  BY <1>5 DEF KernelStop, KernelExit, KernelStart, mainVars, promptVars
<1> QED BY <1>1, <1>2, <1>3, <1>4, <1>5 DEF RouterNext, PromptStep

LEMMA CalmMoves ==
  ASSUME RouterTypeOK, CommitInv, WholeInv, [RouterNext]_vars, Calm', NEW q \in Runs
  PROVE  /\ Calm
         /\ kernel' = kernel /\ kernel.state = "ready"
         /\ gen[q] = kernel.gen /\ gen'[q] = kernel.gen
<1>1. "outages" \in Kinds /\ spent \in [Kinds -> Nat]
  BY DEF Kinds, CommitInv
<1>2. Calm /\ ~Spend("outages", MaxOutages)
  BY <1>1, SpentMoves, SpendTyped, ClosingMoves DEF Calm
<1>3. kernel.state = "ready" /\ gen[q] = kernel.gen
  BY <1>2 DEF WholeInv, WholeSound
<1>4. ~KernelStop /\ ~KernelExit /\ ~KernelStart
  BY <1>2, <1>3 DEF KernelStop, KernelExit, KernelStart
<1> QED BY <1>2, <1>3, <1>4, GenMoves

\* An event of a run the router drives is never dropped while it listens.
LEMMA CalmAccepts ==
  ASSUME RouterTypeOK, CommitInv, WholeInv, CancelInv, Calm, NEW q \in Runs,
         session[q] # "none", ~state[q].done
  PROVE  Accepts(q)
<1>1. kernel.state = "ready" /\ kernel.gen = gen[q] /\ closing \in {"open", "closing"}
  BY DEF WholeInv, WholeSound, Calm
<1>2. InRuns(q)
  BY <1>1, SentinelAssumption DEF CancelInv, InMap, InRuns
<1> QED BY <1>1, <1>2 DEF Accepts

LEMMA TailKept ==
  ASSUME RouterTypeOK, CommitInv, WholeInv, CancelInv, [RouterNext]_vars, Calm,
         NEW q \in Runs, ~state[q].done, TailWhole(q)
  PROVE  TailWhole(q)'
<1> DEFINE n == Len(sent[q])
           u == Cardinality(state[q].batch)
<1>0. /\ sent[q] \in Seq(EventSorts) /\ n \in Nat
      /\ state[q] \in RunStates /\ DOMAIN state = Runs
      /\ state[q].seen \in Nat /\ state[q].seen <= n /\ u \in Nat
      /\ state[q].pend \in SUBSET Nat
      /\ Upto(q) = state[q].seen + u
      /\ state[q].flush = "appending" => Upto(q) <= n
  <2>1. sent[q] \in Seq(EventSorts) /\ RunStateOK(state[q], n) /\ n \in Nat
    BY DEF RouterTypeOK
  <2>2. u \in Nat
    BY <2>1, EventCount DEF RunStateOK
  <2> QED BY <2>1, <2>2 DEF RouterTypeOK, RunStateOK, RunStates, Upto
<1>1. /\ state[q].flush = "idle" => state[q].pend = {} /\ state[q].seen = n
      /\ state[q].flush = "waiting" => state[q].pend = state[q].seen + 1 .. n
      /\ state[q].flush = "appending" => state[q].pend = Upto(q) + 1 .. n
  BY DEF TailWhole
<1>2. CASE KernelEmit(q)
  <2>1. Accepts(q)
    BY <1>2, CalmAccepts DEF KernelEmit
  <2>2. Len(sent'[q]) = n + 1
    <3>1. \E sort \in EventSorts : sent'[q] = Append(sent[q], sort)
      BY <1>2 DEF KernelEmit, RouterTypeOK
    <3> QED BY <1>0, <3>1
  <2>3. /\ state'[q].pend = state[q].pend \cup {n + 1}
        /\ state'[q].flush = IF state[q].flush = "idle" THEN "waiting" ELSE state[q].flush
        /\ state'[q].seen = state[q].seen /\ state'[q].batch = state[q].batch
    <3>1. state'[q] = [state[q] EXCEPT !.pend = state[q].pend \cup {n + 1},
                       !.flush = IF state[q].flush = "idle" THEN "waiting" ELSE state[q].flush]
      BY <1>0, <1>2, <2>1 DEF KernelEmit, RunStates
    <3> QED BY <1>0, <3>1 DEF RunStates
  <2>4. Upto(q)' = Upto(q)
    BY <2>3 DEF Upto
  <2>5. \A k \in Nat : k <= n => (k + 1 .. n) \cup {n + 1} = k + 1 .. n + 1
    BY <1>0
  <2>6. Upto(q) \in Nat
    BY <1>0
  <2> HIDE DEF n, u
  <2>7. CASE state[q].flush = "idle"
    <3>1. state'[q].pend = state[q].seen + 1 .. n + 1
      BY <1>0, <1>1, <2>3, <2>7
    <3> QED BY <2>2, <2>3, <2>7, <3>1 DEF TailWhole
  <2>8. CASE state[q].flush = "waiting"
    BY <1>0, <1>1, <2>2, <2>3, <2>5, <2>8 DEF TailWhole
  <2>9. CASE state[q].flush = "appending"
    BY <1>0, <1>1, <2>2, <2>3, <2>4, <2>5, <2>6, <2>9 DEF TailWhole
  <2>10. CASE state[q].flush = "poisoned"
    BY <2>3, <2>10 DEF TailWhole
  <2> QED BY <1>0, <2>7, <2>8, <2>9, <2>10 DEF RunStates
<1>3. CASE ~KernelEmit(q)
  <2>1. sent'[q] = sent[q]
    BY <1>3, SessionMoves DEF KernelMoves
  <2>2. CASE /\ state'[q].pend = state[q].pend /\ state'[q].flush = state[q].flush
             /\ state'[q].batch = state[q].batch /\ state'[q].seen = state[q].seen
    BY <1>1, <2>1, <2>2 DEF TailWhole, Upto
  <2>3. CASE Flush(q)
    <3>1. state[q].flush = "waiting" /\ state[q].pend = state[q].seen + 1 .. n
      BY <1>1, <2>3 DEF Flush
    <3>2. Cardinality(state[q].pend) = n - state[q].seen
      <4>1. \A a, b \in Nat : a <= b => Cardinality(a + 1 .. b) = b - a
        <5> TAKE a, b \in Nat
        <5>1. Cardinality(a + 1 .. b) = IF a + 1 > b THEN 0 ELSE b - (a + 1) + 1
          BY FS_Interval
        <5> QED BY <5>1
      <4> QED BY <1>0, <3>1, <4>1
    <3>3. state' = [state EXCEPT ![q].flush = "appending", ![q].pend = {},
                                 ![q].batch = state[q].pend]
      <4>1. state[q].seen + (n - state[q].seen) = n
        BY <1>0
      <4>2. state[q].pend = state[q].seen + 1 .. state[q].seen + Cardinality(state[q].pend)
        BY <3>1, <3>2, <4>1
      <4> QED BY <2>3, <4>2 DEF Flush
    <3>4. /\ state'[q].flush = "appending" /\ state'[q].pend = {}
          /\ state'[q].batch = state[q].pend /\ state'[q].seen = state[q].seen
      BY <1>0, <3>3 DEF RunStates
    <3>5. Upto(q)' = n
      BY <1>0, <3>2, <3>4 DEF Upto
    <3> QED BY <1>0, <2>1, <3>4, <3>5 DEF TailWhole
  <2>4. CASE Appended(q)
    <3>1. state[q].flush = "appending" /\ state[q].pend = Upto(q) + 1 .. n /\ Upto(q) <= n
      BY <1>0, <1>1, <2>4 DEF Appended
    <3>2. /\ state'[q].seen = Upto(q) /\ state'[q].pend = state[q].pend
          /\ state'[q].flush = IF state[q].pend = {} THEN "idle" ELSE "waiting"
      <4>1. state'[q] = [state[q] EXCEPT !.seen = Upto(q), !.batch = {},
                           !.flush = IF state[q].pend = {} THEN "idle" ELSE "waiting"]
        BY <1>0, <2>4 DEF Appended, RunStates
      <4> QED BY <1>0, <4>1 DEF RunStates
    <3>3. state[q].pend = {} => Upto(q) = n
      <4>1. Upto(q) \in Nat
        BY <1>0
      <4>2. Upto(q) < n => Upto(q) + 1 \in Upto(q) + 1 .. n
        BY <1>0, <4>1
      <4>3. n \in Nat /\ Upto(q) <= n
        BY <1>0, <3>1
      <4>4. state[q].pend = {} => ~(Upto(q) < n)
        BY <3>1, <4>2
      <4> HIDE DEF n
      <4> QED BY <4>1, <4>3, <4>4
    <3> QED BY <2>1, <3>1, <3>2, <3>3 DEF TailWhole
  <2>5. CASE AppendRefused(q) \/ AppendLost(q)
    <3>1. state'[q].flush = "poisoned"
      BY <1>0, <2>5 DEF AppendRefused, AppendLost, Poison, RunStates
    <3> QED BY <3>1 DEF TailWhole
  <2> QED BY <1>3, <2>2, <2>3, <2>4, <2>5, FieldMoves DEF TailStep
<1> QED BY <1>2, <1>3

LEMMA WholeKept ==
  ASSUME RouterTypeOK, EndInv, CommitInv, CancelInv, StoreInv, ShownInv, CloseInv, WholeInv,
         [RouterNext]_vars, NEW q \in Runs
  PROVE  WholeSound(q)'
<1>0. /\ WholeSound(q) /\ SessionSound(q) /\ AppendOnce(q) /\ CommitFirst(q)
      /\ LogReduced(q)
  BY DEF WholeInv, WholeSound, SessionSound
<1>1. SessionSound(q)'
  BY <1>0, SessionKept
<1>2. AppendOnce(q)'
  BY <1>0, AppendOnceKept
<1>3. CommitFirst(q)'
  <2>1. pc[q] = "checking" => state[q].flush # "appending"
    BY <1>0 DEF SessionSound, Entered
  <2> QED BY <1>0, <2>1, CommitFirstKept
<1>4. LogReduced(q)'
  BY <1>0, LogReducedKept
<1>5. CommitWhole(q)'
  BY CommitWholeKept
<1>6. ASSUME Calm'
      PROVE  /\ kernel'.state = "ready" /\ gen'[q] = kernel'.gen
             /\ ~state'[q].done => TailWhole(q)'
  <2>1. Calm /\ kernel'.state = "ready" /\ gen'[q] = kernel'.gen
    BY <1>6, CalmMoves
  <2>2. ~state'[q].done => TailWhole(q)'
    BY <1>0, <2>1, DoneStays, TailKept DEF WholeSound
  <2> QED BY <2>1, <2>2
<1> QED BY <1>1, <1>2, <1>3, <1>4, <1>5, <1>6 DEF WholeSound, SessionSound

LEMMA WholeInit == RouterInit => WholeInv
<1> SUFFICES ASSUME RouterInit, NEW q \in Runs PROVE WholeSound(q)
  BY DEF WholeInv
<1>1. /\ sent[q] = <<>> /\ session[q] = "none" /\ pc[q] = "idle" /\ kernel.state = "ready"
      /\ gen[q] = kernel.gen /\ state[q] = FreshState /\ status[q] = "absent"
      /\ queue = <<>> /\ dead = {}
  BY DEF RouterInit, StoreInit
<1>2. AppendOnce(q) /\ CommitFirst(q)
  BY <1>1 DEF AppendOnce, CommitFirst, Once, Holds, FreshState
<1>3. LogReduced(q) /\ CommitWhole(q)
  BY <1>1 DEF LogReduced, CommitWhole, IsActive, Active
<1> QED BY <1>1, <1>2, <1>3 DEF WholeSound, TailWhole, FreshState, Early, Entered

LEMMA RouterWhole == RouterSpec => []WholeInv
<1>1. /\ RouterTypeOK /\ EndInv /\ CommitInv /\ CancelInv /\ StoreInv /\ ShownInv /\ CloseInv
      /\ WholeInv /\ [RouterNext]_vars
      => WholeInv'
  <2> SUFFICES ASSUME RouterTypeOK, EndInv, CommitInv, CancelInv, StoreInv, ShownInv, CloseInv,
                      WholeInv, [RouterNext]_vars, NEW q \in Runs
               PROVE  WholeSound(q)'
    BY DEF WholeInv
  <2> QED BY WholeKept
<1> QED BY <1>1, WholeInit, RouterCommits, RouterCancels, RouterKeepsStore, RouterShown,
           RouterCloses, PTL DEF RouterSpec

\* The commit of a completed run is sent when every event the kernel has emitted
\* for it is reduced, those of the attachment writes included, and the store
\* applies it to a log with nothing more in it: an append that is under way when
\* the commit is asked for is queued before it, and one asked for later is refused.
THEOREM RouterAnswerIsWhole == RouterSpec => AnswerIsWhole
<1>1. ASSUME RouterTypeOK, EndInv, CommitInv, StoreInv, ShownInv, WholeInv,
             [RouterNext]_vars, NEW r \in Runs
      PROVE  /\ Calm /\ state[r].commit # "sent" /\ state'[r].commit = "sent"
                     /\ state'[r].outcome = "completed" =>
                  state'[r].snap = Len(sent[r])
             /\ status[r] # "completed" /\ status'[r] = "completed" =>
                  /\ state[r].snap = lastSeq[r]
                  /\ \A i \in 1 .. state[r].snap : sent[r][i] # "failed"
  <2>1. ASSUME Calm, state[r].commit # "sent", state'[r].commit = "sent",
               state'[r].outcome = "completed"
        PROVE  state'[r].snap = Len(sent[r])
    <3>1. Begins(r)
      BY <1>1, <2>1, SentCommit
    <3> QED BY <1>1, <2>1, <3>1, BeginsWhole
  <2>2. ASSUME status[r] # "completed", status'[r] = "completed"
        PROVE  /\ state[r].snap = lastSeq[r]
               /\ \A i \in 1 .. state[r].snap : sent[r][i] # "failed"
    <3>1. IsActive(r) /\ state[r].commit = "sent" /\ state[r].outcome = "completed"
      BY <1>1, <2>2, StatusMoves DEF RowMoves
    <3>2. CommitWhole(r)
      BY <1>1 DEF WholeInv, WholeSound
    <3> QED BY <3>1, <3>2 DEF CommitWhole
  <2> QED BY <2>1, <2>2
<1>2. /\ RouterTypeOK /\ EndInv /\ CommitInv /\ StoreInv /\ ShownInv /\ WholeInv
      /\ [RouterNext]_vars
      => [\A r \in Runs :
            /\ Calm /\ state[r].commit # "sent" /\ state'[r].commit = "sent"
                    /\ state'[r].outcome = "completed" =>
                 state'[r].snap = Len(sent[r])
            /\ status[r] # "completed" /\ status'[r] = "completed" =>
                 /\ state[r].snap = lastSeq[r]
                 /\ \A i \in 1 .. state[r].snap : sent[r][i] # "failed"]_vars
  BY <1>1
<1> QED BY <1>2, RouterCommits, RouterKeepsStore, RouterShown, RouterWhole, PTL
        DEF RouterSpec, AnswerIsWhole
=============================================================================
