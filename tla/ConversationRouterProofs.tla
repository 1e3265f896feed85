----------------------- MODULE ConversationRouterProofs ----------------------
(***************************************************************************)
(* The router implements the durable tables: each of its steps is one       *)
(* transaction of RunStore or leaves the tables alone.  What RunStoreProofs *)
(* proves of the tables therefore holds under the router.                   *)
(***************************************************************************)
EXTENDS ConversationRouter, RunStoreProofs, FiniteSetTheorems

LEMMA EventCount ==
  ASSUME NEW n \in Nat, NEW S, S \subseteq 1 .. n
  PROVE  IsFiniteSet(S) /\ Cardinality(S) \in Nat
<1>1. IsFiniteSet(1 .. n)
  BY FS_Interval
<1>2. IsFiniteSet(S)
  BY <1>1, FS_Subset
<1> QED BY <1>2, FS_CardinalityType

\* A run state that fits the events emitted so far fits when there are more.
LEMMA MoreEvents ==
  ASSUME NEW n \in Nat, NEW s, RunStateOK(s, n)
  PROVE  RunStateOK(s, n + 1)
<1>1. s.batch \subseteq 1 .. n /\ s.seen \in Nat /\ s.seen <= n
  BY DEF RunStateOK, RunStates
<1>2. Cardinality(s.batch) \in Nat
  BY <1>1, EventCount
<1> QED BY <1>1, <1>2 DEF RunStateOK

LEMMA ReportedTerminal ==
  ASSUME RouterTypeOK, NEW r \in Runs, NEW o \in Terminal
  PROVE  Reported(r, o) \in Terminal
<1>1. CASE \E n \in 1 .. state[r].seen : sent[r][n] # "delta"
  <2>1. PICK n \in 1 .. state[r].seen :
          /\ n = CHOOSE m \in 1 .. state[r].seen : sent[r][m] # "delta"
          /\ sent[r][n] # "delta"
    BY <1>1
  <2>2. state[r].seen \in Nat /\ state[r].seen <= Len(sent[r]) /\ sent[r] \in Seq(EventSorts)
    BY DEF RouterTypeOK, RunStateOK, RunStates
  <2>3. sent[r][n] \in EventSorts
    <3>1. Len(sent[r]) \in Nat /\ n \in 1 .. Len(sent[r])
      BY <2>1, <2>2
    <3> QED BY <3>1, <2>2, ElementOfSeq
  <2>4. Reported(r, o) = sent[r][n]
    BY <1>1, <2>1 DEF Reported
  <2> QED BY <2>1, <2>3, <2>4 DEF EventSorts, Terminal
<1>2. CASE ~ \E n \in 1 .. state[r].seen : sent[r][n] # "delta"
  BY <1>2 DEF Reported
<1> QED BY <1>1, <1>2

LEMMA BeginTyped ==
  ASSUME RouterTypeOK, NEW r \in Runs, NEW o \in Terminal, BeginCommit(r, o),
         UNCHANGED <<gen, kernel, sent>>
  PROVE  RouterTypeOK'
<1>1. CASE UNCHANGED state
  BY <1>1 DEF RouterTypeOK
<1>2. CASE state' = [state EXCEPT ![r].commit = "sent", ![r].outcome = o,
                                  ![r].snap = state[r].seen]
  <2>1. RunStateOK(state[r], Len(sent[r]))
    BY DEF RouterTypeOK
  <2>2. RunStateOK(state'[r], Len(sent[r]))
    BY <1>2, <2>1 DEF RouterTypeOK, RunStateOK, RunStates
  <2> QED BY <1>2, <2>2 DEF RouterTypeOK
<1> QED BY <1>1, <1>2 DEF BeginCommit

LEMMA TypeUnmoved ==
  ASSUME RouterTypeOK, UNCHANGED <<gen, kernel, sent, state>>
  PROVE  RouterTypeOK'
BY DEF RouterTypeOK

\* A step that changes one run state keeps the type if that state stays in its.
LEMMA OneStateMoved ==
  ASSUME RouterTypeOK, NEW r \in Runs, NEW s, UNCHANGED <<gen, kernel, sent>>,
         RunStateOK(s, Len(sent[r])), state' = [state EXCEPT ![r] = s]
  PROVE  RouterTypeOK'
BY DEF RouterTypeOK

LEMMA PromptTyped ==
  ASSUME RouterTypeOK, NEW r \in Runs,
         Prompt(r) \/ SpawnChild(r) \/ PromptStep(r) \/ PromptTimeout(r)
  PROVE  RouterTypeOK'
<1> USE DEF Terminal
<1>1. CASE Prompt(r) \/ SpawnChild(r)
  BY <1>1 DEF Prompt, SpawnChild, BeginPrompt, kernelVars, RouterTypeOK
<1>2. CASE Resolve(r) \/ Open(r) \/ Create(r) \/ Admit(r) \/ Compile(r) \/ Start(r)
             \/ Prepare(r) \/ Dispatch(r) \/ KernelAnswer(r) \/ Checkpoint(r)
             \/ Attach(r) \/ PromptRefused(r) \/ PromptLost(r) \/ SweepPhantom(r)
             \/ PromptTimeout(r)
  BY <1>2, TypeUnmoved DEF Resolve, Open, Create, Admit, Compile, Start, Prepare,
     Dispatch, KernelAnswer, Checkpoint, Attach, PromptRefused, PromptLost,
     SweepPhantom, PromptTimeout, kernelVars
<1>3. CASE Connect(r)
  <2>1. RunStateOK([state[r] EXCEPT !.live = TRUE], Len(sent[r]))
    BY DEF RouterTypeOK, RunStateOK, RunStates
  <2>2. state' = [state EXCEPT ![r] = [state[r] EXCEPT !.live = TRUE]]
    BY <1>3 DEF Connect
  <2> QED BY <1>3, <2>1, <2>2, OneStateMoved DEF Connect, kernelVars
<1>4. CASE CheckParent(r)
  BY <1>4, BeginTyped, TypeUnmoved DEF CheckParent, kernelVars
<1>5. CASE Drain(r)
  BY <1>5, BeginTyped, TypeUnmoved, ReportedTerminal DEF Drain, kernelVars
<1>6. CASE Unwind(r)
  BY <1>6, BeginTyped, ReportedTerminal DEF Unwind, kernelVars
<1> QED BY <1>1, <1>2, <1>3, <1>4, <1>5, <1>6 DEF PromptStep

LEMMA EmitTyped ==
  ASSUME RouterTypeOK, NEW r \in Runs, KernelEmit(r)
  PROVE  RouterTypeOK'
<1> DEFINE n == Len(sent[r]) + 1
<1>1. PICK sort \in EventSorts : sent' = [sent EXCEPT ![r] = Append(@, sort)]
  BY DEF KernelEmit
<1>2. sent[r] \in Seq(EventSorts) /\ Len(sent[r]) \in Nat /\ sent \in [Runs -> Seq(EventSorts)]
  BY DEF RouterTypeOK
<1>3. Append(sent[r], sort) \in Seq(EventSorts) /\ Len(Append(sent[r], sort)) = n
  BY <1>2
<1>4. sent' \in [Runs -> Seq(EventSorts)] /\ Len(sent'[r]) = n
      /\ \A q \in Runs \ {r} : sent'[q] = sent[q]
  BY <1>1, <1>2, <1>3
<1>5. RunStateOK(state[r], n)
  BY <1>2, MoreEvents DEF RouterTypeOK
<1>6. RunStateOK(state'[r], n)
  <2>1. CASE ~Accepts(r)
    BY <1>5, <2>1 DEF KernelEmit
  <2>2. CASE Accepts(r)
    <3>1. state'[r] = [state[r] EXCEPT !.pend = @ \cup {n},
                         !.flush = IF @ = "idle" THEN "waiting" ELSE @]
      BY <2>2 DEF KernelEmit, RouterTypeOK
    <3>2. n \in Nat /\ n \in 1 .. n
      BY <1>2
    <3> DEFINE s == state[r]
               t == state'[r]
    <3> HIDE DEF n
    <3>3. s \in RunStates /\ RunStateOK(s, n)
      BY <1>5 DEF RunStateOK
    <3>4. /\ t.pend = s.pend \cup {n} /\ t.seen = s.seen /\ t.batch = s.batch
          /\ t.flush = "appending" => s.flush = "appending"
      BY <3>1, <3>3 DEF RunStates
    <3>5. t \in RunStates
      <4>1. s.pend \cup {n} \in SUBSET Nat
        BY <3>2, <3>3 DEF RunStates
      <4>2. (IF s.flush = "idle" THEN "waiting" ELSE s.flush)
              \in {"idle", "waiting", "appending", "poisoned"}
        BY <3>3 DEF RunStates
      <4>3. t = [s EXCEPT !.pend = s.pend \cup {n},
                          !.flush = IF s.flush = "idle" THEN "waiting" ELSE s.flush]
        BY <3>1, <3>3 DEF RunStates
      <4> QED BY <3>3, <4>1, <4>2, <4>3 DEF RunStates
    <3> QED BY <3>2, <3>3, <3>4, <3>5 DEF RunStateOK
  <2> QED BY <2>1, <2>2
<1>7. DOMAIN state' = Runs /\ \A q \in Runs \ {r} : state'[q] = state[q]
  BY DEF KernelEmit, RouterTypeOK
<1> QED BY <1>4, <1>6, <1>7 DEF KernelEmit, RouterTypeOK, promptVars

LEMMA TailTyped ==
  ASSUME RouterTypeOK, NEW r \in Runs, TailStep(r)
  PROVE  RouterTypeOK'
<1>1. RunStateOK(state[r], Len(sent[r])) /\ Len(sent[r]) \in Nat
  BY DEF RouterTypeOK
<1>2. UNCHANGED <<gen, kernel, sent>>
  BY DEF TailStep, Flush, Appended, AppendRefused, AppendLost, promptVars, kernelVars
<1>3. CASE Flush(r)
  <2> DEFINE batch == state[r].pend
             good == [state[r] EXCEPT !.flush = "appending", !.pend = {}, !.batch = batch]
             bad == [state[r] EXCEPT !.flush = "poisoned", !.pend = {}]
  <2>1. RunStateOK(bad, Len(sent[r]))
    BY <1>1 DEF RunStateOK, RunStates
  <2>2. ASSUME batch = state[r].seen + 1 .. state[r].seen + Cardinality(batch)
        PROVE  RunStateOK(good, Len(sent[r]))
    <3>1. batch \subseteq 1 .. Len(sent[r]) /\ state[r].seen \in Nat
      BY <1>1 DEF RunStateOK, RunStates
    <3>2. IsFiniteSet(batch) /\ Cardinality(batch) \in Nat
      BY <1>1, <3>1, EventCount
    <3>3. state[r].seen + Cardinality(batch) <= Len(sent[r])
      <4>1. CASE Cardinality(batch) = 0
        BY <1>1, <4>1 DEF RunStateOK, RunStates
      <4>2. CASE Cardinality(batch) # 0
        <5>1. state[r].seen + Cardinality(batch) \in batch
          BY <2>2, <3>1, <3>2, <4>2
        <5> QED BY <3>1, <5>1
      <4> QED BY <4>1, <4>2
    <3> QED BY <1>1, <2>2, <3>1, <3>3 DEF RunStateOK, RunStates
  <2>3. \/ /\ batch = state[r].seen + 1 .. state[r].seen + Cardinality(batch)
           /\ state' = [state EXCEPT ![r] = good]
        \/ state' = [state EXCEPT ![r] = bad]
    BY <1>3 DEF Flush
  <2> QED BY <1>2, <2>1, <2>2, <2>3, OneStateMoved
<1>4. CASE Appended(r)
  <2> DEFINE s == [state[r] EXCEPT !.seen = Upto(r), !.batch = {},
                     !.flush = IF state[r].pend = {} THEN "idle" ELSE "waiting"]
  <2>1. Upto(r) \in Nat /\ Upto(r) <= Len(sent[r])
    <3>1. state[r].flush = "appending"
      BY <1>4 DEF Appended
    <3>2. state[r].seen \in Nat /\ state[r].batch = state[r].seen + 1 .. Upto(r)
          /\ Upto(r) <= Len(sent[r]) /\ state[r].batch \subseteq Nat
      BY <1>1, <3>1 DEF RunStateOK, RunStates, Upto
    <3>3. Upto(r) \in Nat
      <4>1. state[r].batch \subseteq 1 .. Len(sent[r])
        BY <1>1 DEF RunStateOK
      <4>2. Cardinality(state[r].batch) \in Nat
        BY <1>1, <4>1, EventCount
      <4> QED BY <3>2, <4>2 DEF Upto
    <3> QED BY <3>2, <3>3
  <2>2. RunStateOK(s, Len(sent[r]))
    BY <1>1, <2>1 DEF RunStateOK, RunStates
  <2>3. state' = [state EXCEPT ![r] = s]
    BY <1>4 DEF Appended
  <2> QED BY <1>2, <2>2, <2>3, OneStateMoved
<1>5. CASE AppendRefused(r) \/ AppendLost(r)
  <2> DEFINE s == [state[r] EXCEPT !.flush = "poisoned", !.batch = {}]
  <2>1. RunStateOK(s, Len(sent[r]))
    BY <1>1 DEF RunStateOK, RunStates
  <2>2. state' = [state EXCEPT ![r] = s]
    BY <1>5 DEF AppendRefused, AppendLost, Poison
  <2> QED BY <1>2, <2>1, <2>2, OneStateMoved
<1> QED BY <1>3, <1>4, <1>5 DEF TailStep

LEMMA CommitTyped ==
  ASSUME RouterTypeOK, NEW r \in Runs, CommitStep(r)
  PROVE  RouterTypeOK'
<1>1. RunStateOK(state[r], Len(sent[r]))
  BY DEF RouterTypeOK
<1>2. UNCHANGED <<gen, kernel, sent>>
  BY DEF CommitStep, Commit, Disconnect, CommitRefused, CommitLost, promptVars,
     kernelVars
<1>3. CASE Commit(r)
  <2> DEFINE s == [state[r] EXCEPT !.commit = "disconnecting", !.done = TRUE]
  <2>1. RunStateOK(s, Len(sent[r]))
    BY <1>1 DEF RunStateOK, RunStates
  <2>2. state' = [state EXCEPT ![r] = s]
    BY <1>3 DEF Commit
  <2> QED BY <1>2, <2>1, <2>2, OneStateMoved
<1>4. CASE Disconnect(r)
  <2> DEFINE s == [state[r] EXCEPT !.commit = "none"]
  <2>1. RunStateOK(s, Len(sent[r]))
    BY <1>1 DEF RunStateOK, RunStates
  <2>2. state' = [state EXCEPT ![r] = s]
    BY <1>4 DEF Disconnect
  <2> QED BY <1>2, <2>1, <2>2, OneStateMoved
<1>5. CASE CommitRefused(r) \/ CommitLost(r)
  <2> DEFINE abandon == pc[r] = "abandoning" \/ xpc[r] = "committing"
             s == [state[r] EXCEPT !.commit = "none", !.done = abandon]
  <2>1. RunStateOK(s, Len(sent[r]))
    <3>1. abandon \in BOOLEAN
      OBVIOUS
    <3> HIDE DEF abandon
    <3> QED BY <1>1, <3>1 DEF RunStateOK, RunStates
  <2>2. state' = [state EXCEPT ![r] = s]
    BY <1>5 DEF CommitRefused, CommitLost, CommitFails
  <2> QED BY <1>2, <2>1, <2>2, OneStateMoved
<1> QED BY <1>3, <1>4, <1>5 DEF CommitStep

LEMMA OtherTyped ==
  ASSUME RouterTypeOK,
         \/ \E r \in Runs : Cancel(r) \/ CloseDrain(r)
         \/ \E k \in Runs \X Callers : CancelStep(k)
         \/ Close \/ CloseRuns \/ CloseDone
         \/ KernelStop \/ KernelExit \/ KernelStart \/ DataCrash \/ Edit
  PROVE  RouterTypeOK'
<1> USE DEF Terminal
<1>1. ASSUME NEW r \in Runs, Cancel(r) PROVE RouterTypeOK'
  <2>1. ASSUME NEW d \in Runs PROVE RunStateOK(state'[d], Len(sent[d]))
    <3>1. RunStateOK(state[d], Len(sent[d]))
      BY DEF RouterTypeOK
    <3>2. RunStateOK([state[d] EXCEPT !.cancelReq = TRUE], Len(sent[d]))
      BY <3>1 DEF RunStateOK, RunStates
    <3> QED BY <1>1, <3>1, <3>2 DEF Cancel
  <2> QED BY <1>1, <2>1 DEF Cancel, RouterTypeOK, promptVars, kernelVars
<1>2. ASSUME NEW r \in Runs, CloseDrain(r) PROVE RouterTypeOK'
  BY <1>2, BeginTyped, ReportedTerminal DEF CloseDrain, promptVars, kernelVars
<1>3. ASSUME NEW k \in Runs \X Callers, CancelStep(k) PROVE RouterTypeOK'
  <2>1. CASE CancelRequest(k) \/ CancelAnswer(k)
    BY <2>1, TypeUnmoved DEF CancelRequest, CancelAnswer, promptVars, kernelVars
  <2>2. CASE CancelDrain(k)
    <3>1. k[1] \in Runs
      BY <1>3
    <3> QED BY <2>2, <3>1, BeginTyped, TypeUnmoved DEF CancelDrain, promptVars, kernelVars
  <2> QED BY <1>3, <2>1, <2>2 DEF CancelStep
<1>4. CASE Close \/ CloseRuns \/ DataCrash \/ Edit
  BY <1>4, TypeUnmoved DEF Close, CloseRuns, DataCrash, Edit, mainVars, promptVars,
     kernelVars
<1>5. CASE CloseDone
  <2>1. ASSUME NEW d \in Runs PROVE RunStateOK(state'[d], Len(sent[d]))
    <3>1. RunStateOK(state[d], Len(sent[d]))
      BY DEF RouterTypeOK
    <3>2. RunStateOK([state[d] EXCEPT !.live = FALSE], Len(sent[d]))
      BY <3>1 DEF RunStateOK, RunStates
    <3> QED BY <1>5, <3>1, <3>2 DEF CloseDone
  <2> QED BY <1>5, <2>1 DEF CloseDone, RouterTypeOK, promptVars, kernelVars
<1>6. CASE KernelStop \/ KernelExit \/ KernelStart
  <2>1. kernel' \in [gen : Scopes, state : {"ready", "stopping", "down"}]
    <3>1. CASE KernelStop
      BY <3>1 DEF KernelStop, RouterTypeOK
    <3>2. CASE KernelExit
      BY <3>2 DEF KernelExit, RouterTypeOK
    <3>3. CASE KernelStart
      <4>1. kernel.gen + 1 \in Scopes
        BY <3>3, GenerationAssumption DEF KernelStart, RouterTypeOK
      <4> QED BY <3>3, <4>1 DEF KernelStart
    <3> QED BY <1>6, <3>1, <3>2, <3>3
  <2>2. UNCHANGED <<gen, sent, state>>
    BY <1>6 DEF KernelStop, KernelExit, KernelStart, mainVars, promptVars
  <2> QED BY <2>1, <2>2 DEF RouterTypeOK
<1> QED BY <1>1, <1>2, <1>3, <1>4, <1>5, <1>6

LEMMA RouterInitTyped == RouterInit => RouterTypeOK
<1> SUFFICES ASSUME RouterInit PROVE RouterTypeOK
  OBVIOUS
<1>1. 1 \in Scopes
  BY GenerationAssumption
<1>2. FreshState \in RunStates /\ RunStateOK(FreshState, 0)
  BY DEF FreshState, RunStates, RunStateOK, Terminal
<1>3. <<>> \in Seq(EventSorts) /\ Len(<<>>) = 0
  BY EmptySeq
<1>4. \A r \in Runs : state[r] = FreshState /\ sent[r] = <<>>
  BY DEF RouterInit
<1> QED BY <1>1, <1>2, <1>3, <1>4 DEF RouterInit, RouterTypeOK

LEMMA RouterStepTyped == RouterTypeOK /\ [RouterNext]_vars => RouterTypeOK'
<1> SUFFICES ASSUME RouterTypeOK, [RouterNext]_vars PROVE RouterTypeOK'
  OBVIOUS
<1>1. CASE UNCHANGED vars
  BY <1>1, TypeUnmoved DEF vars, mainVars, promptVars, kernelVars
<1>2. CASE RouterNext
  <2>1. ASSUME NEW r \in Runs,
               \/ Prompt(r) \/ SpawnChild(r) \/ PromptStep(r) \/ PromptTimeout(r)
               \/ KernelEmit(r) \/ TailStep(r) \/ CommitStep(r)
        PROVE  RouterTypeOK'
    BY <2>1, PromptTyped, EmitTyped, TailTyped, CommitTyped
  <2> QED BY <1>2, <2>1, OtherTyped DEF RouterNext
<1> QED BY <1>1, <1>2

\* Main's bookkeeping stays in its domain on every instance.
THEOREM RouterTypeCorrect == RouterSpec => []RouterTypeOK
BY RouterInitTyped, RouterStepTyped, PTL DEF RouterSpec
-----------------------------------------------------------------------------
LEMMA PromptImplements ==
  ASSUME RouterTypeOK, NEW r \in Runs,
         Prompt(r) \/ SpawnChild(r) \/ PromptStep(r) \/ PromptTimeout(r)
  PROVE  [StoreNext]_storeVars
<1>1. /\ gen[r] \in Scopes /\ RunConv[r] \in Conversations
      /\ ParentOf[r] \in Runs \cup {NoRun}
  BY PromptAssumption DEF RouterTypeOK
<1>2. CASE \/ Prompt(r) \/ SpawnChild(r) \/ PromptTimeout(r) \/ Resolve(r) \/ Open(r)
           \/ Connect(r) \/ Compile(r) \/ Prepare(r) \/ CheckParent(r) \/ Dispatch(r)
           \/ KernelAnswer(r) \/ Drain(r) \/ Attach(r) \/ PromptRefused(r) \/ Unwind(r)
  BY <1>2 DEF Prompt, SpawnChild, BeginPrompt, PromptTimeout, Resolve, Open, Connect,
     Compile, Prepare, CheckParent, Dispatch, KernelAnswer, Drain, Attach,
     PromptRefused, Unwind
<1>3. CASE Create(r)
  BY <1>1, <1>3 DEF Create, StoreNext
<1>4. CASE Admit(r)
  BY <1>1, <1>4 DEF Admit, StoreNext
<1>5. CASE Start(r)
  BY <1>1, <1>5 DEF Start, StoreNext
<1>6. CASE Checkpoint(r)
  BY <1>1, <1>6 DEF Checkpoint, StoreNext
<1>7. CASE PromptLost(r)
  <2>1. Applied(r) \/ UNCHANGED storeVars
    BY <1>7 DEF PromptLost, Lost
  <2> QED BY <1>1, <2>1 DEF Applied, StoreNext
<1>8. CASE SweepPhantom(r)
  BY <1>1, <1>8 DEF SweepPhantom, StoreNext
<1> QED BY <1>2, <1>3, <1>4, <1>5, <1>6, <1>7, <1>8 DEF PromptStep

LEMMA TailImplements ==
  ASSUME RouterTypeOK, NEW r \in Runs, KernelEmit(r) \/ TailStep(r)
  PROVE  [StoreNext]_storeVars
<1>1. gen[r] \in Scopes
  BY DEF RouterTypeOK
<1>2. AppendBatch(r) => StoreNext
  BY <1>1 DEF AppendBatch, StoreNext
<1>3. CASE KernelEmit(r) \/ Flush(r) \/ AppendRefused(r)
  BY <1>3 DEF KernelEmit, Flush, AppendRefused
<1>4. CASE Appended(r) \/ AppendLost(r)
  BY <1>2, <1>4 DEF Appended, AppendLost, Lost
<1> QED BY <1>3, <1>4 DEF TailStep

LEMMA CommitImplements ==
  ASSUME RouterTypeOK, NEW r \in Runs, CommitStep(r)
  PROVE  [StoreNext]_storeVars
<1>1. gen[r] \in Scopes /\ state[r].outcome \in Terminal
  BY DEF RouterTypeOK, RunStateOK, RunStates
<1>2. CommitTerminalRun(r, gen[r], state[r].outcome) => StoreNext
  BY <1>1 DEF StoreNext
<1>3. CASE Commit(r)
  BY <1>2, <1>3 DEF Commit
<1>4. CASE CommitLost(r)
  BY <1>2, <1>4 DEF CommitLost, Lost
<1>5. CASE Disconnect(r) \/ CommitRefused(r)
  BY <1>5 DEF Disconnect, CommitRefused
<1> QED BY <1>3, <1>4, <1>5 DEF CommitStep

LEMMA OtherImplements ==
  ASSUME \/ \E r \in Runs : Cancel(r) \/ CloseDrain(r)
         \/ \E k \in Runs \X Callers : CancelStep(k)
         \/ Close \/ CloseRuns \/ CloseDone
         \/ KernelStop \/ KernelExit \/ KernelStart \/ DataCrash \/ Edit
  PROVE  [StoreNext]_storeVars
<1>1. CASE DataCrash \/ Edit
  BY <1>1 DEF DataCrash, Edit, StoreNext
<1>2. CASE ~(DataCrash \/ Edit)
  BY <1>2 DEF Cancel, CloseDrain, CancelStep, CancelRequest, CancelAnswer,
     CancelDrain, Close, CloseRuns, CloseDone, KernelStop, KernelExit, KernelStart
<1> QED BY <1>1, <1>2

LEMMA RouterStepImplements ==
  RouterTypeOK /\ [RouterNext]_vars => [StoreNext]_storeVars
<1> SUFFICES ASSUME RouterTypeOK, [RouterNext]_vars PROVE [StoreNext]_storeVars
  OBVIOUS
<1>1. CASE UNCHANGED vars
  BY <1>1 DEF vars
<1>2. CASE RouterNext
  BY <1>2, PromptImplements, TailImplements, CommitImplements, OtherImplements
     DEF RouterNext
<1> QED BY <1>1, <1>2

\* Every step that writes a table is a transaction of RunStore by its definition, so
\* what the router does to the tables is a behaviour of the store.
LEMMA RouterImplementsStore == RouterSpec => StoreSpec
<1>1. RouterInit => StoreInit
  BY DEF RouterInit
<1> QED BY <1>1, RouterStepImplements, RouterTypeCorrect, PTL DEF RouterSpec, StoreSpec

\* So the invariant of the tables holds under the router.
THEOREM RouterKeepsStore == RouterSpec => []StoreInv
BY RouterImplementsStore, StoreInvariance, PTL

\* And the conversations the router serves are a ledger.
THEOREM RouterImplementsLedger == RouterSpec => LedgerSpec
BY RouterImplementsStore, StoreImplementsLedger, PTL
-----------------------------------------------------------------------------
(* The outcome the Renderer was shown is the durable one.                   *)

\* What a step may do to r when it neither commits nor ends the run.
Quiet(r) ==
  /\ status'[r] \in {status[r], "absent"} \/ IsActive(r) \/ pc[r] \in Early
  /\ state'[r].commit = "disconnecting" =>
       state[r].commit = "disconnecting" /\ state'[r].outcome = state[r].outcome
  /\ ui'[r].terminal = ui[r].terminal
  /\ pc'[r] \in Early => Untouched(r)'

EndDomains ==
  /\ DOMAIN pc = Runs /\ DOMAIN ui = Runs /\ DOMAIN xpc = Runs
  /\ DOMAIN cpc = Runs \X Callers /\ DOMAIN status = Runs
  /\ \A r \in Runs : DOMAIN ui[r] = {"started", "terminal"}

\* An active run has neither a commit that succeeded nor a reported end.
LEMMA ActiveNotEnded ==
  ASSUME RouterTypeOK, NEW r \in Runs, EndSound(r), IsActive(r)
  PROVE  state[r].commit # "disconnecting" /\ ui[r].terminal = "none"
<1>1. state[r].outcome \in Terminal
  BY DEF RouterTypeOK, RunStateOK, RunStates
<1> QED BY <1>1 DEF EndSound, IsActive, Active, Terminal

LEMMA QuietSound ==
  ASSUME RouterTypeOK, NEW r \in Runs, EndSound(r), Quiet(r)
  PROVE  EndSound(r)'
<1>1. pc'[r] \in Early => Untouched(r)'
  BY DEF Quiet
<1>2. CASE IsActive(r) \/ pc[r] \in Early
  <2>1. state[r].commit # "disconnecting" /\ ui[r].terminal = "none"
    BY <1>2, ActiveNotEnded DEF EndSound, Untouched, Early
  <2> QED BY <1>1, <2>1 DEF Quiet, EndSound, Early
<1>3. CASE ~(IsActive(r) \/ pc[r] \in Early)
  <2>1. status'[r] \in {status[r], "absent"}
    BY <1>3 DEF Quiet
  <2> QED BY <1>1, <2>1 DEF Quiet, EndSound, Early
<1> QED BY <1>2, <1>3

LEMMA QuietKeeps ==
  ASSUME RouterTypeOK, EndInv, EndDomains', \A r \in Runs : Quiet(r)
  PROVE  EndInv'
<1>1. \A r \in Runs : EndSound(r)'
  BY QuietSound DEF EndInv
<1> QED BY <1>1 DEF EndInv, EndDomains

LEMMA EndStill ==
  ASSUME EndInv, UNCHANGED <<status, state, pc, cpc, xpc, ui>>
  PROVE  EndInv'
BY DEF EndInv, EndSound, Untouched

\* Nothing of the run moves except what its prompt is doing.
LEMMA OnlyPcMoved ==
  ASSUME RouterTypeOK, EndInv, NEW r \in Runs, NEW next,
         UNCHANGED <<status, state, cpc, xpc, ui>>,
         pc' = [pc EXCEPT ![r] = next], next \in Early => pc[r] \in Early
  PROVE  EndInv'
<1>1. EndDomains'
  BY DEF EndInv, EndDomains
<1>2. ASSUME NEW q \in Runs PROVE Quiet(q)
  <2>1. pc'[q] \in Early => pc[q] \in Early
    BY DEF EndInv
  <2>2. pc[q] \in Early => Untouched(q)
    BY DEF EndInv, EndSound, Early
  <2> QED BY <2>1, <2>2 DEF Quiet, Untouched
<1> QED BY <1>1, <1>2, QuietKeeps

\* A run whose prompt is past its setup, alone.
LEMMA LateMoved ==
  ASSUME RouterTypeOK, EndInv, EndDomains', NEW r \in Runs,
         status'[r] \in {status[r], "absent"} \/ IsActive(r),
         state'[r].commit # "disconnecting", ui'[r].terminal = ui[r].terminal,
         pc'[r] \notin Early,
         \A q \in Runs \ {r} :
           /\ status'[q] = status[q] /\ state'[q] = state[q] /\ ui'[q] = ui[q]
           /\ pc'[q] = pc[q] /\ xpc'[q] = xpc[q]
           /\ \A w \in Callers : cpc'[<<q, w>>] = cpc[<<q, w>>]
  PROVE  EndInv'
<1>1. Quiet(r)
  BY DEF Quiet
<1>2. ASSUME NEW q \in Runs \ {r} PROVE Quiet(q)
  <2>1. pc[q] \in Early => Untouched(q)
    BY DEF EndInv, EndSound, Early
  <2> QED BY <1>2, <2>1 DEF Quiet, Untouched
<1> QED BY <1>1, <1>2, QuietKeeps

LEMMA BeginKeeps ==
  ASSUME RouterTypeOK, EndInv, EndDomains', NEW r \in Runs, NEW o, BeginCommit(r, o),
         UNCHANGED <<status, ui>>, pc[r] \notin Early, pc'[r] \notin Early,
         \A q \in Runs \ {r} :
           /\ pc'[q] = pc[q] /\ xpc'[q] = xpc[q]
           /\ \A w \in Callers : cpc'[<<q, w>>] = cpc[<<q, w>>]
  PROVE  EndInv'
<1>1. DOMAIN state = Runs /\ state[r] \in RunStates
  BY DEF RouterTypeOK, RunStateOK
<1>2. CASE UNCHANGED state
  <2>1. ASSUME NEW q \in Runs PROVE Quiet(q)
    <3>1. pc[q] \in Early => Untouched(q)
      BY DEF EndInv, EndSound, Early
    <3> QED BY <1>2, <2>1, <3>1 DEF Quiet, Untouched
  <2> QED BY <2>1, QuietKeeps
<1>3. CASE state' = [state EXCEPT ![r].commit = "sent", ![r].outcome = o,
                                  ![r].snap = state[r].seen]
  <2>1. state'[r].commit = "sent" /\ \A q \in Runs \ {r} : state'[q] = state[q]
    BY <1>1, <1>3 DEF RunStates
  <2> QED BY <2>1, LateMoved
<1> QED BY <1>2, <1>3 DEF BeginCommit

LEMMA SetupKeepsEnd ==
  ASSUME RouterTypeOK, EndInv, NEW r \in Runs,
         \/ Prompt(r) \/ SpawnChild(r) \/ Resolve(r) \/ Open(r) \/ Create(r)
         \/ Admit(r) \/ Connect(r)
  PROVE  EndInv'
<1> USE DEF Early, BeforeRun
<1>0. pc[r] \in Early /\ Untouched(r)
  BY DEF EndInv, EndSound, Prompt, SpawnChild, BeginPrompt, Resolve, Open, Create,
     Admit, Connect
<1>1. CASE Prompt(r) \/ SpawnChild(r)
  BY <1>1, <1>0, OnlyPcMoved DEF Prompt, SpawnChild, BeginPrompt, storeVars
<1>2. CASE Resolve(r)
  <2>1. PICK next : pc' = [pc EXCEPT ![r] = next]
    BY <1>2 DEF Resolve
  <2> QED BY <1>2, <1>0, <2>1, OnlyPcMoved DEF Resolve, storeVars
<1>3. CASE Open(r) \/ Create(r)
  <2>1. PICK next : pc' = [pc EXCEPT ![r] = next]
    BY <1>3 DEF Open, Create, ToAdmission, Continue
  <2> QED BY <1>3, <1>0, <2>1, OnlyPcMoved DEF Open, Create, CreateConversation, storeVars
<1>4. CASE Admit(r)
  <2>1. EndDomains'
    BY <1>4 DEF Admit, AdmitRun, Continue, EndInv, EndDomains
  <2>2. ASSUME NEW q \in Runs PROVE Quiet(q)
    <3>1. pc[q] \in Early => Untouched(q)
      BY DEF EndInv, EndSound
    <3>2. pc'[q] \in Early => pc[q] \in Early
      BY <1>0, <1>4 DEF Admit, Continue, EndInv
    <3>3. status'[q] = status[q] \/ pc[q] \in Early
      BY <1>0, <1>4 DEF Admit, AdmitRun, EndInv
    <3> QED BY <1>4, <3>1, <3>2, <3>3 DEF Quiet, Untouched, Admit
  <2> QED BY <2>1, <2>2, QuietKeeps
<1>5. CASE Connect(r)
  <2>1. EndDomains'
    BY <1>5 DEF Connect, storeVars, EndInv, EndDomains
  <2>2. state[r] \in RunStates /\ DOMAIN state = Runs
    BY DEF RouterTypeOK, RunStateOK
  <2>3. state'[r].commit = "none" /\ \A q \in Runs \ {r} : state'[q] = state[q]
    BY <1>0, <1>5, <2>2 DEF Connect, Untouched, RunStates
  <2>4. pc'[r] = "compiling" /\ \A q \in Runs \ {r} : pc'[q] = pc[q]
    BY <1>5 DEF Connect, EndInv
  <2> QED BY <1>5, <2>1, <2>3, <2>4, LateMoved DEF Connect, storeVars
<1> QED BY <1>1, <1>2, <1>3, <1>4, <1>5

LEMMA RunKeepsEnd ==
  ASSUME RouterTypeOK, EndInv, NEW r \in Runs,
         \/ Compile(r) \/ Start(r) \/ Prepare(r) \/ Dispatch(r) \/ KernelAnswer(r)
         \/ Checkpoint(r) \/ Attach(r) \/ PromptTimeout(r) \/ PromptRefused(r)
         \/ PromptLost(r) \/ SweepPhantom(r)
  PROVE  EndInv'
<1> USE DEF Early, BeforeRun
<1>1. CASE Compile(r) \/ Prepare(r) \/ Attach(r) \/ Dispatch(r) \/ PromptTimeout(r)
  <2>1. PICK next : next \notin Early /\ pc' = [pc EXCEPT ![r] = next]
    BY <1>1 DEF Compile, Prepare, Attach, Dispatch, PromptTimeout, Continue
  <2> QED BY <1>1, <2>1, OnlyPcMoved DEF Compile, Prepare, Attach, Dispatch,
          PromptTimeout, storeVars
<1>2. CASE Start(r)
  <2>1. EndDomains'
    BY <1>2 DEF Start, MarkRunStarted, Continue, EndInv, EndDomains
  <2>2. ASSUME NEW q \in Runs PROVE Quiet(q)
    <3>1. pc[q] \in Early => Untouched(q)
      BY DEF EndInv, EndSound
    <3>2. pc'[q] \in Early => pc[q] \in Early
      BY <1>2 DEF Start, Continue, EndInv
    <3>3. status'[q] = status[q] \/ IsActive(q)
      BY <1>2 DEF Start, MarkRunStarted, EndInv, IsActive, Active
    <3>4. ui'[q].terminal = ui[q].terminal
      BY <1>2 DEF Start, EndInv
    <3> QED BY <1>2, <3>1, <3>2, <3>3, <3>4 DEF Quiet, Untouched, Start
  <2> QED BY <2>1, <2>2, QuietKeeps
<1>3. CASE KernelAnswer(r)
  <2>1. CASE pc[r] # "prompting"
    BY <1>3, <2>1, EndStill DEF KernelAnswer, storeVars
  <2>2. CASE pc[r] = "prompting"
    <3>1. PICK next : next \notin Early /\ pc' = [pc EXCEPT ![r] = next]
      BY <1>3, <2>2 DEF KernelAnswer
    <3> QED BY <1>3, <3>1, OnlyPcMoved DEF KernelAnswer, storeVars
  <2> QED BY <2>1, <2>2
<1>4. CASE Checkpoint(r)
  <2>1. PICK next : next \notin Early /\ pc' = [pc EXCEPT ![r] = next]
    BY <1>4 DEF Checkpoint, Continue
  <2> QED BY <1>4, <2>1, OnlyPcMoved DEF Checkpoint, PutCheckpoint
<1>5. CASE PromptRefused(r)
  <2> DEFINE next == IF pc[r] \in BeforeRun THEN Rejection(r) ELSE "unwinding"
  <2>1. pc' = [pc EXCEPT ![r] = next]
    BY <1>5 DEF PromptRefused, FailPrompt
  <2>2. next \notin Early
    BY DEF Rejection
  <2> HIDE DEF next
  <2> QED BY <1>5, <2>1, <2>2, OnlyPcMoved DEF PromptRefused, storeVars
<1>6. CASE PromptLost(r)
  <2>1. pc' = [pc EXCEPT ![r] = IF @ \in BeforeRun THEN Rejection(r) ELSE "unwinding"]
        /\ UNCHANGED <<state, cpc, xpc, ui>> /\ (Applied(r) \/ UNCHANGED storeVars)
    BY <1>6 DEF PromptLost, FailPrompt, Lost
  <2>2. \A q \in Runs : pc'[q] \in Early => pc[q] \in Early
    BY <2>1 DEF Rejection, EndInv
  <2>3. DOMAIN status' = Runs
        /\ \A q \in Runs : status'[q] = status[q] \/ IsActive(q) \/ pc[q] \in Early
    <3>1. CASE UNCHANGED storeVars
      BY <3>1 DEF storeVars, EndInv
    <3>2. CASE Applied(r)
      BY <3>2 DEF Applied, CreateConversation, AdmitRun, MarkRunStarted, PutCheckpoint,
         EndInv, IsActive, Active
    <3> QED BY <2>1, <3>1, <3>2
  <2>4. EndDomains'
    BY <2>1, <2>3 DEF EndInv, EndDomains
  <2>5. ASSUME NEW q \in Runs PROVE Quiet(q)
    <3>1. pc[q] \in Early => Untouched(q)
      BY DEF EndInv, EndSound
    <3> QED BY <2>1, <2>2, <2>3, <3>1 DEF Quiet, Untouched
  <2> QED BY <2>4, <2>5, QuietKeeps
<1>7. CASE SweepPhantom(r)
  <2>1. UNCHANGED <<state, cpc, xpc, ui>> /\ pc' = [pc EXCEPT ![r] = "rejected"]
        /\ (HardDeleteConversation(RunConv[r]) \/ UNCHANGED storeVars)
    BY <1>7 DEF SweepPhantom
  <2>2. DOMAIN status' = Runs
        /\ \A q \in Runs : status'[q] \in {status[q], "absent"}
    BY <2>1 DEF HardDeleteConversation, storeVars, EndInv
  <2>3. EndDomains'
    BY <2>1, <2>2 DEF EndInv, EndDomains
  <2>4. ASSUME NEW q \in Runs PROVE Quiet(q)
    <3>1. pc[q] \in Early => Untouched(q)
      BY DEF EndInv, EndSound
    <3>2. pc'[q] \in Early => pc[q] \in Early
      BY <2>1 DEF EndInv
    <3> QED BY <2>1, <2>2, <3>1, <3>2 DEF Quiet, Untouched
  <2> QED BY <2>3, <2>4, QuietKeeps
<1> QED BY <1>1, <1>2, <1>3, <1>4, <1>5, <1>6, <1>7

LEMMA PromptCommitKeepsEnd ==
  ASSUME RouterTypeOK, EndInv, NEW r \in Runs, CheckParent(r) \/ Drain(r) \/ Unwind(r)
  PROVE  EndInv'
<1> USE DEF Early, BeforeRun
<1>1. PICK next : pc' = [pc EXCEPT ![r] = next] /\ next \notin Early
  BY DEF CheckParent, Drain, Unwind, Wait
<1>2. pc[r] \notin Early /\ UNCHANGED <<status, ui, cpc, xpc>>
  BY DEF CheckParent, Drain, Unwind, storeVars
<1>3. UNCHANGED state \/ \E o : BeginCommit(r, o)
  BY DEF CheckParent, Drain, Unwind
<1>4. pc'[r] \notin Early /\ \A q \in Runs \ {r} : pc'[q] = pc[q]
  BY <1>1 DEF EndInv
<1>5. EndDomains'
  BY <1>1, <1>2 DEF EndInv, EndDomains
<1>6. CASE UNCHANGED state
  BY <1>1, <1>2, <1>6, OnlyPcMoved
<1>7. ASSUME NEW o, BeginCommit(r, o) PROVE EndInv'
  BY <1>2, <1>4, <1>5, <1>7, BeginKeeps
<1> QED BY <1>3, <1>6, <1>7

LEMMA TailKeepsEnd ==
  ASSUME RouterTypeOK, EndInv, NEW r \in Runs, KernelEmit(r) \/ TailStep(r)
  PROVE  EndInv'
<1>1. UNCHANGED <<status, pc, cpc, xpc, ui>>
  <2>1. AppendBatch(r) => UNCHANGED status
    BY DEF AppendBatch, AppendEvents
  <2> QED BY <2>1 DEF KernelEmit, TailStep, Flush, Appended, AppendRefused, AppendLost,
          Lost, storeVars, promptVars
<1>2. DOMAIN state = Runs /\ \A q \in Runs : state[q] \in RunStates
  BY DEF RouterTypeOK, RunStateOK
<1>3. \A q \in Runs : /\ state'[q].live = state[q].live
                      /\ state'[q].commit = state[q].commit
                      /\ state'[q].outcome = state[q].outcome
  <2>1. CASE KernelEmit(r)
    BY <1>2, <2>1 DEF KernelEmit, RunStates
  <2>2. CASE Flush(r)
    <3>1. \/ state' = [state EXCEPT ![r].flush = "appending", ![r].pend = {},
                                    ![r].batch = state[r].pend]
          \/ state' = [state EXCEPT ![r].flush = "poisoned", ![r].pend = {}]
      BY <2>2 DEF Flush
    <3> QED BY <1>2, <3>1 DEF RunStates
  <2>4. CASE Appended(r)
    <3>1. PICK n, f : state' = [state EXCEPT ![r].seen = n, ![r].batch = {}, ![r].flush = f]
      BY <2>4 DEF Appended
    <3> QED BY <1>2, <3>1 DEF RunStates
  <2>3. CASE AppendRefused(r) \/ AppendLost(r)
    BY <1>2, <2>3 DEF AppendRefused, AppendLost, Poison, RunStates
  <2> QED BY <2>1, <2>2, <2>3, <2>4 DEF TailStep
<1>4. EndDomains'
  BY <1>1 DEF EndInv, EndDomains
<1>5. ASSUME NEW q \in Runs PROVE Quiet(q)
  <2>1. pc[q] \in Early => Untouched(q)
    BY DEF EndInv, EndSound, Early
  <2> QED BY <1>1, <1>3, <2>1 DEF Quiet, Untouched
<1> QED BY <1>4, <1>5, QuietKeeps

\* Settle moves the prompt of r and those who wait for its commit.
LEMMA Settled ==
  ASSUME EndInv, NEW r \in Runs, NEW a, NEW b, NEW c, Settle(r, a, b, c),
         pc[r] \notin Early, a \notin Early
  PROVE  /\ DOMAIN pc' = Runs /\ DOMAIN xpc' = Runs /\ DOMAIN cpc' = Runs \X Callers
         /\ pc'[r] \notin Early
         /\ \A q \in Runs \ {r} :
              /\ pc'[q] = pc[q] /\ xpc'[q] = xpc[q]
              /\ \A w \in Callers : cpc'[<<q, w>>] = cpc[<<q, w>>]
<1> USE DEF Early, BeforeRun
<1>1. DOMAIN pc' = Runs /\ DOMAIN xpc' = Runs /\ DOMAIN cpc' = Runs \X Callers
  BY DEF Settle, EndInv
<1>2. pc'[r] \notin Early /\ \A q \in Runs \ {r} : pc'[q] = pc[q]
  BY DEF Settle, EndInv
<1>3. \A q \in Runs \ {r} : xpc'[q] = xpc[q]
  BY DEF Settle, EndInv
<1>4. ASSUME NEW q \in Runs \ {r}, NEW w \in Callers
      PROVE  cpc'[<<q, w>>] = cpc[<<q, w>>]
  BY <1>4 DEF Settle
<1> QED BY <1>1, <1>2, <1>3, <1>4

LEMMA CommitKeepsEnd ==
  ASSUME RouterTypeOK, EndInv, NEW r \in Runs, CommitStep(r)
  PROVE  EndInv'
<1>1. DOMAIN state = Runs /\ state[r] \in RunStates /\ state[r].outcome \in Terminal
  BY DEF RouterTypeOK, RunStateOK, RunStates
<1>2. state[r].commit # "none" /\ pc[r] \notin Early
  BY DEF CommitStep, Commit, Disconnect, CommitRefused, CommitLost, EndInv, EndSound,
     Untouched, Early
<1>3. EndSound(r) /\ (IsActive(r) => ui[r].terminal = "none")
  BY ActiveNotEnded DEF EndInv
<1>4. ASSUME NEW q \in Runs \ {r},
             status'[q] = status[q], state'[q] = state[q], ui'[q] = ui[q],
             pc'[q] = pc[q], xpc'[q] = xpc[q],
             \A w \in Callers : cpc'[<<q, w>>] = cpc[<<q, w>>]
      PROVE  EndSound(q)'
  BY <1>4 DEF EndInv, EndSound, Untouched
<1>5. CASE Commit(r)
  <2>1. status' = [status EXCEPT ![r] = state[r].outcome] /\ IsActive(r)
        /\ UNCHANGED <<pc, cpc, xpc, ui>>
    BY <1>5 DEF Commit, CommitTerminalRun, promptVars
  <2>2. state'[r].commit = "disconnecting" /\ state'[r].outcome = state[r].outcome
        /\ \A q \in Runs \ {r} : state'[q] = state[q]
    BY <1>1, <1>5 DEF Commit, RunStates
  <2>3. EndSound(r)'
    BY <1>2, <1>3, <2>1, <2>2 DEF EndInv, EndSound, Early
  <2>4. \A q \in Runs \ {r} : EndSound(q)'
    BY <1>4, <2>1, <2>2 DEF EndInv
  <2>5. EndDomains'
    BY <2>1 DEF EndInv, EndDomains
  <2> QED BY <2>3, <2>4, <2>5 DEF EndInv, EndDomains
<1>6. CASE Disconnect(r)
  <2>1. state[r].commit = "disconnecting" /\ UNCHANGED status
        /\ ui' = [ui EXCEPT ![r].terminal = state[r].outcome]
        /\ Settle(r, "returned", "settled", "settled")
    BY <1>6 DEF Disconnect, storeVars
  <2>2. state'[r].commit = "none" /\ \A q \in Runs \ {r} : state'[q] = state[q]
    BY <1>1, <1>6 DEF Disconnect, RunStates
  <2>3. "returned" \notin Early
    BY DEF Early, BeforeRun
  <2>4. /\ DOMAIN pc' = Runs /\ DOMAIN xpc' = Runs /\ DOMAIN cpc' = Runs \X Callers
        /\ pc'[r] \notin Early
        /\ \A q \in Runs \ {r} :
             /\ pc'[q] = pc[q] /\ xpc'[q] = xpc[q]
             /\ \A w \in Callers : cpc'[<<q, w>>] = cpc[<<q, w>>]
    BY <1>2, <2>1, <2>3, Settled
  <2>5. status[r] \in {state[r].outcome, "absent"}
    BY <2>1 DEF EndInv, EndSound
  <2>6. ui'[r].terminal = state[r].outcome /\ \A q \in Runs \ {r} : ui'[q] = ui[q]
    BY <2>1 DEF EndInv
  <2>7. EndSound(r)'
    BY <1>1, <2>1, <2>2, <2>4, <2>5, <2>6 DEF EndSound, Early
  <2>8. \A q \in Runs \ {r} : EndSound(q)'
    BY <1>4, <2>1, <2>2, <2>4, <2>6
  <2>9. EndDomains'
    BY <2>1, <2>4, <2>6 DEF EndInv, EndDomains
  <2> QED BY <2>7, <2>8, <2>9 DEF EndInv, EndDomains
<1>7. CASE CommitRefused(r) \/ CommitLost(r)
  <2>1. Settle(r, "unwinding", "rejected", "settled") /\ UNCHANGED ui
        /\ (CommitTerminalRun(r, gen[r], state[r].outcome) \/ UNCHANGED storeVars)
    BY <1>7 DEF CommitRefused, CommitLost, CommitFails, Lost
  <2>2. state'[r].commit = "none" /\ \A q \in Runs \ {r} : state'[q] = state[q]
    BY <1>1, <1>7 DEF CommitRefused, CommitLost, CommitFails, RunStates
  <2>3. "unwinding" \notin Early
    BY DEF Early, BeforeRun
  <2>4. /\ DOMAIN pc' = Runs /\ DOMAIN xpc' = Runs /\ DOMAIN cpc' = Runs \X Callers
        /\ pc'[r] \notin Early
        /\ \A q \in Runs \ {r} :
             /\ pc'[q] = pc[q] /\ xpc'[q] = xpc[q]
             /\ \A w \in Callers : cpc'[<<q, w>>] = cpc[<<q, w>>]
    BY <1>2, <2>1, <2>3, Settled
  <2>5. /\ DOMAIN status' = Runs /\ \A q \in Runs \ {r} : status'[q] = status[q]
        /\ status'[r] = status[r] \/ IsActive(r)
    BY <2>1 DEF CommitTerminalRun, storeVars, EndInv
  <2>6. EndDomains'
    BY <2>1, <2>4, <2>5 DEF EndInv, EndDomains
  <2> QED BY <2>1, <2>2, <2>4, <2>5, <2>6, LateMoved
<1> QED BY <1>5, <1>6, <1>7 DEF CommitStep

LEMMA CancelKeepsEnd ==
  ASSUME RouterTypeOK, EndInv,
         \/ \E r \in Runs : Cancel(r)
         \/ \E k \in Runs \X Callers : CancelStep(k)
  PROVE  EndInv'
<1>1. DOMAIN state = Runs /\ \A q \in Runs : state[q] \in RunStates
  BY DEF RouterTypeOK, RunStateOK
<1>2. ASSUME NEW r \in Runs, Cancel(r) PROVE EndInv'
  <2>1. UNCHANGED <<status, pc, xpc, ui>> /\ DOMAIN cpc' = Runs \X Callers
    BY <1>2 DEF Cancel, storeVars, promptVars
  <2>2. EndDomains'
    BY <2>1 DEF EndInv, EndDomains
  <2>3. ASSUME NEW q \in Runs PROVE Quiet(q)
    <3>1. pc[q] \in Early => Untouched(q)
      BY DEF EndInv, EndSound, Early
    <3>2. /\ state'[q].live = state[q].live /\ state'[q].commit = state[q].commit
          /\ state'[q].outcome = state[q].outcome
      BY <1>1, <1>2 DEF Cancel, RunStates
    <3>3. CASE state[q].live
      BY <2>1, <3>1, <3>2, <3>3 DEF Quiet, Untouched
    <3>4. CASE ~state[q].live
      <4>1. q # r /\ q \notin Reached(r) \ {r}
        BY <1>2, <3>4 DEF Cancel, InRuns, Reached
      <4>2. ASSUME NEW w \in Callers PROVE cpc'[<<q, w>>] = cpc[<<q, w>>]
        BY <1>2, <4>1 DEF Cancel
      <4> QED BY <2>1, <3>1, <3>2, <4>2 DEF Quiet, Untouched
    <3> QED BY <3>3, <3>4
  <2> QED BY <2>2, <2>3, QuietKeeps
<1>3. ASSUME NEW k \in Runs \X Callers, CancelStep(k) PROVE EndInv'
  <2> DEFINE r == k[1]
  <2>1. r \in Runs /\ k[2] \in Callers /\ k = <<r, k[2]>>
    OBVIOUS
  <2>2. pc[r] \notin Early
    <3>1. cpc[<<r, k[2]>>] # "idle"
      BY <1>3, <2>1 DEF CancelStep, CancelRequest, CancelAnswer, CancelDrain
    <3> QED BY <2>1, <3>1 DEF EndInv, EndSound, Untouched, Early
  <2>3. UNCHANGED <<status, pc, xpc, ui>> /\ DOMAIN cpc' = Runs \X Callers
    BY <1>3 DEF CancelStep, CancelRequest, CancelAnswer, CancelDrain, storeVars,
       promptVars, EndInv
  <2>4. ASSUME NEW q \in Runs \ {r}, NEW w \in Callers
        PROVE  cpc'[<<q, w>>] = cpc[<<q, w>>]
    <3>1. <<q, w>> # k /\ <<q, w>> \in Runs \X Callers
      BY <2>1, <2>4
    <3> QED BY <1>3, <3>1 DEF CancelStep, CancelRequest, CancelAnswer, CancelDrain, EndInv
  <2>5. EndDomains'
    BY <2>3 DEF EndInv, EndDomains
  <2> HIDE DEF r
  <2>6. CASE UNCHANGED state
    <3>1. ASSUME NEW q \in Runs PROVE Quiet(q)
      <4>1. pc[q] \in Early => Untouched(q)
        BY DEF EndInv, EndSound, Early
      <4>2. CASE q = r
        BY <2>2, <2>3, <2>6, <4>2 DEF Quiet
      <4>3. CASE q # r
        BY <2>3, <2>4, <2>6, <4>1, <4>3 DEF Quiet, Untouched
      <4> QED BY <4>2, <4>3
    <3> QED BY <2>5, <3>1, QuietKeeps
  <2>7. ASSUME NEW o, BeginCommit(r, o) PROVE EndInv'
    BY <2>1, <2>2, <2>3, <2>4, <2>5, <2>7, BeginKeeps
  <2>8. UNCHANGED state \/ \E o : BeginCommit(r, o)
    BY <1>3 DEF CancelStep, CancelRequest, CancelAnswer, CancelDrain, r
  <2> QED BY <2>6, <2>7, <2>8
<1> QED BY <1>2, <1>3

LEMMA CloseKeepsEnd ==
  ASSUME RouterTypeOK, EndInv,
         (\E r \in Runs : CloseDrain(r)) \/ Close \/ CloseRuns \/ CloseDone
  PROVE  EndInv'
<1>1. DOMAIN state = Runs /\ \A q \in Runs : state[q] \in RunStates
  BY DEF RouterTypeOK, RunStateOK
<1>2. \A q \in Runs : pc[q] \in Early => Untouched(q)
  BY DEF EndInv, EndSound, Early
<1>3. ASSUME NEW r \in Runs, CloseDrain(r) PROVE EndInv'
  <2>1. UNCHANGED <<status, pc, cpc, ui>> /\ pc[r] \notin Early
    BY <1>2, <1>3 DEF CloseDrain, Untouched, storeVars, promptVars
  <2>2. DOMAIN xpc' = Runs /\ \A q \in Runs \ {r} : xpc'[q] = xpc[q]
    BY <1>3 DEF CloseDrain, EndInv
  <2>3. EndDomains'
    BY <2>1, <2>2 DEF EndInv, EndDomains
  <2>4. PICK o : BeginCommit(r, o)
    BY <1>3 DEF CloseDrain
  <2> QED BY <2>1, <2>2, <2>3, <2>4, BeginKeeps
<1>4. CASE Close
  BY <1>4, EndStill DEF Close, storeVars, promptVars
<1>5. CASE CloseRuns
  <2>1. EndDomains'
    BY <1>5 DEF CloseRuns, EndInv, EndDomains, storeVars, promptVars
  <2>2. ASSUME NEW q \in Runs PROVE Quiet(q)
    <3>1. pc[q] \in Early => xpc'[q] = "skipped"
      BY <1>2, <1>5 DEF CloseRuns, InRuns, Untouched
    <3> QED BY <1>2, <1>5, <3>1 DEF CloseRuns, Quiet, Untouched, storeVars, promptVars
  <2> QED BY <2>1, <2>2, QuietKeeps
<1>6. CASE CloseDone
  <2>1. EndDomains'
    BY <1>6 DEF CloseDone, EndInv, EndDomains, storeVars, promptVars
  <2>2. ASSUME NEW q \in Runs PROVE Quiet(q)
    <3>1. /\ ~state'[q].live /\ state'[q].commit = state[q].commit
          /\ state'[q].outcome = state[q].outcome
      BY <1>1, <1>6 DEF CloseDone, RunStates
    <3> QED BY <1>2, <1>6, <3>1 DEF CloseDone, Quiet, Untouched, storeVars, promptVars
  <2> QED BY <2>1, <2>2, QuietKeeps
<1> QED BY <1>3, <1>4, <1>5, <1>6

LEMMA EnvironmentKeepsEnd ==
  ASSUME RouterTypeOK, EndInv,
         KernelStop \/ KernelExit \/ KernelStart \/ DataCrash \/ Edit
  PROVE  EndInv'
<1>1. \A q \in Runs : pc[q] \in Early => Untouched(q)
  BY DEF EndInv, EndSound, Early
<1>2. CASE KernelStop \/ KernelStart
  BY <1>2, EndStill DEF KernelStop, KernelStart, storeVars, mainVars, promptVars
<1>3. CASE KernelExit
  <2>1. EndDomains'
    BY <1>3 DEF KernelExit, EndInv, EndDomains, storeVars
  <2>2. ASSUME NEW q \in Runs PROVE Quiet(q)
    <3>1. pc'[q] \in Early => pc[q] \in Early
      BY <1>3 DEF KernelExit, Early, BeforeRun
    <3>2. pc[q] \in Early => \A w \in Callers : cpc'[<<q, w>>] = "idle"
      BY <1>1, <1>3 DEF KernelExit, Untouched
    <3> QED BY <1>1, <1>3, <3>1, <3>2 DEF KernelExit, Quiet, Untouched, storeVars
  <2> QED BY <2>1, <2>2, QuietKeeps
<1>4. CASE DataCrash \/ Edit
  <2>1. UNCHANGED <<state, pc, cpc, xpc, ui>>
        /\ (RecoverInterruptedRuns \/ \E c \in Conversations : HardDeleteConversation(c))
    BY <1>4 DEF DataCrash, Edit, mainVars, promptVars
  <2>2. DOMAIN status' = Runs
        /\ \A q \in Runs : status'[q] \in {status[q], "absent"} \/ IsActive(q)
    <3>1. CASE RecoverInterruptedRuns
      BY <3>1 DEF RecoverInterruptedRuns
    <3>2. ASSUME NEW c \in Conversations, HardDeleteConversation(c)
          PROVE  /\ DOMAIN status' = Runs
                 /\ \A q \in Runs : status'[q] \in {status[q], "absent"}
      BY <3>2 DEF HardDeleteConversation
    <3> QED BY <2>1, <3>1, <3>2
  <2>3. EndDomains'
    BY <2>1, <2>2 DEF EndInv, EndDomains
  <2>4. ASSUME NEW q \in Runs PROVE Quiet(q)
    BY <1>1, <2>1, <2>2 DEF Quiet, Untouched
  <2> QED BY <2>3, <2>4, QuietKeeps
<1> QED BY <1>2, <1>3, <1>4

LEMMA EndInit == RouterInit => EndInv
BY DEF RouterInit, StoreInit, EndInv, EndSound, Untouched, FreshState, BeforeRun, Callers

LEMMA EndStep == RouterTypeOK /\ EndInv /\ [RouterNext]_vars => EndInv'
<1> SUFFICES ASSUME RouterTypeOK, EndInv, [RouterNext]_vars PROVE EndInv'
  OBVIOUS
<1>1. CASE UNCHANGED vars
  BY <1>1, EndStill DEF vars, storeVars, mainVars, promptVars
<1>2. ASSUME NEW r \in Runs,
             \/ Prompt(r) \/ SpawnChild(r) \/ PromptStep(r) \/ PromptTimeout(r)
             \/ KernelEmit(r) \/ TailStep(r) \/ CommitStep(r)
      PROVE  EndInv'
  <2>1. CASE \/ Prompt(r) \/ SpawnChild(r) \/ Resolve(r) \/ Open(r) \/ Create(r)
             \/ Admit(r) \/ Connect(r)
    BY <2>1, SetupKeepsEnd
  <2>2. CASE \/ Compile(r) \/ Start(r) \/ Prepare(r) \/ Dispatch(r) \/ KernelAnswer(r)
             \/ Checkpoint(r) \/ Attach(r) \/ PromptTimeout(r) \/ PromptRefused(r)
             \/ PromptLost(r) \/ SweepPhantom(r)
    BY <2>2, RunKeepsEnd
  <2>3. CASE CheckParent(r) \/ Drain(r) \/ Unwind(r)
    BY <2>3, PromptCommitKeepsEnd
  <2>4. CASE KernelEmit(r) \/ TailStep(r) \/ CommitStep(r)
    BY <2>4, TailKeepsEnd, CommitKeepsEnd
  <2> QED BY <1>2, <2>1, <2>2, <2>3, <2>4 DEF PromptStep
<1> QED BY <1>1, <1>2, CancelKeepsEnd, CloseKeepsEnd, EnvironmentKeepsEnd DEF RouterNext

\* What the Renderer was told of the end of a run is what the tables hold, for
\* every number of prompts, children, crashes, lost replies and restarts.
THEOREM RouterTerminalIsDurable == RouterSpec => []TerminalIsDurable
<1>1. EndInv => TerminalIsDurable
  BY DEF EndInv, EndSound, TerminalIsDurable
<1> QED BY <1>1, EndInit, EndStep, RouterTypeCorrect, PTL DEF RouterSpec
=============================================================================
