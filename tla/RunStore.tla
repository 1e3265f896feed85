------------------------------ MODULE RunStore ------------------------------
(***************************************************************************)
(* The durable conversation tables of ClawXDataStore: conversations, turns, *)
(* runs, run_lineage, run_events and runtime_checkpoints.  Every action is  *)
(* one committed `write` transaction of the store; a transaction that       *)
(* throws rolls back and is a stuttering step.  The single-connection       *)
(* SQLite owner and the operation queue of ClawXDataService serialize the   *)
(* transactions, so they interleave but never overlap.                      *)
(*                                                                          *)
(* The callers are left open: any client may present any run, scope, batch  *)
(* or outcome at any time.  What the tables promise must hold regardless.   *)
(***************************************************************************)
EXTENDS Integers, Sequences, FiniteSets

CONSTANTS
  Conversations,      \* conversation ids
  Runs,               \* run ids
  NoConversation, NoRun, NoId,
  Scopes,             \* authenticated (kernel, generation) scopes
  Batches,            \* event batches a client may append
  MaxLineageDepth     \* 3 in the source

Terminal == {"completed", "failed", "cancelled", "interrupted"}
Active   == {"admitted", "running"}

EventKinds == {"delta", "tool.start", "tool.result", "permission.request",
               "permission.resolved", "run.terminal"}
EventSpace(S, I) ==
  [seq : S, kind : EventKinds, call : I \cup {NoId}, native : I \cup {NoId}]

ASSUME SentinelAssumption ==
  NoConversation \notin Conversations /\ NoRun \notin Runs
ASSUME DepthAssumption == MaxLineageDepth \in Nat \ {0}
ASSUME BatchAssumption ==
  \A b \in Batches :
    /\ DOMAIN b = 1 .. Len(b)
    /\ Len(b) \in Nat \ {0}
    /\ \A i \in DOMAIN b : b[i].seq \in Nat \ {0} /\ b[i].kind \in EventKinds

VARIABLES
  conv,        \* conversation row: absent, live, or soft-deleted
  branchOf,    \* parent_conversation_id of an explicit history branch
  turns,       \* turns of a conversation in position order
  status,      \* runs.status, "absent" when there is no row
  convOf,      \* runs.conversation_id
  scopeOf,     \* runs.kernel_id and runs.generation
  parent,      \* run_lineage.parent_run_id
  depth,       \* run_lineage.depth, 0 without a lineage row
  lastSeq,     \* runs.last_event_seq
  log,         \* run_events rows
  recovered,   \* runs.outcome_error of the restart sweep
  checkpoint   \* a runtime_checkpoints row exists

identity  == <<convOf, scopeOf, parent, depth>>
storeVars == <<conv, branchOf, turns, status, identity, lastSeq, log,
               recovered, checkpoint>>

Row(r)       == status[r] # "absent"
IsActive(r)  == status[r] \in Active
UserTurn(r)  == [run |-> r, role |-> "user"]
Answer(r)    == [run |-> r, role |-> "assistant"]
TurnSpace    == [run : Runs, role : {"user", "assistant"}]

StoreInit ==
  /\ conv = [c \in Conversations |-> "absent"]
  /\ branchOf = [c \in Conversations |-> NoConversation]
  /\ turns = [c \in Conversations |-> <<>>]
  /\ status = [r \in Runs |-> "absent"]
  /\ convOf = [r \in Runs |-> NoConversation]
  /\ scopeOf = [r \in Runs |-> NoId]
  /\ parent = [r \in Runs |-> NoRun]
  /\ depth = [r \in Runs |-> 0]
  /\ lastSeq = [r \in Runs |-> 0]
  /\ log = [r \in Runs |-> {}]
  /\ recovered = [r \in Runs |-> FALSE]
  /\ checkpoint = [r \in Runs |-> FALSE]
-----------------------------------------------------------------------------
(* Conversations *)

CreateConversation(c) ==
  /\ conv[c] = "absent"
  /\ conv' = [conv EXCEPT ![c] = "live"]
  /\ UNCHANGED <<branchOf, turns, status, identity, lastSeq, log, recovered,
                 checkpoint>>

\* exportConversation and contextRowsForConversation walk the branch parents
\* and throw when one of them is soft-deleted.
Readable(c) ==
  \E chain \in SUBSET {x \in Conversations : conv[x] = "live"} :
    /\ c \in chain
    /\ \A x \in chain : branchOf[x] \in chain \cup {NoConversation}

\* The source turn must be an assistant turn of the exported history, which
\* a branch always inherits one of.
HasAnswer(c) ==
  \/ branchOf[c] # NoConversation
  \/ \E i \in DOMAIN turns[c] : turns[c][i].role = "assistant"

BranchConversation(b, c) ==
  /\ b # c
  /\ Readable(c)
  /\ HasAnswer(c)
  /\ conv[b] = "absent"
  /\ conv' = [conv EXCEPT ![b] = "live"]
  /\ branchOf' = [branchOf EXCEPT ![b] = c]
  /\ UNCHANGED <<turns, status, identity, lastSeq, log, recovered, checkpoint>>

SoftDeleteConversation(c) ==
  /\ conv[c] = "live"
  /\ conv' = [conv EXCEPT ![c] = "deleted"]
  /\ UNCHANGED <<branchOf, turns, status, identity, lastSeq, log, recovered,
                 checkpoint>>

\* Fault: branches do not keep their source.
Unbranched_Skipped(c) == TRUE

Unbranched(c) == \A x \in Conversations : branchOf[x] # c

\* ON DELETE CASCADE takes the turns, runs, events, lineage and checkpoints;
\* run_lineage.parent_run_id of children elsewhere becomes NULL.
HardDeleteConversation(c) ==
  LET Gone(r) == convOf[r] = c IN
  /\ conv[c] # "absent"
  /\ Unbranched(c)
  /\ conv' = [conv EXCEPT ![c] = "absent"]
  /\ branchOf' = [branchOf EXCEPT ![c] = NoConversation]
  /\ turns' = [turns EXCEPT ![c] = <<>>]
  /\ status' = [r \in Runs |-> IF Gone(r) THEN "absent" ELSE status[r]]
  /\ convOf' = [r \in Runs |-> IF Gone(r) THEN NoConversation ELSE convOf[r]]
  /\ scopeOf' = [r \in Runs |-> IF Gone(r) THEN NoId ELSE scopeOf[r]]
  /\ parent' = [r \in Runs |->
       IF parent[r] = NoRun THEN NoRun
       ELSE IF Gone(r) \/ Gone(parent[r]) THEN NoRun ELSE parent[r]]
  /\ depth' = [r \in Runs |-> IF Gone(r) THEN 0 ELSE depth[r]]
  /\ lastSeq' = [r \in Runs |-> IF Gone(r) THEN 0 ELSE lastSeq[r]]
  /\ log' = [r \in Runs |-> IF Gone(r) THEN {} ELSE log[r]]
  /\ recovered' = [r \in Runs |-> IF Gone(r) THEN FALSE ELSE recovered[r]]
  /\ checkpoint' = [r \in Runs |-> IF Gone(r) THEN FALSE ELSE checkpoint[r]]
-----------------------------------------------------------------------------
(* Runs *)

\* Fault: no unique index over the active runs of a conversation.
LeaseFree_NoIndex(c) == TRUE

\* The partial unique index over runs(conversation_id) is the lease.
LeaseFree(c) == \A q \in Runs : ~(IsActive(q) /\ convOf[q] = c)

\* Fault: the nesting limit is tested with > instead of >=.
ChildAdmissible_DepthOffByOne(c, p) ==
  /\ IsActive(p)
  /\ conv[convOf[p]] = "live"
  /\ convOf[p] # c
  /\ depth[p] <= MaxLineageDepth
  /\ turns[c] = <<>>

ChildAdmissible(c, p) ==
  /\ IsActive(p)
  /\ conv[convOf[p]] = "live"
  /\ convOf[p] # c
  /\ depth[p] < MaxLineageDepth
  /\ turns[c] = <<>>

Admissible(r, c, p) ==
  /\ conv[c] = "live"
  /\ status[r] = "absent"
  /\ LeaseFree(c)
  /\ p # NoRun => ChildAdmissible(c, p)

\* Fault: the child is recorded at the depth of its parent.
AdmitRun_FlatDepth(r, c, s, p) ==
  /\ Admissible(r, c, p)
  /\ turns' = [turns EXCEPT ![c] = Append(@, UserTurn(r))]
  /\ status' = [status EXCEPT ![r] = "admitted"]
  /\ convOf' = [convOf EXCEPT ![r] = c]
  /\ scopeOf' = [scopeOf EXCEPT ![r] = s]
  /\ parent' = [parent EXCEPT ![r] = p]
  /\ depth' = [depth EXCEPT ![r] = IF p = NoRun THEN 0 ELSE depth[p]]
  /\ UNCHANGED <<conv, branchOf, lastSeq, log, recovered, checkpoint>>

AdmitRun(r, c, s, p) ==
  /\ Admissible(r, c, p)
  /\ turns' = [turns EXCEPT ![c] = Append(@, UserTurn(r))]
  /\ status' = [status EXCEPT ![r] = "admitted"]
  /\ convOf' = [convOf EXCEPT ![r] = c]
  /\ scopeOf' = [scopeOf EXCEPT ![r] = s]
  /\ parent' = [parent EXCEPT ![r] = p]
  /\ depth' = [depth EXCEPT ![r] = IF p = NoRun THEN 0 ELSE depth[p] + 1]
  /\ UNCHANGED <<conv, branchOf, lastSeq, log, recovered, checkpoint>>

\* Fault: an update that matches no admitted row is not an error.
MarkRunStarted_Unchecked(r, s) ==
  /\ status' = [status EXCEPT ![r] = IF @ = "admitted" THEN "running" ELSE @]
  /\ UNCHANGED <<conv, branchOf, turns, identity, lastSeq, log, recovered,
                 checkpoint>>

MarkRunStarted(r, s) ==
  /\ status[r] = "admitted"
  /\ scopeOf[r] = s
  /\ status' = [status EXCEPT ![r] = "running"]
  /\ UNCHANGED <<conv, branchOf, turns, identity, lastSeq, log, recovered,
                 checkpoint>>

\* The rows visible when the i-th envelope of the batch is processed.
RowsBefore(r, b, i) == log[r] \cup {b[j] : j \in 1 .. i - 1}

\* Fault: the sequence gap check is missing.
InSequence_NoGapCheck(r, b, i) ==
  \A e \in RowsBefore(r, b, i) : e.seq = b[i].seq => e = b[i]

\* A replay of a stored sequence number must be identical; a new number must
\* follow lastSeq as the envelopes before it have advanced it.  (A number that
\* repeats inside the batch meets the second condition as its first use did.)
InSequence(r, b, i) ==
  /\ \A e \in RowsBefore(r, b, i) : e.seq = b[i].seq => e = b[i]
  /\ \/ \E e \in log[r] : e.seq = b[i].seq
     \/ /\ b[i].seq > lastSeq[r]
        /\ \A k \in lastSeq[r] + 1 .. b[i].seq - 1 :
             \E j \in 1 .. i - 1 : b[j].seq = k

\* run_native_event_identity: a native event id names one row of the run.
NativeUnique(r, b, i) ==
  b[i].native # NoId =>
    \A e \in RowsBefore(r, b, i) : e.native = b[i].native => e.seq = b[i].seq

\* projectImmediateEvent: a result or a resolution needs the row it updates.
Projectable(r, b, i) ==
  LET opened(k) == \E e \in RowsBefore(r, b, i) :
                     e.kind = k /\ e.call = b[i].call
  IN /\ b[i].kind \in {"tool.start", "tool.result", "permission.request",
                       "permission.resolved"} => b[i].call # NoId
     /\ b[i].kind = "tool.result" => opened("tool.start")
     /\ b[i].kind = "permission.resolved" => opened("permission.request")

Appendable(r, b) ==
  \A i \in DOMAIN b : InSequence(r, b, i) /\ NativeUnique(r, b, i)
                        /\ Projectable(r, b, i)

\* Fault: appending does not look at the status of the run.
AppendEvents_AnyStatus(r, s, b) ==
  /\ Row(r)
  /\ scopeOf[r] = s
  /\ Appendable(r, b)
  /\ \E top \in {lastSeq[r]} \cup {b[i].seq : i \in DOMAIN b} :
       /\ lastSeq[r] <= top
       /\ \A i \in DOMAIN b : b[i].seq <= top
       /\ lastSeq' = [lastSeq EXCEPT ![r] = top]
  /\ log' = [log EXCEPT ![r] = @ \cup {b[i] : i \in DOMAIN b}]
  /\ UNCHANGED <<conv, branchOf, turns, status, identity, recovered, checkpoint>>

\* All or nothing: one bad envelope rolls the whole batch back.
AppendEvents(r, s, b) ==
  /\ IsActive(r)
  /\ scopeOf[r] = s
  /\ Appendable(r, b)
  /\ \E top \in {lastSeq[r]} \cup {b[i].seq : i \in DOMAIN b} :
       /\ lastSeq[r] <= top
       /\ \A i \in DOMAIN b : b[i].seq <= top
       /\ lastSeq' = [lastSeq EXCEPT ![r] = top]
  /\ log' = [log EXCEPT ![r] = @ \cup {b[i] : i \in DOMAIN b}]
  /\ UNCHANGED <<conv, branchOf, turns, status, identity, recovered, checkpoint>>

\* Fault: a run the restart sweep has interrupted can still be committed.
CommitTerminalRun_AfterSweep(r, s, outcome) ==
  /\ IsActive(r) \/ recovered[r]
  /\ scopeOf[r] = s
  /\ turns' = [turns EXCEPT ![convOf[r]] = Append(@, Answer(r))]
  /\ status' = [status EXCEPT ![r] = outcome]
  /\ UNCHANGED <<conv, branchOf, identity, lastSeq, log, recovered, checkpoint>>

CommitTerminalRun(r, s, outcome) ==
  /\ IsActive(r)
  /\ scopeOf[r] = s
  /\ turns' = [turns EXCEPT ![convOf[r]] = Append(@, Answer(r))]
  /\ status' = [status EXCEPT ![r] = outcome]
  /\ UNCHANGED <<conv, branchOf, identity, lastSeq, log, recovered, checkpoint>>

\* putCheckpoint looks at the kernel of the run and never at its status.
PutCheckpoint(r, s) ==
  /\ Row(r)
  /\ scopeOf[r] = s
  /\ checkpoint' = [checkpoint EXCEPT ![r] = TRUE]
  /\ UNCHANGED <<conv, branchOf, turns, status, identity, lastSeq, log, recovered>>

\* Opening the database after a crash or a restart.
RecoverInterruptedRuns ==
  /\ status' = [r \in Runs |-> IF IsActive(r) THEN "interrupted" ELSE status[r]]
  /\ recovered' = [r \in Runs |-> recovered[r] \/ IsActive(r)]
  /\ UNCHANGED <<conv, branchOf, turns, identity, lastSeq, log, checkpoint>>
-----------------------------------------------------------------------------
StoreNext ==
  \/ \E c \in Conversations :
       \/ CreateConversation(c)
       \/ SoftDeleteConversation(c)
       \/ HardDeleteConversation(c)
       \/ \E b \in Conversations : BranchConversation(b, c)
       \/ \E r \in Runs, s \in Scopes, p \in Runs \cup {NoRun} :
            AdmitRun(r, c, s, p)
  \/ \E r \in Runs, s \in Scopes :
       \/ MarkRunStarted(r, s)
       \/ \E b \in Batches : AppendEvents(r, s, b)
       \/ \E outcome \in Terminal : CommitTerminalRun(r, s, outcome)
       \/ PutCheckpoint(r, s)
  \/ RecoverInterruptedRuns

StoreSpec == StoreInit /\ [][StoreNext]_storeVars
-----------------------------------------------------------------------------
(* What the tables promise *)

\* Every column stays in its domain and run_lineage.depth within the nesting
\* limit the schema states.
StoreTypeOK ==
  /\ conv \in [Conversations -> {"absent", "live", "deleted"}]
  /\ branchOf \in [Conversations -> Conversations \cup {NoConversation}]
  /\ turns \in [Conversations -> Seq(TurnSpace)]
  /\ status \in [Runs -> {"absent"} \cup Active \cup Terminal]
  /\ convOf \in [Runs -> Conversations \cup {NoConversation}]
  /\ scopeOf \in [Runs -> Scopes \cup {NoId}]
  /\ parent \in [Runs -> Runs \cup {NoRun}]
  /\ depth \in [Runs -> 0 .. MaxLineageDepth]
  /\ lastSeq \in [Runs -> Nat]
  /\ DOMAIN log = Runs
  /\ recovered \in [Runs -> BOOLEAN]
  /\ checkpoint \in [Runs -> BOOLEAN]

\* "One linear conversation has one active run"
\* (harness/specs/rules/unified-conversation-storage.md).
OneActiveRun ==
  \A q, r \in Runs :
    IsActive(q) /\ IsActive(r) /\ convOf[q] = convOf[r] => q = r

\* An assistant turn stands directly behind the user turn of its own run: no
\* other run's prompt or answer ever comes between the two, although nothing
\* but the lease keeps the runs of a conversation apart.
AnswerFollowsPrompt ==
  \A c \in Conversations : \A i \in DOMAIN turns[c] :
    turns[c][i].role = "assistant" =>
      i > 1 /\ turns[c][i - 1] = UserTurn(turns[c][i].run)

Answered(r) == \E c \in Conversations : \E i \in DOMAIN turns[c] :
                 turns[c][i] = Answer(r)

\* A run has an assistant turn exactly when its terminal status came from a
\* commit: never while it is active and never after the restart sweep, so the
\* history shows no answer of an interrupted run and loses none of another.
AnsweredIffCommitted ==
  \A r \in Runs : Answered(r) <=> (status[r] \in Terminal /\ ~recovered[r])

\* The log of a run can be replayed: its rows are numbered 1 .. lastSeq without
\* gap or conflict, whatever batches, duplicates and retries were sent.
EventLogReplayable ==
  \A r \in Runs :
    /\ {e.seq : e \in log[r]} = 1 .. lastSeq[r]
    /\ \A d, e \in log[r] : d.seq = e.seq => d = e

\* A child run is nested one deeper than its parent, lives in a conversation of
\* its own and opened that conversation with its prompt.
LineageSound ==
  \A r \in Runs : parent[r] # NoRun =>
    /\ depth[r] = depth[parent[r]] + 1
    /\ convOf[parent[r]] # convOf[r]
    /\ turns[convOf[r]] # <<>> /\ turns[convOf[r]][1] = UserTurn(r)

\* The conversation a branch was taken from is never hard deleted under it.
BranchSourceKept ==
  \A b \in Conversations : branchOf[b] # NoConversation =>
    conv[b] # "absent" /\ conv[branchOf[b]] # "absent"

\* A terminal run is final: until its conversation is hard deleted, no later
\* call changes its outcome, its lease identity or its events.
TerminalRunFrozen ==
  [][\A r \in Runs : status[r] \in Terminal =>
       \/ status'[r] = "absent"
       \/ UNCHANGED <<status[r], convOf[r], scopeOf[r], depth[r], lastSeq[r],
                      log[r], recovered[r]>>]_storeVars
-----------------------------------------------------------------------------
(* What the tables implement *)

LatestRun(c) == IF turns[c] = <<>> THEN NoRun ELSE turns[c][Len(turns[c])].run

FateOf(r) ==
  IF ~Row(r) THEN "none"
  ELSE IF IsActive(r) THEN "open"
  ELSE IF recovered[r] THEN "interrupted" ELSE "answered"

Ledger == INSTANCE RunLedger WITH
  latest  <- [c \in Conversations |-> LatestRun(c)],
  home    <- convOf,
  fate    <- [r \in Runs |-> FateOf(r)],
  entries <- log

\* The tables are a ledger: the run of the newest turn is the only one that can
\* be open in its conversation, a closed run never changes, and a restart
\* interrupts all open runs at once, although the code only has a unique index,
\* the order of turn rows, status checks in each transaction and a sweep.
LedgerSpec == Ledger!LedgerSpec
-----------------------------------------------------------------------------
(* The inductive invariant behind the promises *)

\* A run row lies in a present conversation; no row, no lineage, log or sweep.
RowsPlaced ==
  \A r \in Runs :
    /\ Row(r) => convOf[r] \in Conversations /\ conv[convOf[r]] # "absent"
    /\ ~Row(r) => /\ convOf[r] = NoConversation /\ parent[r] = NoRun
                  /\ lastSeq[r] = 0 /\ log[r] = {} /\ ~recovered[r]
    /\ parent[r] # NoRun => Row(parent[r])
    /\ recovered[r] => status[r] = "interrupted"

\* The turns of a conversation belong to its runs.
TurnsOwned ==
  \A c \in Conversations :
    /\ conv[c] = "absent" => turns[c] = <<>> /\ branchOf[c] = NoConversation
    /\ \A i \in DOMAIN turns[c] : convOf[turns[c][i].run] = c

\* The newest turn of a conversation with an active run is that run's prompt.
ActiveHoldsTail ==
  \A r \in Runs : IsActive(r) =>
    /\ turns[convOf[r]] # <<>>
    /\ turns[convOf[r]][Len(turns[convOf[r]])] = UserTurn(r)

StoreInv ==
  /\ StoreTypeOK /\ RowsPlaced /\ TurnsOwned /\ ActiveHoldsTail
  /\ AnswerFollowsPrompt /\ AnsweredIffCommitted /\ EventLogReplayable
  /\ LineageSound /\ BranchSourceKept
=============================================================================
