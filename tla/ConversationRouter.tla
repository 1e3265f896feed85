------------------------- MODULE ConversationRouter -------------------------
(***************************************************************************)
(* ConversationRouter (electron/conversations): the coroutines of Main that *)
(* take a prompt through admission, dispatch to the kernel, event           *)
(* persistence and the terminal commit, on top of the tables of RunStore.   *)
(*                                                                          *)
(* Main is one thread: a step here is what it runs between two awaits.  The *)
(* awaits are a reply of the DataService, an answer of the kernel, the      *)
(* event tail of the run, a commit in progress and the cancels of children. *)
(* DataService requests form one FIFO queue and a reply is taken in the     *)
(* step that applies the request.  Runs, their conversations and their      *)
(* lineage are named in advance: pc "idle" is a prompt nobody has sent yet. *)
(***************************************************************************)
EXTENDS RunStore

CONSTANTS
  RunConv, ParentOf,   \* conversation and parent run of each prompt
  MaxEvents,           \* bound: events a kernel emits for a run
  MaxGen,              \* bound: kernel generations
  MaxLost,             \* bound: DataService replies lost to a timeout
  MaxCrashes,          \* bound: DataService crashes
  MaxOutages,          \* bound: kernel stops, crashes and request timeouts
  MaxEdits,            \* bound: conversations deleted beside the router
  UserCancels,         \* runs the user may cancel
  MayClose             \* whether the application may quit

ASSUME PromptAssumption ==
  RunConv \in [Runs -> Conversations] /\ ParentOf \in [Runs -> Runs \cup {NoRun}]
ASSUME GenerationAssumption == MaxGen \in Nat \ {0} /\ Scopes = 1 .. MaxGen

VARIABLES
  pc,       \* where the coroutine of prompt(r) awaits
  gen,      \* kernel generation prompt(r) took its snapshot of
  state,    \* RunState of the run
  active,   \* activeByConversation
  cpc,      \* where cancel(r) awaits, per run and caller
  closing,  \* how far close() is
  xpc,      \* where close() awaits for the run
  kernel,   \* the supervised kernel: its generation and state
  session,  \* what became of session.prompt at the kernel
  sent,     \* events the kernel has emitted for the run
  queue,    \* requests the DataService has not answered
  dead,     \* requests a DataService crash has rejected
  ui,       \* what the Renderer was told of the run
  spent     \* faults used up

promptVars == <<pc, gen>>
mainVars   == <<promptVars, state, active, cpc, closing, xpc>>
kernelVars == <<kernel, session, sent>>
dataVars   == <<queue, dead>>
vars == <<storeVars, mainVars, kernelVars, dataVars, ui, spent>>

Callers == {"user", "parent"}
DataCalls == {"opening", "creating", "admitting", "compiling", "starting",
              "preparing", "checkpointing", "attaching"}
BeforeRun == {"opening", "creating", "admitting", "connecting"}
Ended == {"returned", "rejected"}
EventSorts == {"delta", "completed", "failed"}  \* the last two: run.terminal

FreshState ==
  [live |-> FALSE,        \* in the map runs
   cancelReq |-> FALSE, done |-> FALSE,
   pend |-> {},           \* pendingEvents
   flush |-> "idle",      \* what eventTail is doing
   batch |-> {},          \* events in the outstanding appendEvents
   seen |-> 0,            \* events reduced and shown
   commit |-> "none",     \* what committing is doing
   outcome |-> "failed", snap |-> 0]

RouterInit ==
  /\ StoreInit
  /\ pc = [r \in Runs |-> "idle"]
  /\ gen = [r \in Runs |-> 1]
  /\ state = [r \in Runs |-> FreshState]
  /\ active = [c \in Conversations |-> NoRun]
  /\ cpc = [k \in Runs \X Callers |-> "idle"]
  /\ closing = "open"
  /\ xpc = [r \in Runs |-> "idle"]
  /\ kernel = [gen |-> 1, state |-> "ready"]
  /\ session = [r \in Runs |-> "none"]
  /\ sent = [r \in Runs |-> <<>>]
  /\ queue = <<>> /\ dead = {}
  /\ ui = [r \in Runs |-> [started |-> FALSE, terminal |-> "none"]]
  /\ spent = [lost |-> 0, crashes |-> 0, outages |-> 0, edits |-> 0]

Spend(kind, bound) ==
  spent[kind] < bound /\ spent' = [spent EXCEPT ![kind] = @ + 1]
-----------------------------------------------------------------------------
(* Requests to the DataService *)

PromptCall(r) == <<r, "prompt">>
FlushCall(r)  == <<r, "flush">>
CommitCall(r) == <<r, "commit">>

Served(t) == queue # <<>> /\ Head(queue) = t

\* The coroutine of prompt(r) goes on at `next` after the reply it awaited.
Continue(r, next) ==
  /\ pc' = [pc EXCEPT ![r] = next]
  /\ queue' = IF next \in DataCalls THEN Append(Tail(queue), PromptCall(r))
              ELSE Tail(queue)

\* A request fails without an answer of the store: the service crashed under
\* it, or its reply is lost, in which case it may have been applied.
Lost(t, Applied) ==
  \/ /\ t \in dead
     /\ dead' = dead \ {t}
     /\ UNCHANGED <<storeVars, queue, spent>>
  \/ /\ Served(t)
     /\ Spend("lost", MaxLost)
     /\ queue' = Tail(queue)
     /\ Applied \/ UNCHANGED storeVars
     /\ UNCHANGED dead

\* The outcome the reduced events report, if any (state.terminal).  A kernel
\* reports one, in its last event.
Reported(r, otherwise) ==
  IF \E n \in 1 .. state[r].seen : sent[r][n] # "delta"
  THEN sent[r][CHOOSE n \in 1 .. state[r].seen : sent[r][n] # "delta"]
  ELSE otherwise

\* Fault: a commit in progress is not joined but sent again.
BeginCommit_NotJoined(r, outcome) ==
  IF state[r].done
  THEN UNCHANGED <<state, queue>>
  ELSE /\ state' = [state EXCEPT ![r].commit = "sent", ![r].outcome = outcome,
                                 ![r].snap = state[r].seen]
       /\ queue' = Append(queue, CommitCall(r))

\* commitTerminal: nothing to do after completion, join a commit in progress.
BeginCommit(r, outcome) ==
  IF state[r].done \/ state[r].commit # "none"
  THEN UNCHANGED <<state, queue>>
  ELSE /\ state' = [state EXCEPT ![r].commit = "sent", ![r].outcome = outcome,
                                 ![r].snap = state[r].seen]
       /\ queue' = Append(queue, CommitCall(r))

\* Where the caller of commitTerminal goes.
Wait(r, awaiting, finished) == IF state[r].done THEN finished ELSE awaiting
-----------------------------------------------------------------------------
(* prompt: up to the run state *)

InRuns(r) == r # NoRun /\ state[r].live

\* The parent check before admission and before dispatch.
ParentEnded(r) ==
  LET p == ParentOf[r] IN InRuns(p) /\ (state[p].cancelReq \/ state[p].done)

Rejection(r) == IF ParentOf[r] = NoRun THEN "rejected" ELSE "sweeping"

BeginPrompt(r) ==
  /\ pc[r] = "idle"
  /\ closing = "open"
  /\ kernel.state = "ready"
  /\ pc' = [pc EXCEPT ![r] = "resolving"]
  /\ gen' = [gen EXCEPT ![r] = kernel.gen]
  /\ UNCHANGED <<storeVars, state, active, cpc, closing, xpc, kernelVars,
                 dataVars, ui, spent>>

Prompt(r) == ParentOf[r] = NoRun /\ BeginPrompt(r)

\* The kernel calls the host tool clawx_agent with its grant of the parent run.
SpawnChild(r) ==
  LET p == ParentOf[r] IN
  /\ InRuns(p)
  /\ session[p] # "none" /\ ~state[p].cancelReq /\ ~state[p].done
  /\ kernel.gen = gen[p]
  /\ BeginPrompt(r)

Resolve(r) ==
  /\ pc[r] = "resolving"
  /\ IF active[RunConv[r]] # NoRun
     THEN pc' = [pc EXCEPT ![r] = Rejection(r)] /\ UNCHANGED queue
     ELSE /\ pc' = [pc EXCEPT ![r] = "opening"]
          /\ queue' = Append(queue, PromptCall(r))
  /\ UNCHANGED <<storeVars, gen, state, active, cpc, closing, xpc, kernelVars,
                 dead, ui, spent>>

ToAdmission(r) ==
  Continue(r, IF ParentEnded(r) THEN Rejection(r) ELSE "admitting")

\* getConversation sees live rows only.
Open(r) ==
  /\ pc[r] = "opening" /\ Served(PromptCall(r))
  /\ IF conv[RunConv[r]] = "live" THEN ToAdmission(r) ELSE Continue(r, "creating")
  /\ UNCHANGED <<storeVars, gen, state, active, cpc, closing, xpc, kernelVars,
                 dead, ui, spent>>

Create(r) ==
  /\ pc[r] = "creating" /\ Served(PromptCall(r))
  /\ CreateConversation(RunConv[r])
  /\ ToAdmission(r)
  /\ UNCHANGED <<gen, state, active, cpc, closing, xpc, kernelVars, dead, ui,
                 spent>>

Admit(r) ==
  /\ pc[r] = "admitting" /\ Served(PromptCall(r))
  /\ AdmitRun(r, RunConv[r], gen[r], ParentOf[r])
  /\ Continue(r, "connecting")
  /\ UNCHANGED <<gen, state, active, cpc, closing, xpc, kernelVars, dead, ui,
                 spent>>

\* service.connect does not wait for the store; runs.set and
\* activeByConversation.set follow in the same step.
Connect(r) ==
  /\ pc[r] = "connecting" /\ PromptCall(r) \notin dead
  /\ state' = [state EXCEPT ![r].live = TRUE]
  /\ active' = [active EXCEPT ![RunConv[r]] = r]
  /\ pc' = [pc EXCEPT ![r] = "compiling"]
  /\ queue' = Append(queue, PromptCall(r))
  /\ UNCHANGED <<storeVars, gen, cpc, closing, xpc, kernelVars, dead, ui, spent>>
-----------------------------------------------------------------------------
(* prompt: start, dispatch, answer *)

Compile(r) ==
  /\ pc[r] = "compiling" /\ Served(PromptCall(r))
  /\ Readable(RunConv[r])
  /\ Continue(r, "starting")
  /\ UNCHANGED <<storeVars, gen, state, active, cpc, closing, xpc, kernelVars,
                 dead, ui, spent>>

Start(r) ==
  /\ pc[r] = "starting" /\ Served(PromptCall(r))
  /\ MarkRunStarted(r, gen[r])
  /\ ui' = [ui EXCEPT ![r].started = TRUE]
  /\ Continue(r, "preparing")
  /\ UNCHANGED <<gen, state, active, cpc, closing, xpc, kernelVars, dead, spent>>

\* The latest checkpoint and the attachment blobs.
Prepare(r) ==
  /\ pc[r] = "preparing" /\ Served(PromptCall(r))
  /\ Continue(r, "checking")
  /\ UNCHANGED <<storeVars, gen, state, active, cpc, closing, xpc, kernelVars,
                 dead, ui, spent>>

\* Fault: the parent is not looked at again before the dispatch.
CheckParent_Skipped(r) ==
  /\ pc[r] = "checking"
  /\ pc' = [pc EXCEPT ![r] = "arming"]
  /\ UNCHANGED <<storeVars, gen, state, queue, active, cpc, closing, xpc,
                 kernelVars, dead, ui, spent>>

CheckParent(r) ==
  /\ pc[r] = "checking"
  /\ IF ParentEnded(r)
     THEN /\ BeginCommit(r, "cancelled")
          /\ pc' = [pc EXCEPT ![r] = Wait(r, "committing", "returned")]
     ELSE /\ pc' = [pc EXCEPT ![r] = "arming"]
          /\ UNCHANGED <<state, queue>>
  /\ UNCHANGED <<storeVars, gen, active, cpc, closing, xpc, kernelVars, dead,
                 ui, spent>>

\* The tool grant is issued; a run cancelled meanwhile returns without a
\* commit of its own.  The request goes to whichever generation is ready.
Dispatch(r) ==
  LET stop == state[r].cancelReq \/ state[r].done
      go == ~stop /\ kernel.state = "ready" IN
  /\ pc[r] = "arming"
  /\ pc' = [pc EXCEPT ![r] =
       IF stop THEN "returned" ELSE IF go THEN "prompting" ELSE "unwinding"]
  /\ session' = [session EXCEPT ![r] = IF go THEN "open" ELSE @]
  /\ UNCHANGED <<storeVars, gen, state, active, cpc, closing, xpc, kernel, sent,
                 dataVars, ui, spent>>

\* The kernel answers with or without a checkpoint, or with an error; nobody
\* awaits an answer after the request has timed out.  An answer that comes while
\* close() awaits the tail is looked at after it: close awaited the tail first.
KernelAnswer(r) ==
  /\ session[r] = "open" /\ xpc[r] # "draining"
  /\ session' = [session EXCEPT ![r] = "answered"]
  /\ IF pc[r] # "prompting" THEN UNCHANGED <<pc, queue>>
     ELSE \E next \in {"checkpointing", "draining", "unwinding"} :
            /\ pc' = [pc EXCEPT ![r] = next]
            /\ queue' = IF next = "checkpointing"
                        THEN Append(queue, PromptCall(r)) ELSE queue
  /\ UNCHANGED <<storeVars, gen, state, active, cpc, closing, xpc, kernel, sent,
                 dead, ui, spent>>

PromptTimeout(r) ==
  /\ pc[r] = "prompting"
  /\ Spend("outages", MaxOutages)
  /\ pc' = [pc EXCEPT ![r] = "unwinding"]
  /\ UNCHANGED <<storeVars, gen, state, active, cpc, closing, xpc, kernelVars,
                 dataVars, ui>>

Checkpoint(r) ==
  /\ pc[r] = "checkpointing" /\ Served(PromptCall(r))
  /\ PutCheckpoint(r, gen[r])
  /\ Continue(r, "draining")
  /\ UNCHANGED <<gen, state, active, cpc, closing, xpc, kernelVars, dead, ui,
                 spent>>

\* Fault: the tail is not awaited again after the attachments are stored.
Drain_AwaitedOnce(r) ==
  /\ \/ /\ pc[r] = "draining" /\ state[r].flush = "idle" /\ ~state[r].done
        /\ pc' = [pc EXCEPT ![r] = "attaching"]
        /\ queue' = Append(queue, PromptCall(r))
        /\ UNCHANGED state
     \/ /\ \/ pc[r] = "draining" /\ state[r].flush = "idle"
           \/ pc[r] = "redraining"
        /\ BeginCommit(r, Reported(r, "completed"))
        /\ pc' = [pc EXCEPT ![r] = Wait(r, "committing", "returned")]
     \/ /\ pc[r] = "draining" /\ state[r].flush = "poisoned"
        /\ pc' = [pc EXCEPT ![r] = "unwinding"]
        /\ UNCHANGED <<state, queue>>
  /\ UNCHANGED <<storeVars, gen, active, cpc, closing, xpc, kernelVars, dead, ui,
                 spent>>

\* The event tail is awaited before and after the output attachments are
\* stored; a poisoned tail rejects.
Drain(r) ==
  /\ \/ /\ pc[r] = "draining" /\ state[r].flush = "idle" /\ ~state[r].done
        /\ pc' = [pc EXCEPT ![r] = "attaching"]
        /\ queue' = Append(queue, PromptCall(r))
        /\ UNCHANGED state
     \/ /\ pc[r] \in {"draining", "redraining"} /\ state[r].flush = "idle"
        /\ BeginCommit(r, Reported(r, "completed"))
        /\ pc' = [pc EXCEPT ![r] = Wait(r, "committing", "returned")]
     \/ /\ pc[r] \in {"draining", "redraining"} /\ state[r].flush = "poisoned"
        /\ pc' = [pc EXCEPT ![r] = "unwinding"]
        /\ UNCHANGED <<state, queue>>
  /\ UNCHANGED <<storeVars, gen, active, cpc, closing, xpc, kernelVars, dead, ui,
                 spent>>

Attach(r) ==
  /\ pc[r] = "attaching" /\ Served(PromptCall(r))
  /\ Continue(r, "redraining")
  /\ UNCHANGED <<storeVars, gen, state, active, cpc, closing, xpc, kernelVars,
                 dead, ui, spent>>

(* prompt: failures *)

\* The store throws and rolls back.
Refused(r) ==
  CASE pc[r] = "creating"  -> conv[RunConv[r]] # "absent"
    [] pc[r] = "admitting" -> ~Admissible(r, RunConv[r], ParentOf[r])
    [] pc[r] = "compiling" -> ~Readable(RunConv[r])
    [] pc[r] = "starting"  -> status[r] # "admitted"
    [] pc[r] = "checkpointing" -> ~Row(r)
    [] OTHER -> FALSE

Applied(r) ==
  \/ pc[r] = "creating" /\ CreateConversation(RunConv[r])
  \/ pc[r] = "admitting" /\ AdmitRun(r, RunConv[r], gen[r], ParentOf[r])
  \/ pc[r] = "starting" /\ MarkRunStarted(r, gen[r])
  \/ pc[r] = "checkpointing" /\ PutCheckpoint(r, gen[r])

\* Before the run state exists nothing is undone; afterwards the catch block
\* runs.
FailPrompt(r) ==
  pc' = [pc EXCEPT ![r] = IF @ \in BeforeRun THEN Rejection(r) ELSE "unwinding"]

PromptRefused(r) ==
  /\ pc[r] \in DataCalls /\ Served(PromptCall(r))
  /\ Refused(r)
  /\ queue' = Tail(queue)
  /\ FailPrompt(r)
  /\ UNCHANGED <<storeVars, gen, state, active, cpc, closing, xpc, kernelVars,
                 dead, ui, spent>>

PromptLost(r) ==
  /\ pc[r] \in DataCalls \cup {"connecting"}
  /\ Lost(PromptCall(r), Applied(r))
  /\ FailPrompt(r)
  /\ UNCHANGED <<gen, state, active, cpc, closing, xpc, kernelVars, ui>>

\* A rejected child must not leave an empty conversation behind.  (One step for
\* exportConversation and deleteConversation: the identifier of the conversation
\* is fresh, and nobody but the rejected child has used it between the two.)
SweepPhantom(r) ==
  /\ pc[r] = "sweeping"
  /\ pc' = [pc EXCEPT ![r] = "rejected"]
  /\ \/ /\ conv[RunConv[r]] = "live" /\ turns[RunConv[r]] = <<>>
        /\ HardDeleteConversation(RunConv[r])
        /\ UNCHANGED spent
     \/ /\ ~(conv[RunConv[r]] = "live" /\ turns[RunConv[r]] = <<>>)
        /\ UNCHANGED <<storeVars, spent>>
     \/ Spend("lost", MaxLost) /\ UNCHANGED storeVars
  /\ UNCHANGED <<gen, state, active, cpc, closing, xpc, kernelVars, dataVars, ui>>

\* Fault: the catch block leaves the run without a terminal status.
Unwind_NoCommit(r) ==
  /\ pc[r] = "unwinding"
  /\ pc' = [pc EXCEPT ![r] = "rejected"]
  /\ state' = [state EXCEPT ![r].done = TRUE]
  /\ active' = [active EXCEPT ![RunConv[r]] = IF @ = r THEN NoRun ELSE @]
  /\ UNCHANGED <<storeVars, gen, cpc, closing, xpc, kernelVars, dataVars, ui,
                 spent>>

\* The catch block: drain, commit what the kernel reported or "failed".
Unwind(r) ==
  /\ pc[r] = "unwinding"
  /\ state[r].flush \in {"idle", "poisoned"}
  /\ BeginCommit(r, Reported(r, "failed"))
  /\ pc' = [pc EXCEPT ![r] = Wait(r, "abandoning", "rejected")]
  /\ UNCHANGED <<storeVars, gen, active, cpc, closing, xpc, kernelVars, dead, ui,
                 spent>>
-----------------------------------------------------------------------------
(* Kernel events *)

\* The supervisor detaches a stopping process; the router drops the events of
\* another generation, of unknown and of completed runs.
Accepts(r) ==
  /\ closing \in {"open", "closing"} /\ kernel.state = "ready"
  /\ InRuns(r) /\ ~state[r].done /\ kernel.gen = gen[r]

\* The answer to session.prompt ends nothing here: until the commit has been
\* answered the process may emit, and the router takes, events of the run.
KernelEmit(r) ==
  LET n == Len(sent[r]) + 1 IN
  /\ session[r] \in {"open", "answered"}
  /\ n <= MaxEvents
  /\ \A i \in 1 .. n - 1 : sent[r][i] = "delta"
  /\ \E sort \in EventSorts : sent' = [sent EXCEPT ![r] = Append(@, sort)]
  /\ state' = IF ~Accepts(r) THEN state
              ELSE [state EXCEPT ![r].pend = @ \cup {n},
                     ![r].flush = IF @ = "idle" THEN "waiting" ELSE @]
  /\ UNCHANGED <<storeVars, promptVars, active, cpc, closing, xpc, kernel,
                 session, dataVars, ui, spent>>

StoreEvent(r, n) ==
  [seq |-> n, call |-> NoId, native |-> NoId,
   kind |-> IF sent[r][n] = "delta" THEN "delta" ELSE "run.terminal"]

StoreBatch(r, from, upto) == [i \in 1 .. upto - from |-> StoreEvent(r, from + i)]

\* Fault: events are reduced and shown before appendEvents has answered.
Flush_ShowFirst(r) ==
  /\ state[r].flush = "waiting"
  /\ queue' = Append(queue, FlushCall(r))
  /\ state' = [state EXCEPT ![r].flush = "appending", ![r].pend = {},
                 ![r].batch = state[r].pend, ![r].seen = @ + Cardinality(state[r].pend)]
  /\ UNCHANGED <<storeVars, promptVars, active, cpc, closing, xpc, kernelVars,
                 dead, ui, spent>>

\* persistEvents: a gap in the sequence poisons the tail.
Flush(r) ==
  LET batch == state[r].pend
      next == state[r].seen + 1 .. state[r].seen + Cardinality(batch) IN
  /\ state[r].flush = "waiting"
  /\ IF batch = next
     THEN /\ queue' = Append(queue, FlushCall(r))
          /\ state' = [state EXCEPT ![r].flush = "appending", ![r].pend = {},
                                    ![r].batch = batch]
     ELSE /\ state' = [state EXCEPT ![r].flush = "poisoned", ![r].pend = {}]
          /\ UNCHANGED queue
  /\ UNCHANGED <<storeVars, promptVars, active, cpc, closing, xpc, kernelVars,
                 dead, ui, spent>>

\* The last event of the outstanding batch.
Upto(r) == state[r].seen + Cardinality(state[r].batch)

AppendBatch(r) ==
  \E b \in Batches :
    /\ b = StoreBatch(r, state[r].seen, Upto(r))
    /\ AppendEvents(r, gen[r], b)

\* Only after the append are events reduced and shown to the Renderer.
Appended(r) ==
  /\ state[r].flush = "appending" /\ Served(FlushCall(r))
  /\ AppendBatch(r)
  /\ queue' = Tail(queue)
  /\ state' = [state EXCEPT ![r].seen = Upto(r), ![r].batch = {},
                 ![r].flush = IF state[r].pend = {} THEN "idle" ELSE "waiting"]
  /\ UNCHANGED <<promptVars, active, cpc, closing, xpc, kernelVars, dead, ui,
                 spent>>

\* flushScheduled stays set: later events are queued and never persisted.
Poison(r) ==
  state' = [state EXCEPT ![r].flush = "poisoned", ![r].batch = {}]

AppendRefused(r) ==
  /\ state[r].flush = "appending" /\ Served(FlushCall(r))
  /\ ~IsActive(r)
  /\ queue' = Tail(queue)
  /\ Poison(r)
  /\ UNCHANGED <<storeVars, promptVars, active, cpc, closing, xpc, kernelVars,
                 dead, ui, spent>>

AppendLost(r) ==
  /\ state[r].flush = "appending"
  /\ Lost(FlushCall(r), AppendBatch(r))
  /\ Poison(r)
  /\ UNCHANGED <<promptVars, active, cpc, closing, xpc, kernelVars, ui>>
-----------------------------------------------------------------------------
(* The terminal commit *)

\* Everyone who awaits the commit of r goes on.
Settle(r, answered, cancelled, closed) ==
  /\ pc' = [pc EXCEPT ![r] = CASE @ = "committing" -> answered
                               [] @ = "abandoning" -> "rejected"
                               [] OTHER -> @]
  /\ cpc' = [k \in Runs \X Callers |->
       IF k[1] = r /\ cpc[k] = "committing" THEN cancelled ELSE cpc[k]]
  /\ xpc' = [xpc EXCEPT ![r] = IF @ = "committing" THEN closed ELSE @]

Commit(r) ==
  /\ state[r].commit = "sent" /\ Served(CommitCall(r))
  /\ CommitTerminalRun(r, gen[r], state[r].outcome)
  /\ queue' = Tail(queue)
  /\ state' = [state EXCEPT ![r].commit = "disconnecting", ![r].done = TRUE]
  /\ active' = [active EXCEPT ![RunConv[r]] = NoRun]
  /\ UNCHANGED <<promptVars, cpc, closing, xpc, kernelVars, dead, ui, spent>>

\* The kernel client is disconnected, then the terminal event is emitted.
Disconnect(r) ==
  /\ state[r].commit = "disconnecting"
  /\ state' = [state EXCEPT ![r].commit = "none"]
  /\ ui' = [ui EXCEPT ![r].terminal = state[r].outcome]
  /\ Settle(r, "returned", "settled", "settled")
  /\ UNCHANGED <<storeVars, gen, active, closing, kernelVars, dataVars, spent>>

\* Fault: a failed commit is reported to the Renderer like a successful one.
CommitFails_Reported(r) ==
  /\ state' = [state EXCEPT ![r].commit = "none", ![r].done = TRUE]
  /\ ui' = [ui EXCEPT ![r].terminal = state[r].outcome]
  /\ active' = [active EXCEPT ![RunConv[r]] = IF @ = r THEN NoRun ELSE @]
  /\ Settle(r, "unwinding", "rejected", "settled")

\* Fault: giving a run up forgets the conversation's active run, whoever it is.
CommitFails_ClearsAny(r) ==
  LET abandon == pc[r] = "abandoning" \/ xpc[r] = "committing" IN
  /\ state' = [state EXCEPT ![r].commit = "none", ![r].done = abandon]
  /\ active' = [active EXCEPT ![RunConv[r]] = IF abandon THEN NoRun ELSE @]
  /\ Settle(r, "unwinding", "rejected", "settled")
  /\ UNCHANGED ui

\* Fault: the run state of a failed commit is never given up.
CommitFails_Kept(r) ==
  /\ state' = [state EXCEPT ![r].commit = "none"]
  /\ Settle(r, "unwinding", "rejected", "settled")
  /\ UNCHANGED <<active, ui>>

\* A prompt's first attempt falls into the catch block; a second failure, or a
\* failure under close, abandons the state without telling the Renderer.
CommitFails(r) ==
  LET abandon == pc[r] = "abandoning" \/ xpc[r] = "committing" IN
  /\ state' = [state EXCEPT ![r].commit = "none", ![r].done = abandon]
  /\ active' = [active EXCEPT ![RunConv[r]] =
                  IF abandon /\ @ = r THEN NoRun ELSE @]
  /\ Settle(r, "unwinding", "rejected", "settled")
  /\ UNCHANGED ui

CommitRefused(r) ==
  /\ state[r].commit = "sent" /\ Served(CommitCall(r))
  /\ ~IsActive(r)
  /\ queue' = Tail(queue)
  /\ CommitFails(r)
  /\ UNCHANGED <<storeVars, gen, closing, kernelVars, dead, spent>>

CommitLost(r) ==
  /\ state[r].commit = "sent"
  /\ Lost(CommitCall(r), CommitTerminalRun(r, gen[r], state[r].outcome))
  /\ CommitFails(r)
  /\ UNCHANGED <<gen, closing, kernelVars>>
-----------------------------------------------------------------------------
(* cancel *)

\* The runs a cancel of r reaches before its first await: through live and
\* unfinished children only.  (Bound: a run is cancelled once per caller.)
Reached(r) ==
  {d \in Runs : \E chain \in SUBSET Runs :
     /\ d \in chain
     /\ \A x \in chain \ {r} :
          /\ InRuns(x) /\ ~state[x].done /\ cpc[<<x, "parent">>] = "idle"
          /\ ParentOf[x] \in chain}

Cancel(r) ==
  /\ r \in UserCancels /\ InRuns(r) /\ cpc[<<r, "user">>] = "idle"
  /\ state' = [d \in Runs |-> IF d \in Reached(r)
                              THEN [state[d] EXCEPT !.cancelReq = TRUE]
                              ELSE state[d]]
  /\ cpc' = [k \in Runs \X Callers |->
       IF k = <<r, "user">> \/ (k[2] = "parent" /\ k[1] \in Reached(r) \ {r})
       THEN "children" ELSE cpc[k]]
  /\ UNCHANGED <<storeVars, promptVars, active, closing, xpc, kernelVars,
                 dataVars, ui, spent>>

Over == {"idle", "settled", "rejected"}

\* Fault: the parent does not wait for the cancels of its children.
CancelRequest_NotAwaited(k) ==
  /\ cpc[k] = "children"
  /\ cpc' = [cpc EXCEPT ![k] =
       IF kernel.state = "ready" THEN "requesting" ELSE "rejected"]
  /\ UNCHANGED <<storeVars, promptVars, state, active, closing, xpc, kernelVars,
                 dataVars, ui, spent>>

\* The children's cancels have settled; session.cancel is sent.
CancelRequest(k) ==
  /\ cpc[k] = "children"
  /\ \A d \in Runs : ParentOf[d] = k[1] => cpc[<<d, "parent">>] \in Over
  /\ cpc' = [cpc EXCEPT ![k] =
       IF kernel.state = "ready" THEN "requesting" ELSE "rejected"]
  /\ UNCHANGED <<storeVars, promptVars, state, active, closing, xpc, kernelVars,
                 dataVars, ui, spent>>

CancelAnswer(k) ==
  /\ cpc[k] = "requesting"
  /\ \/ cpc' = [cpc EXCEPT ![k] = "draining"] /\ UNCHANGED spent
     \/ cpc' = [cpc EXCEPT ![k] = "rejected"] /\ Spend("outages", MaxOutages)
  /\ UNCHANGED <<storeVars, promptVars, state, active, closing, xpc, kernelVars,
                 dataVars, ui>>

CancelDrain(k) ==
  /\ cpc[k] = "draining"
  /\ \/ /\ state[k[1]].flush = "idle"
        /\ BeginCommit(k[1], "cancelled")
        /\ cpc' = [cpc EXCEPT ![k] = Wait(k[1], "committing", "settled")]
     \/ /\ state[k[1]].flush = "poisoned"
        /\ cpc' = [cpc EXCEPT ![k] = "rejected"]
        /\ UNCHANGED <<state, queue>>
  /\ UNCHANGED <<storeVars, promptVars, active, closing, xpc, kernelVars, dead,
                 ui, spent>>
-----------------------------------------------------------------------------
(* close *)

Close ==
  /\ MayClose /\ closing = "open"
  /\ closing' = "closing"
  /\ UNCHANGED <<storeVars, promptVars, state, active, cpc, xpc, kernelVars,
                 dataVars, ui, spent>>

\* The tool broker is closed; the router stops listening to the kernels.
CloseRuns ==
  /\ closing = "closing"
  /\ closing' = "draining"
  /\ xpc' = [r \in Runs |-> IF InRuns(r) THEN "draining" ELSE "skipped"]
  /\ UNCHANGED <<storeVars, promptVars, state, active, cpc, kernelVars, dataVars,
                 ui, spent>>

\* Fault: close() does not await the commits it begins.
CloseDrain_NotAwaited(r) ==
  /\ xpc[r] = "draining" /\ state[r].flush \in {"idle", "poisoned"}
  /\ BeginCommit(r, Reported(r, "interrupted"))
  /\ xpc' = [xpc EXCEPT ![r] = "settled"]
  /\ UNCHANGED <<storeVars, promptVars, active, cpc, closing, kernelVars, dead,
                 ui, spent>>

CloseDrain(r) ==
  /\ xpc[r] = "draining" /\ state[r].flush \in {"idle", "poisoned"}
  /\ BeginCommit(r, Reported(r, "interrupted"))
  /\ xpc' = [xpc EXCEPT ![r] = Wait(r, "committing", "settled")]
  /\ UNCHANGED <<storeVars, promptVars, active, cpc, closing, kernelVars, dead,
                 ui, spent>>

CloseDone ==
  /\ closing = "draining" /\ \A r \in Runs : xpc[r] \in {"settled", "skipped"}
  /\ closing' = "closed"
  /\ state' = [r \in Runs |-> [state[r] EXCEPT !.live = FALSE]]
  /\ active' = [c \in Conversations |-> NoRun]
  /\ UNCHANGED <<storeVars, promptVars, cpc, xpc, kernelVars, dataVars, ui, spent>>
-----------------------------------------------------------------------------
(* The environment *)

\* stopUnlocked detaches the process, whose requests stay open until it exits.
KernelStop ==
  /\ kernel.state = "ready"
  /\ Spend("outages", MaxOutages)
  /\ kernel' = [kernel EXCEPT !.state = "stopping"]
  /\ UNCHANGED <<storeVars, mainVars, session, sent, dataVars, ui>>

\* The process is gone: every request to it is rejected.
KernelExit ==
  /\ \/ kernel.state = "stopping" /\ UNCHANGED spent
     \/ kernel.state = "ready" /\ Spend("outages", MaxOutages)
  /\ kernel' = [kernel EXCEPT !.state = "down"]
  /\ session' = [r \in Runs |-> IF session[r] = "none" THEN "none" ELSE "gone"]
  /\ pc' = [r \in Runs |-> IF pc[r] = "prompting" THEN "unwinding" ELSE pc[r]]
  /\ cpc' = [k \in Runs \X Callers |->
               IF cpc[k] = "requesting" THEN "rejected" ELSE cpc[k]]
  /\ UNCHANGED <<storeVars, gen, state, active, closing, xpc, sent, dataVars, ui>>

KernelStart ==
  /\ kernel.state = "down" /\ kernel.gen < MaxGen
  /\ kernel' = [gen |-> kernel.gen + 1, state |-> "ready"]
  /\ UNCHANGED <<storeVars, mainVars, session, sent, dataVars, ui, spent>>

\* Fault: the requests pending at the exit are never rejected.
DataCrash_Silent ==
  /\ Spend("crashes", MaxCrashes)
  /\ RecoverInterruptedRuns
  /\ queue' = <<>>
  /\ UNCHANGED <<mainVars, kernelVars, dead, ui>>

\* The utility process exits: its pending requests are rejected, and it opens
\* the database anew before it takes the next one.
DataCrash ==
  /\ Spend("crashes", MaxCrashes)
  /\ RecoverInterruptedRuns
  /\ dead' = dead \cup {queue[i] : i \in DOMAIN queue}
                  \cup {PromptCall(r) : r \in {q \in Runs : pc[q] = "connecting"}}
  /\ queue' = <<>>
  /\ UNCHANGED <<mainVars, kernelVars, ui>>

\* The sessions API deletes a conversation without asking the router.
Edit ==
  /\ Spend("edits", MaxEdits)
  /\ \E c \in Conversations : HardDeleteConversation(c)
  /\ UNCHANGED <<mainVars, kernelVars, dataVars, ui>>
-----------------------------------------------------------------------------
PromptStep(r) ==
  \/ Resolve(r) \/ Open(r) \/ Create(r) \/ Admit(r) \/ Connect(r) \/ Compile(r)
  \/ Start(r) \/ Prepare(r) \/ CheckParent(r) \/ Dispatch(r) \/ KernelAnswer(r)
  \/ Checkpoint(r) \/ Drain(r) \/ Attach(r) \/ PromptRefused(r) \/ PromptLost(r)
  \/ SweepPhantom(r) \/ Unwind(r)

TailStep(r) == Flush(r) \/ Appended(r) \/ AppendRefused(r) \/ AppendLost(r)

CommitStep(r) == Commit(r) \/ Disconnect(r) \/ CommitRefused(r) \/ CommitLost(r)

CancelStep(k) == CancelRequest(k) \/ CancelAnswer(k) \/ CancelDrain(k)

RouterNext ==
  \/ \E r \in Runs :
       \/ Prompt(r) \/ SpawnChild(r) \/ PromptStep(r) \/ PromptTimeout(r)
       \/ KernelEmit(r) \/ TailStep(r) \/ CommitStep(r)
       \/ Cancel(r) \/ CloseDrain(r)
  \/ \E k \in Runs \X Callers : CancelStep(k)
  \/ Close \/ CloseRuns \/ CloseDone
  \/ KernelStop \/ KernelExit \/ KernelStart \/ DataCrash \/ Edit

RouterSpec == RouterInit /\ [][RouterNext]_vars

\* Timers, replies and the queue go on; session.prompt and session.cancel have
\* timeouts, so an answer or its rejection always comes.  Nothing is assumed of
\* users, of the events a kernel emits, of faults and of restarts.
Fairness ==
  /\ \A r \in Runs :
       /\ WF_vars(PromptStep(r)) /\ WF_vars(TailStep(r)) /\ WF_vars(CommitStep(r))
       /\ WF_vars(CloseDrain(r))
  /\ \A k \in Runs \X Callers : WF_vars(CancelStep(k))
  /\ WF_vars(kernel.state = "stopping" /\ KernelExit)
  /\ WF_vars(CloseRuns) /\ WF_vars(CloseDone)

FairRouterSpec == RouterSpec /\ Fairness
-----------------------------------------------------------------------------
(* What the router promises *)

Outstanding(t) == t \in dead \/ \E i \in DOMAIN queue : queue[i] = t

RunStates ==
  [live : BOOLEAN, cancelReq : BOOLEAN, done : BOOLEAN, pend : SUBSET Nat,
   flush : {"idle", "waiting", "appending", "poisoned"}, batch : SUBSET Nat,
   seen : Nat, commit : {"none", "sent", "disconnecting"}, outcome : Terminal,
   snap : Nat]

\* Pending, outstanding and reduced events are among the n the kernel has
\* emitted, and an outstanding batch starts right behind the reduced ones.
RunStateOK(s, n) ==
  /\ s \in RunStates
  /\ s.pend \cup s.batch \subseteq 1 .. n
  /\ s.seen <= n
  /\ s.flush = "appending" =>
       /\ s.batch = s.seen + 1 .. s.seen + Cardinality(s.batch)
       /\ s.seen + Cardinality(s.batch) <= n

\* Every variable the durable steps depend on stays in its domain, and Main
\* never holds an event the kernel did not emit.
RouterTypeOK ==
  /\ gen \in [Runs -> Scopes]
  /\ kernel \in [gen : Scopes, state : {"ready", "stopping", "down"}]
  /\ sent \in [Runs -> Seq(EventSorts)]
  /\ DOMAIN state = Runs
  /\ \A r \in Runs : RunStateOK(state[r], Len(sent[r]))

\* Each request has one coroutine that awaits it, and no coroutine awaits a
\* request that was never sent or has been answered.
RequestsAccounted ==
  /\ \A i, j \in DOMAIN queue : queue[i] = queue[j] => i = j
  /\ \A r \in Runs :
       /\ pc[r] \in DataCalls <=> (Outstanding(PromptCall(r)) /\ pc[r] # "connecting")
       /\ state[r].flush = "appending" <=> Outstanding(FlushCall(r))
       /\ state[r].commit = "sent" <=> Outstanding(CommitCall(r))

\* The map activeByConversation and the lease of the store agree: a run Main
\* drives and the store still has active is the one the map names, although the
\* map is written after the admission and cleared after the commit, and another
\* prompt may be admitted between the two.  (As long as nobody deletes a
\* conversation beside the router: a run whose row is deleted while its prompt
\* connects enters the map over the run that was admitted after the deletion.)
LeaseAgrees ==
  spent.edits = 0 => \A r \in Runs :
    InRuns(r) /\ ~state[r].done /\ IsActive(r) => active[RunConv[r]] = r

\* "A terminal UI/catalog event is emitted only after commit"
\* (harness/reference/acp-chat.md): the outcome the Renderer was shown is the
\* durable one, whatever replies were lost and whoever asked for the commit.
TerminalIsDurable ==
  \A r \in Runs : ui[r].terminal # "none" =>
    status[r] \in {ui[r].terminal, "absent"}

\* The Renderer is shown no event the log does not hold, and the log holds what
\* the kernel emitted, in its order.
ShownIsDurable ==
  \A r \in Runs : Row(r) =>
    /\ state[r].seen <= lastSeq[r]
    /\ \A e \in log[r] : e = StoreEvent(r, e.seq)

\* No kernel was stopped, crashed or timed out, and the router still listens.
Calm == spent.outages = 0 /\ closing \in {"open", "closing"}

\* A run is completed with its whole answer.  When the commit of a completed run
\* is sent, every event its kernel has emitted until then is reduced, those of
\* the attachment writes included (while the router listens: a process being
\* stopped is detached before its requests are rejected).  When it is applied,
\* the assistant turn holds all of the log and no failure the kernel reported:
\* an event that came during the commit is not in the log without the turn.
AnswerIsWhole ==
  [][\A r \in Runs :
       /\ Calm /\ state[r].commit # "sent" /\ state'[r].commit = "sent"
               /\ state'[r].outcome = "completed" =>
            state'[r].snap = Len(sent[r])
       /\ status[r] # "completed" /\ status'[r] = "completed" =>
            /\ state[r].snap = lastSeq[r]
            /\ \A i \in 1 .. state[r].snap : sent[r][i] # "failed"]_vars

\* A child prompt never reaches the kernel after its parent was cancelled,
\* wherever the setup of the child was when the cancel came.  (Until close() has
\* emptied the map: a prompt that goes on after it finds no parent to look at.)
NoDispatchUnderCancel ==
  [][\A r \in Runs :
       session[r] = "none" /\ session'[r] = "open" /\ ParentOf[r] # NoRun =>
         closing = "closed" \/ ~state[ParentOf[r]].cancelReq]_vars

\* After the terminal event the Renderer hears nothing more of the run.
QuietAfterTerminal ==
  [][\A r \in Runs : ui[r].terminal # "none" =>
       state'[r].seen = state[r].seen /\ ui'[r] = ui[r]]_vars

\* A run whose end was shown is not announced as started afterwards, although a
\* cancel may overtake the start.
StartedBeforeEnd ==
  [][\A r \in Runs : ui'[r].started # ui[r].started => ui[r].terminal = "none"]_vars

\* When close() has settled a run of the map, its outcome is durable, or at least
\* the run has none left to write.  (As long as no reply of the DataService is
\* lost: a commit whose request timed out is given up with its row active.)
CloseLeavesNoLease ==
  spent.lost = 0 => \A r \in Runs : xpc[r] = "settled" => ~IsActive(r)

\* Every prompt returns or rejects, also over crashes and restarts.
PromptsSettle == \A r \in Runs : pc[r] # "idle" ~> pc[r] \in Ended

\* A run gives its conversation in Main back, whatever replies are lost, so the
\* next prompt is not refused; a run the user cancels may fail to.
ConversationsFree ==
  \A c \in Conversations :
    active[c] # NoRun ~> (active[c] = NoRun \/ state[active[c]].cancelReq)

\* Every cancel comes back, also when the DataService or the kernel does not.
CancelsSettle ==
  \A k \in Runs \X Callers : cpc[k] # "idle" ~> cpc[k] \in {"settled", "rejected"}

\* The application can always quit: close() finishes over commits that fail and
\* tails that are poisoned.
CloseFinishes == closing # "open" ~> closing = "closed"

\* Every admitted run gets a terminal status over crashes and outages, unless its
\* user cancels it (see CancelledRunsEnd), quits, or a reply of the DataService
\* is lost: then the run may be given up with its row active.
RunsEnd ==
  \A r \in Runs :
    IsActive(r) ~>
      (~IsActive(r) \/ state[r].cancelReq \/ closing # "open" \/ spent.lost > 0)

\* When the cancel of a run has settled, Main drives none of its children at the
\* kernel any more, unless the cancel of that child failed.  (As above, until
\* close() has emptied the map.)
CancelReachesChildren ==
  closing # "closed" => \A r, d \in Runs :
    cpc[<<r, "user">>] = "settled" /\ ParentOf[d] = r /\ session[d] # "none" =>
      state[d].done \/ cpc[<<d, "parent">>] = "rejected"
-----------------------------------------------------------------------------
(* The inductive invariant behind TerminalIsDurable *)

\* The prompt has no run state yet.
Early == {"idle", "resolving"} \cup BeforeRun

\* Until the run state exists nobody can ask for a commit of the run.
Untouched(r) ==
  /\ ~state[r].live /\ state[r].commit = "none" /\ ui[r].terminal = "none"
  /\ xpc[r] \in {"idle", "skipped"}
  /\ \A w \in Callers : cpc[<<r, w>>] = "idle"

EndSound(r) ==
  /\ pc[r] \in Early => Untouched(r)
  /\ state[r].commit = "disconnecting" => status[r] \in {state[r].outcome, "absent"}
  /\ ui[r].terminal # "none" =>
       ui[r].terminal \in Terminal /\ status[r] \in {ui[r].terminal, "absent"}

EndInv ==
  /\ DOMAIN pc = Runs /\ DOMAIN ui = Runs /\ DOMAIN xpc = Runs
  /\ DOMAIN cpc = Runs \X Callers /\ DOMAIN status = Runs
  /\ \A r \in Runs : DOMAIN ui[r] = {"started", "terminal"} /\ EndSound(r)

(* The inductive invariants behind the other promises, on top of it *)

\* Before its run state exists the run has nothing of its own.
Fresh(r) == state[r] = FreshState /\ session[r] = "none" /\ sent[r] = <<>>

\* A commit is under way for an unfinished run, and reported only once.
CommitSound(r) ==
  /\ pc[r] \in Early => Fresh(r)
  /\ state[r].commit = "sent" => ~state[r].done
  /\ state[r].commit = "disconnecting" => state[r].done /\ ui[r].terminal = "none"

CommitInv ==
  /\ session \in [Runs -> {"none", "open", "answered", "gone"}]
  /\ spent \in [{"lost", "crashes", "outages", "edits"} -> Nat]
  /\ \A r \in Runs : CommitSound(r)

\* What is shown is a prefix of the log, and the log a prefix of what was emitted.
ShownSound(r) ==
  Row(r) =>
    /\ state[r].seen <= lastSeq[r]
    /\ \A e \in log[r] : e.seq \in 1 .. Len(sent[r]) /\ e = StoreEvent(r, e.seq)

ShownInv == \A r \in Runs : ShownSound(r)

\* A run about to enter the map has its lease, or an answer of the crashed
\* DataService keeps it out.
LeaseSound(r) ==
  /\ Row(r) => convOf[r] = RunConv[r]
  /\ pc[r] = "connecting" /\ PromptCall(r) \notin dead => IsActive(r)
  /\ InRuns(r) /\ ~state[r].done /\ IsActive(r) => active[RunConv[r]] = r

LeaseInv ==
  /\ DOMAIN active = Conversations
  /\ spent.edits = 0 => \A r \in Runs : LeaseSound(r)

\* A run Main has finished with is over, and so is one whose commit a crash of
\* the DataService rejected.
CloseSound(r) ==
  /\ pc[r] \in Early => ~Outstanding(CommitCall(r))
  /\ CommitCall(r) \in dead => ~IsActive(r)
  /\ spent.lost = 0 /\ (state[r].done \/ xpc[r] = "settled") => ~IsActive(r)

CloseInv ==
  /\ queue \in Seq(Runs \X {"prompt", "flush", "commit"})
  /\ \A r \in Runs : CloseSound(r)

\* What the router works on is in its map until close() empties it.
Entered == {"compiling", "starting", "preparing", "checking", "arming"}

InMap(r) ==
  closing # "closed" /\ (pc[r] \in Entered \/ session[r] # "none" \/ state[r].cancelReq) =>
    state[r].live

\* A cancel that has begun at a run is known to it, and one that has settled found
\* or made it finished.
CancelKnown(r) ==
  \A w \in Callers :
    /\ cpc[<<r, w>>] # "idle" => state[r].cancelReq
    /\ cpc[<<r, w>>] = "settled" => state[r].done

\* A child of a cancelled run is stopped on its way to the kernel or was reached by
\* the cancel; a cancel that goes on behind its children has waited for it.
ChildCaught(d) ==
  LET p == ParentOf[d] IN
  closing # "closed" /\ p # NoRun /\ state[p].cancelReq =>
    /\ pc[d] = "arming" => state[d].cancelReq \/ state[d].done
    /\ session[d] # "none" => state[d].done \/ cpc[<<d, "parent">>] # "idle"
    /\ session[d] # "none" /\ cpc[<<p, "user">>] \notin {"idle", "children", "rejected"} =>
         state[d].done \/ cpc[<<d, "parent">>] = "rejected"

\* The parent of a prompt is a prompt that was there before it, so the lineage of
\* the prompts that have come has no cycle.
Begun == {r \in Runs : pc[r] # "idle"}

LineageGrows ==
  /\ \A r \in Begun : ParentOf[r] \in Begun \cup {NoRun}
  /\ \A S \in SUBSET Begun : S # {} => \E r \in S : ParentOf[r] \notin S

CancelInv ==
  LineageGrows /\ \A r \in Runs : InMap(r) /\ CancelKnown(r) /\ ChildCaught(r)

Holds(s, t)     == \E i \in DOMAIN s : s[i] = t
Once(s, t)      == \A i, j \in DOMAIN s : s[i] = t /\ s[j] = t => i = j
Before(s, t, u) == \A i, j \in DOMAIN s : s[i] = t /\ s[j] = u => i < j

\* Every event emitted is pending, outstanding or reduced, in order.
TailWhole(r) ==
  LET s == state[r]  n == Len(sent[r]) IN
  /\ s.flush = "idle" => s.pend = {} /\ s.seen = n
  /\ s.flush = "waiting" => s.pend = s.seen + 1 .. n
  /\ s.flush = "appending" => s.pend = Upto(r) + 1 .. n

\* One append is under way for the tail that awaits it, none for another.
AppendOnce(r) ==
  /\ Once(queue, FlushCall(r))
  /\ FlushCall(r) \in dead => ~Holds(queue, FlushCall(r))
  /\ state[r].flush # "appending" =>
       FlushCall(r) \notin dead /\ ~Holds(queue, FlushCall(r))

\* A commit is asked for when no append is under way, so appends queue behind it.
CommitFirst(r) ==
  state[r].commit = "sent" =>
    /\ CommitCall(r) \in dead \/ Holds(queue, CommitCall(r))
    /\ Before(queue, CommitCall(r), FlushCall(r))

\* What is reduced is all of the log, unless an append has failed.
LogReduced(r) ==
  IsActive(r) /\ state[r].flush # "poisoned" => state[r].seen = lastSeq[r]

\* The commit of a completed run on its way to the store.
CommitWhole(r) ==
  IsActive(r) /\ state[r].commit = "sent" /\ state[r].outcome = "completed" =>
    /\ state[r].snap = lastSeq[r] /\ state[r].snap <= Len(sent[r])
    /\ \A i \in 1 .. state[r].snap : sent[r][i] # "failed"

WholeSound(r) ==
  /\ \A i \in 1 .. Len(sent[r]) - 1 : sent[r][i] = "delta"
  /\ pc[r] \in Early \cup Entered => session[r] = "none"
  /\ session[r] = "none" => sent[r] = <<>> /\ state[r].flush = "idle"
  /\ AppendOnce(r) /\ CommitFirst(r) /\ LogReduced(r) /\ CommitWhole(r)
  /\ Calm =>
       /\ kernel.state = "ready" /\ gen[r] = kernel.gen
       /\ ~state[r].done => TailWhole(r)

WholeInv == \A r \in Runs : WholeSound(r)
-----------------------------------------------------------------------------
(* What documents say and the code does not do *)

\* "Terminal assistant blocks, outcome, checkpoint, and usage commit atomically"
\* (harness/reference/acp-chat.md:28): no run has a checkpoint without the
\* assistant turn it belongs to.
CheckpointIsAtomic == \A r \in Runs : checkpoint[r] => Answered(r)

\* "Main validates the conversation, run, kernel, generation, event sequence, and
\* request tuple on every asynchronous result before persistence"
\* (harness/reference/multi-kernel-runtime.md:38): the answer to session.prompt
\* is taken from the generation the run was admitted for only.
AnswersAreGenerationChecked ==
  [][\A r \in Runs :
       pc[r] = "prompting" /\ pc'[r] \in {"checkpointing", "draining"} =>
         kernel.gen = gen[r]]_vars

\* "Cancelling an active parent ... cancels active descendants"
\* (harness/reference/upstream-clawx-0.5.8-next-batches.md:39): when the cancel
\* of a run has settled, every descendant the kernel still works on has been asked
\* to stop.
Under(d, r) ==
  \E chain \in SUBSET Runs :
    /\ d \in chain /\ r \notin chain
    /\ \A x \in chain : ParentOf[x] \in chain \cup {r}

CancelReachesDescendants ==
  \A r, d \in Runs :
    cpc[<<r, "user">>] = "settled" /\ Under(d, r) /\ pc[d] = "prompting" =>
      state[d].cancelReq

\* A timed-out cancel "must record the final outcome"
\* (docs/zh-CN/architecture/kernel-contract-v1.md:123): a run that was asked to
\* stop gets a terminal status.
CancelledRunsEnd == \A r \in Runs : state[r].cancelReq ~> ~IsActive(r)
=============================================================================
