# ClawX in TLA+

ClawX is an Electron desktop application that runs AI agents on exchangeable
*kernels* (the OpenClaw gateway, the DeepSeek harness). Main takes a prompt,
records it, hands it to a kernel process, records the events the kernel streams
back and commits the answer. Prompts come from the user, from the schedule of a
job and from messaging channels. One SQLite database, owned by a utility process,
is the only durable authority; everything else may crash, be restarted, time out
or be cancelled while a prompt is under way.

This directory models that path and the services of Main around it: the
conversation tables, the router that drives a run, the scheduler, the supervisor
of the kernel processes, the channel orchestrator, the host of the database
process and the manager of the OpenClaw Gateway. TLC checks the models on small
instances; TLAPS proves central facts for every instance.

| module | what it is |
| --- | --- |
| `RunLedger` | what the conversation tables promise, without tables: the abstract specification |
| `RunStore` | the conversation tables of `ClawXDataStore`, one action per write transaction |
| `RunStoreProofs` | its invariant and promises, proved; it implements `RunLedger` |
| `ConversationRouter` | `ConversationRouter` of Main on those tables, with the DataService queue and the kernel as it sees them; `EXTENDS RunStore` |
| `ConversationRouterProofs` | the router implements the tables and the ledger; its type invariant; the outcome shown is durable |
| `RouterPromiseProofs` | the other safety promises of the router, proved: events shown, map and lease, whole answers, cancels, close |
| `CronScheduler` | `ClawXScheduler`, the cron tables and the calls of the cron API |
| `CronSchedulerProofs` | its type invariant and safety properties, proved |
| `KernelSupervisor` | `KernelSupervisorRegistry` and `StdioKernelProcess` for one kernel |
| `KernelSupervisorProofs` | no process of a kernel runs that nobody owns, the state shown is true, starts are wanted, proved |
| `ChannelDelivery` | `ChannelOrchestrator` and the channel tables |
| `ChannelDeliveryProofs` | an envelope handed over again is prompted once, sends stay within their budget, nothing final is sent again, proved |
| `DataServiceHost` | `ElectronDataServiceHost`, its process and the RPC server in it |
| `DataServiceHostProofs` | one process at most works on the database, it knows the clients of the map, proved |
| `GatewayManager` | `GatewayManager`: start, stop, restart, reconnection, recovery |
| `GatewayManagerProofs` | its type invariant, one Gateway that is held, the stop that is final, proved |
| `MC*`, `*.cfg` | the instances for TLC |

`MCMainServices` joins the three services that share no state; `part` says which
of them a behaviour is about, so one exploration covers all three.

`PROJECT.json` lists the components, the runs, the faulty variant each property
was tried against, the source lines of every definition, the hazards, the
findings and the theorems.

## 1. Inventory

### Conversations

**Conversation tables** (`electron/data/clawx-data-store.ts`, `schema.ts`).
State: conversations (live, soft-deleted, branched from another), turns by
position, runs with status, kernel, generation and last event number, run
lineage, run events, runtime checkpoints. Operations: create, branch, delete
(soft, hard), `admitRun`, `markRunStarted`, `appendEvents`, `commitTerminalRun`,
`putCheckpoint`, and on opening the sweep `recoverInterruptedRuns`. Each is one
`BEGIN IMMEDIATE` transaction (`write`, 383-394) that rolls back when it throws.
Hard: callers retry, repeat and race; the restart sweep comes between any two of
their calls; cascades follow a hard delete. Correct means: one active run per
conversation, an answer directly behind its prompt, an answer exactly for the runs
a commit ended, a log that can be replayed, sound lineage, terminal runs frozen.

**Conversation router** (`electron/conversations/conversation-router.ts`). State:
`runs` (a `RunState` each), `activeByConversation`, `children`, `closing`. About
thirty await points in `prompt`, `cancel`, `close`, the event tail, the terminal
commit and child runs; all of them interleave. Correct means: the map and the
lease of the store agree; what the Renderer sees is durable; an answer is
committed whole and once; a cancel reaches the children and no child starts after
it; nothing is left waiting; a conversation becomes free again.

### Processes

**DataService host** (`electron/data/data-service-utility-host.ts`,
`data-service-rpc-server.ts`, `utility-process-entry.ts`). State: the process, the
start under way, pending requests, clients to reconnect, the restart counter; in
the process: the authenticated clients. Hard: a timed-out request may have been
applied; an exit rejects everything pending while a caller or the host itself
starts the next process; a start-up that hangs. Correct means: one process on the
database; every call is answered; every client is known again.

**Kernel supervisor** (`electron/kernels/supervisor-registry.ts`) and **stdio
process** (`stdio-kernel-process.ts`). State: per kernel a slot with process,
generation, state, crash times, restart timer, and a queue of operations; per
process the child, ready and stop flags, and a table of requests with timeouts.
Hard: detachment before stop, superseded starts, observers of exits behind queued
operations, crash budget, late answers, the quit beside the lock.

**Gateway manager** (`electron/gateway/manager.ts` and its controllers). State:
lifecycle state and epoch, the child and whether it is owned, socket, start lock,
restart in flight, deferred restart, reconnect timer and attempts, cooldown,
liveness deadline. Hard: start, stop, restart, reconnection, exits and reloads
overlap; methods call one another from within a status change.

### Sources of prompts

**Scheduler** (`electron/scheduler/clawx-scheduler.ts`, the cron tables). State:
the leader lease, jobs with revision and next instant, admissions by key, runs,
tails per job, active executions, timers. Hard: two schedulers around the expiry
of a lease, misfires and backlogs, rows written back after awaits, cancels racing
a dispatch, a restart of the database under a living scheduler.

**Channel orchestrator** (`electron/channels/channel-orchestrator.ts`, the channel
tables). State: inbound messages by external id, outbound messages with attempts,
one queue per conversation and one per message, retry timers. Hard: ends between a
send and its record, copies of a message read before another delivery ended,
envelopes handed over again.

### Other components with logic of their own, not modelled

| component | state and operations | hard behaviour |
| --- | --- | --- |
| Channel owner coordinator | owner leases with generations, connectors of accounts | see section 6 |
| Host tool broker, computer use | grants per run, permission dialogues, tools | a tool outliving its run |
| Kernel package manager | versions, activation with compare-and-set, rollback | a crash between download, verification and activation |
| Blob store, attachment grants | content addresses, reachability, grants | collection racing a new reference |
| Renderer stores, ACP reducer | projections of the events of a run | duplicates, order, reload during a run |

Domains (providers, agents, skills), credentials, configuration files, the host
API, windows and the updater are CRUD, conversions or operating system services;
`PROJECT.json` lists every one of them with the reason it is left out.

### How they interact

Main is one thread: components call one another and await. The router, the
scheduler and the orchestrator write through the DataService; the router sends to
kernels through the supervisor; the scheduler and the orchestrator prompt through
the router, and the scheduler hands results to the orchestrator. The models are
composed where the interaction carries the properties: router on tables (one
module extending the other), and the refinements to the ledger. Elsewhere a
module reduces its neighbours to what it can observe: the scheduler sees a prompt
that settles or is cancelled, the orchestrator sees calls that fail before or
after they were applied, the router sees a kernel that answers, fails or exits.

## 2. How the models correspond to the code

**A step is the code between two awaits**, in every module. An await is a reply of
the DataService, an answer of a kernel, a timer, another coroutine or the end of a
process. Constants bound what users, faults and kernels do; the bounds stand in
the guards, except `MaxTurns` of `MCRunStore`, a state constraint.

### RunLedger and RunStore

A ledger has, for each conversation, the latest run, and for each run its
conversation, its fate and what was recorded of it. `RunStore` maps to it: the
latest run owns the last turn, `fate` is the status (a swept run is interrupted,
a committed one answered), `entries` the event numbers and, once committed, the
answer.

A variable of `RunStore` is a column or a table; `status[r] = "absent"` says that
there is no row. Text, times, blobs, usage and search are abstracted. An event is
its number, kind, native id and the call it belongs to; equality of events stands
for equality of kind, payload and native id, which the replay test of
`appendEvents` compares. A transaction that throws is a stuttering step. Callers
are left open: any run, scope, batch or outcome may be presented at any time, so
what is proved holds for every client, not only for the router. The `cancelling`
status occurs in the schema and is never written. `Readable` says "there is a
chain of live rows up to a root" instead of following the parents recursively; a
branch inherits the history of its parent, of which only "it contains an answer"
is kept (`HasAnswer`).

### ConversationRouter

`pc[r]` says where `prompt` awaits, `cpc[<<r, who>>]` where a `cancel` of r awaits
(the user's, or that of the parent), `xpc[r]` where `close` awaits for r;
`state[r]` is the `RunState`: its `flush` is what `eventTail` does, its `commit`
what `committing` does.

* A DataService call appends to `queue`, as the FIFO of `ClawXDataService` does.
  The reply is taken in the step that applies the request; the crash or the
  timeout between the two is a step of its own: `Lost` answers a request with a
  failure after having applied it or not, `DataCrash` moves what is queued to
  `dead`, whose coroutines then fail one by one, and runs the sweep of the
  reopened database.
* `Refused` is the exact negation of the guard of the transaction.
* `Connect` does the connection, `runs.set`, `activeByConversation.set` and the
  sending of `compileContext` in one step, since the service authenticates a scope
  without waiting for the store.
* Events are numbered by the kernel; those of another generation, of a completed
  run or of a detached process are dropped. `Flush` takes all pending events and
  poisons the tail on a gap; `Appended` reduces and shows them after the append.
* A commit is `BeginCommit` (return, join or send), `Commit` and `Disconnect`, after
  which all who await it go on (`Settle`), or `CommitFails`: the prompt falls into
  its catch block, which tries once more, then gives the state up.
* An answer of `session.prompt` does not end the events of a run: the kernel may emit, and
  `acceptKernelEvent` takes, more of them until the commit has been answered. That is why the
  tail is awaited a second time after the attachment writes (432).
* A child prompt begins with `SpawnChild` and, when rejected, sweeps its empty
  conversation (one step for the export and the delete: nobody else knows the fresh
  identifier). The supervisor is what the router sees of it: `KernelStop`,
  `KernelExit`, `KernelStart`.

Runs, their conversations and their parents are named in advance; `pc = "idle"` is a
prompt nobody has sent. Attachment writes are one call before admission at most and
one call after the answer (`Attach`).

### CronScheduler

An execution is named by its admission key, `<<job, instant>>`. A tick is
`TickStart` and the awaits of `reconcileDueJobs`; an admission (`adm`) is decided by
the overlap policy and written, then queued on the tail of its job (`chain`). `ex`
is the execution with its prompt, timeout and delivery (`Deliver`: the outbound message is
admitted and linked, the answer has nothing to send and the run stays without a link, or a
call fails, applied or not); `canceller` a cancel of it
by the user or by `stop`; `renewal` the lease call in flight. A call is applied or
not when its reply is lost, and all calls in flight fail when the DataService exits,
whose reopening fails admitted and running runs. The user edits, toggles, deletes
and triggers jobs in two calls each, as the cron API does. Instants are small
numbers; only the order of `now`, leases and due instants matters.

### KernelSupervisor

`lock` is the queue of operations of one kernel, `at` where the first of them
awaits; kernels share nothing. `proc[g]` is the process object of generation g
together with its operating system process, because both may outlive the slot.
`Crashed` is the crash budget; the sliding window is a choice of how many crashes
are still counted. Health probes, requests with timeouts, late answers (which kill
the process) and the two phases of a quit are included.

### ChannelDelivery

`row[m]` joins the inbound message, the outbound message and its attempts; `exec`
is `executeInbound` or `deliverScheduledRun`, `lane` the queue of the conversation,
`del` the delivery that runs and `tail` those queued behind it. Calls are served in
order; each may fail before or after it was applied (`hurt` remembers for which
message). `MainEnds` drops everything but the rows.

### DataServiceHost

`host` are the fields of the host, `attempt` the start under way and who awaits it,
`process[n]` the utility processes, `client[k]` where a caller of `connect` or
`call` stands, `wire` the requests sent and not answered. The loop that reconnects
the clients is part of the attempt.

### GatewayManager

The methods call one another within a step: a status change may execute a deferred
restart, which stops, which changes the status. The manager is therefore one record
`gw`, a method that runs to its next await is an operator from such records to such
records, and an action applies one of them. `Asserted` is `assertLifecycle`:
a superseded start ends where the code looks at the epoch, and nowhere else.

## 3. What the runs show

| run | instance | shows |
| --- | --- | --- |
| `run_store` | 2 runs, 2 conversations, 1 generation, 7 batches | the tables keep their promises against any client: in-order, repeated, conflicting and gapped batches, a resolution without its request, children, branches, deletes, crashes; they implement the ledger |
| `router_two_prompts` | 2 prompts to 1 conversation, cancels of both, 2 lost replies, 1 DataService crash, 1 outage | map and lease agree; the outcome the Renderer is shown is durable; no start is announced after the end |
| `router_one_run` | 1 prompt of 2 events, a cancel, quit, an outage, 2 generations, a lost reply, a crash, a hard delete | the events shown are durable; a completed run has its whole answer; quit leaves no active run behind; nothing after the terminal event |
| `router_tree` | parent and child, a cancel of the parent, 1 lost reply | a settled cancel has dealt with the children; no child is dispatched under a cancelled parent |
| `router_settles` | 1 prompt, a cancel, quit, 2 lost replies, a crash, an outage | every prompt settles, the conversation becomes free, admitted runs end, quit finishes |
| `cron_turns` | 5 plans for one job: deliveries with a lost reply and a crash, replacement, backlog, edits, a shared conversation | no parallel turns, no instant forgotten, a completed run was prompted and its result is linked or has nothing to send, an edit is not undone |
| `cron_leaders` | 2 schedulers, leases of one instant | a due instant becomes one prompt |
| `cron_ends` | a restart of the DataService under a living scheduler | stop returns, every admitted run ends |
| `cron_overlap` | one lost reply | *violated*: an instant is skipped because of an execution that is over |
| `supervisor` | 4 generations, 1 restart; 2 calls with 1 failure or 1 call with 3 | no orphan, the state shown agrees with the process, starts are wanted and bounded, operations finish, a crashed kernel recovers |
| `main_services` | see below | the budget of sends, no resend, inbound once, outbound ends; one database process, clients served, calls settle; one Gateway and it is held, a stop is final, the Gateway comes back |
| `gateway_restart` | a start and two restarts, no failure | *violated*: a deferred restart is forgotten |

**Bounds.** They are the smallest at which the cases meet. Router: two prompts are
what the check in Main (router 212) and the lease of the store differ on; two lost
replies make both attempts of a commit fail; two generations let a run outlive its
kernel; one event is enough to have a batch pending, outstanding or refused, a second
one comes while the first is appended, the answer is attached or the commit is under
way (the run of two prompts has none: its properties do not look at events); a
parent and a child are enough for the cancel of children. Scheduler: three instants
with a limit of one make a backlog of three batches; two schedulers are what an
expired lease separates; owners are symmetric. Supervisor: one restart is below and
above the budget; four generations allow a start, a crash, an automatic and a
wanted start. Services: one message with two failing calls, with two ends of Main and
two redeliveries, two messages of one conversation, the result of a scheduled run;
`MaxAttempts` 2 is below and at the limit (the channel refuses nothing in the
instance with two messages: deliveries of two messages share no state). Two clients,
one automatic restart, four processes, with crashes or hanging start-ups. Gateway:
two reconnections, two start attempts, five processes (TLC never needs the last),
and four budgets of calls, crashes, failing steps and late ends.

**Deadlock** is not checked: in all systems everything may have been asked, answered
and ended, which is the end of a behaviour; that no coroutine hangs is the subject
of the liveness properties.

**Fairness** is assumed of what timers, the event loop, the queue of the DataService
and the operating system drive, never of users, of events, of faults or of the
exit of a healthy process. `KernelAnswer` and the prompts of scheduler and channel
are fair since `session.prompt` and `session.cancel` have timeouts; the exit of a
process is fair once it was sent SIGKILL (a grace period precedes it). The services
have one weak fairness condition each over the disjunction of such steps: it says that
the service does not stop for ever while any of them can be taken. That is enough
because what they work through is bounded.

**Each property was also run against a faulty variant** of a definition, the operators
commented "Fault:" beside the definition they replace, and found violated there. The
type invariants of the modules are stated beside the others; a run checks that of
`RunStore`, the proofs those of `RunStore`, `ConversationRouter`, `CronScheduler` and
`GatewayManager` and, of `DataServiceHost`, `ChannelDelivery` and `KernelSupervisor`, the
parts they need.

**Exceptions in the properties** are what the code does not promise.
`RunsEnd` and `PromptsSettle` leave out runs whose commit failed twice: Main gives
the run up (router 446) and its row stays active until the DataService is restarted.
`AnswerIsWhole` asks for the events emitted until the commit is sent only in behaviours
without an outage and until `close()` has emptied the map; an event that comes later, while
the commit is under way, is recorded in no completed run. `NoDispatchUnderCancel`
and `CancelReachesChildren` speak of the time until `close()` has emptied the map: what
goes on after it finds no run state to look at. `LeaseAgrees` leaves out conversations
deleted beside the router: a run whose row goes while its prompt connects enters the map
over the run admitted after the deletion. `CloseLeavesNoLease` leaves out lost replies, since a
commit that timed out is given up. `DispatchedOnce` and `DueAccounted` speak of jobs nobody
has edited. `AdmittedEnds` is checked without lost replies: when the reply of an admission or
of the write of "running" is lost, the row stays open until Main or the DataService is
restarted (that is also what `cron_overlap` shows). `CompletedIsTrue` speaks of the
outbound message, not of its sending: `deliver()` swallows a send that fails and returns when
the orchestrator is stopped (channel-orchestrator.ts 376, 404-420), so whether it is sent is the
subject of `ChannelDelivery`. `EditNotUndone` holds for one scheduler, and for several until a stale tick
brings a deleted job back. In `StartsAreWanted` the crashes that find automatic restarts
switched off do not count, nor does the automatic restart already queued then.
`SendBudget`, `OutboundEnds` and `CallsSettle` leave out messages of which a call has
failed (any call, though only that of an attempt can cost a send) and a Main that has
ended, `ScopesServed` a loop of reconnections one of whose
requests timed out. `GatewayHeld`, `StopIsFinal` and `GatewayRecovers`
leave out what follows a child that outlived its termination: its late exit clears
`ownsProcess` of its successor (manager.ts 1037). A stop that meets a restart in
flight is not final, because `restart()` goes on with `start()` after its own stop;
nor does a start count that meets a superseded one (343), or a restart in the
cooldown (635). The termination of a stale process (453-461), when it ends the last attempt
of a start, undoes a stop (`asked = "undone"`).

### Disagreements

Two runs end with a counterexample:

* `cron_overlap`: the write of "running" (clawx-scheduler.ts 433) stands before the
  `try` whose `finally` clears `activeByJob`. When that call fails, the execution stays
  registered for ever, and under the policy "skip" each later instant is recorded as
  missed: *"A previous execution of this job is still active"* (331).
* `gateway_restart`: *"we must honour the request - even if the gateway is now running"*
  (process-policy.ts 117-120). A restart that comes while another one is starting the
  Gateway is deferred; the end of `start()` executes it while `restartInFlight` is still
  set, so it joins a restart that is all but over (manager.ts 629), and the changed
  configuration is never loaded.

These formulas stand in the modules with what they quote; TLC contradicts each of them
on the instances here, but no run is kept for them:

* `QuitForcesAll` (`KernelSupervisor`): *"force-terminates each owned process tree after
  the deadline"* (`harness/reference/multi-kernel-runtime.md:48`). `stopUnlocked` empties
  the slot before it awaits the graceful stop (supervisor-registry.ts 476), so
  `forceTerminateAll` finds nothing to signal.
* `CheckpointIsAtomic` (`ConversationRouter`): *"Terminal assistant blocks, outcome,
  checkpoint, and usage commit atomically"* (`harness/reference/acp-chat.md:28`). The
  checkpoint is a transaction of its own before the commit (router 387).
* `AnswersAreGenerationChecked`: *"Main validates the ... generation ... on every
  asynchronous result"* (`harness/reference/multi-kernel-runtime.md:38`). The answer of a
  newer generation is accepted (router 364) while its events are dropped.
* `CancelReachesDescendants`: *"Cancelling an active parent ... cancels active
  descendants"* (`harness/reference/upstream-clawx-0.5.8-next-batches.md:39`). `cancel`
  does not descend through a child that has completed (router 457).
* `CancelledRunsEnd`: after a timed-out cancel the final outcome must be recorded
  (`docs/zh-CN/architecture/kernel-contract-v1.md:123`). A run cancelled before its dispatch
  leaves the commit to `cancel` (router 363), which may reject first (459).
* `OnTimeIsNotMissed`, `DeletedStaysDeleted`, `CancelsOwnRun`, `DeliveredIsLinked`
  (`CronScheduler`), `DeliveredStays` (`ChannelDelivery`) and `DeferralEnds`
  (`GatewayManager`) say what a reader may expect and no document promises: an instant
  executed on time is recorded as missed after a lost reply; an upsert brings a deleted job
  back; a cancel by conversation hits the user's own run; a delivery is not linked; the
  recovery gives up what is being delivered; a state that puts restarts off is left behind
  by a start that was superseded.
* `StopDisablesReconnect` (`GatewayManager`): *"Disable auto-reconnect"* (manager.ts 541).
  `terminateStaleOwnedProcess` reads `shouldReconnect` before it awaits the end of the stale
  process and writes it back (454, 461), also when `stop()` has cleared it meanwhile; if that was
  the last attempt, the failed start schedules a reconnection. The proof of `StopIsFinal`
  did not go through before the model took this write into account.

Two more are visible in the models as ends of Main: an automatic restart of the
DataService that fails while nobody awaits it is an unhandled rejection, upon which
`main/index.ts:1403` ends the process (`host.main = "gone"`); and a failing recovery of the
channels (`main/index.ts:1240`) keeps the scheduler from being started.

## 4. What is proved

All proofs are checked by TLAPS, for every value of the constants under the assumptions
named in the modules: sentinels differ from ids, limits are positive, batches are
non-empty sequences of events with positive numbers, each prompt has a conversation
and possibly a parent, generations are `1 .. MaxGen`, the callers of the DataService host are
finitely many.

**The tables.** None of the promises is inductive alone. `StoreInv` adds that a
run row lies in a present conversation (`RowsPlaced`), that the turns of a
conversation belong to its runs (`TurnsOwned`) and that *the newest turn of a
conversation with an active run is that run's prompt* (`ActiveHoldsTail`): this is
what makes a commit append the answer directly behind its prompt, and it depends on
`OneActiveRun`, hence on the unique index. Admission needs that an empty conversation
has no active run, and the sweep that a swept run never had an answer. There is one lemma
per action; `StoreInvariance` combines them and the promises follow.

**The tables implement the ledger** (`StoreImplementsLedger`): every transaction is a
step of `RunLedger` or changes nothing it speaks of. `ActiveHoldsTail` gives that an
appending or committing run is the latest of its conversation; the sweep is one
`Interrupt` of all open runs.

**The router.** `RouterTypeCorrect`: the run states stay in their domain, and an
outstanding batch starts right behind the events already shown. With it every step of the
router is one transaction of `RunStore` or leaves the tables alone. This (the lemma
`RouterImplementsStore`) holds by the shape of the module, which conjoins the transactions; it brings the promises of the tables to the
router: `RouterKeepsStore` and, of the ledger, `RouterImplementsLedger`.
`RouterTerminalIsDurable` uses `EndInv`: until the run state exists nobody can
ask for a commit, and from a successful commit to the terminal event the
table holds the outcome. Steps that neither commit nor end a run keep it because
the status of a run moves only while it is active.

**The DataService host.** `OneServiceHolds`: `OneService` is not inductive, because
`ensureReady` spawns when the host is not usable and no attempt is under way. `HostInv`
adds that a starting process is awaited by the attempt (`StartingIsAwaited`) and that a
serving one is the transport of a ready host (`ServingIsReady`); then nothing is alive when
a process is spawned, for any number of clients, processes, crashes and restarts.

`HostScopesServed` needs `ServedInv`, because `ScopesServed` says nothing while the loop of
reconnections runs, and other clients connect, leave and are answered beside it. Of the
wire it says that a request somebody awaits is the last of its caller, that a `connect`
which timed out is one of a client that has not connected since, and that a `disconnect` is one
of a client that has left the map (`WireSound`): so a request that comes late does not
change what the server knows of the map. Of the loop it says that at most one
`reconnect` is awaited, by the loop that sent it (`LoopSends`), that whoever the loop is
done with is served or is the one awaited, and that a client that connected beside the loop
stands in the map *behind* those that have not (`LoopServes`). The last part is why a loop that
meets such a client, whose second `service.connect` the server refuses, leaves nobody
out when it fails. With a request that timed out the server may know less than the map: that
is the condition `~partial` of the property.

**The router's other promises** (`RouterPromiseProofs`). The module first says what any step
can do to one part of the state (a run state, a row, a place in the prompt, the queue, a
cancel); the invariants are kept by these few moves, not by forty actions each.
`CommitInv`: no run state, session or commit exists before its time, and a commit is
reported once; `QuietAfterTerminal` and `StartedBeforeEnd` follow. `ShownInv`: what is shown is
a prefix of the log, and the log one of what the kernel emitted, hence `ShownIsDurable`.
`LeaseInv`: a prompt about to enter the map holds the lease of the store, unless its
answer is one of a DataService that has crashed; with `OneActiveRun` of the tables,
`LeaseAgrees`. `CloseInv`: what Main has finished with, and what a crash of the DataService
has rejected, is no longer active; `CloseLeavesNoLease`. `CancelInv`: the
parent of a prompt was there before it, so the lineage has no cycle and a cancel that awaits
children ends at the leaves; what works is in the map; a child of a cancelled
run is either stopped on its way to the kernel or was reached by the cancel. `WholeInv`:
every event emitted is pending, outstanding or reduced, in order; the log of an active run
is what is reduced, unless an append has failed; and the queue never holds an append
before a commit of the same run, so no event enters the log between the two. Hence
`AnswerIsWhole`, for events at any time until the commit is answered. The attempts showed that five of these
properties were false in corners the instances do not reach (a deletion beside a connecting
prompt, a prompt that goes on behind `close()`); TLC confirmed each on an instance made for
it, and the conditions named in section 3 say so.

**The scheduler.** `CronTyped`, and with it, for every set of jobs and schedulers, every
schedule, policy, limit and number of faults: `CronTurnsInOrder` (`TurnInv`: what runs is the
first of its tail, what is queued stands there once, what waits to replace another is in
none and waits once); `CronOnce` (`DispatchInv`: no prompt before the row nor before the
execution has begun); `CronCompleted` (`CompletedInv`: an execution that is
about to write "completed" was prompted, and its answer was found empty or its outbound message
was admitted and the link is in the write; what was admitted or found empty stays so); `CronAccounted` (`DueInv`: what
a tick has read is accounted for, and what it has worked through or has still to work
through reaches up to where the schedule continues); and, of edits, `CronEditsStay` for one
scheduler and `CronEditsStayUnlessReturned` for several (`EditInv`: what a tick holds is no
newer than the row; the put compares revisions). With two schedulers a deleted job that a stale
tick has inserted again has an old revision and undoes edits: the attempt to prove
`EditNotUndone` without a condition found it. `DueInv` rests on lemmas about what `Due`,
`NextAt` and the batches compute for every interval and limit.

**The channels.** `ChannelInboundOnce`: an envelope handed over again is prompted once.
`InboundOnce` says nothing of an execution that may still begin. `LaneInv` adds that what
executes has its row (`ExecutedIsKnown`) and is the first of its conversation's lane
(`ExecutesFirst`), that what waits behind it is admitted, touched by no execution and
waits once (`WaitsFresh`), and that an execution waits for one delivery at most, whose end
ends it (`OneDelivery`, `DeliveryQueued`). All are needed at once because one step of the
code ends an execution and begins the next of the lane; an admission joins a lane only with
a row that is new; and the end of Main empties every lane, while the rows it leaves keep
a copy that comes later out.

`ChannelSendBudget` and `ChannelNoResend` need `SendInv`. Until the recovery looks at a
message one thing at most asks for a delivery of it (`OneAsks`): the execution that has
stored the answer, a queued delivery, the timer or the row it reads. The recovery lists a
row once, and the call that stamps an answer stands in the queue before the recovery's look
at it (`RecoversOnce`, `AnswerIsNew`), so that the two never both deliver it first. After
the look deliveries may be queued twice; then `AttemptsCounted` bounds them (an attempt is
numbered from the rows, read before it is written), what the recovery gives up is delivered by
nobody else (`GivenUp`), and with the attempts used up the last is under way or none
(`Budgeted`). Messages are finitely many.

**The kernel supervisor.** `SupervisorNoOrphan`: every process that is neither dying nor being
stopped is the one of the slot. A step that empties the slot has to know that the process
in it does not run freely, each for a reason of its own, and `SupervisorInv` collects
them: a queued observer of an exit belongs to a process that has ended or is being
killed (`ExitsReal`); what a quit forces was sent its signal (`ForcedEnds`); what runs is held
by its `StdioKernelProcess`, so that a stop reaches it (`HeldWhileLive`); and a start, which
overwrites the slot, finds no process there that was ever ready and still runs
(`StartReplaces`: one that is not ready is awaited by the start at the head of the queue).
A late answer kills the process it came from, so requests name processes that exist
(`Addressed`).

`SupervisorStateAgrees` and `SupervisorStartsAreWanted` use `ShownInv`: an exit that was told stays
in the queue until its process is out of the slot (`Awaited`), each await of an operation
leaves one state in the slot (`Shown`), and while the window does not slide every automatic
start answers a crash of its own (`Budgeted`). An automatic restart that is still
queued when the user restarts by hand, while `setPolicy` switches restarts off, escapes that
count; the proof found it.

**The Gateway manager.** `GatewayIsHeld` and `GatewayStopFinal`, for every number of processes,
attempts, calls and failures. `HeldInv` says, as long as no child outlives its
termination: what has not ended is what the manager owns (`Holds`); the start under way
launches only when nothing is owned and is not ahead of the epoch (`Starts`); a restart
in flight is in its stop or in its start (`Restarts`); once the user has stopped it, no
reconnection waits and a start under way is superseded (`Off`); and a start that awaits the
end of the stale process has signalled that very process, and a stop that came since
awaits the same end (`Ends`), which is why the order in which the two continue does not
matter. Methods call one another, so there is one lemma per method: `Method` says what holds of
its outcome in any state, the rest that it keeps the invariant; an action combines those
of the methods it calls. Within the end of a process the invariant is broken until everyone
who awaits it was told (`Untold`, `UserTold`).

**Only model-checked**: the properties that are counterexamples above, and everything
temporal (TLAPS has no liveness under fairness here).
Induction over data cannot be proved either; no definition of these modules needs it.

## 5. What comes next

The host tools (grants, `approveTool`, `invokeTool`, dialogues that share the
event tail) are the next operations of the router; the owner coordinator is the next
component.

## 6. What is not modelled

* Host tools and permission dialogues, `configure` and `resolvePermission` of the router:
  they need a second numbering of events in the tail, which multiplies the states of the
  largest model here. `cancelConversationTree` (router 515), which calls the modelled
  `cancel` for every run of a conversation.
* Usage rows and the projections of events into tool and permission tables beyond the row
  an event needs; search, titles, pins, blob contents and grants.
* The channel owner coordinator. Its lease and its send are choices of the environment in
  `DeliverLease` and `DeliverSend`. Seen while reading: an activation that completes
  after a deactivation leaves a connector nobody owns; a superseded activation that fails
  deletes the map entry of its successor; after a crash a stale lease blocks an account
  until it expires and nothing retries.
* Of the Gateway manager: a Gateway started outside ClawX, the port on Windows, the probe
  behind `gatewayReady`, the table of RPC requests, diagnostics and capabilities; a termination
  within a start that outlasts its five seconds (that of a stop is modelled).
* Of the supervisor: package installation and the adapters of the two kernels; the kernel
  is an environment that answers, fails, hangs or exits.
* In `DataServiceHost` a failing start-up stands for each step of the hello that may fail,
  recovery mode included. Blobs, backups and recovery are file operations.
* The package manager, configuration delivery, credentials, domains, host API, windows,
  updater, extensions and scripts: `PROJECT.json` has the reason for each.
* The Renderer is represented by what the router emits.
