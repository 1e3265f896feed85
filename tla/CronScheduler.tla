--------------------------- MODULE CronScheduler ---------------------------
(***************************************************************************)
(* ClawXScheduler of Main and the cron tables of ClawXDataStore: leader     *)
(* lease, admission of due instants, overlap and misfire policies,          *)
(* executions, cancel and stop.  A step is the code between two awaits; the *)
(* step that applies a DataService call also takes its reply.               *)
(*                                                                          *)
(* An execution is named by its admission key, <<job, instant>>.  Time is a *)
(* bounded counter.  The Conversation Router is reduced to what a scheduled *)
(* prompt can observe of it; channels to an outbound row, an answer that    *)
(* holds nothing to send, or an error.                                      *)
(***************************************************************************)
EXTENDS Integers, Sequences, FiniteSets

CONSTANTS
  Jobs, Owners,
  NoOwner, Dead,      \* no lease row; the owner id of a crashed process
  None,               \* no instant, no execution
  LeaseDuration,
  Horizon,            \* bound: the last instant
  Plans               \* settings of the jobs with the bounds of an instance

Instants   == 0 .. Horizon
Executions == Jobs \X Instants
Callers    == {"tick", "user"}
Replies    == {"ok", "applied", "lost"}

PlanSpace ==
  [schedule : [kind : {"at", "interval"}, every : Nat \ {0}],
   misfire : {"skip", "run-once", "catch-up"}, overlap : {"skip", "queue", "replace"},
   delivering : BOOLEAN, reusing : BOOLEAN, limit : Nat \ {0}, horizon : Instants,
   edits : Nat, edited : Nat, manual : Nat, lost : Nat, crashes : Nat, foreign : Nat]

ASSUME ScheduleAssumption ==
  /\ NoOwner \notin Owners /\ Dead \notin Owners /\ None \notin Int
  /\ LeaseDuration \in Nat \ {0} /\ Horizon \in Nat
  /\ Plans \subseteq PlanSpace /\ \A p \in Plans : p.edited = 0

VARIABLES
  now,
  job,        \* cron_jobs rows
  run,        \* cron_admissions joined with cron_runs, by admission key
  lease,      \* the scheduler_leases row
  leader, stopped, cursor,   \* per owner: leader, stopped, manualCursor (-1: unused)
  renewal,    \* the renewOrAcquire call in flight
  tick,       \* reconcileDueJobs
  wake,       \* wakeTimer: when it fires
  adm,        \* admitAndQueue and admitMissed, by owner and caller
  chain,      \* jobTails: executions of a job in order, by owner
  active,     \* activeByJob, by owner
  live,       \* activeByRun: executions a cancel can find
  ex,         \* execute
  canceller,  \* cancel(cronRunId), by execution and caller
  closing,    \* stop(), by owner
  edit,       \* an update or toggle of the cron API between its two calls
  foreign,    \* the user's own run in a reused conversation
  dead,       \* calls rejected by the exit of the DataService
  plan,       \* the settings of the jobs and what is left of each bound
  \* History: prompts sent, executions whose result has an outbound channel
  \* message, executions whose answer held nothing to send, a stray cancel.
  dispatched, outbound, silent, strayed

store  == <<job, run, lease>>
outbox == <<outbound, silent>>
seen   == <<dispatched, outbox, strayed>>
vars   == <<now, store, leader, stopped, cursor, renewal, tick, wake, adm, chain,
            active, live, ex, canceller, closing, edit, foreign, dead, plan, seen>>

Lowest(S)  == CHOOSE x \in S : \A y \in S : x <= y
Highest(S) == CHOOSE x \in S : \A y \in S : y <= x

NoJob    == [present |-> FALSE, enabled |-> FALSE, revision |-> 0, next |-> None]
NoRun    == [status |-> "none", kind |-> "none", code |-> "none", linked |-> FALSE]
IdleTick == [at |-> "idle", snap |-> [j \in Jobs |-> NoJob], todo |-> {},
             cur |-> None, horizon |-> 0, many |-> FALSE, missed |-> {},
             exec |-> {}, follow |-> None, timed |-> FALSE]
IdleAdm  == [at |-> "idle", e |-> None, missed |-> FALSE, kind |-> "none",
             old |-> None]
Fresh    == [at |-> "none", owner |-> NoOwner, cancel |-> FALSE,
             prompt |-> "none", status |-> "none", linked |-> FALSE, retry |-> FALSE]
-----------------------------------------------------------------------------
(* Schedules *)

\* nextScheduleAt: the first instant strictly after t.
NextAt(j, t) ==
  LET s == plan.schedule IN
  IF s.kind = "at" THEN IF s.every > t THEN s.every ELSE None
  ELSE (t \div s.every + 1) * s.every

\* Fault: enumeration ends before the horizon itself.
DueTimes_Exclusive(j, first, horizon) ==
  LET all == {first} \cup
             {t \in first + 1 .. horizon - 1 : NextAt(j, t - 1) = t}
  IN {t \in all : Cardinality({u \in all : u < t}) < plan.limit}

\* enumerateDueScheduleTimes: the first due instant and those that follow up
\* to the horizon, at most CATCH_UP_LIMIT of them.
DueTimes(j, first, horizon) ==
  LET all == {first} \cup {t \in first + 1 .. horizon : NextAt(j, t - 1) = t}
  IN {t \in all : Cardinality({u \in all : u < t}) < plan.limit}

\* selectMisfires.
Selected(j, due) ==
  CASE plan.misfire = "catch-up" -> due
    [] plan.misfire = "skip"     -> {}
    [] OTHER                   -> IF due = {} THEN {} ELSE {Highest(due)}

\* Fault: after a full batch the schedule continues behind the horizon.
Following_DropsBacklog(j, due, horizon) == NextAt(j, horizon)

\* Where the schedule of a job continues after a batch.
Following(j, due, horizon) ==
  LET after == IF Cardinality(due) >= plan.limit
               THEN NextAt(j, Highest(due)) ELSE None
  IN IF after # None /\ after <= horizon THEN after ELSE NextAt(j, horizon)

DueRow(row, horizon) ==
  row.present /\ row.enabled /\ (row.next = None \/ row.next <= horizon)

\* nextJobRun of the cron API.
ApiNext(j, t) == IF plan.schedule.kind = "at" THEN plan.schedule.every ELSE NextAt(j, t)
-----------------------------------------------------------------------------
(* DataService calls *)

\* A call is answered, or it times out with or without having been applied, or
\* it was rejected because the DataService exited while it was pending.
Answered(call, r) ==
  \/ /\ r = "ok" /\ call \notin dead
     /\ UNCHANGED <<dead, plan>>
  \/ /\ r # "ok" /\ call \notin dead /\ plan.lost > 0
     /\ plan' = [plan EXCEPT !.lost = @ - 1]
     /\ UNCHANGED dead
  \/ /\ r = "lost" /\ call \in dead
     /\ dead' = dead \ {call}
     /\ UNCHANGED plan

Applied(r) == r # "lost"

\* putCronRun: the row is written whatever its status was; without the
\* admission the foreign key refuses it.
PutRun(e, status, code, linked, r) ==
  run' = IF Applied(r) /\ run[e].status # "none"
         THEN [run EXCEPT ![e] = [@ EXCEPT !.status = status, !.code = code,
                                           !.linked = linked]]
         ELSE run
PutOk(e, r) == r = "ok" /\ run[e].status # "none"

CronInit ==
  /\ plan \in Plans
  /\ now = 0
  /\ job = [j \in Jobs |-> [present |-> TRUE, enabled |-> TRUE, revision |-> 1,
                            next |-> ApiNext(j, 0)]]
  /\ run = [e \in Executions |-> NoRun]
  /\ lease = [owner |-> NoOwner, expires |-> 0]
  /\ leader = [o \in Owners |-> FALSE]
  /\ stopped = [o \in Owners |-> TRUE]
  /\ cursor = [o \in Owners |-> -1]
  /\ renewal = [o \in Owners |-> [at |-> "idle", sent |-> 0]]
  /\ tick = [o \in Owners |-> IdleTick]
  /\ wake = [o \in Owners |-> None]
  /\ adm = [x \in Owners \X Callers |-> IdleAdm]
  /\ chain = [x \in Owners \X Jobs |-> <<>>]
  /\ active = [x \in Owners \X Jobs |-> None]
  /\ live = {}
  /\ ex = [e \in Executions |-> Fresh]
  /\ canceller = [x \in Executions \X {"user", "stop"} |-> "idle"]
  /\ closing = [o \in Owners |-> [at |-> "idle", tails |-> {}]]
  /\ edit = [at |-> "idle", j |-> None, row |-> NoJob]
  /\ foreign = [j \in Jobs |-> FALSE]
  /\ dead = {}
  /\ dispatched = [e \in Executions |-> 0]
  /\ outbound = {} /\ silent = {}
  /\ strayed = FALSE
-----------------------------------------------------------------------------
(* Leadership *)

Start(o) ==
  /\ stopped[o] /\ closing[o].at = "idle" /\ renewal[o].at = "idle"
  /\ stopped' = [stopped EXCEPT ![o] = FALSE]
  /\ renewal' = [renewal EXCEPT ![o] = [at |-> "start", sent |-> now]]
  /\ UNCHANGED <<now, store, leader, cursor, tick, wake, adm, chain, active, live, ex,
                 canceller, closing, edit, foreign, dead, plan, seen>>

RenewTimer(o) ==
  /\ ~stopped[o] /\ renewal[o].at = "idle" /\ renewal[o].sent < now
  /\ renewal' = [renewal EXCEPT ![o] =
       [at |-> IF leader[o] THEN "renew" ELSE "acquire", sent |-> now]]
  /\ UNCHANGED <<now, store, leader, stopped, cursor, tick, wake, adm, chain, active,
                 live, ex, canceller, closing, edit, foreign, dead, plan, seen>>

\* Fault: the expiry of another owner's lease is not looked at.
LeaseOpen_Ignored(o, sent) == TRUE

\* acquireSchedulerLease with the clock of the moment the call was made.
LeaseOpen(o, sent) == lease.owner \in {NoOwner, o} \/ lease.expires <= sent

\* The lease timer is armed after the first acquisition only when that call
\* returned; a renewal that failed gives leadership up.  A leader ticks.
Renewed(o, r) ==
  LET sent == renewal[o].sent
      mine == CASE renewal[o].at = "renew" -> lease.owner = o /\ lease.expires > sent
                [] OTHER                   -> LeaseOpen(o, sent)
  IN /\ renewal[o].at \in {"start", "renew", "acquire"}
     /\ Answered(<<"lease", o>>, r)
     /\ lease' = IF Applied(r) /\ mine
                 THEN [owner |-> o, expires |-> sent + LeaseDuration] ELSE lease
     /\ leader' = [leader EXCEPT ![o] = IF r = "ok" THEN mine
                                        ELSE @ /\ renewal[o].at # "renew"]
     /\ renewal' = [renewal EXCEPT ![o] =
          [at |-> IF renewal[o].at = "start" /\ r # "ok" THEN "never" ELSE "idle",
           sent |-> sent]]
     /\ LET leads == leader'[o] /\ ~stopped[o] IN
        /\ tick' = IF leads /\ tick[o].at = "idle"
                   THEN [tick EXCEPT ![o].at = "list"] ELSE tick
        /\ wake' = IF leader'[o] THEN wake ELSE [wake EXCEPT ![o] = None]
     /\ UNCHANGED <<now, job, run, stopped, cursor, adm, chain, active, live,
                    ex, canceller, closing, edit, foreign, seen>>
-----------------------------------------------------------------------------
(* Admission *)

\* The tick asks for the admission of one instant.
TickAsks(o, tk, t, missed) ==
  /\ tick' = [tick EXCEPT ![o] = tk]
  /\ adm' = [adm EXCEPT ![<<o, "tick">>] =
       [IdleAdm EXCEPT !.at = "admit", !.e = <<tk.cur, t>>, !.missed = missed,
          !.kind = IF tk.many \/ (~missed /\ t < tk.horizon) THEN "misfire"
                   ELSE "scheduled"]]

\* The next call of the loop over one job: skipped instants first, then the
\* selected ones, then the new nextRunAt.
Work(o, tk) ==
  \/ /\ tk.missed # {}
     /\ TickAsks(o, [tk EXCEPT !.at = "work", !.missed = @ \ {Lowest(@)}],
                 Lowest(tk.missed), TRUE)
  \/ /\ tk.missed = {} /\ tk.exec # {}
     /\ TickAsks(o, [tk EXCEPT !.at = "work", !.exec = @ \ {Lowest(@)}],
                 Lowest(tk.exec), FALSE)
  \/ /\ tk.missed = {} /\ tk.exec = {}
     /\ tick' = [tick EXCEPT ![o] = [tk EXCEPT !.at = "persist"]]
     /\ adm' = [adm EXCEPT ![<<o, "tick">>] = IdleAdm]

NextJob(o, tk) ==
  LET rest == {j \in tk.todo : DueRow(tk.snap[j], tk.horizon)} IN
  \/ /\ rest = {}
     /\ tick' = [tick EXCEPT ![o] = IF leader[o] /\ ~stopped[o]
                   THEN [IdleTick EXCEPT !.at = "arm", !.timed = tk.timed]
                   ELSE IdleTick]
     /\ adm' = [adm EXCEPT ![<<o, "tick">>] = IdleAdm]
  \/ \E j \in rest :
       LET first == tk.snap[j].next
           due   == IF first = None THEN {} ELSE DueTimes(j, first, tk.horizon)
       IN Work(o, [tk EXCEPT !.todo = @ \ {j}, !.cur = j,
                     !.many = Cardinality(due) > 1,
                     !.missed = due \ Selected(j, due), !.exec = Selected(j, due),
                     !.follow = IF first = None THEN NextAt(j, tk.horizon)
                                ELSE Following(j, due, tk.horizon)])

\* wakeTimer fires; tickNow joins a tick that is under way.
TickStart(o) ==
  /\ wake[o] # None /\ wake[o] <= now
  /\ wake' = [wake EXCEPT ![o] = None]
  /\ tick' = IF leader[o] /\ ~stopped[o]
             THEN [tick EXCEPT ![o].at = IF @ = "idle" THEN "list" ELSE @,
                               ![o].timed = TRUE]
             ELSE tick
  /\ UNCHANGED <<now, store, leader, stopped, cursor, renewal, adm, chain, active,
                 live, ex, canceller, closing, edit, foreign, dead, plan, seen>>

\* Every call of a tick may reject it: a tick of the timer arms the timer again.
TickFails(o) ==
  /\ tick' = [tick EXCEPT ![o] = IdleTick]
  /\ wake' = IF tick[o].timed /\ leader[o] /\ ~stopped[o]
             THEN [wake EXCEPT ![o] = now + 1] ELSE wake
  /\ adm' = [adm EXCEPT ![<<o, "tick">>] = IdleAdm]

\* armNextFromStore.
TickArm(o, r) ==
  LET nexts == {job[j].next : j \in {i \in Jobs : job[i].present /\ job[i].enabled
                                                 /\ job[i].next # None}} IN
  /\ tick[o].at = "arm"
  /\ Answered(<<"tick", o>>, r)
  /\ IF r # "ok" THEN TickFails(o)
     ELSE /\ tick' = [tick EXCEPT ![o] = IdleTick]
          /\ wake' = [wake EXCEPT ![o] = IF nexts = {} THEN None ELSE Lowest(nexts)]
          /\ UNCHANGED adm
  /\ UNCHANGED <<now, store, leader, stopped, cursor, renewal, chain, active, live,
                 ex, canceller, closing, edit, foreign, seen>>

TickList(o, r) ==
  /\ tick[o].at = "list"
  /\ Answered(<<"tick", o>>, r)
  /\ IF r = "ok"
     THEN /\ NextJob(o, [tick[o] EXCEPT !.snap = job, !.todo = Jobs, !.horizon = now])
          /\ UNCHANGED wake
     ELSE TickFails(o)
  /\ UNCHANGED <<now, store, leader, stopped, cursor, renewal, chain, active, live,
                 ex, canceller, closing, edit, foreign, seen>>

\* Fault: the put does not compare revisions.
Puttable_Any(j, revision) == TRUE

\* putCronJob refuses an older revision only; a row that is gone is inserted.
Puttable(j, revision) == ~(job[j].present /\ revision < job[j].revision)

\* persistNextRun writes the whole row as the tick read it.
TickPersist(o, r) ==
  LET j == tick[o].cur
      follow == tick[o].follow
      put == Puttable(j, tick[o].snap[j].revision)
  IN /\ tick[o].at = "persist"
     /\ Answered(<<"tick", o>>, r)
     /\ job' = IF Applied(r) /\ put
               THEN [job EXCEPT ![j] = [tick[o].snap[j] EXCEPT !.next = follow,
                       !.enabled = @ /\ ~(plan.schedule.kind = "at" /\ follow = None)]]
               ELSE job
     /\ IF r = "ok" /\ put THEN NextJob(o, tick[o]) /\ UNCHANGED wake
        ELSE TickFails(o)
     /\ UNCHANGED <<now, run, lease, leader, stopped, cursor, renewal, chain, active,
                    live, ex, canceller, closing, edit, foreign, seen>>

\* trigger: an instant of its own, now or behind the last one.
Trigger(o, j) ==
  LET at == IF cursor[o] + 1 > now THEN cursor[o] + 1 ELSE now IN
  /\ leader[o] /\ ~stopped[o] /\ adm[<<o, "user">>].at = "idle"
  /\ job[j].present /\ at <= plan.horizon /\ plan.manual > 0
  /\ plan' = [plan EXCEPT !.manual = @ - 1]
  /\ cursor' = [cursor EXCEPT ![o] = at]
  /\ adm' = [adm EXCEPT ![<<o, "user">>] =
       [@ EXCEPT !.at = "admit", !.e = <<j, at>>, !.kind = "manual"]]
  /\ UNCHANGED <<now, store, leader, stopped, renewal, tick, wake, chain, active, live, ex,
                 canceller, closing, edit, foreign, dead, seen>>

\* The caller goes on: the tick with its next call, the user's is done.
CallerNext(o, w) ==
  IF w = "tick" THEN Work(o, tick[o]) /\ UNCHANGED wake
  ELSE adm' = [adm EXCEPT ![<<o, w>>] = IdleAdm] /\ UNCHANGED <<tick, wake>>
CallerFails(o, w) ==
  IF w = "tick" THEN TickFails(o)
  ELSE adm' = [adm EXCEPT ![<<o, w>>] = IdleAdm] /\ UNCHANGED <<tick, wake>>
CallerWaits(o, w, at) ==
  adm' = [adm EXCEPT ![<<o, w>>].at = at] /\ UNCHANGED <<tick, wake>>

Enqueue(o, e) ==
  /\ chain' = [chain EXCEPT ![<<o, e[1]>>] = Append(@, e)]
  /\ ex' = [ex EXCEPT ![e] = [Fresh EXCEPT !.at = "queued", !.owner = o]]

\* Fault: the admission does not say whether it inserted the row.
Inserted_Always(e) == TRUE

Inserted(e) == run[e].status = "none"

InFlight(e) == ex[e].prompt \in {"setup", "active"}

\* cancelExecution asks the router for the active run of the conversation and
\* cancels that one, whosesoever it is.
Strays(e) == strayed' = (strayed \/ foreign[e[1]])

\* Bound: an instant is not admitted anew (after a delete) while the execution
\* of the deleted admission is still under way or waits to replace another one:
\* in the code the two have different run ids.
Admit(o, w, r) ==
  LET e == adm[<<o, w>>].e
      j == e[1]
      ins == Inserted(e)
      existing == active[<<o, j>>]
      overlaps == existing # None \/ chain[<<o, j>>] # <<>>
      skips == adm[<<o, w>>].missed \/ (plan.overlap = "skip" /\ overlaps)
      replaces == plan.overlap = "replace" /\ existing # None
  IN /\ adm[<<o, w>>].at = "admit"
     /\ ins => /\ ex[e].at \in {"none", "over"}
               /\ \A x \in Owners \X Callers : adm[x].at = "replace" => adm[x].e # e
     /\ Answered(<<"adm", o, w>>, r)
     /\ run' = IF Applied(r) /\ job[j].present /\ ins
               THEN [run EXCEPT ![e] =
                       [status |-> IF adm[<<o, w>>].missed THEN "missed" ELSE "admitted",
                        kind |-> adm[<<o, w>>].kind, code |-> "none", linked |-> FALSE]]
               ELSE run
     /\ \/ /\ r # "ok" \/ ~job[j].present
           /\ CallerFails(o, w) /\ UNCHANGED <<chain, ex, strayed>>
        \/ /\ r = "ok" /\ job[j].present /\ ~ins
           /\ CallerNext(o, w) /\ UNCHANGED <<chain, ex, strayed>>
        \/ /\ r = "ok" /\ job[j].present /\ ins
           /\ \/ /\ skips
                 /\ CallerWaits(o, w, "put") /\ UNCHANGED <<chain, ex, strayed>>
              \/ /\ ~skips /\ replaces
                 /\ adm' = [adm EXCEPT ![<<o, w>>].at = "replace",
                                       ![<<o, w>>].old = existing]
                 /\ UNCHANGED <<tick, wake>>
                 /\ ex' = [ex EXCEPT ![existing].cancel = TRUE]
                 /\ Strays(e) /\ UNCHANGED chain
              \/ /\ ~skips /\ ~replaces
                 /\ CallerNext(o, w) /\ Enqueue(o, e) /\ UNCHANGED strayed
     /\ UNCHANGED <<now, job, lease, leader, stopped, cursor, renewal, active, live,
                    canceller, closing, edit, foreign, dispatched, outbox>>

\* finishRun of a missed instant or of a skipped overlap.
PutMissed(o, w, r) ==
  LET e == adm[<<o, w>>].e IN
  /\ adm[<<o, w>>].at = "put"
  /\ Answered(<<"adm", o, w>>, r)
  /\ PutRun(e, "missed", IF adm[<<o, w>>].missed THEN "MISFIRE_SKIPPED"
                         ELSE "OVERLAP_SKIPPED", FALSE, r)
  /\ IF PutOk(e, r) THEN CallerNext(o, w) ELSE CallerFails(o, w)
  /\ UNCHANGED <<now, job, lease, leader, stopped, cursor, renewal, chain, active,
                 live, ex, canceller, closing, edit, foreign, seen>>

\* The prompt of the replaced execution has settled.
Replaced(o, w) ==
  LET e == adm[<<o, w>>].e IN
  /\ adm[<<o, w>>].at = "replace"
  /\ ~InFlight(adm[<<o, w>>].old)
  /\ Enqueue(o, e) /\ CallerNext(o, w)
  /\ UNCHANGED <<now, store, leader, stopped, cursor, renewal, active, live,
                 canceller, closing, edit, foreign, dead, plan, seen>>
-----------------------------------------------------------------------------
(* Executions *)

\* Fault: a finished execution stays the active one of its job.
Leave_KeepsActive(e) ==
  /\ chain' = [chain EXCEPT ![<<ex[e].owner, e[1]>>] = Tail(@)]
  /\ live' = live \ {e}
  /\ UNCHANGED active

\* Leaving execute: the tail moves on; a run that was registered is forgotten.
Leave(e) ==
  LET o == ex[e].owner IN
  /\ chain' = [chain EXCEPT ![<<o, e[1]>>] = Tail(@)]
  /\ active' = [active EXCEPT ![<<o, e[1]>>] = IF @ = e THEN None ELSE @]
  /\ live' = live \ {e}

\* The final write of an execution; again says that a failure of it is caught
\* and followed by a second one.
Ends(e, status, linked, again) ==
  [ex EXCEPT ![e].at = "ending", ![e].status = status, ![e].linked = linked,
             ![e].retry = again]

Outcome(e, otherwise) == IF ex[e].cancel THEN "cancelled" ELSE otherwise

\* Fault: nothing begins after stop(), not even to be ended.
Begin_NotWhenStopped(e, ready) ==
  LET o == ex[e].owner
      j == e[1]
  IN /\ ex[e].at = "queued" /\ chain[<<o, j>>] # <<>> /\ Head(chain[<<o, j>>]) = e
     /\ ready /\ ~stopped[o]
     /\ ex' = [ex EXCEPT ![e].at = "starting"]
     /\ active' = [active EXCEPT ![<<o, j>>] = e]
     /\ live' = live \cup {e}
     /\ UNCHANGED <<now, store, leader, stopped, cursor, renewal, tick, wake, adm, chain,
                    canceller, closing, edit, foreign, dead, plan, seen>>

\* The execution whose predecessors have settled begins.
Begin(e, ready) ==
  LET o == ex[e].owner
      j == e[1]
  IN /\ ex[e].at = "queued" /\ chain[<<o, j>>] # <<>> /\ Head(chain[<<o, j>>]) = e
     /\ IF stopped[o] \/ ~ready
        THEN /\ ex' = Ends(e, IF stopped[o] THEN "cancelled" ELSE "failed", FALSE, FALSE)
             /\ UNCHANGED <<active, live>>
        ELSE /\ ex' = [ex EXCEPT ![e].at = "starting"]
             /\ active' = [active EXCEPT ![<<o, j>>] = e]
             /\ live' = live \cup {e}
     /\ UNCHANGED <<now, store, leader, stopped, cursor, renewal, tick, wake, adm, chain,
                    canceller, closing, edit, foreign, dead, plan, seen>>

\* The "running" row; this call stands before the try block, so that a failure
\* leaves the execution registered for ever.
Running(e, r) ==
  LET o == ex[e].owner IN
  /\ ex[e].at = "starting"
  /\ Answered(<<"run", e>>, r)
  /\ PutRun(e, "running", "none", FALSE, r)
  /\ \/ /\ ~PutOk(e, r)
        /\ ex' = [ex EXCEPT ![e].at = "over"]
        /\ chain' = [chain EXCEPT ![<<o, e[1]>>] = Tail(@)]
        /\ UNCHANGED dispatched
     \/ /\ PutOk(e, r) /\ ex[e].cancel
        /\ ex' = Ends(e, "cancelled", FALSE, TRUE)
        /\ UNCHANGED <<chain, dispatched>>
     \/ /\ PutOk(e, r) /\ ~ex[e].cancel
        /\ ex' = [ex EXCEPT ![e].at = "prompting", ![e].prompt = "setup"]
        /\ dispatched' = [dispatched EXCEPT ![e] = @ + 1]
        /\ UNCHANGED chain
  /\ UNCHANGED <<now, job, lease, leader, stopped, cursor, renewal, tick, wake, adm, active,
                 live, canceller, closing, edit, foreign, outbox, strayed>>

\* The Conversation Router: a run becomes active unless the conversation is
\* taken, and settles with or without an answer.
PromptAdvances(e, p) ==
  /\ \/ ex[e].prompt = "setup" /\ p = "failed"
     \/ ex[e].prompt = "setup" /\ p = "active" /\ ~foreign[e[1]]
     \/ ex[e].prompt = "active" /\ p \in {"ok", "failed"}
  /\ ex' = [ex EXCEPT ![e].prompt = p]
  /\ UNCHANGED <<now, store, leader, stopped, cursor, renewal, tick, wake, adm, chain,
                 active, live, canceller, closing, edit, foreign, dead, plan, seen>>

\* The outcome of the race between the prompt and its timer.
Settled(e) ==
  /\ ex[e].at = "prompting" /\ ex[e].prompt \in {"ok", "failed"}
  /\ ex' = IF ex[e].prompt = "failed" THEN Ends(e, Outcome(e, "failed"), FALSE, FALSE)
           ELSE IF plan.delivering THEN [ex EXCEPT ![e].at = "delivering"]
           ELSE Ends(e, Outcome(e, "completed"), FALSE, TRUE)
  /\ UNCHANGED <<now, store, leader, stopped, cursor, renewal, tick, wake, adm, chain,
                 active, live, canceller, closing, edit, foreign, dead, plan, seen>>

Timeout(e) ==
  /\ ex[e].at = "prompting" /\ InFlight(e)
  /\ ex' = [ex EXCEPT ![e].at = "timeout", ![e].cancel = TRUE]
  /\ Strays(e)
  /\ UNCHANGED <<now, store, leader, stopped, cursor, renewal, tick, wake, adm, chain,
                 active, live, canceller, closing, edit, foreign, dead, plan,
                 dispatched, outbox>>

\* Fault: the timed-out execution does not wait for its prompt.
TimedOut_NotAwaited(e) ==
  /\ ex[e].at = "timeout"
  /\ ex' = Ends(e, "timed-out", FALSE, TRUE)
  /\ UNCHANGED <<now, store, leader, stopped, cursor, renewal, tick, wake, adm, chain,
                 active, live, canceller, closing, edit, foreign, dead, plan, seen>>

TimedOut(e) ==
  /\ ex[e].at = "timeout" /\ ~InFlight(e)
  /\ ex' = Ends(e, "timed-out", FALSE, TRUE)
  /\ UNCHANGED <<now, store, leader, stopped, cursor, renewal, tick, wake, adm, chain,
                 active, live, canceller, closing, edit, foreign, dead, plan, seen>>

Deliveries == {"linked", "empty", "failed"}

\* Fault: a delivery that failed does not fail the execution.
Deliver_Ignored(e, outcome) ==
  /\ ex[e].at = "delivering"
  /\ silent' = silent \cup (IF outcome = "empty" THEN {e} ELSE {})
  /\ outbound' = outbound \cup (IF outcome = "linked" THEN {e} ELSE {})
  /\ ex' = Ends(e, Outcome(e, "completed"), outcome = "linked", TRUE)
  /\ UNCHANGED <<now, store, leader, stopped, cursor, renewal, tick, wake, adm, chain,
                 active, live, canceller, closing, edit, foreign, dead, plan,
                 dispatched, strayed>>

\* deliverScheduledRun, its calls in one step: the outbound message is admitted
\* and its id returned ("linked"), the answer holds neither text nor attachment
\* and there is no id ("empty"), or a call fails, the admission applied or not.
\* Sending the message is ChannelDelivery's: a send that fails raises no error here.
Deliver(e, outcome) ==
  /\ ex[e].at = "delivering"
  /\ silent' = silent \cup (IF outcome = "empty" THEN {e} ELSE {})
  /\ \/ outcome \in {"linked", "failed"} /\ outbound' = outbound \cup {e}
     \/ outcome \in {"empty", "failed"}  /\ UNCHANGED outbound
  /\ ex' = IF outcome = "failed" THEN Ends(e, Outcome(e, "failed"), FALSE, FALSE)
           ELSE Ends(e, Outcome(e, "completed"), outcome = "linked", TRUE)
  /\ UNCHANGED <<now, store, leader, stopped, cursor, renewal, tick, wake, adm, chain,
                 active, live, canceller, closing, edit, foreign, dead, plan,
                 dispatched, strayed>>

\* The final write fails inside the try block: the catch block writes again,
\* without the link to the outbound message.
Ended(e, r) ==
  /\ ex[e].at = "ending"
  /\ Answered(<<"run", e>>, r)
  /\ PutRun(e, ex[e].status, "none", ex[e].linked, r)
  /\ IF ~PutOk(e, r) /\ ex[e].retry
     THEN ex' = Ends(e, Outcome(e, "failed"), FALSE, FALSE)
          /\ UNCHANGED <<chain, active, live>>
     ELSE ex' = [ex EXCEPT ![e].at = "over"] /\ Leave(e)
  /\ UNCHANGED <<now, job, lease, leader, stopped, cursor, renewal, tick, wake, adm,
                 canceller, closing, edit, foreign, seen>>
-----------------------------------------------------------------------------
(* Cancel and stop *)

\* cancel(cronRunId) of the user; an execution that is not registered is refused.
Cancel(e) ==
  /\ e \in live /\ canceller[<<e, "user">>] = "idle"
  /\ canceller' = [canceller EXCEPT ![<<e, "user">>] = "wait"]
  /\ ex' = [ex EXCEPT ![e].cancel = TRUE]
  /\ Strays(e)
  /\ UNCHANGED <<now, store, leader, stopped, cursor, renewal, tick, wake, adm, chain,
                 active, live, closing, edit, foreign, dead, plan, dispatched,
                 outbox>>

CancelWaited(e, w) ==
  /\ canceller[<<e, w>>] = "wait" /\ ~InFlight(e)
  /\ canceller' = [canceller EXCEPT ![<<e, w>>] = "put"]
  /\ UNCHANGED <<now, store, leader, stopped, cursor, renewal, tick, wake, adm, chain,
                 active, live, ex, closing, edit, foreign, dead, plan, seen>>

\* The row is written from the admission: without the run and its message.
CancelPut(e, w, r) ==
  /\ canceller[<<e, w>>] = "put"
  /\ Answered(<<"cancel", e, w>>, r)
  /\ PutRun(e, "cancelled", "none", FALSE, r)
  /\ canceller' = [canceller EXCEPT ![<<e, w>>] = "over"]
  /\ UNCHANGED <<now, job, lease, leader, stopped, cursor, renewal, tick, wake, adm, chain,
                 active, live, ex, closing, edit, foreign, seen>>

Mine(o) == {e \in live : ex[e].owner = o}

Stop(o) ==
  /\ ~stopped[o]
  /\ stopped' = [stopped EXCEPT ![o] = TRUE]
  /\ wake' = [wake EXCEPT ![o] = None]
  /\ closing' = [closing EXCEPT ![o].at = "cancels"]
  /\ canceller' = [x \in Executions \X {"user", "stop"} |->
                     IF x[2] = "stop" /\ x[1] \in Mine(o) THEN "wait" ELSE canceller[x]]
  /\ ex' = [e \in Executions |-> IF e \in Mine(o) THEN [ex[e] EXCEPT !.cancel = TRUE]
                                 ELSE ex[e]]
  /\ strayed' = (strayed \/ \E e \in Mine(o) : foreign[e[1]])
  /\ UNCHANGED <<now, store, leader, cursor, renewal, tick, adm, chain, active, live,
                 edit, foreign, dead, plan, dispatched, outbox>>

StopCancelled(o) ==
  /\ closing[o].at = "cancels"
  /\ \A e \in Executions : ex[e].owner = o => canceller[<<e, "stop">>] \in {"idle", "over"}
  /\ closing' = [closing EXCEPT ![o] = [at |-> "tails", tails |->
       {e \in Executions : ex[e].owner = o /\ \E i \in DOMAIN chain[<<o, e[1]>>] :
                             chain[<<o, e[1]>>][i] = e}]]
  /\ UNCHANGED <<now, store, leader, stopped, cursor, renewal, tick, wake, adm, chain, active,
                 live, ex, canceller, edit, foreign, dead, plan, seen>>

StopTails(o) ==
  /\ closing[o].at = "tails"
  /\ \A e \in closing[o].tails : ex[e].at = "over"
  /\ closing' = [closing EXCEPT ![o].at = IF leader[o] THEN "release" ELSE "done"]
  /\ UNCHANGED <<now, store, leader, stopped, cursor, renewal, tick, wake, adm, chain, active,
                 live, ex, canceller, edit, foreign, dead, plan, seen>>

Release(o, r) ==
  /\ closing[o].at = "release"
  /\ Answered(<<"stop", o>>, r)
  /\ lease' = IF Applied(r) /\ lease.owner = o
              THEN [owner |-> NoOwner, expires |-> 0] ELSE lease
  /\ leader' = [leader EXCEPT ![o] = FALSE]
  /\ closing' = [closing EXCEPT ![o].at = "done"]
  /\ UNCHANGED <<now, job, run, stopped, cursor, renewal, tick, wake, adm, chain, active, live,
                 ex, canceller, edit, foreign, seen>>
-----------------------------------------------------------------------------
(* The cron API, the user's own runs, time and crashes *)

\* notifyChanged of the process the edit was made in: its scheduler, if it runs
\* and leads, wakes at once.
NotifyChanged == \E o \in Owners :
  wake' = [wake EXCEPT ![o] = IF leader[o] /\ ~stopped[o] THEN now ELSE @]

\* update and toggle read the row, then put it with the next revision.
EditRead(j) ==
  /\ edit.at = "idle" /\ job[j].present /\ plan.edited < plan.edits
  /\ plan' = [plan EXCEPT !.edited = @ + 1]
  /\ edit' = [at |-> "write", j |-> j, row |-> job[j]]
  /\ UNCHANGED <<now, store, leader, stopped, cursor, renewal, tick, wake, adm, chain, active,
                 live, ex, canceller, closing, foreign, dead, seen>>

EditWrite(enabled, r) ==
  LET j == edit.j
      revision == edit.row.revision + 1
  IN /\ edit.at = "write"
     /\ Answered(<<"api", edit.j>>, r)
     /\ job' = IF Applied(r) /\ Puttable(j, revision)
               THEN [job EXCEPT ![j] = [present |-> TRUE, enabled |-> enabled,
                       revision |-> revision,
                       next |-> IF enabled THEN ApiNext(j, now) ELSE None]]
               ELSE job
     /\ edit' = [edit EXCEPT !.at = "idle"]
     /\ IF r = "ok" /\ Puttable(j, revision) THEN NotifyChanged ELSE UNCHANGED wake
     /\ UNCHANGED <<now, run, lease, leader, stopped, cursor, renewal, tick, adm, chain,
                    active, live, ex, canceller, closing, foreign, seen>>

\* The cascade takes the admissions and runs of the job.
Delete(j) ==
  /\ job[j].present /\ plan.edited < plan.edits
  /\ plan' = [plan EXCEPT !.edited = @ + 1]
  /\ job' = [job EXCEPT ![j] = NoJob]
  /\ run' = [e \in Executions |-> IF e[1] = j THEN NoRun ELSE run[e]]
  /\ NotifyChanged
  /\ UNCHANGED <<now, lease, leader, stopped, cursor, renewal, tick, adm, chain, active,
                 live, ex, canceller, closing, edit, foreign, dead, seen>>

Foreign(j) ==
  /\ plan.reusing
  /\ \/ foreign[j] /\ UNCHANGED plan
     \/ /\ ~foreign[j] /\ plan.foreign > 0
        /\ \A e \in Executions : e[1] = j => ex[e].prompt # "active"
        /\ plan' = [plan EXCEPT !.foreign = @ - 1]
  /\ foreign' = [foreign EXCEPT ![j] = ~@]
  /\ UNCHANGED <<now, store, leader, stopped, cursor, renewal, tick, wake, adm, chain, active,
                 live, ex, canceller, closing, edit, dead, seen>>

Clock ==
  /\ now < plan.horizon /\ now' = now + 1
  /\ UNCHANGED <<store, leader, stopped, cursor, renewal, tick, wake, adm, chain, active, live,
                 ex, canceller, closing, edit, foreign, dead, plan, seen>>

\* The calls of the schedulers in S that wait for an answer.
Pending(S) ==
  {<<"lease", o>> : o \in {p \in S : renewal[p].at \in {"start", "renew", "acquire"}}}
  \cup {<<"tick", o>> : o \in {p \in S : tick[p].at \in {"list", "persist", "arm"}}}
  \cup {<<"adm", x[1], x[2]>> :
          x \in {y \in S \X Callers : adm[y].at \in {"admit", "put"}}}
  \cup {<<"run", e>> : e \in {q \in Executions : ex[q].owner \in S /\
                                ex[q].at \in {"starting", "ending"}}}
  \cup {<<"cancel", x[1], x[2]>> :
          x \in {y \in Executions \X {"user", "stop"} :
                   ex[y[1]].owner \in S /\ canceller[y] = "put"}}
  \cup {<<"stop", o>> : o \in {p \in S : closing[p].at = "release"}}
  \cup {<<"api", edit.j>> : x \in {y \in {1} : edit.at = "write"}}

\* Fault: the database is opened without the sweep of cron_runs.
Swept_Not == run

\* recoverInterruptedCronRuns.
Swept ==
  [e \in Executions |->
     IF run[e].status \in {"admitted", "running"}
     THEN [run[e] EXCEPT !.status = "failed", !.code = "SCHEDULER_RESTARTED"]
     ELSE run[e]]

\* The DataService exits and is started again: what is pending is rejected.
DataCrash ==
  /\ plan.crashes > 0
  /\ plan' = [plan EXCEPT !.crashes = @ - 1]
  /\ dead' = Pending(Owners)
  /\ run' = Swept
  /\ UNCHANGED <<now, job, lease, leader, stopped, cursor, renewal, tick, wake, adm, chain,
                 active, live, ex, canceller, closing, edit, foreign, seen>>

\* Main crashes with its DataService; the next process is a new owner and finds
\* the lease of the old one.
MainCrash(o) ==
  LET gone == {e \in Executions : ex[e].owner = o} IN
  /\ plan.crashes > 0 /\ (~stopped[o] \/ closing[o].at # "idle")
  /\ plan' = [plan EXCEPT !.crashes = @ - 1]
  /\ dead' = Pending(Owners \ {o})
  /\ run' = Swept
  /\ lease' = IF lease.owner = o THEN [lease EXCEPT !.owner = Dead] ELSE lease
  /\ leader' = [leader EXCEPT ![o] = FALSE]
  /\ stopped' = [stopped EXCEPT ![o] = TRUE]
  /\ cursor' = [cursor EXCEPT ![o] = -1]
  /\ renewal' = [renewal EXCEPT ![o] = [at |-> "idle", sent |-> 0]]
  /\ tick' = [tick EXCEPT ![o] = IdleTick]
  /\ wake' = [wake EXCEPT ![o] = None]
  /\ adm' = [x \in Owners \X Callers |-> IF x[1] = o THEN IdleAdm ELSE adm[x]]
  /\ chain' = [x \in Owners \X Jobs |-> IF x[1] = o THEN <<>> ELSE chain[x]]
  /\ active' = [x \in Owners \X Jobs |-> IF x[1] = o THEN None ELSE active[x]]
  /\ live' = live \ gone
  /\ ex' = [e \in Executions |-> IF e \in gone THEN [Fresh EXCEPT !.at = "over"]
                                 ELSE ex[e]]
  /\ canceller' = [x \in Executions \X {"user", "stop"} |->
                     IF x[1] \in gone THEN "over" ELSE canceller[x]]
  /\ closing' = [closing EXCEPT ![o] = [at |-> "idle", tails |-> {}]]
  /\ edit' = [edit EXCEPT !.at = "idle"]
  /\ UNCHANGED <<now, job, foreign, seen>>
-----------------------------------------------------------------------------
OwnerStep(o) ==
  \/ \E r \in Replies : Renewed(o, r) \/ TickList(o, r) \/ TickPersist(o, r)
                          \/ TickArm(o, r) \/ Release(o, r)
  \/ \E w \in Callers : \/ Replaced(o, w)
                        \/ \E r \in Replies : Admit(o, w, r) \/ PutMissed(o, w, r)
  \/ StopCancelled(o) \/ StopTails(o)

RunStep(e) ==
  \/ \E ready \in BOOLEAN : Begin(e, ready)
  \/ \E r \in Replies : Running(e, r) \/ Ended(e, r)
  \/ Settled(e) \/ TimedOut(e)
  \/ \E outcome \in Deliveries : Deliver(e, outcome)

CancelStep(e) == \E w \in {"user", "stop"} :
  CancelWaited(e, w) \/ \E r \in Replies : CancelPut(e, w, r)

CronNext ==
  \/ \E o \in Owners : \/ Start(o) \/ RenewTimer(o) \/ TickStart(o) \/ Stop(o)
                       \/ MainCrash(o) \/ OwnerStep(o)
                       \/ \E j \in Jobs : Trigger(o, j)
  \/ \E e \in Executions : \/ RunStep(e) \/ CancelStep(e) \/ Timeout(e) \/ Cancel(e)
                           \/ \E p \in {"active", "ok", "failed"} : PromptAdvances(e, p)
  \/ \E j \in Jobs : EditRead(j) \/ Delete(j) \/ Foreign(j)
  \/ \E enabled \in BOOLEAN, r \in Replies : EditWrite(enabled, r)
  \/ Clock \/ DataCrash

CronSpec == CronInit /\ [][CronNext]_vars

\* The event loop runs what is ready, every call is answered, rejected or times
\* out, timers fire, time passes, and the router settles every prompt.
CronFairness ==
  /\ WF_vars(Clock)
  /\ \A o \in Owners : WF_vars(OwnerStep(o)) /\ WF_vars(RenewTimer(o))
                         /\ WF_vars(TickStart(o))
  /\ \A e \in Executions :
       WF_vars(RunStep(e)) /\ WF_vars(CancelStep(e))
       /\ WF_vars(\E p \in {"ok", "failed"} : PromptAdvances(e, p))

FairCronSpec == CronSpec /\ CronFairness
-----------------------------------------------------------------------------
(* What the scheduler promises *)

Statuses == {"none", "admitted", "missed", "running", "completed", "failed",
             "cancelled", "timed-out"}

JobRows ==
  [present : BOOLEAN, enabled : BOOLEAN, revision : Nat, next : Nat \cup {None}]
RunRows ==
  [status : Statuses, kind : {"none", "scheduled", "misfire", "manual"},
   code : {"none", "MISFIRE_SKIPPED", "OVERLAP_SKIPPED", "SCHEDULER_RESTARTED"},
   linked : BOOLEAN]
TickStates ==
  [at : {"idle", "list", "work", "persist", "arm"}, snap : [Jobs -> JobRows],
   todo : SUBSET Jobs, cur : Jobs \cup {None}, horizon : Instants, many : BOOLEAN,
   missed : SUBSET Instants, exec : SUBSET Instants, follow : Nat \cup {None},
   timed : BOOLEAN]
AdmStates ==
  [at : {"idle", "admit", "put", "replace"}, e : Executions \cup {None},
   missed : BOOLEAN, kind : {"none", "scheduled", "misfire", "manual"},
   old : Executions \cup {None}]
ExStates ==
  [at : {"none", "queued", "starting", "prompting", "timeout", "delivering", "ending",
         "over"},
   owner : Owners \cup {NoOwner}, cancel : BOOLEAN,
   prompt : {"none", "setup", "active", "ok", "failed"},
   status : {"none", "completed", "failed", "cancelled", "timed-out"},
   linked : BOOLEAN, retry : BOOLEAN]

\* What is in flight has its job, its instant and its predecessor.
CronTypeOK ==
  /\ plan \in PlanSpace /\ now \in 0 .. plan.horizon
  /\ job \in [Jobs -> JobRows] /\ run \in [Executions -> RunRows]
  /\ cursor \in [Owners -> Int] /\ active \in [Owners \X Jobs -> Executions \cup {None}]
  /\ tick \in [Owners -> TickStates] /\ adm \in [Owners \X Callers -> AdmStates]
  /\ chain \in [Owners \X Jobs -> Seq(Executions)] /\ ex \in [Executions -> ExStates]
  /\ edit \in [at : {"idle", "write"}, j : Jobs \cup {None}, row : JobRows]
  /\ dispatched \in [Executions -> Nat]
  /\ edit.at = "write" => edit.j \in Jobs
  /\ \A e \in Executions : ex[e].at = "ending" => ex[e].status # "none"
  /\ \A o \in Owners : tick[o].at \in {"work", "persist"} => tick[o].cur \in Jobs
  /\ \A x \in Owners \X Callers : /\ adm[x].at # "idle" => adm[x].e \in Executions
                                  /\ adm[x].at = "replace" => adm[x].old \in Executions
  /\ \A o \in Owners : adm[<<o, "tick">>].at # "idle" => tick[o].at = "work"

\* A due instant of a job becomes at most one prompt, whoever admits it: the tick,
\* a manual trigger, another scheduler or the next process after a crash (for a job
\* nobody has deleted: a stale write may bring it back without its admissions).
DispatchedOnce == plan.edited = 0 => \A e \in Executions : dispatched[e] <= 1

\* "enforces overlap without dispatching parallel turns for one job": a scheduler
\* has at most one prompt of a job under way, under every overlap policy.
NoParallelTurns ==
  \A d, e \in Executions :
    InFlight(d) /\ InFlight(e) /\ d[1] = e[1] /\ ex[d].owner = ex[e].owner => d = e

\* Every instant of the schedule before nextRunAt has been admitted, executed or
\* recorded as missed, over misfires, full batches, crashes, lost replies and stale
\* ticks (for a job nobody has edited).
DueAccounted ==
  \A j \in Jobs : plan.edited = 0 =>
    \A t \in Instants \ {0} :
      NextAt(j, t - 1) = t /\ (job[j].next = None \/ t < job[j].next)
        => run[<<j, t>>].status # "none"

\* A run is recorded as completed only if it was prompted and, where the
\* job has a target, the row is linked to the outbound message that was admitted
\* for the result, unless the answer held nothing to send; over several writers of
\* the row, failed deliveries, and writes that are retried or whose reply is lost.
CompletedIsTrue ==
  \A e \in Executions : run[e].status = "completed" =>
    /\ dispatched[e] > 0
    /\ plan.delivering => e \in silent \/ (e \in outbound /\ run[e].linked)

\* A tick that read the job before an edit does not undo the edit: neither the
\* revision nor the enabled flag of the row goes back but by the user's hand.
\* This holds for one scheduler; with two it holds as long as no deleted job
\* comes back (DeletedStaysDeleted), since what comes back has an old revision.
EditNotUndone ==
  [][\A j \in Jobs : job[j].present /\ job'[j].present =>
       /\ job'[j].revision >= job[j].revision
       /\ ~job[j].enabled /\ job'[j].enabled => edit.at = "write"]_vars

\* stop() returns: application quit does not hang on a prompt, a tail or a call.
StopFinishes == \A o \in Owners :
  [](closing[o].at = "cancels" => <>(closing[o].at \in {"done", "idle"}))

\* Every admitted execution gets a final status, over a restart of the DataService.
AdmittedEnds == \A e \in Executions :
  run[e].status \in {"admitted", "running"}
    ~> run[e].status \notin {"admitted", "running"}

\* Contradicted by the code (see the README).
\* An instant that is executed on time is not a missed time.
OnTimeIsNotMissed ==
  \A e \in Executions : run[e].code = "MISFIRE_SKIPPED" => run[e].kind = "misfire"

\* OVERLAP_SKIPPED says "A previous execution of this job is still active": when an
\* admission decides so, one is queued or running.
OverlapMeansActive ==
  [][\A x \in Owners \X Callers :
       adm[x].at = "admit" /\ adm'[x].at = "put" /\ ~adm[x].missed =>
         \E d \in Executions : d[1] = adm[x].e[1] /\ ex[d].at \notin {"over", "none"}]_vars

\* "Task deleted": a deleted job does not come back.
DeletedStaysDeleted == [][\A j \in Jobs : ~job[j].present => ~job'[j].present]_vars

\* A cancel addresses the run of the execution and no other run.
CancelsOwnRun == ~strayed

\* The outbound message of a scheduled run stays linked to it.
DeliveredIsLinked ==
  \A e \in Executions :
    e \in outbound /\ ex[e].at = "over" /\ run[e].status # "none"
      /\ (\A w \in {"user", "stop"} : canceller[<<e, w>>] \in {"idle", "over"})
    => run[e].linked
=============================================================================
