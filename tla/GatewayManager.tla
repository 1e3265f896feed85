--------------------------- MODULE GatewayManager ---------------------------
(***************************************************************************)
(* GatewayManager of Main: start, stop, restart, reconnection and recovery   *)
(* of the OpenClaw Gateway process, on a system whose port needs no waiting   *)
(* (not Windows).                                                            *)
(*                                                                          *)
(* A step is the code between two awaits.  Methods call one another within   *)
(* a step (a status change may execute a deferred restart, which stops, ...), *)
(* so the manager is one record `gw` and a method that runs to its next      *)
(* await is an operator from such records to such records.                   *)
(***************************************************************************)
EXTENDS Naturals, FiniteSets

CONSTANTS
  MaxGateways,        \* bound: processes ever spawned
  MaxReconnects,      \* reconnectConfig.maxAttempts
  MaxStartAttempts,   \* maxStartAttempts of the start-up sequence
  Budgets             \* bounds: calls of users, crashes and reloads, failing steps

ASSUME GatewayAssumption ==
  /\ MaxGateways \in Nat \ {0} /\ MaxReconnects \in Nat /\ MaxStartAttempts \in Nat \ {0}
  /\ Budgets \subseteq [starts : Nat, stops : Nat, restarts : Nat, crashes : Nat,
                        fails : Nat, slow : Nat, identity : BOOLEAN]

Callers == {"user", "restart"}
Gateways == 1 .. MaxGateways

VARIABLES
  gw,       \* the fields of the manager, its coroutines and its processes:
            \*   state, want (shouldReconnect), epoch, lock (startLock), timer: the epoch
            \*   a reconnection was scheduled in, deferred: a restart asked for and
            \*   whether one has completed since, flow: the start under way,
            \*   stops: whose stop() awaits what, restart: restartInFlight
  budget    \* what is left of the bounds

gatewayVars == <<gw, budget>>

NoFlow == [pc |-> "idle", epoch |-> 0, by |-> "user", tries |-> 0, child |-> 0,
           existing |-> FALSE, repaired |-> FALSE, kept |-> FALSE]
NoStop == [pc |-> "idle", child |-> 0]

GatewayInit ==
  /\ budget \in Budgets
  /\ gw = [state |-> "stopped", epoch |-> 0, want |-> TRUE, identity |-> budget.identity,
           cur |-> 0, owns |-> FALSE, exited |-> FALSE, ws |-> 0,
           proc |-> [p \in Gateways |-> "none"],
           lock |-> FALSE, flow |-> NoFlow,
           stops |-> [who \in Callers |-> NoStop], restart |-> FALSE,
           timer |-> 0, auto |-> FALSE, attempts |-> 0,
           deferred |-> "none", cool |-> FALSE, debounce |-> FALSE,
           watch |-> FALSE, escalate |-> FALSE,
           \* history: a deferred restart awaits a launch; what has become of the
           \* calls that want a Gateway since the last stop; a child has outlived
           \* its termination
           owed |-> FALSE, asked |-> "no", late |-> FALSE]

Serving(g) == {p \in Gateways : g.proc[p] = "serving"}
Kill(g, who) == [g EXCEPT !.proc = [p \in Gateways |-> IF p \in who THEN "killed" ELSE g.proc[p]]]
-----------------------------------------------------------------------------
(* The synchronous parts of the methods *)

\* shouldDeferRestart.
Defers(g) == g.lock \/ g.state \in {"starting", "reconnecting"}
CancelDeadline(g) == [g EXCEPT !.watch = FALSE, !.escalate = FALSE]
Completed(deferred) == IF deferred = "none" THEN "none" ELSE "done"

\* start() behind its first await.
StartsUp(g) ==
  [g EXCEPT !.identity = TRUE, !.timer = 0, !.auto = FALSE, !.state = "starting",
            !.attempts = IF g.auto THEN @ ELSE 0,
            !.flow = [g.flow EXCEPT !.pc = "find", !.tries = 1]]

StartTakes(g, by) ==
  LET taken == [g EXCEPT !.lock = TRUE, !.epoch = @ + 1, !.want = TRUE,
                         !.flow = [NoFlow EXCEPT !.pc = "identity", !.by = by,
                                                 !.epoch = g.epoch + 1]]
  IN IF g.identity THEN StartsUp(taken) ELSE taken

\* The restart in flight succeeds; what was deferred before is dropped.
RestartReturns(g) ==
  LET over == [g EXCEPT !.restart = FALSE, !.cool = TRUE, !.deferred = Completed(@)]
  IN IF Defers(over) THEN over ELSE [over EXCEPT !.deferred = "none"]

\* stop() behind the end of its child; restart() goes on with start().
StopEnds(g, who) ==
  LET child == g.stops[who].child
      ended == [g EXCEPT !.cur = IF @ = child THEN 0 ELSE @, !.owns = FALSE,
                         !.deferred = "none", !.auto = FALSE, !.state = "stopped",
                         !.stops[who] = NoStop]
  IN IF who = "user" THEN ended
     ELSE IF g.lock THEN RestartReturns(ended) ELSE StartTakes(ended, "restart")

StopGoes(g, who) ==
  IF g.cur # 0 /\ g.owns
  THEN Kill([g EXCEPT !.ws = 0, !.stops[who] = [pc |-> "killing", child |-> g.cur]], {g.cur})
  ELSE StopEnds([g EXCEPT !.ws = 0, !.stops[who] = NoStop], who)

\* Fault: the epoch stays.
StopCall_SameEpoch(g, who) ==
  LET called == [CancelDeadline(g) EXCEPT !.want = FALSE, !.timer = 0, !.debounce = FALSE,
                                          !.owed = @ /\ who # "user"]
  IN IF ~g.owns /\ g.ws # 0 THEN [called EXCEPT !.stops[who].pc = "asking"]
     ELSE StopGoes(called, who)

StopCall(g, who) ==
  LET called == [CancelDeadline(g) EXCEPT
                   !.epoch = @ + 1, !.want = FALSE, !.timer = 0, !.debounce = FALSE,
                   !.owed = @ /\ who # "user"]
  IN IF ~g.owns /\ g.ws # 0 THEN [called EXCEPT !.stops[who].pc = "asking"]
     ELSE StopGoes(called, who)

\* restart() is neither deferred, nor joined to another, nor suppressed.
Acts(g) == ~Defers(g) /\ ~g.restart /\ ~g.cool
Heard(g) == [g EXCEPT !.asked = "yes"]
Unheard(g) == [g EXCEPT !.asked = IF @ = "yes" THEN "yes" ELSE "lost"]

RestartCall(g) ==
  LET called == CancelDeadline(g) IN
  IF Defers(g)
  THEN [called EXCEPT !.deferred = IF @ = "none" THEN "asked" ELSE @, !.owed = TRUE]
  ELSE IF g.restart \/ g.cool THEN called
  ELSE StopCall([called EXCEPT !.restart = TRUE], "restart")

\* flushDeferredRestart.
Flush(g) ==
  IF g.deferred = "none" \/ Defers(g) THEN g
  ELSE IF ~g.want \/ g.deferred = "done" THEN [g EXCEPT !.deferred = "none"]
  ELSE RestartCall([g EXCEPT !.deferred = "none"])

SetState(g, state) ==
  IF g.state = state THEN g ELSE Flush([g EXCEPT !.state = state])

ScheduleReconnect(g) ==
  IF ~g.want \/ g.timer # 0 THEN g
  ELSE IF g.attempts >= MaxReconnects THEN SetState(g, "error")
  ELSE [g EXCEPT !.attempts = @ + 1, !.state = "reconnecting", !.timer = g.epoch]

\* start() returns or throws; its caller goes on.
StartReturns(g, threw) ==
  LET over == Flush([g EXCEPT !.lock = FALSE, !.flow = NoFlow])
      by == g.flow.by
  IN CASE by = "user" -> over
       [] by = "auto" -> IF threw THEN ScheduleReconnect(over) ELSE [over EXCEPT !.attempts = 0]
       [] by = "restart" ->
            IF threw THEN Flush([ScheduleReconnect([over EXCEPT !.want = TRUE])
                                   EXCEPT !.restart = FALSE])
            ELSE RestartReturns(over)

Asserted(g, next) == IF g.flow.epoch # g.epoch THEN StartReturns(g, FALSE) ELSE next

StartFails(g, fatal) ==
  LET failed == SetState(g, "error")
  IN StartReturns(IF fatal THEN [failed EXCEPT !.want = FALSE] ELSE ScheduleReconnect(failed), TRUE)

\* getGatewayStartupRecoveryAction.
SequenceFails(g, kind) ==
  IF kind = "config" /\ ~g.flow.repaired
  THEN [g EXCEPT !.flow.pc = "doctor", !.flow.repaired = TRUE]
  ELSE IF kind = "transient" /\ g.flow.tries < MaxStartAttempts
  THEN [g EXCEPT !.flow.pc = "delay"]
  ELSE StartFails(g, kind \in {"config", "fatal"})

\* The end of the stale process, awaited by the start-up sequence: shouldReconnect
\* is what it was before, also when a stop has come since.
Undoes(g) == g.flow.kept /\ g.flow.epoch # g.epoch /\ g.flow.tries >= MaxStartAttempts
Terminated(g) ==
  SequenceFails([g EXCEPT !.cur = IF @ = g.flow.child THEN 0 ELSE @, !.owns = FALSE,
                          !.want = g.flow.kept,
                          !.asked = IF Undoes(g) THEN "undone" ELSE @], "transient")

Again(g) == Asserted(g, [g EXCEPT !.flow.pc = "find", !.flow.tries = @ + 1])
-----------------------------------------------------------------------------
(* The start-up sequence *)

At(pc) == gw.flow.pc = pc
StepFails == budget.fails > 0 /\ budget' = [budget EXCEPT !.fails = @ - 1]

IdentityLoads ==
  /\ At("identity")
  /\ gw' = Asserted(StartsUp(gw), StartsUp(gw))
  /\ UNCHANGED budget

\* Fault: a process that is reloading is not waited for.
Find_Duplicate ==
  /\ At("find")
  /\ LET found == gw.cur \in Serving(gw)
         g == IF found THEN gw ELSE Kill(gw, Serving(gw))
     IN gw' = Asserted(g, [g EXCEPT !.flow.existing = found,
                                    !.flow.pc = IF found THEN "connect" ELSE "launch"])
  /\ UNCHANGED budget

\* findExistingGateway: other listeners of the port are killed; the probe of the
\* own one may time out.
Find ==
  /\ At("find")
  /\ \E answers \in BOOLEAN :
       LET found == answers /\ gw.cur \in Serving(gw)
           g == IF gw.cur \in Serving(gw) THEN gw ELSE Kill(gw, Serving(gw))
       IN /\ gw' = Asserted(g, [g EXCEPT !.flow.existing = found \/ (gw.cur # 0 /\ gw.owns),
                                         !.flow.pc = IF found THEN "connect"
                                                     ELSE IF gw.cur # 0 /\ gw.owns THEN "owned"
                                                     ELSE "launch"])
          /\ IF answers THEN UNCHANGED budget ELSE gw.cur \in Serving(gw) /\ StepFails

\* startProcess; nothing is asserted between its awaits.  The configuration is
\* taken to be read when the process is spawned.
Launch(p) ==
  /\ At("launch")
  /\ \/ /\ gw.proc[p] = "none" /\ \A q \in Gateways : q < p => gw.proc[q] # "none"
        /\ LET g == [gw EXCEPT !.proc[p] = "booting", !.cur = p, !.owns = TRUE,
                               !.exited = FALSE, !.owed = FALSE]
           IN gw' = Asserted(g, [g EXCEPT !.flow.pc = "ready"])
        /\ UNCHANGED budget
     \/ StepFails /\ gw' = SequenceFails(gw, "other")

Ready ==
  /\ At("ready")
  /\ \/ /\ ~gw.exited /\ Serving(gw) # {} /\ UNCHANGED budget
        /\ gw' = Asserted(gw, [gw EXCEPT !.flow.pc = "connect"])
     \/ /\ gw.exited /\ UNCHANGED budget
        /\ \E kind \in {"transient", "config", "fatal"} : gw' = SequenceFails(gw, kind)
     \/ StepFails /\ gw' = SequenceFails(gw, "other")

\* The owned process does not come back: terminateStaleOwnedProcess.
OwnedReady ==
  LET stale == CancelDeadline([gw EXCEPT !.flow.kept = gw.want, !.want = FALSE])
      back(g) == SequenceFails([g EXCEPT !.want = g.flow.kept], "transient")
      fails == IF gw.cur # 0 /\ gw.owns
               THEN Kill([stale EXCEPT !.flow.pc = "terminate", !.flow.child = gw.cur], {gw.cur})
               ELSE back(stale)
  IN /\ At("owned")
     /\ \/ /\ ~gw.exited /\ Serving(gw) # {} /\ UNCHANGED budget
           /\ gw' = Asserted(gw, [gw EXCEPT !.flow.pc = "connect"])
        \/ gw.exited /\ gw' = fails /\ UNCHANGED budget
        \/ StepFails /\ gw' = fails

ConnectGateway ==
  /\ At("connect")
  /\ \/ \E p \in Serving(gw) :
          LET open == SetState([gw EXCEPT !.ws = p, !.watch = TRUE, !.escalate = FALSE], "running")
              own == gw.flow.existing /\ gw.cur # 0 /\ gw.owns
          IN /\ gw' = Asserted(open, StartReturns(
                        IF own THEN [open EXCEPT !.deferred = Completed(@), !.owed = FALSE]
                        ELSE IF gw.flow.existing THEN [open EXCEPT !.owns = FALSE]
                        ELSE open, FALSE))
             /\ UNCHANGED budget
     \/ Serving(gw) = {} /\ gw' = SequenceFails(gw, "transient") /\ UNCHANGED budget
     \/ StepFails /\ \E kind \in {"transient", "other"} : gw' = SequenceFails(gw, kind)

Repair ==
  /\ At("doctor")
  /\ gw' \in {Again(SetState(gw, "starting")), StartFails(gw, TRUE)}
  /\ UNCHANGED budget

Delayed == At("delay") /\ gw' = Again(gw) /\ UNCHANGED budget

StartSteps ==
  \/ IdentityLoads \/ Find \/ Ready \/ OwnedReady \/ ConnectGateway \/ Repair \/ Delayed
  \/ \E p \in Gateways : Launch(p)
-----------------------------------------------------------------------------
(* The other awaits, the timers and the events of process and socket *)

\* The shutdown request to a Gateway that is not owned is over.
StopAnswered(who) ==
  /\ gw.stops[who].pc = "asking"
  /\ gw' = StopGoes(gw, who) /\ UNCHANGED budget

\* The child outlives the five seconds of its termination.
StopTimesOut(who) ==
  /\ gw.stops[who].pc = "killing" /\ gw.proc[gw.stops[who].child] = "killed"
  /\ budget.slow > 0 /\ budget' = [budget EXCEPT !.slow = @ - 1]
  /\ gw' = StopEnds([gw EXCEPT !.late = TRUE], who)

ReconnectFires ==
  LET fired == [gw EXCEPT !.timer = 0] IN
  /\ gw.timer # 0
  /\ gw' = IF ~gw.want \/ gw.timer # gw.epoch THEN fired
           ELSE IF gw.lock \/ gw.state = "running"
           THEN [fired EXCEPT !.auto = TRUE, !.attempts = 0]
           ELSE StartTakes([fired EXCEPT !.auto = TRUE], "auto")
  /\ UNCHANGED budget

DebounceFires ==
  /\ gw.debounce /\ UNCHANGED budget
  /\ gw' = RestartCall([(IF Acts(gw) THEN Heard(gw) ELSE Unheard(gw)) EXCEPT !.debounce = FALSE])

CooldownEnds == gw.cool /\ gw' = [gw EXCEPT !.cool = FALSE] /\ UNCHANGED budget

\* requestOwnedProcessRecovery.
Recovers(g) ==
  IF ~g.owns \/ ~g.want \/ g.state # "running" \/ g.restart THEN g
  ELSE IF g.cool THEN [g EXCEPT !.escalate = TRUE]
  ELSE RestartCall(g)

\* The deadline passes and its probe fails.
DeadlineFails ==
  /\ gw.watch /\ gw.owns /\ StepFails
  /\ gw' = Recovers([gw EXCEPT !.watch = FALSE])

EscalationFires ==
  /\ gw.escalate /\ ~gw.cool
  /\ gw' = Recovers([gw EXCEPT !.escalate = FALSE]) /\ UNCHANGED budget

MessageArrives ==
  /\ gw.ws \in Serving(gw) /\ ~gw.watch
  /\ gw' = [gw EXCEPT !.watch = TRUE, !.escalate = FALSE] /\ UNCHANGED budget

Boot(p) ==
  /\ gw.proc[p] = "booting" /\ Serving(gw) = {}
  /\ gw' = [gw EXCEPT !.proc[p] = "serving"] /\ UNCHANGED budget

\* onExit.
ProcessExit(p, fatal) ==
  LET gone == [CancelDeadline(gw) EXCEPT !.proc[p] = "gone", !.exited = TRUE, !.owns = FALSE,
                                         !.cur = IF @ = p THEN 0 ELSE @]
      seen == IF gw.state = "running" THEN SetState(gone, "stopped") ELSE gone
  IN IF ~fatal THEN ScheduleReconnect(seen)
     ELSE [seen EXCEPT !.want = @ /\ seen.state = "starting"]

\* Those who await the end of p go on in the order in which they asked.
Waits(g, who, p) == g.stops[who].pc = "killing" /\ g.stops[who].child = p
StopGoesOn(g, who, p) == IF Waits(g, who, p) THEN StopEnds(g, who) ELSE g
FlowGoesOn(g, p) == IF g.flow.pc = "terminate" /\ g.flow.child = p THEN Terminated(g) ELSE g
Resolved(g, p) ==
  {FlowGoesOn(StopGoesOn(StopGoesOn(g, "user", p), "restart", p), p),
   FlowGoesOn(StopGoesOn(StopGoesOn(g, "restart", p), "user", p), p)}

ProcessEnds(p) ==
  /\ gw.proc[p] = "killed" \/ (gw.proc[p] = "booting" /\ Serving(gw) # {})
  /\ gw' \in Resolved(ProcessExit(p, FALSE), p) /\ UNCHANGED budget

ProcessCrashes(p) ==
  /\ gw.proc[p] \in {"booting", "serving"}
  /\ budget.crashes > 0 /\ budget' = [budget EXCEPT !.crashes = @ - 1]
  /\ \E fatal \in BOOLEAN : gw' = ProcessExit(p, fatal)

\* Fault: a close is left to the exit of the process.
SocketClosed_NoReconnect(g) ==
  LET closed == CancelDeadline([g EXCEPT !.ws = 0])
  IN IF g.state = "running" THEN SetState(closed, "stopped") ELSE closed

\* onCloseAfterHandshake of the current socket.
SocketClosed(g) ==
  LET closed == CancelDeadline([g EXCEPT !.ws = 0])
  IN IF g.state = "running" THEN ScheduleReconnect(SetState(closed, "stopped")) ELSE closed

SocketCloses ==
  /\ gw.ws # 0 /\ gw.proc[gw.ws] \in {"killed", "gone"}
  /\ gw' = SocketClosed(gw) /\ UNCHANGED budget

\* The Gateway restarts within its process: code 1012.
Reload ==
  /\ gw.ws \in Serving(gw)
  /\ budget.crashes > 0 /\ budget' = [budget EXCEPT !.crashes = @ - 1]
  /\ gw' = SocketClosed([gw EXCEPT !.proc[gw.ws] = "booting"])
-----------------------------------------------------------------------------
(* Calls *)

UserStart ==
  /\ budget.starts > 0 /\ budget' = [budget EXCEPT !.starts = @ - 1]
  /\ gw' = IF gw.lock \/ gw.state = "running" THEN Unheard(gw)
           ELSE StartTakes(Heard(gw), "user")

UserStop ==
  /\ budget.stops > 0 /\ budget' = [budget EXCEPT !.stops = @ - 1]
  /\ gw.stops["user"] = NoStop
  /\ gw' = StopCall([gw EXCEPT !.asked = IF gw.restart THEN "lost" ELSE "no"], "user")

UserRestart ==
  /\ budget.restarts > 0 /\ budget' = [budget EXCEPT !.restarts = @ - 1]
  /\ gw' \in {RestartCall(IF Acts(gw) THEN Heard(gw) ELSE Unheard(gw)),
              [Unheard(gw) EXCEPT !.debounce = TRUE]}

\* Processes boot and end, sockets of ended processes close, timers fire and
\* every await of the manager is answered or times out.
GatewayProgress ==
  \/ StartSteps \/ ReconnectFires \/ DebounceFires \/ CooldownEnds \/ EscalationFires
  \/ SocketCloses
  \/ \E who \in Callers : StopAnswered(who)
  \/ \E p \in Gateways : Boot(p) \/ ProcessEnds(p)

GatewayNext ==
  \/ GatewayProgress
  \/ UserStart \/ UserStop \/ UserRestart
  \/ DeadlineFails \/ MessageArrives \/ Reload
  \/ \E who \in Callers : StopTimesOut(who)
  \/ \E p \in Gateways : ProcessCrashes(p)

GatewaySpec == GatewayInit /\ [][GatewayNext]_gatewayVars
FairGatewaySpec == GatewaySpec /\ WF_gatewayVars(GatewayProgress)
-----------------------------------------------------------------------------
(* Properties *)

GatewayTypeOK ==
  /\ gw.state \in {"stopped", "starting", "running", "error", "reconnecting"}
  /\ gw.proc \in [Gateways -> {"none", "booting", "serving", "killed", "gone"}]
  /\ gw.cur \in {0} \cup Gateways /\ gw.ws \in {0} \cup Gateways
  /\ gw.lock = (gw.flow.pc # "idle")

Running == {p \in Gateways : gw.proc[p] \in {"booting", "serving"}}
Busy == gw.lock \/ gw.restart \/ \E who \in Callers : gw.stops[who] # NoStop

\* A Gateway that nobody ends is the one the manager holds and owns: there are
\* never two, and the next stop ends it.  A stop that overtakes startProcess,
\* a reload within the process and a failing reconnection keep to that; a child
\* that outlives its termination does not: its late exit disowns its successor.
GatewayHeld == gw.late \/ \A p \in Running : p = gw.cur /\ gw.owns

\* Nothing but a call starts a Gateway the user has stopped: no reconnection, no
\* deferred restart and no recovery goes on beyond the checks of the epoch.
\* (A stop that meets a restart in flight is no such stop: restart() goes on
\* with start() when its own stop is over; nor is one that meets the termination of a
\* stale process in the last attempt of a start.)
StopIsFinal ==
  gw.late \/ (gw.lock /\ gw.flow.by # "user" => gw.asked # "no" \/ gw.flow.epoch # gw.epoch)

\* A Gateway that a start or a restart has set out to bring up, and that no stop
\* has ended since, is brought back after every crash, reload and failure: it is
\* running again, or the reconnections are used up, or a fatal error has ended
\* them.  (A start that meets a superseded start, and a restart that is deferred
\* or falls into the cooldown, set out to do nothing.)
GatewayRecovers ==
  gw.asked = "yes" ~> \/ gw.state = "running" \/ gw.asked # "yes" \/ gw.late
                      \/ gw.attempts >= MaxReconnects
                      \/ ~gw.want /\ ~Busy

\* "Disable auto-reconnect" (the comment in stop()) holds for every stop.  TLC
\* refutes it: terminateStaleOwnedProcess gives shouldReconnect back the value it had
\* before the stop, and the failure of the last attempt schedules a reconnection.
StopDisablesReconnect ==
  gw.asked \in {"no", "undone"} /\ gw.flow.by # "user" /\ gw.lock
    => gw.late \/ gw.flow.epoch # gw.epoch

\* A restart that was deferred is honoured even if the Gateway is running again:
\* once nothing is under way, a process has been launched since (the comment of
\* getDeferredRestartAction).  TLC refutes it without any failure: a restart
\* asked for while a restart is starting is executed at the end of start(),
\* where it joins the restart in flight, which is already over but for its end.
DeferredIsHonoured ==
  gw.state = "running" /\ ~Busy /\ gw.timer = 0 /\ gw.deferred = "none" => ~gw.owed

\* "starting" and "reconnecting" put off restarts, so something must be under
\* way to leave them.  TLC refutes it: start() shows "starting" behind its first
\* await and behind a repair without a look at the epoch, and a fatal exit
\* disables the timer of a reconnection already announced.
DeferralEnds == gw.state \in {"starting", "reconnecting"} => gw.timer # 0 \/ Busy
=============================================================================
