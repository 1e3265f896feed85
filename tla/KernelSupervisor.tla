-------------------------- MODULE KernelSupervisor --------------------------
(***************************************************************************)
(* KernelSupervisorRegistry and StdioKernelProcess of Main for one kernel:   *)
(* the operation lock, the generations of its process, crash budget and      *)
(* automatic restart, health probes, requests, application quit.             *)
(*                                                                          *)
(* Kernels share nothing, so one kernel stands for all.  A step is the code  *)
(* between two awaits; the first operation of the lock queue is the one that *)
(* runs.  The window of the crash budget is a choice of how many old crashes *)
(* are still counted.                                                       *)
(***************************************************************************)
EXTENDS Integers, Sequences

CONSTANTS
  Requests,                     \* requests of the router to the kernel
  MaxRestarts,                  \* restartPolicy.maxRestarts
  MaxGen,                       \* bound: processes
  Bounds                        \* bounds: user calls, failures, forgotten crashes

ASSUME SupervisorAssumption ==
  /\ MaxRestarts \in Nat /\ MaxGen \in Nat
  /\ Bounds \subseteq [calls : Nat, faults : Nat, slides : BOOLEAN]

Generations == 1 .. MaxGen
Calls == {"start", "stop", "restart", "refresh", "health"}

VARIABLES
  slot,    \* the SupervisorSlot
  proc,    \* StdioKernelProcess objects and their operating system processes
  lock,    \* operationTails: the queue of operations
  at,      \* where the first operation of the queue stands
  req,     \* pending requests
  force,   \* forceTerminateAll: the process it waits for
  quit,    \* stopAllForQuit
  left,    \* what is left of a bound; whether crashes leave the window
  autos    \* history: automatic starts since the user last asked for one, or since a
           \* crash that met automatic restarts switched off

vars == <<slot, proc, lock, at, req, force, quit, left, autos>>

\* os: the operating system process; dying: it was sent SIGKILL;
\* told: unexpected-exit was emitted; owned: the child field is set.
NoProcess == [os |-> "none", dying |-> FALSE, owned |-> FALSE, ready |-> FALSE,
              stopping |-> FALSE, told |-> FALSE]
Idle == [pc |-> "idle", gen |-> 0, rest |-> "done"]

SupervisorInit ==
  /\ slot = [state |-> "stopped", gen |-> 0, desired |-> FALSE, proc |-> 0,
             crashes |-> 0, timer |-> FALSE, sick |-> 0, pinned |-> FALSE,
             auto |-> TRUE]
  /\ proc = [g \in Generations |-> NoProcess]
  /\ lock = <<>>
  /\ at = Idle
  /\ req = [r \in Requests |-> [at |-> "free", gen |-> 0]]
  /\ force = [at |-> "idle", gen |-> 0]
  /\ quit = "no"
  /\ left \in Bounds
  /\ autos = 0

Fault == /\ left.faults > 0
         /\ left' = [left EXCEPT !.faults = @ - 1]

Running(op, pc) == lock # <<>> /\ Head(lock).op = op /\ at.pc = pc
Finish == lock' = Tail(lock) /\ at' = Idle
Goto(pc) == at' = [at EXCEPT !.pc = pc] /\ UNCHANGED lock

\* snapshot().state = "ready" and isRunning of the process of the slot.
IsReady == slot.proc # 0 /\ proc[slot.proc].ready
IsRunning(g) == proc[g].owned /\ proc[g].os = "live"

\* clearRestartTimer and resetRecoveryBudget.
NoTimer(s) == [s EXCEPT !.timer = FALSE]
FreshBudget(s) ==
  [s EXCEPT !.crashes = 0, !.sick = 0,
            !.state = IF @ \in {"crash-loop", "failed", "degraded"} THEN "stopped"
                      ELSE @]

\* Fault: the budget admits restarts for ever.
Crashed_NoBudget(s, n) ==
  [s EXCEPT !.crashes = n, !.state = "failed", !.timer = s.desired]

\* recordCrash with n crashes in the window.
Crashed(s, n) ==
  IF ~s.desired \/ ~s.auto THEN [s EXCEPT !.crashes = n, !.state = "failed"]
  ELSE IF n > MaxRestarts THEN [s EXCEPT !.crashes = n, !.state = "crash-loop"]
  ELSE [s EXCEPT !.crashes = n, !.state = "failed", !.timer = TRUE]

CrashCounts == IF left.slides THEN 1 .. slot.crashes + 1 ELSE {slot.crashes + 1}
AutosCounted == autos' = IF slot.auto THEN autos ELSE 0
-----------------------------------------------------------------------------
(* Calls of the user and the lock *)

Call(op) ==
  /\ op \in Calls /\ quit = "no" /\ left.calls > 0
  /\ left' = [left EXCEPT !.calls = @ - 1]
  /\ lock' = Append(lock, [op |-> op, gen |-> 0])
  /\ UNCHANGED <<slot, proc, at, req, force, quit, autos>>

\* setPolicy, beside the lock.
SetPolicy ==
  /\ quit = "no" /\ left.calls > 0
  /\ left' = [left EXCEPT !.calls = @ - 1]
  /\ slot' = [slot EXCEPT !.auto = ~@, !.timer = @ /\ ~slot.auto]
  /\ UNCHANGED <<proc, lock, at, req, force, quit, autos>>

\* startUnlocked up to resolveLaunch; s is the slot as the caller left it.
StartUnlocked(s, auto) ==
  \/ /\ IsReady \/ s.pinned
     /\ slot' = IF IsReady THEN s ELSE [s EXCEPT !.desired = FALSE]
     /\ Finish /\ UNCHANGED autos
  \/ /\ ~IsReady /\ ~s.pinned
     /\ slot' = s
     /\ at' = [Idle EXCEPT !.pc = "resolving"] /\ UNCHANGED lock
     /\ autos' = IF auto THEN autos + 1 ELSE 0

Start ==
  LET s == NoTimer([slot EXCEPT !.desired = TRUE]) IN
  /\ Running("start", "idle")
  /\ StartUnlocked(IF s.state = "crash-loop" THEN FreshBudget(s) ELSE s, FALSE)
  /\ UNCHANGED <<proc, req, force, quit, left>>

\* Fault: the new generation is counted when its process is ready.
Resolve_Uncounted(ok) ==
  /\ at.pc = "resolving" /\ ok /\ slot.gen + 1 \in Generations
  /\ slot' = [slot EXCEPT !.state = "starting", !.proc = slot.gen + 1]
  /\ proc' = [proc EXCEPT ![slot.gen + 1] = [NoProcess EXCEPT !.os = "live", !.owned = TRUE]]
  /\ at' = [at EXCEPT !.pc = "waiting", !.gen = slot.gen + 1]
  /\ UNCHANGED <<lock, req, force, quit, left, autos>>

\* resolveLaunch settles: the process is spawned, or the start gives up.
Resolve(ok) ==
  /\ at.pc = "resolving"
  /\ IF ok
     THEN LET g == slot.gen + 1 IN
          /\ g \in Generations
          /\ slot' = [slot EXCEPT !.gen = g, !.state = "starting", !.proc = g]
          /\ proc' = [proc EXCEPT ![g] = [NoProcess EXCEPT !.os = "live", !.owned = TRUE]]
          /\ at' = [at EXCEPT !.pc = "waiting", !.gen = g]
          /\ UNCHANGED <<lock, left>>
     ELSE /\ Fault
          /\ slot' = [slot EXCEPT !.desired = FALSE,
                        !.state = IF @ = "not-installed" THEN @ ELSE "failed"]
          /\ Finish /\ UNCHANGED proc
  /\ UNCHANGED <<req, force, quit, autos>>

\* The process reports ready.
ProcessReady(g) ==
  /\ proc[g].os = "live" /\ proc[g].owned /\ ~proc[g].ready /\ ~proc[g].told
  /\ ~proc[g].dying /\ at.pc = "waiting" /\ at.gen = g
  /\ proc' = [proc EXCEPT ![g].ready = TRUE]
  /\ Goto("registering")
  /\ UNCHANGED <<slot, req, force, quit, left, autos>>

\* onProcessReady has returned; a process that lost the slot is stopped.
Started ==
  /\ at.pc = "registering"
  /\ IF slot.proc = at.gen /\ slot.gen = at.gen
     THEN /\ slot' = [slot EXCEPT !.state = "ready", !.sick = 0]
          /\ Finish
     ELSE Goto("unwinding") /\ UNCHANGED slot
  /\ UNCHANGED <<proc, req, force, quit, left, autos>>

\* The process exited before it was ready, the startup timeout passed (for one that
\* is being killed, whose exit is not reported, it always does), or onProcessReady
\* was rejected.
StartFails ==
  /\ at.pc \in {"waiting", "registering"}
  /\ IF proc[at.gen].told \/ proc[at.gen].dying THEN UNCHANGED left ELSE Fault
  /\ slot' = [slot EXCEPT !.proc = IF @ = at.gen THEN 0 ELSE @]
  /\ Goto("unwinding")
  /\ UNCHANGED <<proc, req, force, quit, autos>>

\* Fault: a failed start leaves its process alone.
Unwind_NoStop ==
  /\ at.pc = "unwinding"
  /\ Finish
  /\ slot' = [Crashed(slot, slot.crashes + 1) EXCEPT !.proc = IF @ = at.gen THEN 0 ELSE @]
  /\ UNCHANGED <<proc, req, force, quit, left, autos>>

\* The catch block: stop the process, then record the crash.
Unwind ==
  /\ at.pc = "unwinding"
  /\ at' = [at EXCEPT !.pc = IF proc[at.gen].owned THEN "stopping" ELSE "stopped",
                      !.rest = "crash"]
  /\ proc' = [proc EXCEPT ![at.gen].stopping = proc[at.gen].owned]
  /\ slot' = [slot EXCEPT !.proc = IF @ = at.gen THEN 0 ELSE @]
  /\ UNCHANGED <<lock, req, force, quit, left, autos>>

\* Fault: the graceful shutdown is awaited without a bound.
StopProcess_Unbounded ==
  /\ at.pc = "stopping" /\ proc[at.gen].os = "gone"
  /\ proc' = [proc EXCEPT ![at.gen] = [@ EXCEPT !.owned = FALSE, !.ready = FALSE,
                                         !.stopping = FALSE]]
  /\ Goto("stopped")
  /\ UNCHANGED <<slot, req, force, quit, left, autos>>

\* process.stop(): its bounded waits end with the exit or without it, and what
\* is left of the process tree is killed.
StopProcess ==
  /\ at.pc = "stopping"
  /\ proc' = [proc EXCEPT ![at.gen] = [@ EXCEPT !.dying = TRUE, !.owned = FALSE,
                                         !.ready = FALSE, !.stopping = FALSE]]
  /\ Goto("stopped")
  /\ UNCHANGED <<slot, req, force, quit, left, autos>>

\* stopUnlocked up to process.stop(): detach first.
StopUnlocked(s, rest) ==
  IF s.proc = 0
  THEN /\ slot' = [s EXCEPT !.state = IF @ = "not-installed" THEN @ ELSE "stopped"]
       /\ at' = [Idle EXCEPT !.pc = "stopped", !.rest = rest]
       /\ UNCHANGED proc
  ELSE /\ slot' = [s EXCEPT !.state = "stopping", !.proc = 0]
       /\ at' = [pc |-> IF proc[s.proc].owned THEN "stopping" ELSE "stopped",
                 gen |-> s.proc, rest |-> rest]
       /\ proc' = [proc EXCEPT ![s.proc].stopping = @ \/ proc[s.proc].owned]

Stop ==
  /\ Running("stop", "idle")
  /\ StopUnlocked(NoTimer([slot EXCEPT !.desired = FALSE]), "done")
  /\ UNCHANGED <<lock, req, force, quit, left, autos>>

Restart ==
  /\ Running("restart", "idle")
  /\ IF slot.pinned THEN Finish /\ UNCHANGED <<slot, proc>>
     ELSE /\ StopUnlocked(NoTimer([slot EXCEPT !.desired = FALSE]), "start")
          /\ UNCHANGED lock
  /\ UNCHANGED <<req, force, quit, left, autos>>

\* refreshLaunchRegistration: a busy kernel is pinned to its launch.
Refresh ==
  /\ Running("refresh", "idle")
  /\ IF (slot.proc # 0 /\ IsRunning(slot.proc)) \/ slot.state \in {"starting", "stopping"}
     THEN /\ slot' = [slot EXCEPT !.pinned = TRUE]
          /\ Finish /\ UNCHANGED proc
     ELSE LET s == FreshBudget(NoTimer([slot EXCEPT !.desired = FALSE,
                                                    !.pinned = FALSE])) IN
          /\ UNCHANGED lock
          /\ IF s.proc # 0 THEN StopUnlocked(s, "register")
             ELSE /\ slot' = s /\ UNCHANGED proc
                  /\ at' = [Idle EXCEPT !.pc = "stopped", !.rest = "register"]
  /\ UNCHANGED <<req, force, quit, left, autos>>

\* What the register callback can leave behind: an installed kernel may want a
\* restart of ClawX before it is started.
Registered(s) ==
  {[s EXCEPT !.state = x] : x \in {"installed", "not-installed", "failed"}}
  \cup {[s EXCEPT !.state = "installed", !.pinned = TRUE]}

\* What follows process.stop().
Stopped ==
  LET s == IF at.gen # 0 /\ at.rest # "crash" THEN [slot EXCEPT !.state = "stopped"]
           ELSE slot IN
  /\ at.pc = "stopped"
  /\ \/ /\ at.rest = "done"
        /\ slot' = s /\ Finish /\ UNCHANGED autos
     \/ /\ at.rest = "crash"
        /\ \E n \in CrashCounts : slot' = Crashed(slot, n)
        /\ Finish /\ AutosCounted
     \/ /\ at.rest = "start"
        /\ StartUnlocked([FreshBudget(s) EXCEPT !.desired = TRUE], FALSE)
     \/ /\ at.rest = "register"
        /\ slot' \in Registered(s)
        /\ Finish /\ UNCHANGED autos
  /\ UNCHANGED <<proc, req, force, quit, left>>

\* health(): the probe is a request like the others.
HealthBegin ==
  /\ Running("health", "idle")
  /\ IF slot.proc = 0 THEN Finish ELSE Goto("probing")
  /\ UNCHANGED <<slot, proc, req, force, quit, left, autos>>

HealthEnd(ok) ==
  /\ at.pc = "probing"
  /\ ok => IsReady
  /\ slot' = IF ok THEN [slot EXCEPT !.state = "ready", !.sick = 0]
             ELSE [slot EXCEPT !.state = "degraded", !.sick = @ + 1]
  /\ Finish
  /\ UNCHANGED <<proc, req, force, quit, left, autos>>
-----------------------------------------------------------------------------
(* The process *)

\* emitUnexpectedExit: the observer of the registry queues behind the lock.
Tell(g) ==
  IF proc[g].told THEN UNCHANGED lock
  ELSE lock' = Append(lock, [op |-> "exit", gen |-> g])

\* handleExit rejects what is pending.
Reject(g) ==
  req' = [r \in Requests |->
            IF req[r].at = "sent" /\ req[r].gen = g THEN [req[r] EXCEPT !.at = "done"]
            ELSE req[r]]

ProcessExit(g) ==
  /\ proc[g].os = "live"
  /\ IF proc[g].dying \/ proc[g].stopping THEN UNCHANGED left ELSE Fault
  /\ proc' = [proc EXCEPT ![g] = [@ EXCEPT !.os = "gone", !.ready = FALSE,
                                           !.told = proc[g].told \/ ~proc[g].stopping]]
  /\ IF proc[g].stopping THEN UNCHANGED lock ELSE Tell(g)
  /\ Reject(g)
  /\ UNCHANGED <<slot, at, force, quit, autos>>

\* protocolViolation: exit is reported at once, the tree is killed meanwhile.
Violation(g) ==
  /\ proc' = [proc EXCEPT ![g] = [@ EXCEPT !.told = TRUE, !.stopping = proc[g].owned,
                                           !.dying = TRUE]]
  /\ Tell(g)

\* The end of the forceTerminate of a violation.
Killed(g) ==
  /\ proc[g].told /\ proc[g].dying /\ proc[g].owned
  /\ proc' = [proc EXCEPT ![g] = [@ EXCEPT !.owned = FALSE, !.ready = FALSE,
                                           !.stopping = FALSE]]
  /\ UNCHANGED <<slot, lock, at, req, force, quit, left, autos>>

BadFrame(g) ==
  /\ proc[g].os = "live" /\ proc[g].owned /\ ~proc[g].dying /\ Fault
  /\ Violation(g)
  /\ UNCHANGED <<slot, at, req, force, quit, autos>>

\* Fault: the observer takes every exit for one of the current process.
Exited_AnyGeneration ==
  /\ Running("exit", "idle")
  /\ \E n \in CrashCounts : slot' = Crashed([slot EXCEPT !.proc = 0], n)
  /\ Finish
  /\ UNCHANGED <<proc, req, force, quit, left, autos>>

\* Fault: the exit is recorded and the process stays in the slot.
Exited_KeepsProcess ==
  /\ Running("exit", "idle")
  /\ \E n \in CrashCounts :
       slot' = IF slot.proc = Head(lock).gen THEN Crashed(slot, n) ELSE slot
  /\ Finish
  /\ UNCHANGED <<proc, req, force, quit, left, autos>>

\* The queued observer of unexpected-exit.
Exited ==
  LET g == Head(lock).gen IN
  /\ Running("exit", "idle")
  /\ IF slot.proc = g /\ slot.gen = g
     THEN /\ \E n \in CrashCounts : slot' = Crashed([slot EXCEPT !.proc = 0], n)
          /\ AutosCounted
     ELSE UNCHANGED <<slot, autos>>
  /\ Finish
  /\ UNCHANGED <<proc, req, force, quit, left>>

\* Fault: the timer of a crash is not set again after it fired.
TimerFires_Lost ==
  /\ slot.timer
  /\ slot' = NoTimer(slot)
  /\ UNCHANGED <<proc, lock, at, req, force, quit, left, autos>>

\* The restart timer fires, and its operation runs.
TimerFires ==
  /\ slot.timer
  /\ slot' = NoTimer(slot)
  /\ lock' = Append(lock, [op |-> "auto", gen |-> 0])
  /\ UNCHANGED <<proc, at, req, force, quit, left, autos>>

\* Fault: the restart does not ask whether it is still wanted.
AutoStart_Unasked ==
  /\ Running("auto", "idle")
  /\ IF slot.proc # 0 \/ slot.state = "crash-loop"
     THEN Finish /\ UNCHANGED <<slot, autos>>
     ELSE StartUnlocked(slot, TRUE)
  /\ UNCHANGED <<proc, req, force, quit, left>>

AutoStart ==
  /\ Running("auto", "idle")
  /\ IF ~slot.desired \/ slot.proc # 0 \/ slot.state = "crash-loop"
     THEN Finish /\ UNCHANGED <<slot, autos>>
     ELSE StartUnlocked(slot, TRUE)
  /\ UNCHANGED <<proc, req, force, quit, left>>
-----------------------------------------------------------------------------
(* Requests *)

Request(r) ==
  /\ req[r].at = "free" /\ IsReady
  /\ ~proc[slot.proc].stopping
  /\ req' = [req EXCEPT ![r] = [at |-> "sent", gen |-> slot.proc]]
  /\ UNCHANGED <<slot, proc, lock, at, force, quit, left, autos>>

Answer(r) ==
  /\ req[r].at = "sent" /\ proc[req[r].gen].os = "live"
  /\ req' = [req EXCEPT ![r].at = "done"]
  /\ UNCHANGED <<slot, proc, lock, at, force, quit, left, autos>>

RequestTimeout(r) ==
  /\ req[r].at = "sent" /\ Fault
  /\ req' = [req EXCEPT ![r].at = "late"]
  /\ UNCHANGED <<slot, proc, lock, at, force, quit, autos>>

\* The answer to a request that is no longer pending is a protocol violation.
LateAnswer(r) ==
  LET g == req[r].gen IN
  /\ req[r].at = "late" /\ proc[g].os = "live" /\ proc[g].ready
  /\ req' = [req EXCEPT ![r].at = "done"]
  /\ Violation(g)
  /\ UNCHANGED <<slot, at, force, quit, left, autos>>
-----------------------------------------------------------------------------
(* Quit *)

\* stopAllForQuit.
Quit ==
  /\ quit = "no"
  /\ quit' = "stopping"
  /\ slot' = NoTimer([slot EXCEPT !.desired = FALSE])
  /\ lock' = Append(lock, [op |-> "stop", gen |-> 0])
  /\ UNCHANGED <<proc, at, req, force, left, autos>>

QuitStopped ==
  /\ quit = "stopping" /\ \A i \in DOMAIN lock : lock[i].op # "stop"
  /\ quit' = "over"
  /\ UNCHANGED <<slot, proc, lock, at, req, force, left, autos>>

\* The deadline: forceTerminateAll, beside the lock.
QuitDeadline ==
  /\ quit = "stopping"
  /\ slot' = NoTimer([slot EXCEPT !.desired = FALSE])
  /\ IF slot.proc = 0 THEN quit' = "over" /\ UNCHANGED <<proc, force>>
     ELSE /\ quit' = "forcing"
          /\ force' = [at |-> "killing", gen |-> slot.proc]
          /\ proc' = [proc EXCEPT ![slot.proc] =
               [@ EXCEPT !.stopping = proc[slot.proc].stopping \/ proc[slot.proc].owned,
                         !.dying = proc[slot.proc].dying \/ proc[slot.proc].owned]]
  /\ UNCHANGED <<lock, at, req, left, autos>>

ForceDone ==
  LET g == force.gen IN
  /\ force.at = "killing"
  /\ force' = [at |-> "idle", gen |-> 0] /\ quit' = "over"
  /\ proc' = [proc EXCEPT ![g] = [@ EXCEPT !.owned = FALSE, !.ready = FALSE,
                                           !.stopping = FALSE]]
  /\ slot' = [slot EXCEPT !.proc = IF @ = g THEN 0 ELSE @, !.state = "stopped"]
  /\ UNCHANGED <<lock, at, req, left, autos>>
-----------------------------------------------------------------------------
Operation ==
  \/ Start \/ Resolve(TRUE) \/ Started \/ StartFails \/ Unwind \/ StopProcess
  \/ Stop \/ Restart \/ Refresh \/ Stopped \/ HealthBegin
  \/ HealthEnd(TRUE) \/ HealthEnd(FALSE) \/ Exited \/ AutoStart

SupervisorNext ==
  \/ SetPolicy \/ \E op \in Calls : Call(op)
  \/ Operation \/ Resolve(FALSE) \/ TimerFires
  \/ \E g \in Generations : ProcessReady(g) \/ ProcessExit(g) \/ Killed(g) \/ BadFrame(g)
  \/ \E r \in Requests : Request(r) \/ Answer(r) \/ RequestTimeout(r) \/ LateAnswer(r)
  \/ Quit \/ QuitStopped \/ QuitDeadline \/ ForceDone

SupervisorSpec == SupervisorInit /\ [][SupervisorNext]_vars

\* Main's event loop runs what is ready; launches resolve, a process that is let
\* alone becomes ready, a killed one dies, timers fire, requests time out.
SupervisorFairness ==
  /\ WF_vars(Operation) /\ WF_vars(TimerFires)
  /\ \A g \in Generations :
       /\ WF_vars(ProcessReady(g)) /\ WF_vars(Killed(g))
       /\ WF_vars(proc[g].dying /\ ProcessExit(g))
  /\ \A r \in Requests : WF_vars(Answer(r))
  /\ WF_vars(QuitStopped) /\ WF_vars(ForceDone)

FairSupervisorSpec == SupervisorSpec /\ SupervisorFairness
-----------------------------------------------------------------------------
(* What the supervisor promises *)

SupervisorTypeOK ==
  /\ slot.state \in {"stopped", "starting", "ready", "degraded", "stopping", "failed",
                     "crash-loop", "installed", "not-installed"}
  /\ slot.gen \in 0 .. MaxGen /\ slot.proc \in {0, slot.gen}
  /\ \A g \in Generations : proc[g].os # "none" => g <= slot.gen
  /\ \A r \in Requests : req[r].gen \in 0 .. slot.gen

\* A process that is neither dying nor being stopped is the one of the slot: no
\* crash, superseded start or stop leaves one running that nobody owns.
NoOrphan ==
  \A g \in Generations :
    proc[g].os = "live" /\ ~proc[g].dying /\ ~proc[g].stopping => 
      \/ slot.proc = g
      \/ at.gen = g /\ at.pc \in {"unwinding", "registering"}

ExitQueued(g) == \E i \in DOMAIN lock : lock[i] = [op |-> "exit", gen |-> g]

\* The state the rest of Main is shown agrees with the process, until an application
\* quit works beside the lock: what is ready or degraded has a process that runs, or
\* whose exit waits for the lock; what is shown as failed or stopped has none.
StateAgrees ==
  quit \in {"no", "stopping"} =>
    /\ slot.state \in {"ready", "degraded"} =>
         slot.proc # 0 /\ (IsReady \/ ExitQueued(slot.proc))
    /\ slot.state \in {"failed", "crash-loop", "stopped", "installed", "not-installed"} =>
         slot.proc = 0 \/ ExitQueued(slot.proc)

\* A stopped kernel stays stopped: after a stop, and until the user asks for a
\* start, no process is spawned, whatever timers, exits and restarts are queued.
\* A crashing one is started without the user at most MaxRestarts times in a window.
\* (Crashes that meet automatic restarts switched off do not count: a restart that
\* is already in the queue of the lock is taken all the same.)
StartsAreWanted ==
  [][slot'.gen > slot.gen =>
       /\ quit = "no" => slot.desired
       /\ quit \in {"no", "stopping"} /\ ~left.slides => autos' <= MaxRestarts]_vars

\* Every operation of the lock finishes: no start, stop or probe blocks a kernel.
OperationsFinish == []<>(lock = <<>>)

\* A kernel that goes down while it is wanted becomes ready again, or the supervisor
\* says why not: it gave up, or the user no longer wants it or its restarts.
Down == slot.timer \/ at.rest = "crash" \/ (slot.proc # 0 /\ ExitQueued(slot.proc))
Recovers ==
  (slot.desired /\ slot.auto /\ Down) ~>
    \/ (slot.state \in {"ready", "degraded", "crash-loop"} /\ ~Down)
    \/ ~slot.desired \/ ~slot.auto

\* Contradicted by the code (see the README): when the shutdown is over, every
\* process that is still alive was sent SIGKILL.
QuitForcesAll ==
  quit = "over" => \A g \in Generations : proc[g].os = "live" => proc[g].dying
=============================================================================
