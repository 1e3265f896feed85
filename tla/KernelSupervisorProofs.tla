----------------------- MODULE KernelSupervisorProofs -----------------------
(***************************************************************************)
(* No process of a kernel runs that nobody owns (NoOrphan), the state shown  *)
(* agrees with the process (StateAgrees) and every start is wanted and       *)
(* within the budget (StartsAreWanted), for every number of generations,     *)
(* calls and failures.                                                      *)
(*                                                                          *)
(* A step that takes a process out of the slot must know something about it  *)
(* that NoOrphan does not say: that an exit in the queue of the lock is real, *)
(* that the process a quit forces was sent its signal, that a start replaces  *)
(* no process that still runs, and that what runs is still held by its       *)
(* StdioKernelProcess, so that stopping it reaches it.  The other two need    *)
(* where each operation of the lock has got to (ShownInv).                  *)
(***************************************************************************)
EXTENDS KernelSupervisor, TLAPS

Ended(g) == proc[g].os = "gone" \/ (proc[g].os = "live" /\ proc[g].dying)
Free(g) == proc[g].os = "live" /\ ~proc[g].dying /\ ~proc[g].stopping

Processes == [os : {"none", "live", "gone"}, dying : BOOLEAN, owned : BOOLEAN,
              ready : BOOLEAN, stopping : BOOLEAN, told : BOOLEAN]

States == {"stopped", "starting", "ready", "degraded", "stopping", "failed",
           "crash-loop", "installed", "not-installed"}
Slots == [state : States, gen : 0 .. MaxGen, desired : BOOLEAN, proc : 0 .. MaxGen,
          crashes : Nat, timer : BOOLEAN, sick : Nat, pinned : BOOLEAN, auto : BOOLEAN]

Ats == [pc : {"idle", "resolving", "waiting", "registering", "unwinding", "stopping",
              "stopped", "probing"},
        gen : 0 .. MaxGen, rest : {"done", "crash", "start", "register"}]

Shapes ==
  /\ slot \in Slots
  /\ proc \in [Generations -> Processes]
  /\ lock \in Seq([op : Calls \cup {"exit", "auto"}, gen : 0 .. MaxGen])
  /\ at \in Ats
  /\ force.gen \in 0 .. MaxGen

\* Generations that are still to come have no process.
Counted == \A g \in Generations : proc[g].os # "none" => g <= slot.gen

\* The slot holds a process that was spawned.
SlotSpawned == slot.proc # 0 => proc[slot.proc].os # "none"

\* What is not dying is held by its StdioKernelProcess.
HeldWhileLive == \A g \in Generations : proc[g].os = "live" /\ ~proc[g].dying => proc[g].owned

\* An exit in the queue is one of a process that has ended or is being killed.
ExitsReal == \A i \in DOMAIN lock : lock[i].op = "exit" => lock[i].gen # 0 /\ Ended(lock[i].gen)

\* What a quit forces was sent its signal.
ForcedEnds == force.at = "killing" => force.gen # 0 /\ Ended(force.gen)

\* An operation under way is at the head of the queue.
Busy == at.pc # "idle" => lock # <<>>

\* A start replaces no process that runs: one that is not ready is awaited.
StartReplaces ==
  /\ at.pc = "resolving" /\ slot.proc # 0 => ~proc[slot.proc].ready
  /\ slot.proc # 0 /\ Free(slot.proc) /\ ~proc[slot.proc].ready
       => at.pc = "waiting" /\ at.gen = slot.proc

SupervisorInv ==
  /\ Shapes /\ Counted /\ SlotSpawned /\ HeldWhileLive /\ ExitsReal /\ ForcedEnds /\ Busy
  /\ StartReplaces /\ NoOrphan
LEMMA SupervisorInvInit == SupervisorInit => SupervisorInv
  <1> SUFFICES ASSUME SupervisorInit PROVE SupervisorInv
    OBVIOUS
  <1>1. Shapes
    <2>1. slot \in Slots
      BY SupervisorAssumption DEF SupervisorInit, Slots, States, SupervisorAssumption
    <2>2. proc \in [Generations -> Processes]
      BY DEF SupervisorInit, NoProcess, Processes
    <2>3. lock \in Seq([op : Calls \cup {"exit", "auto"}, gen : 0 .. MaxGen])
      BY DEF SupervisorInit
    <2>4. at \in Ats /\ force.gen \in 0 .. MaxGen
      BY SupervisorAssumption DEF SupervisorInit, Idle, Ats, SupervisorAssumption
    <2> QED BY <2>1, <2>2, <2>3, <2>4 DEF Shapes
  <1>2. \A g \in Generations : proc[g].os = "none"
    BY DEF SupervisorInit, NoProcess
  <1>3. slot.proc = 0 /\ lock = <<>> /\ at.pc = "idle" /\ force.at = "idle"
    BY DEF SupervisorInit, Idle
  <1> QED
    BY <1>1, <1>2, <1>3
    DEF SupervisorInv, Counted, SlotSpawned, HeldWhileLive, ExitsReal, ForcedEnds, Busy,
        StartReplaces, NoOrphan

\* The queue of the lock loses its first operation (Finish), or keeps its exits.
ExitsKept ==
  /\ lock' \in Seq([op : Calls \cup {"exit", "auto"}, gen : 0 .. MaxGen])
  /\ \A i \in DOMAIN lock' :
       lock'[i].op = "exit" => \E j \in DOMAIN lock : lock[j] = lock'[i]

LEMMA FinishKeeps ==
  ASSUME SupervisorInv, lock # <<>>, lock' = Tail(lock) PROVE ExitsKept
  <1> DEFINE O == [op : Calls \cup {"exit", "auto"}, gen : 0 .. MaxGen]
  <1>1. lock \in Seq(O)
    BY DEF SupervisorInv, Shapes
  <1> HIDE DEF O
  <1>2. /\ Tail(lock) \in Seq(O)
        /\ \A i \in DOMAIN Tail(lock) : i + 1 \in DOMAIN lock /\ Tail(lock)[i] = lock[i + 1]
    BY <1>1
  <1> QED BY <1>2 DEF ExitsKept, O

LEMMA QueueKeeps ==
  ASSUME SupervisorInv, NEW o \in [op : Calls \cup {"auto"}, gen : 0 .. MaxGen],
         lock' = Append(lock, o)
  PROVE  ExitsKept /\ lock' # <<>>
  <1> DEFINE O == [op : Calls \cup {"exit", "auto"}, gen : 0 .. MaxGen]
  <1>1. lock \in Seq(O) /\ o \in O /\ o.op # "exit"
    BY DEF SupervisorInv, Shapes, Calls
  <1> HIDE DEF O
  <1>2. /\ Append(lock, o) \in Seq(O) /\ Append(lock, o) # <<>>
        /\ \A i \in DOMAIN Append(lock, o) :
             Append(lock, o)[i] = o \/ (i \in DOMAIN lock /\ Append(lock, o)[i] = lock[i])
    BY <1>1
  <1> QED BY <1>1, <1>2 DEF ExitsKept, O

LEMMA ExitGen ==
  ASSUME SupervisorInv, NEW i \in DOMAIN lock, lock[i].op = "exit"
  PROVE  lock[i].gen \in Generations /\ Ended(lock[i].gen)
  <1> DEFINE O == [op : Calls \cup {"exit", "auto"}, gen : 0 .. MaxGen]
  <1>1. lock \in Seq(O) /\ lock[i].gen # 0 /\ Ended(lock[i].gen)
    BY DEF SupervisorInv, Shapes, ExitsReal
  <1> HIDE DEF O
  <1>2. lock[i] \in O
    BY <1>1
  <1>3. lock[i].gen \in 0 .. MaxGen
    BY <1>2 DEF O
  <1> QED BY <1>1, <1>3, SupervisorAssumption DEF Generations, SupervisorAssumption

LEMMA SameQueue == ASSUME SupervisorInv, UNCHANGED lock PROVE ExitsKept
  BY DEF SupervisorInv, Shapes, ExitsKept

\* An exit that is real joins the queue (Tell).
LEMMA TellKeeps ==
  ASSUME SupervisorInv, NEW g \in Generations, Tell(g),
         \A h \in Generations : Ended(h) => Ended(h)', Ended(g)'
  PROVE  /\ lock' \in Seq([op : Calls \cup {"exit", "auto"}, gen : 0 .. MaxGen])
         /\ ExitsReal' /\ (lock # <<>> => lock' # <<>>)
  <1> DEFINE O == [op : Calls \cup {"exit", "auto"}, gen : 0 .. MaxGen]
             o == [op |-> "exit", gen |-> g]
  <1>1. lock \in Seq(O) /\ o \in O /\ o.gen = g /\ g # 0
    BY SupervisorAssumption DEF SupervisorInv, Shapes, Generations, SupervisorAssumption
  <1>2. \A i \in DOMAIN lock : lock[i].op = "exit" =>
          lock[i].gen # 0 /\ \E h \in Generations : h = lock[i].gen /\ Ended(h)'
    <2>1. ASSUME NEW i \in DOMAIN lock, lock[i].op = "exit"
          PROVE  lock[i].gen # 0 /\ \E h \in Generations : h = lock[i].gen /\ Ended(h)'
      <3>1. PICK h \in Generations : h = lock[i].gen /\ Ended(h)
        BY <2>1, ExitGen
      <3>2. lock[i].gen # 0
        BY <2>1 DEF SupervisorInv, ExitsReal
      <3>3. Ended(h)'
        BY <3>1
      <3> QED BY <3>1, <3>2, <3>3
    <2> QED BY <2>1
  <1> HIDE DEF O, o
  <1>3. CASE lock' = lock
    BY <1>1, <1>2, <1>3 DEF ExitsReal, O
  <1>4. CASE lock' = Append(lock, o)
    <2>1. /\ Append(lock, o) \in Seq(O) /\ Append(lock, o) # <<>>
          /\ \A i \in DOMAIN Append(lock, o) :
               Append(lock, o)[i] = o \/ (i \in DOMAIN lock /\ Append(lock, o)[i] = lock[i])
      BY <1>1
    <2> QED BY <1>1, <1>2, <1>4, <2>1 DEF ExitsReal, O
  <1> QED BY <1>3, <1>4 DEF Tell, o

\* What has ended stays so: the exits of the queue, and what a quit forces.
LEMMA EndedStays ==
  ASSUME SupervisorInv, ExitsKept, \A h \in Generations : Ended(h) => Ended(h)'
  PROVE  ExitsReal'
  <1>1. ASSUME NEW i \in DOMAIN lock', lock'[i].op = "exit"
        PROVE  (lock[i].gen # 0 /\ Ended(lock[i].gen))'
    <2>1. PICK j \in DOMAIN lock : lock[j] = lock'[i]
      BY <1>1 DEF ExitsKept
    <2>2. PICK h \in Generations : h = lock[j].gen /\ Ended(h)
      BY <1>1, <2>1, ExitGen
    <2>3. Ended(h)'
      BY <2>2
    <2>4. h = lock'[i].gen /\ lock'[i].gen # 0
      BY <1>1, <2>1, <2>2 DEF SupervisorInv, ExitsReal
    <2> QED BY <2>3, <2>4
  <1> QED BY <1>1 DEF ExitsReal

LEMMA ForcedStays ==
  ASSUME SupervisorInv, UNCHANGED force, \A h \in Generations : Ended(h) => Ended(h)'
  PROVE  ForcedEnds' /\ force'.gen \in 0 .. MaxGen
  <1>1. force'.gen \in 0 .. MaxGen
    BY DEF SupervisorInv, Shapes
  <1>2. ASSUME force'.at = "killing" PROVE (force.gen # 0 /\ Ended(force.gen))'
    <2>1. force.gen # 0 /\ Ended(force.gen) /\ force.gen \in Generations
      BY <1>2, SupervisorAssumption
      DEF SupervisorInv, ForcedEnds, Shapes, Generations, SupervisorAssumption
    <2>2. \E h \in Generations : h = force.gen /\ Ended(h)'
      BY <2>1
    <2> QED BY <2>1, <2>2
  <1> QED BY <1>1, <1>2 DEF ForcedEnds

\* A step that leaves processes alone and no process out.
LEMMA QuietKeeps ==
  ASSUME SupervisorInv, UNCHANGED <<proc, force>>, ExitsKept,
         slot' \in Slots, slot'.proc = slot.proc, slot'.gen = slot.gen, at' \in Ats,
         \/ at'.pc = at.pc /\ at'.gen = at.gen
         \/ /\ at.pc \notin {"waiting", "unwinding", "registering"} \/ at.gen = 0
            /\ at'.pc = "resolving" => ~IsReady,
         at'.pc # "idle" => lock' # <<>>
  PROVE  SupervisorInv'
  <1>1. Shapes'
    BY SupervisorAssumption DEF SupervisorInv, Shapes, ExitsKept, SupervisorAssumption
  <1>2. Counted' /\ SlotSpawned' /\ HeldWhileLive' /\ ForcedEnds' /\ Busy'
    BY DEF SupervisorInv, Counted, SlotSpawned, HeldWhileLive, ForcedEnds, Busy, Ended
  <1>3. ExitsReal'
    BY DEF SupervisorInv, ExitsReal, ExitsKept, Ended
  <1>4. StartReplaces'
    BY DEF SupervisorInv, StartReplaces, Free, IsReady
  <1>5. NoOrphan'
    BY SupervisorAssumption DEF SupervisorInv, NoOrphan, Generations, SupervisorAssumption
  <1> QED BY <1>1, <1>2, <1>3, <1>4, <1>5 DEF SupervisorInv

\* The first operation of the queue takes the process out of the slot: one that
\* has ended, or one it begins to stop.
LEMMA DetachKeeps ==
  ASSUME SupervisorInv, UNCHANGED force, ExitsKept,
         slot' \in Slots, slot'.proc = 0, slot'.gen = slot.gen, at.pc = "idle",
         at' \in Ats,
         at'.pc \notin {"resolving", "waiting", "unwinding", "registering"},
         at'.pc # "idle" => lock' # <<>>,
         \/ UNCHANGED proc /\ (slot.proc # 0 => ~Free(slot.proc))
         \/ proc' = [proc EXCEPT ![slot.proc].stopping = @ \/ proc[slot.proc].owned]
  PROVE  SupervisorInv'
  <1> DEFINE p == slot.proc
  <1>1. \A g \in Generations :
          /\ proc'[g].os = proc[g].os /\ proc'[g].dying = proc[g].dying
          /\ proc'[g].owned = proc[g].owned
          /\ Free(g)' => Free(g) /\ g # p
    <2>1. CASE UNCHANGED proc /\ (slot.proc # 0 => ~Free(slot.proc))
      BY <2>1, SupervisorAssumption DEF Free, Generations, SupervisorAssumption
    <2>2. CASE proc' = [proc EXCEPT ![slot.proc].stopping = @ \/ proc[slot.proc].owned]
      <3>1. ASSUME NEW g \in Generations, g # p PROVE proc'[g] = proc[g]
        BY <2>2, <3>1 DEF SupervisorInv, Shapes
      <3>2. ASSUME p \in Generations
            PROVE  /\ proc'[p].os = proc[p].os /\ proc'[p].dying = proc[p].dying
                   /\ proc'[p].owned = proc[p].owned
                   /\ proc'[p].stopping = (proc[p].stopping \/ proc[p].owned)
        <4>1. proc'[p] = [proc[p] EXCEPT !.stopping = proc[p].stopping \/ proc[p].owned]
          BY <2>2, <3>2 DEF SupervisorInv, Shapes
        <4>2. proc[p] \in Processes
          BY <3>2 DEF SupervisorInv, Shapes
        <4> QED BY <4>1, <4>2 DEF Processes
      <3> QED BY <3>1, <3>2 DEF SupervisorInv, HeldWhileLive, Free
    <2> QED BY <2>1, <2>2
  <1>2. proc' \in [Generations -> Processes]
    BY DEF SupervisorInv, Shapes, Processes
  <1>3. Shapes'
    BY <1>2, SupervisorAssumption DEF SupervisorInv, Shapes, ExitsKept, SupervisorAssumption
  <1>4. Counted' /\ SlotSpawned' /\ HeldWhileLive' /\ Busy' /\ StartReplaces'
    BY <1>1 DEF SupervisorInv, Counted, SlotSpawned, HeldWhileLive, Busy, StartReplaces
  <1>5. \A g \in Generations : Ended(g) => Ended(g)'
    BY <1>1 DEF Ended
  <1>6. ForcedEnds' /\ ExitsReal'
    BY <1>5, EndedStays, ForcedStays
  <1>7. NoOrphan'
    <2>1. ASSUME NEW g \in Generations, Free(g)' PROVE FALSE
      BY <1>1, <2>1 DEF SupervisorInv, NoOrphan, Free
    <2> QED BY <2>1 DEF NoOrphan, Free
  <1> QED BY <1>3, <1>4, <1>6, <1>7 DEF SupervisorInv

\* A step that changes one process that was spawned: it can only end, be killed
\* or be stopped, and leaves the slot only when it does not run freely.
LEMMA ProcessKeeps ==
  ASSUME SupervisorInv, NEW k \in Generations, NEW p \in Processes,
         proc' = [proc EXCEPT ![k] = p],
         p.os = "none" <=> proc[k].os = "none",
         p.os = "live" /\ ~p.dying => p.owned,
         Ended(k) => p.os = "gone" \/ p.dying,
         p.os = "live" /\ ~p.dying /\ ~p.stopping
           => Free(k) /\ p.ready = proc[k].ready /\ slot'.proc = slot.proc
              /\ ((at'.pc = at.pc /\ at'.gen = at.gen) \/ at.gen # k),
         p.ready => proc[k].ready,
         slot' \in Slots, slot'.gen = slot.gen,
         slot'.proc = slot.proc \/ (slot'.proc = 0 /\ slot.proc = k),
         at' \in Ats,
         \/ at'.pc = at.pc /\ at'.gen = at.gen
         \/ /\ at.pc \notin {"waiting", "unwinding", "registering"} \/ at.gen = k
            /\ at'.pc \notin {"resolving", "waiting", "unwinding", "registering"},
         lock' \in Seq([op : Calls \cup {"exit", "auto"}, gen : 0 .. MaxGen]),
         ExitsReal', Busy',
         force'.gen \in 0 .. MaxGen, ForcedEnds'
  PROVE  SupervisorInv'
  <1>1. proc \in [Generations -> Processes] /\ slot.proc \in 0 .. MaxGen
        /\ proc' \in [Generations -> Processes]
    BY DEF SupervisorInv, Shapes, Slots
  <1>2. proc'[k] = p /\ \A g \in Generations \ {k} : proc'[g] = proc[g]
    BY <1>1
  <1>3. Shapes'
    BY <1>1, SupervisorAssumption DEF SupervisorInv, Shapes, SupervisorAssumption
  <1>4. Counted'
    BY <1>2 DEF SupervisorInv, Counted
  <1>5. SlotSpawned'
    BY <1>1, <1>2, SupervisorAssumption
    DEF SupervisorInv, SlotSpawned, Generations, SupervisorAssumption
  <1>6. HeldWhileLive'
    BY <1>2 DEF SupervisorInv, HeldWhileLive
  <1>7. StartReplaces'
    <2>1. ASSUME slot'.proc # 0
          PROVE  slot'.proc = slot.proc /\ slot.proc \in Generations
      BY <1>1, <2>1, SupervisorAssumption DEF Generations, SupervisorAssumption
    <2>2. ASSUME at'.pc = "resolving", slot'.proc # 0 PROVE ~proc'[slot.proc].ready
      <3>1. at.pc = "resolving" /\ ~proc[slot.proc].ready
        BY <2>1, <2>2 DEF SupervisorInv, StartReplaces
      <3> QED BY <1>2, <2>1, <2>2, <3>1
    <2>3. ASSUME slot'.proc # 0, Free(slot.proc)', ~proc'[slot.proc].ready
          PROVE  at'.pc = "waiting" /\ at'.gen = slot.proc
      <3>1. Free(slot.proc) /\ ~proc[slot.proc].ready
        BY <1>2, <2>1, <2>3 DEF Free
      <3>2. at.pc = "waiting" /\ at.gen = slot.proc
        BY <2>1, <2>3, <3>1 DEF SupervisorInv, StartReplaces
      <3>3. at'.pc = at.pc /\ at'.gen = at.gen
        BY <1>2, <2>1, <2>3, <3>2 DEF Free
      <3> QED BY <3>2, <3>3
    <2> QED BY <2>1, <2>2, <2>3 DEF StartReplaces
  <1>8. NoOrphan'
    <2>1. ASSUME NEW g \in Generations, Free(g)'
          PROVE  \/ slot'.proc = g
                 \/ at'.gen = g /\ at'.pc \in {"unwinding", "registering"}
      <3>1. Free(g)
        BY <1>2, <2>1 DEF Free
      <3>2. slot.proc = g \/ (at.gen = g /\ at.pc \in {"unwinding", "registering"})
        BY <3>1 DEF SupervisorInv, NoOrphan, Free
      <3> QED BY <1>2, <2>1, <3>2 DEF Free
    <2> QED BY <2>1 DEF NoOrphan, Free
  <1> QED BY <1>3, <1>4, <1>5, <1>6, <1>7, <1>8 DEF SupervisorInv
-----------------------------------------------------------------------------
(* One step of each action *)

\* The operation under way is the first of the queue.
LEMMA OperationQueued ==
  ASSUME SupervisorInv, at.pc # "idle" \/ lock # <<>> PROVE lock # <<>>
  BY DEF SupervisorInv, Busy

\* An operation that is over (Finish) and touched no process.
LEMMA FinishedKeeps ==
  ASSUME SupervisorInv, UNCHANGED <<proc, force>>, Finish, lock # <<>>,
         slot' \in Slots, slot'.proc = slot.proc, slot'.gen = slot.gen,
         at.pc \notin {"waiting", "unwinding", "registering"}
  PROVE  SupervisorInv'
  <1>1. lock' = Tail(lock) /\ at'.pc = "idle" /\ at' \in Ats
    BY SupervisorAssumption DEF Finish, Idle, Ats, SupervisorAssumption
  <1>2. ExitsKept
    BY <1>1, FinishKeeps
  <1> QED BY <1>1, <1>2, QuietKeeps

LEMMA CallKeeps ==
  ASSUME SupervisorInv, NEW op \in Calls, Call(op) PROVE SupervisorInv'
  <1> DEFINE o == [op |-> op, gen |-> 0]
  <1>1. o \in [op : Calls \cup {"auto"}, gen : 0 .. MaxGen] /\ lock' = Append(lock, o)
    BY SupervisorAssumption DEF Call, SupervisorAssumption
  <1> HIDE DEF o
  <1>2. ExitsKept /\ lock' # <<>>
    BY <1>1, QueueKeeps
  <1>3. UNCHANGED <<slot, proc, at, force>> /\ slot \in Slots /\ at \in Ats
    BY DEF Call, SupervisorInv, Shapes
  <1> QED BY <1>2, <1>3, QuietKeeps

\* What changes neither the processes nor the queue nor the operation.
LEMMA AsideKeeps ==
  ASSUME SupervisorInv, UNCHANGED <<proc, force, lock, at>>,
         slot' \in Slots, slot'.proc = slot.proc, slot'.gen = slot.gen
  PROVE  SupervisorInv'
  BY SameQueue, QuietKeeps DEF SupervisorInv, Shapes, Busy

LEMMA StartUnlockedKeeps ==
  ASSUME SupervisorInv, NEW s \in Slots, s.proc = slot.proc, s.gen = slot.gen, NEW auto,
         lock # <<>>, at.pc \in {"idle", "stopped"}, StartUnlocked(s, auto),
         UNCHANGED <<proc, force>>
  PROVE  SupervisorInv'
  <1>1. CASE IsReady \/ s.pinned
    <2>1. Finish /\ slot' = IF IsReady THEN s ELSE [s EXCEPT !.desired = FALSE]
      BY <1>1 DEF StartUnlocked
    <2>2. slot' \in Slots /\ slot'.proc = slot.proc /\ slot'.gen = slot.gen
      BY <2>1 DEF Slots
    <2> QED BY <2>1, <2>2, FinishedKeeps
  <1>2. CASE ~IsReady /\ ~s.pinned
    <2>1. /\ slot' = s /\ at' = [Idle EXCEPT !.pc = "resolving"] /\ UNCHANGED lock
      BY <1>2 DEF StartUnlocked
    <2>2. at'.pc = "resolving" /\ at' \in Ats
      BY <2>1, SupervisorAssumption DEF Idle, Ats, SupervisorAssumption
    <2> QED BY <1>2, <2>1, <2>2, SameQueue, QuietKeeps
  <1> QED BY <1>1, <1>2
\* How the registry rewrites a slot without touching its process.
LEMMA SlotRewrites ==
  ASSUME NEW s \in Slots, NEW n \in Nat
  PROVE  /\ NoTimer(s) \in Slots /\ NoTimer(s).proc = s.proc /\ NoTimer(s).gen = s.gen
         /\ FreshBudget(s) \in Slots /\ FreshBudget(s).proc = s.proc
         /\ FreshBudget(s).gen = s.gen
         /\ Crashed(s, n) \in Slots /\ Crashed(s, n).proc = s.proc /\ Crashed(s, n).gen = s.gen
         /\ [s EXCEPT !.desired = TRUE] \in Slots /\ [s EXCEPT !.desired = TRUE].proc = s.proc
         /\ [s EXCEPT !.desired = TRUE].gen = s.gen
         /\ [s EXCEPT !.desired = FALSE] \in Slots /\ [s EXCEPT !.desired = FALSE].proc = s.proc
         /\ [s EXCEPT !.desired = FALSE].gen = s.gen
         /\ [s EXCEPT !.proc = 0] \in Slots /\ [s EXCEPT !.proc = 0].proc = 0
         /\ [s EXCEPT !.proc = 0].gen = s.gen
  <1>1. NoTimer(s) \in Slots /\ NoTimer(s).proc = s.proc /\ NoTimer(s).gen = s.gen
    BY DEF NoTimer, Slots
  <1>2. /\ FreshBudget(s) \in Slots /\ FreshBudget(s).proc = s.proc
        /\ FreshBudget(s).gen = s.gen
    <2> DEFINE x == IF s.state \in {"crash-loop", "failed", "degraded"} THEN "stopped"
                    ELSE s.state
    <2>1. FreshBudget(s) = [s EXCEPT !.crashes = 0, !.sick = 0, !.state = x] /\ x \in States
      BY DEF FreshBudget, Slots, States
    <2> HIDE DEF x
    <2>2. /\ [s EXCEPT !.crashes = 0, !.sick = 0, !.state = x] \in Slots
          /\ [s EXCEPT !.crashes = 0, !.sick = 0, !.state = x].proc = s.proc
          /\ [s EXCEPT !.crashes = 0, !.sick = 0, !.state = x].gen = s.gen
      BY <2>1 DEF Slots
    <2> QED BY <2>1, <2>2
  <1>3. Crashed(s, n) \in Slots /\ Crashed(s, n).proc = s.proc /\ Crashed(s, n).gen = s.gen
    <2>1. /\ [s EXCEPT !.crashes = n, !.state = "failed"] \in Slots
          /\ [s EXCEPT !.crashes = n, !.state = "failed"].proc = s.proc
          /\ [s EXCEPT !.crashes = n, !.state = "failed"].gen = s.gen
      BY DEF Slots, States
    <2>2. /\ [s EXCEPT !.crashes = n, !.state = "crash-loop"] \in Slots
          /\ [s EXCEPT !.crashes = n, !.state = "crash-loop"].proc = s.proc
          /\ [s EXCEPT !.crashes = n, !.state = "crash-loop"].gen = s.gen
      BY DEF Slots, States
    <2>3. /\ [s EXCEPT !.crashes = n, !.state = "failed", !.timer = TRUE] \in Slots
          /\ [s EXCEPT !.crashes = n, !.state = "failed", !.timer = TRUE].proc = s.proc
          /\ [s EXCEPT !.crashes = n, !.state = "failed", !.timer = TRUE].gen = s.gen
      BY DEF Slots, States
    <2> QED BY <2>1, <2>2, <2>3 DEF Crashed
  <1>4. /\ [s EXCEPT !.desired = TRUE] \in Slots /\ [s EXCEPT !.desired = TRUE].proc = s.proc
        /\ [s EXCEPT !.desired = TRUE].gen = s.gen
        /\ [s EXCEPT !.desired = FALSE] \in Slots /\ [s EXCEPT !.desired = FALSE].proc = s.proc
        /\ [s EXCEPT !.desired = FALSE].gen = s.gen
    BY DEF Slots
  <1>5. /\ [s EXCEPT !.proc = 0] \in Slots /\ [s EXCEPT !.proc = 0].proc = 0
        /\ [s EXCEPT !.proc = 0].gen = s.gen
    BY SupervisorAssumption DEF Slots, SupervisorAssumption
  <1> QED BY <1>1, <1>2, <1>3, <1>4, <1>5
LEMMA SlotTyped == ASSUME SupervisorInv PROVE slot \in Slots /\ slot.crashes \in Nat
  BY DEF SupervisorInv, Shapes, Slots

LEMMA AtTyped == ASSUME SupervisorInv PROVE at \in Ats
  BY DEF SupervisorInv, Shapes

\* An operation with no process of its own goes to what follows process.stop().
LEMMA StoppedNext ==
  ASSUME NEW r \in {"done", "crash", "start", "register"},
         at' = [Idle EXCEPT !.pc = "stopped", !.rest = r]
  PROVE  at' \in Ats /\ at'.pc = "stopped"
  <1>1. at' = [pc |-> "stopped", gen |-> 0, rest |-> r]
    BY DEF Idle
  <1> QED BY <1>1, SupervisorAssumption DEF Ats, SupervisorAssumption

LEMMA StartKeeps ==
  ASSUME SupervisorInv, Start PROVE SupervisorInv'
  <1> DEFINE t == [slot EXCEPT !.desired = TRUE]
             s == NoTimer(t)
             u == IF s.state = "crash-loop" THEN FreshBudget(s) ELSE s
  <1>1. t \in Slots /\ t.proc = slot.proc /\ t.gen = slot.gen
    BY SlotTyped, SlotRewrites
  <1>2. lock # <<>> /\ at.pc = "idle" /\ StartUnlocked(u, FALSE) /\ UNCHANGED <<proc, force>>
    BY DEF Start, Running
  <1> HIDE DEF t
  <1>3. s \in Slots /\ s.proc = slot.proc /\ s.gen = slot.gen
    BY <1>1, SlotRewrites
  <1> HIDE DEF s
  <1>4. u \in Slots /\ u.proc = slot.proc /\ u.gen = slot.gen
    BY <1>3, SlotRewrites
  <1> HIDE DEF u
  <1> QED BY <1>2, <1>4, StartUnlockedKeeps

LEMMA AutoStartKeeps ==
  ASSUME SupervisorInv, AutoStart PROVE SupervisorInv'
  <1>1. lock # <<>> /\ at.pc = "idle" /\ UNCHANGED <<proc, force>>
    BY DEF AutoStart, Running
  <1>2. (Finish /\ UNCHANGED slot) \/ StartUnlocked(slot, TRUE)
    BY DEF AutoStart
  <1>3. CASE Finish /\ UNCHANGED slot
    BY <1>1, <1>3, FinishedKeeps, SlotTyped
  <1>4. CASE StartUnlocked(slot, TRUE)
    BY <1>1, <1>4, StartUnlockedKeeps, SlotTyped
  <1> QED BY <1>2, <1>3, <1>4

LEMMA SetPolicyKeeps ==
  ASSUME SupervisorInv, SetPolicy PROVE SupervisorInv'
  <1>1. slot' \in Slots /\ slot'.proc = slot.proc /\ slot'.gen = slot.gen
    BY SlotTyped DEF SetPolicy, Slots
  <1>2. UNCHANGED <<proc, force, lock, at>>
    BY DEF SetPolicy
  <1> QED BY <1>1, <1>2, AsideKeeps

LEMMA HealthKeeps ==
  ASSUME SupervisorInv, HealthBegin \/ \E ok \in BOOLEAN : HealthEnd(ok)
  PROVE  SupervisorInv'
  <1>1. CASE HealthBegin
    <2>1. UNCHANGED <<slot, proc, force>> /\ lock # <<>> /\ at.pc = "idle"
      BY <1>1 DEF HealthBegin, Running
    <2>2. CASE Finish
      BY <2>1, <2>2, FinishedKeeps, SlotTyped
    <2>3. CASE Goto("probing")
      <3>1. at'.pc = "probing" /\ at' \in Ats /\ UNCHANGED lock
        BY <2>3, AtTyped DEF Goto, Ats
      <3> QED BY <2>1, <3>1, SameQueue, QuietKeeps, SlotTyped
    <2> QED BY <1>1, <2>2, <2>3 DEF HealthBegin
  <1>2. ASSUME NEW ok \in BOOLEAN, HealthEnd(ok) PROVE SupervisorInv'
    <2>1. at.pc = "probing" /\ lock # <<>> /\ Finish /\ UNCHANGED <<proc, force>>
      BY <1>2, OperationQueued DEF HealthEnd
    <2>2. slot' = IF ok THEN [slot EXCEPT !.state = "ready", !.sick = 0]
                  ELSE [slot EXCEPT !.state = "degraded", !.sick = @ + 1]
      BY <1>2 DEF HealthEnd
    <2>3. slot' \in Slots /\ slot'.proc = slot.proc /\ slot'.gen = slot.gen
      <3>1. CASE ok
        BY <2>2, <3>1, SlotTyped DEF Slots, States
      <3>2. CASE ~ok
        <4> DEFINE n == slot.sick + 1
        <4>1. slot' = [slot EXCEPT !.state = "degraded", !.sick = n] /\ n \in Nat
          BY <2>2, <3>2, SlotTyped DEF Slots
        <4> HIDE DEF n
        <4> QED BY <4>1, SlotTyped DEF Slots, States
      <3> QED BY <3>1, <3>2
    <2> QED BY <2>1, <2>3, FinishedKeeps
  <1> QED BY <1>1, <1>2

LEMMA TimerFiresKeeps ==
  ASSUME SupervisorInv, TimerFires PROVE SupervisorInv'
  <1> DEFINE o == [op |-> "auto", gen |-> 0]
  <1>1. slot' \in Slots /\ slot'.proc = slot.proc /\ slot'.gen = slot.gen
    BY SlotTyped, SlotRewrites DEF TimerFires
  <1>2. /\ at \in Ats /\ o \in [op : Calls \cup {"auto"}, gen : 0 .. MaxGen] /\ lock' = Append(lock, o)
        /\ UNCHANGED <<proc, at, force>>
    BY AtTyped, SupervisorAssumption DEF TimerFires, SupervisorAssumption
  <1> HIDE DEF o
  <1>3. ExitsKept /\ lock' # <<>>
    BY <1>2, QueueKeeps
  <1> QED BY <1>1, <1>2, <1>3, QuietKeeps

\* The slot after a quit or a stop has asked for the end.
LEMMA Unwanted ==
  ASSUME SupervisorInv
  PROVE  LET s == NoTimer([slot EXCEPT !.desired = FALSE]) IN
           s \in Slots /\ s.proc = slot.proc /\ s.gen = slot.gen
  <1> DEFINE t == [slot EXCEPT !.desired = FALSE]
  <1>1. t \in Slots /\ t.proc = slot.proc /\ t.gen = slot.gen
    BY SlotTyped, SlotRewrites
  <1> HIDE DEF t
  <1>2. NoTimer(t) \in Slots /\ NoTimer(t).proc = slot.proc /\ NoTimer(t).gen = slot.gen
    BY <1>1, SlotRewrites
  <1> QED BY <1>2 DEF t

LEMMA QuitKeeps ==
  ASSUME SupervisorInv, Quit PROVE SupervisorInv'
  <1> DEFINE o == [op |-> "stop", gen |-> 0]
  <1>1. slot' \in Slots /\ slot'.proc = slot.proc /\ slot'.gen = slot.gen
    BY Unwanted DEF Quit
  <1>2. /\ at \in Ats /\ o \in [op : Calls \cup {"auto"}, gen : 0 .. MaxGen] /\ lock' = Append(lock, o)
        /\ UNCHANGED <<proc, at, force>>
    BY AtTyped, SupervisorAssumption DEF Quit, Calls, SupervisorAssumption
  <1> HIDE DEF o
  <1>3. ExitsKept /\ lock' # <<>>
    BY <1>2, QueueKeeps
  <1> QED BY <1>1, <1>2, <1>3, QuietKeeps

LEMMA QuietStepsKeep ==
  ASSUME SupervisorInv,
         \/ QuitStopped
         \/ \E r \in Requests : Request(r) \/ Answer(r) \/ RequestTimeout(r)
         \/ UNCHANGED vars
  PROVE  SupervisorInv'
  <1>1. UNCHANGED <<slot, proc, force, lock, at>>
    BY DEF QuitStopped, Request, Answer, RequestTimeout, vars
  <1> QED BY <1>1, AsideKeeps, SlotTyped
-----------------------------------------------------------------------------
(* Stops, exits and starts *)

\* The part of stopUnlocked before process.stop().
LEMMA StopUnlockedKeeps ==
  ASSUME SupervisorInv, NEW s \in Slots, s.proc = slot.proc, s.gen = slot.gen,
         NEW rest \in {"done", "crash", "start", "register"},
         StopUnlocked(s, rest), lock # <<>>, at.pc = "idle", UNCHANGED <<lock, force>>
  PROVE  SupervisorInv'
  <1>1. CASE s.proc = 0
    <2> DEFINE x == IF s.state = "not-installed" THEN s.state ELSE "stopped"
    <2>1. /\ slot' = [s EXCEPT !.state = x] /\ x \in States
          /\ at' = [Idle EXCEPT !.pc = "stopped", !.rest = rest] /\ UNCHANGED proc
      BY <1>1 DEF StopUnlocked, Slots, States
    <2> HIDE DEF x
    <2>2. slot' \in Slots /\ slot'.proc = slot.proc /\ slot'.gen = slot.gen
      BY <2>1 DEF Slots
    <2>3. at' \in Ats /\ at'.pc = "stopped"
      BY <2>1, StoppedNext
    <2> QED BY <2>1, <2>2, <2>3, SameQueue, QuietKeeps
  <1>2. CASE s.proc # 0
    <2> DEFINE pc == IF proc[s.proc].owned THEN "stopping" ELSE "stopped"
    <2>1. /\ slot' = [s EXCEPT !.state = "stopping", !.proc = 0]
          /\ at' = [pc |-> pc, gen |-> s.proc, rest |-> rest]
          /\ proc' = [proc EXCEPT ![slot.proc].stopping = @ \/ proc[slot.proc].owned]
      BY <1>2 DEF StopUnlocked
    <2>2. pc \in {"stopping", "stopped"}
      OBVIOUS
    <2> HIDE DEF pc
    <2>3. slot' \in Slots /\ slot'.proc = 0 /\ slot'.gen = slot.gen
      <3>1. slot' = [s EXCEPT !.state = "stopping", !.proc = 0] /\ s \in Slots
            /\ s.gen = slot.gen /\ 0 \in 0 .. MaxGen /\ "stopping" \in States
        BY <2>1, SupervisorAssumption DEF States, SupervisorAssumption
      <3>2. slot' \in Slots
        BY <3>1 DEF Slots
      <3>3. slot'.proc = 0 /\ slot'.gen = s.gen
        BY <3>1 DEF Slots
      <3> QED BY <3>1, <3>2, <3>3
    <2>4. at' \in Ats /\ at'.pc = pc
      BY <2>1, <2>2 DEF Ats, Slots
    <2> QED BY <2>1, <2>2, <2>3, <2>4, SameQueue, DetachKeeps
  <1> QED BY <1>1, <1>2

LEMMA StopKeeps ==
  ASSUME SupervisorInv, Stop PROVE SupervisorInv'
  <1> DEFINE s == NoTimer([slot EXCEPT !.desired = FALSE])
  <1>1. s \in Slots /\ s.proc = slot.proc /\ s.gen = slot.gen
    BY Unwanted
  <1>2. StopUnlocked(s, "done") /\ lock # <<>> /\ at.pc = "idle" /\ UNCHANGED <<lock, force>>
    BY DEF Stop, Running
  <1> HIDE DEF s
  <1> QED BY <1>1, <1>2, StopUnlockedKeeps

LEMMA RestartKeeps ==
  ASSUME SupervisorInv, Restart PROVE SupervisorInv'
  <1> DEFINE s == NoTimer([slot EXCEPT !.desired = FALSE])
  <1>1. s \in Slots /\ s.proc = slot.proc /\ s.gen = slot.gen
    BY Unwanted
  <1>2. /\ lock # <<>> /\ at.pc = "idle" /\ UNCHANGED force
        /\ \/ Finish /\ UNCHANGED <<slot, proc>>
           \/ StopUnlocked(s, "start") /\ UNCHANGED lock
    BY DEF Restart, Running
  <1> HIDE DEF s
  <1>3. CASE Finish /\ UNCHANGED <<slot, proc>>
    BY <1>2, <1>3, FinishedKeeps, SlotTyped
  <1>4. CASE StopUnlocked(s, "start") /\ UNCHANGED lock
    BY <1>1, <1>2, <1>4, StopUnlockedKeeps
  <1> QED BY <1>2, <1>3, <1>4

LEMMA RefreshKeeps ==
  ASSUME SupervisorInv, Refresh PROVE SupervisorInv'
  <1> DEFINE d == [slot EXCEPT !.desired = FALSE, !.pinned = FALSE]
             t == NoTimer(d)
             s == FreshBudget(t)
  <1>1. d \in Slots /\ d.proc = slot.proc /\ d.gen = slot.gen
    BY SlotTyped DEF Slots
  <1>2. /\ lock # <<>> /\ at.pc = "idle" /\ UNCHANGED force
        /\ \/ Finish /\ UNCHANGED proc /\ slot' = [slot EXCEPT !.pinned = TRUE]
           \/ UNCHANGED lock /\ StopUnlocked(s, "register")
           \/ /\ UNCHANGED <<lock, proc>> /\ slot' = s
              /\ at' = [Idle EXCEPT !.pc = "stopped", !.rest = "register"]
    BY DEF Refresh, Running
  <1> HIDE DEF d
  <1>3. t \in Slots /\ t.proc = slot.proc /\ t.gen = slot.gen
    BY <1>1, SlotRewrites
  <1> HIDE DEF t
  <1>4. s \in Slots /\ s.proc = slot.proc /\ s.gen = slot.gen
    BY <1>3, SlotRewrites
  <1> HIDE DEF s
  <1>5. CASE Finish /\ UNCHANGED proc /\ slot' = [slot EXCEPT !.pinned = TRUE]
    <2>1. slot' \in Slots /\ slot'.proc = slot.proc /\ slot'.gen = slot.gen
      BY <1>5, SlotTyped DEF Slots
    <2> QED BY <1>2, <1>5, <2>1, FinishedKeeps
  <1>6. CASE UNCHANGED lock /\ StopUnlocked(s, "register")
    BY <1>2, <1>4, <1>6, StopUnlockedKeeps
  <1>7. CASE /\ UNCHANGED <<lock, proc>> /\ slot' = s
             /\ at' = [Idle EXCEPT !.pc = "stopped", !.rest = "register"]
    <2>1. at' \in Ats /\ at'.pc = "stopped"
      BY <1>7, StoppedNext
    <2> QED BY <1>2, <1>4, <1>7, <2>1, SameQueue, QuietKeeps
  <1> QED BY <1>2, <1>5, <1>6, <1>7

\* A registration writes the state of the slot, and may pin it.
LEMMA RegisteredSlot ==
  ASSUME NEW s \in Slots, NEW t \in Registered(s)
  PROVE  /\ t \in Slots /\ t.proc = s.proc /\ t.gen = s.gen
         /\ t.timer = s.timer /\ t.desired = s.desired
         /\ t.state \in {"installed", "not-installed", "failed"}
  BY DEF Registered, Slots, States

\* What follows process.stop().
LEMMA StoppedKeeps ==
  ASSUME SupervisorInv, Stopped PROVE SupervisorInv'
  <1> DEFINE s == IF at.gen # 0 /\ at.rest # "crash" THEN [slot EXCEPT !.state = "stopped"]
                  ELSE slot
             f == FreshBudget(s)
             u == [f EXCEPT !.desired = TRUE]
  <1>1. s \in Slots /\ s.proc = slot.proc /\ s.gen = slot.gen
    BY SlotTyped DEF Slots, States
  <1>2. lock # <<>> /\ at.pc = "stopped" /\ UNCHANGED <<proc, force>>
    BY OperationQueued DEF Stopped
  <1>3. \/ slot' = s /\ Finish
        \/ (\E n \in CrashCounts : slot' = Crashed(slot, n)) /\ Finish
        \/ StartUnlocked(u, FALSE)
        \/ /\ slot' \in Registered(s)
           /\ Finish
    BY DEF Stopped
  <1> HIDE DEF s
  <1>4. f \in Slots /\ f.proc = slot.proc /\ f.gen = slot.gen
    BY <1>1, SlotRewrites
  <1> HIDE DEF f
  <1>5. u \in Slots /\ u.proc = slot.proc /\ u.gen = slot.gen
    BY <1>4, SlotRewrites
  <1> HIDE DEF u
  <1>6. CASE slot' = s /\ Finish
    BY <1>1, <1>2, <1>6, FinishedKeeps
  <1>7. CASE (\E n \in CrashCounts : slot' = Crashed(slot, n)) /\ Finish
    <2>1. PICK n \in CrashCounts : slot' = Crashed(slot, n)
      BY <1>7
    <2>2. n \in Nat
      BY SlotTyped DEF CrashCounts
    <2>3. slot' \in Slots /\ slot'.proc = slot.proc /\ slot'.gen = slot.gen
      BY <2>1, <2>2, SlotTyped, SlotRewrites
    <2> QED BY <1>2, <1>7, <2>3, FinishedKeeps
  <1>8. CASE StartUnlocked(u, FALSE)
    BY <1>2, <1>5, <1>8, StartUnlockedKeeps
  <1>9. CASE /\ slot' \in Registered(s)
             /\ Finish
    <2>1. slot' \in Slots /\ slot'.proc = slot.proc /\ slot'.gen = slot.gen
      BY <1>1, <1>9, RegisteredSlot
    <2> QED BY <1>2, <1>9, <2>1, FinishedKeeps
  <1> QED BY <1>3, <1>6, <1>7, <1>8, <1>9
\* The queued observer of an exit: the process of the slot has ended.
LEMMA ExitedKeeps ==
  ASSUME SupervisorInv, Exited PROVE SupervisorInv'
  <1> DEFINE g == lock[1].gen
             e == [slot EXCEPT !.proc = 0]
  <1>1. /\ lock # <<>> /\ at.pc = "idle" /\ Finish /\ UNCHANGED <<proc, force>>
        /\ 1 \in DOMAIN lock /\ Head(lock) = lock[1] /\ lock[1].op = "exit"
    BY DEF Exited, Running, SupervisorInv, Shapes
  <1>2. \/ slot.proc = g /\ \E n \in CrashCounts : slot' = Crashed(e, n)
        \/ UNCHANGED slot
    BY <1>1 DEF Exited
  <1>3. e \in Slots /\ e.proc = 0 /\ e.gen = slot.gen
    BY SlotTyped, SlotRewrites
  <1> HIDE DEF e
  <1>4. CASE UNCHANGED slot
    BY <1>1, <1>4, FinishedKeeps, SlotTyped
  <1>5. CASE slot.proc = g /\ \E n \in CrashCounts : slot' = Crashed(e, n)
    <2>1. PICK n \in CrashCounts : slot' = Crashed(e, n)
      BY <1>5
    <2>2. n \in Nat
      BY SlotTyped DEF CrashCounts
    <2>3. slot' \in Slots /\ slot'.proc = 0 /\ slot'.gen = slot.gen
      BY <1>3, <2>1, <2>2, SlotRewrites
    <2>4. ~Free(slot.proc)
      BY <1>1, <1>5, ExitGen DEF Ended, Free
    <2>5. lock' = Tail(lock) /\ at'.pc = "idle" /\ at' \in Ats
      BY <1>1, SupervisorAssumption DEF Finish, Idle, Ats, SupervisorAssumption
    <2>6. ExitsKept
      BY <1>1, <2>5, FinishKeeps
    <2> QED BY <1>1, <2>3, <2>4, <2>5, <2>6, DetachKeeps
  <1> QED BY <1>2, <1>4, <1>5

\* The launch resolves: a new process in the slot, awaited.
LEMMA ResolveKeeps ==
  ASSUME SupervisorInv, Resolve(TRUE) PROVE SupervisorInv'
  <1> DEFINE g == slot.gen + 1
             p == [NoProcess EXCEPT !.os = "live", !.owned = TRUE]
  <1>1. /\ at.pc = "resolving" /\ g \in Generations
        /\ slot' = [slot EXCEPT !.gen = g, !.state = "starting", !.proc = g]
        /\ proc' = [proc EXCEPT ![g] = p]
        /\ at' = [at EXCEPT !.pc = "waiting", !.gen = g]
        /\ UNCHANGED <<lock, force>>
    BY DEF Resolve
  <1>2. /\ p \in Processes /\ p.os = "live" /\ p.owned /\ ~p.dying
    BY DEF NoProcess, Processes
  <1>3. slot.gen \in 0 .. MaxGen /\ g # slot.gen /\ g > slot.gen /\ g # 0
    BY <1>1, SlotTyped, SupervisorAssumption DEF Slots, Generations, SupervisorAssumption
  <1>4. proc[g].os = "none"
    BY <1>1, <1>3 DEF SupervisorInv, Counted
  <1> HIDE DEF g, p
  <1>5. g \in 0 .. MaxGen
    BY <1>1, SupervisorAssumption DEF Generations, SupervisorAssumption
  <1>6. slot' \in Slots /\ slot'.gen = g /\ slot'.proc = g
    <2>1. slot \in Slots /\ "starting" \in States
      BY SlotTyped DEF States
    <2> QED BY <1>1, <1>5, <2>1 DEF Slots
  <1>7. at' \in Ats /\ at'.pc = "waiting" /\ at'.gen = g
    BY <1>1, <1>5, AtTyped DEF Ats
  <1>8. /\ proc' \in [Generations -> Processes] /\ proc'[g] = p
        /\ \A h \in Generations \ {g} : proc'[h] = proc[h]
    BY <1>1, <1>2 DEF SupervisorInv, Shapes
  <1>9. ASSUME NEW h \in Generations, Ended(h) PROVE h # g /\ Ended(h)'
    BY <1>4, <1>8, <1>9 DEF Ended
  <1>10. Shapes'
    BY <1>1, <1>6, <1>7, <1>8 DEF SupervisorInv, Shapes
  <1>11. Counted'
    <2>1. ASSUME NEW h \in Generations, proc'[h].os # "none" PROVE h <= g
      <3>1. CASE h = g
        BY <1>5, <3>1
      <3>2. CASE h # g
        <4>1. h <= slot.gen
          BY <1>8, <2>1, <3>2 DEF SupervisorInv, Counted
        <4> QED BY <1>1, <1>3, <1>5, <4>1, SupervisorAssumption
                DEF Generations, SupervisorAssumption
      <3> QED BY <3>1, <3>2
    <2> QED BY <1>6, <2>1 DEF Counted
  <1>12. SlotSpawned' /\ HeldWhileLive' /\ Busy'
    BY <1>1, <1>2, <1>6, <1>8
    DEF SupervisorInv, SlotSpawned, HeldWhileLive, Busy
  <1>13. ExitsReal' /\ ForcedEnds'
    BY <1>1, <1>9, SameQueue, EndedStays, ForcedStays
  <1>15. StartReplaces'
    BY <1>6, <1>7 DEF StartReplaces
  <1>16. NoOrphan'
    <2>1. ASSUME NEW h \in Generations \ {g}, Free(h) PROVE FALSE
      <3>1. slot.proc = h
        BY <1>1, <2>1 DEF SupervisorInv, NoOrphan, Free
      <3>2. h # 0
        BY SupervisorAssumption DEF Generations, SupervisorAssumption
      <3> QED BY <1>1, <2>1, <3>1, <3>2 DEF SupervisorInv, StartReplaces
    <2>2. \A h \in Generations \ {g} : ~Free(h)'
      BY <1>8, <2>1 DEF Free
    <2> QED BY <1>6, <2>2 DEF NoOrphan, Free
  <1> QED
    BY <1>10, <1>11, <1>12, <1>13, <1>15, <1>16 DEF SupervisorInv

LEMMA ResolveFailsKeeps ==
  ASSUME SupervisorInv, Resolve(FALSE) PROVE SupervisorInv'
  <1> DEFINE x == IF slot.state = "not-installed" THEN slot.state ELSE "failed"
  <1>1. /\ at.pc = "resolving" /\ Finish /\ UNCHANGED <<proc, force>>
        /\ slot' = [slot EXCEPT !.desired = FALSE, !.state = x]
    BY DEF Resolve
  <1>2. x \in States
    BY DEF States
  <1> HIDE DEF x
  <1>3. slot' \in Slots /\ slot'.proc = slot.proc /\ slot'.gen = slot.gen
    BY <1>1, <1>2, SlotTyped DEF Slots
  <1>4. lock # <<>>
    BY <1>1, OperationQueued
  <1> QED BY <1>1, <1>3, <1>4, FinishedKeeps

\* onProcessReady has returned.
LEMMA StartedKeeps ==
  ASSUME SupervisorInv, Started PROVE SupervisorInv'
  <1>1. at.pc = "registering" /\ lock # <<>> /\ UNCHANGED <<proc, force>>
    BY OperationQueued DEF Started
  <1>2. CASE slot.proc = at.gen /\ slot.gen = at.gen
    <2>1. slot' = [slot EXCEPT !.state = "ready", !.sick = 0] /\ Finish
      BY <1>2 DEF Started
    <2>2. slot' \in Slots /\ slot'.proc = slot.proc /\ slot'.gen = slot.gen
      BY <2>1, SlotTyped DEF Slots, States
    <2>3. lock' = Tail(lock) /\ at'.pc = "idle" /\ at' \in Ats
      BY <2>1, SupervisorAssumption DEF Finish, Idle, Ats, SupervisorAssumption
    <2>4. ExitsKept
      BY <1>1, <2>3, FinishKeeps
    <2>5. Shapes'
      BY <1>1, <2>2, <2>3, <2>4 DEF SupervisorInv, Shapes, ExitsKept
    <2>6. Counted' /\ SlotSpawned' /\ HeldWhileLive' /\ ForcedEnds' /\ Busy'
      BY <1>1, <2>2, <2>3
      DEF SupervisorInv, Counted, SlotSpawned, HeldWhileLive, ForcedEnds, Busy, Ended
    <2>7. ExitsReal'
      BY <1>1, <2>4 DEF SupervisorInv, ExitsReal, ExitsKept, Ended
    <2>8. StartReplaces'
      BY <1>1, <2>2, <2>3 DEF SupervisorInv, StartReplaces, Free
    <2>9. NoOrphan'
      BY <1>1, <1>2, <2>2 DEF SupervisorInv, NoOrphan
    <2> QED BY <2>5, <2>6, <2>7, <2>8, <2>9 DEF SupervisorInv
  <1>3. CASE ~(slot.proc = at.gen /\ slot.gen = at.gen)
    <2>1. Goto("unwinding") /\ UNCHANGED slot
      BY <1>3 DEF Started
    <2>2. at' \in Ats /\ at'.pc = "unwinding" /\ at'.gen = at.gen /\ UNCHANGED lock
      BY <2>1, AtTyped DEF Goto, Ats
    <2>3. Shapes'
      BY <1>1, <2>1, <2>2 DEF SupervisorInv, Shapes
    <2>4. Counted' /\ SlotSpawned' /\ HeldWhileLive' /\ ForcedEnds' /\ Busy' /\ ExitsReal'
      BY <1>1, <2>1, <2>2
      DEF SupervisorInv, Counted, SlotSpawned, HeldWhileLive, ForcedEnds, Busy, Ended, ExitsReal
    <2>5. StartReplaces' /\ NoOrphan'
      BY <1>1, <2>1, <2>2 DEF SupervisorInv, StartReplaces, Free, NoOrphan
    <2> QED BY <2>3, <2>4, <2>5 DEF SupervisorInv
  <1> QED BY <1>2, <1>3

LEMMA StartFailsKeeps ==
  ASSUME SupervisorInv, StartFails PROVE SupervisorInv'
  <1> DEFINE x == IF slot.proc = at.gen THEN 0 ELSE slot.proc
  <1>1. /\ at.pc \in {"waiting", "registering"} /\ UNCHANGED <<proc, force, lock>> /\ lock # <<>>
        /\ slot' = [slot EXCEPT !.proc = x]
        /\ at' \in Ats /\ at'.pc = "unwinding" /\ at'.gen = at.gen
    BY OperationQueued, AtTyped DEF StartFails, Goto, Ats
  <1>2. x \in 0 .. MaxGen /\ (x = 0 \/ x = slot.proc) /\ (slot.proc # at.gen => x = slot.proc)
    BY SlotTyped, SupervisorAssumption DEF Slots, SupervisorAssumption
  <1>3. x # at.gen \/ x = 0
    OBVIOUS
  <1> HIDE DEF x
  <1>4. slot' \in Slots /\ slot'.proc = x /\ slot'.gen = slot.gen
    BY <1>1, <1>2, SlotTyped DEF Slots
  <1>5. Shapes'
    BY <1>1, <1>4 DEF SupervisorInv, Shapes
  <1>6. Counted' /\ HeldWhileLive' /\ ForcedEnds' /\ Busy' /\ ExitsReal'
    BY <1>1, <1>4
    DEF SupervisorInv, Counted, HeldWhileLive, ForcedEnds, Busy, Ended, ExitsReal
  <1>7. SlotSpawned'
    BY <1>1, <1>2, <1>4 DEF SupervisorInv, SlotSpawned
  <1>8. StartReplaces'
    BY <1>1, <1>2, <1>3, <1>4 DEF SupervisorInv, StartReplaces, Free
  <1>9. NoOrphan'
    BY <1>1, <1>2, <1>4 DEF SupervisorInv, NoOrphan
  <1> QED BY <1>5, <1>6, <1>7, <1>8, <1>9 DEF SupervisorInv
-----------------------------------------------------------------------------
(* What happens to a process *)

\* The process reports ready: it was awaited, and is registered now.
LEMMA ProcessReadyKeeps ==
  ASSUME SupervisorInv, NEW g \in Generations, ProcessReady(g) PROVE SupervisorInv'
  <1>1. /\ at.pc = "waiting" /\ at.gen = g /\ UNCHANGED <<slot, force, lock>>
        /\ proc' = [proc EXCEPT ![g].ready = TRUE] /\ lock # <<>>
        /\ at' \in Ats /\ at'.pc = "registering" /\ at'.gen = g
    BY OperationQueued, AtTyped DEF ProcessReady, Goto, Ats
  <1>2. \A h \in Generations \ {g} : proc'[h] = proc[h]
    BY <1>1 DEF SupervisorInv, Shapes
  <1>3. /\ proc'[g] \in Processes /\ proc'[g].ready /\ proc'[g].os = proc[g].os
        /\ proc'[g].dying = proc[g].dying /\ proc'[g].owned = proc[g].owned
        /\ proc'[g].stopping = proc[g].stopping
    <2>1. proc[g] \in Processes /\ proc'[g] = [proc[g] EXCEPT !.ready = TRUE]
      BY <1>1 DEF SupervisorInv, Shapes
    <2> QED BY <2>1 DEF Processes
  <1>4. Shapes'
    <2>1. proc' \in [Generations -> Processes]
      BY <1>1, <1>2, <1>3 DEF SupervisorInv, Shapes
    <2> QED BY <1>1, <2>1 DEF SupervisorInv, Shapes
  <1>5. slot.proc = 0 \/ slot.proc \in Generations
    BY SlotTyped, SupervisorAssumption DEF Slots, Generations, SupervisorAssumption
  <1>6. Counted' /\ SlotSpawned' /\ HeldWhileLive' /\ Busy'
    BY <1>1, <1>2, <1>3, <1>5
    DEF SupervisorInv, Counted, SlotSpawned, HeldWhileLive, Busy
  <1>7. \A h \in Generations : Ended(h) => Ended(h)'
    BY <1>2, <1>3 DEF Ended
  <1>8. ExitsReal' /\ ForcedEnds'
    BY <1>1, <1>7, SameQueue, EndedStays, ForcedStays
  <1>9. StartReplaces'
    BY <1>1, <1>2, <1>3, <1>5 DEF SupervisorInv, StartReplaces, Free
  <1>10. NoOrphan'
    BY <1>1, <1>2, <1>3 DEF SupervisorInv, NoOrphan
  <1> QED BY <1>4, <1>6, <1>8, <1>9, <1>10 DEF SupervisorInv

\* The catch block of a start takes its process out of the slot and stops it.
LEMMA UnwindKeeps ==
  ASSUME SupervisorInv, Unwind PROVE SupervisorInv'
  <1> DEFINE pc == IF proc[at.gen].owned THEN "stopping" ELSE "stopped"
             x == IF slot.proc = at.gen THEN 0 ELSE slot.proc
  <1>1. /\ at.pc = "unwinding" /\ UNCHANGED <<force, lock>> /\ lock # <<>>
        /\ at' = [at EXCEPT !.pc = pc, !.rest = "crash"]
        /\ slot' = [slot EXCEPT !.proc = x]
        /\ proc' = [proc EXCEPT ![at.gen].stopping = proc[at.gen].owned]
    BY OperationQueued DEF Unwind
  <1>2. pc \in {"stopping", "stopped"}
    OBVIOUS
  <1>3. x \in 0 .. MaxGen /\ (x = slot.proc \/ (x = 0 /\ slot.proc = at.gen))
        /\ (at.gen = 0 => x = slot.proc)
    BY SlotTyped, SupervisorAssumption DEF Slots, SupervisorAssumption
  <1> HIDE DEF pc, x
  <1>4. at' \in Ats /\ at'.pc = pc
    BY <1>1, <1>2, AtTyped DEF Ats
  <1>5. slot' \in Slots /\ slot'.proc = x /\ slot'.gen = slot.gen
    BY <1>1, <1>3, SlotTyped DEF Slots
  <1>6. CASE at.gen = 0
    <2>1. UNCHANGED proc
      BY <1>1, <1>6, SupervisorAssumption
      DEF SupervisorInv, Shapes, Generations, SupervisorAssumption
    <2> QED BY <1>1, <1>2, <1>3, <1>4, <1>5, <1>6, <2>1, SameQueue, QuietKeeps
  <1>7. CASE at.gen # 0
    <2> DEFINE k == at.gen
               p == [proc[k] EXCEPT !.stopping = proc[k].owned]
    <2>1. k \in Generations
      BY <1>7, AtTyped, SupervisorAssumption DEF Ats, Generations, SupervisorAssumption
    <2>2. proc[k] \in Processes /\ proc' = [proc EXCEPT ![k] = p]
      BY <1>1, <2>1 DEF SupervisorInv, Shapes
    <2>3. /\ p \in Processes /\ p.os = proc[k].os /\ p.dying = proc[k].dying
          /\ p.owned = proc[k].owned /\ p.ready = proc[k].ready
          /\ p.stopping = proc[k].owned
      BY <2>2 DEF Processes
    <2> HIDE DEF p
    <2>4. proc' \in [Generations -> Processes] /\ proc'[k] = p
          /\ \A h \in Generations \ {k} : proc'[h] = proc[h]
      BY <2>1, <2>2, <2>3 DEF SupervisorInv, Shapes
    <2>5. \A h \in Generations : Ended(h) => Ended(h)'
      BY <2>3, <2>4 DEF Ended
    <2>6. ExitsReal' /\ ForcedEnds' /\ force'.gen \in 0 .. MaxGen /\ Busy'
      BY <1>1, <2>5, SameQueue, EndedStays, ForcedStays DEF Busy
    <2>7. lock' \in Seq([op : Calls \cup {"exit", "auto"}, gen : 0 .. MaxGen])
      BY <1>1 DEF SupervisorInv, Shapes
    <2>8. proc[k].os = "live" /\ ~proc[k].dying => proc[k].owned
      BY <2>1 DEF SupervisorInv, HeldWhileLive
    <2>9. Ended(k) => p.os = "gone" \/ p.dying
      BY <2>3 DEF Ended
    <2>10. /\ ~(p.os = "live" /\ ~p.dying /\ ~p.stopping)
           /\ p.os = "live" /\ ~p.dying => p.owned
      BY <2>3, <2>8
    <2>11. /\ slot' \in Slots /\ slot'.gen = slot.gen
           /\ slot'.proc = slot.proc \/ (slot'.proc = 0 /\ slot.proc = k)
      BY <1>3, <1>5
    <2>12. /\ at' \in Ats /\ at.gen = k
           /\ at'.pc \notin {"resolving", "waiting", "unwinding", "registering"}
      BY <1>2, <1>4
    <2> HIDE DEF k
    <2> QED
      BY <2>1, <2>2, <2>3, <2>6, <2>7, <2>9, <2>10, <2>11, <2>12, ProcessKeeps
  <1> QED BY <1>6, <1>7

\* process.stop() has killed what was left.
LEMMA StopProcessKeeps ==
  ASSUME SupervisorInv, StopProcess PROVE SupervisorInv'
  <1>1. /\ at.pc = "stopping" /\ UNCHANGED <<slot, force, lock>> /\ lock # <<>>
        /\ at' \in Ats /\ at'.pc = "stopped" /\ slot \in Slots
    BY OperationQueued, AtTyped, SlotTyped DEF StopProcess, Goto, Ats
  <1>2. CASE at.gen = 0
    <2>1. UNCHANGED proc
      BY <1>2, SupervisorAssumption
      DEF StopProcess, SupervisorInv, Shapes, Generations, SupervisorAssumption
    <2> QED BY <1>1, <2>1, SameQueue, QuietKeeps
  <1>3. CASE at.gen # 0
    <2> DEFINE k == at.gen
               p == [proc[k] EXCEPT !.dying = TRUE, !.owned = FALSE, !.ready = FALSE,
                                    !.stopping = FALSE]
    <2>1. k \in Generations
      BY <1>3, AtTyped, SupervisorAssumption DEF Ats, Generations, SupervisorAssumption
    <2>2. proc[k] \in Processes /\ proc' = [proc EXCEPT ![k] = p]
      BY <2>1 DEF StopProcess, SupervisorInv, Shapes
    <2>3. p \in Processes /\ p.os = proc[k].os /\ p.dying /\ ~p.ready
      BY <2>2 DEF Processes
    <2> HIDE DEF p
    <2>4. proc' \in [Generations -> Processes] /\ proc'[k] = p
          /\ \A h \in Generations \ {k} : proc'[h] = proc[h]
      BY <2>1, <2>2, <2>3 DEF SupervisorInv, Shapes
    <2>5. \A h \in Generations : Ended(h) => Ended(h)'
      BY <2>3, <2>4 DEF Ended
    <2>6. ExitsReal' /\ ForcedEnds' /\ force'.gen \in 0 .. MaxGen /\ Busy'
      BY <1>1, <2>5, SameQueue, EndedStays, ForcedStays DEF Busy
    <2>7. lock' \in Seq([op : Calls \cup {"exit", "auto"}, gen : 0 .. MaxGen])
      BY <1>1 DEF SupervisorInv, Shapes
    <2> QED BY <1>1, <2>1, <2>2, <2>3, <2>6, <2>7, ProcessKeeps
  <1> QED BY <1>2, <1>3

\* A process that ends or is being killed, its exit reported or not: the shape of
\* ProcessExit, Killed, a protocol violation and the end of a forced quit.
LEMMA EndedKeeps ==
  ASSUME SupervisorInv, NEW k \in Generations, NEW p \in Processes,
         proc' = [proc EXCEPT ![k] = p], p.os = "none" <=> proc[k].os = "none",
         p.os = "live" => p.dying, p.ready => proc[k].ready,
         slot' \in Slots, slot'.gen = slot.gen,
         slot'.proc = slot.proc \/ (slot'.proc = 0 /\ slot.proc = k),
         UNCHANGED at, UNCHANGED lock \/ (Tell(k) /\ p.os # "none"),
         UNCHANGED force \/ force' = [at |-> "idle", gen |-> 0]
  PROVE  SupervisorInv'
  <1>1. proc' \in [Generations -> Processes] /\ proc'[k] = p
        /\ \A h \in Generations \ {k} : proc'[h] = proc[h]
    BY DEF SupervisorInv, Shapes
  <1>2. p.os = "none" \/ p.os = "gone" \/ (p.os = "live" /\ p.dying)
    BY DEF Processes
  <1>3. \A h \in Generations : Ended(h) => Ended(h)'
    BY <1>1, <1>2 DEF Ended
  <1>4. /\ lock' \in Seq([op : Calls \cup {"exit", "auto"}, gen : 0 .. MaxGen])
        /\ ExitsReal' /\ (lock # <<>> => lock' # <<>>)
    <2>1. CASE UNCHANGED lock
      BY <1>3, <2>1, SameQueue, EndedStays DEF SupervisorInv, Shapes
    <2>2. CASE Tell(k) /\ p.os # "none"
      <3>1. Ended(k)'
        BY <1>1, <1>2, <2>2 DEF Ended
      <3> QED BY <1>3, <2>2, <3>1, TellKeeps
    <2> QED BY <2>1, <2>2
  <1>5. ForcedEnds' /\ force'.gen \in 0 .. MaxGen
    <2>1. CASE UNCHANGED force
      BY <1>3, <2>1, ForcedStays
    <2>2. CASE force' = [at |-> "idle", gen |-> 0]
      BY <2>2, SupervisorAssumption DEF ForcedEnds, SupervisorAssumption
    <2> QED BY <2>1, <2>2
  <1>6. at' \in Ats /\ at'.pc = at.pc /\ at'.gen = at.gen /\ Busy'
    BY <1>4, AtTyped DEF SupervisorInv, Busy
  <1>7. ~(p.os = "live" /\ ~p.dying) /\ (Ended(k) => p.os = "gone" \/ p.dying)
    BY <1>2 DEF Ended
  <1> QED BY <1>4, <1>5, <1>6, <1>7, ProcessKeeps

LEMMA ProcessExitKeeps ==
  ASSUME SupervisorInv, NEW g \in Generations, ProcessExit(g) PROVE SupervisorInv'
  <1> DEFINE told == proc[g].told \/ ~proc[g].stopping
             p == [proc[g] EXCEPT !.os = "gone", !.ready = FALSE, !.told = told]
  <1>1. /\ proc[g] \in Processes /\ proc[g].os = "live"
        /\ UNCHANGED lock \/ Tell(g)
        /\ UNCHANGED <<slot, at, force>> /\ slot \in Slots
    BY SlotTyped DEF ProcessExit, SupervisorInv, Shapes
  <1>2. told \in BOOLEAN
    BY <1>1 DEF Processes
  <1>3. proc' = [proc EXCEPT ![g] = p]
    BY DEF ProcessExit
  <1> HIDE DEF told
  <1>4. p \in Processes /\ p.os = "gone" /\ ~p.ready
    BY <1>1, <1>2 DEF Processes
  <1> HIDE DEF p
  <1> QED BY <1>1, <1>3, <1>4, EndedKeeps

LEMMA KilledKeeps ==
  ASSUME SupervisorInv, NEW g \in Generations, Killed(g) PROVE SupervisorInv'
  <1> DEFINE p == [proc[g] EXCEPT !.owned = FALSE, !.ready = FALSE, !.stopping = FALSE]
  <1>1. /\ proc[g] \in Processes /\ proc[g].dying /\ proc' = [proc EXCEPT ![g] = p]
        /\ UNCHANGED <<lock, slot, at, force>> /\ slot \in Slots
    BY SlotTyped DEF Killed, SupervisorInv, Shapes
  <1>2. p \in Processes /\ p.os = proc[g].os /\ p.dying = proc[g].dying /\ ~p.ready
    BY <1>1 DEF Processes
  <1> HIDE DEF p
  <1> QED BY <1>1, <1>2, EndedKeeps

LEMMA ViolationKeeps ==
  ASSUME SupervisorInv, NEW g \in Generations, proc[g].os = "live", Violation(g),
         UNCHANGED <<slot, at, force>>
  PROVE  SupervisorInv'
  <1> DEFINE p == [proc[g] EXCEPT !.told = TRUE, !.stopping = proc[g].owned, !.dying = TRUE]
  <1>1. /\ proc[g] \in Processes /\ proc' = [proc EXCEPT ![g] = p] /\ Tell(g)
        /\ slot \in Slots
    BY SlotTyped DEF Violation, SupervisorInv, Shapes
  <1>2. p \in Processes /\ p.os = "live" /\ p.dying /\ p.ready = proc[g].ready
    BY <1>1 DEF Processes
  <1> HIDE DEF p
  <1> QED BY <1>1, <1>2, EndedKeeps

LEMMA BadFrameKeeps ==
  ASSUME SupervisorInv, NEW g \in Generations, BadFrame(g) PROVE SupervisorInv'
  BY ViolationKeeps DEF BadFrame

\* The end of forceTerminateAll: the process it killed leaves the slot.
LEMMA ForceDoneKeeps ==
  ASSUME SupervisorInv, ForceDone PROVE SupervisorInv'
  <1> DEFINE g == force.gen
             p == [proc[g] EXCEPT !.owned = FALSE, !.ready = FALSE, !.stopping = FALSE]
             x == IF slot.proc = g THEN 0 ELSE slot.proc
  <1>1. g \in Generations /\ Ended(g)
    BY SupervisorAssumption
    DEF ForceDone, SupervisorInv, Shapes, ForcedEnds, Generations, SupervisorAssumption
  <1>2. /\ proc[g] \in Processes /\ proc' = [proc EXCEPT ![g] = p]
        /\ slot' = [slot EXCEPT !.proc = x, !.state = "stopped"]
        /\ UNCHANGED <<lock, at>> /\ force' = [at |-> "idle", gen |-> 0]
    BY <1>1 DEF ForceDone, SupervisorInv, Shapes
  <1>3. /\ p \in Processes /\ p.os = proc[g].os /\ p.dying = proc[g].dying /\ ~p.ready
    BY <1>2 DEF Processes
  <1>4. x \in 0 .. MaxGen /\ (x = slot.proc \/ (x = 0 /\ slot.proc = g))
    BY SlotTyped, SupervisorAssumption DEF Slots, SupervisorAssumption
  <1> HIDE DEF x, p
  <1>5. slot' \in Slots /\ slot'.proc = x /\ slot'.gen = slot.gen
    BY <1>2, <1>4, SlotTyped DEF Slots, States
  <1>6. p.os = "live" => p.dying
    BY <1>1, <1>3 DEF Ended
  <1> HIDE DEF g
  <1> QED BY <1>1, <1>2, <1>3, <1>4, <1>5, <1>6, EndedKeeps

\* The deadline of a quit: the process of the slot is sent its signal.
LEMMA QuitDeadlineKeeps ==
  ASSUME SupervisorInv, QuitDeadline PROVE SupervisorInv'
  <1>1. /\ slot' \in Slots /\ slot'.proc = slot.proc /\ slot'.gen = slot.gen
        /\ UNCHANGED <<lock, at>>
    BY Unwanted DEF QuitDeadline
  <1>2. CASE slot.proc = 0
    BY <1>1, <1>2, AsideKeeps DEF QuitDeadline
  <1>3. CASE slot.proc # 0
    <2> DEFINE k == slot.proc
               stopping == proc[k].stopping \/ proc[k].owned
               dying == proc[k].dying \/ proc[k].owned
               p == [proc[k] EXCEPT !.stopping = stopping, !.dying = dying]
    <2>1. k \in Generations
      BY <1>3, SlotTyped, SupervisorAssumption DEF Slots, Generations, SupervisorAssumption
    <2>2. /\ proc[k] \in Processes /\ proc' = [proc EXCEPT ![k] = p]
          /\ force' = [at |-> "killing", gen |-> k]
      <3>1. proc[k] \in Processes
        BY <2>1 DEF SupervisorInv, Shapes
      <3>2. force' = [at |-> "killing", gen |-> k]
        BY <1>3 DEF QuitDeadline
      <3>3. proc' = [proc EXCEPT ![k] = p]
        BY <1>3 DEF QuitDeadline
      <3> QED BY <3>1, <3>2, <3>3
    <2>3. stopping \in BOOLEAN /\ dying \in BOOLEAN
      BY <2>2 DEF Processes
    <2>4. /\ proc[k].os \in {"live", "gone"}
          /\ proc[k].os = "live" => dying
          /\ proc[k].dying => dying
      BY <1>3, <2>1, <2>2 DEF SupervisorInv, SlotSpawned, HeldWhileLive, Processes
    <2> HIDE DEF stopping, dying
    <2>5. /\ p \in Processes /\ p.os = proc[k].os /\ p.dying = dying
          /\ p.ready = proc[k].ready
      BY <2>2, <2>3 DEF Processes
    <2> HIDE DEF p
    <2>6. proc'[k] = p /\ \A h \in Generations \ {k} : proc'[h] = proc[h]
      BY <2>1, <2>2 DEF SupervisorInv, Shapes
    <2>7. \A h \in Generations : Ended(h) => Ended(h)'
      BY <2>4, <2>5, <2>6 DEF Ended
    <2>8. lock' \in Seq([op : Calls \cup {"exit", "auto"}, gen : 0 .. MaxGen]) /\ ExitsReal'
      BY <1>1, <2>7, SameQueue, EndedStays DEF SupervisorInv, Shapes
    <2>9. ForcedEnds' /\ force'.gen \in 0 .. MaxGen
      <3>1. force'.gen = k /\ k # 0 /\ k \in 0 .. MaxGen
        BY <1>3, <2>1, <2>2, SupervisorAssumption DEF Generations, SupervisorAssumption
      <3>2. \E h \in Generations : h = k /\ Ended(h)'
        BY <2>1, <2>4, <2>5, <2>6 DEF Ended
      <3>3. (force.gen # 0 /\ Ended(force.gen))'
        <4>1. PICK h \in Generations : h = force'.gen /\ Ended(h)'
          BY <3>1, <3>2
        <4> QED BY <3>1, <4>1
      <3> QED BY <3>1, <3>3 DEF ForcedEnds
    <2>10. at' \in Ats /\ at'.pc = at.pc /\ at'.gen = at.gen /\ Busy'
      BY <1>1, AtTyped DEF SupervisorInv, Busy
    <2>11. /\ ~(p.os = "live" /\ ~p.dying) /\ (Ended(k) => p.os = "gone" \/ p.dying)
           /\ (p.os = "none" <=> proc[k].os = "none")
      BY <2>4, <2>5 DEF Ended
    <2> HIDE DEF k
    <2> QED
      BY <1>1, <2>1, <2>2, <2>5, <2>8, <2>9, <2>10, <2>11, ProcessKeeps
  <1> QED BY <1>2, <1>3
-----------------------------------------------------------------------------
(* A request that was sent is one to a process that was spawned *)

Addressed ==
  /\ req \in [Requests -> [at : {"free", "sent", "late", "done"}, gen : 0 .. MaxGen]]
  /\ \A r \in Requests : req[r].at \in {"sent", "late"} => req[r].gen # 0

LEMMA LateAnswerKeeps ==
  ASSUME SupervisorInv, Addressed, NEW r \in Requests, LateAnswer(r) PROVE SupervisorInv'
  <1>1. req[r].gen \in Generations
    BY SupervisorAssumption DEF Addressed, LateAnswer, Generations, SupervisorAssumption
  <1> QED BY <1>1, ViolationKeeps DEF LateAnswer

LEMMA AddressedKeeps ==
  ASSUME SupervisorInv, Addressed, [SupervisorNext]_vars PROVE Addressed'
  <1> DEFINE Q == [at : {"free", "sent", "late", "done"}, gen : 0 .. MaxGen]
  <1>1. CASE UNCHANGED req
    BY <1>1 DEF Addressed
  <1>2. ASSUME NEW g \in Generations, Reject(g) PROVE Addressed'
    BY <1>2 DEF Addressed, Reject
  <1>3. ASSUME NEW r \in Requests, Request(r) PROVE Addressed'
    <2>1. slot.proc \in 0 .. MaxGen /\ slot.proc # 0
      BY <1>3, SlotTyped DEF Request, IsReady, Slots
    <2> QED BY <1>3, <2>1 DEF Request, Addressed
  <1>4. ASSUME NEW r \in Requests, NEW x \in {"done", "late"},
               req' = [req EXCEPT ![r].at = x], req[r].at \in {"sent", "late"}
        PROVE  Addressed'
    BY <1>4 DEF Addressed
  <1>5. ASSUME NEW r \in Requests, Answer(r) \/ RequestTimeout(r) \/ LateAnswer(r)
        PROVE  Addressed'
    BY <1>4, <1>5 DEF Answer, RequestTimeout, LateAnswer
  <1>6. CASE Operation \/ Resolve(FALSE) \/ TimerFires \/ SetPolicy
             \/ (\E op \in Calls : Call(op)) \/ UNCHANGED vars
    BY <1>1, <1>6
    DEF Operation, Start, Resolve, Started, StartFails, Unwind, StopProcess, Stop, Restart,
        Refresh, Stopped, HealthBegin, HealthEnd, Exited, AutoStart, TimerFires, SetPolicy,
        Call, vars
  <1>7. CASE Quit \/ QuitStopped \/ QuitDeadline \/ ForceDone
    BY <1>1, <1>7 DEF Quit, QuitStopped, QuitDeadline, ForceDone
  <1>8. ASSUME NEW g \in Generations,
               ProcessReady(g) \/ ProcessExit(g) \/ Killed(g) \/ BadFrame(g)
        PROVE  Addressed'
    BY <1>1, <1>2, <1>8 DEF ProcessReady, ProcessExit, Killed, BadFrame
  <1> QED BY <1>3, <1>5, <1>6, <1>7, <1>8 DEF SupervisorNext
-----------------------------------------------------------------------------
(* The theorem *)

LEMMA SupervisorInvStep ==
  ASSUME SupervisorInv, Addressed, [SupervisorNext]_vars PROVE SupervisorInv'
  <1>1. CASE Operation
    <2>1. CASE Start \/ AutoStart \/ Started \/ StartFails \/ Unwind
      BY <2>1, StartKeeps, AutoStartKeeps, StartedKeeps, StartFailsKeeps, UnwindKeeps
    <2>2. CASE Resolve(TRUE)
      BY <2>2, ResolveKeeps
    <2>3. CASE StopProcess \/ Stop \/ Restart \/ Refresh \/ Stopped \/ Exited
      BY <2>3, StopProcessKeeps, StopKeeps, RestartKeeps, RefreshKeeps, StoppedKeeps,
         ExitedKeeps
    <2>4. CASE HealthBegin \/ HealthEnd(TRUE) \/ HealthEnd(FALSE)
      BY <2>4, HealthKeeps
    <2> QED BY <1>1, <2>1, <2>2, <2>3, <2>4 DEF Operation
  <1>2. CASE SetPolicy \/ (\E op \in Calls : Call(op)) \/ Resolve(FALSE) \/ TimerFires
    <2>1. CASE \E op \in Calls : Call(op)
      BY <2>1, CallKeeps
    <2>2. CASE SetPolicy \/ TimerFires
      BY <2>2, SetPolicyKeeps, TimerFiresKeeps
    <2>3. CASE Resolve(FALSE)
      BY <2>3, ResolveFailsKeeps
    <2> QED BY <1>2, <2>1, <2>2, <2>3
  <1>3. ASSUME NEW g \in Generations,
               ProcessReady(g) \/ ProcessExit(g) \/ Killed(g) \/ BadFrame(g)
        PROVE  SupervisorInv'
    BY <1>3, ProcessReadyKeeps, ProcessExitKeeps, KilledKeeps, BadFrameKeeps
  <1>4. ASSUME NEW r \in Requests,
               Request(r) \/ Answer(r) \/ RequestTimeout(r) \/ LateAnswer(r)
        PROVE  SupervisorInv'
    BY <1>4, QuietStepsKeep, LateAnswerKeeps
  <1>5. CASE Quit \/ QuitStopped \/ QuitDeadline \/ ForceDone \/ UNCHANGED vars
    <2>1. CASE Quit \/ QuitDeadline \/ ForceDone
      BY <2>1, QuitKeeps, QuitDeadlineKeeps, ForceDoneKeeps
    <2>2. CASE QuitStopped \/ UNCHANGED vars
      BY <2>2, QuietStepsKeep
    <2> QED BY <1>5, <2>1, <2>2
  <1> QED BY <1>1, <1>2, <1>3, <1>4, <1>5 DEF SupervisorNext

\* No crash, superseded start, stop or quit leaves a process running that is not dying,
\* not being stopped and not the one of the slot: for every number of generations,
\* requests, calls and failures.
THEOREM SupervisorNoOrphan == SupervisorSpec => []NoOrphan
  <1>1. SupervisorInit => SupervisorInv /\ Addressed
    BY SupervisorInvInit, SupervisorAssumption
    DEF SupervisorInit, Addressed, SupervisorAssumption
  <1>2. SupervisorInv /\ Addressed /\ [SupervisorNext]_vars => (SupervisorInv /\ Addressed)'
    BY SupervisorInvStep, AddressedKeeps
  <1>3. SupervisorInv => NoOrphan
    BY DEF SupervisorInv
  <1> QED BY <1>1, <1>2, <1>3, PTL DEF SupervisorSpec
-----------------------------------------------------------------------------
(* The state that is shown, and the starts that are wanted                   *)
(*                                                                          *)
(* StateAgrees rests on what an exit leaves behind: one that was told stays   *)
(* in the queue of the lock until the process is out of the slot, and only an *)
(* operation under way may see a process of the slot that is neither ready    *)
(* nor told.  StartsAreWanted rests on two counts that move together: every   *)
(* automatic start answers a crash of its own, and a crash beyond the budget  *)
(* ends them.                                                                *)

BeforeQuit == quit \in {"no", "stopping"}
Exits == {g \in 0 .. MaxGen : ExitQueued(g)}
AutoQueued == \E i \in DOMAIN lock : lock[i].op = "auto"

\* The generation of the slot, and of a start under way, is the last one.
Current ==
  /\ slot.proc \in {0, slot.gen}
  /\ at.pc \in {"waiting", "registering", "unwinding"} => at.gen = slot.gen
  /\ autos \in Nat /\ left \in [calls : Nat, faults : Nat, slides : BOOLEAN]

\* An exit is never the operation under way: its observer has no await.
ExitsAtOnce == at.pc # "idle" => Head(lock).op # "exit"

\* The process of the slot: its exit is told and queued, or it runs and is ready,
\* or a start awaits it.
Awaited ==
  LET p == proc[slot.proc] IN
  slot.proc # 0 =>
    /\ p.told => slot.proc \in Exits
    /\ p.stopping \/ p.os # "live" => p.told
    /\ ~p.ready /\ ~p.told => at.pc = "waiting"

\* What each await of an operation leaves in the slot.
Shown ==
  /\ at.pc \in {"waiting", "registering"} => slot.state = "starting" /\ slot.proc # 0
  /\ at.pc = "probing" => slot.proc # 0
  /\ at.pc \in {"unwinding", "stopping", "stopped"}
       => slot.proc = 0 /\ slot.state \notin {"ready", "degraded"}
  /\ at.pc \in {"stopping", "stopped"} /\ at.rest # "crash" => ~slot.desired
  /\ slot.state \in {"ready", "degraded"} => slot.proc # 0
  /\ slot.state \in {"failed", "crash-loop", "stopped", "installed", "not-installed"}
       => slot.proc = 0 \/ slot.proc \in Exits

\* The kernel is up, starts, or its failed start is not recorded yet.
Up ==
  \/ slot.proc # 0
  \/ at.pc \in {"resolving", "waiting", "registering", "unwinding"}
  \/ at.pc \in {"stopping", "stopped"} /\ at.rest = "crash"

\* Within the budget every automatic start answers a crash of its own.
Budgeted ==
  /\ slot.timer \/ AutoQueued => MaxRestarts # 0
  /\ Up => autos <= slot.crashes /\ autos <= MaxRestarts /\ slot.state # "crash-loop"
  /\ ~Up /\ slot.desired /\ slot.state # "crash-loop"
       => autos < slot.crashes /\ (autos < MaxRestarts \/ MaxRestarts = 0)

ShownInv ==
  /\ Current /\ ExitsAtOnce
  /\ quit = "no" /\ at.pc = "resolving" => slot.desired
  /\ BeforeQuit => Awaited /\ Shown
  /\ BeforeQuit /\ ~left.slides => Budgeted

LEMMA ShownInvInit == SupervisorInit => ShownInv
  <1> SUFFICES ASSUME SupervisorInit PROVE ShownInv
    OBVIOUS
  <1>1. /\ slot.proc = 0 /\ slot.state = "stopped" /\ ~slot.desired /\ ~slot.timer
        /\ at.pc = "idle" /\ lock = <<>> /\ autos = 0 /\ left \in Bounds
    BY DEF SupervisorInit, Idle
  <1>2. ~AutoQueued
    BY <1>1 DEF AutoQueued
  <1>3. left \in [calls : Nat, faults : Nat, slides : BOOLEAN]
    BY <1>1, SupervisorAssumption DEF SupervisorAssumption
  <1> QED
    BY <1>1, <1>2, <1>3
    DEF ShownInv, Current, ExitsAtOnce, Awaited, Shown, Up, Budgeted

\* What an operation that is over (Finish) leaves in the queue.
LEMMA PopExits ==
  ASSUME SupervisorInv, lock # <<>>, Finish
  PROVE  /\ \A g \in Exits : g \in Exits' \/ (Head(lock).op = "exit" /\ Head(lock).gen = g)
         /\ AutoQueued' => AutoQueued
         /\ at'.pc = "idle" /\ at'.gen = 0 /\ at'.rest = "done"
  <1> DEFINE O == [op : Calls \cup {"exit", "auto"}, gen : 0 .. MaxGen]
  <1>1. lock \in Seq(O)
    BY DEF SupervisorInv, Shapes
  <1> HIDE DEF O
  <1>2. /\ lock' = Tail(lock) /\ Head(lock) = lock[1]
        /\ \A i \in DOMAIN lock' : i + 1 \in DOMAIN lock /\ lock'[i] = lock[i + 1]
        /\ \A i \in DOMAIN lock : i = 1 \/ (i - 1 \in DOMAIN lock' /\ lock'[i - 1] = lock[i])
    BY <1>1 DEF Finish
  <1>3. ASSUME NEW g \in Exits PROVE g \in Exits' \/ (Head(lock).op = "exit" /\ Head(lock).gen = g)
    <2>1. g \in 0 .. MaxGen /\ \E i \in DOMAIN lock : lock[i] = [op |-> "exit", gen |-> g]
      BY <1>3 DEF Exits, ExitQueued
    <2>2. PICK i \in DOMAIN lock : lock[i] = [op |-> "exit", gen |-> g]
      BY <2>1
    <2>3. CASE i = 1
      BY <1>2, <2>2, <2>3
    <2>4. CASE i # 1
      <3>1. i - 1 \in DOMAIN lock' /\ lock'[i - 1] = [op |-> "exit", gen |-> g]
        BY <1>2, <2>2, <2>4
      <3>2. g \in 0 .. MaxGen
        BY <2>1
      <3> QED BY <3>1, <3>2 DEF Exits, ExitQueued
    <2> QED BY <2>3, <2>4
  <1>4. AutoQueued' => AutoQueued
    BY <1>2 DEF AutoQueued
  <1>5. at'.pc = "idle" /\ at'.gen = 0 /\ at'.rest = "done"
    BY DEF Finish, Idle
  <1> QED BY <1>3, <1>4, <1>5

\* What an operation that joins the queue changes.
LEMMA PushExits ==
  ASSUME SupervisorInv, NEW o \in [op : Calls \cup {"exit", "auto"}, gen : 0 .. MaxGen],
         lock' = Append(lock, o)
  PROVE  /\ Exits \subseteq Exits'
         /\ o.op # "auto" => (AutoQueued' => AutoQueued)
         /\ o.op = "exit" => o.gen \in Exits'
         /\ lock # <<>> => Head(lock') = Head(lock)
  <1> DEFINE O == [op : Calls \cup {"exit", "auto"}, gen : 0 .. MaxGen]
  <1>1. lock \in Seq(O) /\ o \in O
    BY DEF SupervisorInv, Shapes
  <1> HIDE DEF O
  <1>2. /\ \A i \in DOMAIN lock : i \in DOMAIN lock' /\ lock'[i] = lock[i]
        /\ Len(lock) + 1 \in DOMAIN lock' /\ lock'[Len(lock) + 1] = o
        /\ \A i \in DOMAIN lock' : lock'[i] = o \/ (i \in DOMAIN lock /\ lock'[i] = lock[i])
        /\ lock # <<>> => Head(lock') = Head(lock)
    BY <1>1
  <1>3. Exits \subseteq Exits'
    BY <1>2 DEF Exits, ExitQueued
  <1>4. ASSUME o.op # "auto", AutoQueued' PROVE AutoQueued
    BY <1>2, <1>4 DEF AutoQueued
  <1>5. ASSUME o.op = "exit" PROVE o.gen \in Exits'
    <2>1. o = [op |-> "exit", gen |-> o.gen] /\ o.gen \in 0 .. MaxGen
      BY <1>1, <1>5 DEF O
    <2> QED BY <1>2, <2>1 DEF Exits, ExitQueued
  <1> QED BY <1>2, <1>3, <1>4, <1>5

LEMMA SameExits ==
  ASSUME UNCHANGED lock
  PROVE  Exits' = Exits /\ (AutoQueued' <=> AutoQueued) /\ Head(lock') = Head(lock)
  BY DEF Exits, ExitQueued, AutoQueued

\* What the registry writes when it clears the timer, renews the budget or
\* records a crash.
LEMMA WrittenFields ==
  ASSUME NEW s \in Slots, NEW n \in Nat
  PROVE  /\ NoTimer(s).state = s.state /\ NoTimer(s).desired = s.desired
         /\ NoTimer(s).crashes = s.crashes /\ ~NoTimer(s).timer
         /\ FreshBudget(s).desired = s.desired /\ FreshBudget(s).timer = s.timer
         /\ FreshBudget(s).crashes = 0
         /\ FreshBudget(s).state =
              (IF s.state \in {"crash-loop", "failed", "degraded"} THEN "stopped" ELSE s.state)
         /\ Crashed(s, n).crashes = n /\ Crashed(s, n).desired = s.desired
         /\ Crashed(s, n).state \in {"failed", "crash-loop"}
         /\ Crashed(s, n).state = "crash-loop" <=> s.desired /\ s.auto /\ n > MaxRestarts
         /\ Crashed(s, n).timer => s.timer \/ n <= MaxRestarts
  <1>1. /\ NoTimer(s).state = s.state /\ NoTimer(s).desired = s.desired
        /\ NoTimer(s).crashes = s.crashes /\ ~NoTimer(s).timer
    BY DEF NoTimer, Slots
  <1>2. /\ FreshBudget(s).desired = s.desired /\ FreshBudget(s).timer = s.timer
        /\ FreshBudget(s).crashes = 0
        /\ FreshBudget(s).state =
             (IF s.state \in {"crash-loop", "failed", "degraded"} THEN "stopped" ELSE s.state)
    <2> DEFINE x == IF s.state \in {"crash-loop", "failed", "degraded"} THEN "stopped"
                    ELSE s.state
    <2>1. FreshBudget(s) = [s EXCEPT !.crashes = 0, !.sick = 0, !.state = x]
      BY DEF FreshBudget
    <2> HIDE DEF x
    <2>2. /\ FreshBudget(s).desired = s.desired /\ FreshBudget(s).timer = s.timer
          /\ FreshBudget(s).crashes = 0 /\ FreshBudget(s).state = x
      BY <2>1 DEF Slots
    <2> QED BY <2>2 DEF x
  <1>3. /\ Crashed(s, n).crashes = n /\ Crashed(s, n).desired = s.desired
        /\ Crashed(s, n).state \in {"failed", "crash-loop"}
        /\ Crashed(s, n).state = "crash-loop" <=> s.desired /\ s.auto /\ n > MaxRestarts
        /\ Crashed(s, n).timer => s.timer \/ n <= MaxRestarts
    <2> DEFINE x == IF s.desired /\ s.auto /\ n > MaxRestarts THEN "crash-loop" ELSE "failed"
               t == s.timer \/ (s.desired /\ s.auto /\ ~(n > MaxRestarts))
    <2>1. t \in BOOLEAN
      BY DEF Slots
    <2>2. Crashed(s, n) = [s EXCEPT !.crashes = n, !.state = x, !.timer = t]
      <3>1. CASE ~s.desired \/ ~s.auto
        BY <3>1 DEF Crashed, Slots
      <3>2. CASE s.desired /\ s.auto /\ n > MaxRestarts
        BY <3>2 DEF Crashed, Slots
      <3>3. CASE s.desired /\ s.auto /\ ~(n > MaxRestarts)
        BY <3>3 DEF Crashed, Slots
      <3> QED BY <3>1, <3>2, <3>3
    <2>3. x \in {"failed", "crash-loop"} /\ (x = "crash-loop" <=> s.desired /\ s.auto /\ n > MaxRestarts)
      OBVIOUS
    <2>4. t => s.timer \/ n <= MaxRestarts
      BY SupervisorAssumption DEF SupervisorAssumption
    <2> HIDE DEF x, t
    <2>5. /\ Crashed(s, n).crashes = n /\ Crashed(s, n).desired = s.desired
          /\ Crashed(s, n).state = x /\ Crashed(s, n).timer = t
      BY <2>1, <2>2 DEF Slots
    <2> QED BY <2>3, <2>4, <2>5
  <1> QED BY <1>1, <1>2, <1>3

Lefts == [calls : Nat, faults : Nat, slides : BOOLEAN]

LEMMA FaultKeeps ==
  ASSUME ShownInv, Fault \/ UNCHANGED left
  PROVE  left' \in Lefts /\ left'.slides = left.slides
  BY DEF ShownInv, Current, Fault, Lefts

\* A step beside the operations: it may end the process of the slot, take back
\* the wish for it at a quit, and add to the queue.
LEMMA AsideShown ==
  ASSUME SupervisorInv, ShownInv, UNCHANGED <<at, autos>>,
         slot'.proc = slot.proc, slot'.gen = slot.gen, slot'.state = slot.state,
         slot'.crashes = slot.crashes, slot'.timer => slot.timer,
         (slot'.desired <=> slot.desired) \/ (~slot'.desired /\ quit' # "no"),
         left' \in Lefts, left'.slides = left.slides,
         BeforeQuit' => BeforeQuit, quit' = "no" => quit = "no",
         Exits \subseteq Exits', AutoQueued' => AutoQueued,
         Head(lock') = Head(lock) \/ at.pc = "idle",
         slot.proc # 0 =>
           /\ proc'[slot.proc].told => proc[slot.proc].told \/ slot.proc \in Exits'
           /\ proc[slot.proc].told => proc'[slot.proc].told
           /\ proc'[slot.proc].stopping \/ proc'[slot.proc].os # "live"
                => \/ proc'[slot.proc].told
                   \/ proc[slot.proc].stopping \/ proc[slot.proc].os # "live"
           /\ ~proc'[slot.proc].ready /\ ~proc'[slot.proc].told
                => ~proc[slot.proc].ready \/ proc[slot.proc].stopping
  PROVE  ShownInv'
  <1>1. Current'
    BY DEF ShownInv, Current, Lefts
  <1>2. ExitsAtOnce' /\ (quit' = "no" /\ at'.pc = "resolving" => slot'.desired)
    BY DEF ShownInv, ExitsAtOnce
  <1>3. ASSUME BeforeQuit' PROVE Awaited'
    BY <1>3 DEF ShownInv, Awaited
  <1>4. ASSUME BeforeQuit' PROVE Shown'
    BY <1>4 DEF ShownInv, Shown
  <1>5. ASSUME BeforeQuit', ~left'.slides PROVE Budgeted'
    BY <1>5 DEF ShownInv, Budgeted, Up
  <1> QED BY <1>1, <1>2, <1>3, <1>4, <1>5 DEF ShownInv

\* The processes keep what the slot shows of them.
LEMMA SameProcess ==
  ASSUME SupervisorInv, ShownInv, UNCHANGED <<at, autos, proc, quit>>,
         slot'.proc = slot.proc, slot'.gen = slot.gen, slot'.state = slot.state,
         slot'.crashes = slot.crashes, slot'.timer => slot.timer,
         slot'.desired <=> slot.desired,
         left' \in Lefts, left'.slides = left.slides,
         Exits \subseteq Exits', AutoQueued' => AutoQueued,
         Head(lock') = Head(lock) \/ at.pc = "idle"
  PROVE  ShownInv'
  BY AsideShown DEF BeforeQuit

LEMMA QuietStepsShow ==
  ASSUME SupervisorInv, ShownInv,
         \/ UNCHANGED vars \/ QuitStopped
         \/ \E r \in Requests : Request(r) \/ Answer(r) \/ RequestTimeout(r)
  PROVE  ShownInv'
  <1>1. UNCHANGED <<slot, proc, lock, at, autos>> /\ (Fault \/ UNCHANGED left)
        /\ (quit' = quit \/ quit' = "over")
    BY DEF vars, QuitStopped, Request, Answer, RequestTimeout
  <1>2. Exits' = Exits /\ (AutoQueued' <=> AutoQueued) /\ Head(lock') = Head(lock)
    BY <1>1, SameExits
  <1>3. left' \in Lefts /\ left'.slides = left.slides
    BY <1>1, FaultKeeps
  <1> QED BY <1>1, <1>2, <1>3, AsideShown DEF BeforeQuit

LEMMA CallShows ==
  ASSUME SupervisorInv, ShownInv, NEW op \in Calls, Call(op) PROVE ShownInv'
  <1> DEFINE o == [op |-> op, gen |-> 0]
  <1>1. /\ UNCHANGED <<slot, proc, at, quit, autos>> /\ lock' = Append(lock, o)
        /\ left' = [left EXCEPT !.calls = @ - 1] /\ left.calls > 0
    BY DEF Call
  <1>2. o \in [op : Calls \cup {"exit", "auto"}, gen : 0 .. MaxGen] /\ o.op # "auto"
    BY SupervisorAssumption DEF SupervisorAssumption, Calls
  <1> HIDE DEF o
  <1>3. Exits \subseteq Exits' /\ (AutoQueued' => AutoQueued)
        /\ (lock # <<>> => Head(lock') = Head(lock))
    BY <1>1, <1>2, PushExits
  <1>4. left' \in Lefts /\ left'.slides = left.slides
    BY <1>1 DEF ShownInv, Current, Lefts
  <1> QED BY <1>1, <1>3, <1>4, SameProcess DEF SupervisorInv, Busy

LEMMA PolicyShows ==
  ASSUME SupervisorInv, ShownInv, SetPolicy PROVE ShownInv'
  <1>1. /\ UNCHANGED <<proc, lock, at, quit, autos>>
        /\ left' = [left EXCEPT !.calls = @ - 1] /\ left.calls > 0
        /\ slot' = [slot EXCEPT !.auto = ~@, !.timer = @ /\ ~slot.auto]
    BY DEF SetPolicy
  <1>2. /\ slot'.proc = slot.proc /\ slot'.gen = slot.gen /\ slot'.state = slot.state
        /\ slot'.crashes = slot.crashes /\ slot'.desired = slot.desired
        /\ slot'.timer => slot.timer
    BY <1>1, SlotTyped DEF Slots
  <1>3. left' \in Lefts /\ left'.slides = left.slides
    BY <1>1 DEF ShownInv, Current, Lefts
  <1> QED BY <1>1, <1>2, <1>3, SameExits, SameProcess

LEMMA TimerShows ==
  ASSUME SupervisorInv, ShownInv, TimerFires PROVE ShownInv'
  <1> DEFINE o == [op |-> "auto", gen |-> 0]
  <1>1. /\ slot.timer /\ slot' = NoTimer(slot) /\ lock' = Append(lock, o)
        /\ UNCHANGED <<proc, at, quit, left, autos>>
    BY DEF TimerFires
  <1>2. o \in [op : Calls \cup {"exit", "auto"}, gen : 0 .. MaxGen] /\ o.op # "exit"
    BY SupervisorAssumption DEF SupervisorAssumption
  <1> HIDE DEF o
  <1>3. Exits \subseteq Exits' /\ (lock # <<>> => Head(lock') = Head(lock))
    BY <1>1, <1>2, PushExits
  <1>4. /\ slot'.proc = slot.proc /\ slot'.gen = slot.gen /\ slot'.state = slot.state
        /\ slot'.crashes = slot.crashes /\ slot'.desired = slot.desired
    BY <1>1, SlotTyped, SlotRewrites, WrittenFields
  <1>5. Current' /\ ExitsAtOnce' /\ (quit' = "no" /\ at'.pc = "resolving" => slot'.desired)
    BY <1>1, <1>3, <1>4 DEF ShownInv, Current, ExitsAtOnce, SupervisorInv, Busy
  <1>6. BeforeQuit' => Awaited' /\ Shown'
    BY <1>1, <1>3, <1>4 DEF ShownInv, Awaited, Shown, BeforeQuit
  <1>7. BeforeQuit' /\ ~left'.slides => Budgeted'
    BY <1>1, <1>4 DEF ShownInv, Budgeted, Up, BeforeQuit
  <1> QED BY <1>5, <1>6, <1>7 DEF ShownInv

LEMMA QuitShows ==
  ASSUME SupervisorInv, ShownInv, Quit \/ QuitDeadline \/ ForceDone PROVE ShownInv'
  <1>1. CASE Quit
    <2> DEFINE o == [op |-> "stop", gen |-> 0]
               d == [slot EXCEPT !.desired = FALSE]
    <2>1. /\ quit = "no" /\ quit' = "stopping" /\ slot' = NoTimer(d)
          /\ lock' = Append(lock, o) /\ UNCHANGED <<proc, at, left, autos>>
      BY <1>1 DEF Quit
    <2>2. /\ d \in Slots /\ d.proc = slot.proc /\ d.gen = slot.gen /\ d.state = slot.state
          /\ d.crashes = slot.crashes /\ ~d.desired
      BY SlotTyped DEF Slots
    <2>3. o \in [op : Calls \cup {"exit", "auto"}, gen : 0 .. MaxGen] /\ o.op = "stop"
      BY SupervisorAssumption DEF SupervisorAssumption, Calls
    <2> HIDE DEF o, d
    <2>4. Exits \subseteq Exits' /\ (AutoQueued' => AutoQueued)
          /\ (lock # <<>> => Head(lock') = Head(lock))
      BY <2>1, <2>3, PushExits
    <2>5. /\ slot'.proc = slot.proc /\ slot'.gen = slot.gen /\ slot'.state = slot.state
          /\ slot'.crashes = slot.crashes /\ ~slot'.desired /\ ~slot'.timer
      BY <2>1, <2>2, SlotTyped, SlotRewrites, WrittenFields
    <2>6. left' \in Lefts
      BY <2>1 DEF ShownInv, Current, Lefts
    <2>7. Head(lock') = Head(lock) \/ at.pc = "idle"
      BY <2>4 DEF SupervisorInv, Busy
    <2> QED BY <2>1, <2>4, <2>5, <2>6, <2>7, AsideShown DEF BeforeQuit
  <1>2. CASE QuitDeadline \/ ForceDone
    <2>1. quit' \in {"over", "forcing"} /\ UNCHANGED <<lock, at, left, autos>>
      BY <1>2 DEF QuitDeadline, ForceDone
    <2>2. slot'.gen = slot.gen /\ slot'.proc \in {0, slot.proc}
      <3>1. CASE QuitDeadline
        <4> DEFINE d == [slot EXCEPT !.desired = FALSE]
        <4>1. slot' = NoTimer(d) /\ d \in Slots /\ d.proc = slot.proc /\ d.gen = slot.gen
          BY <3>1, SlotTyped DEF QuitDeadline, Slots
        <4> HIDE DEF d
        <4> QED BY <4>1, SlotTyped, SlotRewrites
      <3>2. CASE ForceDone
        BY <3>2, SlotTyped DEF ForceDone, Slots
      <3> QED BY <1>2, <3>1, <3>2
    <2>3. Current' /\ ExitsAtOnce'
      BY <2>1, <2>2 DEF ShownInv, Current, ExitsAtOnce
    <2> QED BY <2>1, <2>3 DEF ShownInv, BeforeQuit
  <1> QED BY <1>1, <1>2

\* One process ends, is killed, or breaks the protocol: its exit is queued when
\* it is told.
LEMMA EndShows ==
  ASSUME SupervisorInv, ShownInv, NEW g \in Generations, NEW p \in Processes,
         proc' = [proc EXCEPT ![g] = p], UNCHANGED <<slot, at, autos, quit>>,
         Fault \/ UNCHANGED left,
         UNCHANGED lock \/ lock' = Append(lock, [op |-> "exit", gen |-> g]),
         p.told => proc[g].told \/ lock' = Append(lock, [op |-> "exit", gen |-> g]),
         proc[g].told => p.told,
         p.stopping \/ p.os # "live" => p.told \/ proc[g].stopping \/ proc[g].os # "live",
         ~p.ready /\ ~p.told => ~proc[g].ready \/ proc[g].stopping
  PROVE  ShownInv'
  <1> DEFINE o == [op |-> "exit", gen |-> g]
  <1>1. o \in [op : Calls \cup {"exit", "auto"}, gen : 0 .. MaxGen]
        /\ o.op = "exit" /\ o.gen = g
    BY SupervisorAssumption DEF Generations, SupervisorAssumption
  <1>2. UNCHANGED lock \/ lock' = Append(lock, o)
    OBVIOUS
  <1>3. p.told => proc[g].told \/ lock' = Append(lock, o)
    OBVIOUS
  <1> HIDE DEF o
  <1>4. /\ Exits \subseteq Exits' /\ (AutoQueued' => AutoQueued)
        /\ Head(lock') = Head(lock) \/ at.pc = "idle"
        /\ lock' = Append(lock, o) => g \in Exits'
    <2>1. CASE UNCHANGED lock
      <3>1. lock' = Append(lock, o) => g \in Exits'
        BY <1>1, PushExits
      <3> QED BY <2>1, <3>1, SameExits
    <2>2. CASE lock' = Append(lock, o)
      BY <1>1, <2>2, PushExits DEF SupervisorInv, Busy
    <2> QED BY <1>2, <2>1, <2>2
  <1>5. left' \in Lefts /\ left'.slides = left.slides
    BY FaultKeeps
  <1>6. /\ proc'[g] = p /\ \A h \in Generations \ {g} : proc'[h] = proc[h]
        /\ slot.proc = 0 \/ slot.proc \in Generations
    BY SlotTyped, SupervisorAssumption
    DEF SupervisorInv, Shapes, Slots, Generations, SupervisorAssumption
  <1>7. slot.proc # 0 =>
          /\ proc'[slot.proc].told => proc[slot.proc].told \/ slot.proc \in Exits'
          /\ proc[slot.proc].told => proc'[slot.proc].told
          /\ proc'[slot.proc].stopping \/ proc'[slot.proc].os # "live"
               => \/ proc'[slot.proc].told
                  \/ proc[slot.proc].stopping \/ proc[slot.proc].os # "live"
          /\ ~proc'[slot.proc].ready /\ ~proc'[slot.proc].told
               => ~proc[slot.proc].ready \/ proc[slot.proc].stopping
    <2>1. CASE slot.proc = g
      BY <1>3, <1>4, <1>6, <2>1
    <2>2. CASE slot.proc # g
      BY <1>6, <2>2
    <2> QED BY <2>1, <2>2
  <1> QED BY <1>4, <1>5, <1>7, AsideShown DEF BeforeQuit

LEMMA ProcessExitShows ==
  ASSUME SupervisorInv, ShownInv, NEW g \in Generations, ProcessExit(g) PROVE ShownInv'
  <1> DEFINE told == proc[g].told \/ ~proc[g].stopping
             p == [proc[g] EXCEPT !.os = "gone", !.ready = FALSE, !.told = told]
             o == [op |-> "exit", gen |-> g]
  <1>1. /\ proc[g] \in Processes /\ proc[g].os = "live" /\ proc' = [proc EXCEPT ![g] = p]
        /\ UNCHANGED <<slot, at, autos, quit>> /\ (Fault \/ UNCHANGED left)
        /\ IF proc[g].stopping \/ proc[g].told THEN UNCHANGED lock ELSE lock' = Append(lock, o)
    BY DEF ProcessExit, Tell, SupervisorInv, Shapes
  <1>2. told \in BOOLEAN
    BY <1>1 DEF Processes
  <1>3. /\ told => proc[g].told \/ lock' = Append(lock, o)
        /\ proc[g].told => told
        /\ told \/ proc[g].stopping
    BY <1>1
  <1> HIDE DEF told
  <1>4. /\ p \in Processes /\ p.os = "gone" /\ ~p.ready /\ p.told = told
        /\ p.stopping = proc[g].stopping
    BY <1>1, <1>2 DEF Processes
  <1> HIDE DEF p
  <1> QED BY <1>1, <1>3, <1>4, EndShows

LEMMA KilledShows ==
  ASSUME SupervisorInv, ShownInv, NEW g \in Generations, Killed(g) PROVE ShownInv'
  <1> DEFINE p == [proc[g] EXCEPT !.owned = FALSE, !.ready = FALSE, !.stopping = FALSE]
  <1>1. /\ proc[g] \in Processes /\ proc' = [proc EXCEPT ![g] = p] /\ proc[g].told
        /\ UNCHANGED <<slot, at, autos, quit, left, lock>>
    BY DEF Killed, SupervisorInv, Shapes
  <1>2. p \in Processes /\ p.os = proc[g].os /\ p.told /\ ~p.stopping
    BY <1>1 DEF Processes
  <1> HIDE DEF p
  <1> QED BY <1>1, <1>2, EndShows

LEMMA ViolationShows ==
  ASSUME SupervisorInv, ShownInv, NEW g \in Generations, Violation(g),
         UNCHANGED <<slot, at, autos, quit>>, Fault \/ UNCHANGED left
  PROVE  ShownInv'
  <1> DEFINE p == [proc[g] EXCEPT !.told = TRUE, !.stopping = proc[g].owned, !.dying = TRUE]
             o == [op |-> "exit", gen |-> g]
  <1>1. /\ proc[g] \in Processes /\ proc' = [proc EXCEPT ![g] = p]
        /\ IF proc[g].told THEN UNCHANGED lock ELSE lock' = Append(lock, o)
    BY DEF Violation, Tell, SupervisorInv, Shapes
  <1>2. p \in Processes /\ p.told
    BY <1>1 DEF Processes
  <1> HIDE DEF p
  <1> QED BY <1>1, <1>2, EndShows

\* The process a start awaits reports ready.
LEMMA ProcessReadyShows ==
  ASSUME SupervisorInv, ShownInv, NEW g \in Generations, ProcessReady(g) PROVE ShownInv'
  <1>1. /\ at.pc = "waiting" /\ at.gen = g /\ UNCHANGED <<slot, lock, quit, left, autos>>
        /\ proc' = [proc EXCEPT ![g].ready = TRUE]
        /\ at'.pc = "registering" /\ at'.gen = g /\ at'.rest = at.rest
    BY AtTyped DEF ProcessReady, Goto, Ats
  <1>2. Exits' = Exits /\ (AutoQueued' <=> AutoQueued) /\ Head(lock') = Head(lock)
    BY <1>1, SameExits
  <1>3. /\ proc'[g].ready /\ proc'[g].told = proc[g].told /\ proc'[g].os = proc[g].os
        /\ proc'[g].stopping = proc[g].stopping
    BY DEF ProcessReady, SupervisorInv, Shapes, Processes
  <1>4. Current' /\ ExitsAtOnce' /\ (quit' = "no" /\ at'.pc = "resolving" => slot'.desired)
    BY <1>1, <1>2 DEF ShownInv, Current, ExitsAtOnce
  <1>5. ASSUME BeforeQuit' PROVE Awaited' /\ Shown'
    <2>1. BeforeQuit /\ Awaited /\ Shown /\ slot.proc = g
      BY <1>1, <1>5 DEF ShownInv, BeforeQuit, Shown, Current
    <2>2. Awaited'
      BY <1>1, <1>2, <1>3, <2>1 DEF Awaited
    <2>3. Shown'
      BY <1>1, <1>2, <2>1 DEF Shown
    <2> QED BY <2>2, <2>3
  <1>6. BeforeQuit' /\ ~left'.slides => Budgeted'
    BY <1>1, <1>2 DEF ShownInv, Budgeted, Up, BeforeQuit
  <1> QED BY <1>4, <1>5, <1>6 DEF ShownInv
-----------------------------------------------------------------------------
(* The operations *)

\* An operation that is over keeps the exits in the queue: it is not one of them.
LEMMA FinishedExits ==
  ASSUME SupervisorInv, ShownInv, lock # <<>>, Finish,
         at.pc # "idle" \/ Head(lock).op # "exit"
  PROVE  /\ Exits \subseteq Exits' /\ (AutoQueued' => AutoQueued)
         /\ at'.pc = "idle" /\ at'.gen = 0 /\ at'.rest = "done"
  BY PopExits DEF ShownInv, ExitsAtOnce

\* Where an operation is over the obligations of an await are gone.
LEMMA FinishedShows ==
  ASSUME SupervisorInv, ShownInv, lock # <<>>, Finish,
         at.pc # "idle" \/ Head(lock).op # "exit",
         UNCHANGED <<proc, quit>>, left' \in Lefts, left'.slides = left.slides,
         autos' \in Nat, slot'.proc = slot.proc, slot'.gen = slot.gen,
         BeforeQuit /\ at.pc = "waiting" => slot.proc = 0,
         BeforeQuit => 
           /\ slot'.state \in {"ready", "degraded"} => slot.proc # 0
           /\ slot'.state \in {"failed", "crash-loop", "stopped", "installed", "not-installed"}
                => slot.proc = 0 \/ slot.proc \in Exits,
         BeforeQuit /\ ~left.slides =>
           /\ slot'.timer => MaxRestarts # 0
           /\ slot.proc # 0 => autos' <= slot'.crashes /\ autos' <= MaxRestarts
                               /\ slot'.state # "crash-loop"
           /\ slot.proc = 0 /\ slot'.desired /\ slot'.state # "crash-loop"
                => autos' < slot'.crashes /\ (autos' < MaxRestarts \/ MaxRestarts = 0)
  PROVE  ShownInv'
  <1>1. /\ Exits \subseteq Exits' /\ (AutoQueued' => AutoQueued)
        /\ at'.pc = "idle" /\ at'.gen = 0 /\ at'.rest = "done"
    BY FinishedExits
  <1>2. Current' /\ ExitsAtOnce' /\ (quit' = "no" /\ at'.pc = "resolving" => slot'.desired)
    BY <1>1 DEF ShownInv, Current, ExitsAtOnce, Lefts
  <1>3. ASSUME BeforeQuit' PROVE Awaited' /\ Shown'
    <2>1. BeforeQuit /\ Awaited /\ Shown
      BY <1>3 DEF ShownInv, BeforeQuit
    <2>2. Awaited'
      BY <1>1, <2>1 DEF Awaited
    <2>3. Shown'
      BY <1>1, <2>1 DEF Shown
    <2> QED BY <2>2, <2>3
  <1>4. ASSUME BeforeQuit', ~left'.slides PROVE Budgeted'
    <2>1. BeforeQuit /\ ~left.slides /\ Budgeted
      BY <1>4 DEF ShownInv, BeforeQuit
    <2>2. Up' <=> slot.proc # 0
      BY <1>1 DEF Up
    <2> QED BY <1>1, <2>1, <2>2 DEF Budgeted
  <1> QED BY <1>2, <1>3, <1>4 DEF ShownInv

\* An operation that goes on: the queue stays, the slot keeps its process.
LEMMA WaitsShows ==
  ASSUME SupervisorInv, ShownInv, lock # <<>>, Head(lock).op # "exit", UNCHANGED lock,
         at'.pc \in {"resolving", "probing"}, at.pc \notin {"waiting"},
         UNCHANGED <<proc, quit>>, left' = left,
         autos' \in Nat, slot'.proc = slot.proc, slot'.gen = slot.gen,
         at'.pc = "resolving" => slot'.desired,
         BeforeQuit => 
           /\ at'.pc = "probing" => slot.proc # 0
           /\ slot'.state \in {"ready", "degraded"} => slot.proc # 0
           /\ slot'.state \in {"failed", "crash-loop", "stopped", "installed", "not-installed"}
                => slot.proc = 0 \/ slot.proc \in Exits,
         BeforeQuit /\ ~left.slides =>
           /\ slot'.timer => MaxRestarts # 0
           /\ autos' <= slot'.crashes /\ autos' <= MaxRestarts /\ slot'.state # "crash-loop"
  PROVE  ShownInv'
  <1>1. Exits' = Exits /\ (AutoQueued' <=> AutoQueued) /\ Head(lock') = Head(lock)
    BY SameExits
  <1>2. Current' /\ ExitsAtOnce' /\ (quit' = "no" /\ at'.pc = "resolving" => slot'.desired)
    BY <1>1 DEF ShownInv, Current, ExitsAtOnce
  <1>3. ASSUME BeforeQuit' PROVE Awaited' /\ Shown'
    <2>1. BeforeQuit /\ Awaited /\ Shown
      BY <1>3 DEF ShownInv, BeforeQuit
    <2>2. Awaited'
      BY <1>1, <2>1 DEF Awaited
    <2>3. Shown'
      BY <1>1, <2>1 DEF Shown
    <2> QED BY <2>2, <2>3
  <1>4. ASSUME BeforeQuit', ~left'.slides PROVE Budgeted'
    <2>1. BeforeQuit /\ ~left.slides /\ Budgeted
      BY <1>4 DEF ShownInv, BeforeQuit
    <2>2. Up'
      <3>1. BeforeQuit
        BY <2>1
      <3> QED BY <3>1 DEF Up
    <2> QED BY <1>1, <2>1, <2>2 DEF Budgeted
  <1> QED BY <1>2, <1>3, <1>4 DEF ShownInv

\* startUnlocked, for a slot as its caller left it.
LEMMA StartUnlockedShows ==
  ASSUME SupervisorInv, ShownInv, NEW s \in Slots, NEW auto \in BOOLEAN,
         s.proc = slot.proc, s.gen = slot.gen, s.desired, StartUnlocked(s, auto),
         lock # <<>>, Head(lock).op # "exit", at.pc \in {"idle", "stopped"},
         UNCHANGED <<proc, quit, left>>,
         BeforeQuit =>
           /\ s.state \in {"ready", "degraded"} => slot.proc # 0
           /\ s.state \in {"failed", "crash-loop", "stopped", "installed", "not-installed"}
                => slot.proc = 0 \/ slot.proc \in Exits,
         BeforeQuit /\ ~left.slides =>
           /\ s.timer => MaxRestarts # 0
           /\ s.state # "crash-loop" /\ (slot.proc # 0 => s.crashes = slot.crashes)
           /\ auto => slot.proc = 0 /\ autos < s.crashes /\ autos < MaxRestarts
  PROVE  ShownInv'
  <1>1. autos \in Nat /\ left' \in Lefts /\ s.crashes \in Nat
    BY DEF ShownInv, Current, Lefts, Slots
  <1>2. CASE IsReady \/ s.pinned
    <2>1. /\ slot' = IF IsReady THEN s ELSE [s EXCEPT !.desired = FALSE]
          /\ Finish /\ UNCHANGED autos
      BY <1>2 DEF StartUnlocked
    <2>2. /\ slot'.proc = slot.proc /\ slot'.gen = slot.gen /\ slot'.state = s.state
          /\ slot'.crashes = s.crashes /\ slot'.timer = s.timer
          /\ slot.proc = 0 => ~slot'.desired
      <3>1. slot.proc = 0 => ~IsReady
        BY DEF IsReady
      <3>2. CASE IsReady
        BY <2>1, <3>1, <3>2
      <3>3. CASE ~IsReady
        BY <2>1, <3>3 DEF Slots
      <3> QED BY <3>2, <3>3
    <2>3. BeforeQuit /\ ~left.slides /\ slot.proc # 0
            => autos' <= slot'.crashes /\ autos' <= MaxRestarts
      BY <2>1, <2>2 DEF ShownInv, Budgeted, Up
    <2> QED BY <1>1, <2>1, <2>2, <2>3, FinishedShows
  <1>3. CASE ~IsReady /\ ~s.pinned
    <2>1. /\ slot' = s /\ at' = [Idle EXCEPT !.pc = "resolving"] /\ UNCHANGED lock
          /\ autos' = IF auto THEN autos + 1 ELSE 0
      BY <1>3 DEF StartUnlocked
    <2>2. at'.pc = "resolving" /\ autos' \in Nat
      BY <1>1, <2>1 DEF Idle
    <2>3. BeforeQuit /\ ~left.slides => autos' <= s.crashes /\ autos' <= MaxRestarts
      BY <1>1, <2>1, SupervisorAssumption DEF SupervisorAssumption
    <2> QED BY <2>1, <2>2, <2>3, WaitsShows
  <1> QED BY <1>2, <1>3

LEMMA StartShows ==
  ASSUME SupervisorInv, ShownInv, Start PROVE ShownInv'
  <1> DEFINE t == [slot EXCEPT !.desired = TRUE]
             s == NoTimer(t)
             u == IF s.state = "crash-loop" THEN FreshBudget(s) ELSE s
  <1>1. /\ t \in Slots /\ t.proc = slot.proc /\ t.gen = slot.gen /\ t.desired
        /\ t.state = slot.state /\ t.crashes = slot.crashes
    BY SlotTyped DEF Slots
  <1>2. /\ lock # <<>> /\ at.pc = "idle" /\ Head(lock).op = "start" /\ StartUnlocked(u, FALSE)
        /\ UNCHANGED <<proc, quit, left>>
    BY DEF Start, Running
  <1> HIDE DEF t
  <1>3. /\ s \in Slots /\ s.proc = slot.proc /\ s.gen = slot.gen /\ s.desired /\ ~s.timer
        /\ s.state = slot.state /\ s.crashes = slot.crashes
    BY <1>1, SlotRewrites, WrittenFields
  <1> HIDE DEF s
  <1>4. /\ u \in Slots /\ u.proc = slot.proc /\ u.gen = slot.gen /\ u.desired /\ ~u.timer
        /\ u.state = IF slot.state = "crash-loop" THEN "stopped" ELSE slot.state
        /\ slot.state # "crash-loop" => u.crashes = slot.crashes
    <2>1. CASE s.state = "crash-loop"
      <3>1. /\ FreshBudget(s) \in Slots /\ FreshBudget(s).proc = s.proc
            /\ FreshBudget(s).gen = s.gen /\ FreshBudget(s).desired = s.desired
            /\ FreshBudget(s).timer = s.timer /\ FreshBudget(s).state = "stopped"
        BY <1>3, <2>1, SlotRewrites, WrittenFields
      <3> QED BY <1>3, <2>1, <3>1
    <2>2. CASE s.state # "crash-loop"
      BY <1>3, <2>2
    <2> QED BY <2>1, <2>2
  <1> HIDE DEF u
  <1>5. BeforeQuit =>
          /\ u.state \in {"ready", "degraded"} => slot.proc # 0
          /\ u.state \in {"failed", "crash-loop", "stopped", "installed", "not-installed"}
               => slot.proc = 0 \/ slot.proc \in Exits
    BY <1>4 DEF ShownInv, Shown
  <1>6. BeforeQuit /\ ~left.slides =>
           u.state # "crash-loop" /\ (slot.proc # 0 => u.crashes = slot.crashes)
    BY <1>4 DEF ShownInv, Budgeted, Up
  <1> QED BY <1>2, <1>4, <1>5, <1>6, StartUnlockedShows

LEMMA AutoStartShows ==
  ASSUME SupervisorInv, ShownInv, AutoStart PROVE ShownInv'
  <1>1. /\ lock # <<>> /\ at.pc = "idle" /\ Head(lock).op = "auto"
        /\ UNCHANGED <<proc, quit, left>>
    BY DEF AutoStart, Running
  <1>2. left' \in Lefts /\ left'.slides = left.slides /\ autos \in Nat
    BY <1>1 DEF ShownInv, Current, Lefts
  <1>3. BeforeQuit =>
          /\ slot.state \in {"ready", "degraded"} => slot.proc # 0
          /\ slot.state \in {"failed", "crash-loop", "stopped", "installed", "not-installed"}
               => slot.proc = 0 \/ slot.proc \in Exits
    BY DEF ShownInv, Shown
  <1>4. BeforeQuit /\ ~left.slides => Budgeted
    BY DEF ShownInv
  <1>5. CASE ~slot.desired \/ slot.proc # 0 \/ slot.state = "crash-loop"
    <2>1. Finish /\ UNCHANGED <<slot, autos>>
      BY <1>5 DEF AutoStart
    <2>2. BeforeQuit /\ ~left.slides =>
           /\ slot.timer => MaxRestarts # 0
           /\ slot.proc # 0 => autos <= slot.crashes /\ autos <= MaxRestarts
                               /\ slot.state # "crash-loop"
      BY <1>4 DEF Budgeted, Up
    <2> QED BY <1>1, <1>2, <1>3, <1>5, <2>1, <2>2, FinishedShows
  <1>6. CASE slot.desired /\ slot.proc = 0 /\ slot.state # "crash-loop"
    <2>1. StartUnlocked(slot, TRUE)
      BY <1>6 DEF AutoStart
    <2>2. AutoQueued
      <3>1. 1 \in DOMAIN lock /\ Head(lock) = lock[1]
        BY <1>1 DEF SupervisorInv, Shapes
      <3> QED BY <1>1, <3>1 DEF AutoQueued
    <2>3. BeforeQuit /\ ~left.slides =>
            autos < slot.crashes /\ autos < MaxRestarts /\ MaxRestarts # 0
      BY <1>1, <1>4, <1>6, <2>2 DEF Budgeted, Up
    <2> QED BY <1>1, <1>3, <1>6, <2>1, <2>3, SlotTyped, StartUnlockedShows
  <1> QED BY <1>5, <1>6

\* The launch resolves: the new process is the one the start awaits.
LEMMA ResolveShows ==
  ASSUME SupervisorInv, ShownInv, Resolve(TRUE)
  PROVE  /\ ShownInv'
         /\ quit = "no" => slot.desired
         /\ BeforeQuit /\ ~left.slides => autos' <= MaxRestarts
  <1> DEFINE g == slot.gen + 1
             p == [NoProcess EXCEPT !.os = "live", !.owned = TRUE]
  <1>1. /\ at.pc = "resolving" /\ g \in Generations
        /\ slot' = [slot EXCEPT !.gen = g, !.state = "starting", !.proc = g]
        /\ proc' = [proc EXCEPT ![g] = p]
        /\ at' = [at EXCEPT !.pc = "waiting", !.gen = g]
        /\ UNCHANGED <<lock, quit, left, autos>>
    BY DEF Resolve
  <1>2. p.os = "live" /\ ~p.told /\ ~p.stopping /\ ~p.ready
    BY DEF NoProcess
  <1> HIDE DEF g, p
  <1>3. proc'[g] = p
    BY <1>1 DEF SupervisorInv, Shapes
  <1>4. /\ slot'.gen = g /\ slot'.proc = g /\ slot'.state = "starting"
        /\ slot'.crashes = slot.crashes /\ slot'.timer = slot.timer
        /\ slot'.desired = slot.desired
    BY <1>1, SlotTyped DEF Slots
  <1>5. at'.pc = "waiting" /\ at'.gen = g
    BY <1>1, AtTyped DEF Ats
  <1>6. Exits' = Exits /\ (AutoQueued' <=> AutoQueued) /\ Head(lock') = Head(lock)
    BY <1>1, SameExits
  <1>7. Current' /\ ExitsAtOnce' /\ (quit' = "no" /\ at'.pc = "resolving" => slot'.desired)
    BY <1>1, <1>4, <1>5, <1>6 DEF ShownInv, Current, ExitsAtOnce
  <1>8. Awaited'
    BY <1>2, <1>3, <1>4, <1>5 DEF Awaited
  <1>9. Shown'
    <2>1. g # 0
      BY <1>1, SupervisorAssumption DEF Generations, SupervisorAssumption
    <2> QED BY <1>4, <1>5, <2>1 DEF Shown
  <1>10. BeforeQuit' /\ ~left'.slides => Budgeted'
    BY <1>1, <1>4, <1>6 DEF ShownInv, Budgeted, Up, BeforeQuit
  <1>11. BeforeQuit /\ ~left.slides => autos' <= MaxRestarts
    BY <1>1 DEF ShownInv, Budgeted, Up
  <1> QED BY <1>1, <1>7, <1>8, <1>9, <1>10, <1>11 DEF ShownInv

LEMMA ResolveFailsShows ==
  ASSUME SupervisorInv, ShownInv, Resolve(FALSE) PROVE ShownInv'
  <1> DEFINE x == IF slot.state = "not-installed" THEN slot.state ELSE "failed"
  <1>1. /\ at.pc = "resolving" /\ Finish /\ UNCHANGED <<proc, quit, autos>> /\ Fault
        /\ slot' = [slot EXCEPT !.desired = FALSE, !.state = x]
    BY DEF Resolve
  <1>2. x \in {"failed", "not-installed"}
    OBVIOUS
  <1> HIDE DEF x
  <1>3. /\ slot'.proc = slot.proc /\ slot'.gen = slot.gen /\ slot'.state = x
        /\ slot'.crashes = slot.crashes /\ slot'.timer = slot.timer /\ ~slot'.desired
    BY <1>1, SlotTyped DEF Slots
  <1>4. lock # <<>> /\ left' \in Lefts /\ left'.slides = left.slides /\ autos' \in Nat
    BY <1>1, OperationQueued, FaultKeeps DEF ShownInv, Current
  <1>5. BeforeQuit => slot.proc = 0 \/ slot.proc \in Exits
    <2>1. slot.proc # 0 => ~proc[slot.proc].ready
      BY <1>1 DEF SupervisorInv, StartReplaces
    <2> QED BY <1>1, <2>1 DEF ShownInv, Awaited
  <1>6. BeforeQuit /\ ~left.slides =>
           /\ slot'.timer => MaxRestarts # 0
           /\ autos' <= slot'.crashes /\ autos' <= MaxRestarts
    BY <1>1, <1>3 DEF ShownInv, Budgeted, Up
  <1> QED BY <1>1, <1>2, <1>3, <1>4, <1>5, <1>6, FinishedShows

\* onProcessReady has returned.
LEMMA StartedShows ==
  ASSUME SupervisorInv, ShownInv, Started PROVE ShownInv'
  <1>1. /\ at.pc = "registering" /\ lock # <<>> /\ UNCHANGED <<proc, quit, left, autos>>
        /\ left' \in Lefts /\ autos \in Nat
    BY OperationQueued DEF Started, ShownInv, Current, Lefts
  <1>2. CASE slot.proc = at.gen /\ slot.gen = at.gen
    <2>1. slot' = [slot EXCEPT !.state = "ready", !.sick = 0] /\ Finish
      BY <1>2 DEF Started
    <2>2. /\ slot'.proc = slot.proc /\ slot'.gen = slot.gen /\ slot'.state = "ready"
          /\ slot'.crashes = slot.crashes /\ slot'.timer = slot.timer
      BY <2>1, SlotTyped DEF Slots
    <2>3. BeforeQuit => slot.proc # 0
      BY <1>1 DEF ShownInv, Shown
    <2>4. BeforeQuit /\ ~left.slides =>
           /\ slot'.timer => MaxRestarts # 0
           /\ autos' <= slot'.crashes /\ autos' <= MaxRestarts
      BY <1>1, <2>2 DEF ShownInv, Budgeted, Up
    <2> QED BY <1>1, <2>1, <2>2, <2>3, <2>4, FinishedShows
  <1>3. CASE ~(slot.proc = at.gen /\ slot.gen = at.gen)
    <2>1. /\ UNCHANGED <<slot, lock>> /\ at'.pc = "unwinding" /\ at'.gen = at.gen
          /\ at'.rest = at.rest
      BY <1>3, AtTyped DEF Started, Goto, Ats
    <2>2. ~BeforeQuit
      BY <1>1, <1>3 DEF ShownInv, Shown, Current
    <2> QED BY <1>1, <2>1, <2>2 DEF ShownInv, Current, ExitsAtOnce, BeforeQuit, Lefts
  <1> QED BY <1>2, <1>3

\* A process that failed before it was ready leaves the slot.
LEMMA StartFailsShows ==
  ASSUME SupervisorInv, ShownInv, StartFails PROVE ShownInv'
  <1> DEFINE x == IF slot.proc = at.gen THEN 0 ELSE slot.proc
  <1>1. /\ at.pc \in {"waiting", "registering"} /\ UNCHANGED <<proc, lock, quit, autos>>
        /\ Fault \/ UNCHANGED left
        /\ slot' = [slot EXCEPT !.proc = x]
        /\ at'.pc = "unwinding" /\ at'.gen = at.gen /\ at'.rest = at.rest
    BY AtTyped DEF StartFails, Goto, Ats
  <1>2. x = 0
    BY <1>1 DEF ShownInv, Current
  <1> HIDE DEF x
  <1>3. /\ slot'.proc = 0 /\ slot'.gen = slot.gen /\ slot'.state = slot.state
        /\ slot'.crashes = slot.crashes /\ slot'.timer = slot.timer
        /\ slot'.desired = slot.desired
    BY <1>1, <1>2, SlotTyped DEF Slots
  <1>4. Exits' = Exits /\ (AutoQueued' <=> AutoQueued) /\ Head(lock') = Head(lock)
    BY <1>1, SameExits
  <1>5. left' \in Lefts /\ left'.slides = left.slides
    BY <1>1, FaultKeeps
  <1>6. Current' /\ ExitsAtOnce' /\ (quit' = "no" /\ at'.pc = "resolving" => slot'.desired)
    BY <1>1, <1>3, <1>4, <1>5 DEF ShownInv, Current, ExitsAtOnce, Lefts
  <1>7. BeforeQuit' => Awaited' /\ Shown'
    <2>1. BeforeQuit' => slot.state = "starting"
      BY <1>1 DEF ShownInv, Shown, BeforeQuit
    <2> QED BY <1>1, <1>3, <2>1 DEF Awaited, Shown
  <1>8. BeforeQuit' /\ ~left'.slides => Budgeted'
    BY <1>1, <1>3, <1>4, <1>5 DEF ShownInv, Budgeted, Up, BeforeQuit
  <1> QED BY <1>6, <1>7, <1>8 DEF ShownInv

\* A start that failed is unwound: its process is stopped, the crash comes after.
LEMMA UnwindShows ==
  ASSUME SupervisorInv, ShownInv, Unwind \/ StopProcess PROVE ShownInv'
  <1> DEFINE x == IF slot.proc = at.gen THEN 0 ELSE slot.proc
  <1>1. /\ UNCHANGED <<lock, quit, autos, left>>
        /\ \/ /\ at.pc = "unwinding" /\ slot' = [slot EXCEPT !.proc = x]
              /\ at'.pc \in {"stopping", "stopped"} /\ at'.rest = "crash"
           \/ /\ at.pc = "stopping" /\ UNCHANGED slot
              /\ at'.pc = "stopped" /\ at'.rest = at.rest
    BY AtTyped DEF Unwind, StopProcess, Goto, Ats
  <1>2. x \in {0, slot.proc}
    OBVIOUS
  <1> HIDE DEF x
  <1>3. /\ slot'.proc \in {0, slot.proc} /\ slot'.gen = slot.gen /\ slot'.state = slot.state
        /\ slot'.crashes = slot.crashes /\ slot'.timer = slot.timer
        /\ slot'.desired = slot.desired
    BY <1>1, <1>2, SlotTyped DEF Slots
  <1>4. Exits' = Exits /\ (AutoQueued' <=> AutoQueued) /\ Head(lock') = Head(lock)
    BY <1>1, SameExits
  <1>5. Current' /\ ExitsAtOnce' /\ (quit' = "no" /\ at'.pc = "resolving" => slot'.desired)
    BY <1>1, <1>3, <1>4 DEF ShownInv, Current, ExitsAtOnce
  <1>6. BeforeQuit' => Awaited' /\ Shown'
    <2>1. BeforeQuit' => /\ slot.proc = 0 /\ slot.state \notin {"ready", "degraded"}
                         /\ at.pc = "stopping" /\ at.rest # "crash" => ~slot.desired
      BY <1>1 DEF ShownInv, Shown, BeforeQuit
    <2> QED BY <1>1, <1>3, <2>1 DEF Awaited, Shown
  <1>7. BeforeQuit' /\ ~left'.slides => Budgeted'
    BY <1>1, <1>3, <1>4 DEF ShownInv, Budgeted, Up, BeforeQuit
  <1> QED BY <1>5, <1>6, <1>7 DEF ShownInv

\* A stop takes the process out of the slot and the wish for it back.
LEMMA StopsShow ==
  ASSUME SupervisorInv, ShownInv, lock # <<>>, Head(lock).op # "exit",
         UNCHANGED <<lock, quit, left, autos>>,
         slot'.proc = 0, slot'.gen = slot.gen, ~slot'.desired, ~slot'.timer,
         BeforeQuit => slot'.state \notin {"ready", "degraded"},
         at'.pc \in {"stopping", "stopped"}, at'.rest # "crash"
  PROVE  ShownInv'
  <1>1. Exits' = Exits /\ (AutoQueued' <=> AutoQueued) /\ Head(lock') = Head(lock)
    BY SameExits
  <1>2. Current' /\ ExitsAtOnce' /\ (quit' = "no" /\ at'.pc = "resolving" => slot'.desired)
    BY <1>1 DEF ShownInv, Current, ExitsAtOnce
  <1>3. BeforeQuit' => Awaited' /\ Shown'
    BY DEF Awaited, Shown, BeforeQuit
  <1>4. BeforeQuit' /\ ~left'.slides => Budgeted'
    BY <1>1 DEF ShownInv, Budgeted, Up, BeforeQuit
  <1> QED BY <1>2, <1>3, <1>4 DEF ShownInv

LEMMA StopUnlockedShows ==
  ASSUME SupervisorInv, ShownInv, NEW s \in Slots, s.proc = slot.proc, s.gen = slot.gen,
         ~s.desired, ~s.timer, NEW rest \in {"done", "start", "register"},
         StopUnlocked(s, rest), lock # <<>>, Head(lock).op # "exit",
         UNCHANGED <<lock, quit, left, autos>>
  PROVE  ShownInv'
  <1>1. CASE s.proc = 0
    <2> DEFINE x == IF s.state = "not-installed" THEN s.state ELSE "stopped"
    <2>1. /\ slot' = [s EXCEPT !.state = x] /\ x \notin {"ready", "degraded"}
          /\ at' = [Idle EXCEPT !.pc = "stopped", !.rest = rest]
      BY <1>1 DEF StopUnlocked
    <2> HIDE DEF x
    <2>2. /\ slot'.proc = 0 /\ slot'.gen = slot.gen /\ ~slot'.desired /\ ~slot'.timer
          /\ slot'.state = x
      BY <1>1, <2>1 DEF Slots
    <2>3. at'.pc = "stopped" /\ at'.rest = rest
      BY <2>1 DEF Idle
    <2> QED BY <2>1, <2>2, <2>3, StopsShow
  <1>2. CASE s.proc # 0
    <2> DEFINE pc == IF proc[s.proc].owned THEN "stopping" ELSE "stopped"
    <2>1. /\ slot' = [s EXCEPT !.state = "stopping", !.proc = 0]
          /\ at' = [pc |-> pc, gen |-> s.proc, rest |-> rest]
      BY <1>2 DEF StopUnlocked
    <2>2. pc \in {"stopping", "stopped"}
      OBVIOUS
    <2> HIDE DEF pc
    <2>3. /\ slot'.proc = 0 /\ slot'.gen = slot.gen /\ ~slot'.desired /\ ~slot'.timer
          /\ slot'.state = "stopping"
      BY <2>1 DEF Slots
    <2> QED BY <2>1, <2>2, <2>3, StopsShow
  <1> QED BY <1>1, <1>2

\* The slot after a stop or a quit has asked for the end, as it is shown.
LEMMA UnwantedFields ==
  ASSUME SupervisorInv
  PROVE  LET s == NoTimer([slot EXCEPT !.desired = FALSE]) IN
           /\ s \in Slots /\ s.proc = slot.proc /\ s.gen = slot.gen
           /\ ~s.desired /\ ~s.timer /\ s.state = slot.state
  <1> DEFINE t == [slot EXCEPT !.desired = FALSE]
  <1>1. /\ t \in Slots /\ t.proc = slot.proc /\ t.gen = slot.gen /\ ~t.desired
        /\ t.state = slot.state
    BY SlotTyped DEF Slots
  <1> HIDE DEF t
  <1>2. /\ NoTimer(t) \in Slots /\ NoTimer(t).proc = slot.proc /\ NoTimer(t).gen = slot.gen
        /\ ~NoTimer(t).desired /\ ~NoTimer(t).timer /\ NoTimer(t).state = slot.state
    BY <1>1, SlotRewrites, WrittenFields
  <1> QED BY <1>2 DEF t

\* An operation that leaves everything as it was.
LEMMA NothingDone ==
  ASSUME SupervisorInv, ShownInv, lock # <<>>, Head(lock).op # "exit", at.pc = "idle", Finish,
         UNCHANGED <<proc, quit, left, autos>>,
         slot'.proc = slot.proc, slot'.gen = slot.gen, slot'.state = slot.state,
         slot'.crashes = slot.crashes, slot'.timer = slot.timer,
         slot'.desired = slot.desired
  PROVE  ShownInv'
  <1>1. left' \in Lefts /\ left'.slides = left.slides /\ autos' \in Nat
    BY DEF ShownInv, Current, Lefts
  <1>2. BeforeQuit =>
          /\ slot.state \in {"ready", "degraded"} => slot.proc # 0
          /\ slot.state \in {"failed", "crash-loop", "stopped", "installed", "not-installed"}
               => slot.proc = 0 \/ slot.proc \in Exits
    BY DEF ShownInv, Shown
  <1>3. BeforeQuit /\ ~left.slides => Budgeted /\ (Up <=> slot.proc # 0)
    BY DEF ShownInv, Up
  <1> QED BY <1>1, <1>2, <1>3, FinishedShows DEF Budgeted

LEMMA StopShows ==
  ASSUME SupervisorInv, ShownInv, Stop \/ Restart PROVE ShownInv'
  <1> DEFINE s == NoTimer([slot EXCEPT !.desired = FALSE])
  <1>1. s \in Slots /\ s.proc = slot.proc /\ s.gen = slot.gen /\ ~s.desired /\ ~s.timer
    BY UnwantedFields
  <1>2. /\ lock # <<>> /\ at.pc = "idle" /\ Head(lock).op # "exit"
        /\ UNCHANGED <<quit, left, autos>>
        /\ \/ StopUnlocked(s, "done") /\ UNCHANGED lock
           \/ Finish /\ UNCHANGED <<slot, proc>>
           \/ StopUnlocked(s, "start") /\ UNCHANGED lock
    BY DEF Stop, Restart, Running
  <1> HIDE DEF s
  <1>3. CASE Finish /\ UNCHANGED <<slot, proc>>
    BY <1>2, <1>3, NothingDone
  <1>4. CASE (StopUnlocked(s, "done") \/ StopUnlocked(s, "start")) /\ UNCHANGED lock
    BY <1>1, <1>2, <1>4, StopUnlockedShows
  <1> QED BY <1>2, <1>3, <1>4

LEMMA RefreshShows ==
  ASSUME SupervisorInv, ShownInv, Refresh PROVE ShownInv'
  <1> DEFINE d == [slot EXCEPT !.desired = FALSE, !.pinned = FALSE]
             t == NoTimer(d)
             s == FreshBudget(t)
  <1>1. /\ d \in Slots /\ d.proc = slot.proc /\ d.gen = slot.gen /\ ~d.desired
        /\ d.state = slot.state
    BY SlotTyped DEF Slots
  <1>2. /\ lock # <<>> /\ at.pc = "idle" /\ Head(lock).op # "exit"
        /\ UNCHANGED <<quit, left, autos>>
        /\ \/ Finish /\ UNCHANGED proc /\ slot' = [slot EXCEPT !.pinned = TRUE]
           \/ UNCHANGED lock /\ StopUnlocked(s, "register")
           \/ /\ UNCHANGED <<lock, proc>> /\ slot' = s /\ s.proc = 0
              /\ at' = [Idle EXCEPT !.pc = "stopped", !.rest = "register"]
    BY DEF Refresh, Running
  <1> HIDE DEF d
  <1>3. /\ t \in Slots /\ t.proc = slot.proc /\ t.gen = slot.gen /\ ~t.desired /\ ~t.timer
        /\ t.state = slot.state
    BY <1>1, SlotRewrites, WrittenFields
  <1> HIDE DEF t
  <1>4. /\ s \in Slots /\ s.proc = slot.proc /\ s.gen = slot.gen /\ ~s.desired /\ ~s.timer
        /\ s.state \in {"stopped", slot.state}
    BY <1>3, SlotRewrites, WrittenFields
  <1> HIDE DEF s
  <1>5. CASE Finish /\ UNCHANGED proc /\ slot' = [slot EXCEPT !.pinned = TRUE]
    <2>1. /\ slot'.proc = slot.proc /\ slot'.gen = slot.gen /\ slot'.state = slot.state
          /\ slot'.crashes = slot.crashes /\ slot'.timer = slot.timer
          /\ slot'.desired = slot.desired
      BY <1>5, SlotTyped DEF Slots
    <2> QED BY <1>2, <1>5, <2>1, NothingDone
  <1>6. CASE UNCHANGED lock /\ StopUnlocked(s, "register")
    BY <1>2, <1>4, <1>6, StopUnlockedShows
  <1>7. CASE /\ UNCHANGED <<lock, proc>> /\ slot' = s /\ s.proc = 0
             /\ at' = [Idle EXCEPT !.pc = "stopped", !.rest = "register"]
    <2>1. at'.pc = "stopped" /\ at'.rest = "register"
      BY <1>7 DEF Idle
    <2>2. BeforeQuit => s.state \notin {"ready", "degraded"}
      BY <1>4, <1>7 DEF ShownInv, Shown
    <2> QED BY <1>2, <1>4, <1>7, <2>1, <2>2, StopsShow
  <1> QED BY <1>2, <1>5, <1>6, <1>7

\* A crash is recorded for a slot that has no process any more.
LEMMA CrashShows ==
  ASSUME SupervisorInv, ShownInv, lock # <<>>, Finish, UNCHANGED <<proc, quit, left>>,
         NEW e \in Slots, e.proc = 0, e.gen = slot.gen, e.auto = slot.auto,
         e.timer = slot.timer, NEW n \in CrashCounts, slot' = Crashed(e, n), AutosCounted,
         BeforeQuit => Up
  PROVE  ShownInv'
  <1>1. n \in Nat /\ n # 0 /\ (~left.slides => n = slot.crashes + 1)
    BY SlotTyped DEF CrashCounts
  <1>2. /\ slot'.proc = 0 /\ slot'.gen = slot.gen /\ slot'.crashes = n
        /\ slot'.state \in {"failed", "crash-loop"} /\ slot'.desired = e.desired
        /\ slot'.state = "crash-loop" <=> e.desired /\ slot.auto /\ n > MaxRestarts
        /\ slot'.timer => slot.timer \/ n <= MaxRestarts
    <2>1. Crashed(e, n).proc = e.proc /\ Crashed(e, n).gen = e.gen
      BY <1>1, SlotRewrites
    <2>2. /\ Crashed(e, n).crashes = n /\ Crashed(e, n).desired = e.desired
          /\ Crashed(e, n).state \in {"failed", "crash-loop"}
          /\ Crashed(e, n).state = "crash-loop" <=> e.desired /\ e.auto /\ n > MaxRestarts
          /\ Crashed(e, n).timer => e.timer \/ n <= MaxRestarts
      BY <1>1, WrittenFields
    <2> QED BY <2>1, <2>2
  <1>3. autos \in Nat /\ left \in Lefts /\ autos' = (IF slot.auto THEN autos ELSE 0)
    BY DEF ShownInv, Current, Lefts, AutosCounted
  <1>4. (AutoQueued' => AutoQueued) /\ at'.pc = "idle" /\ at'.gen = 0 /\ at'.rest = "done"
    BY PopExits
  <1>5. Current' /\ ExitsAtOnce' /\ (quit' = "no" /\ at'.pc = "resolving" => slot'.desired)
    BY <1>2, <1>3, <1>4 DEF Current, ExitsAtOnce, Lefts
  <1>6. Awaited' /\ Shown'
    BY <1>2, <1>4 DEF Awaited, Shown
  <1>7. ASSUME BeforeQuit', ~left'.slides PROVE Budgeted'
    <2>1. Budgeted /\ Up /\ n = slot.crashes + 1
      BY <1>1, <1>7 DEF ShownInv, BeforeQuit
    <2>2. autos <= slot.crashes /\ autos <= MaxRestarts
      BY <2>1 DEF Budgeted
    <2>3. autos < n
      BY <1>3, <2>1, <2>2, SlotTyped
    <2>4. slot'.timer \/ AutoQueued' => MaxRestarts # 0
      BY <1>1, <1>2, <1>4, <2>1 DEF Budgeted
    <2>5. ~Up'
      BY <1>2, <1>4 DEF Up
    <2>6. ASSUME slot'.desired, slot'.state # "crash-loop"
          PROVE  autos' < slot'.crashes /\ (autos' < MaxRestarts \/ MaxRestarts = 0)
      <3>1. CASE ~slot.auto
        BY <1>1, <1>2, <1>3, <3>1, SupervisorAssumption DEF SupervisorAssumption
      <3>2. CASE slot.auto
        <4>1. n <= MaxRestarts
          BY <1>1, <1>2, <2>6, <3>2, SupervisorAssumption DEF SupervisorAssumption
        <4> QED BY <1>1, <1>2, <1>3, <2>3, <3>2, <4>1, SupervisorAssumption
                DEF SupervisorAssumption
      <3> QED BY <3>1, <3>2
    <2> QED BY <2>4, <2>5, <2>6 DEF Budgeted
  <1> QED BY <1>5, <1>6, <1>7 DEF ShownInv

\* What follows process.stop().
LEMMA StoppedShows ==
  ASSUME SupervisorInv, ShownInv, Stopped PROVE ShownInv'
  <1> DEFINE s == IF at.gen # 0 /\ at.rest # "crash" THEN [slot EXCEPT !.state = "stopped"]
                  ELSE slot
             f == FreshBudget(s)
             u == [f EXCEPT !.desired = TRUE]
  <1>1. /\ s \in Slots /\ s.proc = slot.proc /\ s.gen = slot.gen /\ s.timer = slot.timer
        /\ s.desired = slot.desired /\ s.crashes = slot.crashes
        /\ s.state \in {"stopped", slot.state}
    BY SlotTyped DEF Slots, States
  <1>2. /\ lock # <<>> /\ at.pc = "stopped" /\ UNCHANGED <<proc, quit, left>>
        /\ Head(lock).op # "exit"
    BY OperationQueued DEF Stopped, ShownInv, ExitsAtOnce
  <1>3. \/ at.rest = "done" /\ slot' = s /\ Finish /\ UNCHANGED autos
        \/ /\ at.rest = "crash" /\ Finish /\ AutosCounted
           /\ \E n \in CrashCounts : slot' = Crashed(slot, n)
        \/ at.rest = "start" /\ StartUnlocked(u, FALSE)
        \/ /\ at.rest = "register" /\ Finish /\ UNCHANGED autos
           /\ slot' \in Registered(s)
    BY DEF Stopped
  <1> HIDE DEF s
  <1>4. /\ f \in Slots /\ f.proc = slot.proc /\ f.gen = slot.gen /\ f.timer = slot.timer
        /\ f.state \notin {"crash-loop", "degraded"} /\ f.state \in {"stopped", s.state}
    <2>1. f \in Slots /\ f.proc = s.proc /\ f.gen = s.gen
      BY <1>1, SlotRewrites
    <2>2. /\ f.timer = s.timer
          /\ f.state = IF s.state \in {"crash-loop", "failed", "degraded"} THEN "stopped"
                       ELSE s.state
      BY <1>1, WrittenFields
    <2> QED BY <1>1, <2>1, <2>2
  <1> HIDE DEF f
  <1>5. /\ u \in Slots /\ u.proc = slot.proc /\ u.gen = slot.gen /\ u.timer = slot.timer
        /\ u.state = f.state /\ u.desired
    BY <1>4 DEF Slots
  <1> HIDE DEF u
  <1>6. BeforeQuit =>
          /\ slot.proc = 0 /\ slot.state \notin {"ready", "degraded"}
          /\ at.rest # "crash" => ~slot.desired
    BY <1>2 DEF ShownInv, Shown
  <1>7. BeforeQuit /\ ~left.slides => (slot.timer => MaxRestarts # 0)
    BY DEF ShownInv, Budgeted
  <1>8. autos \in Nat /\ left' \in Lefts /\ left'.slides = left.slides
    BY <1>2 DEF ShownInv, Current, Lefts
  <1>9. CASE at.rest = "done" /\ slot' = s /\ Finish /\ UNCHANGED autos
    BY <1>1, <1>2, <1>6, <1>7, <1>8, <1>9, FinishedShows
  <1>10. CASE /\ at.rest = "crash" /\ Finish /\ AutosCounted
              /\ \E n \in CrashCounts : slot' = Crashed(slot, n)
    <2>1. PICK n \in CrashCounts : slot' = Crashed(slot, n)
      BY <1>10
    <2>2. CASE BeforeQuit
      <3>1. slot.proc = 0 /\ Up
        BY <1>2, <1>6, <1>10, <2>2 DEF Up
      <3> QED BY <1>2, <1>10, <2>1, <3>1, SlotTyped, CrashShows
    <2>3. CASE ~BeforeQuit
      <3>1. n \in Nat
        BY SlotTyped DEF CrashCounts
      <3>2. slot'.proc = slot.proc /\ slot'.gen = slot.gen
        BY <2>1, <3>1, SlotTyped, SlotRewrites
      <3>3. autos' \in Nat
        BY <1>8, <1>10 DEF AutosCounted
      <3> QED BY <1>2, <1>8, <1>10, <2>3, <3>2, <3>3, FinishedShows
    <2> QED BY <2>2, <2>3
  <1>11. CASE at.rest = "start" /\ StartUnlocked(u, FALSE)
    <2>1. BeforeQuit => u.state \notin {"ready", "degraded"}
      BY <1>1, <1>4, <1>5, <1>6
    <2> QED BY <1>2, <1>4, <1>5, <1>6, <1>7, <1>11, <2>1, StartUnlockedShows
  <1>12. CASE /\ at.rest = "register" /\ Finish /\ UNCHANGED autos
              /\ slot' \in Registered(s)
    <2>1. /\ slot'.proc = slot.proc /\ slot'.gen = slot.gen /\ slot'.timer = slot.timer
          /\ slot'.desired = slot.desired
          /\ slot'.state \in {"installed", "not-installed", "failed"}
      BY <1>1, <1>12, RegisteredSlot
    <2> QED BY <1>2, <1>6, <1>7, <1>8, <1>12, <2>1, FinishedShows
  <1> QED BY <1>3, <1>9, <1>10, <1>11, <1>12

LEMMA HealthShows ==
  ASSUME SupervisorInv, ShownInv, HealthBegin \/ \E ok \in BOOLEAN : HealthEnd(ok)
  PROVE  ShownInv'
  <1>1. CASE HealthBegin
    <2>1. /\ UNCHANGED <<slot, proc, quit, left, autos>> /\ lock # <<>> /\ at.pc = "idle"
          /\ Head(lock).op # "exit"
      BY <1>1 DEF HealthBegin, Running
    <2>2. CASE Finish
      BY <2>1, <2>2, NothingDone
    <2>3. CASE slot.proc # 0 /\ Goto("probing")
      <3>1. at'.pc = "probing" /\ UNCHANGED lock
        BY <2>3, AtTyped DEF Goto, Ats
      <3>2. autos' \in Nat
        BY <2>1 DEF ShownInv, Current
      <3>3. BeforeQuit /\ ~left.slides =>
               /\ slot'.timer => MaxRestarts # 0
               /\ autos' <= slot'.crashes /\ autos' <= MaxRestarts
               /\ slot'.state # "crash-loop"
        BY <2>1, <2>3 DEF ShownInv, Budgeted, Up
      <3>4. BeforeQuit =>
               (slot.state \in {"failed", "crash-loop", "stopped", "installed", "not-installed"}
                  => slot.proc = 0 \/ slot.proc \in Exits)
        BY DEF ShownInv, Shown
      <3> QED BY <2>1, <2>3, <3>1, <3>2, <3>3, <3>4, WaitsShows
    <2> QED BY <1>1, <2>2, <2>3 DEF HealthBegin
  <1>2. ASSUME NEW ok \in BOOLEAN, HealthEnd(ok) PROVE ShownInv'
    <2>1. /\ at.pc = "probing" /\ lock # <<>> /\ Finish
          /\ UNCHANGED <<proc, quit, left, autos>>
      BY <1>2, OperationQueued DEF HealthEnd
    <2>2. slot' = IF ok THEN [slot EXCEPT !.state = "ready", !.sick = 0]
                  ELSE [slot EXCEPT !.state = "degraded", !.sick = @ + 1]
      BY <1>2 DEF HealthEnd
    <2>3. /\ slot'.proc = slot.proc /\ slot'.gen = slot.gen
          /\ slot'.state \in {"ready", "degraded"} /\ slot'.crashes = slot.crashes
          /\ slot'.timer = slot.timer
      <3>1. CASE ok
        BY <2>2, <3>1, SlotTyped DEF Slots, States
      <3>2. CASE ~ok
        BY <2>2, <3>2, SlotTyped DEF Slots, States
      <3> QED BY <3>1, <3>2
    <2>4. BeforeQuit => slot.proc # 0
      BY <2>1 DEF ShownInv, Shown
    <2>5. autos' \in Nat /\ left' \in Lefts
      BY <2>1 DEF ShownInv, Current, Lefts
    <2>6. BeforeQuit /\ ~left.slides =>
           /\ slot'.timer => MaxRestarts # 0
           /\ autos' <= slot'.crashes /\ autos' <= MaxRestarts
      BY <2>1, <2>3, <2>4 DEF ShownInv, Budgeted, Up
    <2> QED BY <2>1, <2>3, <2>4, <2>5, <2>6, FinishedShows
  <1> QED BY <1>1, <1>2

\* The queued observer of an exit: one of another process changes nothing.
LEMMA ExitedShows ==
  ASSUME SupervisorInv, ShownInv, Exited PROVE ShownInv'
  <1> DEFINE g == Head(lock).gen
             e == [slot EXCEPT !.proc = 0]
  <1>1. /\ lock # <<>> /\ at.pc = "idle" /\ Finish /\ UNCHANGED <<proc, quit, left>>
        /\ Head(lock).op = "exit"
    BY DEF Exited, Running
  <1>2. g # 0
    <2>1. 1 \in DOMAIN lock /\ Head(lock) = lock[1]
      BY <1>1 DEF SupervisorInv, Shapes
    <2> QED BY <1>1, <2>1 DEF SupervisorInv, ExitsReal
  <1>3. CASE slot.proc = g /\ slot.gen = g
    <2>1. PICK n \in CrashCounts : slot' = Crashed(e, n)
      BY <1>3 DEF Exited
    <2>2. AutosCounted
      BY <1>3 DEF Exited
    <2>3. e \in Slots /\ e.proc = 0 /\ e.gen = slot.gen /\ e.auto = slot.auto
          /\ e.timer = slot.timer
      BY SlotTyped, SupervisorAssumption DEF Slots, SupervisorAssumption
    <2>4. Up
      BY <1>2, <1>3 DEF Up
    <2> HIDE DEF e
    <2> QED BY <1>1, <2>1, <2>2, <2>3, <2>4, CrashShows
  <1>4. CASE ~(slot.proc = g /\ slot.gen = g)
    <2>1. UNCHANGED <<slot, autos>>
      BY <1>4 DEF Exited
    <2>2. slot.proc # g
      BY <1>2, <1>4 DEF ShownInv, Current
    <2>3. /\ \A h \in Exits : h \in Exits' \/ h = g
          /\ (AutoQueued' => AutoQueued) /\ at'.pc = "idle" /\ at'.gen = 0 /\ at'.rest = "done"
      BY <1>1, PopExits
    <2>4. slot.proc \in Exits => slot.proc \in Exits'
      BY <2>2, <2>3
    <2>5. Current' /\ ExitsAtOnce' /\ (quit' = "no" /\ at'.pc = "resolving" => slot'.desired)
      BY <1>1, <2>1, <2>3 DEF ShownInv, Current, ExitsAtOnce
    <2>6. BeforeQuit' => Awaited' /\ Shown'
      <3>1. BeforeQuit' => Awaited /\ Shown
        BY <1>1 DEF ShownInv, BeforeQuit
      <3> QED BY <1>1, <2>1, <2>3, <2>4, <3>1 DEF Awaited, Shown
    <2>7. BeforeQuit' /\ ~left'.slides => Budgeted'
      BY <1>1, <2>1, <2>3 DEF ShownInv, Budgeted, Up, BeforeQuit
    <2> QED BY <2>5, <2>6, <2>7 DEF ShownInv
  <1> QED BY <1>3, <1>4
-----------------------------------------------------------------------------
(* The theorems *)

LEMMA ShownInvStep ==
  ASSUME SupervisorInv, Addressed, ShownInv, [SupervisorNext]_vars PROVE ShownInv'
  <1>1. CASE Operation
    <2>1. CASE Start \/ AutoStart \/ Resolve(TRUE) \/ Started \/ StartFails
      BY <2>1, StartShows, AutoStartShows, ResolveShows, StartedShows, StartFailsShows
    <2>2. CASE Unwind \/ StopProcess \/ Stop \/ Restart \/ Refresh
      BY <2>2, UnwindShows, StopShows, RefreshShows
    <2>3. CASE Stopped \/ Exited
      BY <2>3, StoppedShows, ExitedShows
    <2>4. CASE HealthBegin \/ HealthEnd(TRUE) \/ HealthEnd(FALSE)
      BY <2>4, HealthShows
    <2> QED BY <1>1, <2>1, <2>2, <2>3, <2>4 DEF Operation
  <1>2. CASE SetPolicy \/ (\E op \in Calls : Call(op)) \/ Resolve(FALSE) \/ TimerFires
    BY <1>2, PolicyShows, CallShows, ResolveFailsShows, TimerShows
  <1>3. ASSUME NEW g \in Generations,
               ProcessReady(g) \/ ProcessExit(g) \/ Killed(g) \/ BadFrame(g)
        PROVE  ShownInv'
    <2>1. CASE BadFrame(g)
      BY <2>1, ViolationShows DEF BadFrame
    <2> QED BY <1>3, <2>1, ProcessReadyShows, ProcessExitShows, KilledShows
  <1>4. ASSUME NEW r \in Requests,
               Request(r) \/ Answer(r) \/ RequestTimeout(r) \/ LateAnswer(r)
        PROVE  ShownInv'
    <2>1. CASE LateAnswer(r)
      <3>1. req[r].gen \in Generations
        BY <2>1, SupervisorAssumption
        DEF Addressed, LateAnswer, Generations, SupervisorAssumption
      <3> QED BY <2>1, <3>1, ViolationShows DEF LateAnswer
    <2> QED BY <1>4, <2>1, QuietStepsShow
  <1>5. CASE Quit \/ QuitStopped \/ QuitDeadline \/ ForceDone \/ UNCHANGED vars
    BY <1>5, QuitShows, QuietStepsShow
  <1> QED BY <1>1, <1>2, <1>3, <1>4, <1>5 DEF SupervisorNext


\* A generation is counted by the launch of its process only.
LEMMA GenerationsCounted ==
  ASSUME SupervisorInv, [SupervisorNext]_vars, slot'.gen # slot.gen PROVE Resolve(TRUE)
  <1> DEFINE w == NoTimer([slot EXCEPT !.desired = FALSE])
  <1>1. w \in Slots /\ w.gen = slot.gen
    BY Unwanted
  <1> HIDE DEF w
  <1>2. \A s \in Slots : \A rest : s.gen = slot.gen => ~StopUnlocked(s, rest)
    BY DEF StopUnlocked, Slots
  <1>3. \A s \in Slots : \A a : s.gen = slot.gen => ~StartUnlocked(s, a)
    BY DEF StartUnlocked, Slots
  <1>4. ASSUME NEW e \in Slots, e.gen = slot.gen, NEW n \in CrashCounts, slot' = Crashed(e, n)
        PROVE  FALSE
    <2>1. n \in Nat
      BY SlotTyped DEF CrashCounts
    <2> QED BY <1>4, <2>1, SlotRewrites
  <1>5. ASSUME NEW s \in Slots, s.gen = slot.gen
        PROVE  /\ NoTimer(s) \in Slots /\ NoTimer(s).gen = slot.gen
               /\ FreshBudget(s) \in Slots /\ FreshBudget(s).gen = slot.gen
               /\ [s EXCEPT !.desired = TRUE] \in Slots
               /\ [s EXCEPT !.desired = TRUE].gen = slot.gen
    BY <1>5, SlotRewrites
  <1>6. ~Start
    <2> DEFINE t == [slot EXCEPT !.desired = TRUE]
               s == NoTimer(t)
               u == IF s.state = "crash-loop" THEN FreshBudget(s) ELSE s
    <2>1. t \in Slots /\ t.gen = slot.gen
      BY <1>5, SlotTyped
    <2>2. Start => StartUnlocked(u, FALSE)
      BY DEF Start
    <2> HIDE DEF t
    <2>3. s \in Slots /\ s.gen = slot.gen
      BY <1>5, <2>1
    <2> HIDE DEF s
    <2>4. u \in Slots /\ u.gen = slot.gen
      BY <1>5, <2>3
    <2> HIDE DEF u
    <2> QED BY <1>3, <2>2, <2>4
  <1>7. ~AutoStart
    BY <1>3, SlotTyped DEF AutoStart
  <1>8. ~Stop /\ ~Restart /\ ~Quit /\ ~QuitDeadline
    <2>1. /\ Stop \/ Restart => UNCHANGED slot \/ StopUnlocked(w, "done") \/ StopUnlocked(w, "start")
          /\ Quit \/ QuitDeadline => slot' = w
      BY DEF Stop, Restart, Quit, QuitDeadline, w
    <2> QED BY <1>1, <1>2, <2>1
  <1>9. ~Refresh
    <2> DEFINE d == [slot EXCEPT !.desired = FALSE, !.pinned = FALSE]
               t == NoTimer(d)
               s == FreshBudget(t)
    <2>1. d \in Slots /\ d.gen = slot.gen /\ [slot EXCEPT !.pinned = TRUE].gen = slot.gen
      BY SlotTyped DEF Slots
    <2>2. Refresh => \/ slot' = [slot EXCEPT !.pinned = TRUE]
                     \/ StopUnlocked(s, "register") \/ slot' = s
      BY DEF Refresh
    <2> HIDE DEF d
    <2>3. t \in Slots /\ t.gen = slot.gen
      BY <1>5, <2>1
    <2> HIDE DEF t
    <2>4. s \in Slots /\ s.gen = slot.gen
      BY <1>5, <2>3
    <2> HIDE DEF s
    <2> QED BY <1>2, <2>1, <2>2, <2>4
  <1>10. ~Stopped
    <2> DEFINE s == IF at.gen # 0 /\ at.rest # "crash" THEN [slot EXCEPT !.state = "stopped"]
                    ELSE slot
               f == FreshBudget(s)
               u == [f EXCEPT !.desired = TRUE]
    <2>1. s \in Slots /\ s.gen = slot.gen
      BY SlotTyped DEF Slots, States
    <2>2. Stopped =>
            \/ slot' = s \/ StartUnlocked(u, FALSE)
            \/ \E n \in CrashCounts : slot' = Crashed(slot, n)
            \/ slot' \in Registered(s)
      BY DEF Stopped
    <2> HIDE DEF s
    <2>3. f \in Slots /\ f.gen = slot.gen
      BY <1>5, <2>1
    <2> HIDE DEF f
    <2>4. u \in Slots /\ u.gen = slot.gen
      BY <1>5, <2>3
    <2> HIDE DEF u
    <2>5. \A t \in Registered(s) : t.gen = slot.gen
      BY <2>1, RegisteredSlot
    <2> QED BY <1>3, <1>4, <2>1, <2>2, <2>4, <2>5, SlotTyped
  <1>11. ~Exited
    <2>1. Exited => \/ UNCHANGED slot
                    \/ \E n \in CrashCounts : slot' = Crashed([slot EXCEPT !.proc = 0], n)
      BY DEF Exited
    <2>2. [slot EXCEPT !.proc = 0] \in Slots /\ [slot EXCEPT !.proc = 0].gen = slot.gen
      BY SlotTyped, SlotRewrites
    <2> QED BY <1>4, <2>1, <2>2
  <1>12. ~TimerFires
    <2>1. NoTimer(slot).gen = slot.gen
      BY <1>5, SlotTyped
    <2> QED BY <2>1 DEF TimerFires
  <1>13. ~Resolve(FALSE) /\ ~Started /\ ~StartFails /\ ~Unwind /\ ~StopProcess /\ ~HealthBegin
    BY SlotTyped DEF Resolve, Started, StartFails, Unwind, StopProcess, HealthBegin, Slots
  <1>14. ~HealthEnd(TRUE) /\ ~HealthEnd(FALSE) /\ ~SetPolicy /\ ~ForceDone
    BY SlotTyped DEF HealthEnd, SetPolicy, ForceDone, Slots
  <1>15. ~QuitStopped /\ ~UNCHANGED vars /\ \A op \in Calls : ~Call(op)
    BY DEF QuitStopped, vars, Call
  <1>16. \A g \in Generations :
           ~ProcessReady(g) /\ ~ProcessExit(g) /\ ~Killed(g) /\ ~BadFrame(g)
    BY DEF ProcessReady, ProcessExit, Killed, BadFrame
  <1>17. \A r \in Requests : ~Request(r) /\ ~Answer(r) /\ ~RequestTimeout(r) /\ ~LateAnswer(r)
    BY DEF Request, Answer, RequestTimeout, LateAnswer
  <1> QED
    BY <1>6, <1>7, <1>8, <1>9, <1>10, <1>11, <1>12, <1>13, <1>14, <1>15, <1>16, <1>17
    DEF SupervisorNext, Operation

LEMMA SupervisorStrong ==
  SupervisorSpec => [](SupervisorInv /\ Addressed /\ ShownInv)
  <1>1. SupervisorInit => SupervisorInv /\ Addressed /\ ShownInv
    BY SupervisorInvInit, ShownInvInit, SupervisorAssumption
    DEF SupervisorInit, Addressed, SupervisorAssumption
  <1>2. SupervisorInv /\ Addressed /\ ShownInv /\ [SupervisorNext]_vars
          => (SupervisorInv /\ Addressed /\ ShownInv)'
    BY SupervisorInvStep, AddressedKeeps, ShownInvStep
  <1> QED BY <1>1, <1>2, PTL DEF SupervisorSpec

\* Until an application quit works beside the lock, the state that is shown agrees with
\* the process of the slot: ready or degraded means one that runs, or whose exit waits
\* for the lock; failed, given up or stopped means none.
THEOREM SupervisorStateAgrees == SupervisorSpec => []StateAgrees
  <1>1. SupervisorInv /\ ShownInv => StateAgrees
    <2> SUFFICES ASSUME SupervisorInv, ShownInv, BeforeQuit PROVE
                   /\ slot.state \in {"ready", "degraded"} =>
                        slot.proc # 0 /\ (IsReady \/ ExitQueued(slot.proc))
                   /\ slot.state \in {"failed", "crash-loop", "stopped", "installed", "not-installed"} =>
                        slot.proc = 0 \/ ExitQueued(slot.proc)
      BY DEF StateAgrees, BeforeQuit
    <2>1. Awaited /\ Shown
      BY DEF ShownInv
    <2>2. slot.state \in {"ready", "degraded"} => at.pc # "waiting"
      BY <2>1 DEF Shown
    <2>3. slot.proc \in Exits => ExitQueued(slot.proc)
      BY DEF Exits
    <2> QED BY <2>1, <2>2, <2>3 DEF Awaited, Shown, IsReady
  <1> QED BY <1>1, SupervisorStrong, PTL

\* A process is spawned only while the user wants the kernel, and without the user at
\* most MaxRestarts times in a window: for every budget, and whatever timers, exits and
\* restarts are queued.
THEOREM SupervisorStartsAreWanted == SupervisorSpec => StartsAreWanted
  <1> DEFINE Wanted == slot'.gen > slot.gen =>
                         /\ quit = "no" => slot.desired
                         /\ quit \in {"no", "stopping"} /\ ~left.slides => autos' <= MaxRestarts
  <1>1. SupervisorInv /\ Addressed /\ ShownInv /\ [SupervisorNext]_vars => [Wanted]_vars
    <2> SUFFICES ASSUME SupervisorInv, Addressed, ShownInv, [SupervisorNext]_vars,
                        slot'.gen > slot.gen
                 PROVE  /\ quit = "no" => slot.desired
                        /\ quit \in {"no", "stopping"} /\ ~left.slides => autos' <= MaxRestarts
      OBVIOUS
    <2>1. slot'.gen # slot.gen
      BY SlotTyped DEF Slots
    <2> QED BY <2>1, GenerationsCounted, ResolveShows DEF BeforeQuit
  <1> QED BY <1>1, SupervisorStrong, PTL DEF SupervisorSpec, StartsAreWanted
=============================================================================
