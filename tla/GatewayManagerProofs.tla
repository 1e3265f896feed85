------------------------ MODULE GatewayManagerProofs ------------------------
(***************************************************************************)
(* For every number of processes, reconnections, start attempts, calls and   *)
(* failures: a Gateway nobody ends is the one the manager holds              *)
(* (GatewayHeld), and what the user has stopped is started again only by a   *)
(* call (StopIsFinal).                                                       *)
(*                                                                          *)
(* The methods are operators from managers to managers, so each has a lemma  *)
(* of its own: it keeps Kept and, but for the end of a process, Ends.  The   *)
(* lemma of an action puts those of the methods it calls together.           *)
(***************************************************************************)
EXTENDS GatewayManager, TLAPS

Slots == {0} \cup Gateways
Flows ==
  [pc : {"idle", "identity", "find", "owned", "launch", "ready", "connect", "terminate",
         "doctor", "delay"},
   epoch : Nat, by : {"user", "restart", "auto"}, tries : Nat, child : Slots,
   existing : BOOLEAN, repaired : BOOLEAN, kept : BOOLEAN]
Stops == [pc : {"idle", "asking", "killing"}, child : Slots]
Managers ==
  [state : {"stopped", "starting", "running", "error", "reconnecting"},
   epoch : Nat, want : BOOLEAN, identity : BOOLEAN, cur : Slots, owns : BOOLEAN,
   exited : BOOLEAN, ws : Slots,
   proc : [Gateways -> {"none", "booting", "serving", "killed", "gone"}],
   lock : BOOLEAN, flow : Flows, stops : [Callers -> Stops], restart : BOOLEAN,
   timer : Nat, auto : BOOLEAN, attempts : Nat, deferred : {"none", "asked", "done"},
   cool : BOOLEAN, debounce : BOOLEAN, watch : BOOLEAN, escalate : BOOLEAN,
   owed : BOOLEAN, asked : {"no", "yes", "lost", "undone"}, late : BOOLEAN]

\* A process that has not ended is the one the manager owns, and it owns no other.
Alive(g, p) == g.proc[p] \in {"booting", "serving", "killed"}
Holds(g) ==
  /\ \A p \in Gateways : Alive(g, p) => p = g.cur /\ g.owns
  /\ g.owns => g.cur \in Gateways /\ Alive(g, g.cur)

\* The start under way is not ahead of the epoch and launches when nothing is owned.
Starts(g) ==
  /\ g.lock <=> g.flow.pc # "idle"
  /\ g.flow.epoch <= g.epoch
  /\ g.flow.pc = "launch" => ~g.owns

\* A restart in flight is in its stop or in its start.
Restarts(g) ==
  /\ g.stops["restart"].pc # "idle" => g.restart
  /\ g.lock /\ g.flow.by = "restart" => g.restart /\ g.stops["restart"].pc = "idle"

\* Nothing is wanted since the last stop: no reconnection waits, no restart is in
\* flight, a start under way is superseded.  Only the end of a stale process brings
\* shouldReconnect back, when nothing is left that could use it.
Off(g) ==
  g.asked = "no" =>
    /\ g.timer = 0 /\ ~g.restart
    /\ g.lock => g.flow.epoch # g.epoch
    /\ g.want => /\ g.deferred = "none" /\ ~g.owns /\ g.ws = 0
                 /\ g.lock => g.flow.pc = "delay"

Kept(g) == Holds(g) /\ Starts(g) /\ Restarts(g) /\ Off(g)

\* A start that awaits the end of the stale process has sent it its signal; a stop
\* that has come since awaits the same end.
Ends(g) ==
  g.flow.pc = "terminate" =>
    /\ g.flow.child = g.cur /\ g.owns /\ g.proc[g.cur] = "killed"
    /\ g.asked = "no" /\ g.flow.kept
         => g.stops["user"] = [pc |-> "killing", child |-> g.flow.child] /\ g.ws = 0

\* What the invariant reads.
Same(g, h) ==
  /\ h.proc = g.proc /\ h.cur = g.cur /\ h.owns = g.owns /\ h.lock = g.lock
  /\ h.flow = g.flow /\ h.stops = g.stops /\ h.restart = g.restart /\ h.timer = g.timer
  /\ h.deferred = g.deferred /\ h.want = g.want /\ h.asked = g.asked
  /\ h.epoch = g.epoch /\ h.ws = g.ws

\* A method: what holds of its outcome whatever state it is called in.
Locked(g) == g.lock <=> g.flow.pc # "idle"
Method(g, h) ==
  h \in Managers /\ h.late = g.late /\ (Locked(g) => Locked(h)) /\ (h.owns => g.owns)

LEMMA SameKeeps ==
  ASSUME NEW g \in Managers, NEW h \in Managers, Same(g, h)
  PROVE  (Kept(g) => Kept(h)) /\ (Ends(g) => Ends(h))
  BY DEF Same, Kept, Holds, Starts, Restarts, Off, Ends, Alive

LEMMA CancelKeeps ==
  ASSUME NEW g \in Managers
  PROVE  Method(g, CancelDeadline(g)) /\ Same(g, CancelDeadline(g))
         /\ CancelDeadline(g).state = g.state /\ CancelDeadline(g).cool = g.cool
  BY DEF CancelDeadline, Managers, Method, Same, Locked

\* start() shows "starting" and begins with the search for a Gateway.
LEMMA StartsUpParts ==
  ASSUME NEW g \in Managers
  PROVE  LET h == StartsUp(g) IN
         /\ h \in Managers /\ h.late = g.late
         /\ h.proc = g.proc /\ h.cur = g.cur /\ h.owns = g.owns /\ h.lock = g.lock
         /\ h.stops = g.stops /\ h.restart = g.restart /\ h.timer = 0
         /\ h.deferred = g.deferred /\ h.want = g.want /\ h.asked = g.asked
         /\ h.epoch = g.epoch /\ h.ws = g.ws
         /\ h.flow.pc = "find" /\ h.flow.epoch = g.flow.epoch /\ h.flow.by = g.flow.by
  <1> DEFINE n == IF g.auto THEN g.attempts ELSE 0
             f == [g.flow EXCEPT !.pc = "find", !.tries = 1]
             up(x, y) == [g EXCEPT !.identity = TRUE, !.timer = 0, !.auto = FALSE,
                                   !.state = "starting", !.attempts = y, !.flow = x]
  <1>1. n \in Nat /\ g.flow \in Flows
    BY DEF Managers
  <1>2. f \in Flows /\ f.pc = "find" /\ f.epoch = g.flow.epoch /\ f.by = g.flow.by
    BY <1>1 DEF Flows
  <1>3. StartsUp(g) = up(f, n)
    BY DEF StartsUp
  <1> HIDE DEF n, f
  <1>4. StartsUp(g) \in Managers
    <2>1. ASSUME NEW x \in Flows, NEW y \in Nat
          PROVE  up(x, y) \in Managers
      BY <2>1 DEF Managers
    <2> HIDE DEF up
    <2> QED BY <1>1, <1>2, <1>3, <2>1
  <1>5. LET h == StartsUp(g) IN
        /\ h.late = g.late
        /\ h.proc = g.proc /\ h.cur = g.cur /\ h.owns = g.owns /\ h.lock = g.lock
        /\ h.stops = g.stops /\ h.restart = g.restart /\ h.timer = 0
        /\ h.deferred = g.deferred /\ h.want = g.want /\ h.asked = g.asked
        /\ h.epoch = g.epoch /\ h.ws = g.ws /\ h.flow = f
    BY <1>3 DEF Managers
  <1> QED BY <1>2, <1>4, <1>5

\* start() takes the lock.
LEMMA StartTakesKeeps ==
  ASSUME NEW g \in Managers, NEW by \in {"user", "restart", "auto"}
  PROVE  LET h == StartTakes(g, by) IN
         /\ Method(g, h) /\ h.asked = g.asked /\ h.owns = g.owns
         /\ (Kept(g) /\ ~g.lock /\ g.asked # "no"
              /\ (by = "restart" => g.restart /\ g.stops["restart"].pc = "idle"))
              => Kept(h) /\ Ends(h)
  <1> DEFINE new(y, e) == [y EXCEPT !.pc = "identity", !.by = by, !.epoch = e]
             f == new(NoFlow, g.epoch + 1)
             take(x, e) == [g EXCEPT !.lock = TRUE, !.epoch = e, !.want = TRUE, !.flow = x]
             taken == take(f, g.epoch + 1)
             h == StartTakes(g, by)
  <1>0. g.epoch \in Nat
    BY DEF Managers
  <1>1. f.pc = "identity" /\ f.epoch = g.epoch + 1 /\ f.by = by
    BY DEF NoFlow
  <1>2. h = taken \/ h = StartsUp(taken)
    BY DEF StartTakes
  <1>3. taken \in Managers
    <2>1. ASSUME NEW x \in Flows, NEW e \in Nat
          PROVE  take(x, e) \in Managers
      BY <2>1 DEF Managers
    <2>2. f \in Flows
      <3>1. ASSUME NEW y \in Flows, NEW e \in Nat
            PROVE  new(y, e) \in Flows
        BY <3>1 DEF Flows
      <3>2. NoFlow \in Flows /\ g.epoch + 1 \in Nat
        BY <1>0 DEF Flows, NoFlow, Slots
      <3> HIDE DEF new
      <3> QED BY <3>1, <3>2
    <2>3. g.epoch + 1 \in Nat
      BY <1>0
    <2> HIDE DEF take, f
    <2> QED BY <2>1, <2>2, <2>3
  <1> HIDE DEF f
  <1>4. /\ taken.late = g.late
        /\ taken.proc = g.proc /\ taken.cur = g.cur /\ taken.owns = g.owns /\ taken.lock = TRUE
        /\ taken.stops = g.stops /\ taken.restart = g.restart /\ taken.asked = g.asked
        /\ taken.epoch = g.epoch + 1 /\ taken.flow = f
    BY <1>0 DEF Managers
  <1> HIDE DEF taken, h
  <1>5. /\ Method(g, h)
        /\ h.proc = g.proc /\ h.cur = g.cur /\ h.owns = g.owns /\ h.lock = TRUE
        /\ h.stops = g.stops /\ h.restart = g.restart /\ h.asked = g.asked
        /\ h.epoch = g.epoch + 1
        /\ h.flow.pc \in {"identity", "find"} /\ h.flow.epoch = g.epoch + 1 /\ h.flow.by = by
    BY <1>1, <1>2, <1>3, <1>4, StartsUpParts DEF Method, Locked
  <1>6. ASSUME Kept(g), ~g.lock, g.asked # "no",
               by = "restart" => g.restart /\ g.stops["restart"].pc = "idle"
        PROVE  Kept(h) /\ Ends(h)
    BY <1>0, <1>5, <1>6 DEF Kept, Holds, Starts, Restarts, Off, Ends, Alive
  <1> QED BY <1>5, <1>6 DEF h
\* The restart in flight is over.
LEMMA RestartReturnsParts ==
  ASSUME NEW g \in Managers
  PROVE  LET h == RestartReturns(g) IN
         /\ Method(g, h)
         /\ h.proc = g.proc /\ h.cur = g.cur /\ h.owns = g.owns /\ h.lock = g.lock
         /\ h.flow = g.flow /\ h.stops = g.stops /\ h.restart = FALSE /\ h.timer = g.timer
         /\ h.want = g.want /\ h.asked = g.asked /\ h.epoch = g.epoch /\ h.ws = g.ws
         /\ g.deferred = "none" => h.deferred = "none"
  <1> DEFINE d == Completed(g.deferred)
             over == [g EXCEPT !.restart = FALSE, !.cool = TRUE, !.deferred = d]
             gone == [over EXCEPT !.deferred = "none"]
             OK(x) == /\ x \in Managers /\ x.late = g.late
                      /\ x.proc = g.proc /\ x.cur = g.cur /\ x.owns = g.owns /\ x.lock = g.lock
                      /\ x.flow = g.flow /\ x.stops = g.stops /\ x.restart = FALSE
                      /\ x.timer = g.timer /\ x.want = g.want /\ x.asked = g.asked
                      /\ x.epoch = g.epoch /\ x.ws = g.ws
                      /\ g.deferred = "none" => x.deferred = "none"
  <1>1. d \in {"none", "asked", "done"} /\ (g.deferred = "none" => d = "none")
    BY DEF Completed
  <1>2. RestartReturns(g) \in {over, gone}
    BY DEF RestartReturns
  <1> HIDE DEF d
  <1>3. over \in Managers
    BY <1>1 DEF Managers
  <1>4. OK(over)
    BY <1>1, <1>3 DEF Managers
  <1> HIDE DEF over
  <1>5. gone \in Managers
    BY <1>3 DEF Managers
  <1>6. OK(gone)
    BY <1>3, <1>4, <1>5 DEF Managers
  <1> HIDE DEF gone
  <1> QED BY <1>2, <1>4, <1>6 DEF Method, Locked

LEMMA RestartReturnsKeeps ==
  ASSUME NEW g \in Managers, Kept(g), g.stops["restart"].pc = "idle",
         ~(g.lock /\ g.flow.by = "restart")
  PROVE  Kept(RestartReturns(g)) /\ (Ends(g) => Ends(RestartReturns(g)))
  <1> DEFINE h == RestartReturns(g)
  <1>1. /\ h.proc = g.proc /\ h.cur = g.cur /\ h.owns = g.owns /\ h.lock = g.lock
        /\ h.flow = g.flow /\ h.stops = g.stops /\ h.restart = FALSE /\ h.timer = g.timer
        /\ h.want = g.want /\ h.asked = g.asked /\ h.epoch = g.epoch /\ h.ws = g.ws
        /\ g.deferred = "none" => h.deferred = "none"
    BY RestartReturnsParts
  <1> HIDE DEF h
  <1>2. Kept(h) /\ (Ends(g) => Ends(h))
    BY <1>1 DEF Kept, Holds, Starts, Restarts, Off, Ends, Alive
  <1> QED BY <1>2 DEF h

\* A stop is over: its child has ended or was none.
LEMMA StopEndsParts ==
  ASSUME NEW g \in Managers, NEW who \in Callers
  PROVE  LET h == StopEnds(g, who) IN
         /\ Method(g, h) /\ h.asked = g.asked /\ h.owns = FALSE
         /\ who = "user" => /\ h.proc = g.proc /\ h.lock = g.lock /\ h.flow = g.flow
                            /\ h.restart = g.restart /\ h.timer = g.timer
                            /\ h.deferred = "none" /\ h.want = g.want
                            /\ h.epoch = g.epoch /\ h.ws = g.ws
                            /\ h.cur \in {0, g.cur}
                            /\ h.stops = [g.stops EXCEPT !["user"] = NoStop]
         /\ who = "restart" /\ g.lock =>
                            /\ h.proc = g.proc /\ h.lock = g.lock /\ h.flow = g.flow
                            /\ h.restart = FALSE /\ h.timer = g.timer
                            /\ h.deferred = "none" /\ h.want = g.want
                            /\ h.epoch = g.epoch /\ h.ws = g.ws
                            /\ h.stops = [g.stops EXCEPT !["restart"] = NoStop]
         /\ (/\ ~g.owns /\ Kept(g)
             /\ who = "restart" => g.restart /\ ~(g.lock /\ g.flow.by = "restart"))
            => Kept(h) /\ (g.flow.pc # "terminate" => Ends(h))
  <1> DEFINE c == IF g.cur = g.stops[who].child THEN 0 ELSE g.cur
             ss == [g.stops EXCEPT ![who] = NoStop]
             end(x, s) == [g EXCEPT !.cur = x, !.owns = FALSE, !.deferred = "none",
                                    !.auto = FALSE, !.state = "stopped", !.stops = s]
             ended == end(c, ss)
             h == StopEnds(g, who)
  <1>1. c \in Slots /\ c \in {0, g.cur}
    BY DEF Managers, Slots
  <1>2. ss \in [Callers -> Stops] /\ ss[who] = NoStop
    BY DEF Managers, Stops, NoStop, Slots
  <1>3. h = IF who = "user" THEN ended
            ELSE IF g.lock THEN RestartReturns(ended) ELSE StartTakes(ended, "restart")
    BY DEF StopEnds
  <1> HIDE DEF c, ss
  <1>4. ended \in Managers
    <2>1. ASSUME NEW x \in Slots, NEW s \in [Callers -> Stops]
          PROVE  end(x, s) \in Managers
      BY <2>1 DEF Managers
    <2> HIDE DEF end
    <2> QED BY <1>1, <1>2, <2>1
  <1>5. /\ ended.late = g.late
        /\ ended.proc = g.proc /\ ended.cur = c /\ ended.owns = FALSE /\ ended.lock = g.lock
        /\ ended.flow = g.flow /\ ended.stops = ss /\ ended.restart = g.restart
        /\ ended.timer = g.timer /\ ended.deferred = "none" /\ ended.want = g.want
        /\ ended.asked = g.asked /\ ended.epoch = g.epoch /\ ended.ws = g.ws
    BY DEF Managers
  <1>6. g.stops \in [Callers -> Stops]
    BY DEF Managers
  <1> HIDE DEF ended, h
  <1>7. ASSUME ~g.owns, Kept(g)
        PROVE  Kept(ended) /\ (g.flow.pc # "terminate" => Ends(ended))
    BY <1>2, <1>5, <1>6, <1>7 DEF Kept, Holds, Starts, Restarts, Off, Ends, Alive, ss, NoStop, Callers
  <1>8. CASE who = "user"
    BY <1>1, <1>3, <1>4, <1>5, <1>7, <1>8 DEF Method, Locked, ss, h
  <1>9. CASE who = "restart" /\ g.lock
    <2>1. h = RestartReturns(ended)
      BY <1>3, <1>9
    <2>2. /\ Method(ended, h)
          /\ h.proc = ended.proc /\ h.cur = ended.cur /\ h.owns = ended.owns
          /\ h.lock = ended.lock /\ h.flow = ended.flow /\ h.stops = ended.stops
          /\ h.restart = FALSE /\ h.timer = ended.timer
          /\ h.want = ended.want /\ h.asked = ended.asked /\ h.epoch = ended.epoch
          /\ h.ws = ended.ws /\ (ended.deferred = "none" => h.deferred = "none")
      BY <1>4, <2>1, RestartReturnsParts
    <2>3. ASSUME ~g.owns, Kept(g), ~(g.lock /\ g.flow.by = "restart")
          PROVE  Kept(h) /\ (g.flow.pc # "terminate" => Ends(h))
      <3>1. ended.stops["restart"].pc = "idle" /\ ~(ended.lock /\ ended.flow.by = "restart")
        BY <1>2, <1>5, <1>9, <2>3 DEF NoStop, Slots
      <3> QED BY <1>4, <1>7, <2>1, <2>3, <3>1, RestartReturnsKeeps
    <2> QED BY <1>5, <1>9, <2>2, <2>3 DEF Method, Locked, ss, h
  <1>10. CASE who = "restart" /\ ~g.lock
    <2>1. h = StartTakes(ended, "restart")
      BY <1>3, <1>10
    <2>2. Method(ended, h) /\ h.asked = ended.asked /\ h.owns = ended.owns
      BY <1>4, <2>1, StartTakesKeeps
    <2>3. ASSUME ~g.owns, Kept(g), g.restart
          PROVE  Kept(h) /\ Ends(h)
      <3>1. Kept(ended) /\ ~ended.lock /\ ended.restart /\ ended.stops["restart"].pc = "idle"
        BY <1>2, <1>5, <1>7, <1>10, <2>3 DEF NoStop, Slots
      <3>2. ended.asked # "no"
        BY <3>1 DEF Kept, Off
      <3> QED BY <1>4, <2>1, <3>1, <3>2, StartTakesKeeps
    <2> QED BY <1>5, <1>10, <2>2, <2>3 DEF Method, Locked, h
  <1> QED BY <1>8, <1>9, <1>10 DEF Callers
\* The part of Ends that a stop still has to bring about.
Stale(g) ==
  g.flow.pc = "terminate" => g.flow.child = g.cur /\ g.owns /\ g.proc[g.cur] = "killed"

\* stop() ends the child it owns, or is over.
LEMMA StopGoesKeeps ==
  ASSUME NEW g \in Managers, NEW who \in Callers
  PROVE  LET h == StopGoes(g, who) IN
         /\ Method(g, h) /\ h.asked = g.asked
         /\ (/\ Kept(g) /\ Stale(g) /\ (who = "user" \/ g.asked # "no")
             /\ who = "restart" => g.restart /\ ~(g.lock /\ g.flow.by = "restart"))
            => Kept(h) /\ Ends(h)
  <1> DEFINE h == StopGoes(g, who)
             K == [p \in Gateways |-> IF p = g.cur THEN "killed" ELSE g.proc[p]]
             new(s) == [pc |-> "killing", child |-> s]
             s1 == [g.stops EXCEPT ![who] = new(g.cur)]
             s2 == [g.stops EXCEPT ![who] = NoStop]
             up(k, s) == [g EXCEPT !.ws = 0, !.stops = s, !.proc = k]
             idle(s) == [g EXCEPT !.ws = 0, !.stops = s]
  <1>0. g.stops \in [Callers -> Stops] /\ g.cur \in Slots /\ g.lock \in BOOLEAN
        /\ g.proc \in [Gateways -> {"none", "booting", "serving", "killed", "gone"}]
    BY DEF Managers
  <1>1. s1 \in [Callers -> Stops] /\ s2 \in [Callers -> Stops]
    BY <1>0 DEF Stops, NoStop, Slots
  <1>2. K \in [Gateways -> {"none", "booting", "serving", "killed", "gone"}]
    BY <1>0
  <1>3. s1[who].pc = "killing" /\ s1[who].child = g.cur /\ s1[who] = new(g.cur) /\ s2[who].pc = "idle"
        /\ \A w \in Callers : w # who => s1[w] = g.stops[w] /\ s2[w] = g.stops[w]
    BY <1>0 DEF NoStop, Slots
  <1>4. CASE g.cur # 0 /\ g.owns
    <2>1. h = up(K, s1)
      <3>1. h = Kill([g EXCEPT !.ws = 0, !.stops = s1], {g.cur})
        BY <1>4 DEF StopGoes
      <3> DEFINE m == [g EXCEPT !.ws = 0, !.stops = s1]
      <3>2. m.proc = g.proc
        BY DEF Managers
      <3>3. Kill(m, {g.cur}) = [m EXCEPT !.proc = K]
        BY <3>2 DEF Kill
      <3> QED BY <3>1, <3>3
    <2> HIDE DEF K, s1, new, h
    <2>2. up(K, s1) \in Managers
      <3>1. ASSUME NEW k \in [Gateways -> {"none", "booting", "serving", "killed", "gone"}],
                   NEW s \in [Callers -> Stops]
            PROVE  up(k, s) \in Managers
        BY <3>1 DEF Managers, Slots
      <3> HIDE DEF up
      <3> QED BY <1>1, <1>2, <3>1
    <2>3. /\ h.late = g.late
          /\ h.proc = K /\ h.cur = g.cur /\ h.owns = g.owns /\ h.lock = g.lock
          /\ h.flow = g.flow /\ h.stops = s1 /\ h.restart = g.restart /\ h.timer = g.timer
          /\ h.deferred = g.deferred /\ h.want = g.want /\ h.asked = g.asked
          /\ h.epoch = g.epoch /\ h.ws = 0
      BY <2>1 DEF Managers
    <2>4. ASSUME Kept(g), Stale(g), who = "user" \/ g.asked # "no",
                 who = "restart" => g.restart /\ ~(g.lock /\ g.flow.by = "restart")
          PROVE  Kept(h) /\ Ends(h)
      <3>0. g.cur \in Gateways /\ \A p \in Gateways : Alive(g, p) => p = g.cur
        BY <1>4, <2>4 DEF Kept, Holds
      <3>01. /\ \A p \in Gateways : h.proc[p] = IF p = g.cur THEN "killed" ELSE g.proc[p]
            /\ h.owns /\ h.cur = g.cur
        BY <1>4, <2>3 DEF K
      <3>1. Holds(h)
        BY <3>0, <3>01 DEF Holds, Alive
      <3>2. Starts(h)
        BY <2>3, <2>4 DEF Kept, Starts
      <3>3. Restarts(h)
        BY <1>3, <2>3, <2>4 DEF Kept, Restarts, Callers
      <3>4. Off(h)
        BY <2>3, <2>4 DEF Kept, Off
      <3>5. h.proc[h.cur] = "killed"
        BY <1>0, <1>4, <2>3, <2>4 DEF Kept, Holds, K
      <3>6. Ends(h)
        BY <1>3, <1>4, <2>3, <2>4, <3>5 DEF Ends, Stale, Callers, new
      <3> QED BY <3>1, <3>2, <3>3, <3>4, <3>6 DEF Kept
    <2> QED BY <2>1, <2>2, <2>3, <2>4 DEF Method, Locked, h
  <1>5. CASE ~(g.cur # 0 /\ g.owns)
    <2> DEFINE m == idle(s2)
    <2>1. h = StopEnds(m, who)
      BY <1>5 DEF StopGoes
    <2> HIDE DEF s2, h
    <2>2. m \in Managers
      <3>1. ASSUME NEW s \in [Callers -> Stops]
            PROVE  idle(s) \in Managers
        BY <3>1 DEF Managers, Slots
      <3> HIDE DEF idle
      <3> QED BY <1>1, <3>1
    <2>3. /\ m.late = g.late
          /\ m.proc = g.proc /\ m.cur = g.cur /\ m.owns = g.owns /\ m.lock = g.lock
          /\ m.flow = g.flow /\ m.stops = s2 /\ m.restart = g.restart /\ m.timer = g.timer
          /\ m.deferred = g.deferred /\ m.want = g.want /\ m.asked = g.asked
          /\ m.epoch = g.epoch /\ m.ws = 0
      BY DEF Managers
    <2> HIDE DEF m
    <2>4. Method(m, h) /\ h.asked = m.asked
      BY <2>1, <2>2, StopEndsParts
    <2>5. ASSUME Kept(g), Stale(g),
                 who = "restart" => g.restart /\ ~(g.lock /\ g.flow.by = "restart")
          PROVE  Kept(h) /\ Ends(h)
      <3>1. ~g.owns
        BY <1>5, <2>5 DEF Kept, Holds, Gateways
      <3>2. Kept(m)
        BY <1>3, <2>3, <2>5, <3>1 DEF Kept, Holds, Starts, Restarts, Off, Alive, Callers
      <3>3. m.flow.pc # "terminate"
        BY <2>3, <2>5, <3>1 DEF Stale
      <3>4. ~m.owns /\ (who = "restart" => m.restart /\ ~(m.lock /\ m.flow.by = "restart"))
        BY <2>3, <2>5, <3>1
      <3> QED BY <2>1, <2>2, <3>2, <3>3, <3>4, StopEndsParts
    <2> QED BY <2>3, <2>4, <2>5 DEF Method, Locked, h
  <1> QED BY <1>4, <1>5

\* stop(): from here on a Gateway is wanted only by calls that come later.
LEMMA StopCallKeeps ==
  ASSUME NEW g \in Managers, NEW who \in Callers
  PROVE  LET h == StopCall(g, who) IN
         /\ Method(g, h) /\ h.asked = g.asked
         /\ (/\ Holds(g) /\ Starts(g) /\ Restarts(g) /\ Stale(g)
             /\ g.asked = "no" => ~g.restart
             /\ who = "user" \/ g.asked # "no"
             /\ who = "restart" => g.restart /\ ~(g.lock /\ g.flow.by = "restart"))
            => Kept(h) /\ Ends(h)
  <1> DEFINE h == StopCall(g, who)
             b == g.owed /\ who # "user"
             call(e, o) == [CancelDeadline(g) EXCEPT
                             !.epoch = e, !.want = FALSE, !.timer = 0,
                             !.debounce = FALSE, !.owed = o]
             called == call(g.epoch + 1, b)
             ss == [called.stops EXCEPT ![who] = [called.stops[who] EXCEPT !.pc = "asking"]]
             ask(s) == [called EXCEPT !.stops = s]
  <1> DEFINE asking == ask(ss)
  <1>0. g.epoch \in Nat /\ b \in BOOLEAN /\ g.ws \in Slots
    BY DEF Managers
  <1>1. CancelDeadline(g) \in Managers /\ Same(g, CancelDeadline(g)) /\ CancelDeadline(g).late = g.late
    BY CancelKeeps DEF Method, Locked
  <1>2. h = IF ~g.owns /\ g.ws # 0 THEN asking ELSE StopGoes(called, who)
    <2>1. CancelDeadline(g).epoch = g.epoch /\ CancelDeadline(g).owed = g.owed
      BY DEF CancelDeadline, Managers
    <2> QED BY <2>1 DEF StopCall
  <1>3. called \in Managers
    <2>1. ASSUME NEW e \in Nat, NEW o \in BOOLEAN
          PROVE  call(e, o) \in Managers
      BY <1>1, <2>1 DEF Managers
    <2>2. g.epoch + 1 \in Nat
      BY <1>0
    <2> HIDE DEF call, b
    <2> QED BY <1>0, <2>1, <2>2
  <1> HIDE DEF b
  <1>4. /\ called.late = g.late
        /\ called.proc = g.proc /\ called.cur = g.cur /\ called.owns = g.owns
        /\ called.lock = g.lock /\ called.flow = g.flow /\ called.stops = g.stops
        /\ called.restart = g.restart /\ called.timer = 0 /\ called.deferred = g.deferred
        /\ called.want = FALSE /\ called.asked = g.asked /\ called.epoch = g.epoch + 1
        /\ called.ws = g.ws
    BY <1>1 DEF Same, Managers
  <1> HIDE DEF called, h
  <1>5. called.stops \in [Callers -> Stops] /\ g.flow.epoch \in Nat
    BY <1>3, <1>4 DEF Managers, Flows
  <1>6. ASSUME Holds(g), Starts(g), Restarts(g), Stale(g), g.asked = "no" => ~g.restart
        PROVE  Kept(called) /\ Stale(called)
    BY <1>0, <1>4, <1>5, <1>6 DEF Kept, Holds, Starts, Restarts, Off, Stale, Alive
  <1>7. CASE ~g.owns /\ g.ws # 0
    <2>1. h = asking
      BY <1>2, <1>7
    <2>2. called.stops[who] \in Stops
      BY <1>5
    <2>3. ss \in [Callers -> Stops] /\ ss[who].pc = "asking"
          /\ \A w \in Callers : w # who => ss[w] = called.stops[w]
      <3>1. [called.stops[who] EXCEPT !.pc = "asking"] \in Stops
            /\ [called.stops[who] EXCEPT !.pc = "asking"].pc = "asking"
        BY <2>2 DEF Stops
      <3> HIDE DEF asking
      <3> QED BY <1>5, <3>1
    <2> HIDE DEF ss
    <2>4. asking \in Managers
      <3>1. ASSUME NEW s \in [Callers -> Stops]
            PROVE  ask(s) \in Managers
        BY <1>3, <3>1 DEF Managers
      <3> HIDE DEF ask
      <3> QED BY <2>3, <3>1
    <2>5. /\ asking.late = called.late
          /\ asking.proc = called.proc /\ asking.cur = called.cur /\ asking.owns = called.owns
          /\ asking.lock = called.lock /\ asking.flow = called.flow /\ asking.stops = ss
          /\ asking.restart = called.restart /\ asking.timer = called.timer
          /\ asking.deferred = called.deferred /\ asking.want = called.want
          /\ asking.asked = called.asked /\ asking.epoch = called.epoch /\ asking.ws = called.ws
      BY <1>3 DEF Managers
    <2> HIDE DEF asking
    <2>6. ASSUME Kept(called), Stale(called),
                 who = "restart" => g.restart /\ ~(g.lock /\ g.flow.by = "restart")
          PROVE  Kept(asking) /\ Ends(asking)
      BY <1>4, <1>7, <2>3, <2>5, <2>6
      DEF Kept, Holds, Starts, Restarts, Off, Ends, Stale, Alive, Callers
    <2> QED BY <1>4, <1>6, <2>1, <2>4, <2>5, <2>6 DEF Method, Locked, h
  <1>8. CASE ~(~g.owns /\ g.ws # 0)
    <2>1. h = StopGoes(called, who)
      BY <1>2, <1>8
    <2>2. Method(called, h) /\ h.asked = called.asked
      BY <1>3, <2>1, StopGoesKeeps
    <2>3. ASSUME Kept(called), Stale(called), who = "user" \/ g.asked # "no",
                 who = "restart" => g.restart /\ ~(g.lock /\ g.flow.by = "restart")
          PROVE  Kept(h) /\ Ends(h)
      BY <1>3, <1>4, <2>1, <2>3, StopGoesKeeps
    <2> QED BY <1>4, <1>6, <2>2, <2>3 DEF Method, Locked, h
  <1> QED BY <1>7, <1>8
\* While a start or a restart is under way, the others change nothing of it.
Nearly(g, h) ==
  /\ h.proc = g.proc /\ h.cur = g.cur /\ h.owns = g.owns /\ h.lock = g.lock
  /\ h.flow = g.flow /\ h.stops = g.stops /\ h.restart = g.restart
  /\ h.want = g.want /\ h.asked = g.asked /\ h.epoch = g.epoch /\ h.ws = g.ws

\* restart() is deferred, joins the restart in flight or stops what there is.
LEMMA RestartCallKeeps ==
  ASSUME NEW g \in Managers
  PROVE  LET h == RestartCall(g) IN
         /\ Method(g, h) /\ h.asked = g.asked
         /\ g.lock \/ g.restart => Nearly(g, h) /\ h.timer = g.timer
         /\ Kept(g) /\ g.asked # "no" => Kept(h) /\ (Ends(g) => Ends(h))
  <1> DEFINE h == RestartCall(g)
             called == CancelDeadline(g)
             d == IF g.deferred = "none" THEN "asked" ELSE g.deferred
             put(x) == [called EXCEPT !.deferred = x, !.owed = TRUE]
             later == put(d)
             acts == [called EXCEPT !.restart = TRUE]
  <1>1. called \in Managers /\ Same(g, called) /\ called.late = g.late
    BY CancelKeeps DEF Method, Locked
  <1>2. h = IF Defers(g) THEN later
            ELSE IF g.restart \/ g.cool THEN called ELSE StopCall(acts, "restart")
    BY <1>1 DEF RestartCall, Same
  <1>3. d \in {"none", "asked", "done"}
    BY DEF Managers
  <1> HIDE DEF called, d, h
  <1>4. later \in Managers
    BY <1>1, <1>3 DEF Managers
  <1>5. /\ later.late = g.late /\ Nearly(g, later) /\ later.timer = g.timer
    BY <1>1 DEF Managers, Same, Nearly
  <1>6. acts \in Managers
    BY <1>1 DEF Managers
  <1>7. /\ acts.late = g.late /\ acts.restart = TRUE
        /\ acts.proc = g.proc /\ acts.cur = g.cur /\ acts.owns = g.owns /\ acts.lock = g.lock
        /\ acts.flow = g.flow /\ acts.stops = g.stops /\ acts.timer = g.timer
        /\ acts.deferred = g.deferred /\ acts.want = g.want /\ acts.asked = g.asked
        /\ acts.epoch = g.epoch /\ acts.ws = g.ws
    BY <1>1 DEF Managers, Same
  <1> HIDE DEF later, acts
  <1>8. CASE Defers(g)
    <2>1. h = later
      BY <1>2, <1>8
    <2>2. ASSUME Kept(g), g.asked # "no"
          PROVE  Kept(h) /\ (Ends(g) => Ends(h))
      BY <1>5, <2>1, <2>2 DEF Nearly, Kept, Holds, Starts, Restarts, Off, Ends, Alive
    <2> QED BY <1>4, <1>5, <2>1, <2>2 DEF Method, Locked, Nearly, h
  <1>9. CASE ~Defers(g) /\ (g.restart \/ g.cool)
    <2>1. h = called
      BY <1>2, <1>9
    <2> QED BY <1>1, <2>1, SameKeeps DEF Method, Locked, Nearly, Same, h
  <1>10. CASE ~Defers(g) /\ ~g.restart /\ ~g.cool
    <2>1. h = StopCall(acts, "restart") /\ ~g.lock
      BY <1>2, <1>10 DEF Defers
    <2>2. Method(acts, h) /\ h.asked = acts.asked
      BY <1>6, <2>1, StopCallKeeps DEF Callers
    <2>3. ASSUME Kept(g), g.asked # "no"
          PROVE  Kept(h) /\ Ends(h)
      <3>1. Holds(acts) /\ Starts(acts) /\ Restarts(acts) /\ Stale(acts)
        BY <1>7, <2>1, <2>3 DEF Kept, Holds, Starts, Restarts, Stale, Alive
      <3>2. acts.asked # "no" /\ acts.restart /\ ~(acts.lock /\ acts.flow.by = "restart")
        BY <1>7, <2>1, <2>3
      <3> QED BY <1>6, <2>1, <3>1, <3>2, StopCallKeeps DEF Callers
    <2> QED BY <1>7, <1>10, <2>1, <2>2, <2>3 DEF Method, Locked, h
  <1> QED BY <1>8, <1>9, <1>10

\* A deferred restart is executed or dropped.
LEMMA FlushKeeps ==
  ASSUME NEW g \in Managers
  PROVE  LET h == Flush(g) IN
         /\ Method(g, h) /\ h.asked = g.asked
         /\ g.lock => h = g
         /\ ~g.want => h.want = FALSE
         /\ g.restart => Nearly(g, h)
         /\ Kept(g) => Kept(h) /\ (Ends(g) => Ends(h))
  <1> DEFINE h == Flush(g)
             none == [g EXCEPT !.deferred = "none"]
  <1>1. none \in Managers
    BY DEF Managers
  <1>2. none.late = g.late /\ Nearly(g, none) /\ none.timer = g.timer /\ none.deferred = "none"
    BY DEF Managers, Nearly
  <1>3. h = IF g.deferred = "none" \/ Defers(g) THEN g
            ELSE IF ~g.want \/ g.deferred = "done" THEN none ELSE RestartCall(none)
    BY DEF Flush
  <1>4. Kept(g) => Kept(none) /\ (Ends(g) => Ends(none))
    BY <1>2 DEF Nearly, Kept, Holds, Starts, Restarts, Off, Ends, Alive
  <1> HIDE DEF none, h
  <1>5. CASE h = g
    BY <1>5 DEF Method, Locked, Nearly, h
  <1>6. CASE h = none /\ ~g.lock
    BY <1>1, <1>2, <1>4, <1>6 DEF Method, Locked, Nearly, h
  <1>7. CASE h = RestartCall(none) /\ ~g.lock /\ g.want /\ g.deferred # "none"
    <2>1. Method(none, h) /\ h.asked = none.asked /\ (none.restart => Nearly(none, h))
      BY <1>1, <1>7, RestartCallKeeps
    <2>2. ASSUME Kept(g)
          PROVE  Kept(h) /\ (Ends(g) => Ends(h))
      <3>1. none.asked # "no"
        BY <1>2, <1>7, <2>2 DEF Kept, Off, Nearly
      <3> QED BY <1>1, <1>4, <1>7, <2>2, <3>1, RestartCallKeeps
    <2> QED BY <1>2, <1>7, <2>1, <2>2 DEF Method, Locked, Nearly, h
  <1>8. \/ h = g
        \/ h = none /\ ~g.lock
        \/ h = RestartCall(none) /\ ~g.lock /\ g.want /\ g.deferred # "none"
    BY <1>3 DEF Defers
  <1> QED BY <1>5, <1>6, <1>7, <1>8

LEMMA SetStateKeeps ==
  ASSUME NEW g \in Managers,
         NEW state \in {"stopped", "starting", "running", "error", "reconnecting"}
  PROVE  LET h == SetState(g, state) IN
         /\ Method(g, h) /\ h.asked = g.asked
         /\ g.lock => Same(g, h)
         /\ ~g.want => h.want = FALSE
         /\ g.restart => Nearly(g, h)
         /\ Kept(g) => Kept(h) /\ (Ends(g) => Ends(h))
  <1> DEFINE h == SetState(g, state)
             shown == [g EXCEPT !.state = state]
  <1>1. shown \in Managers
    BY DEF Managers
  <1>2. shown.late = g.late /\ Same(g, shown)
    BY DEF Managers, Same
  <1>3. h = g \/ h = Flush(shown)
    BY DEF SetState
  <1> HIDE DEF shown, h
  <1>4. CASE h = g
    BY <1>4 DEF Method, Locked, Nearly, Same, h
  <1>5. CASE h = Flush(shown)
    <2>1. /\ Method(shown, h) /\ h.asked = shown.asked
          /\ shown.lock => h = shown
          /\ ~shown.want => h.want = FALSE
          /\ shown.restart => Nearly(shown, h)
          /\ Kept(shown) => Kept(h) /\ (Ends(shown) => Ends(h))
      BY <1>1, <1>5, FlushKeeps
    <2>2. (Kept(g) => Kept(shown)) /\ (Ends(g) => Ends(shown))
      BY <1>1, <1>2, SameKeeps
    <2> QED BY <1>2, <2>1, <2>2 DEF Method, Locked, Nearly, Same, h
  <1> QED BY <1>3, <1>4, <1>5

LEMMA ScheduleReconnectKeeps ==
  ASSUME NEW g \in Managers
  PROVE  LET h == ScheduleReconnect(g) IN
         /\ Method(g, h) /\ h.asked = g.asked
         /\ ~g.want => h = g
         /\ g.lock \/ g.restart => Nearly(g, h)
         /\ Kept(g) /\ (g.asked = "no" => ~g.want) => Kept(h) /\ (Ends(g) => Ends(h))
  <1> DEFINE h == ScheduleReconnect(g)
             put(n, e) == [g EXCEPT !.attempts = n, !.state = "reconnecting", !.timer = e]
             timed == put(g.attempts + 1, g.epoch)
  <1>1. \/ h = g
        \/ h = SetState(g, "error") /\ g.want
        \/ h = timed /\ g.want
    BY DEF ScheduleReconnect
  <1>2. g.attempts \in Nat /\ g.epoch \in Nat
    BY DEF Managers
  <1>3. timed \in Managers
    <2>1. ASSUME NEW n \in Nat, NEW e \in Nat
          PROVE  put(n, e) \in Managers
      BY <2>1 DEF Managers
    <2>2. g.attempts + 1 \in Nat
      BY <1>2
    <2> HIDE DEF put
    <2> QED BY <1>2, <2>1, <2>2
  <1>4. timed.late = g.late /\ Nearly(g, timed)
    BY DEF Managers, Nearly
  <1> HIDE DEF timed, h
  <1>5. CASE h = g
    BY <1>5 DEF Method, Locked, Nearly, h
  <1>6. CASE h = SetState(g, "error") /\ g.want
    <2>1. /\ Method(g, h) /\ h.asked = g.asked
          /\ g.lock => Same(g, h)
          /\ g.restart => Nearly(g, h)
          /\ Kept(g) => Kept(h) /\ (Ends(g) => Ends(h))
      BY <1>6, SetStateKeeps
    <2> QED BY <1>6, <2>1 DEF Method, Locked, Nearly, Same, h
  <1>7. CASE h = timed /\ g.want
    <2>1. ASSUME Kept(g), g.asked = "no" => ~g.want
          PROVE  Kept(h) /\ (Ends(g) => Ends(h))
      BY <1>4, <1>7, <2>1 DEF Nearly, Kept, Holds, Starts, Restarts, Off, Ends, Alive
    <2> QED BY <1>3, <1>4, <1>7, <2>1 DEF Method, Locked, Nearly, h
  <1> QED BY <1>1, <1>5, <1>6, <1>7
\* What start() may meet when it returns; that it has the lock comes in addition.
Returns(g) == Holds(g) /\ Restarts(g) /\ Off(g) /\ g.lock

\* start() gives the lock back, executes what was deferred, and its caller goes on.
LEMMA StartReturnsKeeps ==
  ASSUME NEW g \in Managers, NEW threw \in BOOLEAN
  PROVE  LET h == StartReturns(g, threw) IN
         /\ Method(g, h)
         /\ Returns(g) /\ (threw /\ g.asked = "no" => ~g.want) => Kept(h) /\ Ends(h)
  <1> DEFINE h == StartReturns(g, threw)
             put(x) == [g EXCEPT !.lock = FALSE, !.flow = x]
             free == put(NoFlow)
             over == Flush(free)
             zero == [over EXCEPT !.attempts = 0]
             want == [over EXCEPT !.want = TRUE]
             timed == ScheduleReconnect(want)
             done == [timed EXCEPT !.restart = FALSE]
  <1>1. free \in Managers
    <2>1. ASSUME NEW x \in Flows
          PROVE  put(x) \in Managers
      BY <2>1 DEF Managers
    <2>2. NoFlow \in Flows
      BY DEF NoFlow, Flows, Slots
    <2> HIDE DEF put
    <2> QED BY <2>1, <2>2
  <1>2. /\ free.late = g.late
        /\ free.proc = g.proc /\ free.cur = g.cur /\ free.owns = g.owns /\ free.lock = FALSE
        /\ free.flow = NoFlow /\ free.stops = g.stops /\ free.restart = g.restart
        /\ free.timer = g.timer /\ free.deferred = g.deferred /\ free.want = g.want
        /\ free.asked = g.asked /\ free.epoch = g.epoch /\ free.ws = g.ws
    BY DEF Managers
  <1>3. g.flow.by \in {"user", "restart", "auto"}
    BY DEF Managers, Flows
  <1>4. \/ g.flow.by = "user" /\ h = over
        \/ g.flow.by = "auto" /\ threw /\ h = ScheduleReconnect(over)
        \/ g.flow.by = "auto" /\ ~threw /\ h = zero
        \/ g.flow.by = "restart" /\ threw /\ h = Flush(done)
        \/ g.flow.by = "restart" /\ ~threw /\ h = RestartReturns(over)
    BY <1>3 DEF StartReturns
  <1> HIDE DEF free
  <1>5. /\ Method(free, over) /\ over.asked = free.asked
        /\ ~free.want => over.want = FALSE
        /\ free.restart => Nearly(free, over)
        /\ Kept(free) => Kept(over) /\ (Ends(free) => Ends(over))
    BY <1>1, FlushKeeps
  <1> HIDE DEF over, h
  <1>6. over \in Managers /\ over.late = g.late
    BY <1>2, <1>5 DEF Method, Locked
  <1>7. zero \in Managers /\ zero.late = over.late /\ Same(over, zero)
    BY <1>6 DEF Managers, Same
  <1>8. /\ want \in Managers /\ want.late = over.late /\ want.want = TRUE
        /\ want.proc = over.proc /\ want.cur = over.cur /\ want.owns = over.owns
        /\ want.lock = over.lock /\ want.flow = over.flow /\ want.stops = over.stops
        /\ want.restart = over.restart /\ want.timer = over.timer
        /\ want.deferred = over.deferred /\ want.asked = over.asked
        /\ want.epoch = over.epoch /\ want.ws = over.ws
    BY <1>6 DEF Managers
  <1> HIDE DEF zero, want
  <1>9. /\ Method(want, timed)
        /\ want.restart => Nearly(want, timed)
        /\ Kept(want) /\ (want.asked = "no" => ~want.want)
             => Kept(timed) /\ (Ends(want) => Ends(timed))
    BY <1>8, ScheduleReconnectKeeps
  <1> HIDE DEF timed
  <1>10. timed \in Managers /\ timed.late = g.late
    BY <1>6, <1>8, <1>9 DEF Method, Locked
  <1>11. /\ done \in Managers /\ done.late = timed.late /\ done.restart = FALSE
         /\ done.proc = timed.proc /\ done.cur = timed.cur /\ done.owns = timed.owns
         /\ done.lock = timed.lock /\ done.flow = timed.flow /\ done.stops = timed.stops
         /\ done.timer = timed.timer /\ done.deferred = timed.deferred
         /\ done.want = timed.want /\ done.asked = timed.asked
         /\ done.epoch = timed.epoch /\ done.ws = timed.ws
    BY <1>10 DEF Managers
  <1> HIDE DEF done
  <1>12. h \in Managers /\ h.late = g.late /\ Locked(h) /\ (h.owns => g.owns)
    <2>1. Method(over, ScheduleReconnect(over)) /\ Method(over, RestartReturns(over))
      BY <1>6, ScheduleReconnectKeeps, RestartReturnsParts
    <2>2. Method(done, Flush(done))
      BY <1>11, FlushKeeps
    <2>3. Locked(over)
      BY <1>2, <1>5 DEF Method, Locked, NoFlow
    <2>4. Locked(zero) /\ Locked(done)
      BY <2>3, <1>7, <1>8, <1>9, <1>11 DEF Method, Locked, Same
    <2>5. (over.owns => g.owns) /\ (zero.owns => g.owns) /\ (done.owns => g.owns)
      BY <1>2, <1>5, <1>7, <1>8, <1>9, <1>11 DEF Method, Same
    <2> QED BY <1>4, <1>6, <1>7, <1>10, <1>11, <2>1, <2>2, <2>3, <2>4, <2>5 DEF Method
  <1>13. ASSUME Returns(g), threw /\ g.asked = "no" => ~g.want
         PROVE  Kept(h) /\ Ends(h)
    <2>1. Kept(free) /\ Ends(free)
      <3>1. NoFlow.pc = "idle" /\ NoFlow.epoch = 0
        BY DEF NoFlow
      <3>2. g.epoch \in Nat
        BY DEF Managers
      <3> QED BY <1>2, <1>13, <3>1, <3>2
              DEF Returns, Kept, Holds, Starts, Restarts, Off, Ends, Alive
    <2>2. Kept(over) /\ Ends(over)
      BY <1>5, <2>1
    <2>3. CASE g.flow.by = "user" /\ h = over
      BY <2>2, <2>3
    <2>4. CASE g.flow.by = "auto" /\ threw /\ h = ScheduleReconnect(over)
      <3>1. over.asked = "no" => ~over.want
        BY <1>2, <1>5, <1>13, <2>4
      <3> QED BY <1>6, <2>2, <2>4, <3>1, ScheduleReconnectKeeps
    <2>5. CASE g.flow.by = "auto" /\ ~threw /\ h = zero
      BY <1>6, <1>7, <2>2, <2>5, SameKeeps
    <2>6. ASSUME g.flow.by = "restart"
          PROVE  /\ over.restart /\ over.asked # "no" /\ over.stops["restart"].pc = "idle"
                 /\ over.lock = FALSE
      <3>1. g.restart /\ g.stops["restart"].pc = "idle"
        BY <1>13, <2>6 DEF Returns, Restarts
      <3>2. g.asked # "no"
        BY <1>13, <3>1 DEF Returns, Off
      <3> QED BY <1>2, <1>5, <3>1, <3>2 DEF Nearly
    <2>7. CASE g.flow.by = "restart" /\ threw /\ h = Flush(done)
      <3>1. Kept(want) /\ Ends(want) /\ want.asked # "no"
        BY <1>8, <2>2, <2>6, <2>7 DEF Kept, Holds, Starts, Restarts, Off, Ends, Alive
      <3>2. Kept(timed) /\ Ends(timed) /\ Nearly(want, timed)
        BY <1>8, <1>9, <2>6, <2>7, <3>1
      <3>3. timed.asked # "no" /\ timed.stops["restart"].pc = "idle" /\ timed.lock = FALSE
        BY <1>8, <2>6, <2>7, <3>2 DEF Nearly
      <3>4. Kept(done) /\ Ends(done)
        BY <1>11, <3>2, <3>3 DEF Kept, Holds, Starts, Restarts, Off, Ends, Alive
      <3> QED BY <1>11, <2>7, <3>4, FlushKeeps
    <2>8. CASE g.flow.by = "restart" /\ ~threw /\ h = RestartReturns(over)
      BY <1>6, <2>2, <2>6, <2>8, RestartReturnsKeeps
    <2> QED BY <1>4, <2>3, <2>4, <2>5, <2>7, <2>8
  <1> QED BY <1>12, <1>13 DEF Method, h

\* A start that has been superseded returns; one that has not is wanted.
LEMMA AssertedKeeps ==
  ASSUME NEW g \in Managers, NEW next, Method(g, next)
  PROVE  LET h == Asserted(g, next) IN
         /\ Method(g, h)
         /\ (/\ Returns(g)
             /\ g.asked # "no" => Kept(next) /\ Ends(next))
            => Kept(h) /\ Ends(h)
  <1> DEFINE h == Asserted(g, next)
  <1>1. Method(g, StartReturns(g, FALSE))
        /\ (Returns(g) => Kept(StartReturns(g, FALSE)) /\ Ends(StartReturns(g, FALSE)))
    BY StartReturnsKeeps
  <1>2. IF g.flow.epoch # g.epoch THEN h = StartReturns(g, FALSE) ELSE h = next
    BY DEF Asserted
  <1>3. Returns(g) /\ g.flow.epoch = g.epoch => g.asked # "no"
    BY DEF Returns, Off
  <1> HIDE DEF h
  <1>4. CASE g.flow.epoch # g.epoch
    BY <1>1, <1>2, <1>4 DEF Method, Locked, h
  <1>5. CASE g.flow.epoch = g.epoch
    BY <1>2, <1>3, <1>5 DEF Method, Locked, h
  <1> QED BY <1>4, <1>5
LEMMA LockedState ==
  ASSUME NEW g \in Managers, g.lock,
         NEW state \in {"stopped", "starting", "running", "error", "reconnecting"}
  PROVE  SetState(g, state) \in Managers /\ SetState(g, state).late = g.late
         /\ Same(g, SetState(g, state))
  BY SetStateKeeps DEF Method, Locked

\* The start fails for good.
LEMMA StartFailsKeeps ==
  ASSUME NEW g \in Managers, NEW fatal \in BOOLEAN, g.lock
  PROVE  LET h == StartFails(g, fatal) IN
         /\ Method(g, h)
         /\ Kept(g) /\ (g.asked = "no" => ~g.want) => Kept(h) /\ Ends(h)
  <1> DEFINE h == StartFails(g, fatal)
             failed == SetState(g, "error")
             off == [failed EXCEPT !.want = FALSE]
             timed == ScheduleReconnect(failed)
             m == IF fatal THEN off ELSE timed
  <1>1. failed \in Managers /\ failed.late = g.late /\ Same(g, failed)
    BY LockedState
  <1>2. h = StartReturns(m, TRUE)
    BY DEF StartFails
  <1> HIDE DEF failed, h
  <1>3. Kept(g) => Kept(failed)
    BY <1>1, SameKeeps
  <1>4. /\ off \in Managers /\ off.late = failed.late /\ off.want = FALSE
        /\ off.proc = failed.proc /\ off.cur = failed.cur /\ off.owns = failed.owns
        /\ off.lock = failed.lock /\ off.flow = failed.flow /\ off.stops = failed.stops
        /\ off.restart = failed.restart /\ off.timer = failed.timer
        /\ off.deferred = failed.deferred /\ off.asked = failed.asked
        /\ off.epoch = failed.epoch /\ off.ws = failed.ws
    BY <1>1 DEF Managers
  <1>5. /\ Method(failed, timed) /\ Nearly(failed, timed)
        /\ Kept(failed) /\ (failed.asked = "no" => ~failed.want) => Kept(timed)
    BY <1>1, ScheduleReconnectKeeps DEF Same
  <1> HIDE DEF off, timed
  <1>6. m \in Managers /\ m.late = g.late /\ (Locked(g) => Locked(m)) /\ (m.owns => g.owns)
    BY <1>1, <1>4, <1>5 DEF Method, Locked, Same
  <1>7. ASSUME Kept(g), g.asked = "no" => ~g.want
        PROVE  Returns(m) /\ (m.asked = "no" => ~m.want)
    <2>1. CASE fatal
      BY <1>1, <1>3, <1>4, <1>7, <2>1 DEF Kept, Returns, Holds, Restarts, Off, Alive, Same
    <2>2. CASE ~fatal
      BY <1>1, <1>3, <1>5, <1>7, <2>2 DEF Kept, Returns, Nearly, Same
    <2> QED BY <2>1, <2>2
  <1> HIDE DEF m
  <1>8. /\ Method(m, h)
        /\ Returns(m) /\ (m.asked = "no" => ~m.want) => Kept(h) /\ Ends(h)
    BY <1>2, <1>6, StartReturnsKeeps
  <1> QED BY <1>6, <1>7, <1>8 DEF Method, Locked, h

\* An attempt fails: repair, another attempt or failure for good.  Only when
\* another attempt follows may shouldReconnect be set behind a stop.
LEMMA SequenceFailsKeeps ==
  ASSUME NEW g \in Managers, NEW kind \in {"transient", "config", "fatal", "other"}, g.lock
  PROVE  LET h == SequenceFails(g, kind) IN
         /\ Method(g, h)
         /\ (/\ Holds(g) /\ Starts(g) /\ Restarts(g)
             /\ g.asked = "no" =>
                  /\ g.timer = 0 /\ ~g.restart /\ g.flow.epoch # g.epoch
                  /\ g.want => /\ kind = "transient" /\ g.flow.tries < MaxStartAttempts
                               /\ g.deferred = "none" /\ ~g.owns /\ g.ws = 0)
            => Kept(h) /\ Ends(h)
  <1> DEFINE h == SequenceFails(g, kind)
             f1 == [g.flow EXCEPT !.pc = "doctor", !.repaired = TRUE]
             f2 == [g.flow EXCEPT !.pc = "delay"]
             put(x) == [g EXCEPT !.flow = x]
             m1 == put(f1)
             m2 == put(f2)
             fatal == kind \in {"config", "fatal"}
  <1>1. g.flow \in Flows
    BY DEF Managers
  <1>2. /\ f1 \in Flows /\ f1.pc = "doctor" /\ f1.epoch = g.flow.epoch /\ f1.by = g.flow.by
        /\ f2 \in Flows /\ f2.pc = "delay" /\ f2.epoch = g.flow.epoch /\ f2.by = g.flow.by
    BY <1>1 DEF Flows
  <1>3. \/ h = m1 /\ kind = "config"
        \/ h = m2
        \/ h = StartFails(g, fatal) /\ ~(kind = "transient" /\ g.flow.tries < MaxStartAttempts)
    BY DEF SequenceFails
  <1> HIDE DEF f1, f2, h, fatal
  <1>4. ASSUME NEW x \in Flows
        PROVE  put(x) \in Managers
    BY <1>4 DEF Managers
  <1>5. ASSUME NEW x \in Flows
        PROVE  LET m == put(x) IN
               /\ m.late = g.late /\ m.flow = x
               /\ m.proc = g.proc /\ m.cur = g.cur /\ m.owns = g.owns /\ m.lock = g.lock
               /\ m.stops = g.stops /\ m.restart = g.restart /\ m.timer = g.timer
               /\ m.deferred = g.deferred /\ m.want = g.want /\ m.asked = g.asked
               /\ m.epoch = g.epoch /\ m.ws = g.ws
    BY DEF Managers
  <1> DEFINE P == /\ Holds(g) /\ Starts(g) /\ Restarts(g)
                  /\ g.asked = "no" =>
                       /\ g.timer = 0 /\ ~g.restart /\ g.flow.epoch # g.epoch
                       /\ g.want => /\ kind = "transient" /\ g.flow.tries < MaxStartAttempts
                                    /\ g.deferred = "none" /\ ~g.owns /\ g.ws = 0
  <1> HIDE DEF put
  <1>6. CASE h = m1 /\ kind = "config"
    <2>1. h \in Managers /\ h.late = g.late
      BY <1>2, <1>4, <1>5, <1>6
    <2>2. /\ h.flow = f1
          /\ h.proc = g.proc /\ h.cur = g.cur /\ h.owns = g.owns /\ h.lock = g.lock
          /\ h.stops = g.stops /\ h.restart = g.restart /\ h.timer = g.timer
          /\ h.deferred = g.deferred /\ h.want = g.want /\ h.asked = g.asked
          /\ h.epoch = g.epoch /\ h.ws = g.ws
      BY <1>2, <1>5, <1>6
    <2>3. P => Kept(h) /\ Ends(h)
      BY <1>2, <1>6, <2>2 DEF Kept, Holds, Starts, Restarts, Off, Ends, Alive
    <2> QED BY <1>2, <2>1, <2>2, <2>3 DEF Method, Locked, h
  <1>7. CASE h = m2
    <2>1. h \in Managers /\ h.late = g.late
      BY <1>2, <1>4, <1>5, <1>7
    <2>2. /\ h.flow = f2
          /\ h.proc = g.proc /\ h.cur = g.cur /\ h.owns = g.owns /\ h.lock = g.lock
          /\ h.stops = g.stops /\ h.restart = g.restart /\ h.timer = g.timer
          /\ h.deferred = g.deferred /\ h.want = g.want /\ h.asked = g.asked
          /\ h.epoch = g.epoch /\ h.ws = g.ws
      BY <1>2, <1>5, <1>7
    <2>3. P => Kept(h) /\ Ends(h)
      BY <1>2, <1>7, <2>2 DEF Kept, Holds, Starts, Restarts, Off, Ends, Alive
    <2> QED BY <1>2, <2>1, <2>2, <2>3 DEF Method, Locked, h
  <1>8. CASE h = StartFails(g, fatal) /\ ~(kind = "transient" /\ g.flow.tries < MaxStartAttempts)
    <2>1. fatal \in BOOLEAN
      BY DEF fatal
    <2>2. /\ Method(g, h)
          /\ Kept(g) /\ (g.asked = "no" => ~g.want) => Kept(h) /\ Ends(h)
      BY <1>8, <2>1, StartFailsKeeps
    <2>3. P => Kept(g) /\ (g.asked = "no" => ~g.want)
      BY <1>8 DEF Kept, Off
    <2> QED BY <2>2, <2>3 DEF h
  <1> QED BY <1>3, <1>6, <1>7, <1>8

\* The stale process has ended.
LEMMA TerminatedKeeps ==
  ASSUME NEW g \in Managers, g.lock
  PROVE  LET h == Terminated(g) IN
         /\ Method(g, h)
         /\ (/\ Kept(g) /\ ~g.owns
             /\ g.asked = "no" /\ g.flow.kept => g.deferred = "none" /\ g.ws = 0)
            => Kept(h) /\ Ends(h)
  <1> DEFINE h == Terminated(g)
             c == IF g.cur = g.flow.child THEN 0 ELSE g.cur
             a == IF Undoes(g) THEN "undone" ELSE g.asked
             put(x, w, y) == [g EXCEPT !.cur = x, !.owns = FALSE, !.want = w, !.asked = y]
             m == put(c, g.flow.kept, a)
  <1>1. /\ c \in Slots /\ a \in {"no", "yes", "lost", "undone"} /\ g.flow.kept \in BOOLEAN
        /\ g.flow.tries \in Nat /\ g.flow.epoch \in Nat /\ g.epoch \in Nat
    BY DEF Managers, Flows, Slots
  <1>2. h = SequenceFails(m, "transient")
    BY DEF Terminated
  <1> HIDE DEF c, a, h
  <1>3. m \in Managers
    <2>1. ASSUME NEW x \in Slots, NEW w \in BOOLEAN, NEW y \in {"no", "yes", "lost", "undone"}
          PROVE  put(x, w, y) \in Managers
      BY <2>1 DEF Managers
    <2> HIDE DEF put
    <2> QED BY <1>1, <2>1
  <1>4. /\ m.late = g.late
        /\ m.proc = g.proc /\ m.cur = c /\ m.owns = FALSE /\ m.lock = g.lock
        /\ m.flow = g.flow /\ m.stops = g.stops /\ m.restart = g.restart
        /\ m.timer = g.timer /\ m.deferred = g.deferred /\ m.want = g.flow.kept
        /\ m.asked = a /\ m.epoch = g.epoch /\ m.ws = g.ws
    BY DEF Managers
  <1> HIDE DEF m
  <1> DEFINE P == /\ Holds(m) /\ Starts(m) /\ Restarts(m)
                  /\ m.asked = "no" =>
                       /\ m.timer = 0 /\ ~m.restart /\ m.flow.epoch # m.epoch
                       /\ m.want => /\ m.flow.tries < MaxStartAttempts
                                    /\ m.deferred = "none" /\ ~m.owns /\ m.ws = 0
  <1>5. Method(m, h) /\ (P => Kept(h) /\ Ends(h))
    BY <1>2, <1>3, <1>4, SequenceFailsKeeps
  <1>6. ASSUME Kept(g), ~g.owns,
               g.asked = "no" /\ g.flow.kept => g.deferred = "none" /\ g.ws = 0
        PROVE  P
    <2>1. Holds(m) /\ Starts(m) /\ Restarts(m)
      BY <1>4, <1>6 DEF Kept, Holds, Starts, Restarts, Alive
    <2>2. ASSUME m.asked = "no"
          PROVE  /\ m.timer = 0 /\ ~m.restart /\ m.flow.epoch # m.epoch
                 /\ m.want => /\ m.flow.tries < MaxStartAttempts
                              /\ m.deferred = "none" /\ ~m.owns /\ m.ws = 0
      <3>1. g.asked = "no" /\ ~Undoes(g)
        BY <1>4, <2>2 DEF a
      <3>2. g.timer = 0 /\ ~g.restart /\ g.flow.epoch # g.epoch
        BY <1>6, <3>1 DEF Kept, Off
      <3>3. g.flow.kept => g.flow.tries < MaxStartAttempts
        BY <1>1, <3>1, <3>2, GatewayAssumption DEF Undoes
      <3> QED BY <1>4, <1>6, <3>1, <3>2, <3>3
    <2> QED BY <2>1, <2>2
  <1> HIDE DEF P
  <1> QED BY <1>4, <1>5, <1>6 DEF Method, Locked, h

\* The next attempt begins.
LEMMA AgainKeeps ==
  ASSUME NEW g \in Managers, g.lock
  PROVE  LET h == Again(g) IN
         /\ Method(g, h)
         /\ Kept(g) => Kept(h) /\ Ends(h)
  <1> DEFINE h == Again(g)
             new(n) == [g.flow EXCEPT !.pc = "find", !.tries = n]
             f == new(g.flow.tries + 1)
             put(x) == [g EXCEPT !.flow = x]
             m == put(f)
  <1>1. g.flow \in Flows /\ g.flow.tries \in Nat
    BY DEF Managers, Flows
  <1>2. f \in Flows /\ f.pc = "find" /\ f.epoch = g.flow.epoch /\ f.by = g.flow.by
    <2>1. ASSUME NEW n \in Nat
          PROVE  new(n) \in Flows /\ new(n).pc = "find" /\ new(n).epoch = g.flow.epoch
                 /\ new(n).by = g.flow.by
      BY <1>1 DEF Flows
    <2>2. g.flow.tries + 1 \in Nat
      BY <1>1
    <2> HIDE DEF new
    <2> QED BY <2>1, <2>2
  <1>3. h = Asserted(g, m)
    BY DEF Again
  <1> HIDE DEF f, h
  <1>4. m \in Managers
    BY <1>2 DEF Managers
  <1>5. /\ m.late = g.late /\ m.flow = f
        /\ m.proc = g.proc /\ m.cur = g.cur /\ m.owns = g.owns /\ m.lock = g.lock
        /\ m.stops = g.stops /\ m.restart = g.restart /\ m.timer = g.timer
        /\ m.deferred = g.deferred /\ m.want = g.want /\ m.asked = g.asked
        /\ m.epoch = g.epoch /\ m.ws = g.ws
    BY DEF Managers
  <1> HIDE DEF m
  <1>6. ASSUME Kept(g)
        PROVE  Returns(g) /\ (g.asked # "no" => Kept(m) /\ Ends(m))
    BY <1>2, <1>5, <1>6 DEF Returns, Kept, Holds, Starts, Restarts, Off, Ends, Alive
  <1>7. Method(g, m)
    BY <1>2, <1>4, <1>5 DEF Method, Locked
  <1>8. /\ Method(g, h)
        /\ Returns(g) /\ (g.asked # "no" => Kept(m) /\ Ends(m)) => Kept(h) /\ Ends(h)
    BY <1>3, <1>7, AssertedKeeps
  <1> QED BY <1>6, <1>8 DEF h
-----------------------------------------------------------------------------
(* The steps of the start under way *)

\* What every step does to the manager.
Good(g, h) ==
  /\ h \in Managers /\ (g.late => h.late) /\ (Locked(g) => Locked(h))
  /\ Kept(g) /\ Ends(g) => h.late \/ (Kept(h) /\ Ends(h))

WithFlow(g, x) == [g EXCEPT !.flow = x]

\* A start that has not been superseded goes on to its next await.
LEMMA MovesOn ==
  ASSUME NEW g \in Managers, NEW x \in Flows, x.epoch = g.flow.epoch, x.by = g.flow.by,
         x.pc \notin {"idle", "terminate"}, g.lock
  PROVE  LET m == WithFlow(g, x) IN
         /\ Method(g, m)
         /\ (/\ Holds(g) /\ Restarts(g) /\ g.flow.epoch <= g.epoch
             /\ x.pc = "launch" => ~g.owns
             /\ g.asked # "no") => Kept(m) /\ Ends(m)
  <1> DEFINE m == WithFlow(g, x)
  <1>1. m \in Managers
    BY DEF WithFlow, Managers
  <1>2. /\ m.late = g.late /\ m.flow = x
        /\ m.proc = g.proc /\ m.cur = g.cur /\ m.owns = g.owns /\ m.lock = g.lock
        /\ m.stops = g.stops /\ m.restart = g.restart /\ m.timer = g.timer
        /\ m.deferred = g.deferred /\ m.want = g.want /\ m.asked = g.asked
        /\ m.epoch = g.epoch /\ m.ws = g.ws
    BY DEF WithFlow, Managers
  <1> HIDE DEF m
  <1>3. ASSUME Holds(g), Restarts(g), g.flow.epoch <= g.epoch, x.pc = "launch" => ~g.owns,
               g.asked # "no"
        PROVE  Kept(m) /\ Ends(m)
    BY <1>2, <1>3 DEF Kept, Holds, Starts, Restarts, Off, Ends, Alive
  <1> QED BY <1>1, <1>2, <1>3 DEF Method, Locked, m

LEMMA KillParts ==
  ASSUME NEW g \in Managers, NEW who
  PROVE  LET h == Kill(g, who) IN
         /\ h \in Managers /\ h.late = g.late
         /\ h.proc = [p \in Gateways |-> IF p \in who THEN "killed" ELSE g.proc[p]]
         /\ h.cur = g.cur /\ h.owns = g.owns /\ h.lock = g.lock
         /\ h.flow = g.flow /\ h.stops = g.stops /\ h.restart = g.restart
         /\ h.timer = g.timer /\ h.deferred = g.deferred /\ h.want = g.want
         /\ h.asked = g.asked /\ h.epoch = g.epoch /\ h.ws = g.ws
  <1> DEFINE K == [p \in Gateways |-> IF p \in who THEN "killed" ELSE g.proc[p]]
             h == [g EXCEPT !.proc = K]
  <1>1. K \in [Gateways -> {"none", "booting", "serving", "killed", "gone"}]
    BY DEF Managers
  <1> HIDE DEF K
  <1>2. h \in Managers
    BY <1>1 DEF Managers
  <1>3. /\ h.late = g.late /\ h.proc = K
        /\ h.cur = g.cur /\ h.owns = g.owns /\ h.lock = g.lock
        /\ h.flow = g.flow /\ h.stops = g.stops /\ h.restart = g.restart
        /\ h.timer = g.timer /\ h.deferred = g.deferred /\ h.want = g.want
        /\ h.asked = g.asked /\ h.epoch = g.epoch /\ h.ws = g.ws
    BY DEF Managers
  <1>4. Kill(g, who) = h
    BY DEF Kill, K
  <1> HIDE DEF h
  <1> QED BY <1>2, <1>3, <1>4 DEF K

\* A step of the flow that neither awaits an end nor comes from a delay: it holds
\* the lock, and a start that is no longer wanted finds shouldReconnect off.
LEMMA FlowIsOn ==
  ASSUME NEW g \in Managers, Locked(g), g.flow.pc # "idle"
  PROVE  /\ g.lock
         /\ Kept(g) => /\ Returns(g) /\ g.flow.epoch <= g.epoch
                       /\ g.flow.pc # "delay" => (g.asked = "no" => ~g.want)
  BY DEF Locked, Kept, Returns, Starts, Off

LEMMA IdentityLoadsKeeps ==
  ASSUME gw \in Managers, Locked(gw), IdentityLoads
  PROVE  Good(gw, gw')
  <1> DEFINE u == StartsUp(gw)
  <1>1. /\ u \in Managers /\ u.late = gw.late
        /\ u.proc = gw.proc /\ u.cur = gw.cur /\ u.owns = gw.owns /\ u.lock = gw.lock
        /\ u.stops = gw.stops /\ u.restart = gw.restart /\ u.timer = 0
        /\ u.deferred = gw.deferred /\ u.want = gw.want /\ u.asked = gw.asked
        /\ u.epoch = gw.epoch /\ u.ws = gw.ws
        /\ u.flow.pc = "find" /\ u.flow.epoch = gw.flow.epoch /\ u.flow.by = gw.flow.by
    BY StartsUpParts
  <1>2. gw' = Asserted(u, u) /\ gw.flow.pc = "identity"
    BY DEF IdentityLoads, At
  <1> HIDE DEF u
  <1>3. gw.lock
    BY <1>2, FlowIsOn
  <1>4. Method(u, u)
    BY <1>1 DEF Method
  <1>5. Method(u, gw') /\ (Returns(u) /\ (u.asked # "no" => Kept(u) /\ Ends(u)) => Kept(gw') /\ Ends(gw'))
    BY <1>1, <1>2, <1>4, AssertedKeeps
  <1>6. ASSUME Kept(gw)
        PROVE  Returns(u) /\ Kept(u) /\ Ends(u)
    BY <1>1, <1>2, <1>3, <1>6 DEF Returns, Kept, Holds, Starts, Restarts, Off, Ends, Alive
  <1>7. Locked(u)
    BY <1>1, <1>3 DEF Locked
  <1> QED BY <1>1, <1>5, <1>6, <1>7 DEF Good, Method

LEMMA FindKeeps ==
  ASSUME gw \in Managers, Locked(gw), Find
  PROVE  Good(gw, gw')
  <1> DEFINE g == IF gw.cur \in Serving(gw) THEN gw ELSE Kill(gw, Serving(gw))
             own == gw.cur # 0 /\ gw.owns
             x(e, s) == [g.flow EXCEPT !.existing = e, !.pc = s]
  <1>1. gw.flow.pc = "find"
    BY DEF Find, At
  <1>2. PICK answers \in BOOLEAN :
          LET found == answers /\ gw.cur \in Serving(gw) IN
          gw' = Asserted(g, [g EXCEPT !.flow.existing = found \/ own,
                                      !.flow.pc = IF found THEN "connect"
                                                  ELSE IF own THEN "owned" ELSE "launch"])
    BY DEF Find
  <1> DEFINE found == answers /\ gw.cur \in Serving(gw)
             e0 == found \/ own
             s0 == IF found THEN "connect" ELSE IF own THEN "owned" ELSE "launch"
             m == WithFlow(g, x(e0, s0))
  <1>3. gw' = Asserted(g, m)
    BY <1>2 DEF WithFlow
  <1>4. gw.lock /\ gw.owns \in BOOLEAN /\ gw.cur \in Slots
    BY <1>1, FlowIsOn DEF Managers
  <1>5. e0 \in BOOLEAN /\ s0 \in {"connect", "owned", "launch"} /\ (s0 = "launch" => ~own)
    OBVIOUS
  <1> DEFINE K == [p \in Gateways |-> IF p \in Serving(gw) THEN "killed" ELSE gw.proc[p]]
  <1>6. /\ g \in Managers /\ g.late = gw.late /\ g.proc \in {gw.proc, K}
        /\ g.cur = gw.cur /\ g.owns = gw.owns /\ g.lock = gw.lock
        /\ g.flow = gw.flow /\ g.stops = gw.stops /\ g.restart = gw.restart
        /\ g.timer = gw.timer /\ g.deferred = gw.deferred /\ g.want = gw.want
        /\ g.asked = gw.asked /\ g.epoch = gw.epoch /\ g.ws = gw.ws
    <2> DEFINE k == Kill(gw, Serving(gw))
    <2>1. /\ k \in Managers /\ k.late = gw.late /\ k.proc = K
          /\ k.cur = gw.cur /\ k.owns = gw.owns /\ k.lock = gw.lock
          /\ k.flow = gw.flow /\ k.stops = gw.stops /\ k.restart = gw.restart
          /\ k.timer = gw.timer /\ k.deferred = gw.deferred /\ k.want = gw.want
          /\ k.asked = gw.asked /\ k.epoch = gw.epoch /\ k.ws = gw.ws
      BY KillParts
    <2>2. g = gw \/ g = k
      OBVIOUS
    <2> HIDE DEF g, k, K
    <2> QED BY <2>1, <2>2
  <1>7. \A p \in Gateways : Alive(g, p) <=> Alive(gw, p)
    BY <1>6 DEF Alive, Serving
  <1> HIDE DEF g, K, own, e0, s0
  <1>8. x(e0, s0) \in Flows /\ x(e0, s0).epoch = g.flow.epoch /\ x(e0, s0).by = g.flow.by
        /\ x(e0, s0).pc = s0
    <2>1. g.flow \in Flows
      BY <1>6 DEF Managers
    <2> QED BY <1>5, <2>1 DEF Flows
  <1> HIDE DEF x, m
  <1>9. /\ Method(g, m)
        /\ (/\ Holds(g) /\ Restarts(g) /\ g.flow.epoch <= g.epoch
            /\ s0 = "launch" => ~g.owns
            /\ g.asked # "no") => Kept(m) /\ Ends(m)
    <2>1. g.lock /\ s0 \notin {"idle", "terminate"}
      BY <1>4, <1>5, <1>6
    <2> QED BY <1>6, <1>8, <2>1, MovesOn DEF m
  <1>10. /\ Method(g, gw')
         /\ Returns(g) /\ (g.asked # "no" => Kept(m) /\ Ends(m)) => Kept(gw') /\ Ends(gw')
    BY <1>3, <1>6, <1>9, AssertedKeeps
  <1>11. ASSUME Kept(gw)
         PROVE  /\ Returns(g) /\ Holds(g) /\ Restarts(g) /\ g.flow.epoch <= g.epoch
                /\ s0 = "launch" => ~g.owns
    <2>1. Holds(g)
      BY <1>6, <1>7, <1>11 DEF Kept, Holds
    <2>2. s0 = "launch" => ~g.owns
      BY <1>5, <1>6, <1>11 DEF Kept, Holds, own, Gateways
    <2> QED BY <1>4, <1>6, <1>11, <2>1, <2>2 DEF Kept, Returns, Starts, Restarts, Off
  <1>12. Locked(g)
    BY <1>6 DEF Locked
  <1> QED BY <1>6, <1>9, <1>10, <1>11, <1>12 DEF Good, Method
LEMMA FailsHere ==
  ASSUME gw \in Managers, Locked(gw), gw.flow.pc \in {"launch", "ready", "connect"},
         NEW kind \in {"transient", "config", "fatal", "other"},
         gw' = SequenceFails(gw, kind)
  PROVE  Good(gw, gw')
  <1>1. gw.lock /\ (Kept(gw) => (gw.asked = "no" => ~gw.want))
    BY FlowIsOn
  <1>2. /\ Method(gw, gw')
        /\ (/\ Holds(gw) /\ Starts(gw) /\ Restarts(gw)
            /\ gw.asked = "no" =>
                 /\ gw.timer = 0 /\ ~gw.restart /\ gw.flow.epoch # gw.epoch
                 /\ gw.want => /\ kind = "transient" /\ gw.flow.tries < MaxStartAttempts
                               /\ gw.deferred = "none" /\ ~gw.owns /\ gw.ws = 0)
           => Kept(gw') /\ Ends(gw')
    BY <1>1, SequenceFailsKeeps
  <1>3. ASSUME Kept(gw)
        PROVE  /\ Holds(gw) /\ Starts(gw) /\ Restarts(gw)
               /\ gw.asked = "no" =>
                    gw.timer = 0 /\ ~gw.restart /\ gw.flow.epoch # gw.epoch /\ ~gw.want
    BY <1>1, <1>3 DEF Kept, Off
  <1> QED BY <1>2, <1>3 DEF Good, Method

\* A start that has not been superseded meets a Gateway.
LEMMA GoesOnTo ==
  ASSUME gw \in Managers, Locked(gw), gw.flow.pc \in {"ready", "owned"}, NEW x \in Flows,
         x = [gw.flow EXCEPT !.pc = "connect"], gw' = Asserted(gw, WithFlow(gw, x))
  PROVE  Good(gw, gw')
  <1>1. x.epoch = gw.flow.epoch /\ x.by = gw.flow.by /\ x.pc = "connect"
    BY DEF Managers, Flows
  <1>2. gw.lock /\ (Kept(gw) => Returns(gw) /\ gw.flow.epoch <= gw.epoch)
    BY FlowIsOn
  <1> DEFINE m == WithFlow(gw, x)
  <1>3. /\ Method(gw, m)
        /\ (/\ Holds(gw) /\ Restarts(gw) /\ gw.flow.epoch <= gw.epoch
            /\ x.pc = "launch" => ~gw.owns
            /\ gw.asked # "no") => Kept(m) /\ Ends(m)
    BY <1>1, <1>2, MovesOn
  <1>4. gw' = Asserted(gw, m)
    OBVIOUS
  <1> HIDE DEF m
  <1>5. /\ Method(gw, gw')
        /\ Returns(gw) /\ (gw.asked # "no" => Kept(m) /\ Ends(m)) => Kept(gw') /\ Ends(gw')
    BY <1>3, <1>4, AssertedKeeps
  <1> QED BY <1>1, <1>2, <1>3, <1>5 DEF Good, Method, Returns

LEMMA LaunchKeeps ==
  ASSUME gw \in Managers, Locked(gw), NEW p \in Gateways, Launch(p)
  PROVE  Good(gw, gw')
  <1> DEFINE g == [gw EXCEPT !.proc[p] = "booting", !.cur = p, !.owns = TRUE,
                             !.exited = FALSE, !.owed = FALSE]
             K == [gw.proc EXCEPT ![p] = "booting"]
             put(k, c) == [gw EXCEPT !.proc = k, !.cur = c, !.owns = TRUE,
                                     !.exited = FALSE, !.owed = FALSE]
             x == [g.flow EXCEPT !.pc = "ready"]
             m == WithFlow(g, x)
  <1>1. gw.flow.pc = "launch"
    BY DEF Launch, At
  <1>2. gw.lock
    BY <1>1, FlowIsOn
  <1>3. CASE gw' = SequenceFails(gw, "other")
    BY <1>1, <1>3, FailsHere
  <1>4. CASE gw.proc[p] = "none" /\ gw' = Asserted(g, [g EXCEPT !.flow.pc = "ready"])
    <2>1. gw' = Asserted(g, m)
      BY <1>4 DEF WithFlow
    <2>2. K \in [Gateways -> {"none", "booting", "serving", "killed", "gone"}]
          /\ gw.proc \in [Gateways -> {"none", "booting", "serving", "killed", "gone"}]
          /\ p \in Slots
      BY DEF Managers, Slots
    <2>3. g = put(K, p)
      OBVIOUS
    <2>4. g \in Managers
      <3>1. ASSUME NEW k \in [Gateways -> {"none", "booting", "serving", "killed", "gone"}],
                   NEW c \in Slots
            PROVE  put(k, c) \in Managers
        BY <3>1 DEF Managers
      <3> HIDE DEF put, K, g
      <3> QED BY <2>2, <2>3, <3>1
    <2> HIDE DEF K
    <2>5. /\ g.late = gw.late /\ g.proc = K /\ g.cur = p /\ g.owns = TRUE
          /\ g.lock = gw.lock /\ g.flow = gw.flow /\ g.stops = gw.stops
          /\ g.restart = gw.restart /\ g.timer = gw.timer /\ g.deferred = gw.deferred
          /\ g.want = gw.want /\ g.asked = gw.asked /\ g.epoch = gw.epoch /\ g.ws = gw.ws
      BY <2>3 DEF Managers
    <2> HIDE DEF g
    <2>6. x \in Flows /\ x.epoch = g.flow.epoch /\ x.by = g.flow.by /\ x.pc = "ready"
      <3>1. g.flow \in Flows
        BY <2>4 DEF Managers
      <3> QED BY <3>1 DEF Flows
    <2> HIDE DEF x, m
    <2>7. /\ Method(g, m)
          /\ Holds(g) /\ Restarts(g) /\ g.flow.epoch <= g.epoch /\ g.asked # "no"
               => Kept(m) /\ Ends(m)
      BY <1>2, <2>4, <2>5, <2>6, MovesOn DEF m
    <2>8. /\ Method(g, gw')
          /\ Returns(g) /\ (g.asked # "no" => Kept(m) /\ Ends(m)) => Kept(gw') /\ Ends(gw')
      BY <2>1, <2>4, <2>7, AssertedKeeps
    <2>9. ASSUME Kept(gw)
          PROVE  Returns(g) /\ g.flow.epoch <= g.epoch
      <3>1. \A q \in Gateways : ~Alive(gw, q)
        BY <1>1, <2>9 DEF Kept, Holds, Starts
      <3>2. Holds(g)
        BY <2>2, <2>5, <3>1 DEF Holds, Alive, K
      <3>3. gw.asked = "no" => ~gw.want
        BY <1>1, <2>9, FlowIsOn
      <3> QED BY <1>1, <1>2, <2>5, <2>9, <3>2, <3>3 DEF Kept, Returns, Starts, Restarts, Off
    <2>10. Locked(g)
      BY <1>1, <1>2, <2>5 DEF Locked
    <2> QED BY <2>5, <2>7, <2>8, <2>9, <2>10 DEF Good, Method, Returns
  <1> QED BY <1>3, <1>4 DEF Launch

LEMMA ReadyKeeps ==
  ASSUME gw \in Managers, Locked(gw), Ready
  PROVE  Good(gw, gw')
  <1> DEFINE x == [gw.flow EXCEPT !.pc = "connect"]
  <1>1. gw.flow.pc = "ready"
    BY DEF Ready, At
  <1>2. \/ gw' = Asserted(gw, WithFlow(gw, x))
        \/ \E kind \in {"transient", "config", "fatal", "other"} : gw' = SequenceFails(gw, kind)
    BY DEF Ready, WithFlow
  <1>3. x \in Flows
    BY DEF Managers, Flows
  <1> QED BY <1>1, <1>2, <1>3, FailsHere, GoesOnTo

\* terminateStaleOwnedProcess keeps what shouldReconnect was and awaits the end.
LEMMA OwnedReadyKeeps ==
  ASSUME gw \in Managers, Locked(gw), OwnedReady
  PROVE  Good(gw, gw')
  <1> DEFINE put(y) == [gw EXCEPT !.flow = y, !.want = FALSE]
             f == [gw.flow EXCEPT !.kept = gw.want]
             kept == put(f)
             stale == CancelDeadline(kept)
             e == [stale.flow EXCEPT !.pc = "terminate", !.child = gw.cur]
             waits == WithFlow(stale, e)
             again == [stale EXCEPT !.want = stale.flow.kept]
             x == [gw.flow EXCEPT !.pc = "connect"]
  <1>1. gw.flow.pc = "owned"
    BY DEF OwnedReady, At
  <1>2. gw.lock /\ (Kept(gw) => Returns(gw) /\ (gw.asked = "no" => ~gw.want))
    BY <1>1, FlowIsOn
  <1>3. \/ gw' = Asserted(gw, WithFlow(gw, x))
        \/ gw.cur # 0 /\ gw.owns /\ gw' = Kill(waits, {gw.cur})
        \/ gw' = SequenceFails(again, "transient")
    BY DEF OwnedReady, WithFlow
  <1>4. gw.flow \in Flows /\ gw.want \in BOOLEAN /\ gw.cur \in Slots /\ x \in Flows
    BY DEF Managers, Flows
  <1>5. f \in Flows /\ f.kept = gw.want /\ f.epoch = gw.flow.epoch /\ f.by = gw.flow.by
        /\ f.pc = gw.flow.pc
    BY <1>4 DEF Flows
  <1> HIDE DEF f
  <1>6. kept \in Managers
    BY <1>5 DEF Managers
  <1>7. /\ kept.late = gw.late /\ kept.flow = f /\ kept.want = FALSE
        /\ kept.proc = gw.proc /\ kept.cur = gw.cur /\ kept.owns = gw.owns
        /\ kept.lock = gw.lock /\ kept.stops = gw.stops /\ kept.restart = gw.restart
        /\ kept.timer = gw.timer /\ kept.deferred = gw.deferred
        /\ kept.asked = gw.asked /\ kept.epoch = gw.epoch /\ kept.ws = gw.ws
    BY DEF Managers
  <1> HIDE DEF kept
  <1>8. stale \in Managers /\ stale.late = gw.late /\ Same(kept, stale)
    BY <1>6, <1>7, CancelKeeps DEF Method
  <1> HIDE DEF stale
  <1>9. e \in Flows /\ e.pc = "terminate" /\ e.child = gw.cur /\ e.kept = gw.want
        /\ e.epoch = gw.flow.epoch /\ e.by = gw.flow.by
    <2>1. stale.flow = f
      BY <1>7, <1>8 DEF Same
    <2> DEFINE new(y, c) == [y EXCEPT !.pc = "terminate", !.child = c]
    <2>2. ASSUME NEW y \in Flows, NEW c \in Slots
          PROVE  new(y, c) \in Flows
      BY <2>2 DEF Flows
    <2>3. ASSUME NEW y \in Flows, NEW c \in Slots
          PROVE  /\ new(y, c).pc = "terminate" /\ new(y, c).child = c /\ new(y, c).kept = y.kept
                 /\ new(y, c).epoch = y.epoch /\ new(y, c).by = y.by
      BY <2>3 DEF Flows
    <2>4. e = new(f, gw.cur)
      BY <2>1
    <2> HIDE DEF new, e
    <2> QED BY <1>4, <1>5, <2>2, <2>3, <2>4
  <1> HIDE DEF e
  <1>10. CASE gw' = Asserted(gw, WithFlow(gw, x))
    <2> HIDE DEF x
    <2>1. x = [gw.flow EXCEPT !.pc = "connect"]
      BY DEF x
    <2> QED BY <1>1, <1>4, <1>10, <2>1, GoesOnTo
  <1>11. CASE gw.cur # 0 /\ gw.owns /\ gw' = Kill(waits, {gw.cur})
    <2>1. waits \in Managers
      BY <1>8, <1>9 DEF WithFlow, Managers
    <2>2. /\ waits.late = gw.late /\ waits.flow = e /\ waits.want = FALSE
          /\ waits.proc = gw.proc /\ waits.cur = gw.cur /\ waits.owns = gw.owns
          /\ waits.lock = gw.lock /\ waits.stops = gw.stops /\ waits.restart = gw.restart
          /\ waits.timer = gw.timer /\ waits.deferred = gw.deferred
          /\ waits.asked = gw.asked /\ waits.epoch = gw.epoch /\ waits.ws = gw.ws
      BY <1>7, <1>8 DEF WithFlow, Managers, Same
    <2> HIDE DEF waits
    <2> DEFINE h == Kill(waits, {gw.cur})
    <2>3. /\ h \in Managers /\ h.late = waits.late
          /\ h.proc = [p \in Gateways |-> IF p \in {gw.cur} THEN "killed" ELSE waits.proc[p]]
          /\ h.cur = waits.cur /\ h.owns = waits.owns /\ h.lock = waits.lock
          /\ h.flow = waits.flow /\ h.stops = waits.stops /\ h.restart = waits.restart
          /\ h.timer = waits.timer /\ h.deferred = waits.deferred /\ h.want = waits.want
          /\ h.asked = waits.asked /\ h.epoch = waits.epoch /\ h.ws = waits.ws
      BY <2>1, KillParts
    <2>4. h = gw'
      BY <1>11
    <2> HIDE DEF h
    <2>5. Locked(h)
      BY <1>2, <1>9, <2>2, <2>3 DEF Locked
    <2>6. ASSUME Kept(gw)
          PROVE  Kept(h) /\ Ends(h)
      <3>1. gw.cur \in Gateways /\ \A p \in Gateways : Alive(gw, p) => p = gw.cur
        BY <1>11, <2>6 DEF Kept, Holds
      <3>2. /\ \A p \in Gateways : h.proc[p] = IF p = gw.cur THEN "killed" ELSE gw.proc[p]
            /\ h.cur = gw.cur /\ h.owns
        BY <1>11, <2>2, <2>3
      <3>3. Holds(h)
        BY <3>1, <3>2 DEF Holds, Alive
      <3>4. Starts(h) /\ Restarts(h)
        BY <1>2, <1>9, <2>2, <2>3, <2>6 DEF Kept, Starts, Restarts
      <3>5. Off(h)
        BY <1>9, <2>2, <2>3, <2>6 DEF Kept, Off
      <3>6. Ends(h)
        BY <1>2, <1>9, <2>2, <2>3, <2>6, <3>1, <3>2 DEF Ends
      <3> QED BY <3>3, <3>4, <3>5, <3>6 DEF Kept
    <2> QED BY <2>2, <2>3, <2>4, <2>5, <2>6 DEF Good
  <1>12. CASE gw' = SequenceFails(again, "transient")
    <2>1. stale.flow.kept \in BOOLEAN
      BY <1>4, <1>5, <1>7, <1>8 DEF Same
    <2>2. again \in Managers
      BY <1>8, <2>1 DEF Managers
    <2>3. /\ again.late = gw.late /\ again.flow = f /\ again.want = gw.want
          /\ again.proc = gw.proc /\ again.cur = gw.cur /\ again.owns = gw.owns
          /\ again.lock = gw.lock /\ again.stops = gw.stops /\ again.restart = gw.restart
          /\ again.timer = gw.timer /\ again.deferred = gw.deferred
          /\ again.asked = gw.asked /\ again.epoch = gw.epoch /\ again.ws = gw.ws
      BY <1>5, <1>7, <1>8 DEF Managers, Same
    <2> HIDE DEF again
    <2> DEFINE P == /\ Holds(again) /\ Starts(again) /\ Restarts(again)
                    /\ again.asked = "no" =>
                         /\ again.timer = 0 /\ ~again.restart /\ again.flow.epoch # again.epoch
                         /\ again.want => /\ again.flow.tries < MaxStartAttempts
                                          /\ again.deferred = "none" /\ ~again.owns
                                          /\ again.ws = 0
    <2>4. Method(again, gw') /\ (P => Kept(gw') /\ Ends(gw'))
      BY <1>2, <1>12, <2>2, <2>3, SequenceFailsKeeps
    <2>5. Kept(gw) => P
      BY <1>2, <1>5, <2>3 DEF Kept, Holds, Starts, Restarts, Off, Alive
    <2>6. Locked(again)
      BY <1>1, <1>2, <1>5, <2>3 DEF Locked
    <2> HIDE DEF P
    <2> QED BY <2>3, <2>4, <2>5, <2>6 DEF Good, Method
  <1> QED BY <1>3, <1>10, <1>11, <1>12
LEMMA ConnectGatewayKeeps ==
  ASSUME gw \in Managers, Locked(gw), ConnectGateway
  PROVE  Good(gw, gw')
  <1>1. gw.flow.pc = "connect"
    BY DEF ConnectGateway, At
  <1>2. gw.lock /\ (Kept(gw) => Returns(gw) /\ (gw.asked = "no" => ~gw.want))
    BY <1>1, FlowIsOn
  <1>3. CASE \E kind \in {"transient", "config", "fatal", "other"} : gw' = SequenceFails(gw, kind)
    BY <1>1, <1>3, FailsHere
  <1>4. ASSUME NEW p \in Serving(gw)
        PROVE  LET open == SetState([gw EXCEPT !.ws = p, !.watch = TRUE, !.escalate = FALSE],
                                    "running")
                   own == gw.flow.existing /\ gw.cur # 0 /\ gw.owns
               IN gw' = Asserted(open, StartReturns(
                          IF own THEN [open EXCEPT !.deferred = Completed(@), !.owed = FALSE]
                          ELSE IF gw.flow.existing THEN [open EXCEPT !.owns = FALSE]
                          ELSE open, FALSE))
                  => Good(gw, gw')
    <2> DEFINE put(w) == [gw EXCEPT !.ws = w, !.watch = TRUE, !.escalate = FALSE]
               seen == put(p)
               open == SetState(seen, "running")
               own == gw.flow.existing /\ gw.cur # 0 /\ gw.owns
               d == Completed(open.deferred)
               ours == [open EXCEPT !.deferred = d, !.owed = FALSE]
               else == [open EXCEPT !.owns = FALSE]
               m == IF own THEN ours ELSE IF gw.flow.existing THEN else ELSE open
    <2>1. p \in Slots /\ p \in Gateways /\ gw.owns \in BOOLEAN /\ gw.flow.existing \in BOOLEAN
      BY DEF Serving, Slots, Managers, Flows
    <2>2. seen \in Managers
      BY <2>1 DEF Managers
    <2>3. /\ seen.late = gw.late /\ seen.ws = p
          /\ seen.proc = gw.proc /\ seen.cur = gw.cur /\ seen.owns = gw.owns
          /\ seen.lock = gw.lock /\ seen.flow = gw.flow /\ seen.stops = gw.stops
          /\ seen.restart = gw.restart /\ seen.timer = gw.timer
          /\ seen.deferred = gw.deferred /\ seen.want = gw.want
          /\ seen.asked = gw.asked /\ seen.epoch = gw.epoch
      BY DEF Managers
    <2> HIDE DEF seen
    <2>4. open \in Managers /\ open.late = gw.late /\ Same(seen, open)
      BY <1>2, <2>2, <2>3, LockedState
    <2> HIDE DEF open
    <2>5. d \in {"none", "asked", "done"} /\ (open.deferred = "none" => d = "none")
      BY DEF Completed
    <2> HIDE DEF d
    <2>6. ours \in Managers /\ else \in Managers
      BY <2>4, <2>5 DEF Managers
    <2>7. /\ ours.late = gw.late /\ ours.owns = open.owns
          /\ open.deferred = "none" => ours.deferred = "none"
          /\ ours.proc = open.proc /\ ours.cur = open.cur
          /\ ours.lock = open.lock /\ ours.flow = open.flow /\ ours.stops = open.stops
          /\ ours.restart = open.restart /\ ours.timer = open.timer
          /\ ours.want = open.want /\ ours.asked = open.asked
          /\ ours.epoch = open.epoch /\ ours.ws = open.ws
      BY <2>4, <2>5 DEF Managers
    <2>8. /\ else.late = gw.late /\ else.owns = FALSE
          /\ else.deferred = open.deferred
          /\ else.proc = open.proc /\ else.cur = open.cur
          /\ else.lock = open.lock /\ else.flow = open.flow /\ else.stops = open.stops
          /\ else.restart = open.restart /\ else.timer = open.timer
          /\ else.want = open.want /\ else.asked = open.asked
          /\ else.epoch = open.epoch /\ else.ws = open.ws
      BY <2>4 DEF Managers
    <2> HIDE DEF ours, else
    <2>9. /\ m \in Managers /\ m.late = gw.late /\ m.lock = open.lock /\ m.flow = open.flow
          /\ m.owns => open.owns
      BY <2>4, <2>6, <2>7, <2>8
    <2>10. ASSUME Kept(gw)
           PROVE  Returns(open) /\ Returns(m)
      <3>1. Returns(open)
        BY <1>2, <2>3, <2>4, <2>10 DEF Kept, Returns, Holds, Restarts, Off, Alive, Same
      <3>2. Returns(ours)
        BY <2>7, <3>1 DEF Returns, Holds, Restarts, Off, Alive
      <3>3. gw.flow.existing /\ ~own => ~gw.owns
        BY <2>10 DEF Kept, Holds, Gateways
      <3>4. ~gw.owns => Returns(else)
        BY <2>3, <2>4, <2>8, <3>1 DEF Returns, Holds, Restarts, Off, Alive, Same
      <3> QED BY <3>1, <3>2, <3>3, <3>4
    <2> HIDE DEF m, own
    <2> DEFINE r == StartReturns(m, FALSE)
    <2>11. Method(m, r) /\ (Returns(m) => Kept(r) /\ Ends(r))
      BY <2>9, StartReturnsKeeps
    <2> HIDE DEF r
    <2>12. Method(open, r)
      BY <2>4, <2>9, <2>11 DEF Method, Locked
    <2>13. ASSUME gw' = Asserted(open, r)
           PROVE  Good(gw, gw')
      <3>1. /\ Method(open, gw')
            /\ Returns(open) /\ (open.asked # "no" => Kept(r) /\ Ends(r)) => Kept(gw') /\ Ends(gw')
        BY <2>4, <2>12, <2>13, AssertedKeeps
      <3>2. Locked(open)
        BY <2>3, <2>4 DEF Locked, Same
      <3> QED BY <2>4, <2>10, <2>11, <3>1, <3>2 DEF Good, Method
    <2> QED BY <2>13 DEF r, m, own, ours, else, d, open, seen
  <1>5. \/ \E kind \in {"transient", "config", "fatal", "other"} : gw' = SequenceFails(gw, kind)
        \/ \E p \in Serving(gw) :
             LET open == SetState([gw EXCEPT !.ws = p, !.watch = TRUE, !.escalate = FALSE],
                                  "running")
                 own == gw.flow.existing /\ gw.cur # 0 /\ gw.owns
             IN gw' = Asserted(open, StartReturns(
                        IF own THEN [open EXCEPT !.deferred = Completed(@), !.owed = FALSE]
                        ELSE IF gw.flow.existing THEN [open EXCEPT !.owns = FALSE]
                        ELSE open, FALSE))
    BY DEF ConnectGateway
  <1> QED BY <1>3, <1>4, <1>5

LEMMA RepairKeeps ==
  ASSUME gw \in Managers, Locked(gw), Repair
  PROVE  Good(gw, gw')
  <1>1. gw.flow.pc = "doctor"
    BY DEF Repair, At
  <1>2. gw.lock /\ (Kept(gw) => Returns(gw) /\ (gw.asked = "no" => ~gw.want))
    BY <1>1, FlowIsOn
  <1>3. CASE gw' = Again(SetState(gw, "starting"))
    <2> DEFINE g == SetState(gw, "starting")
    <2>1. g \in Managers /\ g.late = gw.late /\ Same(gw, g)
      BY <1>2, LockedState
    <2>2. gw' = Again(g)
      BY <1>3
    <2> HIDE DEF g
    <2>3. Method(g, gw') /\ (Kept(g) => Kept(gw') /\ Ends(gw'))
      BY <1>2, <2>1, <2>2, AgainKeeps DEF Same
    <2>4. (Kept(gw) => Kept(g)) /\ (Locked(gw) => Locked(g))
      BY <2>1, SameKeeps DEF Locked, Same
    <2> QED BY <2>1, <2>3, <2>4 DEF Good, Method
  <1>4. CASE gw' = StartFails(gw, TRUE)
    BY <1>2, <1>4, StartFailsKeeps DEF Good, Method
  <1> QED BY <1>3, <1>4 DEF Repair

LEMMA DelayedKeeps ==
  ASSUME gw \in Managers, Locked(gw), Delayed
  PROVE  Good(gw, gw')
  <1>1. gw.flow.pc = "delay" /\ gw' = Again(gw)
    BY DEF Delayed, At
  <1>2. gw.lock
    BY <1>1, FlowIsOn
  <1>3. Method(gw, gw') /\ (Kept(gw) => Kept(gw') /\ Ends(gw'))
    BY <1>1, <1>2, AgainKeeps
  <1> QED BY <1>3 DEF Good, Method
-----------------------------------------------------------------------------
(* The end of a process *)

\* Between the exit of p and the continuations of those who await it: the start
\* that awaits the end of the stale process still has to be told.
Untold(g, p) ==
  /\ Kept(g) /\ ~g.owns
  /\ g.flow.pc = "terminate" =>
       /\ g.lock /\ g.flow.child = p
       /\ g.asked = "no" /\ g.flow.kept =>
            g.ws = 0 /\ (g.stops["user"] = [pc |-> "killing", child |-> p] \/ g.deferred = "none")

\* ... and the stop of the user has been told.
UserTold(g, p) ==
  /\ Untold(g, p)
  /\ g.flow.pc = "terminate" /\ g.asked = "no" /\ g.flow.kept => g.deferred = "none"

\* onExit.
LEMMA ProcessExitKeeps ==
  ASSUME gw \in Managers, NEW p \in Gateways, Alive(gw, p), NEW fatal \in BOOLEAN
  PROVE  LET h == ProcessExit(p, fatal) IN
         /\ Method(gw, h)
         /\ Kept(gw) /\ Ends(gw) =>
              Untold(h, p) /\ (gw.flow.pc # "terminate" => Ends(h))
  <1> DEFINE c == IF gw.cur = p THEN 0 ELSE gw.cur
             K == [gw.proc EXCEPT ![p] = "gone"]
             called == CancelDeadline(gw)
             put(k, x) == [called EXCEPT !.proc = k, !.exited = TRUE, !.owns = FALSE, !.cur = x]
             gone == put(K, c)
             seen == IF gw.state = "running" THEN SetState(gone, "stopped") ELSE gone
             h == ProcessExit(p, fatal)
  <1>1. called \in Managers /\ called.late = gw.late /\ Same(gw, called)
    BY CancelKeeps DEF Method
  <1>2. K \in [Gateways -> {"none", "booting", "serving", "killed", "gone"}] /\ c \in Slots
        /\ gw.proc \in [Gateways -> {"none", "booting", "serving", "killed", "gone"}]
    BY DEF Managers, Slots
  <1>3. called.proc = gw.proc /\ called.cur = gw.cur
    BY <1>1 DEF Same
  <1> DEFINE w == seen.want /\ seen.state = "starting"
             off == [seen EXCEPT !.want = w]
  <1>4. h = IF ~fatal THEN ScheduleReconnect(seen) ELSE off
    BY <1>3 DEF ProcessExit
  <1> HIDE DEF called, h
  <1>5. gone \in Managers
    <2>1. ASSUME NEW k \in [Gateways -> {"none", "booting", "serving", "killed", "gone"}],
                 NEW x \in Slots
          PROVE  put(k, x) \in Managers
      BY <1>1, <2>1 DEF Managers
    <2> HIDE DEF put, K, c
    <2> QED BY <1>2, <2>1
  <1> HIDE DEF K, c
  <1>6. /\ gone.late = gw.late /\ gone.proc = K /\ gone.cur = c /\ gone.owns = FALSE
        /\ gone.lock = gw.lock /\ gone.flow = gw.flow /\ gone.stops = gw.stops
        /\ gone.restart = gw.restart /\ gone.timer = gw.timer
        /\ gone.deferred = gw.deferred /\ gone.want = gw.want
        /\ gone.asked = gw.asked /\ gone.epoch = gw.epoch /\ gone.ws = gw.ws
    BY <1>1 DEF Managers, Same
  <1> HIDE DEF gone
  <1>7. /\ Method(gone, seen) /\ seen.asked = gone.asked
        /\ gone.lock => Same(gone, seen)
        /\ ~gone.want => seen.want = FALSE
        /\ Kept(gone) => Kept(seen) /\ (Ends(gone) => Ends(seen))
    <2>1. CASE seen = gone
      <3>1. gone.want \in BOOLEAN
        BY <1>5 DEF Managers
      <3> QED BY <1>5, <2>1, <3>1 DEF Method, Same
    <2>2. CASE seen = SetState(gone, "stopped")
      BY <1>5, <2>2, SetStateKeeps
    <2> QED BY <2>1, <2>2
  <1> HIDE DEF seen
  <1>8. seen \in Managers /\ seen.want \in BOOLEAN /\ w \in BOOLEAN
    BY <1>7 DEF Method, Managers
  <1>9. w => seen.want
    OBVIOUS
  <1> HIDE DEF w
  <1>10. off \in Managers
    BY <1>8 DEF Managers
  <1>11. /\ off.late = seen.late /\ off.want = w
         /\ off.proc = seen.proc /\ off.cur = seen.cur /\ off.owns = seen.owns
         /\ off.lock = seen.lock /\ off.flow = seen.flow /\ off.stops = seen.stops
         /\ off.restart = seen.restart /\ off.timer = seen.timer
         /\ off.deferred = seen.deferred /\ off.asked = seen.asked
         /\ off.epoch = seen.epoch /\ off.ws = seen.ws
    BY <1>8 DEF Managers
  <1> HIDE DEF off
  <1>12. /\ Method(seen, h) /\ h.asked = seen.asked
         /\ seen.lock => /\ h.lock = seen.lock /\ h.flow = seen.flow /\ h.stops = seen.stops
                         /\ h.ws = seen.ws
         /\ Kept(seen) /\ (seen.asked = "no" => ~seen.want) => Kept(h) /\ (Ends(seen) => Ends(h))
    <2>1. CASE ~fatal
      <3>1. h = ScheduleReconnect(seen)
        BY <1>4, <2>1
      <3> QED BY <1>8, <3>1, ScheduleReconnectKeeps DEF Nearly
    <2>2. CASE fatal
      <3>1. h = off
        BY <1>4, <2>2
      <3>2. Method(seen, off)
        BY <1>10, <1>11 DEF Method, Locked
      <3>3. Kept(seen) => Kept(off) /\ (Ends(seen) => Ends(off))
        BY <1>9, <1>11 DEF Kept, Holds, Starts, Restarts, Off, Ends, Alive
      <3> QED BY <1>11, <3>1, <3>2, <3>3
    <2> QED BY <2>1, <2>2
  <1>13. ASSUME Kept(gw), Ends(gw)
         PROVE  Untold(h, p) /\ (gw.flow.pc # "terminate" => Ends(h))
    <2>1. p = gw.cur /\ gw.owns /\ \A q \in Gateways : Alive(gw, q) => q = p
      BY <1>13 DEF Kept, Holds
    <2>2. gw.asked = "no" => ~gw.want
      BY <1>13, <2>1 DEF Kept, Off
    <2>3. \A q \in Gateways : ~Alive(gone, q)
      BY <1>2, <1>6, <2>1 DEF Alive, K
    <2>4. Holds(gone)
      BY <1>6, <2>3 DEF Holds
    <2>5. Kept(gone)
      BY <1>6, <1>13, <2>4 DEF Kept, Starts, Restarts, Off
    <2>6. Kept(seen) /\ (seen.asked = "no" => ~seen.want) /\ (Ends(gone) => Ends(seen))
      BY <1>6, <1>7, <2>2, <2>5
    <2>7. Kept(h) /\ (Ends(gone) => Ends(h))
      BY <1>12, <2>6
    <2>8. ~h.owns
      BY <1>6, <1>7, <1>12 DEF Method
    <2>9. gw.flow.pc # "terminate" => Ends(gone)
      BY <1>6 DEF Ends
    <2>10. CASE gw.flow.pc = "terminate"
      <3>1. /\ gw.lock /\ gw.flow.child = p
            /\ gw.asked = "no" /\ gw.flow.kept =>
                 gw.ws = 0 /\ gw.stops["user"] = [pc |-> "killing", child |-> p]
        BY <1>13, <2>1, <2>10 DEF Kept, Starts, Ends
      <3>2. /\ h.lock = gw.lock /\ h.flow = gw.flow /\ h.stops = gw.stops /\ h.ws = gw.ws
            /\ h.asked = gw.asked
        BY <1>6, <1>7, <1>12, <3>1 DEF Same
      <3> QED BY <2>7, <2>8, <2>10, <3>1, <3>2 DEF Untold
    <2>11. CASE gw.flow.pc # "terminate"
      <3>1. h.flow.pc # "terminate"
        BY <2>7, <2>8, <2>9, <2>11 DEF Ends
      <3> QED BY <2>7, <2>8, <2>9, <2>11, <3>1 DEF Untold
    <2> QED BY <2>10, <2>11
  <1>14. Method(gw, h)
    BY <1>6, <1>7, <1>12 DEF Method, Locked
  <1> QED BY <1>13, <1>14 DEF h

LEMMA StopGoesOnKeeps ==
  ASSUME NEW g \in Managers, NEW who \in Callers, NEW p \in Gateways
  PROVE  LET h == StopGoesOn(g, who, p) IN
         /\ Method(g, h)
         /\ Untold(g, p) => Untold(h, p) /\ (who = "user" \/ UserTold(g, p) => UserTold(h, p))
  <1> DEFINE h == StopGoesOn(g, who, p)
  <1>1. h = IF Waits(g, who, p) THEN StopEnds(g, who) ELSE g
    BY DEF StopGoesOn
  <1> HIDE DEF h
  <1>2. CASE ~Waits(g, who, p)
    <2>1. h = g
      BY <1>1, <1>2
    <2>2. who = "user" => g.stops["user"] # [pc |-> "killing", child |-> p]
      BY <1>2 DEF Waits
    <2>3. Untold(g, p) => Untold(h, p) /\ (who = "user" \/ UserTold(g, p) => UserTold(h, p))
      BY <2>1, <2>2 DEF Untold, UserTold
    <2> QED BY <2>1, <2>3 DEF Method, h
  <1>3. CASE Waits(g, who, p)
    <2>1. h = StopEnds(g, who)
      BY <1>1, <1>3
    <2>2. Method(g, h) /\ h.asked = g.asked /\ h.owns = FALSE
      BY <2>1, StopEndsParts
    <2>3. ASSUME Untold(g, p)
          PROVE  Untold(h, p) /\ UserTold(h, p)
      <3>1. Kept(g) /\ ~g.owns
        BY <2>3 DEF Untold
      <3>2. who = "restart" => g.restart /\ ~(g.lock /\ g.flow.by = "restart")
        BY <1>3, <3>1 DEF Kept, Restarts, Waits
      <3>3. Kept(h) /\ (g.flow.pc # "terminate" => Ends(h))
        BY <2>1, <3>1, <3>2, StopEndsParts
      <3>4. CASE g.flow.pc = "terminate"
        <4>1. g.lock
          BY <2>3, <3>4 DEF Untold
        <4>2. h.flow = g.flow /\ h.lock = g.lock /\ h.deferred = "none" /\ h.ws = g.ws
          BY <2>1, <4>1, StopEndsParts DEF Callers
        <4> QED BY <2>2, <2>3, <3>3, <3>4, <4>2 DEF Untold, UserTold
      <3>5. CASE g.flow.pc # "terminate"
        <4>1. h.flow.pc # "terminate"
          BY <2>2, <3>3, <3>5 DEF Ends
        <4> QED BY <2>2, <3>3, <4>1 DEF Untold, UserTold
      <3> QED BY <3>4, <3>5
    <2> QED BY <2>2, <2>3 DEF h
  <1> QED BY <1>2, <1>3

LEMMA FlowGoesOnKeeps ==
  ASSUME NEW g \in Managers, NEW p \in Gateways, Locked(g)
  PROVE  LET h == FlowGoesOn(g, p) IN
         Method(g, h) /\ (UserTold(g, p) => Kept(h) /\ Ends(h))
  <1> DEFINE h == FlowGoesOn(g, p)
  <1>1. h = IF g.flow.pc = "terminate" /\ g.flow.child = p THEN Terminated(g) ELSE g
    BY DEF FlowGoesOn
  <1> HIDE DEF h
  <1>2. CASE g.flow.pc = "terminate" /\ g.flow.child = p
    <2>1. g.lock
      BY <1>2 DEF Locked
    <2>2. /\ Method(g, h)
          /\ Kept(g) /\ ~g.owns
               /\ (g.asked = "no" /\ g.flow.kept => g.deferred = "none" /\ g.ws = 0)
             => Kept(h) /\ Ends(h)
      BY <1>1, <1>2, <2>1, TerminatedKeeps
    <2> QED BY <1>2, <2>2 DEF UserTold, Untold, h
  <1>3. CASE ~(g.flow.pc = "terminate" /\ g.flow.child = p)
    <2>1. h = g
      BY <1>1, <1>3
    <2> QED BY <1>3, <2>1 DEF UserTold, Untold, Ends, Method, h
  <1> QED BY <1>2, <1>3

LEMMA ProcessEndsKeeps ==
  ASSUME gw \in Managers, Locked(gw), NEW p \in Gateways, ProcessEnds(p)
  PROVE  Good(gw, gw')
  <1> DEFINE g == ProcessExit(p, FALSE)
             u == StopGoesOn(g, "user", p)
             ur == StopGoesOn(u, "restart", p)
             r == StopGoesOn(g, "restart", p)
             ru == StopGoesOn(r, "user", p)
  <1>1. Alive(gw, p)
    BY DEF ProcessEnds, Alive
  <1>2. gw' = FlowGoesOn(ur, p) \/ gw' = FlowGoesOn(ru, p)
    BY DEF ProcessEnds, Resolved
  <1>3. Method(gw, g) /\ (Kept(gw) /\ Ends(gw) => Untold(g, p))
    BY <1>1, ProcessExitKeeps
  <1> HIDE DEF g
  <1>4. Method(g, u) /\ (Untold(g, p) => Untold(u, p) /\ UserTold(u, p))
    BY <1>3, StopGoesOnKeeps DEF Method, Callers
  <1>5. Method(g, r) /\ (Untold(g, p) => Untold(r, p))
    BY <1>3, StopGoesOnKeeps DEF Method, Callers
  <1> HIDE DEF u, r
  <1>6. Method(u, ur) /\ (Untold(u, p) /\ UserTold(u, p) => UserTold(ur, p))
    BY <1>4, StopGoesOnKeeps DEF Method, Callers
  <1>7. Method(r, ru) /\ (Untold(r, p) => UserTold(ru, p))
    BY <1>5, StopGoesOnKeeps DEF Method, Callers
  <1> HIDE DEF ur, ru
  <1>8. PICK t \in {ur, ru} : gw' = FlowGoesOn(t, p)
    BY <1>2
  <1>9. t \in Managers /\ Locked(t) /\ t.late = gw.late /\ (Kept(gw) /\ Ends(gw) => UserTold(t, p))
    BY <1>3, <1>4, <1>5, <1>6, <1>7 DEF Method
  <1>10. Method(t, gw') /\ (UserTold(t, p) => Kept(gw') /\ Ends(gw'))
    BY <1>8, <1>9, FlowGoesOnKeeps
  <1> QED BY <1>9, <1>10 DEF Good, Method

LEMMA ProcessCrashesKeeps ==
  ASSUME gw \in Managers, Locked(gw), NEW p \in Gateways, ProcessCrashes(p)
  PROVE  Good(gw, gw')
  <1>1. Alive(gw, p) /\ gw.proc[p] # "killed"
    BY DEF ProcessCrashes, Alive
  <1>2. PICK fatal \in BOOLEAN : gw' = ProcessExit(p, fatal)
    BY DEF ProcessCrashes
  <1>3. /\ Method(gw, gw')
        /\ Kept(gw) /\ Ends(gw) =>
             Untold(gw', p) /\ (gw.flow.pc # "terminate" => Ends(gw'))
    BY <1>1, <1>2, ProcessExitKeeps
  <1>4. Kept(gw) /\ Ends(gw) => gw.flow.pc # "terminate"
    BY <1>1 DEF Kept, Holds, Ends
  <1> QED BY <1>3, <1>4 DEF Good, Method, Untold
-----------------------------------------------------------------------------
(* The other awaits, timers, events and calls *)

LEMMA SameIsGood ==
  ASSUME gw \in Managers, gw' \in Managers, gw'.late = gw.late, Same(gw, gw')
  PROVE  Good(gw, gw')
  BY SameKeeps DEF Good, Locked, Same

LEMMA StopAnsweredKeeps ==
  ASSUME gw \in Managers, NEW who \in Callers, StopAnswered(who)
  PROVE  Good(gw, gw')
  <1>1. gw' = StopGoes(gw, who) /\ gw.stops[who].pc = "asking"
    BY DEF StopAnswered
  <1>2. /\ Method(gw, gw')
        /\ (/\ Kept(gw) /\ Stale(gw) /\ (who = "user" \/ gw.asked # "no")
            /\ who = "restart" => gw.restart /\ ~(gw.lock /\ gw.flow.by = "restart"))
           => Kept(gw') /\ Ends(gw')
    BY <1>1, StopGoesKeeps
  <1>3. ASSUME Kept(gw), Ends(gw)
        PROVE  /\ Stale(gw) /\ (who = "user" \/ gw.asked # "no")
               /\ who = "restart" => gw.restart /\ ~(gw.lock /\ gw.flow.by = "restart")
    <2>1. who = "restart" => gw.restart /\ ~(gw.lock /\ gw.flow.by = "restart")
      BY <1>1, <1>3 DEF Kept, Restarts
    <2> QED BY <1>3, <2>1 DEF Kept, Off, Ends, Stale, Callers
  <1> QED BY <1>2, <1>3 DEF Good, Method

LEMMA StopTimesOutKeeps ==
  ASSUME gw \in Managers, NEW who \in Callers, StopTimesOut(who)
  PROVE  Good(gw, gw')
  <1> DEFINE g == [gw EXCEPT !.late = TRUE]
  <1>1. g \in Managers /\ g.late = TRUE /\ g.lock = gw.lock /\ g.flow = gw.flow
    BY DEF Managers
  <1>2. gw' = StopEnds(g, who)
    BY DEF StopTimesOut
  <1> HIDE DEF g
  <1>3. Method(g, gw')
    BY <1>1, <1>2, StopEndsParts
  <1> QED BY <1>1, <1>3 DEF Good, Method, Locked

LEMMA ReconnectFiresKeeps ==
  ASSUME gw \in Managers, ReconnectFires
  PROVE  Good(gw, gw')
  <1> DEFINE put(a, n) == [gw EXCEPT !.timer = 0, !.auto = a, !.attempts = n]
             fired == put(gw.auto, gw.attempts)
             auto == put(TRUE, gw.attempts)
             zero == put(TRUE, 0)
  <1>1. gw.auto \in BOOLEAN /\ gw.attempts \in Nat /\ gw.timer \in Nat
    BY DEF Managers
  <1>2. /\ [gw EXCEPT !.timer = 0] = fired
        /\ [[gw EXCEPT !.timer = 0] EXCEPT !.auto = TRUE] = auto
        /\ [[gw EXCEPT !.timer = 0] EXCEPT !.auto = TRUE, !.attempts = 0] = zero
    BY DEF Managers
  <1>3. gw.timer # 0 /\ gw' \in {fired, zero, StartTakes(auto, "auto")}
        /\ (gw' = StartTakes(auto, "auto") => ~gw.lock \/ gw' \in {fired, zero})
    <2> HIDE DEF fired, zero, auto
    <2> QED BY <1>2 DEF ReconnectFires
  <1>4. ASSUME NEW a \in BOOLEAN, NEW n \in Nat
        PROVE  LET m == put(a, n) IN
               /\ m \in Managers /\ m.late = gw.late /\ m.timer = 0
               /\ m.proc = gw.proc /\ m.cur = gw.cur /\ m.owns = gw.owns
               /\ m.lock = gw.lock /\ m.flow = gw.flow /\ m.stops = gw.stops
               /\ m.restart = gw.restart /\ m.deferred = gw.deferred
               /\ m.want = gw.want /\ m.asked = gw.asked /\ m.epoch = gw.epoch
               /\ m.ws = gw.ws
    <2>1. put(a, n) \in Managers
      BY <1>4 DEF Managers
    <2> QED BY <2>1 DEF Managers
  <1> HIDE DEF put
  <1>5. ASSUME NEW a \in BOOLEAN, NEW n \in Nat
        PROVE  /\ Locked(gw) => Locked(put(a, n))
               /\ Kept(gw) => Kept(put(a, n)) /\ (Ends(gw) => Ends(put(a, n)))
    BY <1>4, <1>5 DEF Locked, Kept, Holds, Starts, Restarts, Off, Ends, Alive
  <1>6. CASE gw' \in {fired, zero}
    <2>1. PICK a \in BOOLEAN, n \in Nat : gw' = put(a, n)
      BY <1>1, <1>6
    <2> QED BY <1>4, <1>5, <2>1 DEF Good
  <1>7. CASE gw' = StartTakes(auto, "auto") /\ ~gw.lock
    <2>1. /\ auto \in Managers /\ auto.late = gw.late /\ auto.lock = gw.lock
          /\ auto.asked = gw.asked
          /\ Locked(gw) => Locked(auto)
          /\ Kept(gw) => Kept(auto) /\ (Ends(gw) => Ends(auto))
      BY <1>1, <1>4, <1>5
    <2> HIDE DEF auto
    <2>2. /\ Method(auto, gw')
          /\ Kept(auto) /\ ~auto.lock /\ auto.asked # "no" => Kept(gw') /\ Ends(gw')
      BY <1>7, <2>1, StartTakesKeeps
    <2>3. Kept(gw) => gw.asked # "no"
      BY <1>3 DEF Kept, Off
    <2> QED BY <1>7, <2>1, <2>2, <2>3 DEF Good, Method
  <1> QED BY <1>3, <1>6, <1>7

\* What has become of the calls.
Fates == {"no", "yes", "lost", "undone"}
Asks(g, a, b) == [g EXCEPT !.asked = a, !.debounce = b]

LEMMA AsksParts ==
  ASSUME NEW g \in Managers, NEW a \in Fates, NEW b \in BOOLEAN
  PROVE  LET m == Asks(g, a, b) IN
         /\ m \in Managers /\ m.late = g.late /\ m.asked = a
         /\ m.proc = g.proc /\ m.cur = g.cur /\ m.owns = g.owns
         /\ m.lock = g.lock /\ m.flow = g.flow /\ m.stops = g.stops
         /\ m.restart = g.restart /\ m.epoch = g.epoch
         /\ Locked(g) => Locked(m)
         /\ a # "no" => (Kept(g) => Kept(m)) /\ (Ends(g) => Ends(m))
  <1> DEFINE m == Asks(g, a, b)
  <1>1. m \in Managers
    BY DEF Asks, Managers, Fates
  <1>2. /\ m.late = g.late /\ m.asked = a
        /\ m.proc = g.proc /\ m.cur = g.cur /\ m.owns = g.owns
        /\ m.lock = g.lock /\ m.flow = g.flow /\ m.stops = g.stops
        /\ m.restart = g.restart /\ m.deferred = g.deferred /\ m.timer = g.timer
        /\ m.want = g.want /\ m.epoch = g.epoch /\ m.ws = g.ws
    BY DEF Asks, Managers
  <1> HIDE DEF m
  <1>3. Locked(g) => Locked(m)
    BY <1>2 DEF Locked
  <1>4. a # "no" => (Kept(g) => Kept(m)) /\ (Ends(g) => Ends(m))
    BY <1>2 DEF Kept, Holds, Starts, Restarts, Off, Ends, Alive
  <1> QED BY <1>1, <1>2, <1>3, <1>4 DEF m

Calls(g, b) == {[Heard(g) EXCEPT !.debounce = b], [Unheard(g) EXCEPT !.debounce = b]}

\* A call reaches the manager, whether or not it sets out to do something.
LEMMA CallsKeep ==
  ASSUME NEW g \in Managers, NEW b \in BOOLEAN
  PROVE  \A m \in Calls(g, b) :
           /\ m \in Managers /\ m.late = g.late /\ m.asked # "no" /\ m.lock = g.lock
           /\ Locked(g) => Locked(m)
           /\ (Kept(g) => Kept(m)) /\ (Ends(g) => Ends(m))
  <1> DEFINE n == IF g.asked = "yes" THEN "yes" ELSE "lost"
  <1>1. [Heard(g) EXCEPT !.debounce = b] = Asks(g, "yes", b)
    BY DEF Heard, Asks
  <1>2. [Unheard(g) EXCEPT !.debounce = b] = Asks(g, n, b)
    BY DEF Unheard, Asks
  <1>3. n \in Fates /\ n # "no" /\ "yes" \in Fates
    BY DEF Fates
  <1> HIDE DEF n
  <1>4. ASSUME NEW a \in Fates, a # "no"
        PROVE  LET m == Asks(g, a, b) IN
               /\ m \in Managers /\ m.late = g.late /\ m.asked # "no" /\ m.lock = g.lock
               /\ Locked(g) => Locked(m)
               /\ (Kept(g) => Kept(m)) /\ (Ends(g) => Ends(m))
    BY <1>4, AsksParts
  <1>5. \A m \in Calls(g, b) : m = Asks(g, "yes", b) \/ m = Asks(g, n, b)
    BY <1>1, <1>2 DEF Calls
  <1> QED BY <1>3, <1>4, <1>5

LEMMA NoDebounce ==
  ASSUME NEW g \in Managers
  PROVE  /\ Heard(g) = [Heard(g) EXCEPT !.debounce = g.debounce]
         /\ Unheard(g) = [Unheard(g) EXCEPT !.debounce = g.debounce]
         /\ g.debounce \in BOOLEAN
  BY DEF Heard, Unheard, Managers

LEMMA DebounceFiresKeeps ==
  ASSUME gw \in Managers, DebounceFires
  PROVE  Good(gw, gw')
  <1>1. PICK m \in Calls(gw, FALSE) : gw' = RestartCall(m)
    BY DEF DebounceFires, Calls
  <1>2. /\ m \in Managers /\ m.late = gw.late /\ m.asked # "no"
        /\ Locked(gw) => Locked(m)
        /\ (Kept(gw) => Kept(m)) /\ (Ends(gw) => Ends(m))
    BY CallsKeep
  <1>3. /\ Method(m, gw')
        /\ Kept(m) /\ m.asked # "no" => Kept(gw') /\ (Ends(m) => Ends(gw'))
    BY <1>1, <1>2, RestartCallKeeps
  <1> QED BY <1>2, <1>3 DEF Good, Method

LEMMA UserRestartKeeps ==
  ASSUME gw \in Managers, UserRestart
  PROVE  Good(gw, gw')
  <1> DEFINE h == [Heard(gw) EXCEPT !.debounce = gw.debounce]
             u == [Unheard(gw) EXCEPT !.debounce = gw.debounce]
             d == [Unheard(gw) EXCEPT !.debounce = TRUE]
  <1>1. gw' = d \/ \E m \in {h, u} : gw' = RestartCall(m)
    BY NoDebounce DEF UserRestart
  <1>2. ASSUME NEW m \in {h, u, d}
        PROVE  /\ m \in Managers /\ m.late = gw.late /\ m.asked # "no"
               /\ Locked(gw) => Locked(m)
               /\ (Kept(gw) => Kept(m)) /\ (Ends(gw) => Ends(m))
    <2>1. \E b \in BOOLEAN : m \in Calls(gw, b)
      BY <1>2, NoDebounce DEF Calls
    <2> QED BY <2>1, CallsKeep
  <1> HIDE DEF h, u, d
  <1>3. ASSUME NEW m \in {h, u}, gw' = RestartCall(m)
        PROVE  Good(gw, gw')
    <2>1. /\ Method(m, gw')
          /\ Kept(m) /\ m.asked # "no" => Kept(gw') /\ (Ends(m) => Ends(gw'))
      BY <1>2, <1>3, RestartCallKeeps
    <2> QED BY <1>2, <2>1 DEF Good, Method
  <1>4. CASE gw' = d
    BY <1>2, <1>4 DEF Good
  <1> QED BY <1>1, <1>3, <1>4

LEMMA UserStartKeeps ==
  ASSUME gw \in Managers, UserStart
  PROVE  Good(gw, gw')
  <1> DEFINE h == [Heard(gw) EXCEPT !.debounce = gw.debounce]
             u == [Unheard(gw) EXCEPT !.debounce = gw.debounce]
  <1>1. gw' = u \/ (gw' = StartTakes(h, "user") /\ ~gw.lock)
    BY NoDebounce DEF UserStart
  <1>2. ASSUME NEW m \in {h, u}
        PROVE  /\ m \in Managers /\ m.late = gw.late /\ m.asked # "no" /\ m.lock = gw.lock
               /\ Locked(gw) => Locked(m)
               /\ (Kept(gw) => Kept(m)) /\ (Ends(gw) => Ends(m))
    <2>1. \E b \in BOOLEAN : m \in Calls(gw, b)
      BY <1>2, NoDebounce DEF Calls
    <2> QED BY <2>1, CallsKeep
  <1> HIDE DEF h, u
  <1>3. CASE gw' = u
    BY <1>2, <1>3 DEF Good
  <1>4. CASE gw' = StartTakes(h, "user") /\ ~gw.lock
    <2>1. /\ Method(h, gw')
          /\ Kept(h) /\ ~h.lock /\ h.asked # "no" => Kept(gw') /\ Ends(gw')
      BY <1>2, <1>4, StartTakesKeeps
    <2> QED BY <1>2, <1>4, <2>1 DEF Good, Method
  <1> QED BY <1>1, <1>3, <1>4

LEMMA UserStopKeeps ==
  ASSUME gw \in Managers, UserStop
  PROVE  Good(gw, gw')
  <1> DEFINE a == IF gw.restart THEN "lost" ELSE "no"
             m == Asks(gw, a, gw.debounce)
  <1>1. gw' = StopCall([gw EXCEPT !.asked = a], "user")
    BY DEF UserStop
  <1>2. a \in Fates /\ gw.debounce \in BOOLEAN /\ (a = "no" => ~gw.restart)
    BY DEF Managers, Fates
  <1>3. [gw EXCEPT !.asked = a] = m
    BY DEF Asks, Managers
  <1> HIDE DEF a
  <1>4. /\ m \in Managers /\ m.late = gw.late /\ m.asked = a
        /\ m.proc = gw.proc /\ m.cur = gw.cur /\ m.owns = gw.owns
        /\ m.lock = gw.lock /\ m.flow = gw.flow /\ m.stops = gw.stops
        /\ m.restart = gw.restart /\ m.epoch = gw.epoch
        /\ Locked(gw) => Locked(m)
    BY <1>2, AsksParts
  <1> HIDE DEF m
  <1>5. /\ Method(m, gw')
        /\ Holds(m) /\ Starts(m) /\ Restarts(m) /\ Stale(m) /\ (m.asked = "no" => ~m.restart)
             => Kept(gw') /\ Ends(gw')
    BY <1>1, <1>3, <1>4, StopCallKeeps DEF Callers
  <1>6. Kept(gw) /\ Ends(gw) => Holds(m) /\ Starts(m) /\ Restarts(m) /\ Stale(m)
    BY <1>4 DEF Kept, Holds, Starts, Restarts, Ends, Stale, Alive
  <1> QED BY <1>2, <1>4, <1>5, <1>6 DEF Good, Method
\* requestOwnedProcessRecovery.
LEMMA RecoversKeeps ==
  ASSUME NEW g \in Managers
  PROVE  LET h == Recovers(g) IN
         Method(g, h) /\ (Kept(g) => Kept(h) /\ (Ends(g) => Ends(h)))
  <1> DEFINE h == Recovers(g)
             e == [g EXCEPT !.escalate = TRUE]
  <1>1. h = g \/ h = e \/ (h = RestartCall(g) /\ g.owns /\ g.want)
    BY DEF Recovers
  <1>2. e \in Managers /\ e.late = g.late /\ Same(g, e)
    BY DEF Managers, Same
  <1> HIDE DEF h, e
  <1>3. CASE h = g
    BY <1>3 DEF Method, h
  <1>4. CASE h = e
    BY <1>2, <1>4, SameKeeps DEF Method, Locked, Same, h
  <1>5. CASE h = RestartCall(g) /\ g.owns /\ g.want
    <2>1. Kept(g) => g.asked # "no"
      BY <1>5 DEF Kept, Off
    <2>2. Method(g, h) /\ (Kept(g) /\ g.asked # "no" => Kept(h) /\ (Ends(g) => Ends(h)))
      BY <1>5, RestartCallKeeps
    <2> QED BY <2>1, <2>2 DEF h
  <1> QED BY <1>1, <1>3, <1>4, <1>5

\* The deadline, the escalation, the cooldown and a message.
LEMMA WatchKeeps ==
  ASSUME gw \in Managers, DeadlineFails \/ EscalationFires \/ CooldownEnds \/ MessageArrives
  PROVE  Good(gw, gw')
  <1> DEFINE put(c, w, e) == [gw EXCEPT !.cool = c, !.watch = w, !.escalate = e]
  <1>1. \E c, w, e \in BOOLEAN : gw' = put(c, w, e) \/ gw' = Recovers(put(c, w, e))
    <2>1. gw.cool \in BOOLEAN /\ gw.watch \in BOOLEAN /\ gw.escalate \in BOOLEAN
      BY DEF Managers
    <2>2. /\ [gw EXCEPT !.watch = FALSE] = put(gw.cool, FALSE, gw.escalate)
          /\ [gw EXCEPT !.escalate = FALSE] = put(gw.cool, gw.watch, FALSE)
          /\ [gw EXCEPT !.cool = FALSE] = put(FALSE, gw.watch, gw.escalate)
          /\ [gw EXCEPT !.watch = TRUE, !.escalate = FALSE] = put(gw.cool, TRUE, FALSE)
      BY DEF Managers
    <2> HIDE DEF put
    <2>3. CASE DeadlineFails
      BY <2>1, <2>2, <2>3 DEF DeadlineFails
    <2>4. CASE EscalationFires
      BY <2>1, <2>2, <2>4 DEF EscalationFires
    <2>5. CASE CooldownEnds
      BY <2>1, <2>2, <2>5 DEF CooldownEnds
    <2>6. CASE MessageArrives
      BY <2>1, <2>2, <2>6 DEF MessageArrives
    <2> QED BY <2>3, <2>4, <2>5, <2>6
  <1>2. PICK c \in BOOLEAN, w \in BOOLEAN, e \in BOOLEAN :
          gw' = put(c, w, e) \/ gw' = Recovers(put(c, w, e))
    BY <1>1
  <1> DEFINE m == put(c, w, e)
  <1>3. m \in Managers /\ m.late = gw.late /\ Same(gw, m)
    BY DEF Managers, Same
  <1>4. gw' = m \/ gw' = Recovers(m)
    BY <1>2
  <1> HIDE DEF m
  <1>5. CASE gw' = m
    BY <1>3, <1>5, SameIsGood
  <1>6. CASE gw' = Recovers(m)
    <2>1. Method(m, gw') /\ (Kept(m) => Kept(gw') /\ (Ends(m) => Ends(gw')))
      BY <1>3, <1>6, RecoversKeeps
    <2>2. (Kept(gw) => Kept(m)) /\ (Ends(gw) => Ends(m)) /\ (Locked(gw) => Locked(m))
      BY <1>3, SameKeeps DEF Locked, Same
    <2> QED BY <1>3, <2>1, <2>2 DEF Good, Method
  <1> QED BY <1>4, <1>5, <1>6

\* A process changes without having ended.
LEMMA ProcParts ==
  ASSUME NEW g \in Managers, NEW p \in Gateways, Alive(g, p), g.proc[p] # "killed",
         NEW s \in {"booting", "serving"}
  PROVE  LET m == [g EXCEPT !.proc[p] = s] IN
         /\ m \in Managers /\ m.late = g.late /\ (Locked(g) => Locked(m))
         /\ m.ws = g.ws /\ m.want = g.want /\ m.asked = g.asked
         /\ Kept(g) /\ Ends(g) => Kept(m) /\ Ends(m)
  <1> DEFINE K == [g.proc EXCEPT ![p] = s]
             put(k) == [g EXCEPT !.proc = k]
             m == put(K)
  <1>1. g.proc \in [Gateways -> {"none", "booting", "serving", "killed", "gone"}]
    BY DEF Managers
  <1>2. K \in [Gateways -> {"none", "booting", "serving", "killed", "gone"}]
        /\ \A q \in Gateways : K[q] = IF q = p THEN s ELSE g.proc[q]
    BY <1>1
  <1> HIDE DEF K
  <1>3. m \in Managers
    <2>1. ASSUME NEW k \in [Gateways -> {"none", "booting", "serving", "killed", "gone"}]
          PROVE  put(k) \in Managers
      BY <2>1 DEF Managers
    <2> HIDE DEF put
    <2> QED BY <1>2, <2>1
  <1>4. /\ m.late = g.late /\ m.proc = K
        /\ m.cur = g.cur /\ m.owns = g.owns /\ m.lock = g.lock /\ m.flow = g.flow
        /\ m.stops = g.stops /\ m.restart = g.restart /\ m.timer = g.timer
        /\ m.deferred = g.deferred /\ m.want = g.want /\ m.asked = g.asked
        /\ m.epoch = g.epoch /\ m.ws = g.ws
    BY DEF Managers
  <1> HIDE DEF m
  <1>5. \A q \in Gateways : Alive(m, q) <=> Alive(g, q)
    BY <1>2, <1>4 DEF Alive
  <1>6. Kept(g) => Kept(m)
    BY <1>4, <1>5 DEF Kept, Holds, Starts, Restarts, Off
  <1>7. Kept(g) /\ Ends(g) => g.flow.pc # "terminate"
    BY DEF Kept, Holds, Ends
  <1>8. Locked(g) => Locked(m)
    BY <1>4 DEF Locked
  <1> QED BY <1>3, <1>4, <1>6, <1>7, <1>8 DEF Ends, m, put, K

LEMMA BootKeeps ==
  ASSUME gw \in Managers, NEW p \in Gateways, Boot(p)
  PROVE  Good(gw, gw')
  <1> DEFINE m == [gw EXCEPT !.proc[p] = "serving"]
  <1>1. gw' = m /\ Alive(gw, p) /\ gw.proc[p] # "killed"
    BY DEF Boot, Alive
  <1>2. /\ m \in Managers /\ m.late = gw.late /\ (Locked(gw) => Locked(m))
        /\ Kept(gw) /\ Ends(gw) => Kept(m) /\ Ends(m)
    BY <1>1, ProcParts
  <1> HIDE DEF m
  <1> QED BY <1>1, <1>2 DEF Good

\* onCloseAfterHandshake.
LEMMA SocketClosedKeeps ==
  ASSUME NEW g \in Managers, g.ws # 0
  PROVE  LET h == SocketClosed(g) IN
         Method(g, h) /\ (Kept(g) /\ Ends(g) => Kept(h) /\ Ends(h))
  <1> DEFINE put(w) == [g EXCEPT !.ws = w]
             c == put(0)
             closed == CancelDeadline(c)
             seen == SetState(closed, "stopped")
             h == SocketClosed(g)
  <1>1. h = closed \/ h = ScheduleReconnect(seen)
    BY DEF SocketClosed
  <1>2. c \in Managers
    BY DEF Managers, Slots
  <1>3. /\ c.late = g.late /\ c.ws = 0 /\ c.proc = g.proc
        /\ c.cur = g.cur /\ c.owns = g.owns /\ c.lock = g.lock /\ c.flow = g.flow
        /\ c.stops = g.stops /\ c.restart = g.restart /\ c.timer = g.timer
        /\ c.deferred = g.deferred /\ c.want = g.want /\ c.asked = g.asked
        /\ c.epoch = g.epoch
    BY DEF Managers, Slots
  <1> HIDE DEF c
  <1>4. Method(c, closed) /\ Same(c, closed)
    BY <1>2, CancelKeeps
  <1> HIDE DEF closed, h
  <1>5. closed \in Managers
    BY <1>4 DEF Method
  <1>6. /\ Method(closed, seen) /\ seen.asked = closed.asked
        /\ ~closed.want => seen.want = FALSE
        /\ Kept(closed) => Kept(seen) /\ (Ends(closed) => Ends(seen))
    BY <1>5, SetStateKeeps
  <1> HIDE DEF seen
  <1>7. /\ Method(seen, ScheduleReconnect(seen))
        /\ Kept(seen) /\ (seen.asked = "no" => ~seen.want)
             => Kept(ScheduleReconnect(seen)) /\ (Ends(seen) => Ends(ScheduleReconnect(seen)))
    BY <1>6, ScheduleReconnectKeeps DEF Method
  <1>8. Method(g, h)
    BY <1>1, <1>3, <1>4, <1>6, <1>7 DEF Method, Locked
  <1>9. ASSUME Kept(g), Ends(g)
        PROVE  Kept(h) /\ Ends(h)
    <2>1. Kept(c) /\ Ends(c)
      BY <1>3, <1>9 DEF Kept, Holds, Starts, Restarts, Off, Ends, Alive
    <2>2. Kept(closed) /\ Ends(closed)
      BY <1>2, <1>4, <1>5, <2>1, SameKeeps
    <2>3. closed.asked = "no" => ~closed.want
      BY <1>3, <1>4, <1>9 DEF Kept, Off, Same
    <2> QED BY <1>1, <1>6, <1>7, <2>2, <2>3
  <1> QED BY <1>8, <1>9 DEF h

LEMMA SocketClosesKeeps ==
  ASSUME gw \in Managers, SocketCloses \/ Reload
  PROVE  Good(gw, gw')
  <1>1. CASE SocketCloses
    <2>1. gw.ws # 0 /\ gw' = SocketClosed(gw)
      BY <1>1 DEF SocketCloses
    <2> QED BY <2>1, SocketClosedKeeps DEF Good, Method
  <1>2. CASE Reload
    <2> DEFINE m == [gw EXCEPT !.proc[gw.ws] = "booting"]
    <2>1. gw.ws \in Gateways /\ gw.proc[gw.ws] = "serving" /\ gw' = SocketClosed(m)
      BY <1>2 DEF Reload, Serving
    <2>2. Alive(gw, gw.ws) /\ gw.ws # 0
      BY <2>1, GatewayAssumption DEF Alive, Gateways
    <2>3. /\ m \in Managers /\ m.late = gw.late /\ (Locked(gw) => Locked(m)) /\ m.ws = gw.ws
          /\ Kept(gw) /\ Ends(gw) => Kept(m) /\ Ends(m)
      BY <2>1, <2>2, ProcParts
    <2> HIDE DEF m
    <2>4. Method(m, gw') /\ (Kept(m) /\ Ends(m) => Kept(gw') /\ Ends(gw'))
      BY <2>1, <2>2, <2>3, SocketClosedKeeps
    <2> QED BY <2>3, <2>4 DEF Good, Method
  <1> QED BY <1>1, <1>2
-----------------------------------------------------------------------------
(* The invariant and the theorems *)

HeldInv ==
  /\ gw \in Managers
  /\ Locked(gw)
  /\ gw.late \/ (Kept(gw) /\ Ends(gw))

LEMMA GatewayStarts ==
  ASSUME GatewayInit
  PROVE  HeldInv
  <1> DEFINE procs == [p \in Gateways |-> "none"]
             stops == [who \in Callers |-> NoStop]
             m(i, k, s) ==
               [state |-> "stopped", epoch |-> 0, want |-> TRUE, identity |-> i,
                cur |-> 0, owns |-> FALSE, exited |-> FALSE, ws |-> 0, proc |-> k,
                lock |-> FALSE, flow |-> NoFlow, stops |-> s, restart |-> FALSE,
                timer |-> 0, auto |-> FALSE, attempts |-> 0,
                deferred |-> "none", cool |-> FALSE, debounce |-> FALSE,
                watch |-> FALSE, escalate |-> FALSE,
                owed |-> FALSE, asked |-> "no", late |-> FALSE]
  <1>1. budget.identity \in BOOLEAN
    BY GatewayAssumption DEF GatewayInit
  <1>2. procs \in [Gateways -> {"none", "booting", "serving", "killed", "gone"}]
        /\ stops \in [Callers -> Stops] /\ NoFlow \in Flows
    BY DEF NoStop, Stops, Slots, NoFlow, Flows
  <1>3. gw = m(budget.identity, procs, stops)
    BY DEF GatewayInit
  <1> HIDE DEF procs, stops
  <1>4. gw \in Managers
    <2>1. ASSUME NEW i \in BOOLEAN,
                 NEW k \in [Gateways -> {"none", "booting", "serving", "killed", "gone"}],
                 NEW s \in [Callers -> Stops], NoFlow \in Flows
          PROVE  m(i, k, s) \in Managers
      BY <2>1 DEF Managers, Slots
    <2> HIDE DEF m
    <2> QED BY <1>1, <1>2, <1>3, <2>1
  <1>5. /\ gw.proc = procs /\ gw.cur = 0 /\ gw.owns = FALSE /\ gw.lock = FALSE
        /\ gw.flow = NoFlow /\ gw.stops = stops /\ gw.restart = FALSE /\ gw.timer = 0
        /\ gw.deferred = "none" /\ gw.epoch = 0 /\ gw.ws = 0
    BY <1>3
  <1>6. /\ \A p \in Gateways : gw.proc[p] = "none"
        /\ gw.stops["restart"].pc = "idle" /\ gw.flow.pc = "idle" /\ gw.flow.epoch = 0
    BY <1>5 DEF procs, stops, NoStop, NoFlow, Callers
  <1> QED BY <1>4, <1>5, <1>6
          DEF HeldInv, Locked, Kept, Holds, Starts, Restarts, Off, Ends, Alive

LEMMA GatewaySteps ==
  ASSUME HeldInv, [GatewayNext]_gatewayVars
  PROVE  HeldInv'
  <1> USE DEF HeldInv
  <1>1. ASSUME Good(gw, gw')
        PROVE  HeldInv'
    BY <1>1 DEF Good
  <1>2. CASE StartSteps
    BY <1>1, <1>2, IdentityLoadsKeeps, FindKeeps, ReadyKeeps, OwnedReadyKeeps,
       ConnectGatewayKeeps, RepairKeeps, DelayedKeeps, LaunchKeeps DEF StartSteps
  <1>3. CASE ReconnectFires \/ DebounceFires \/ CooldownEnds \/ EscalationFires \/ SocketCloses
    BY <1>1, <1>3, ReconnectFiresKeeps, DebounceFiresKeeps, WatchKeeps, SocketClosesKeeps
  <1>4. CASE \E who \in Callers : StopAnswered(who) \/ StopTimesOut(who)
    BY <1>1, <1>4, StopAnsweredKeeps, StopTimesOutKeeps
  <1>5. CASE \E p \in Gateways : Boot(p) \/ ProcessEnds(p) \/ ProcessCrashes(p)
    BY <1>1, <1>5, BootKeeps, ProcessEndsKeeps, ProcessCrashesKeeps
  <1>6. CASE UserStart \/ UserStop \/ UserRestart
    BY <1>1, <1>6, UserStartKeeps, UserStopKeeps, UserRestartKeeps
  <1>7. CASE DeadlineFails \/ MessageArrives \/ Reload
    BY <1>1, <1>7, WatchKeeps, SocketClosesKeeps
  <1>8. CASE UNCHANGED gatewayVars
    BY <1>8 DEF gatewayVars, Locked, Kept, Holds, Starts, Restarts, Off, Ends, Alive
  <1> QED BY <1>2, <1>3, <1>4, <1>5, <1>6, <1>7, <1>8 DEF GatewayNext, GatewayProgress

\* The invariant: what the manager holds, owns, awaits and wants.
THEOREM GatewayInductive == GatewaySpec => []HeldInv
  <1> QED BY GatewayStarts, GatewaySteps, PTL DEF GatewaySpec

\* The fields of the manager have their types, and the lock (startLock) is held
\* exactly while a start is under way.
THEOREM GatewayTyped == GatewaySpec => []GatewayTypeOK
  <1>1. HeldInv => GatewayTypeOK
    BY DEF HeldInv, Locked, GatewayTypeOK, Managers, Slots
  <1> QED BY <1>1, GatewayInductive, PTL

\* A Gateway that nobody ends is the one the manager holds and owns, whatever
\* stops, reloads, crashes and failing attempts come between the awaits of
\* start(), stop() and restart(); so there are never two.
THEOREM GatewayIsHeld == GatewaySpec => []GatewayHeld
  <1>1. HeldInv => GatewayHeld
    BY DEF HeldInv, GatewayHeld, Kept, Holds, Alive, Running
  <1> QED BY <1>1, GatewayInductive, PTL

\* Neither a reconnection nor a deferred restart nor a recovery starts a Gateway
\* the user has stopped: the start under way is a call's or has been superseded.
THEOREM GatewayStopFinal == GatewaySpec => []StopIsFinal
  <1>1. HeldInv => StopIsFinal
    BY DEF HeldInv, StopIsFinal, Kept, Off
  <1> QED BY <1>1, GatewayInductive, PTL
=============================================================================
