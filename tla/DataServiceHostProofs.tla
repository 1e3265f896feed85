------------------------ MODULE DataServiceHostProofs ------------------------
(***************************************************************************)
(* At most one utility process works on the database: OneService for every   *)
(* number of clients, processes, restarts and failures.  The server knows    *)
(* the clients of the map when no attempt is under way: ScopesServed.        *)
(*                                                                          *)
(* OneService alone is not inductive: ensureReady spawns when the host is    *)
(* not usable and no attempt is under way, and it takes the two other        *)
(* conjuncts of HostInv to know that no process is left then.  ScopesServed  *)
(* says nothing while the loop of reconnections runs: ServedInv says what    *)
(* that loop has done, what its request on the wire will do, and why no      *)
(* request that is older disturbs either.                                   *)
(***************************************************************************)
EXTENDS DataServiceHost, FiniteSetTheorems, SequenceTheorems, TLAPS

\* A process that starts belongs to the attempt under way.
StartingIsAwaited ==
  \A n \in Procs : process[n].state = "starting"
                     => attempt.at = "starting" /\ attempt.proc = n

\* The host is ready when a process serves.
ServingIsReady == \A n \in Procs : process[n].state = "serving" => host.ready

Hosts == [transport : Nat, ready : BOOLEAN, restarts : Nat,
          close : {"no", "closing", "closed"}, main : {"booting", "up", "gone"}]
USE DEF Hosts

Shapes ==
  /\ process = [n \in Procs |-> process[n]]
  /\ host \in Hosts

HostInv == Shapes /\ OneService /\ StartingIsAwaited /\ ServingIsReady

\* How the end of an attempt changes the host (Succeeds, Fails): it keeps the
\* transport, so no conjunct of HostInv but StartingIsAwaited depends on it.
LEMMA AttemptEnds ==
  ASSUME NEW h \in Hosts, NEW w, Succeeds(h, w) \/ Fails(h)
  PROVE  /\ host' \in Hosts
         /\ host'.transport = h.transport /\ host'.ready = h.ready
         /\ attempt'.at = "none"
  <1>1. attempt' = NoAttempt
    BY DEF Succeeds, Fails
  <1>2. CASE Succeeds(h, w)
    <2>1. host' = [h EXCEPT !.restarts = 0, !.main = "up"]
      BY <1>2 DEF Succeeds
    <2> QED BY <1>1, <2>1 DEF NoAttempt, Attempt
  <1>3. CASE Fails(h)
    <2>1. PICK gone \in BOOLEAN : host' = [h EXCEPT !.main = IF gone THEN "gone" ELSE h.main]
      BY <1>3 DEF Fails
    <2> QED BY <1>1, <2>1 DEF NoAttempt, Attempt
  <1> QED BY <1>2, <1>3

\* The loop of reconnections (Reconnects) goes on or ends; either way no
\* process of the attempt is starting any more.
LEMMA LoopGoesOn ==
  ASSUME NEW h \in Hosts, NEW w, Reconnects(h, w)
  PROVE  /\ host' \in Hosts
         /\ host'.transport = h.transport /\ host'.ready = h.ready
         /\ attempt'.at \in {"none", "loop"}
  <1>1. CASE Succeeds(h, w)
    BY <1>1, AttemptEnds
  <1>2. ASSUME NEW k, Reconnect(h, w, k)
        PROVE  host' = h /\ attempt'.at = "loop"
    BY <1>2 DEF Reconnect, Attempt
  <1> QED BY <1>1, <1>2 DEF Reconnects

\* The start of Main: one process, awaited.
LEMMA HostInvInit == HostInit => HostInv
  BY HostAssumption
  DEF HostInit, HostInv, Shapes, OneService, StartingIsAwaited, ServingIsReady,
      Attempt, Service, Procs, Alive

\* A new process (Spawn) is the transport and is awaited; nothing else is alive.
LEMMA SpawnKeeps ==
  ASSUME NEW h \in Hosts, NEW m \in Procs, Spawn(h, m),
         process' = [n \in Procs |-> process'[n]],
         process'[m].state = "starting",
         \A p \in Procs \ {m} : process'[p].state \notin Alive
  PROVE  HostInv'
  <1>1. /\ host' = [h EXCEPT !.transport = m, !.ready = FALSE]
        /\ attempt' = Attempt("starting", m, {})
    BY DEF Spawn
  <1>2. m \in Nat
    BY HostAssumption DEF Procs
  <1>3. Shapes'
    BY <1>1, <1>2 DEF Shapes
  <1>4. OneService'
    BY <1>1 DEF OneService
  <1>5. StartingIsAwaited'
    BY <1>1 DEF StartingIsAwaited, Attempt, Alive
  <1>6. ServingIsReady'
    BY DEF ServingIsReady, Alive
  <1> QED BY <1>3, <1>4, <1>5, <1>6 DEF HostInv

\* The process comes up: the attempt it belongs to enters the loop.
LEMMA ProcessReadyKeeps ==
  ASSUME HostInv, NEW n \in Procs, ProcessReady(n)
  PROVE  HostInv'
  <1> DEFINE h == [host EXCEPT !.ready = TRUE]
  <1>1. /\ attempt.at = "starting" /\ attempt.proc = n
        /\ \A p \in Procs \ {n} : process[p].state # "starting"
        /\ host.transport = n
    BY DEF HostInv, OneService, StartingIsAwaited, ProcessReady, Alive
  <1>2. Reconnects(h, wire)
    BY <1>1 DEF ProcessReady
  <1>3. h \in Hosts
        /\ h.transport = n /\ h.ready
    BY <1>1 DEF HostInv, Shapes
  <1> HIDE DEF h
  <1>4. /\ host' \in Hosts
        /\ host'.transport = n /\ host'.ready
    BY <1>2, <1>3, LoopGoesOn
  <1>5. /\ process' = [process EXCEPT ![n] = Service("serving")]
        /\ process = [p \in Procs |-> process[p]]
    BY DEF ProcessReady, HostInv, Shapes
  <1>6. /\ process' = [p \in Procs |-> process'[p]]
        /\ process'[n].state = "serving"
        /\ \A p \in Procs \ {n} : process'[p] = process[p]
    BY <1>5 DEF Service
  <1>7. \A p \in Procs : process'[p].state \in Alive => p = n
    BY <1>1, <1>6 DEF HostInv, OneService
  <1>8. \A p \in Procs : process'[p].state # "starting"
    BY <1>1, <1>6
  <1> QED BY <1>4, <1>6, <1>7, <1>8
      DEF HostInv, Shapes, OneService, StartingIsAwaited, ServingIsReady

\* A start-up that takes too long: its process is killed, its attempt fails.
LEMMA StartupTimeoutKeeps ==
  ASSUME HostInv, NEW n \in Procs, StartupTimeout(n)
  PROVE  HostInv'
  <1>1. /\ process' = [process EXCEPT ![n] = Service("killed")]
        /\ Fails(host) /\ attempt.proc = n
        /\ process = [p \in Procs |-> process[p]]
    BY DEF StartupTimeout, HostInv, Shapes
  <1>2. /\ process' = [p \in Procs |-> process'[p]]
        /\ process'[n].state = "killed"
        /\ \A p \in Procs \ {n} : process'[p] = process[p]
    BY <1>1 DEF Service
  <1>3. /\ host' \in Hosts
        /\ host'.transport = host.transport /\ host'.ready = host.ready
    BY <1>1, AttemptEnds DEF HostInv, Shapes
  <1>4. \A p \in Procs : process'[p].state # "starting"
    BY <1>1, <1>2 DEF HostInv, StartingIsAwaited
  <1> QED BY <1>2, <1>3, <1>4
      DEF HostInv, Shapes, OneService, StartingIsAwaited, ServingIsReady, Alive

\* An exit, noticed or not, with or without an automatic restart.
LEMMA ExitKeeps ==
  ASSUME HostInv, NEW n \in Procs, Exit(n)
  PROVE  HostInv'
  <1> DEFINE mine == host.transport = n
             tried == attempt.at # "none" /\ attempt.proc = n
             counted == [host EXCEPT !.transport = 0, !.ready = FALSE,
                                     !.restarts = IF host.close = "no" THEN @ + 1 ELSE @,
                                     !.close = IF @ = "closing" THEN "closed" ELSE @]
             again == /\ mine /\ attempt.at = "none" /\ host.close = "no"
                      /\ counted.restarts <= MaxAutoRestarts
             h == IF mine THEN counted ELSE host
  <1>1. host \in Hosts /\ process = [p \in Procs |-> process[p]]
    BY DEF HostInv, Shapes
  <1>2. counted \in Hosts /\ counted.transport = 0 /\ ~counted.ready
    <2> DEFINE restarts == IF host.close = "no" THEN host.restarts + 1 ELSE host.restarts
               close == IF host.close = "closing" THEN "closed" ELSE host.close
    <2>1. restarts \in Nat /\ close \in {"no", "closing", "closed"}
      BY <1>1
    <2>2. counted = [host EXCEPT !.transport = 0, !.ready = FALSE,
                                 !.restarts = restarts, !.close = close]
      OBVIOUS
    <2> HIDE DEF restarts, close, counted
    <2> QED BY <1>1, <2>1, <2>2
  <1>3. n # 0 /\ process[n].state \in {"starting", "serving", "killed"}
    BY HostAssumption DEF Exit, Procs, Alive
  <1>4. \/ /\ again
           /\ \E m \in Procs : /\ Spawn(counted, m)
                               /\ process' = [process EXCEPT ![n] = Service("gone"),
                                                             ![m] = Service("starting")]
        \/ /\ ~again
           /\ process' = [process EXCEPT ![n] = Service("gone")]
           /\ IF tried THEN Fails(h) ELSE host' = h /\ UNCHANGED attempt
    BY DEF Exit
  <1> HIDE DEF counted
  <1>5. CASE again
    <2>1. PICK m \in Procs : /\ Spawn(counted, m)
                             /\ process' = [process EXCEPT ![n] = Service("gone"),
                                                           ![m] = Service("starting")]
      BY <1>4, <1>5
    <2>2. /\ process' = [p \in Procs |-> process'[p]]
          /\ process'[m].state = "starting"
          /\ \A p \in Procs \ {m} : process'[p] = IF p = n THEN Service("gone") ELSE process[p]
      BY <1>1, <2>1 DEF Service
    <2>3. \A p \in Procs \ {m} : process'[p].state \notin Alive
      BY <1>5, <2>2 DEF HostInv, OneService, Alive, Service
    <2> QED BY <1>2, <2>1, <2>2, <2>3, SpawnKeeps
  <1>6. CASE ~again
    <2>1. /\ process' = [p \in Procs |-> process'[p]]
          /\ process'[n].state = "gone"
          /\ \A p \in Procs \ {n} : process'[p] = process[p]
      BY <1>1, <1>4, <1>6 DEF Service
    <2>2. h \in Hosts /\ (mine => h = counted) /\ (~mine => h = host)
      BY <1>1, <1>2
    <2>3. /\ host' \in Hosts /\ host'.transport = h.transport /\ host'.ready = h.ready
          /\ attempt' = attempt \/ (tried /\ attempt'.at = "none")
      <3>1. CASE tried
        BY <1>4, <1>6, <2>2, <3>1, AttemptEnds
      <3>2. CASE ~tried
        BY <1>4, <1>6, <2>2, <3>2
      <3> QED BY <3>1, <3>2
    <2>4. OneService'
      BY <1>3, <2>1, <2>2, <2>3 DEF HostInv, OneService, Alive
    <2>5. StartingIsAwaited'
      BY <2>1, <2>3 DEF HostInv, StartingIsAwaited
    <2>6. ServingIsReady'
      BY <2>1, <2>2, <2>3 DEF HostInv, ServingIsReady, OneService, Alive
    <2> QED BY <2>1, <2>3, <2>4, <2>5, <2>6 DEF HostInv, Shapes
  <1> QED BY <1>5, <1>6

\* ensureReady: when it spawns, no process is left.
LEMMA AsksKeeps ==
  ASSUME HostInv, NEW k \in Clients, NEW kind, Asks(k, kind)
  PROVE  HostInv'
  <1>1. CASE UNCHANGED <<host, attempt, process>>
    BY <1>1 DEF HostInv, Shapes, OneService, StartingIsAwaited, ServingIsReady
  <1>2. CASE ~UNCHANGED <<host, attempt, process>>
    <2>1. /\ ~Usable(host) /\ attempt.at = "none"
          /\ \E n \in Procs : /\ Spawn(host, n)
                              /\ process' = [process EXCEPT ![n] = Service("starting")]
      BY <1>2 DEF Asks
    <2>2. PICK n \in Procs : /\ Spawn(host, n)
                             /\ process' = [process EXCEPT ![n] = Service("starting")]
      BY <2>1
    <2>3. \A p \in Procs : process[p].state \notin Alive
      BY <2>1, HostAssumption
      DEF HostInv, OneService, StartingIsAwaited, ServingIsReady, Usable, Alive, Procs
    <2>4. /\ process' = [p \in Procs |-> process'[p]]
          /\ process'[n].state = "starting"
          /\ \A p \in Procs \ {n} : process'[p] = process[p]
      BY <2>2 DEF HostInv, Shapes, Service
    <2>5. \A p \in Procs \ {n} : process'[p].state \notin Alive
      BY <2>3, <2>4
    <2> QED BY <2>2, <2>4, <2>5, SpawnKeeps DEF HostInv, Shapes
  <1> QED BY <1>1, <1>2

\* A request is served: the loop may go on or end, the process keeps serving.
LEMMA ServeKeeps ==
  ASSUME HostInv, Serve
  PROVE  HostInv'
  <1> DEFINE r == Head(wire)
  <1>1. /\ process' = [p \in Procs |-> process'[p]]
        /\ \A p \in Procs : process'[p].state = process[p].state
    BY DEF Serve, HostInv, Shapes
  <1>2. \/ UNCHANGED <<host, attempt>>
        \/ attempt.at = "loop" /\ (Reconnects(host, Tail(wire)) \/ Fails(host))
    BY DEF Serve, ConnectServed, ReconnectServed, CallServed, LoopAwaits
  <1>3. host \in Hosts
    BY DEF HostInv, Shapes
  <1>4. /\ host' \in Hosts
        /\ host'.transport = host.transport /\ host'.ready = host.ready
        /\ attempt' = attempt \/ attempt.at = "loop"
    <2>1. CASE UNCHANGED <<host, attempt>>
      BY <1>3, <2>1
    <2>2. CASE attempt.at = "loop" /\ Reconnects(host, Tail(wire))
      BY <1>3, <2>2, LoopGoesOn
    <2>3. CASE attempt.at = "loop" /\ Fails(host)
      BY <1>3, <2>3, AttemptEnds
    <2> QED BY <1>2, <2>1, <2>2, <2>3
  <1> QED BY <1>1, <1>4
      DEF HostInv, Shapes, OneService, StartingIsAwaited, ServingIsReady

\* A request times out: the loop that awaits it fails.
LEMMA RequestTimeoutKeeps ==
  ASSUME HostInv, RequestTimeout
  PROVE  HostInv'
  <1>1. /\ process' = process
        /\ UNCHANGED <<host, attempt>> \/ (attempt.at = "loop" /\ Fails(host))
    BY DEF RequestTimeout, LoopAwaits
  <1>2. /\ host' \in Hosts
        /\ host'.transport = host.transport /\ host'.ready = host.ready
        /\ attempt' = attempt \/ attempt.at = "loop"
    <2>1. host \in Hosts
      BY DEF HostInv, Shapes
    <2>2. CASE UNCHANGED <<host, attempt>>
      BY <2>1, <2>2
    <2>3. CASE attempt.at = "loop" /\ Fails(host)
      BY <2>1, <2>3, AttemptEnds
    <2> QED BY <1>1, <2>2, <2>3
  <1> QED BY <1>1, <1>2
      DEF HostInv, Shapes, OneService, StartingIsAwaited, ServingIsReady

\* close begins: with no process alive it is over at once.
LEMMA CloseKeeps ==
  ASSUME HostInv, Close
  PROVE  HostInv'
  <1>1. host' \in {[host EXCEPT !.close = "closing"], Closed(host)}
        /\ UNCHANGED <<attempt, process>>
    BY DEF Close
  <1>2. CASE host' = [host EXCEPT !.close = "closing"]
    BY <1>1, <1>2 DEF HostInv, Shapes, OneService, StartingIsAwaited, ServingIsReady
  <1>3. CASE host' = Closed(host) /\ host' # [host EXCEPT !.close = "closing"]
    <2>1. host.transport = 0 \/ process[host.transport].state \notin Alive
      BY <1>3 DEF Close
    <2>2. \A p \in Procs : process[p].state \notin Alive
      BY <2>1, HostAssumption DEF HostInv, OneService, Procs
    <2>3. Shapes'
      BY <1>1, <1>3 DEF HostInv, Shapes, Closed
    <2> QED BY <1>1, <2>2, <2>3
        DEF HostInv, OneService, StartingIsAwaited, ServingIsReady, Alive
  <1> QED BY <1>1, <1>2, <1>3

\* close ends: the process is killed, a loop under way fails.
LEMMA CloseEndsKeeps ==
  ASSUME HostInv, CloseEnds
  PROVE  HostInv'
  <1> DEFINE n == host.transport
  <1>1. Closed(host) \in Hosts /\ host \in Hosts /\ process = [p \in Procs |-> process[p]]
    BY DEF HostInv, Shapes, Closed
  <1>2. /\ process' = [process EXCEPT ![n] = Service("killed")]
        /\ IF attempt.at = "loop" THEN Fails(Closed(host))
           ELSE host' = Closed(host) /\ UNCHANGED attempt
    BY DEF CloseEnds
  <1>3. /\ host' \in Hosts
        /\ attempt' = attempt \/ attempt.at = "loop"
    <2>1. CASE attempt.at = "loop"
      BY <1>1, <1>2, <2>1, AttemptEnds
    <2>2. CASE attempt.at # "loop"
      BY <1>1, <1>2, <2>2
    <2> QED BY <2>1, <2>2
  <1>4. /\ process' = [p \in Procs |-> process'[p]]
        /\ \A p \in Procs : process'[p].state = IF p = n THEN "killed" ELSE process[p].state
    BY <1>1, <1>2 DEF Service
  <1>5. \A p \in Procs : process'[p].state \notin Alive
    BY <1>4 DEF HostInv, OneService, Alive
  <1> QED BY <1>3, <1>4, <1>5
      DEF HostInv, Shapes, OneService, StartingIsAwaited, ServingIsReady, Alive

\* HostInv holds in every reachable state.
THEOREM HostInvariant == HostSpec => []HostInv
  <1>1. HostInit => HostInv
    BY HostInvInit
  <1>2. HostInv /\ [HostNext]_hostVars => HostInv'
    <2> SUFFICES ASSUME HostInv, [HostNext]_hostVars PROVE HostInv'
      OBVIOUS
    <2>1. CASE Serve
      BY <2>1, ServeKeeps
    <2>2. CASE RequestTimeout
      BY <2>2, RequestTimeoutKeeps
    <2>3. CASE Close
      BY <2>3, CloseKeeps
    <2>4. CASE CloseEnds
      BY <2>4, CloseEndsKeeps
    <2>5. ASSUME NEW n \in Procs, ProcessReady(n) \/ StartupTimeout(n) \/ Exit(n)
          PROVE  HostInv'
      BY <2>5, ProcessReadyKeeps, StartupTimeoutKeeps, ExitKeeps
    <2>6. ASSUME NEW k \in Clients, Connect(k) \/ Call(k)
          PROVE  HostInv'
      <3>1. \E kind : Asks(k, kind)
        BY <2>6 DEF Connect, Call
      <3> QED BY <3>1, AsksKeeps
    <2>7. ASSUME NEW k \in Clients, Disconnect(k)
          PROVE  HostInv'
      BY <2>7 DEF Disconnect, HostInv, Shapes, OneService, StartingIsAwaited, ServingIsReady
    <2>8. CASE UNCHANGED hostVars
      BY <2>8 DEF hostVars, HostInv, Shapes, OneService, StartingIsAwaited, ServingIsReady
    <2> QED BY <2>1, <2>2, <2>3, <2>4, <2>5, <2>6, <2>7, <2>8 DEF HostNext
  <1> QED BY <1>1, <1>2, PTL DEF HostSpec

\* One utility process at most works on the database (spawnAndReconnect,
\* handleExit, close), whatever crashes, hangs or comes too late.
THEOREM OneServiceHolds == HostSpec => []OneService
  <1>1. HostInv => OneService
    BY DEF HostInv
  <1> QED BY <1>1, HostInvariant, PTL
-----------------------------------------------------------------------------
(* The clients are served again *)

States == {"new", "await connect", "connecting", "connected", "await call", "calling",
           "disconnected"}
Connected == {"connected", "await call", "calling", "disconnected"}
Requests ==
  {r \in [kind : {"connect", "call", "reconnect", "disconnect", "shutdown"},
          of : Clients \cup {"none"}, dead : BOOLEAN] : r.kind # "shutdown" => r.of \in Clients}

Forms ==
  /\ wire \in Seq(Requests) /\ scopes \in Seq(Clients) /\ client \in [Clients -> States]
  /\ attempt.done \in SUBSET Clients /\ partial \in BOOLEAN
  /\ \A n \in Procs : process[n].clients \in SUBSET Clients

\* The map holds a client once; who is in it, or was for the loop, has connected.
MapSound ==
  /\ \A i, j \in DOMAIN scopes : scopes[i] = scopes[j] => i = j
  /\ \A k \in ToSet(scopes) \cup attempt.done : client[k] \in Connected
  /\ \A k \in ToSet(scopes) : client[k] # "disconnected"

\* A request of a caller that is awaited is the last of that caller.
Owned(w, i, c) ==
  w[i].kind \in Kinds /\ ~w[i].dead =>
    /\ c[w[i].of] = Pending[w[i].kind]
    /\ \A j \in DOMAIN w : w[j].of = w[i].of /\ w[j].kind \in Kinds /\ j # i => w[j].dead /\ j < i

\* A connect that has timed out is one of a client that has not connected since; a
\* client that is disconnected on the wire has left.
Left(w, i, c) ==
  /\ w[i].kind = "connect" /\ w[i].dead => c[w[i].of] \notin Connected
  /\ w[i].kind = "disconnect" => c[w[i].of] = "disconnected"

WireSound(w, c) == \A i \in DOMAIN w : Owned(w, i, c) /\ Left(w, i, c)

Live(w, i) == w[i].kind = "reconnect" /\ ~w[i].dead
Sent(w) == {w[i].of : i \in {i \in DOMAIN w : Live(w, i)}}
NoLoop(w) == \A i \in DOMAIN w : w[i].kind # "reconnect"

\* At most one reconnection is awaited, by the loop that has sent it.
LoopSends(w, loop, done, late) ==
  \A i \in DOMAIN w : w[i].kind = "reconnect" =>
    IF w[i].dead THEN late
    ELSE loop /\ w[i].of \in done /\ \A j \in DOMAIN w : Live(w, j) => j = i

\* The attempt works for the transport, until close() has let that go.
LoopSound ==
  /\ host.transport \in {0} \cup Procs /\ (host.transport = 0 => ~host.ready /\ wire = <<>>)
  /\ partial => attempt.at = "none"
  /\ attempt.at # "none" => \/ host.transport # 0 /\ attempt.proc = host.transport
                            \/ host.transport = 0 /\ host.close = "closed"
  /\ attempt.at = "starting" => ~host.ready /\ attempt.done = {}
  /\ LoopSends(wire, attempt.at = "loop", attempt.done, partial)

\* Who was reconnected is served, but for the one whose request is on its way; who has
\* connected beside the loop stands in the map behind all who have not, so that a loop
\* that meets such a client, and fails, leaves nobody out.
LoopServes(map, sent, done, served) ==
  /\ done \cap ToSet(map) \subseteq served \cup sent
  /\ \A i, j \in DOMAIN map :
       i < j /\ map[i] \notin done /\ map[j] \notin done /\ map[i] \in served
         => map[j] \in served
  /\ \A k \in sent : k \in served => ToSet(map) \ done \subseteq served

ServedInv ==
  /\ Forms /\ MapSound /\ WireSound(wire, client) /\ LoopSound /\ ScopesServed
  /\ attempt.at = "loop" /\ host.transport # 0
       => LoopServes(scopes, Sent(wire), attempt.done, process[host.transport].clients)
-----------------------------------------------------------------------------
(* What the callers hear *)

LEMMA CallNames ==
  /\ Kinds = {"connect", "call"}
  /\ Waiting["connect"] = "await connect" /\ Waiting["call"] = "await call"
  /\ Pending["connect"] = "connecting" /\ Pending["call"] = "calling"
  /\ Before["connect"] = "new" /\ Before["call"] = "connected"
  BY DEF Kinds, Waiting, Pending, Before

LEMMA RequestForms ==
  ASSUME NEW k \in Clients, NEW kind \in {"connect", "call", "reconnect", "disconnect"}
  PROVE  /\ Request(kind, k) \in Requests /\ ~Request(kind, k).dead
         /\ Request(kind, k).kind = kind /\ Request(kind, k).of = k
  BY DEF Request, Requests

LEMMA MovedIs ==
  ASSUME Forms, NEW from \in {Waiting, Pending}, NEW to \in {Before, Pending}
  PROVE  /\ Moved(from, to) \in [Clients -> States]
         /\ \A k \in Clients :
              Moved(from, to)[k] = IF client[k] = from["connect"] THEN to["connect"]
                                   ELSE IF client[k] = from["call"] THEN to["call"]
                                   ELSE client[k]
  <1>1. /\ Kinds = {"connect", "call"} /\ from["connect"] # from["call"]
        /\ to["connect"] \in States /\ to["call"] \in States
    <2>1. from["connect"] # from["call"]
      BY CallNames
    <2>2. to["connect"] \in States /\ to["call"] \in States
      BY CallNames DEF States
    <2> QED BY <2>1, <2>2, CallNames
  <1>2. ASSUME NEW k \in Clients
        PROVE  Moved(from, to)[k] = IF client[k] = from["connect"] THEN to["connect"]
                                    ELSE IF client[k] = from["call"] THEN to["call"]
                                    ELSE client[k]
    <2> DEFINE kind == CHOOSE kind \in Kinds : client[k] = from[kind]
    <2>1. Moved(from, to)[k] = IF \E x \in Kinds : client[k] = from[x] THEN to[kind] ELSE client[k]
      BY DEF Moved
    <2>2. (\E x \in Kinds : client[k] = from[x]) => kind \in Kinds /\ client[k] = from[kind]
      OBVIOUS
    <2> HIDE DEF kind
    <2> QED BY <1>1, <2>1, <2>2
  <1>3. Moved(from, to) \in [Clients -> States]
    <2>1. \A k \in Clients : Moved(from, to)[k] \in States
      BY <1>1, <1>2 DEF Forms
    <2>2. Moved(from, to) = [k \in Clients |-> Moved(from, to)[k]]
      BY DEF Moved
    <2> QED BY <2>1, <2>2
  <1> QED BY <1>2, <1>3

\* A caller gets an error, or nothing happens to it.
Errs(k) ==
  \/ client'[k] = client[k]
  \/ client[k] \in {"await connect", "connecting"} /\ client'[k] = "new"
  \/ client[k] \in {"await call", "calling"} /\ client'[k] = "connected"

LEMMA Rejected ==
  ASSUME Forms,
         client' \in {Moved(Waiting, Before), Moved(Pending, Before), RejectAll, client}
  PROVE  client' \in [Clients -> States] /\ \A k \in Clients : Errs(k)
  <1>1. /\ Moved(Waiting, Before) \in [Clients -> States]
        /\ \A k \in Clients :
             Moved(Waiting, Before)[k] = IF client[k] = "await connect" THEN "new"
                                         ELSE IF client[k] = "await call" THEN "connected"
                                         ELSE client[k]
    BY MovedIs DEF Waiting, Before
  <1>2. /\ Moved(Pending, Before) \in [Clients -> States]
        /\ \A k \in Clients :
             Moved(Pending, Before)[k] = IF client[k] = "connecting" THEN "new"
                                         ELSE IF client[k] = "calling" THEN "connected"
                                         ELSE client[k]
    BY MovedIs DEF Pending, Before
  <1>3. /\ RejectAll \in [Clients -> States]
        /\ \A k \in Clients : RejectAll[k] \in {Moved(Waiting, Before)[k], Moved(Pending, Before)[k]}
    BY <1>1, <1>2 DEF RejectAll
  <1>4. CASE client' = client
    BY <1>4 DEF Forms, Errs
  <1>5. CASE client' = Moved(Waiting, Before)
    BY <1>1, <1>5 DEF Errs
  <1>6. CASE client' = Moved(Pending, Before)
    BY <1>2, <1>6 DEF Errs
  <1>7. CASE client' = RejectAll
    <2>1. ASSUME NEW k \in Clients PROVE Errs(k)
      <3>1. CASE client'[k] = Moved(Waiting, Before)[k]
        BY <1>1, <3>1 DEF Errs
      <3>2. CASE client'[k] = Moved(Pending, Before)[k]
        BY <1>2, <3>2 DEF Errs
      <3> QED BY <1>3, <1>7, <3>1, <3>2
    <2> QED BY <1>3, <1>7, <2>1
  <1> QED BY <1>4, <1>5, <1>6, <1>7

\* Who has connected stays connected, who has left stays away.
Stays(k) ==
  /\ client[k] \in Connected => client'[k] \in Connected
  /\ client'[k] = "disconnected" <=> client[k] = "disconnected"

LEMMA ErrsStays == ASSUME NEW k, Errs(k) PROVE Stays(k)
  BY DEF Errs, Stays, Connected

LEMMA MapStays ==
  ASSUME Forms, MapSound, UNCHANGED scopes, \A k \in Clients : Stays(k),
         attempt'.done \subseteq attempt.done \cup ToSet(scopes)
  PROVE  MapSound'
  <1>1. ToSet(scopes) \subseteq Clients /\ attempt.done \subseteq Clients
    BY DEF Forms, ToSet
  <1>2. ToSet(scopes)' = ToSet(scopes)
    BY DEF ToSet
  <1> QED BY <1>1, <1>2 DEF MapSound, Stays

(* The wire *)

LEMMA WireTail ==
  ASSUME NEW w \in Seq(Requests), w # <<>>, NEW c
  PROVE  /\ Tail(w) \in Seq(Requests)
         /\ WireSound(w, c) => WireSound(Tail(w), c)
  <1>1. /\ Tail(w) \in Seq(Requests) /\ Len(w) \in Nat \ {0} /\ Len(Tail(w)) = Len(w) - 1
        /\ \A i \in DOMAIN Tail(w) : i + 1 \in DOMAIN w /\ Tail(w)[i] = w[i + 1]
    OBVIOUS
  <1>2. ASSUME WireSound(w, c), NEW i \in DOMAIN Tail(w)
        PROVE  Owned(Tail(w), i, c) /\ Left(Tail(w), i, c)
    <2>1. Owned(w, i + 1, c) /\ Left(w, i + 1, c) /\ Tail(w)[i] = w[i + 1] /\ i \in Nat
      BY <1>1, <1>2 DEF WireSound
    <2>2. Left(Tail(w), i, c)
      BY <2>1 DEF Left
    <2>3. ASSUME Tail(w)[i].kind \in Kinds, ~Tail(w)[i].dead,
                 NEW j \in DOMAIN Tail(w), Tail(w)[j].of = Tail(w)[i].of,
                 Tail(w)[j].kind \in Kinds, j # i
          PROVE  Tail(w)[j].dead /\ j < i
      <3>1. j + 1 \in DOMAIN w /\ Tail(w)[j] = w[j + 1] /\ j \in Nat
        BY <1>1
      <3> QED BY <2>1, <2>3, <3>1 DEF Owned
    <2> QED BY <2>1, <2>2, <2>3 DEF Owned
  <1> QED BY <1>1, <1>2 DEF WireSound

LEMMA WireAppend ==
  ASSUME NEW w \in Seq(Requests), NEW c, WireSound(w, c), NEW r \in Requests, ~r.dead,
         r.kind \notin Kinds, r.kind = "disconnect" => c[r.of] = "disconnected"
  PROVE  Append(w, r) \in Seq(Requests) /\ WireSound(Append(w, r), c)
  <1> DEFINE v == Append(w, r)
  <1>1. /\ v \in Seq(Requests) /\ Len(v) = Len(w) + 1 /\ Len(w) \in Nat
        /\ v[Len(w) + 1] = r /\ \A i \in DOMAIN w : v[i] = w[i]
        /\ \A i \in DOMAIN v : i \in DOMAIN w \/ i = Len(w) + 1
    OBVIOUS
  <1> HIDE DEF v
  <1>2. ASSUME NEW i \in DOMAIN v PROVE Owned(v, i, c) /\ Left(v, i, c)
    <2>1. CASE i \in DOMAIN w
      <3>1. Owned(w, i, c) /\ Left(w, i, c) /\ v[i] = w[i]
        BY <1>1, <2>1 DEF WireSound
      <3>2. \A j \in DOMAIN v : v[j].kind \in Kinds => j \in DOMAIN w /\ v[j] = w[j]
        BY <1>1
      <3> QED BY <3>1, <3>2 DEF Owned, Left
    <2>2. CASE i = Len(w) + 1
      BY <1>1, <2>2 DEF Owned, Left, Kinds, Waiting
    <2> QED BY <1>1, <1>2, <2>1, <2>2
  <1> QED BY <1>1, <1>2 DEF WireSound, v

\* The callers change in a way the requests do not mind.
LEMMA WireStays ==
  ASSUME NEW w \in Seq(Requests), WireSound(w, client), \A k \in Clients : Errs(k),
         \A i \in DOMAIN w : w[i].kind \in Kinds /\ ~w[i].dead => client'[w[i].of] = client[w[i].of]
  PROVE  WireSound(w, client')
  <1> SUFFICES ASSUME NEW i \in DOMAIN w PROVE Owned(w, i, client') /\ Left(w, i, client')
    BY DEF WireSound
  <1>1. Owned(w, i, client) /\ Left(w, i, client) /\ w[i] \in Requests
    BY DEF WireSound
  <1>2. Owned(w, i, client')
    BY <1>1 DEF Owned
  <1>3. w[i].kind \in {"connect", "disconnect"} => w[i].of \in Clients
    BY <1>1 DEF Requests
  <1>4. Left(w, i, client')
    BY <1>1, <1>3 DEF Left, Errs, Connected
  <1> QED BY <1>2, <1>4

\* The head of the wire is answered: its caller goes on.
LEMMA WireAnswered ==
  ASSUME NEW w \in Seq(Requests), w # <<>>, NEW c, WireSound(w, c),
         Head(w).kind \in Kinds, ~Head(w).dead,
         NEW d, \A k \in Clients \ {Head(w).of} : d[k] = c[k]
  PROVE  WireSound(Tail(w), d)
  <1> DEFINE k == Head(w).of
  <1>1. /\ Tail(w) \in Seq(Requests) /\ WireSound(Tail(w), c)
        /\ 1 \in DOMAIN w /\ Head(w) = w[1]
        /\ \A i \in DOMAIN Tail(w) : i + 1 \in DOMAIN w /\ Tail(w)[i] = w[i + 1] /\ i \in Nat \ {0}
    BY WireTail
  <1>2. Owned(w, 1, c) /\ w[1].kind \in Kinds /\ ~w[1].dead
    BY <1>1 DEF WireSound
  <1>3. c[k] \in {"connecting", "calling"}
    BY <1>1, <1>2 DEF Owned, Kinds, Waiting, Pending
  <1>4. ASSUME NEW i \in DOMAIN Tail(w)
        PROVE  /\ Tail(w)[i].of = k => Tail(w)[i].kind \notin Kinds \cup {"disconnect"}
               /\ Tail(w)[i].kind \in Kinds \cup {"disconnect"} => Tail(w)[i].of \in Clients \ {k}
    <2>1. i + 1 \in DOMAIN w /\ Tail(w)[i] = w[i + 1] /\ i + 1 # 1 /\ ~(i + 1 < 1)
      BY <1>1
    <2>2. Tail(w)[i].of = k => Tail(w)[i].kind \notin Kinds
      BY <1>1, <1>2, <2>1 DEF Owned
    <2>3. Tail(w)[i].of = k => Tail(w)[i].kind # "disconnect"
      BY <1>1, <1>3 DEF WireSound, Left
    <2>4. Tail(w)[i] \in Requests
      BY <1>1
    <2> QED BY <2>2, <2>3, <2>4 DEF Requests, Kinds, Waiting
  <1> HIDE DEF k
  <1>5. "connect" \in Kinds
    BY DEF Kinds, Waiting
  <1> QED BY <1>1, <1>4, <1>5 DEF WireSound, Owned, Left, k

\* A caller asks.
LEMMA WireAsked ==
  ASSUME Forms, WireSound(wire, client), NEW k \in Clients, NEW kind \in Kinds,
         client[k] = Before[kind]
  PROVE  LET r == Request(kind, k)
             d == [client EXCEPT ![k] = Pending[kind]]
         IN /\ Append(wire, r) \in Seq(Requests) /\ d \in [Clients -> States]
            /\ WireSound(Append(wire, r), d)
  <1> DEFINE r == Request(kind, k)
             d == [client EXCEPT ![k] = Pending[kind]]
             v == Append(wire, r)
  <1>1. /\ r \in Requests /\ r.kind = kind /\ r.of = k /\ ~r.dead
        /\ Pending[kind] \in States
        /\ client[k] \in {"new", "connected"} /\ (kind = "connect" => client[k] = "new")
        /\ (kind = "connect" => Pending[kind] \notin Connected)
        /\ (kind # "connect" => client[k] \in Connected)
    <2> HIDE DEF r
    <2>0. kind \in {"connect", "call", "reconnect", "disconnect"}
      BY CallNames
    <2>1. r \in Requests /\ r.kind = kind /\ r.of = k /\ ~r.dead
      BY <2>0, RequestForms DEF r
    <2>2. kind = "connect" \/ kind = "call"
      BY CallNames
    <2> QED BY <2>1, <2>2, CallNames DEF States, Connected
  <1>2. /\ d \in [Clients -> States] /\ d[k] = Pending[kind]
        /\ \A x \in Clients \ {k} : d[x] = client[x]
    BY <1>1 DEF Forms
  <1>3. /\ v \in Seq(Requests) /\ Len(wire) \in Nat
        /\ v[Len(wire) + 1] = r /\ \A i \in DOMAIN wire : v[i] = wire[i] /\ i < Len(wire) + 1
        /\ \A i \in DOMAIN v : i \in DOMAIN wire \/ i = Len(wire) + 1
    BY <1>1 DEF Forms
  <1>4. ASSUME NEW i \in DOMAIN wire
        PROVE  /\ Owned(wire, i, client) /\ Left(wire, i, client)
               /\ wire[i].kind \in Kinds \cup {"disconnect"} => wire[i].of \in Clients
               /\ wire[i].kind \in Kinds /\ ~wire[i].dead => wire[i].of # k
               /\ wire[i].kind = "disconnect" => wire[i].of # k
    <2>1. Owned(wire, i, client) /\ Left(wire, i, client) /\ wire[i] \in Requests
      BY DEF WireSound, Forms
    <2>2. \A x \in Kinds : Pending[x] \in {"connecting", "calling"}
      BY DEF Kinds, Waiting, Pending
    <2>3. wire[i].kind \in Kinds /\ ~wire[i].dead => client[wire[i].of] \in {"connecting", "calling"}
      BY <2>1, <2>2 DEF Owned
    <2>4. wire[i].kind \in Kinds \cup {"disconnect"} => wire[i].of \in Clients
      BY <2>1 DEF Requests, Kinds, Waiting
    <2> QED BY <1>1, <2>1, <2>3, <2>4 DEF Left
  <1> HIDE DEF v, r, d
  <1>5. ASSUME NEW i \in DOMAIN wire PROVE Owned(v, i, d)
    BY <1>1, <1>2, <1>3, <1>4, <1>5 DEF Owned
  <1>6. Owned(v, Len(wire) + 1, d)
    <2>1. ASSUME NEW j \in DOMAIN wire, wire[j].of = k, wire[j].kind \in Kinds PROVE wire[j].dead
      BY <1>4, <2>1
    <2> QED BY <1>1, <1>2, <1>3, <2>1 DEF Owned
  <1>7. ASSUME NEW i \in DOMAIN wire PROVE Left(v, i, d)
    <2>1. v[i] = wire[i] /\ Left(wire, i, client)
      BY <1>3, <1>4
    <2>2. wire[i].kind = "connect" /\ wire[i].dead => d[wire[i].of] \notin Connected
      <3>1. CASE wire[i].of = k
        BY <1>1, <1>2, <2>1, <3>1 DEF Left
      <3>2. CASE wire[i].of # k
        <4>1. "connect" \in Kinds
          BY DEF Kinds, Waiting
        <4> QED BY <1>2, <1>4, <2>1, <3>2, <4>1 DEF Left
      <3> QED BY <3>1, <3>2
    <2>3. wire[i].kind = "disconnect" => d[wire[i].of] = "disconnected"
      BY <1>2, <1>4, <2>1 DEF Left
    <2> QED BY <2>1, <2>2, <2>3 DEF Left
  <1>8. Left(v, Len(wire) + 1, d)
    BY <1>1, <1>3 DEF Left, Kinds, Waiting
  <1>9. WireSound(v, d)
    BY <1>3, <1>5, <1>6, <1>7, <1>8 DEF WireSound
  <1> QED BY <1>2, <1>3, <1>9 DEF v, r, d

\* A request times out: its caller gets an error.
LEMMA WireLate ==
  ASSUME Forms, WireSound(wire, client), NEW i \in DOMAIN wire, ~wire[i].dead,
         NEW d, IF wire[i].kind \in Kinds
                THEN d = [client EXCEPT ![wire[i].of] = Before[wire[i].kind]]
                ELSE d = client
  PROVE  LET v == [wire EXCEPT ![i].dead = TRUE]
         IN /\ v \in Seq(Requests) /\ DOMAIN v = DOMAIN wire
            /\ v[i] = [wire[i] EXCEPT !.dead = TRUE]
            /\ \A j \in DOMAIN wire \ {i} : v[j] = wire[j]
            /\ d \in [Clients -> States] /\ WireSound(v, d)
  <1> DEFINE v == [wire EXCEPT ![i].dead = TRUE]
             late == [wire[i] EXCEPT !.dead = TRUE]
             k == wire[i].of
  <1>1. wire[i] \in Requests /\ late \in Requests /\ late.kind = wire[i].kind
        /\ late.of = k /\ late.dead
    <2>1. wire[i] \in Requests
      BY DEF Forms
    <2> QED BY <2>1 DEF Requests
  <1>2. v \in Seq(Requests) /\ DOMAIN v = DOMAIN wire /\ v[i] = late
        /\ \A j \in DOMAIN wire \ {i} : v[j] = wire[j]
    BY <1>1 DEF Forms
  <1>3. Owned(wire, i, client) /\ Left(wire, i, client)
    BY DEF WireSound
  <1>4. wire[i].kind \in Kinds =>
          /\ k \in Clients /\ client[k] \in {"connecting", "calling"}
          /\ Before[wire[i].kind] \in States
          /\ IF wire[i].kind = "connect" THEN Before[wire[i].kind] \notin Connected
             ELSE client[k] \in Connected
    <2> SUFFICES ASSUME wire[i].kind \in Kinds
                 PROVE  /\ k \in Clients /\ client[k] \in {"connecting", "calling"}
                        /\ Before[wire[i].kind] \in States
                        /\ IF wire[i].kind = "connect" THEN Before[wire[i].kind] \notin Connected
                           ELSE client[k] \in Connected
      OBVIOUS
    <2>1. wire[i].kind = "connect" \/ wire[i].kind = "call"
      BY CallNames
    <2>2. k \in Clients
      BY <1>1, <2>1 DEF Requests
    <2>3. client[k] = Pending[wire[i].kind]
      BY <1>3 DEF Owned
    <2> QED BY <2>1, <2>2, <2>3, CallNames DEF States, Connected
  <1>5. d \in [Clients -> States] /\ (\A x \in Clients \ {k} : d[x] = client[x])
        /\ (wire[i].kind \in Kinds => d[k] = Before[wire[i].kind])
        /\ (wire[i].kind \notin Kinds => d = client)
    BY <1>4 DEF Forms
  <1> HIDE DEF v, late
  <1>6. ASSUME NEW j \in DOMAIN wire PROVE Owned(v, j, d)
    <2>1. Owned(wire, j, client) /\ wire[j] \in Requests
      BY DEF WireSound, Forms
    <2>2. wire[j].kind \in Kinds => wire[j].of \in Clients
      BY <2>1 DEF Requests, Kinds, Waiting
    <2>3. j # i /\ wire[j].kind \in Kinds /\ ~wire[j].dead => d[wire[j].of] = client[wire[j].of]
      <3>1. CASE wire[i].kind \in Kinds
        BY <1>3, <1>5, <2>2, <3>1 DEF Owned
      <3>2. CASE wire[i].kind \notin Kinds
        BY <1>5, <3>2
      <3> QED BY <3>1, <3>2
    <2>4. CASE j = i
      BY <1>1, <1>2, <2>4 DEF Owned
    <2>5. CASE j # i
      <3>1. v[j] = wire[j]
        BY <1>2, <2>5
      <3>2. \A x \in DOMAIN v : /\ x \in DOMAIN wire /\ v[x].of = wire[x].of
                                /\ v[x].kind = wire[x].kind /\ (wire[x].dead => v[x].dead)
        BY <1>1, <1>2
      <3> QED BY <2>1, <2>3, <2>5, <3>1, <3>2 DEF Owned
    <2> QED BY <2>4, <2>5
  <1>7. ASSUME NEW j \in DOMAIN wire PROVE Left(v, j, d)
    <2>1. Left(wire, j, client) /\ wire[j] \in Requests
      BY DEF WireSound, Forms
    <2>2. wire[j].kind \in {"connect", "disconnect"} => wire[j].of \in Clients
      BY <2>1 DEF Requests
    <2>3. v[j].kind = wire[j].kind /\ v[j].of = wire[j].of /\ (v[j].dead => wire[j].dead \/ j = i)
      BY <1>1, <1>2
    <2>4. wire[j].kind = "disconnect" => d[wire[j].of] = "disconnected"
      BY <1>4, <1>5, <2>1, <2>2 DEF Left
    <2>5. wire[j].kind = "connect" /\ (wire[j].dead \/ j = i) => d[wire[j].of] \notin Connected
      <3>1. "connect" \in Kinds
        BY DEF Kinds, Waiting
      <3>2. CASE j = i
        BY <1>4, <1>5, <3>1, <3>2
      <3>3. CASE j # i
        BY <1>4, <1>5, <2>1, <2>2, <3>3 DEF Left
      <3> QED BY <3>2, <3>3
    <2> QED BY <2>3, <2>4, <2>5 DEF Left
  <1>8. WireSound(v, d)
    BY <1>2, <1>6, <1>7 DEF WireSound
  <1> QED BY <1>2, <1>5, <1>8 DEF v, late

\* Those who await a start go on with their requests.
LEMMA WireGoesOn ==
  ASSUME Forms, NEW w \in Seq(Requests), WireSound(w, client), NEW order \in SetToSeqs(Awaiting)
  PROVE  LET q == [i \in DOMAIN order |-> Request(KindOf(order[i]), order[i])]
             d == Moved(Waiting, Pending)
         IN /\ w \o q \in Seq(Requests) /\ WireSound(w \o q, d)
            /\ NoLoop(w) => NoLoop(w \o q)
  <1> DEFINE q == [i \in DOMAIN order |-> Request(KindOf(order[i]), order[i])]
             d == Moved(Waiting, Pending)
             n == Cardinality(Awaiting)
             v == w \o q
  <1>1. n \in Nat
    <2>1. Awaiting \in SUBSET Clients
      BY DEF Awaiting
    <2>2. IsFiniteSet(Awaiting)
      BY <2>1, FS_Subset, HostAssumption
    <2> QED BY <2>2, FS_CardinalityType
  <1>2. /\ order \in [1 .. n -> Awaiting]
        /\ \A i, j \in 1 .. n : order[i] = order[j] => i = j
    BY DEF SetToSeqs
  <1> HIDE DEF n
  <1>3. ASSUME NEW k \in Awaiting
        PROVE  /\ k \in Clients /\ KindOf(k) \in Kinds /\ client[k] = Waiting[KindOf(k)]
               /\ d[k] = Pending[KindOf(k)] /\ client[k] \in {"await connect", "await call"}
               /\ KindOf(k) = "connect" => client[k] = "await connect"
    <2>1. k \in Clients /\ KindOf(k) \in Kinds /\ client[k] = Waiting[KindOf(k)]
      BY DEF Awaiting, KindOf
    <2>2. d[k] = IF client[k] = Waiting["connect"] THEN Pending["connect"]
                 ELSE IF client[k] = Waiting["call"] THEN Pending["call"] ELSE client[k]
      BY <2>1, MovedIs
    <2> HIDE DEF d
    <2> QED BY <2>1, <2>2, CallNames
  <1>4. ASSUME NEW k \in Clients
        PROVE  /\ k \notin Awaiting => d[k] = client[k]
               /\ d[k] \in Connected => client[k] \in Connected
               /\ client[k] = "disconnected" => d[k] = "disconnected"
    <2>1. d[k] = IF client[k] = "await connect" THEN "connecting"
                 ELSE IF client[k] = "await call" THEN "calling" ELSE client[k]
      BY MovedIs, CallNames
    <2>2. k \notin Awaiting => client[k] \notin {"await connect", "await call"}
      BY CallNames DEF Awaiting
    <2> HIDE DEF d
    <2> QED BY <2>1, <2>2 DEF Connected
  <1>5. /\ q \in Seq(Requests) /\ Len(q) = n
        /\ \A i \in 1 .. n : /\ q[i].kind = KindOf(order[i]) /\ q[i].of = order[i] /\ ~q[i].dead
                            /\ order[i] \in Awaiting
    <2>1. ASSUME NEW i \in 1 .. n
          PROVE  /\ order[i] \in Awaiting
                 /\ Request(KindOf(order[i]), order[i]) \in Requests
                 /\ q[i] = Request(KindOf(order[i]), order[i])
                 /\ q[i].kind = KindOf(order[i]) /\ q[i].of = order[i] /\ ~q[i].dead
      <3>1. order[i] \in Awaiting /\ q[i] = Request(KindOf(order[i]), order[i])
        BY <1>2
      <3>2. order[i] \in Clients /\ KindOf(order[i]) \in {"connect", "call", "reconnect", "disconnect"}
        BY <1>3, <3>1, CallNames
      <3> HIDE DEF q
      <3> QED BY <3>1, <3>2, RequestForms
    <2>2. q \in [1 .. n -> Requests]
      BY <1>2, <2>1
    <2> HIDE DEF q
    <2> QED BY <1>1, <2>1, <2>2
  <1> HIDE DEF q, d
  <1>6. /\ v \in Seq(Requests) /\ Len(w) \in Nat /\ Len(v) = Len(w) + n
        /\ \A i \in DOMAIN w : v[i] = w[i] /\ i <= Len(w)
        /\ \A i \in DOMAIN v : \/ i \in DOMAIN w
                               \/ /\ i - Len(w) \in 1 .. n /\ v[i] = q[i - Len(w)]
                                  /\ i > Len(w)
    <2>1. /\ v \in Seq(Requests) /\ Len(v) = Len(w) + Len(q)
          /\ \A i \in 1 .. Len(w) + Len(q) : v[i] = IF i <= Len(w) THEN w[i] ELSE q[i - Len(w)]
      BY <1>5, ConcatProperties
    <2> HIDE DEF v
    <2> QED BY <1>1, <1>5, <2>1
  <1> HIDE DEF v
  <1>7. ASSUME NEW i \in DOMAIN w
        PROVE  /\ Owned(w, i, client) /\ Left(w, i, client)
               /\ w[i].kind \in Kinds /\ ~w[i].dead => w[i].of \notin Awaiting
               /\ w[i].kind \in Kinds \cup {"disconnect"} => w[i].of \in Clients
    <2>1. Owned(w, i, client) /\ Left(w, i, client) /\ w[i] \in Requests
      BY DEF WireSound
    <2>2. w[i].kind \in Kinds \cup {"disconnect"} => w[i].of \in Clients
      BY <2>1, CallNames DEF Requests
    <2>3. w[i].kind \in Kinds => Pending[w[i].kind] \in {"connecting", "calling"}
      BY CallNames
    <2>4. w[i].kind \in Kinds /\ ~w[i].dead => w[i].of \notin Awaiting
      BY <1>3, <2>1, <2>3 DEF Owned
    <2> QED BY <2>1, <2>2, <2>4
  <1>8. ASSUME NEW i \in DOMAIN v PROVE Owned(v, i, d)
    <2>1. CASE i \in DOMAIN w
      <3> SUFFICES ASSUME w[i].kind \in Kinds, ~w[i].dead PROVE Owned(v, i, d)
        BY <1>6, <2>1 DEF Owned
      <3>1. w[i].of \notin Awaiting /\ w[i].of \in Clients /\ v[i] = w[i]
        BY <1>6, <1>7, <2>1
      <3>2. d[w[i].of] = Pending[w[i].kind]
        BY <1>4, <1>7, <2>1, <3>1 DEF Owned
      <3>3. ASSUME NEW j \in DOMAIN v, v[j].of = w[i].of, v[j].kind \in Kinds, j # i
            PROVE  v[j].dead /\ j < i
        <4>1. CASE j \in DOMAIN w
          BY <1>6, <1>7, <2>1, <3>3, <4>1 DEF Owned
        <4>2. CASE j \notin DOMAIN w
          BY <1>5, <1>6, <3>1, <3>3, <4>2
        <4> QED BY <4>1, <4>2
      <3> QED BY <3>1, <3>2, <3>3 DEF Owned
    <2>2. CASE i \notin DOMAIN w
      <3>1. i - Len(w) \in 1 .. n /\ v[i] = q[i - Len(w)] /\ i > Len(w)
        BY <1>6, <2>2
      <3>0. ASSUME NEW x \in 1 .. n, v[i] = q[x]
            PROVE  v[i].of \in Awaiting /\ v[i].of = order[x] /\ d[v[i].of] = Pending[v[i].kind]
        <4>1. v[i].kind = KindOf(order[x]) /\ v[i].of = order[x] /\ order[x] \in Awaiting
          BY <1>5, <3>0
        <4>2. d[order[x]] = Pending[KindOf(order[x])]
          BY <1>3, <4>1
        <4> QED BY <4>1, <4>2
      <3>2. v[i].of \in Awaiting /\ v[i].of = order[i - Len(w)] /\ d[v[i].of] = Pending[v[i].kind]
        BY <3>0, <3>1
      <3>3. ASSUME NEW j \in DOMAIN v, v[j].of = v[i].of, v[j].kind \in Kinds, j # i
            PROVE  v[j].dead /\ j < i
        <4>1. CASE j \in DOMAIN w
          BY <1>6, <1>7, <3>1, <3>2, <3>3, <4>1
        <4>2. CASE j \notin DOMAIN w
          <5>1. j - Len(w) \in 1 .. n /\ v[j].of = order[j - Len(w)]
            BY <1>5, <1>6, <4>2
          <5>2. j - Len(w) = i - Len(w)
            BY <1>2, <3>1, <3>2, <3>3, <5>1
          <5> QED BY <1>6, <3>3, <5>2
        <4> QED BY <4>1, <4>2
      <3> QED BY <3>2, <3>3 DEF Owned
    <2> QED BY <2>1, <2>2
  <1>9. ASSUME NEW i \in DOMAIN v PROVE Left(v, i, d)
    <2>0. "connect" \in Kinds
      BY CallNames
    <2>1. CASE i \in DOMAIN w
      <3>1. v[i] = w[i] /\ Left(w, i, client)
        BY <1>6, <1>7, <2>1
      <3>2. w[i].kind \in {"connect", "disconnect"} => w[i].of \in Clients
        BY <1>7, <2>0, <2>1
      <3> QED BY <1>4, <3>1, <3>2 DEF Left
    <2>2. CASE i \notin DOMAIN w
      <3>1. i - Len(w) \in 1 .. n /\ v[i] = q[i - Len(w)]
        BY <1>6, <2>2
      <3>2. ASSUME NEW x \in 1 .. n, v[i] = q[x]
            PROVE  v[i].kind \in Kinds /\ ~v[i].dead
        <4>1. v[i].kind = KindOf(order[x]) /\ order[x] \in Awaiting /\ ~v[i].dead
          BY <1>5, <3>2
        <4>2. KindOf(order[x]) \in Kinds
          BY <1>3, <4>1
        <4> QED BY <4>1, <4>2
      <3> QED BY <3>1, <3>2, CallNames DEF Left
    <2> QED BY <2>1, <2>2
  <1>10. NoLoop(w) => NoLoop(v)
    BY <1>3, <1>5, <1>6, CallNames DEF NoLoop
  <1>11. v \in Seq(Requests) /\ WireSound(v, d) /\ (NoLoop(w) => NoLoop(v))
    BY <1>6, <1>8, <1>9, <1>10 DEF WireSound
  <1> QED BY <1>11 DEF v, q, d

(* The reconnections *)

LEMMA NoLoopSends ==
  ASSUME NEW w, NoLoop(w)
  PROVE  Sent(w) = {} /\ \A loop, done, late : LoopSends(w, loop, done, late)
  BY DEF NoLoop, Sent, Live, LoopSends

LEMMA LoopTail ==
  ASSUME NEW w \in Seq(Requests), w # <<>>, NEW loop, NEW done, NEW late,
         LoopSends(w, loop, done, late)
  PROVE  /\ LoopSends(Tail(w), loop, done, late)
         /\ ~Live(w, 1) => Sent(Tail(w)) = Sent(w)
         /\ Live(w, 1) => Sent(w) = {w[1].of} /\ (~late => NoLoop(Tail(w)))
         /\ NoLoop(w) => NoLoop(Tail(w))
  <1>1. /\ Len(w) \in Nat \ {0} /\ Len(Tail(w)) = Len(w) - 1 /\ 1 \in DOMAIN w
        /\ \A i \in DOMAIN Tail(w) : i + 1 \in DOMAIN w /\ Tail(w)[i] = w[i + 1] /\ i + 1 # 1
        /\ \A i \in DOMAIN w \ {1} : i - 1 \in DOMAIN Tail(w) /\ w[i] = Tail(w)[i - 1]
    OBVIOUS
  <1>2. LoopSends(Tail(w), loop, done, late)
    <2> SUFFICES ASSUME NEW i \in DOMAIN Tail(w), Tail(w)[i].kind = "reconnect"
                 PROVE  IF Tail(w)[i].dead THEN late
                        ELSE /\ loop /\ Tail(w)[i].of \in done
                             /\ \A j \in DOMAIN Tail(w) : Live(Tail(w), j) => j = i
      BY DEF LoopSends
    <2>1. /\ i + 1 \in DOMAIN w /\ Tail(w)[i] = w[i + 1]
          /\ IF w[i + 1].dead THEN late
             ELSE loop /\ w[i + 1].of \in done /\ \A j \in DOMAIN w : Live(w, j) => j = i + 1
      BY <1>1 DEF LoopSends
    <2>2. ASSUME ~w[i + 1].dead, NEW j \in DOMAIN Tail(w), Live(Tail(w), j) PROVE j = i
      <3>1. j + 1 \in DOMAIN w /\ Live(w, j + 1)
        BY <1>1, <2>2 DEF Live
      <3>2. j + 1 = i + 1
        BY <2>1, <2>2, <3>1
      <3> QED BY <3>2
    <2> QED BY <2>1, <2>2
  <1>3. ASSUME ~Live(w, 1) PROVE Sent(Tail(w)) = Sent(w)
    <2>1. ASSUME NEW k \in Sent(w) PROVE k \in Sent(Tail(w))
      <3>1. PICK i \in DOMAIN w : Live(w, i) /\ w[i].of = k
        BY DEF Sent
      <3>2. i - 1 \in DOMAIN Tail(w) /\ w[i] = Tail(w)[i - 1]
        BY <1>1, <1>3, <3>1
      <3> QED BY <3>1, <3>2 DEF Sent, Live
    <2>2. ASSUME NEW k \in Sent(Tail(w)) PROVE k \in Sent(w)
      <3>1. PICK i \in DOMAIN Tail(w) : Live(Tail(w), i) /\ Tail(w)[i].of = k
        BY DEF Sent
      <3>2. i + 1 \in DOMAIN w /\ w[i + 1] = Tail(w)[i]
        BY <1>1
      <3> QED BY <3>1, <3>2 DEF Sent, Live
    <2> QED BY <2>1, <2>2
  <1>4. ASSUME Live(w, 1) PROVE Sent(w) = {w[1].of} /\ (~late => NoLoop(Tail(w)))
    <2>1. \A j \in DOMAIN w : Live(w, j) => j = 1
      BY <1>1, <1>4 DEF LoopSends, Live
    <2>2. Sent(w) = {w[1].of}
      BY <1>1, <1>4, <2>1 DEF Sent
    <2>3. \A i \in DOMAIN w : ~late /\ w[i].kind = "reconnect" => i = 1
      BY <2>1 DEF LoopSends, Live
    <2> QED BY <1>1, <2>2, <2>3 DEF NoLoop
  <1>5. NoLoop(w) => NoLoop(Tail(w))
    BY <1>1 DEF NoLoop
  <1> QED BY <1>2, <1>3, <1>4, <1>5

LEMMA LoopAppend ==
  ASSUME NEW w \in Seq(Requests), NEW r \in Requests, NEW loop, NEW done, NEW late,
         LoopSends(w, loop, done, late), r.kind # "reconnect"
  PROVE  LoopSends(Append(w, r), loop, done, late) /\ Sent(Append(w, r)) = Sent(w)
  <1> DEFINE v == Append(w, r)
  <1>1. /\ Len(w) \in Nat /\ v[Len(w) + 1] = r
        /\ \A i \in DOMAIN w : i \in DOMAIN v /\ v[i] = w[i]
        /\ \A i \in DOMAIN v : i \in DOMAIN w \/ i = Len(w) + 1
    OBVIOUS
  <1> HIDE DEF v
  <1>2. \A i \in DOMAIN v : v[i].kind = "reconnect" => i \in DOMAIN w /\ v[i] = w[i]
    BY <1>1
  <1>3. LoopSends(v, loop, done, late)
    BY <1>2 DEF LoopSends, Live
  <1>4. Sent(v) = Sent(w)
    BY <1>1, <1>2 DEF Sent, Live
  <1> QED BY <1>3, <1>4 DEF v

LEMMA LoopBegins ==
  ASSUME NEW w \in Seq(Requests), NoLoop(w), NEW k \in Clients, NEW done, k \in done
  PROVE  LET v == Append(w, Request("reconnect", k))
         IN LoopSends(v, TRUE, done, FALSE) /\ Sent(v) = {k}
  <1> DEFINE r == Request("reconnect", k)
             v == Append(w, r)
  <1>0. r \in Requests /\ r.kind = "reconnect" /\ r.of = k /\ ~r.dead
    BY RequestForms
  <1> HIDE DEF r
  <1>1. /\ Len(w) \in Nat /\ v[Len(w) + 1] = r /\ Len(w) + 1 \in DOMAIN v
        /\ \A i \in DOMAIN v : (i \in DOMAIN w /\ v[i] = w[i]) \/ i = Len(w) + 1
    BY <1>0
  <1> HIDE DEF v
  <1>2. \A i \in DOMAIN v : v[i].kind = "reconnect" => i = Len(w) + 1
    BY <1>1 DEF NoLoop
  <1>3. LoopSends(v, TRUE, done, FALSE)
    BY <1>0, <1>1, <1>2 DEF LoopSends, Live
  <1>4. Sent(v) = {k}
    BY <1>0, <1>1, <1>2 DEF Sent, Live
  <1> QED BY <1>3, <1>4 DEF v, r

\* The loop goes on with its next client, or everyone in the map is served.
LEMMA ReconnectsServes ==
  ASSUME Forms, MapSound, NEW h, NEW w \in Seq(Requests), WireSound(w, client), NoLoop(w),
         Reconnects(h, w), UNCHANGED scopes,
         NEW served, LoopServes(scopes, {}, attempt.done, served)
  PROVE  /\ wire' \in Seq(Requests) /\ client' \in [Clients -> States]
         /\ attempt'.done \in SUBSET Clients
         /\ WireSound(wire', client') /\ MapSound'
         /\ LoopSends(wire', attempt'.at = "loop", attempt'.done, FALSE)
         /\ \/ /\ attempt'.at = "loop" /\ attempt'.proc = attempt.proc
               /\ LoopServes(scopes, Sent(wire'), attempt'.done, served)
            \/ attempt'.at = "none" /\ ToSet(scopes) \subseteq served
  <1>1. CASE ToSet(scopes) \subseteq attempt.done /\ Succeeds(h, w)
    <2>1. PICK order \in SetToSeqs(Awaiting) :
            wire' = w \o [i \in DOMAIN order |-> Request(KindOf(order[i]), order[i])]
      BY <1>1 DEF Succeeds
    <2>2. /\ client' = Moved(Waiting, Pending) /\ attempt' = NoAttempt
      BY <1>1 DEF Succeeds
    <2>3. attempt'.at = "none" /\ attempt'.done = {}
      BY <2>2 DEF NoAttempt, Attempt
    <2>4. wire' \in Seq(Requests) /\ WireSound(wire', client') /\ NoLoop(wire')
      BY <2>1, <2>2, WireGoesOn
    <2>5. /\ client' \in [Clients -> States]
          /\ \A k \in Clients : client'[k] = IF client[k] = "await connect" THEN "connecting"
                                             ELSE IF client[k] = "await call" THEN "calling"
                                             ELSE client[k]
      BY <2>2, MovedIs, CallNames
    <2>6. \A k \in Clients : Stays(k)
      BY <2>5 DEF Stays, Connected
    <2>7. MapSound'
      BY <2>3, <2>6, MapStays
    <2>8. ToSet(scopes) \subseteq served
      BY <1>1 DEF LoopServes
    <2> QED BY <2>3, <2>4, <2>5, <2>7, <2>8, NoLoopSends
  <1>2. ASSUME NEW i \in DOMAIN scopes, scopes[i] \notin attempt.done,
               \A j \in 1 .. i - 1 : scopes[j] \in attempt.done,
               Reconnect(h, w, scopes[i])
        PROVE  /\ wire' \in Seq(Requests) /\ client' \in [Clients -> States]
               /\ attempt'.done \in SUBSET Clients
               /\ WireSound(wire', client') /\ MapSound'
               /\ LoopSends(wire', attempt'.at = "loop", attempt'.done, FALSE)
               /\ attempt'.at = "loop" /\ attempt'.proc = attempt.proc
               /\ LoopServes(scopes, Sent(wire'), attempt'.done, served)
    <2> DEFINE k == scopes[i]
    <2>1. k \in Clients /\ k \in ToSet(scopes)
      BY DEF Forms, ToSet
    <2>2. /\ attempt'.at = "loop" /\ attempt'.proc = attempt.proc
          /\ attempt'.done = attempt.done \cup {k} /\ client' = client
          /\ wire' = Append(w, Request("reconnect", k))
      BY <1>2 DEF Reconnect, Attempt
    <2>3. wire' \in Seq(Requests) /\ WireSound(wire', client')
      <3>1. /\ Request("reconnect", k) \in Requests /\ ~Request("reconnect", k).dead
            /\ Request("reconnect", k).kind = "reconnect"
        BY <2>1, RequestForms
      <3>2. "reconnect" \notin Kinds
        BY CallNames
      <3> QED BY <2>2, <3>1, <3>2, WireAppend
    <2>4. Sent(wire') = {k} /\ LoopSends(wire', TRUE, attempt'.done, FALSE)
      BY <2>1, <2>2, LoopBegins
    <2>5. MapSound'
      <3>1. \A x \in Clients : Stays(x)
        BY <2>2 DEF Stays
      <3>2. attempt'.done \subseteq attempt.done \cup ToSet(scopes)
        BY <2>1, <2>2
      <3> QED BY <3>1, <3>2, MapStays
    <2>6. ASSUME NEW x \in ToSet(scopes) \ (attempt.done \cup {k}), k \in served PROVE x \in served
      <3>1. PICK j \in DOMAIN scopes : x = scopes[j]
        BY DEF ToSet
      <3>2. scopes \in Seq(Clients)
        BY DEF Forms
      <3>3. i < j
        BY <1>2, <2>6, <3>1, <3>2
      <3> QED BY <1>2, <2>6, <3>1, <3>3 DEF LoopServes
    <2>7. LoopServes(scopes, {k}, attempt.done \cup {k}, served)
      <3>1. (attempt.done \cup {k}) \cap ToSet(scopes) \subseteq served \cup {k}
        BY DEF LoopServes
      <3>2. \A x, y \in DOMAIN scopes :
              x < y /\ scopes[x] \notin attempt.done \cup {k} /\ scopes[y] \notin attempt.done \cup {k}
                /\ scopes[x] \in served => scopes[y] \in served
        BY DEF LoopServes
      <3>3. k \in served => ToSet(scopes) \ (attempt.done \cup {k}) \subseteq served
        BY <2>6
      <3> QED BY <3>1, <3>2, <3>3 DEF LoopServes
    <2>8. client' \in [Clients -> States] /\ attempt'.done \in SUBSET Clients
      BY <2>1, <2>2 DEF Forms
    <2> QED BY <2>2, <2>3, <2>4, <2>5, <2>7, <2>8
  <1> QED BY <1>1, <1>2 DEF Reconnects

(* The clients the server knows *)

LEMMA ServesMore ==
  ASSUME NEW map, NEW sent, NEW done, NEW served, NEW k, sent \subseteq done,
         k \in served \/ k \notin ToSet(map) \cup done
  PROVE  LoopServes(map, sent, done, served) => LoopServes(map, sent, done, served \cup {k})
  <1>1. CASE k \in served
    <2>1. served \cup {k} = served
      BY <1>1
    <2> QED BY <2>1
  <1>2. CASE k \notin ToSet(map) \cup done
    <2>1. \A i \in DOMAIN map : map[i] \in ToSet(map)
      BY DEF ToSet
    <2> QED BY <1>2, <2>1 DEF LoopServes
  <1> QED BY <1>1, <1>2

LEMMA ServesLess ==
  ASSUME NEW map, NEW sent, NEW done, NEW served, NEW k, k \notin ToSet(map)
  PROVE  LoopServes(map, sent, done, served) => LoopServes(map, sent, done, served \ {k})
  <1>1. \A i \in DOMAIN map : map[i] \in ToSet(map)
    BY DEF ToSet
  <1> QED BY <1>1 DEF LoopServes

LEMMA Appended ==
  ASSUME NEW map \in Seq(Clients), NEW k \in Clients
  PROVE  /\ Append(map, k) \in Seq(Clients) /\ ToSet(Append(map, k)) = ToSet(map) \cup {k}
         /\ Len(map) \in Nat /\ Append(map, k)[Len(map) + 1] = k
         /\ \A i \in DOMAIN map : Append(map, k)[i] = map[i] /\ i < Len(map) + 1
         /\ \A i \in DOMAIN Append(map, k) : i \in DOMAIN map \/ i = Len(map) + 1
  <1> DEFINE m == Append(map, k)
  <1>1. /\ m \in Seq(Clients) /\ Len(map) \in Nat /\ m[Len(map) + 1] = k
        /\ Len(map) + 1 \in DOMAIN m
        /\ \A i \in DOMAIN map : i \in DOMAIN m /\ m[i] = map[i] /\ i < Len(map) + 1
        /\ \A i \in DOMAIN m : i \in DOMAIN map \/ i = Len(map) + 1
    OBVIOUS
  <1> HIDE DEF m
  <1>2. ToSet(m) = ToSet(map) \cup {k}
    BY <1>1 DEF ToSet
  <1> QED BY <1>1, <1>2 DEF m

LEMMA ServesNew ==
  ASSUME NEW map \in Seq(Clients), NEW sent, NEW done, NEW served, NEW k \in Clients,
         sent \subseteq done, k \notin ToSet(map) \cup done
  PROVE  LoopServes(map, sent, done, served)
           => LoopServes(Append(map, k), sent, done, served \cup {k})
  <1> DEFINE m == Append(map, k)
  <1>1. /\ ToSet(m) = ToSet(map) \cup {k} /\ Len(map) \in Nat /\ m[Len(map) + 1] = k
        /\ \A i \in DOMAIN map : m[i] = map[i] /\ i < Len(map) + 1 /\ map[i] \in ToSet(map)
        /\ \A i \in DOMAIN m : i \in DOMAIN map \/ i = Len(map) + 1
    BY Appended DEF ToSet
  <1> HIDE DEF m
  <1> SUFFICES ASSUME LoopServes(map, sent, done, served)
               PROVE  LoopServes(m, sent, done, served \cup {k})
    BY DEF m
  <1>2. ASSUME NEW i \in DOMAIN m, NEW j \in DOMAIN m, i < j, m[i] \notin done, m[j] \notin done,
               m[i] \in served \cup {k}
        PROVE  m[j] \in served \cup {k}
    <2>1. CASE j \notin DOMAIN map
      BY <1>1, <2>1
    <2>2. CASE j \in DOMAIN map
      <3>1. i \in DOMAIN map
        BY <1>1, <1>2, <2>2
      <3>2. m[i] = map[i] /\ m[j] = map[j] /\ map[i] # k
        BY <1>1, <2>2, <3>1
      <3> QED BY <1>2, <2>2, <3>1, <3>2 DEF LoopServes
    <2> QED BY <2>1, <2>2
  <1>3. done \cap ToSet(m) \subseteq served \cup {k} \cup sent
    BY <1>1 DEF LoopServes
  <1>4. \A x \in sent : x \in served \cup {k} => ToSet(m) \ done \subseteq served \cup {k}
    BY <1>1 DEF LoopServes
  <1> QED BY <1>2, <1>3, <1>4 DEF LoopServes

LEMMA Removed ==
  ASSUME NEW map \in Seq(Clients), NEW i \in DOMAIN map
  PROVE  LET m == RemoveAt(map, i) IN
         /\ m \in Seq(Clients)
         /\ \A x \in DOMAIN m : LET y == IF x < i THEN x ELSE x + 1
                               IN y \in DOMAIN map /\ m[x] = map[y] /\ y # i
         /\ \A y \in DOMAIN map \ {i} :
              \E x \in DOMAIN m : y = (IF x < i THEN x ELSE x + 1) /\ m[x] = map[y]
  <1> DEFINE a == SubSeq(map, 1, i - 1)
             b == SubSeq(map, i + 1, Len(map))
             m == RemoveAt(map, i)
  <1>0. Len(map) \in Nat /\ i \in 1 .. Len(map) /\ DOMAIN map = 1 .. Len(map)
        /\ \A x \in 1 .. Len(map) : map[x] \in Clients
    OBVIOUS
  <1>1. /\ a \in Seq(Clients) /\ Len(a) = i - 1
        /\ \A x \in 1 .. i - 1 : a[x] = map[x]
    <2>1. /\ a \in Seq(Clients) /\ Len(a) = (IF 1 <= i - 1 THEN i - 1 - 1 + 1 ELSE 0)
          /\ \A x \in 1 .. (i - 1) - 1 + 1 : a[x] = map[1 + x - 1]
      <3>1. 1 \in Int /\ i - 1 \in Int /\ \A x \in 1 .. i - 1 : map[x] \in Clients
        BY <1>0
      <3> QED BY <3>1, SubSeqProperties
    <2> HIDE DEF a
    <2> QED BY <1>0, <2>1
  <1>2. /\ b \in Seq(Clients) /\ Len(b) = Len(map) - i
        /\ \A x \in 1 .. Len(map) - i : b[x] = map[i + x]
    <2>1. /\ b \in Seq(Clients)
          /\ Len(b) = (IF i + 1 <= Len(map) THEN Len(map) - (i + 1) + 1 ELSE 0)
          /\ \A x \in 1 .. Len(map) - (i + 1) + 1 : b[x] = map[(i + 1) + x - 1]
      <3>1. i + 1 \in Int /\ Len(map) \in Int /\ \A x \in i + 1 .. Len(map) : map[x] \in Clients
        BY <1>0
      <3> QED BY <3>1, SubSeqProperties
    <2> HIDE DEF b
    <2>2. Len(b) = Len(map) - i /\ Len(map) - (i + 1) + 1 = Len(map) - i
      BY <1>0, <2>1
    <2>3. ASSUME NEW x \in 1 .. Len(map) - i PROVE b[x] = map[i + x]
      <3>1. (i + 1) + x - 1 = i + x
        BY <1>0
      <3>2. x \in 1 .. Len(map) - (i + 1) + 1
        BY <2>2
      <3>3. b[x] = map[(i + 1) + x - 1]
        BY <2>1, <3>2
      <3> QED BY <3>1, <3>3
    <2> QED BY <2>1, <2>2, <2>3
  <1>3. /\ m \in Seq(Clients) /\ Len(m) = Len(map) - 1
        /\ \A x \in 1 .. Len(map) - 1 : m[x] = IF x < i THEN map[x] ELSE map[x + 1]
    <2>1. m = a \o b
      BY DEF RemoveAt
    <2> HIDE DEF a, b, m
    <2>2. /\ m \in Seq(Clients) /\ Len(m) = Len(a) + Len(b)
          /\ \A x \in 1 .. Len(a) + Len(b) : m[x] = IF x <= Len(a) THEN a[x] ELSE b[x - Len(a)]
      BY <1>1, <1>2, <2>1, ConcatProperties
    <2>3. ASSUME NEW x \in 1 .. Len(map) - 1 PROVE m[x] = IF x < i THEN map[x] ELSE map[x + 1]
      <3>1. CASE x < i
        BY <1>0, <1>1, <1>2, <2>2, <3>1
      <3>2. CASE ~(x < i)
        <4>1. m[x] = b[x - (i - 1)] /\ x - (i - 1) \in 1 .. Len(map) - i
          BY <1>0, <1>1, <1>2, <2>2, <3>2
        <4>2. i + (x - (i - 1)) = x + 1
          BY <1>0
        <4>3. b[x - (i - 1)] = map[i + (x - (i - 1))]
          BY <1>2, <4>1
        <4> QED BY <3>2, <4>1, <4>2, <4>3
      <3> QED BY <3>1, <3>2
    <2> QED BY <1>0, <1>1, <1>2, <2>2, <2>3
  <1> HIDE DEF m
  <1>4. DOMAIN m = 1 .. Len(map) - 1
    BY <1>3
  <1>5. ASSUME NEW x \in DOMAIN m
        PROVE  LET y == IF x < i THEN x ELSE x + 1
               IN y \in DOMAIN map /\ m[x] = map[y] /\ y # i
    BY <1>0, <1>3, <1>4
  <1>6. ASSUME NEW y \in DOMAIN map \ {i}
        PROVE  \E x \in DOMAIN m : y = (IF x < i THEN x ELSE x + 1) /\ m[x] = map[y]
    <2>1. CASE y < i
      <3>1. y \in DOMAIN m /\ m[y] = map[y]
        BY <1>0, <1>3, <1>4, <2>1
      <3> QED BY <2>1, <3>1
    <2>2. CASE ~(y < i)
      <3>1. y - 1 \in DOMAIN m /\ ~(y - 1 < i) /\ y - 1 + 1 = y
        BY <1>0, <1>4, <2>2
      <3>2. m[y - 1] = map[y]
        BY <1>3, <1>4, <3>1
      <3> QED BY <3>1, <3>2
    <2> QED BY <2>1, <2>2
  <1> QED BY <1>3, <1>5, <1>6 DEF m

LEMMA RemovedServes ==
  ASSUME NEW map \in Seq(Clients), NEW i \in DOMAIN map,
         \A x, y \in DOMAIN map : map[x] = map[y] => x = y
  PROVE  LET m == RemoveAt(map, i) IN
         /\ m \in Seq(Clients) /\ ToSet(m) = ToSet(map) \ {map[i]}
         /\ \A x, y \in DOMAIN m : m[x] = m[y] => x = y
         /\ \A sent, done, served :
              LoopServes(map, sent, done, served) => LoopServes(m, sent, done, served)
  <1> DEFINE m == RemoveAt(map, i)
             From(x) == IF x < i THEN x ELSE x + 1
  <1>1. /\ m \in Seq(Clients) /\ i \in Nat
        /\ \A x \in DOMAIN m : From(x) \in DOMAIN map /\ m[x] = map[From(x)] /\ From(x) # i
        /\ \A y \in DOMAIN map \ {i} : \E x \in DOMAIN m : y = From(x) /\ m[x] = map[y]
    BY Removed
  <1> HIDE DEF m
  <1>2. ASSUME NEW x \in DOMAIN m, NEW y \in DOMAIN m
        PROVE  (From(x) = From(y) => x = y) /\ (x < y => From(x) < From(y))
    <2>1. x \in Nat /\ y \in Nat
      BY <1>1
    <2> QED BY <1>1, <2>1
  <1> HIDE DEF From
  <1>3. ASSUME NEW x \in DOMAIN m, NEW y \in DOMAIN m, m[x] = m[y] PROVE x = y
    <2>1. map[From(x)] = map[From(y)] /\ From(x) \in DOMAIN map /\ From(y) \in DOMAIN map
      BY <1>1, <1>3
    <2>2. From(x) = From(y)
      BY <2>1
    <2> QED BY <1>2, <2>2
  <1>4. ToSet(m) = ToSet(map) \ {map[i]}
    <2>1. ASSUME NEW k \in ToSet(m) PROVE k \in ToSet(map) \ {map[i]}
      BY <1>1, <2>1 DEF ToSet
    <2>2. ASSUME NEW k \in ToSet(map) \ {map[i]} PROVE k \in ToSet(m)
      <3>1. PICK y \in DOMAIN map : k = map[y] /\ y # i
        BY DEF ToSet
      <3> QED BY <1>1, <3>1 DEF ToSet
    <2> QED BY <2>1, <2>2
  <1>5. ASSUME NEW sent, NEW done, NEW served, LoopServes(map, sent, done, served)
        PROVE  LoopServes(m, sent, done, served)
    <2>1. \A x, y \in DOMAIN m :
            x < y /\ m[x] \notin done /\ m[y] \notin done /\ m[x] \in served => m[y] \in served
      BY <1>1, <1>2, <1>5 DEF LoopServes
    <2> QED BY <1>4, <1>5, <2>1 DEF LoopServes
  <1> QED BY <1>1, <1>3, <1>4, <1>5 DEF m

(* The steps *)

\* What a serving process knows of the host.
LEMMA HostShape ==
  ASSUME HostInv, ServedInv
  PROVE  /\ host \in Hosts /\ process = [n \in Procs |-> process[n]]
         /\ host.transport # 0 => host.transport \in Procs
         /\ \A n \in Procs : n # 0
  BY HostAssumption DEF HostInv, Shapes, ServedInv, LoopSound, Procs

\* The wire of a transport that is gone is empty.
LEMMA WireEmpty ==
  /\ <<>> \in Seq(Requests) /\ NoLoop(<<>>) /\ \A c : WireSound(<<>>, c)
  BY DEF NoLoop, WireSound

LEMMA LoopOf ==
  ASSUME Forms, LoopSound, attempt.at # "loop", ~partial
  PROVE  NoLoop(wire)
  BY DEF LoopSound, LoopSends, NoLoop

\* Callers that await an attempt have no request on the wire.
LEMMA AwaitersErr ==
  ASSUME Forms, NEW w \in Seq(Requests), WireSound(w, client),
         client' = Moved(Waiting, Before) \/ client' = client
  PROVE  WireSound(w, client') /\ client' \in [Clients -> States] /\ \A k \in Clients : Stays(k)
  <1>1. client' \in [Clients -> States] /\ \A k \in Clients : Errs(k)
    BY Rejected
  <1>2. \A k \in Clients : client[k] \in {"connecting", "calling"} => client'[k] = client[k]
    BY MovedIs, CallNames
  <1>3. ASSUME NEW i \in DOMAIN w, w[i].kind \in Kinds, ~w[i].dead
        PROVE  client'[w[i].of] = client[w[i].of]
    <2>1. w[i] \in Requests /\ Owned(w, i, client)
      BY DEF WireSound
    <2>2. w[i].of \in Clients
      BY <1>3, <2>1, CallNames DEF Requests
    <2>3. client[w[i].of] \in {"connecting", "calling"}
      BY <1>3, <2>1, CallNames DEF Owned
    <2> QED BY <1>2, <2>2, <2>3
  <1>4. WireSound(w, client')
    BY <1>1, <1>3, WireStays
  <1> QED BY <1>1, <1>4, ErrsStays

\* The rest of a step that only ends or keeps the attempt.
LEMMA AttemptFails ==
  ASSUME NEW h \in Hosts, Fails(h)
  PROVE  /\ host' \in Hosts /\ host'.transport = h.transport /\ host'.ready = h.ready
         /\ host'.close = h.close
         /\ attempt'.at = "none" /\ attempt'.done = {}
  <1>1. PICK gone \in BOOLEAN : host' = [h EXCEPT !.main = IF gone THEN "gone" ELSE h.main]
    BY DEF Fails
  <1>2. attempt' = NoAttempt
    BY DEF Fails
  <1> QED BY <1>1, <1>2 DEF NoAttempt, Attempt

LEMMA ServedInit == HostInit => ServedInv
  <1> SUFFICES ASSUME HostInit PROVE ServedInv
    OBVIOUS
  <1>1. /\ host.transport = 1 /\ ~host.ready /\ scopes = <<>> /\ wire = <<>> /\ partial = FALSE
        /\ attempt.at = "starting" /\ attempt.proc = 1 /\ attempt.done = {}
        /\ client = [k \in Clients |-> "new"]
        /\ \A n \in Procs : process[n].clients = {}
    BY DEF HostInit, Attempt, Service
  <1>2. 1 \in Procs
    BY HostAssumption DEF Procs
  <1>3. Forms
    <2>1. wire \in Seq(Requests) /\ scopes \in Seq(Clients)
      BY <1>1
    <2>2. client \in [Clients -> States]
      BY <1>1 DEF States
    <2>3. partial \in BOOLEAN
      BY <1>1
    <2>4. attempt.done \in SUBSET Clients /\ \A n \in Procs : process[n].clients \in SUBSET Clients
      BY <1>1
    <2> QED BY <2>1, <2>2, <2>3, <2>4 DEF Forms
  <1>4. MapSound
    BY <1>1 DEF MapSound, ToSet
  <1>5. WireSound(wire, client) /\ NoLoop(wire)
    BY <1>1, WireEmpty
  <1>6. LoopSound
    BY <1>1, <1>2, <1>5, NoLoopSends DEF LoopSound
  <1>7. ScopesServed
    BY <1>1 DEF ScopesServed, Usable
  <1> QED BY <1>1, <1>3, <1>4, <1>5, <1>6, <1>7 DEF ServedInv

LEMMA StartupTimeoutServed ==
  ASSUME HostInv, ServedInv, NEW n \in Procs, StartupTimeout(n)
  PROVE  ServedInv'
  <1>1. /\ attempt.at = "starting" /\ Fails(host) /\ client' = Moved(Waiting, Before)
        /\ process' = [process EXCEPT ![n] = Service("killed")]
        /\ scopes' = scopes /\ wire' = wire /\ partial' = partial
    BY DEF StartupTimeout
  <1>2. /\ host'.transport = host.transport /\ host'.ready = host.ready
        /\ attempt'.at = "none" /\ attempt'.done = {}
    BY <1>1, HostShape, AttemptFails
  <1>3. /\ WireSound(wire', client') /\ client' \in [Clients -> States]
        /\ \A k \in Clients : Stays(k)
    BY <1>1, AwaitersErr DEF ServedInv, Forms
  <1>4. Forms'
    BY <1>1, <1>2, <1>3, HostShape DEF ServedInv, Forms, Service
  <1>5. MapSound'
    BY <1>1, <1>2, <1>3, MapStays DEF ServedInv
  <1>6. ~partial /\ ~host.ready /\ NoLoop(wire)
    BY <1>1, LoopOf DEF ServedInv, LoopSound
  <1>7. LoopSound'
    BY <1>1, <1>2, <1>6, NoLoopSends DEF ServedInv, LoopSound
  <1>8. ScopesServed'
    BY <1>2, <1>6 DEF ScopesServed, Usable
  <1> QED BY <1>2, <1>3, <1>4, <1>5, <1>7, <1>8 DEF ServedInv

\* The loop goes on, after the start or after an answer.
LEMMA LoopServed ==
  ASSUME Forms, MapSound, LoopSound, NEW h \in Hosts, NEW w \in Seq(Requests),
         WireSound(w, client), NoLoop(w), Reconnects(h, w), UNCHANGED scopes,
         h.transport \in Procs, h.transport # 0, attempt.proc = h.transport,
         partial' = FALSE, \A n \in Procs : process'[n].clients \in SUBSET Clients,
         LoopServes(scopes, {}, attempt.done, process'[h.transport].clients)
  PROVE  ServedInv'
  <1> DEFINE served == process'[h.transport].clients
  <1>1. /\ wire' \in Seq(Requests) /\ client' \in [Clients -> States]
        /\ attempt'.done \in SUBSET Clients
        /\ WireSound(wire', client') /\ MapSound'
        /\ LoopSends(wire', attempt'.at = "loop", attempt'.done, FALSE)
        /\ \/ /\ attempt'.at = "loop" /\ attempt'.proc = attempt.proc
              /\ LoopServes(scopes, Sent(wire'), attempt'.done, served)
           \/ attempt'.at = "none" /\ ToSet(scopes) \subseteq served
    BY ReconnectsServes
  <1>2. host'.transport = h.transport
    BY LoopGoesOn
  <1>3. Forms'
    BY <1>1 DEF Forms
  <1>4. LoopSound'
    <2>1. LoopSends(wire', attempt'.at = "loop", attempt'.done, partial')
      BY <1>1
    <2> QED BY <1>1, <1>2, <2>1 DEF LoopSound
  <1>5. ScopesServed'
    BY <1>1, <1>2 DEF ScopesServed, ToSet
  <1>6. attempt'.at = "loop" => LoopServes(scopes', Sent(wire'), attempt'.done, served)
    BY <1>1
  <1> QED BY <1>1, <1>2, <1>3, <1>4, <1>5, <1>6 DEF ServedInv

LEMMA ProcessReadyServed ==
  ASSUME HostInv, ServedInv, NEW n \in Procs, ProcessReady(n)
  PROVE  ServedInv'
  <1> DEFINE h == [host EXCEPT !.ready = TRUE]
  <1>1. /\ attempt.at = "starting" /\ attempt.proc = n /\ host.transport = n
    BY DEF HostInv, OneService, StartingIsAwaited, ProcessReady, Alive
  <1>2. /\ Reconnects(h, wire) /\ scopes' = scopes /\ partial' = partial
        /\ process' = [process EXCEPT ![n] = Service("serving")]
    BY <1>1 DEF ProcessReady
  <1>3. host \in Hosts /\ process = [p \in Procs |-> process[p]] /\ n # 0
    BY HostShape
  <1>4. h \in Hosts /\ h.transport = n
    BY <1>1, <1>3
  <1> HIDE DEF h
  <1>5. process'[n].clients = {} /\ \A p \in Procs : process'[p].clients \in SUBSET Clients
    BY <1>2, <1>3 DEF ServedInv, Forms, Service
  <1>6. partial = FALSE /\ NoLoop(wire) /\ attempt.done = {}
    BY <1>1, LoopOf DEF ServedInv, LoopSound, Forms
  <1>7. LoopServes(scopes, {}, attempt.done, process'[h.transport].clients)
    BY <1>4, <1>5, <1>6 DEF LoopServes
  <1>8. wire \in Seq(Requests) /\ WireSound(wire, client) /\ Forms /\ MapSound /\ LoopSound
    BY DEF ServedInv, Forms
  <1> QED BY <1>1, <1>2, <1>3, <1>4, <1>5, <1>6, <1>7, <1>8, LoopServed

\* The host has let its transport go.
LEMMA TransportGone ==
  ASSUME Forms, MapSound, LoopSound,
         client' \in {Moved(Waiting, Before), Moved(Pending, Before), RejectAll, client},
         wire' = <<>>, host'.transport = 0, ~host'.ready, scopes' = scopes \/ scopes' = <<>>,
         partial' = partial, \A n \in Procs : process'[n].clients \in SUBSET Clients,
         attempt'.done \subseteq attempt.done,
         attempt'.at = "none" \/ (attempt' = attempt /\ host'.close = "closed")
  PROVE  ServedInv'
  <1>1. client' \in [Clients -> States] /\ \A k \in Clients : Stays(k)
    BY Rejected, ErrsStays
  <1>2. Forms'
    <2>1. scopes' \in Seq(Clients)
      <3>1. scopes \in Seq(Clients) /\ <<>> \in Seq(Clients)
        BY DEF Forms
      <3> QED BY <3>1
    <2>3. wire' \in Seq(Requests)
      BY WireEmpty
    <2>2. partial' \in BOOLEAN /\ attempt'.done \in SUBSET Clients
      BY DEF Forms
    <2> QED BY <1>1, <2>1, <2>2, <2>3 DEF Forms
  <1>3. MapSound'
    <2>1. CASE scopes' = scopes
      BY <1>1, <2>1, MapStays
    <2>2. CASE scopes' = <<>>
      <3>1. ToSet(scopes') = {} /\ DOMAIN scopes' = {}
        BY <2>2 DEF ToSet
      <3>2. \A k \in attempt'.done : k \in Clients /\ client[k] \in Connected
        BY DEF Forms, MapSound
      <3>3. \A k \in attempt'.done : client'[k] \in Connected
        BY <1>1, <3>2 DEF Stays
      <3> QED BY <3>1, <3>3 DEF MapSound
    <2> QED BY <2>1, <2>2
  <1>4. WireSound(wire', client') /\ NoLoop(wire')
    BY WireEmpty
  <1>5. LoopSound'
    <2>1. LoopSends(wire', attempt'.at = "loop", attempt'.done, partial')
      BY <1>4, NoLoopSends
    <2> QED BY <2>1 DEF LoopSound
  <1>6. ScopesServed'
    BY DEF ScopesServed, Usable
  <1> QED BY <1>2, <1>3, <1>4, <1>5, <1>6 DEF ServedInv

\* A new process is the transport.
LEMMA SpawnServed ==
  ASSUME Forms, MapSound, LoopSound, NEW h \in Hosts, NEW m \in Procs, Spawn(h, m), m # 0,
         UNCHANGED scopes, client' \in [Clients -> States], \A k \in Clients : Stays(k),
         \A n \in Procs : process'[n].clients \in SUBSET Clients
  PROVE  ServedInv'
  <1>1. /\ host'.transport = m /\ ~host'.ready /\ wire' = <<>> /\ partial' = FALSE
        /\ attempt'.at = "starting" /\ attempt'.proc = m /\ attempt'.done = {}
    BY DEF Spawn, Attempt
  <1>2. Forms'
    <2>1. scopes' \in Seq(Clients) /\ wire' \in Seq(Requests)
      BY <1>1 DEF Forms
    <2>2. partial' \in BOOLEAN /\ attempt'.done \in SUBSET Clients
      BY <1>1
    <2> QED BY <2>1, <2>2 DEF Forms
  <1>3. MapSound'
    BY <1>1, MapStays
  <1>4. WireSound(wire', client') /\ NoLoop(wire')
    BY <1>1, WireEmpty
  <1>5. LoopSound'
    <2>1. LoopSends(wire', attempt'.at = "loop", attempt'.done, partial')
      BY <1>4, NoLoopSends
    <2> QED BY <1>1, <2>1 DEF LoopSound
  <1>6. ScopesServed'
    BY <1>1 DEF ScopesServed, Usable
  <1> QED BY <1>1, <1>2, <1>3, <1>4, <1>5, <1>6 DEF ServedInv

LEMMA CloseServed ==
  ASSUME HostInv, ServedInv, Close
  PROVE  ServedInv'
  <1>1. /\ scopes' = <<>> /\ UNCHANGED <<attempt, process, trouble, partial>>
        /\ \/ /\ host.transport # 0 /\ host' = [host EXCEPT !.close = "closing"]
              /\ wire' = Append(wire, Request("shutdown", "none")) /\ client' = client
           \/ /\ host' = Closed(host) /\ wire' = <<>> /\ client' = Moved(Pending, Before)
    BY DEF Close
  <1>2. Forms /\ MapSound /\ LoopSound /\ host \in Hosts
    BY HostShape DEF ServedInv
  <1>3. CASE host' = Closed(host) /\ wire' = <<>> /\ client' = Moved(Pending, Before)
    <2>1. host'.transport = 0 /\ ~host'.ready /\ host'.close = "closed"
      BY <1>2, <1>3 DEF Closed
    <2>2. \A n \in Procs : process'[n].clients \in SUBSET Clients
      BY <1>1, <1>2 DEF Forms
    <2> QED BY <1>1, <1>2, <1>3, <2>1, <2>2, TransportGone
  <1>4. CASE /\ host.transport # 0 /\ host' = [host EXCEPT !.close = "closing"]
             /\ wire' = Append(wire, Request("shutdown", "none")) /\ client' = client
    <2> DEFINE r == Request("shutdown", "none")
    <2>1. r \in Requests /\ ~r.dead /\ r.kind = "shutdown"
      BY DEF Request, Requests
    <2> HIDE DEF r
    <2>2. wire' = Append(wire, r) /\ wire \in Seq(Requests) /\ WireSound(wire, client)
      BY <1>2, <1>4 DEF r, Forms, ServedInv
    <2>3. wire' \in Seq(Requests) /\ WireSound(wire', client')
      BY <1>4, <2>1, <2>2, CallNames, WireAppend
    <2>4. /\ host'.transport = host.transport /\ host'.ready = host.ready
      BY <1>2, <1>4
    <2>5. Forms'
      BY <1>1, <1>2, <1>4, <2>3 DEF Forms
    <2>6. MapSound'
      <3>1. ToSet(scopes') = {} /\ DOMAIN scopes' = {}
        BY <1>1 DEF ToSet
      <3> QED BY <1>1, <1>2, <1>4, <3>1 DEF MapSound
    <2>7. LoopSound'
      <3>1. LoopSends(wire, attempt.at = "loop", attempt.done, partial)
        BY <1>2 DEF LoopSound
      <3>2. LoopSends(wire', attempt.at = "loop", attempt.done, partial)
        BY <2>1, <2>2, <3>1, LoopAppend
      <3> QED BY <1>1, <1>2, <1>4, <2>4, <3>2 DEF LoopSound
    <2>8. ToSet(scopes') = {} /\ DOMAIN scopes' = {}
      BY <1>1 DEF ToSet
    <2>9. ScopesServed'
      BY <2>8 DEF ScopesServed, ToSet
    <2>10. \A sent, done, served : LoopServes(scopes', sent, done, served)
      BY <2>8 DEF LoopServes
    <2> QED BY <2>3, <2>5, <2>6, <2>7, <2>9, <2>10 DEF ServedInv
  <1> QED BY <1>1, <1>3, <1>4

LEMMA CloseEndsServed ==
  ASSUME HostInv, ServedInv, CloseEnds
  PROVE  ServedInv'
  <1>1. /\ process' = [process EXCEPT ![host.transport] = Service("killed")]
        /\ wire' = <<>> /\ scopes' = scopes /\ partial' = partial
        /\ IF attempt.at = "loop" THEN Fails(Closed(host)) /\ client' = RejectAll
           ELSE host' = Closed(host) /\ client' = Moved(Pending, Before) /\ UNCHANGED attempt
    BY DEF CloseEnds
  <1>2. Forms /\ MapSound /\ LoopSound /\ host \in Hosts /\ process = [n \in Procs |-> process[n]]
    BY HostShape DEF ServedInv
  <1>3. /\ Closed(host) \in Hosts /\ Closed(host).transport = 0 /\ ~Closed(host).ready
        /\ Closed(host).close = "closed"
    BY <1>2 DEF Closed
  <1>4. /\ host'.transport = 0 /\ ~host'.ready /\ attempt'.done \subseteq attempt.done
        /\ attempt'.at = "none" \/ (attempt' = attempt /\ host'.close = "closed")
    <2>1. CASE attempt.at = "loop"
      BY <1>1, <1>3, <2>1, AttemptFails
    <2>2. CASE attempt.at # "loop"
      BY <1>1, <1>3, <2>2
    <2> QED BY <2>1, <2>2
  <1>5. \A n \in Procs : process'[n].clients \in SUBSET Clients
    BY <1>1, <1>2 DEF Forms, Service
  <1>6. client' \in {Moved(Waiting, Before), Moved(Pending, Before), RejectAll, client}
    BY <1>1
  <1> QED BY <1>1, <1>2, <1>4, <1>5, <1>6, TransportGone

LEMMA ExitServed ==
  ASSUME HostInv, ServedInv, NEW n \in Procs, Exit(n)
  PROVE  ServedInv'
  <1> DEFINE mine == host.transport = n
             tried == attempt.at # "none" /\ attempt.proc = n
             counted == [host EXCEPT !.transport = 0, !.ready = FALSE,
                                     !.restarts = IF host.close = "no" THEN @ + 1 ELSE @,
                                     !.close = IF @ = "closing" THEN "closed" ELSE @]
             again == /\ mine /\ attempt.at = "none" /\ host.close = "no"
                      /\ counted.restarts <= MaxAutoRestarts
             h == IF mine THEN counted ELSE host
  <1>1. /\ Forms /\ MapSound /\ LoopSound /\ host \in Hosts
        /\ process = [p \in Procs |-> process[p]] /\ \A p \in Procs : p # 0
    BY HostShape DEF ServedInv
  <1>2. counted \in Hosts /\ counted.transport = 0 /\ ~counted.ready
    <2> DEFINE restarts == IF host.close = "no" THEN host.restarts + 1 ELSE host.restarts
               close == IF host.close = "closing" THEN "closed" ELSE host.close
    <2>1. restarts \in Nat /\ close \in {"no", "closing", "closed"}
      BY <1>1
    <2>2. counted = [host EXCEPT !.transport = 0, !.ready = FALSE,
                                 !.restarts = restarts, !.close = close]
      OBVIOUS
    <2> HIDE DEF restarts, close, counted
    <2> QED BY <1>1, <2>1, <2>2
  <1>3. /\ \/ /\ again
              /\ \E m \in Procs : /\ Spawn(counted, m)
                                  /\ process' = [process EXCEPT ![n] = Service("gone"),
                                                                ![m] = Service("starting")]
           \/ /\ ~again
              /\ process' = [process EXCEPT ![n] = Service("gone")]
              /\ IF tried THEN Fails(h) ELSE host' = h /\ UNCHANGED attempt
              /\ UNCHANGED partial
        /\ client' = IF mine /\ tried THEN RejectAll ELSE IF mine THEN Moved(Pending, Before)
                     ELSE IF tried THEN Moved(Waiting, Before) ELSE client
        /\ wire' = IF mine THEN <<>> ELSE wire
        /\ scopes' = scopes
    BY DEF Exit
  <1> HIDE DEF counted
  <1>4. client' \in {Moved(Waiting, Before), Moved(Pending, Before), RejectAll, client}
    BY <1>3
  <1>5. client' \in [Clients -> States] /\ \A k \in Clients : Stays(k)
    BY <1>1, <1>4, Rejected, ErrsStays
  <1>6. CASE again
    <2>1. PICK m \in Procs : /\ Spawn(counted, m)
                             /\ process' = [process EXCEPT ![n] = Service("gone"),
                                                           ![m] = Service("starting")]
      BY <1>3, <1>6
    <2>2. \A p \in Procs : process'[p].clients \in SUBSET Clients
      BY <1>1, <2>1 DEF Forms, Service
    <2> QED BY <1>1, <1>2, <1>3, <1>5, <2>1, <2>2, SpawnServed
  <1>7. CASE ~again
    <2>1. /\ process' = [process EXCEPT ![n] = Service("gone")] /\ partial' = partial
          /\ IF tried THEN Fails(h) ELSE host' = h /\ UNCHANGED attempt
      BY <1>3, <1>7
    <2>2. \A p \in Procs : process'[p].clients \in SUBSET Clients
      BY <1>1, <2>1 DEF Forms, Service
    <2>3. CASE mine
      <3>1. attempt.at = "none" \/ tried
        BY <1>1, <2>3 DEF LoopSound
      <3>2. /\ host'.transport = 0 /\ ~host'.ready
            /\ attempt'.at = "none" /\ attempt'.done \subseteq attempt.done
        <4>1. CASE tried
          BY <1>2, <2>1, <2>3, <4>1, AttemptFails
        <4>2. CASE ~tried
          BY <1>2, <2>1, <2>3, <3>1, <4>2
        <4> QED BY <4>1, <4>2
      <3>3. wire' = <<>>
        BY <1>3, <2>3
      <3> QED BY <1>1, <1>3, <1>4, <2>1, <2>2, <3>2, <3>3, TransportGone
    <2>4. CASE ~mine /\ tried
      <3>1. host.transport = 0 /\ ~host.ready /\ wire = <<>>
        BY <1>1, <2>4 DEF LoopSound
      <3>2. /\ host'.transport = 0 /\ ~host'.ready
            /\ attempt'.at = "none" /\ attempt'.done = {}
        BY <1>1, <2>1, <2>4, <3>1, AttemptFails
      <3>3. wire' = <<>>
        BY <1>3, <2>4, <3>1
      <3> QED BY <1>1, <1>3, <1>4, <2>1, <2>2, <3>2, <3>3, TransportGone
    <2>5. CASE ~mine /\ ~tried
      <3>1. UNCHANGED <<host, attempt, client, wire, scopes, partial>>
        BY <1>3, <2>1, <2>5
      <3>2. host.transport # 0 => process'[host.transport] = process[host.transport]
        BY <1>1, <2>1, <2>5 DEF LoopSound
      <3>3. Forms'
        BY <1>1, <2>2, <3>1 DEF Forms
      <3>4. MapSound' /\ LoopSound' /\ WireSound(wire', client')
        BY <1>1, <3>1 DEF ServedInv, MapSound, LoopSound, ToSet
      <3>5. ScopesServed'
        BY <3>1, <3>2 DEF ServedInv, ScopesServed, Usable, ToSet
      <3> QED BY <3>1, <3>2, <3>3, <3>4, <3>5 DEF ServedInv
    <2> QED BY <2>3, <2>4, <2>5
  <1> QED BY <1>6, <1>7

\* A caller waits for the attempt: it has no request on the wire.
LEMMA WireWaits ==
  ASSUME Forms, WireSound(wire, client), NEW k \in Clients,
         client[k] \in {"new", "connected"}, NEW state \in States,
         state \notin {"connecting", "calling"},
         state \in Connected => client[k] = "connected"
  PROVE  WireSound(wire, [client EXCEPT ![k] = state])
  <1> DEFINE d == [client EXCEPT ![k] = state]
  <1>1. d[k] = state /\ \A x \in Clients \ {k} : d[x] = client[x]
    BY DEF Forms
  <1> HIDE DEF d
  <1>2. ASSUME NEW i \in DOMAIN wire PROVE Owned(wire, i, d) /\ Left(wire, i, d)
    <2>1. Owned(wire, i, client) /\ Left(wire, i, client) /\ wire[i] \in Requests
      BY DEF WireSound, Forms
    <2>2. wire[i].kind \in Kinds \cup {"disconnect"} => wire[i].of \in Clients
      BY <2>1, CallNames DEF Requests
    <2>3. wire[i].kind \in Kinds /\ ~wire[i].dead => wire[i].of # k
      BY <2>1, CallNames DEF Owned
    <2>4. wire[i].kind = "disconnect" => wire[i].of # k
      BY <2>1 DEF Left
    <2>5. Owned(wire, i, d)
      BY <1>1, <2>1, <2>2, <2>3 DEF Owned
    <2>6. wire[i].kind = "connect" /\ wire[i].dead /\ wire[i].of = k => client[k] = "new"
      BY <2>1 DEF Left, Connected
    <2>7. Left(wire, i, d)
      BY <1>1, <2>1, <2>2, <2>4, <2>6, CallNames DEF Left, Connected
    <2> QED BY <2>5, <2>7
  <1> QED BY <1>2 DEF WireSound, d

\* A request is sent, or its caller told, and nothing else moves.
LEMMA OnlyWire ==
  ASSUME ServedInv, wire' \in Seq(Requests), client' \in [Clients -> States],
         \A k \in Clients : Stays(k), WireSound(wire', client'),
         UNCHANGED <<host, attempt, scopes, process, partial>>,
         host.transport = 0 => wire' = wire,
         LoopSends(wire', attempt.at = "loop", attempt.done, partial),
         Sent(wire') = Sent(wire)
  PROVE  ServedInv'
  <1>1. Forms /\ MapSound /\ LoopSound /\ ScopesServed
    BY DEF ServedInv
  <1>2. Forms'
    BY <1>1 DEF Forms
  <1>3. MapSound'
    BY <1>1, MapStays
  <1>4. LoopSound'
    BY <1>1 DEF LoopSound
  <1>5. ScopesServed'
    BY <1>1 DEF ScopesServed, Usable, ToSet
  <1>6. attempt'.at = "loop" /\ host'.transport # 0
          => LoopServes(scopes', Sent(wire'), attempt'.done, process'[host'.transport].clients)
    BY DEF ServedInv
  <1> QED BY <1>2, <1>3, <1>4, <1>5, <1>6 DEF ServedInv

LEMMA AsksServed ==
  ASSUME HostInv, ServedInv, NEW k \in Clients, NEW kind \in Kinds, client[k] = Before[kind],
         Asks(k, kind)
  PROVE  ServedInv'
  <1>1. /\ Forms /\ MapSound /\ LoopSound /\ WireSound(wire, client)
        /\ host \in Hosts /\ process = [n \in Procs |-> process[n]] /\ \A n \in Procs : n # 0
    BY HostShape DEF ServedInv
  <1>2. /\ client[k] \in {"new", "connected"}
        /\ Pending[kind] \in States /\ Waiting[kind] \in States
        /\ Waiting[kind] \notin {"connecting", "calling", "disconnected"}
        /\ Pending[kind] # "disconnected"
        /\ client[k] \in Connected <=> Waiting[kind] \in Connected
        /\ client[k] \in Connected <=> Pending[kind] \in Connected
        /\ client[k] \in Connected <=> client[k] = "connected"
    BY CallNames DEF States, Connected
  <1>3. ASSUME NEW state \in States, client' = [client EXCEPT ![k] = state],
               client[k] \in Connected <=> state \in Connected, state # "disconnected"
        PROVE  client' \in [Clients -> States] /\ \A x \in Clients : Stays(x)
    BY <1>1, <1>2, <1>3 DEF Forms, Stays
  <1>4. CASE /\ Usable(host) /\ client' = [client EXCEPT ![k] = Pending[kind]]
             /\ wire' = Append(wire, Request(kind, k))
             /\ UNCHANGED <<host, attempt, process, partial>>
    <2>1. wire' \in Seq(Requests) /\ WireSound(wire', client')
      BY <1>1, <1>4, WireAsked
    <2>2. client' \in [Clients -> States] /\ \A x \in Clients : Stays(x)
      BY <1>2, <1>3, <1>4
    <2>3. /\ LoopSends(wire', attempt.at = "loop", attempt.done, partial)
          /\ Sent(wire') = Sent(wire)
      <3>1. kind \in {"connect", "call", "reconnect", "disconnect"} /\ kind # "reconnect"
        BY CallNames
      <3>2. Request(kind, k) \in Requests /\ Request(kind, k).kind # "reconnect"
        BY <3>1, RequestForms
      <3>3. wire \in Seq(Requests) /\ LoopSends(wire, attempt.at = "loop", attempt.done, partial)
        BY <1>1 DEF Forms, LoopSound
      <3> QED BY <1>4, <3>2, <3>3, LoopAppend
    <2>4. scopes' = scopes
      BY DEF Asks
    <2> QED BY <1>4, <2>1, <2>2, <2>3, <2>4, OnlyWire DEF Usable
  <1>5. CASE /\ client' = [client EXCEPT ![k] = Waiting[kind]]
             /\ UNCHANGED <<host, attempt, process, partial, wire>>
    <2>1. client' \in [Clients -> States] /\ \A x \in Clients : Stays(x)
      BY <1>2, <1>3, <1>5
    <2>2. WireSound(wire', client')
      BY <1>1, <1>2, <1>5, <2>1, WireWaits
    <2>3. scopes' = scopes /\ wire' \in Seq(Requests)
      BY <1>1, <1>5 DEF Asks, Forms
    <2>4. LoopSends(wire', attempt.at = "loop", attempt.done, partial)
      BY <1>1, <1>5 DEF LoopSound
    <2> QED BY <1>5, <2>1, <2>2, <2>3, <2>4, OnlyWire
  <1>6. CASE /\ client' = [client EXCEPT ![k] = Waiting[kind]]
             /\ \E n \in Procs : /\ Spawn(host, n)
                                 /\ process' = [process EXCEPT ![n] = Service("starting")]
    <2>1. PICK n \in Procs : /\ Spawn(host, n)
                             /\ process' = [process EXCEPT ![n] = Service("starting")]
      BY <1>6
    <2>2. client' \in [Clients -> States] /\ \A x \in Clients : Stays(x)
      BY <1>2, <1>3, <1>6
    <2>3. \A p \in Procs : process'[p].clients \in SUBSET Clients
      BY <1>1, <2>1 DEF Forms, Service
    <2>4. scopes' = scopes
      BY DEF Asks
    <2> QED BY <1>1, <2>1, <2>2, <2>3, <2>4, SpawnServed
  <1> QED BY <1>4, <1>5, <1>6 DEF Asks

LEMMA DisconnectServed ==
  ASSUME HostInv, ServedInv, NEW k \in Clients, Disconnect(k)
  PROVE  ServedInv'
  <1> DEFINE r == Request("disconnect", k)
  <1>1. /\ client[k] = "connected" /\ client' = [client EXCEPT ![k] = "disconnected"]
        /\ wire' = IF host.transport = 0 THEN wire ELSE Append(wire, r)
        /\ UNCHANGED <<host, attempt, process, trouble, partial>>
        /\ IF k \in ToSet(scopes)
           THEN \E i \in DOMAIN scopes : scopes[i] = k /\ scopes' = RemoveAt(scopes, i)
           ELSE UNCHANGED scopes
    BY DEF Disconnect
  <1>2. /\ Forms /\ MapSound /\ LoopSound /\ WireSound(wire, client) /\ ScopesServed
        /\ wire \in Seq(Requests) /\ scopes \in Seq(Clients)
    BY DEF ServedInv, Forms
  <1>3. /\ client' \in [Clients -> States] /\ client'[k] = "disconnected"
        /\ \A x \in Clients \ {k} : client'[x] = client[x]
    BY <1>1, <1>2 DEF Forms, States
  <1>4. WireSound(wire, client')
    <2>1. "disconnected" \in States
      BY DEF States
    <2> QED BY <1>1, <1>2, <1>3, <2>1, WireWaits
  <1>5. /\ r \in Requests /\ ~r.dead /\ r.kind = "disconnect" /\ r.of = k
    BY RequestForms
  <1> HIDE DEF r
  <1>6. wire' \in Seq(Requests) /\ WireSound(wire', client')
    <2>1. Append(wire, r) \in Seq(Requests) /\ WireSound(Append(wire, r), client')
      BY <1>2, <1>3, <1>4, <1>5, CallNames, WireAppend
    <2> QED BY <1>1, <1>2, <1>4, <2>1
  <1>7. /\ LoopSends(wire', attempt.at = "loop", attempt.done, partial)
        /\ Sent(wire') = Sent(wire)
    <2>1. LoopSends(wire, attempt.at = "loop", attempt.done, partial)
      BY <1>2 DEF LoopSound
    <2>2. /\ LoopSends(Append(wire, r), attempt.at = "loop", attempt.done, partial)
          /\ Sent(Append(wire, r)) = Sent(wire)
      BY <1>2, <1>5, <2>1, LoopAppend
    <2> QED BY <1>1, <2>1, <2>2
  <1>8. /\ scopes' \in Seq(Clients) /\ ToSet(scopes') = ToSet(scopes) \ {k}
        /\ \A i, j \in DOMAIN scopes' : scopes'[i] = scopes'[j] => i = j
        /\ \A sent, done, served :
             LoopServes(scopes, sent, done, served) => LoopServes(scopes', sent, done, served)
    <2>1. CASE k \in ToSet(scopes)
      <3>1. PICK i \in DOMAIN scopes : scopes[i] = k /\ scopes' = RemoveAt(scopes, i)
        BY <1>1, <2>1
      <3>2. \A x, y \in DOMAIN scopes : scopes[x] = scopes[y] => x = y
        BY <1>2 DEF MapSound
      <3> QED BY <1>2, <3>1, <3>2, RemovedServes
    <2>2. CASE k \notin ToSet(scopes)
      <3>1. scopes' = scopes
        BY <1>1, <2>2
      <3> QED BY <1>2, <2>2, <3>1 DEF MapSound
    <2> QED BY <2>1, <2>2
  <1>9. ToSet(scopes) \subseteq Clients /\ attempt.done \subseteq Clients
    BY <1>2 DEF Forms, ToSet
  <1>10. Forms'
    BY <1>1, <1>2, <1>3, <1>6, <1>8 DEF Forms
  <1>11. MapSound'
    <2>1. \A x \in ToSet(scopes') \cup attempt.done : client'[x] \in Connected
      BY <1>2, <1>3, <1>8, <1>9 DEF MapSound, Connected
    <2>2. \A x \in ToSet(scopes') : client'[x] # "disconnected"
      BY <1>2, <1>3, <1>8, <1>9 DEF MapSound
    <2>3. ToSet(scopes)' = ToSet(scopes')
      BY DEF ToSet
    <2> QED BY <1>1, <1>8, <2>1, <2>2, <2>3 DEF MapSound
  <1>12. LoopSound'
    <2>1. host.transport = 0 => wire' = wire
      BY <1>1
    <2> QED BY <1>1, <1>2, <1>7, <2>1 DEF LoopSound
  <1>13. ScopesServed'
    <2>1. ToSet(scopes)' \subseteq ToSet(scopes)
      BY <1>8 DEF ToSet
    <2> QED BY <1>1, <1>2, <2>1 DEF ScopesServed, Usable
  <1>14. attempt'.at = "loop" /\ host'.transport # 0
           => LoopServes(scopes', Sent(wire'), attempt'.done, process'[host'.transport].clients)
    <2> SUFFICES ASSUME attempt.at = "loop", host.transport # 0
                 PROVE  LoopServes(scopes', Sent(wire), attempt.done, process[host.transport].clients)
      BY <1>1, <1>7
    <2>1. LoopServes(scopes, Sent(wire), attempt.done, process[host.transport].clients)
      BY DEF ServedInv
    <2> QED BY <1>8, <2>1
  <1> QED BY <1>6, <1>10, <1>11, <1>12, <1>13, <1>14 DEF ServedInv

LEMMA RequestTimeoutServed ==
  ASSUME HostInv, ServedInv, RequestTimeout
  PROVE  ServedInv'
  <1>1. PICK i \in DOMAIN wire :
          /\ ~wire[i].dead /\ wire[i].kind # "shutdown"
          /\ wire' = [wire EXCEPT ![i].dead = TRUE]
          /\ IF LoopAwaits(wire[i])
             THEN Fails(host) /\ client' = Moved(Waiting, Before) /\ partial' = TRUE
             ELSE /\ client' = IF wire[i].kind \in Kinds
                               THEN [client EXCEPT ![wire[i].of] = Before[wire[i].kind]]
                               ELSE client
                  /\ UNCHANGED <<host, attempt, partial>>
          /\ UNCHANGED <<scopes, process>>
    BY DEF RequestTimeout
  <1>2. /\ Forms /\ MapSound /\ LoopSound /\ WireSound(wire, client) /\ ScopesServed
        /\ wire \in Seq(Requests) /\ host \in Hosts
    BY HostShape DEF ServedInv, Forms
  <1>3. Live(wire, i) => LoopAwaits(wire[i])
    BY <1>2 DEF Live, LoopAwaits, LoopSound, LoopSends
  <1>4. "reconnect" \notin Kinds
    BY CallNames
  <1>5. /\ wire' \in Seq(Requests) /\ DOMAIN wire' = DOMAIN wire
        /\ wire'[i].dead /\ wire'[i].kind = wire[i].kind
        /\ \A j \in DOMAIN wire \ {i} : wire'[j] = wire[j]
    <2>1. \E d : IF wire[i].kind \in Kinds
                 THEN d = [client EXCEPT ![wire[i].of] = Before[wire[i].kind]]
                 ELSE d = client
      OBVIOUS
    <2>2. /\ wire' \in Seq(Requests) /\ DOMAIN wire' = DOMAIN wire
          /\ wire'[i] = [wire[i] EXCEPT !.dead = TRUE]
          /\ \A j \in DOMAIN wire \ {i} : wire'[j] = wire[j]
      BY <1>1, <1>2, <2>1, WireLate
    <2>3. wire[i] \in Requests
      BY <1>2
    <2> QED BY <2>2, <2>3 DEF Requests
  <1>6. CASE LoopAwaits(wire[i])
    <2>1. attempt.at = "loop" /\ Live(wire, i) /\ wire[i].kind \notin Kinds
      BY <1>4, <1>6 DEF LoopAwaits, Live
    <2>2. WireSound(wire', client)
      BY <1>1, <1>2, <2>1, WireLate
    <2>3. client' = Moved(Waiting, Before) /\ Fails(host) /\ partial' = TRUE
      BY <1>1, <1>6
    <2>4. /\ WireSound(wire', client') /\ client' \in [Clients -> States]
          /\ \A k \in Clients : Stays(k)
      BY <1>2, <1>5, <2>2, <2>3, AwaitersErr
    <2>5. /\ host'.transport = host.transport /\ host'.ready = host.ready
          /\ attempt'.at = "none" /\ attempt'.done = {}
      BY <1>2, <2>3, AttemptFails
    <2>6. Forms'
      <3>1. partial' \in BOOLEAN /\ attempt'.done \in SUBSET Clients
        BY <2>3, <2>5
      <3> QED BY <1>1, <1>2, <1>5, <2>4, <3>1 DEF Forms
    <2>7. MapSound'
      BY <1>1, <1>2, <2>4, <2>5, MapStays
    <2>8. \A j \in DOMAIN wire : Live(wire, j) => j = i
      BY <1>2, <2>1 DEF LoopSound, LoopSends, Live
    <2>9. LoopSends(wire', FALSE, {}, TRUE)
      BY <1>5, <2>8 DEF LoopSends, Live
    <2>10. LoopSound'
      <3>1. LoopSends(wire', attempt'.at = "loop", attempt'.done, partial')
        BY <2>3, <2>5, <2>9
      <3>2. host.transport = 0 => wire' = wire
        BY <1>2 DEF LoopSound
      <3> QED BY <1>2, <2>5, <3>1, <3>2 DEF LoopSound
    <2>11. ScopesServed'
      BY <2>3 DEF ScopesServed
    <2> QED BY <2>4, <2>5, <2>6, <2>7, <2>10, <2>11 DEF ServedInv
  <1>7. CASE ~LoopAwaits(wire[i])
    <2>1. /\ client' = IF wire[i].kind \in Kinds
                       THEN [client EXCEPT ![wire[i].of] = Before[wire[i].kind]]
                       ELSE client
          /\ UNCHANGED <<host, attempt, partial, scopes, process>>
      BY <1>1, <1>7
    <2>2. client' \in [Clients -> States] /\ WireSound(wire', client')
      BY <1>1, <1>2, <2>1, WireLate
    <2>3. wire[i] \in Requests /\ Owned(wire, i, client)
      BY <1>2 DEF WireSound
    <2>4. \A k \in Clients : Stays(k)
      <3>1. CASE wire[i].kind \notin Kinds
        BY <2>1, <3>1 DEF Stays
      <3>2. CASE wire[i].kind \in Kinds
        <4>1. wire[i].kind = "connect" \/ wire[i].kind = "call"
          BY <3>2, CallNames
        <4>2. wire[i].of \in Clients
          BY <2>3, <4>1 DEF Requests
        <4>3. client[wire[i].of] = Pending[wire[i].kind]
          BY <1>1, <2>3, <3>2 DEF Owned
        <4>4. /\ client'[wire[i].of] = Before[wire[i].kind]
              /\ \A k \in Clients \ {wire[i].of} : client'[k] = client[k]
          BY <1>2, <2>1, <3>2, <4>2 DEF Forms
        <4>5. Stays(wire[i].of)
          BY <4>1, <4>3, <4>4, CallNames DEF Stays, Connected
        <4> QED BY <4>4, <4>5 DEF Stays
      <3> QED BY <3>1, <3>2
    <2>5. ~Live(wire, i) /\ wire[i].kind # "reconnect"
      BY <1>1, <1>3, <1>7 DEF Live
    <2>6. \A j \in DOMAIN wire :
            /\ wire'[j].kind = "reconnect" <=> wire[j].kind = "reconnect"
            /\ wire[j].kind = "reconnect" => wire'[j] = wire[j]
      BY <1>5, <2>5
    <2>7. LoopSends(wire', attempt.at = "loop", attempt.done, partial)
      BY <1>2, <1>5, <2>6 DEF LoopSound, LoopSends, Live
    <2>8. Sent(wire') = Sent(wire)
      BY <1>5, <2>6 DEF Sent, Live
    <2>9. host.transport = 0 => wire' = wire
      BY <1>2 DEF LoopSound
    <2> QED BY <1>5, <2>1, <2>2, <2>4, <2>7, <2>8, <2>9, OnlyWire
  <1> QED BY <1>6, <1>7

\* The head of the wire is served and the loop does not go on.
LEMMA HeadServed ==
  ASSUME ServedInv, host \in Hosts, process = [n \in Procs |-> process[n]],
         host.transport \in Procs, wire # <<>>, wire' = Tail(wire),
         UNCHANGED <<host, attempt, partial>>, ~Live(wire, 1),
         NEW known \in SUBSET Clients,
         process' = [process EXCEPT ![host.transport] = [state |-> "serving", clients |-> known]],
         client' \in [Clients -> States], WireSound(Tail(wire), client'),
         scopes' \in Seq(Clients), MapSound',
         ~partial /\ ToSet(scopes) \subseteq process[host.transport].clients
           => ToSet(scopes') \subseteq known,
         attempt.at = "loop"
           => (LoopServes(scopes, Sent(wire), attempt.done, process[host.transport].clients)
                => LoopServes(scopes', Sent(wire), attempt.done, known))
  PROVE  ServedInv'
  <1>1. /\ Forms /\ LoopSound /\ ScopesServed /\ wire \in Seq(Requests)
    BY DEF ServedInv, Forms
  <1>2. /\ process'[host.transport].clients = known
        /\ \A n \in Procs : process'[n].clients \in SUBSET Clients
    BY <1>1 DEF Forms
  <1>3. /\ wire' \in Seq(Requests) /\ Sent(wire') = Sent(wire)
        /\ LoopSends(wire', attempt.at = "loop", attempt.done, partial)
    <2>1. LoopSends(wire, attempt.at = "loop", attempt.done, partial)
      BY <1>1 DEF LoopSound
    <2> QED BY <1>1, <2>1, LoopTail, WireTail
  <1>4. Forms'
    BY <1>1, <1>2, <1>3 DEF Forms
  <1>5. LoopSound'
    <2>1. host.transport # 0 \/ wire' = wire
      BY <1>1 DEF LoopSound
    <2> QED BY <1>1, <1>3, <2>1 DEF LoopSound
  <1>6. ScopesServed'
    <2>1. ToSet(scopes)' = ToSet(scopes')
      BY DEF ToSet
    <2> QED BY <1>1, <1>2, <2>1 DEF ScopesServed, Usable
  <1>7. attempt'.at = "loop" /\ host'.transport # 0
          => LoopServes(scopes', Sent(wire'), attempt'.done, process'[host'.transport].clients)
    BY <1>2, <1>3 DEF ServedInv
  <1> QED BY <1>3, <1>4, <1>5, <1>6, <1>7 DEF ServedInv

\* A caller is answered: nobody else moves.
LEMMA CallerAnswered ==
  ASSUME Forms, WireSound(wire, client), wire # <<>>, Head(wire).kind \in Kinds, ~Head(wire).dead,
         NEW state \in States, client' = [client EXCEPT ![Head(wire).of] = state]
  PROVE  /\ client' \in [Clients -> States] /\ WireSound(Tail(wire), client')
         /\ Head(wire).of \in Clients /\ client[Head(wire).of] = Pending[Head(wire).kind]
         /\ client'[Head(wire).of] = state
         /\ \A k \in Clients \ {Head(wire).of} : client'[k] = client[k]
  <1> DEFINE k == Head(wire).of
  <1>1. /\ wire \in Seq(Requests) /\ 1 \in DOMAIN wire /\ Head(wire) = wire[1]
        /\ Head(wire) \in Requests
    BY DEF Forms
  <1>2. Owned(wire, 1, client)
    BY <1>1 DEF WireSound
  <1>3. k \in Clients /\ client[k] = Pending[Head(wire).kind]
    BY <1>1, <1>2, CallNames DEF Owned, Requests
  <1>4. /\ client' \in [Clients -> States] /\ client'[k] = state
        /\ \A x \in Clients \ {k} : client'[x] = client[x]
    BY <1>3 DEF Forms
  <1>5. WireSound(Tail(wire), client')
    BY <1>1, <1>4, WireAnswered
  <1> QED BY <1>3, <1>4, <1>5

LEMMA ServeServed ==
  ASSUME HostInv, ServedInv, Serve
  PROVE  ServedInv'
  <1> DEFINE n == host.transport
             r == Head(wire)
             k == r.of
             served == process[n].clients
             fresh == k \notin served
             Knows(known) == process' = [process EXCEPT ![n] = [state |-> "serving", clients |-> known]]
  <1>1. /\ Forms /\ MapSound /\ LoopSound /\ ScopesServed /\ WireSound(wire, client)
        /\ wire \in Seq(Requests) /\ scopes \in Seq(Clients)
        /\ host \in Hosts /\ process = [p \in Procs |-> process[p]]
    BY HostShape DEF ServedInv, Forms
  <1>2. /\ wire # <<>> /\ n # 0 /\ process[n].state = "serving" /\ UNCHANGED <<trouble, partial>>
        /\ \/ ConnectServed(r, fresh) \/ ReconnectServed(r, fresh) \/ CallServed(r)
           \/ /\ r.kind = "disconnect" /\ wire' = Tail(wire)
              /\ UNCHANGED <<host, attempt, client, scopes>>
        /\ Knows(CASE r.kind \in {"connect", "reconnect"} -> served \cup {k}
                   [] r.kind = "disconnect" -> served \ {k}
                   [] r.kind = "call" -> served)
    BY DEF Serve
  <1>3. n \in Procs /\ served \in SUBSET Clients
    BY <1>1, <1>2, HostShape DEF Forms
  <1>4. /\ 1 \in DOMAIN wire /\ r = wire[1] /\ r \in Requests
        /\ Owned(wire, 1, client) /\ Left(wire, 1, client)
        /\ Tail(wire) \in Seq(Requests) /\ WireSound(Tail(wire), client)
    BY <1>1, <1>2, WireTail DEF WireSound
  <1>5. /\ ToSet(scopes) \subseteq Clients /\ attempt.done \subseteq Clients
        /\ Sent(wire) \subseteq attempt.done
    <2>1. \A i \in DOMAIN wire : Live(wire, i) => wire[i].of \in attempt.done
      BY <1>1 DEF LoopSound, LoopSends, Live
    <2> QED BY <1>1, <2>1 DEF Forms, ToSet, Sent
  <1>6. /\ r.kind \in {"connect", "reconnect"} => Knows(served \cup {k})
        /\ r.kind = "disconnect" => Knows(served \ {k})
        /\ r.kind = "call" => Knows(served)
    BY <1>2
  <1> HIDE DEF r
  <1>7. CASE ConnectServed(r, fresh)
    <2>1. /\ r.kind = "connect" /\ wire' = Tail(wire) /\ UNCHANGED <<host, attempt>>
          /\ IF r.dead THEN UNCHANGED <<client, scopes>>
             ELSE IF fresh THEN /\ client' = [client EXCEPT ![k] = "connected"]
                                /\ scopes' = Append(scopes, k)
             ELSE client' = [client EXCEPT ![k] = "new"] /\ UNCHANGED scopes
      BY <1>7 DEF ConnectServed
    <2>2. k \in Clients /\ ~Live(wire, 1) /\ r.kind \in Kinds
      BY <1>4, <2>1, CallNames DEF Requests, Live
    <2>3. client[k] \notin Connected /\ k \notin ToSet(scopes) \cup attempt.done
      <3>1. client[k] \notin Connected
        BY <1>4, <2>1, <2>2, CallNames DEF Owned, Left, Connected
      <3> QED BY <1>1, <3>1 DEF MapSound
    <2>4. Knows(served \cup {k}) /\ served \cup {k} \in SUBSET Clients
      BY <1>3, <1>6, <2>1, <2>2
    <2>5. LoopServes(scopes, Sent(wire), attempt.done, served)
            => LoopServes(scopes, Sent(wire), attempt.done, served \cup {k})
      BY <1>5, <2>3, ServesMore
    <2>6. CASE r.dead
      <3>1. client' = client /\ scopes' = scopes
        BY <2>1, <2>6
      <3>2. MapSound'
        BY <1>1, <2>1, <3>1 DEF MapSound, ToSet
      <3>3. client' \in [Clients -> States] /\ WireSound(Tail(wire), client')
        BY <1>1, <1>4, <3>1 DEF Forms
      <3> HIDE DEF k
      <3> QED BY <1>1, <1>2, <1>3, <2>1, <2>2, <2>4, <2>5, <3>1, <3>2, <3>3, HeadServed
    <2>7. CASE ~r.dead /\ fresh
      <3>1. "connected" \in States /\ "connected" \in Connected /\ "connected" # "disconnected"
        BY DEF States, Connected
      <3>2. /\ client' = [client EXCEPT ![k] = "connected"] /\ scopes' = Append(scopes, k)
        BY <2>1, <2>7
      <3>3. /\ client' \in [Clients -> States] /\ WireSound(Tail(wire), client')
            /\ client'[k] = "connected" /\ \A x \in Clients \ {k} : client'[x] = client[x]
        BY <1>1, <1>2, <2>2, <2>7, <3>1, <3>2, CallerAnswered DEF r
      <3>4. /\ scopes' \in Seq(Clients) /\ ToSet(scopes') = ToSet(scopes) \cup {k}
            /\ Len(scopes) \in Nat /\ scopes'[Len(scopes) + 1] = k
            /\ \A i \in DOMAIN scopes : scopes'[i] = scopes[i] /\ scopes[i] \in ToSet(scopes)
            /\ \A i \in DOMAIN scopes' : i \in DOMAIN scopes \/ i = Len(scopes) + 1
        <4>1. \A i \in DOMAIN scopes : scopes[i] \in ToSet(scopes)
          BY DEF ToSet
        <4> QED BY <1>1, <2>2, <3>2, <4>1, Appended
      <3> HIDE DEF k
      <3>5. MapSound'
        <4>1. ToSet(scopes)' = ToSet(scopes')
          BY DEF ToSet
        <4>2. \A i, j \in DOMAIN scopes' : scopes'[i] = scopes'[j] => i = j
          BY <1>1, <2>3, <3>4 DEF MapSound
        <4>3. \A x \in ToSet(scopes') \cup attempt.done : client'[x] \in Connected
          BY <1>1, <1>5, <3>1, <3>3, <3>4 DEF MapSound
        <4>4. \A x \in ToSet(scopes') : client'[x] # "disconnected"
          BY <1>1, <1>5, <3>1, <3>3, <3>4 DEF MapSound
        <4> QED BY <2>1, <4>1, <4>2, <4>3, <4>4 DEF MapSound
      <3>6. LoopServes(scopes, Sent(wire), attempt.done, served)
              => LoopServes(scopes', Sent(wire), attempt.done, served \cup {k})
        BY <1>1, <1>5, <2>2, <2>3, <3>2, ServesNew
      <3> QED BY <1>1, <1>2, <1>3, <2>1, <2>2, <2>4, <3>3, <3>4, <3>5, <3>6, HeadServed
    <2>8. CASE ~r.dead /\ ~fresh
      <3>1. "new" \in States /\ "new" \notin Connected /\ "new" # "disconnected"
        BY DEF States, Connected
      <3>2. client' = [client EXCEPT ![k] = "new"] /\ scopes' = scopes
        BY <2>1, <2>8
      <3>3. /\ client' \in [Clients -> States] /\ WireSound(Tail(wire), client')
            /\ client'[k] = "new" /\ \A x \in Clients \ {k} : client'[x] = client[x]
        BY <1>1, <1>2, <2>2, <2>8, <3>1, <3>2, CallerAnswered DEF r
      <3> HIDE DEF k
      <3>4. \A x \in Clients : Stays(x)
        <4>1. client[k] \notin Connected /\ client[k] # "disconnected"
          BY <2>3 DEF Connected
        <4> QED BY <3>1, <3>3, <4>1 DEF Stays
      <3>5. MapSound'
        BY <1>1, <2>1, <3>2, <3>4, MapStays
      <3> QED BY <1>1, <1>2, <1>3, <2>1, <2>2, <2>4, <2>5, <3>2, <3>3, <3>5, HeadServed
    <2> QED BY <2>6, <2>7, <2>8
  <1>8. CASE CallServed(r)
    <2>1. /\ r.kind = "call" /\ wire' = Tail(wire) /\ UNCHANGED <<host, attempt, scopes>>
          /\ client' = IF r.dead THEN client ELSE [client EXCEPT ![k] = "connected"]
      BY <1>8 DEF CallServed
    <2>2. ~Live(wire, 1) /\ r.kind \in Kinds /\ Knows(served)
      BY <1>4, <1>6, <2>1, CallNames DEF Live
    <2>3. /\ client' \in [Clients -> States] /\ WireSound(Tail(wire), client')
          /\ \A x \in Clients : Stays(x)
      <3>1. CASE r.dead
        BY <1>1, <1>4, <2>1, <3>1 DEF Forms, Stays
      <3>2. CASE ~r.dead
        <4>1. "connected" \in States /\ client' = [client EXCEPT ![k] = "connected"]
          BY <2>1, <3>2 DEF States
        <4>2. /\ client' \in [Clients -> States] /\ WireSound(Tail(wire), client')
              /\ client[k] = Pending[r.kind] /\ client'[k] = "connected"
              /\ \A x \in Clients \ {k} : client'[x] = client[x]
          BY <1>1, <1>2, <2>2, <3>2, <4>1, CallerAnswered DEF r
        <4> HIDE DEF k
        <4>3. client[k] = "calling"
          BY <2>1, <4>2, CallNames
        <4> QED BY <4>2, <4>3 DEF Stays, Connected
      <3> QED BY <3>1, <3>2
    <2>4. MapSound'
      BY <1>1, <2>1, <2>3, MapStays
    <2> HIDE DEF k
    <2> QED BY <1>1, <1>2, <1>3, <2>1, <2>2, <2>3, <2>4, HeadServed
  <1>9. CASE /\ r.kind = "disconnect" /\ wire' = Tail(wire)
             /\ UNCHANGED <<host, attempt, client, scopes>>
    <2>1. k \in Clients /\ ~Live(wire, 1) /\ client[k] = "disconnected"
      BY <1>4, <1>9 DEF Requests, Live, Left
    <2>2. k \notin ToSet(scopes)
      BY <1>1, <2>1 DEF MapSound
    <2>3. Knows(served \ {k}) /\ served \ {k} \in SUBSET Clients
      BY <1>3, <1>6, <1>9
    <2>4. LoopServes(scopes, Sent(wire), attempt.done, served)
            => LoopServes(scopes, Sent(wire), attempt.done, served \ {k})
      BY <2>2, ServesLess
    <2>5. MapSound' /\ client' \in [Clients -> States] /\ WireSound(Tail(wire), client')
      BY <1>1, <1>4, <1>9 DEF MapSound, ToSet, Forms
    <2>6. ToSet(scopes) \subseteq served => ToSet(scopes') \subseteq served \ {k}
      BY <1>9, <2>2
    <2> HIDE DEF k
    <2> QED BY <1>1, <1>2, <1>3, <1>9, <2>1, <2>3, <2>4, <2>5, <2>6, HeadServed
  <1>10. CASE ReconnectServed(r, fresh)
    <2>1. /\ r.kind = "reconnect" /\ scopes' = scopes
          /\ IF ~LoopAwaits(r) THEN wire' = Tail(wire) /\ UNCHANGED <<host, attempt, client>>
             ELSE IF fresh THEN Reconnects(host, Tail(wire))
             ELSE wire' = Tail(wire) /\ Fails(host) /\ client' = Moved(Waiting, Before)
      BY <1>10 DEF ReconnectServed
    <2>2. k \in Clients /\ Knows(served \cup {k}) /\ served \cup {k} \in SUBSET Clients
      BY <1>3, <1>4, <1>6, <2>1 DEF Requests
    <2>3. LoopSends(wire, attempt.at = "loop", attempt.done, partial)
      BY <1>1 DEF LoopSound
    <2>4. CASE ~LoopAwaits(r)
      <3>1. r.dead /\ partial
        BY <1>4, <2>1, <2>3, <2>4 DEF LoopSends, LoopAwaits
      <3>2. attempt.at # "loop" /\ ~Live(wire, 1)
        BY <1>1, <1>4, <3>1 DEF LoopSound, Live
      <3>3. UNCHANGED <<host, attempt, client>> /\ wire' = Tail(wire)
        BY <2>1, <2>4
      <3>4. MapSound' /\ client' \in [Clients -> States] /\ WireSound(Tail(wire), client')
        BY <1>1, <1>4, <2>1, <3>3 DEF MapSound, ToSet, Forms
      <3> HIDE DEF k
      <3> QED BY <1>1, <1>2, <1>3, <2>1, <2>2, <3>1, <3>2, <3>3, <3>4, HeadServed
    <2>5. CASE LoopAwaits(r)
      <3>1. attempt.at = "loop" /\ Live(wire, 1) /\ partial = FALSE /\ attempt.proc = n
        <4>1. attempt.at = "loop" /\ Live(wire, 1)
          BY <1>4, <2>5 DEF LoopAwaits, Live
        <4> QED BY <1>1, <1>2, <4>1 DEF LoopSound, Forms
      <3>2. Sent(wire) = {k} /\ NoLoop(Tail(wire)) /\ k \in attempt.done
        <4>1. Sent(wire) = {wire[1].of} /\ NoLoop(Tail(wire))
          BY <1>1, <1>2, <2>3, <3>1, LoopTail
        <4>2. wire[1].of \in attempt.done
          BY <1>4, <2>3, <3>1 DEF LoopSends, Live
        <4> QED BY <1>4, <4>1, <4>2
      <3>3. LoopServes(scopes, {k}, attempt.done, served)
        BY <1>2, <3>1, <3>2 DEF ServedInv
      <3>4. process'[n].clients = served \cup {k}
            /\ \A p \in Procs : process'[p].clients \in SUBSET Clients
        BY <1>1, <1>3, <2>2 DEF Forms
      <3>5. CASE fresh
        <4>1. Reconnects(host, Tail(wire))
          BY <2>1, <2>5, <3>5
        <4>2. LoopServes(scopes, {}, attempt.done, served \cup {k})
          BY <3>2, <3>3 DEF LoopServes
        <4>3. LoopServes(scopes, {}, attempt.done, process'[host.transport].clients)
          BY <3>4, <4>2
        <4>4. partial' = FALSE /\ scopes' = scopes
          BY <1>2, <2>1, <3>1
        <4> HIDE DEF k
        <4> QED BY <1>1, <1>2, <1>3, <1>4, <3>1, <3>2, <3>4, <4>1, <4>3, <4>4, LoopServed
      <3>6. CASE ~fresh
        <4>1. wire' = Tail(wire) /\ Fails(host) /\ client' = Moved(Waiting, Before)
          BY <2>1, <2>5, <3>6
        <4>2. /\ host'.transport = n /\ attempt'.at = "none" /\ attempt'.done = {}
          BY <1>1, <4>1, AttemptFails
        <4>3. /\ WireSound(wire', client') /\ client' \in [Clients -> States]
              /\ \A x \in Clients : Stays(x)
          BY <1>1, <1>4, <4>1, AwaitersErr
        <4>4. Forms'
          BY <1>1, <1>2, <1>4, <2>1, <3>4, <4>1, <4>2, <4>3 DEF Forms
        <4>5. MapSound'
          BY <1>1, <2>1, <4>2, <4>3, MapStays
        <4>6. LoopSound'
          <5>1. LoopSends(wire', attempt'.at = "loop", attempt'.done, partial')
            BY <3>2, <4>1, NoLoopSends
          <5> QED BY <1>2, <1>3, <4>2, <5>1 DEF LoopSound
        <4>7. ScopesServed'
          <5>1. ToSet(scopes) \subseteq served \cup {k}
            BY <3>3, <3>6 DEF LoopServes
          <5>2. ToSet(scopes)' = ToSet(scopes)
            BY <2>1 DEF ToSet
          <5> QED BY <3>4, <4>2, <5>1, <5>2 DEF ScopesServed
        <4> QED BY <4>2, <4>3, <4>4, <4>5, <4>6, <4>7 DEF ServedInv
      <3> QED BY <3>5, <3>6
    <2> QED BY <2>4, <2>5
  <1> QED BY <1>2, <1>7, <1>8, <1>9, <1>10

\* ServedInv holds in every reachable state.
LEMMA ServedInvariant == HostSpec => []ServedInv
  <1>1. HostInit => ServedInv
    BY ServedInit
  <1>2. HostInv /\ ServedInv /\ [HostNext]_hostVars => ServedInv'
    <2> SUFFICES ASSUME HostInv, ServedInv, [HostNext]_hostVars PROVE ServedInv'
      OBVIOUS
    <2>1. CASE Serve
      BY <2>1, ServeServed
    <2>2. CASE RequestTimeout
      BY <2>2, RequestTimeoutServed
    <2>3. CASE Close
      BY <2>3, CloseServed
    <2>4. CASE CloseEnds
      BY <2>4, CloseEndsServed
    <2>5. ASSUME NEW n \in Procs, ProcessReady(n) \/ StartupTimeout(n) \/ Exit(n)
          PROVE  ServedInv'
      BY <2>5, ProcessReadyServed, StartupTimeoutServed, ExitServed
    <2>6. ASSUME NEW k \in Clients, Connect(k) \/ Call(k)
          PROVE  ServedInv'
      <3>1. PICK kind \in Kinds : client[k] = Before[kind] /\ Asks(k, kind)
        BY <2>6, CallNames DEF Connect, Call
      <3> QED BY <3>1, AsksServed
    <2>7. ASSUME NEW k \in Clients, Disconnect(k)
          PROVE  ServedInv'
      BY <2>7, DisconnectServed
    <2>8. CASE UNCHANGED hostVars
      BY <2>8 DEF hostVars, ServedInv, Forms, MapSound, LoopSound, ScopesServed, Usable, ToSet
    <2> QED BY <2>1, <2>2, <2>3, <2>4, <2>5, <2>6, <2>7, <2>8 DEF HostNext
  <1> QED BY <1>1, <1>2, HostInvariant, PTL DEF HostSpec

\* The server knows every client of the map when no attempt is under way
\* (spawnAndReconnect, connect, disconnect), whatever crashes or comes too late.
THEOREM HostScopesServed == HostSpec => []ScopesServed
  <1>1. ServedInv => ScopesServed
    BY DEF ServedInv
  <1> QED BY <1>1, ServedInvariant, PTL
=============================================================================
