--------------------------- MODULE DataServiceHost ---------------------------
(***************************************************************************)
(* ClawXDataServiceUtilityHost of Main, its transport and the RPC server in  *)
(* the utility process: start-up, exits, automatic restarts, reconnection of *)
(* the clients, calls, close.                                               *)
(*                                                                          *)
(* spawnAndReconnect makes one process, so a process stands for its attempt  *)
(* too.  The response of a request is part of the step that handles it; one  *)
(* that comes too late answers a request that has timed out.  A rejected     *)
(* attempt nobody awaits is an unhandled rejection: it ends Main.           *)
(***************************************************************************)
EXTENDS Naturals, SequencesExt

CONSTANTS
  Clients,             \* callers of connect, each with one client
  MaxAutoRestarts,     \* maxRestarts
  MaxProcs,            \* bound: utility processes
  Troubles             \* bounds: crashes, hanging start-ups, slow requests

ASSUME HostAssumption ==
  /\ MaxAutoRestarts \in Nat /\ MaxProcs \in Nat \ {0}
  /\ IsFiniteSet(Clients) /\ Troubles \subseteq [crashes : Nat, hangs : Nat, slow : Nat]

Procs == 1 .. MaxProcs

VARIABLES
  host,      \* fields of the host; how far close is; whether Main runs
  attempt,   \* the attempt whose promise is the field recovery
  scopes,    \* the map of connected clients, in insertion order
  client,    \* what each client is doing
  process,   \* utility processes: state and clients of the RPC server
  wire,      \* requests on their way to the transport, FIFO
  trouble,   \* what is left of the bounds
  partial    \* history: a request of the last reconnection timed out

hostVars == <<host, attempt, scopes, client, process, wire, trouble, partial>>

Attempt(at, n, done) == [at |-> at, proc |-> n, done |-> done]
NoAttempt == Attempt("none", 0, {})
Service(state) == [state |-> state, clients |-> {}]
Alive == {"starting", "serving"}

\* Main awaits start().
HostInit ==
  /\ host = [transport |-> 1, ready |-> FALSE, restarts |-> 0, close |-> "no",
             main |-> "booting"]
  /\ attempt = Attempt("starting", 1, {})
  /\ scopes = <<>> /\ wire = <<>> /\ partial = FALSE
  /\ client = [k \in Clients |-> "new"]
  /\ process = [n \in Procs |-> Service(IF n = 1 THEN "starting" ELSE "none")]
  /\ trouble \in Troubles

Request(kind, k) == [kind |-> kind, of |-> k, dead |-> FALSE]
Usable(h) == h.transport # 0 /\ h.ready
Trouble(what) == /\ trouble[what] > 0
                 /\ trouble' = [trouble EXCEPT ![what] = @ - 1]

\* Callers that await the attempt, and callers whose request is pending.
Waiting == [connect |-> "await connect", call |-> "await call"]
Pending == [connect |-> "connecting", call |-> "calling"]
Before == [connect |-> "new", call |-> "connected"]
Kinds == DOMAIN Waiting
Awaiting == {k \in Clients : \E kind \in Kinds : client[k] = Waiting[kind]}
Moved(from, to) ==
  [k \in Clients |-> IF \E kind \in Kinds : client[k] = from[kind]
                     THEN to[CHOOSE kind \in Kinds : client[k] = from[kind]]
                     ELSE client[k]]
KindOf(k) == CHOOSE kind \in Kinds : client[k] = Waiting[kind]

\* Every caller gets an error: those of a rejected attempt, those of
\* rejectPending.
RejectAll == [k \in Clients |-> IF k \in Awaiting THEN Moved(Waiting, Before)[k]
                                ELSE Moved(Pending, Before)[k]]
-----------------------------------------------------------------------------
(* The attempt *)

\* What was sent to an older transport is not served any more.
Spawn(h, n) ==
  /\ process[n].state = "none"
  /\ host' = [h EXCEPT !.transport = n, !.ready = FALSE]
  /\ attempt' = Attempt("starting", n, {})
  /\ wire' = <<>> /\ partial' = FALSE

\* The awaiting callers go on with their requests.
Succeeds(h, w) ==
  /\ host' = [h EXCEPT !.restarts = 0, !.main = "up"]
  /\ attempt' = NoAttempt
  /\ \E order \in SetToSeqs(Awaiting) :
       wire' = w \o [i \in DOMAIN order |-> Request(KindOf(order[i]), order[i])]
  /\ client' = Moved(Waiting, Pending)

\* start() fails and Main does not boot; nobody awaits and Main ends.
Fails(h) ==
  /\ host' = [h EXCEPT !.main = IF @ = "booting" \/ Awaiting = {} THEN "gone" ELSE @]
  /\ attempt' = NoAttempt

Reconnect(h, w, k) ==
  /\ host' = h /\ UNCHANGED client
  /\ attempt' = Attempt("loop", attempt.proc, attempt.done \cup {k})
  /\ wire' = Append(w, Request("reconnect", k))

\* Fault: the loop stops after its first client.
Reconnects_First(h, w) ==
  \/ (scopes = <<>> \/ attempt.done # {}) /\ Succeeds(h, w)
  \/ scopes # <<>> /\ attempt.done = {} /\ Reconnect(h, w, Head(scopes))

\* The next client of the map, or the end of the loop.
Reconnects(h, w) ==
  \/ ToSet(scopes) \subseteq attempt.done /\ Succeeds(h, w)
  \/ \E i \in DOMAIN scopes :
       /\ scopes[i] \notin attempt.done
       /\ \A j \in 1 .. i - 1 : scopes[j] \in attempt.done
       /\ Reconnect(h, w, scopes[i])

ProcessReady(n) ==
  /\ process[n].state = "starting" /\ host.main # "gone"
  /\ process' = [process EXCEPT ![n] = Service("serving")]
  /\ IF attempt.at = "starting" /\ attempt.proc = n
     THEN Reconnects([host EXCEPT !.ready = TRUE], wire)
     ELSE UNCHANGED <<host, attempt, wire, client>>
  /\ UNCHANGED <<scopes, trouble, partial>>

\* Fault: the timeout leaves the process alone.
StartupTimeout_NoClose(n) ==
  /\ attempt.at = "starting" /\ attempt.proc = n /\ process[n].state = "starting"
  /\ host.main # "gone" /\ Trouble("hangs")
  /\ Fails(host) /\ client' = Moved(Waiting, Before)
  /\ UNCHANGED <<process, scopes, wire, partial>>

\* The transport is closed and stays in its field until it exits.
StartupTimeout(n) ==
  /\ attempt.at = "starting" /\ attempt.proc = n /\ process[n].state = "starting"
  /\ host.main # "gone" /\ Trouble("hangs")
  /\ process' = [process EXCEPT ![n] = Service("killed")]
  /\ Fails(host) /\ client' = Moved(Waiting, Before)
  /\ UNCHANGED <<scopes, wire, partial>>

-----------------------------------------------------------------------------
(* Exits *)

\* Fault: the host stays ready.
Closed_Ready(h) == [h EXCEPT !.transport = 0, !.close = "closed"]

Closed(h) == [h EXCEPT !.transport = 0, !.ready = FALSE, !.close = "closed"]

\* The listener of the ready promise; handleExit.
Exit(n) ==
  LET mine == host.transport = n
      tried == attempt.at # "none" /\ attempt.proc = n
      counted == [host EXCEPT !.transport = 0, !.ready = FALSE,
                              !.restarts = IF host.close = "no" THEN @ + 1 ELSE @,
                              !.close = IF @ = "closing" THEN "closed" ELSE @]
      again == /\ mine /\ attempt.at = "none" /\ host.close = "no"
               /\ counted.restarts <= MaxAutoRestarts
  IN
  /\ host.main # "gone"
  /\ \/ process[n].state = "killed" /\ UNCHANGED trouble
     \/ process[n].state \in Alive /\ Trouble("crashes")
  /\ \/ /\ again
        /\ \E m \in Procs : /\ Spawn(counted, m)
                            /\ process' = [process EXCEPT ![n] = Service("gone"),
                                                          ![m] = Service("starting")]
     \/ /\ ~again
        /\ process' = [process EXCEPT ![n] = Service("gone")]
        /\ LET h == IF mine THEN counted ELSE host IN
           IF tried THEN Fails(h) ELSE host' = h /\ UNCHANGED attempt
        /\ UNCHANGED partial
  /\ client' = IF mine /\ tried THEN RejectAll ELSE IF mine THEN Moved(Pending, Before)
               ELSE IF tried THEN Moved(Waiting, Before) ELSE client
  /\ wire' = IF mine THEN <<>> ELSE wire
  /\ UNCHANGED scopes
-----------------------------------------------------------------------------
(* Clients and the RPC server *)

\* ensureReady, then the request.
Asks(k, kind) ==
  /\ host.main = "up"
  /\ \/ /\ Usable(host)
        /\ client' = [client EXCEPT ![k] = Pending[kind]]
        /\ wire' = Append(wire, Request(kind, k))
        /\ UNCHANGED <<host, attempt, process, partial>>
     \/ /\ ~Usable(host) /\ attempt.at # "none"
        /\ client' = [client EXCEPT ![k] = Waiting[kind]]
        /\ UNCHANGED <<host, attempt, process, partial, wire>>
     \/ /\ ~Usable(host) /\ attempt.at = "none" /\ host.close = "no"
        /\ client' = [client EXCEPT ![k] = Waiting[kind]]
        /\ \E n \in Procs : /\ Spawn(host, n)
                            /\ process' = [process EXCEPT ![n] = Service("starting")]
  /\ UNCHANGED <<scopes, trouble>>

Connect(k) == client[k] = "new" /\ Asks(k, "connect")
Call(k) == client[k] = "connected" /\ k \in ToSet(scopes) /\ Asks(k, "call")

Disconnect(k) ==
  /\ host.main = "up" /\ client[k] = "connected"
  /\ client' = [client EXCEPT ![k] = "disconnected"]
  /\ IF k \in ToSet(scopes)
     THEN \E i \in DOMAIN scopes : scopes[i] = k /\ scopes' = RemoveAt(scopes, i)
     ELSE UNCHANGED scopes
  /\ wire' = IF host.transport = 0 THEN wire ELSE Append(wire, Request("disconnect", k))
  /\ UNCHANGED <<host, attempt, process, trouble, partial>>

\* The process serves the request at the head of the wire; r is the request
\* and served the clients it knows.
ConnectServed(r, ok) ==
  /\ r.kind = "connect" /\ wire' = Tail(wire)
  /\ IF r.dead THEN UNCHANGED <<client, scopes>>
     ELSE IF ok THEN /\ client' = [client EXCEPT ![r.of] = "connected"]
                     /\ scopes' = Append(scopes, r.of)
     ELSE client' = [client EXCEPT ![r.of] = "new"] /\ UNCHANGED scopes
  /\ UNCHANGED <<host, attempt>>

\* The loop that sent the request still awaits it.
LoopAwaits(r) == r.kind = "reconnect" /\ ~r.dead /\ attempt.at = "loop"

ReconnectServed(r, ok) ==
  /\ r.kind = "reconnect" /\ UNCHANGED scopes
  /\ IF ~LoopAwaits(r) THEN wire' = Tail(wire) /\ UNCHANGED <<host, attempt, client>>
     ELSE IF ok THEN Reconnects(host, Tail(wire))
     ELSE wire' = Tail(wire) /\ Fails(host) /\ client' = Moved(Waiting, Before)

CallServed(r) ==
  /\ r.kind = "call" /\ wire' = Tail(wire)
  /\ client' = IF r.dead THEN client ELSE [client EXCEPT ![r.of] = "connected"]
  /\ UNCHANGED <<host, attempt, scopes>>

Serve ==
  LET n == host.transport
      r == Head(wire)
      served == process[n].clients
      fresh == r.of \notin served IN
  /\ wire # <<>> /\ n # 0 /\ process[n].state = "serving" /\ host.main # "gone"
  /\ \/ ConnectServed(r, fresh) \/ ReconnectServed(r, fresh) \/ CallServed(r)
     \/ /\ r.kind = "disconnect" /\ wire' = Tail(wire)
        /\ UNCHANGED <<host, attempt, client, scopes>>
  /\ process' = [process EXCEPT ![n] =
       [state |-> "serving",
        clients |-> CASE r.kind \in {"connect", "reconnect"} -> served \cup {r.of}
                      [] r.kind = "disconnect" -> served \ {r.of}
                      [] r.kind = "call" -> served]]
  /\ UNCHANGED <<trouble, partial>>

\* Fault: the timer forgets the request and does not reject it.
RequestTimeout_Silent ==
  \E i \in DOMAIN wire :
    /\ ~wire[i].dead /\ wire[i].kind # "shutdown" /\ host.main # "gone" /\ Trouble("slow")
    /\ wire' = [wire EXCEPT ![i].dead = TRUE]
    /\ UNCHANGED <<host, attempt, scopes, client, process, partial>>

\* A request gets no answer in time; it may be served all the same.
RequestTimeout ==
  \E i \in DOMAIN wire :
    LET r == wire[i] IN
    /\ ~r.dead /\ r.kind # "shutdown" /\ host.main # "gone" /\ Trouble("slow")
    /\ wire' = [wire EXCEPT ![i].dead = TRUE]
    /\ IF LoopAwaits(r)
       THEN Fails(host) /\ client' = Moved(Waiting, Before) /\ partial' = TRUE
       ELSE /\ client' = IF r.kind \in Kinds THEN [client EXCEPT ![r.of] = Before[r.kind]]
                         ELSE client
            /\ UNCHANGED <<host, attempt, partial>>
    /\ UNCHANGED <<scopes, process>>
-----------------------------------------------------------------------------
(* Close *)

Close ==
  LET asks == host.transport # 0 /\ process[host.transport].state \in Alive IN
  /\ host.main = "up" /\ host.close = "no"
  /\ scopes' = <<>>
  /\ host' = IF asks THEN [host EXCEPT !.close = "closing"] ELSE Closed(host)
  /\ wire' = IF asks THEN Append(wire, Request("shutdown", "none")) ELSE <<>>
  /\ client' = IF asks THEN client ELSE Moved(Pending, Before)
  /\ UNCHANGED <<attempt, process, trouble, partial>>

\* The shutdown is answered or times out: the rest of close.
CloseEnds ==
  LET n == host.transport IN
  /\ host.close = "closing" /\ n # 0 /\ host.main # "gone"
  /\ \/ /\ Head(wire).kind = "shutdown" /\ process[n].state = "serving"
        /\ UNCHANGED trouble
     \/ Trouble("slow")
  /\ process' = [process EXCEPT ![n] = Service("killed")]
  /\ wire' = <<>>
  /\ IF attempt.at = "loop" THEN Fails(Closed(host)) /\ client' = RejectAll
     ELSE host' = Closed(host) /\ client' = Moved(Pending, Before) /\ UNCHANGED attempt
  /\ UNCHANGED <<scopes, partial>>
-----------------------------------------------------------------------------
HostNext ==
  \/ Serve \/ RequestTimeout \/ Close \/ CloseEnds
  \/ \E n \in Procs : ProcessReady(n) \/ StartupTimeout(n) \/ Exit(n)
  \/ \E k \in Clients : Connect(k) \/ Call(k) \/ Disconnect(k)

HostSpec == HostInit /\ [][HostNext]_hostVars

\* The server answers, a start-up ends one way or the other, a process that
\* was killed exits.
HostProgress ==
  \/ Serve \/ CloseEnds
  \/ \E n \in Procs : \/ ProcessReady(n) \/ StartupTimeout(n)
                      \/ process[n].state = "killed" /\ Exit(n)

FairHostSpec == HostSpec /\ WF_hostVars(HostProgress)
-----------------------------------------------------------------------------
(* Properties *)

HostTypeOK ==
  /\ host.transport \in 0 .. MaxProcs /\ host.restarts \in 0 .. MaxProcs
  /\ host.ready => host.transport # 0
  /\ attempt.at = "none" => attempt = NoAttempt
  /\ ToSet(scopes) \subseteq Clients
  /\ \A n \in Procs : process[n].clients # {} => process[n].state = "serving"

\* One utility process at most works on the database: the one the host talks
\* to, and none once close is over.
OneService == \A n \in Procs : process[n].state \in Alive => n = host.transport

\* When no attempt is under way the server knows every client of the map, but
\* for a reconnection one of whose requests has timed out.
ScopesServed ==
  (Usable(host) /\ attempt.at = "none" /\ ~partial)
    => ToSet(scopes) \subseteq process[host.transport].clients

\* Every connect and every call gets an answer or an error, over exits,
\* failing start-ups and close.
CallsSettle ==
  \A k \in Clients :
    \A kind \in Kinds :
      client[k] \in {Waiting[kind], Pending[kind]}
        ~> client[k] \notin {Waiting[kind], Pending[kind]} \/ host.main = "gone"
=============================================================================
