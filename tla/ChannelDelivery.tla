--------------------------- MODULE ChannelDelivery ---------------------------
(***************************************************************************)
(* ChannelOrchestrator of Main and the two tables it writes: inbound         *)
(* messages of a channel become prompts, answers become outbound messages,   *)
(* deliveries are attempted, retried, recovered at start-up and given up.    *)
(*                                                                          *)
(* Data calls reach the store through one queue: the call at its head is     *)
(* applied and answered, and what its caller does up to its next await is    *)
(* part of the same step.  A message is named by its inbound row; its answer *)
(* is the row `outbound:<id>`.  Results of scheduled runs have no inbound    *)
(* row.                                                                     *)
(***************************************************************************)
EXTENDS Naturals, SequencesExt

CONSTANTS
  Inbound, Scheduled,          \* messages: handed over by a connector, results of cron runs
  ConvOf,                      \* the conversation of a message
  MaxAttempts,                 \* maxDeliveryAttempts
  Limits                       \* bounds: messages, failing calls, process ends, redeliveries,
                               \* whether channels may refuse a lease or a message

Messages == Inbound \cup Scheduled

ASSUME ChannelAssumption ==
  /\ MaxAttempts \in Nat \ {0}
  /\ Inbound \cap Scheduled = {} /\ IsFiniteSet(Messages)
  /\ DOMAIN ConvOf = Messages
  /\ Limits \subseteq [who : SUBSET Messages, faults : Nat, ends : Nat, again : Nat, refuses : BOOLEAN]

Conversations == {ConvOf[m] : m \in Messages}
Final == {"delivered", "dead-letter"}
Undelivered == {"pending-delivery", "retrying"}

VARIABLES
  row,      \* channel_messages and delivery_attempts
  calls,    \* data calls on their way: caller and message
  exec,     \* executeInbound and deliverScheduledRun, one per message
  lane,     \* conversationTails: admitted messages of a conversation
  tail,     \* deliveryTails: who asked for the deliveries of a message
  del,      \* the delivery at the head of a tail
  timer,    \* retryTimers
  pending,  \* retryPending and its scheduleOrDeliver per message
  proc,     \* Main: "up", "stopped" (the orchestrator), "down"
  limit,    \* what is left of the bounds
  hurt,     \* history: calls of a message have failed: "no", "now" (this process), "once"
  sends     \* history: sends of a message

memory == <<calls, exec, lane, tail, del, timer, pending>>
channelVars == <<row, memory, proc, limit, hurt, sends>>

NoDelivery == [at |-> "idle", attempt |-> 0]
NoExec == [at |-> "idle", seen |-> "none"]
EmptyMemory ==
  /\ calls' = <<>>
  /\ exec' = [m \in Messages |->
       IF m \in Scheduled /\ exec[m].at # "idle" THEN [NoExec EXCEPT !.at = "done"] ELSE NoExec]
  /\ lane' = [c \in Conversations |-> <<>>] /\ tail' = [m \in Messages |-> <<>>]
  /\ del' = [m \in Messages |-> NoDelivery] /\ timer' = [m \in Messages |-> FALSE]
  /\ pending' = "idle"

ChannelInit ==
  /\ row = [m \in Messages |-> [inb |-> "none", out |-> "none", att |-> <<>>]]
  /\ calls = <<>> /\ exec = [m \in Messages |-> NoExec]
  /\ lane = [c \in Conversations |-> <<>>] /\ tail = [m \in Messages |-> <<>>]
  /\ del = [m \in Messages |-> NoDelivery] /\ timer = [m \in Messages |-> FALSE]
  /\ pending = "idle" /\ proc = "up" /\ limit \in Limits
  /\ hurt = [m \in Messages |-> "no"] /\ sends = [m \in Messages |-> 0]

(* How the call at the head of the queue ends: answered; failed before the   *)
(* store applied it; applied, its answer lost.                              *)
Ends == {"ok", "refused", "lost"}
Answers(caller, m) ==
  /\ calls # <<>> /\ Head(calls)[1] = caller /\ Head(calls)[2] = m
Then(more) == calls' = Tail(calls) \o more
Ended(end, who) ==
  IF end = "ok" THEN UNCHANGED <<limit, hurt>>
  ELSE /\ limit.faults > 0
       /\ limit' = [limit EXCEPT !.faults = @ - 1]
       /\ hurt' = [m \in Messages |-> IF m \in who THEN "now" ELSE hurt[m]]
Applied(end, new) == row' = IF end = "refused" THEN row ELSE new
-----------------------------------------------------------------------------
(* The delivery queue of a message *)

\* serializeDelivery: a first task starts with its load.
Load(m, waiting) == IF waiting = <<>> THEN <<>> ELSE <<<<"deliver", m>>>>
Queues(m, who) ==
  /\ tail' = [tail EXCEPT ![m] = Append(@, who)]
  /\ IF tail[m] = <<>> THEN /\ del' = [del EXCEPT ![m] = [NoDelivery EXCEPT !.at = "load"]]
                            /\ Then(<<<<"deliver", m>>>>)
     ELSE Then(<<>>) /\ UNCHANGED del

\* deliver returns or throws: its caller goes on, then the next task starts.
DeliveryOver(m, threw) ==
  LET rest == Tail(tail[m])
      asked == Head(tail[m]) = "exec"
      back == IF ~asked THEN "idle" ELSE IF ~threw /\ m \in Inbound THEN "get"
              ELSE IF m \in Inbound THEN "fail" ELSE "done"
  IN /\ tail' = [tail EXCEPT ![m] = rest]
     /\ del' = [del EXCEPT ![m] = IF rest = <<>> THEN NoDelivery
                                  ELSE [NoDelivery EXCEPT !.at = "load"]]
     /\ exec' = IF asked THEN [exec EXCEPT ![m].at = back] ELSE exec
     /\ Then((IF asked /\ m \in Inbound THEN <<<<"exec", m>>>> ELSE <<>>) \o Load(m, rest))

DeliverGoes(m, pc) ==
  /\ del' = [del EXCEPT ![m].at = pc]
  /\ Then(IF pc = "send" THEN <<>> ELSE <<<<"deliver", m>>>>)
  /\ UNCHANGED <<tail, exec>>

Delivering(m, pc) == Answers("deliver", m) /\ del[m].at = pc
DeliverRest == UNCHANGED <<lane, pending, proc>>

\* Fault: the reload is missing; the state the caller captured is used.
DeliverLoad_Stale(m, end) ==
  /\ Delivering(m, "load")
  /\ IF end # "ok" THEN DeliveryOver(m, TRUE)
     ELSE IF proc = "stopped" THEN DeliveryOver(m, FALSE)
     ELSE DeliverGoes(m, "list")
  /\ Ended(end, {m}) /\ DeliverRest /\ UNCHANGED <<row, timer, sends>>

DeliverLoad(m, end) ==
  /\ Delivering(m, "load")
  /\ IF end # "ok" THEN DeliveryOver(m, TRUE)
     ELSE IF proc = "stopped" \/ row[m].out \in Final THEN DeliveryOver(m, FALSE)
     ELSE DeliverGoes(m, "list")
  /\ Ended(end, {m}) /\ DeliverRest /\ UNCHANGED <<row, timer, sends>>

DeliverList(m, end) ==
  /\ Delivering(m, "list")
  /\ IF end # "ok" THEN DeliveryOver(m, TRUE)
     ELSE /\ del' = [del EXCEPT ![m] = [at |-> "lease", attempt |-> Len(row[m].att) + 1]]
          /\ Then(<<<<"deliver", m>>>>) /\ UNCHANGED <<tail, exec>>
  /\ Ended(end, {m}) /\ DeliverRest /\ UNCHANGED <<row, timer, sends>>

\* The owner has no lease, or the channel does not take the message.
Refusal == IF limit.refuses THEN {"catch"} ELSE {}

DeliverLease(m, end) ==
  /\ Delivering(m, "lease")
  /\ IF end # "ok" THEN DeliveryOver(m, TRUE)
     ELSE \E pc \in {"sending"} \cup Refusal : DeliverGoes(m, pc)
  /\ Ended(end, {m}) /\ DeliverRest /\ UNCHANGED <<row, timer, sends>>

\* Fault: the message gets the status of its attempt.
MessageStatus_Raw(status) == status

\* recordChannelDeliveryAttempt: inserts the attempt or overwrites it.
MessageStatus(status) ==
  CASE status = "sent" -> "delivered"
    [] status = "dead-letter" -> "dead-letter"
    [] status = "retry" -> "retrying"
    [] status = "sending" -> "pending-delivery"

Recorded(m, n, status) ==
  [row EXCEPT ![m] = [inb |-> @.inb, out |-> MessageStatus(status),
                      att |-> IF n > Len(@.att) THEN Append(@.att, status)
                              ELSE [@.att EXCEPT ![n] = status]]]

DeliverSending(m, end) ==
  /\ Delivering(m, "sending")
  /\ Applied(end, Recorded(m, del[m].attempt, "sending"))
  /\ IF end = "ok" THEN DeliverGoes(m, "send") /\ sends' = [sends EXCEPT ![m] = @ + 1]
     ELSE DeliverGoes(m, "catch") /\ UNCHANGED sends
  /\ Ended(end, {m}) /\ DeliverRest /\ UNCHANGED timer

\* owners.send and the reads of hydrateOutbound.
DeliverSend(m) ==
  /\ del[m].at = "send" /\ proc # "down"
  /\ \E pc \in {"sent"} \cup Refusal : del' = [del EXCEPT ![m].at = pc]
  /\ calls' = Append(calls, <<"deliver", m>>)
  /\ DeliverRest /\ UNCHANGED <<row, exec, tail, timer, limit, hurt, sends>>

DeliverSent(m, end) ==
  /\ Delivering(m, "sent")
  /\ Applied(end, Recorded(m, del[m].attempt, "sent"))
  /\ IF end = "ok" THEN DeliveryOver(m, FALSE) ELSE DeliverGoes(m, "catch")
  /\ Ended(end, {m}) /\ DeliverRest /\ UNCHANGED <<timer, sends>>

Failure(n) == IF n >= MaxAttempts THEN "dead-letter" ELSE "retry"

\* Fault: the retry is not scheduled.
DeliverCatch_NoTimer(m, end) ==
  /\ Delivering(m, "catch")
  /\ Applied(end, Recorded(m, del[m].attempt, Failure(del[m].attempt)))
  /\ DeliveryOver(m, end # "ok")
  /\ Ended(end, {m}) /\ DeliverRest /\ UNCHANGED <<timer, sends>>

DeliverCatch(m, end) ==
  LET status == Failure(del[m].attempt) IN
  /\ Delivering(m, "catch")
  /\ Applied(end, Recorded(m, del[m].attempt, status))
  /\ DeliveryOver(m, end # "ok")
  /\ timer' = [timer EXCEPT ![m] = @ \/ (end = "ok" /\ status = "retry")]
  /\ Ended(end, {m}) /\ DeliverRest /\ UNCHANGED sends

-----------------------------------------------------------------------------
(* Inbound messages and results of scheduled runs *)

\* onInbound: the connector hands an envelope over, once or again.
Arrive(m) ==
  LET again == row[m].inb # "none" \/ \E i \in DOMAIN calls : calls[i] = <<"admit", m>> IN
  /\ proc = "up" /\ m \in Inbound \cap limit.who
  /\ again => limit.again > 0
  /\ limit' = IF again THEN [limit EXCEPT !.again = @ - 1] ELSE limit
  /\ calls' = Append(calls, <<"admit", m>>)
  /\ UNCHANGED <<row, exec, lane, tail, del, timer, pending, proc, hurt, sends>>

\* admitChannelMessage and serializeConversation.
Executes(m) ==
  /\ lane' = [lane EXCEPT ![ConvOf[m]] = Append(@, m)]
  /\ IF lane[ConvOf[m]] = <<>>
     THEN exec' = [exec EXCEPT ![m].at = "mark"] /\ Then(<<<<"exec", m>>>>)
     ELSE exec' = [exec EXCEPT ![m].at = "lane"] /\ Then(<<>>)

\* Fault: a duplicate is executed again.
Admit_Duplicate(m, end) ==
  /\ Answers("admit", m)
  /\ Applied(end, IF row[m].inb = "none" THEN [row EXCEPT ![m].inb = "admitted"] ELSE row)
  /\ IF end = "ok" THEN Executes(m) ELSE Then(<<>>) /\ UNCHANGED <<lane, exec>>
  /\ Ended(end, {m}) /\ UNCHANGED <<tail, del, timer, pending, proc, sends>>

Admit(m, end) ==
  LET new == row[m].inb = "none" IN
  /\ Answers("admit", m)
  /\ Applied(end, IF new THEN [row EXCEPT ![m].inb = "admitted"] ELSE row)
  /\ IF end = "ok" /\ new THEN Executes(m) ELSE Then(<<>>) /\ UNCHANGED <<lane, exec>>
  /\ Ended(end, {m}) /\ UNCHANGED <<tail, del, timer, pending, proc, sends>>

ScheduledRunCompletes(m) ==
  /\ proc = "up" /\ m \in Scheduled \cap limit.who /\ exec[m].at = "idle"
  /\ exec' = [exec EXCEPT ![m].at = "export"]
  /\ calls' = Append(calls, <<"exec", m>>)
  /\ UNCHANGED <<row, lane, tail, del, timer, pending, proc, limit, hurt, sends>>

\* The execution awaits its next call, or is over and the next one begins.
ExecGoes(m, pc) ==
  LET waiting == IF m \in Inbound THEN Tail(lane[ConvOf[m]]) ELSE <<>> IN
  IF pc = "done" /\ waiting # <<>>
  THEN /\ lane' = [lane EXCEPT ![ConvOf[m]] = waiting]
       /\ exec' = [exec EXCEPT ![m].at = "done", ![Head(waiting)].at = "mark"]
       /\ Then(<<<<"exec", Head(waiting)>>>>)
  ELSE /\ lane' = IF pc = "done" /\ m \in Inbound
                  THEN [lane EXCEPT ![ConvOf[m]] = <<>>] ELSE lane
       /\ exec' = [exec EXCEPT ![m].at = pc]
       /\ Then(IF pc \in {"prompt", "done"} THEN <<>> ELSE <<<<"exec", m>>>>)
ExecFails(m, pc) ==
  ExecGoes(m, IF m \in Scheduled \/ pc \in {"mark", "fail"} THEN "done" ELSE "fail")

Executing(m, pc) == Answers("exec", m) /\ exec[m].at = pc
ExecRest == UNCHANGED <<timer, pending, proc, sends>>

\* updateChannelMessage of the inbound row, and the last read of it.
Stamps == [mark |-> "processing", store |-> "processed", fail |-> "failed"]
Following == [mark |-> "prompt", store |-> "export", fail |-> "done", get |-> "done"]
ExecStamp(m, end) ==
  LET pc == exec[m].at IN
  /\ Answers("exec", m) /\ pc \in DOMAIN Following
  /\ Applied(end, IF pc \in DOMAIN Stamps THEN [row EXCEPT ![m].inb = Stamps[pc]] ELSE row)
  /\ IF end = "ok" THEN ExecGoes(m, Following[pc]) ELSE ExecFails(m, pc)
  /\ Ended(end, {m}) /\ ExecRest /\ UNCHANGED <<tail, del>>

\* router.prompt returns or throws.
PromptSettles(m) ==
  /\ exec[m].at = "prompt" /\ proc # "down"
  /\ \E pc \in {"store", "fail"} : exec' = [exec EXCEPT ![m].at = pc]
  /\ calls' = Append(calls, <<"exec", m>>)
  /\ UNCHANGED <<row, lane, tail, del, timer, pending, proc, limit, hurt, sends>>

\* createOutbound: the turn is missing, has nothing to send, or is sent.
ExecExport(m, end) ==
  /\ Executing(m, "export")
  /\ IF end # "ok" THEN ExecFails(m, "export")
     ELSE \/ ExecFails(m, "export")
          \/ ExecGoes(m, IF m \in Inbound THEN "get" ELSE "done")
          \/ ExecGoes(m, "admit")
  /\ Ended(end, {m}) /\ ExecRest /\ UNCHANGED <<row, tail, del>>

\* admitChannelMessage of the outbound row; it throws for a disabled account.
ExecAdmit(m, end) ==
  LET admitted == [row EXCEPT ![m].out = IF @ = "none" THEN "pending-delivery" ELSE @] IN
  /\ Executing(m, "admit")
  /\ \/ /\ Applied(end, admitted)
        /\ IF end # "ok" THEN ExecFails(m, "admit")
           ELSE /\ exec' = [exec EXCEPT ![m] = [at |-> "stamp", seen |-> admitted[m].out]]
                /\ Then(<<<<"exec", m>>>>) /\ UNCHANGED lane
     \/ row[m].out = "none" /\ end = "ok" /\ ExecFails(m, "admit") /\ UNCHANGED row
  /\ Ended(end, {m}) /\ ExecRest /\ UNCHANGED <<tail, del>>

\* updateChannelMessage with the status the admission returned.
ExecOutStamp(m, end) ==
  /\ Executing(m, "stamp")
  /\ Applied(end, [row EXCEPT ![m].out = exec[m].seen])
  /\ IF end = "ok" THEN ExecGoes(m, "read") ELSE ExecFails(m, "stamp")
  /\ Ended(end, {m}) /\ ExecRest /\ UNCHANGED <<tail, del>>

ExecDelivers(m, end) ==
  /\ Executing(m, "read")
  /\ IF end = "ok"
     THEN Queues(m, "exec") /\ exec' = [exec EXCEPT ![m].at = "deliver"] /\ UNCHANGED lane
     ELSE ExecFails(m, "read") /\ UNCHANGED <<tail, del>>
  /\ Ended(end, {m}) /\ ExecRest /\ UNCHANGED row
-----------------------------------------------------------------------------
(* Retries and recovery *)

TimerFires(m) ==
  /\ timer[m] /\ proc # "down"
  /\ timer' = [timer EXCEPT ![m] = FALSE]
  /\ calls' = Append(calls, <<"retry", m>>)
  /\ UNCHANGED <<row, exec, lane, tail, del, pending, proc, limit, hurt, sends>>

RetryMessage(m, end) ==
  /\ Answers("retry", m)
  /\ IF end = "ok" THEN Queues(m, "retry") /\ timer' = [timer EXCEPT ![m] = FALSE]
     ELSE Then(<<>>) /\ UNCHANGED <<tail, del, timer>>
  /\ Ended(end, {m}) /\ UNCHANGED <<row, exec, lane, pending, proc, sends>>

\* Once per process, after the start-up of the kernels.
RecoveryBegins ==
  /\ proc = "up" /\ pending = "idle" /\ pending' = "begun"
  /\ calls' = Append(calls, <<"pending", "all">>)
  /\ UNCHANGED <<row, exec, lane, tail, del, timer, proc, limit, hurt, sends>>

PendingMessages == {m \in Messages : row[m].out \in Undelivered}

RetryPending(end) ==
  /\ Answers("pending", "all")
  /\ IF end = "ok"
     THEN \E order \in SetToSeqs(PendingMessages) :
            Then([i \in DOMAIN order |-> <<"attempts", order[i]>>])
     ELSE Then(<<>>)
  /\ Ended(end, Messages)
  /\ UNCHANGED <<row, exec, lane, tail, del, timer, pending, proc, sends>>

LastStatus(m) == IF row[m].att = <<>> THEN "none" ELSE Last(row[m].att)
Settled == {"sent", "dead-letter"}

\* Fault: the recovery leaves out the check of the retry budget.
ScheduleOrDeliver_NoBudget(m, end) ==
  /\ Answers("attempts", m)
  /\ \/ /\ end # "ok" \/ LastStatus(m) \in Settled
        /\ Then(<<>>) /\ UNCHANGED <<tail, del, timer>>
     \/ /\ end = "ok" /\ LastStatus(m) \notin Settled
        /\ Queues(m, "recovery") /\ UNCHANGED timer
  /\ Ended(end, {m}) /\ UNCHANGED <<row, exec, lane, pending, proc, sends>>

\* scheduleOrDeliver; a retry that is not due yet gets its timer back.
ScheduleOrDeliver(m, end) ==
  LET spent == Len(row[m].att) >= MaxAttempts IN
  /\ Answers("attempts", m)
  /\ \/ /\ end # "ok" \/ LastStatus(m) \in Settled
        /\ Then(<<>>) /\ UNCHANGED <<tail, del, timer>>
     \/ /\ end = "ok" /\ LastStatus(m) \notin Settled /\ spent
        /\ Then(<<<<"exhausted", m, Len(row[m].att) + 1>>>>)
        /\ UNCHANGED <<tail, del, timer>>
     \/ /\ end = "ok" /\ LastStatus(m) = "retry" /\ ~spent
        /\ timer' = [timer EXCEPT ![m] = TRUE]
        /\ Then(<<>>) /\ UNCHANGED <<tail, del>>
     \/ /\ end = "ok" /\ LastStatus(m) \notin Settled /\ ~spent
        /\ Queues(m, "recovery") /\ UNCHANGED timer
  /\ Ended(end, {m}) /\ UNCHANGED <<row, exec, lane, pending, proc, sends>>

\* The record goes one past the attempts that were read.
Exhausted(m, end) ==
  /\ Answers("exhausted", m)
  /\ Applied(end, Recorded(m, Head(calls)[3], "dead-letter"))
  /\ Then(<<>>) /\ Ended(end, {m})
  /\ UNCHANGED <<exec, lane, tail, del, timer, pending, proc, sends>>
-----------------------------------------------------------------------------
(* Main stops, ends and starts again *)

OrchestratorStops ==
  /\ proc = "up" /\ limit.ends > 0
  /\ limit' = [limit EXCEPT !.ends = @ - 1]
  /\ proc' = "stopped" /\ timer' = [m \in Messages |-> FALSE]
  /\ UNCHANGED <<row, calls, exec, lane, tail, del, pending, hurt, sends>>

MainEnds ==
  /\ \/ proc = "stopped" /\ UNCHANGED limit
     \/ /\ proc = "up" /\ limit.ends > 0
        /\ limit' = [limit EXCEPT !.ends = @ - 1]
  /\ proc' = "down" /\ EmptyMemory
  /\ hurt' = [m \in Messages |-> IF hurt[m] = "no" THEN "no" ELSE "once"]
  /\ UNCHANGED <<row, sends>>

MainStarts ==
  /\ proc = "down" /\ proc' = "up"
  /\ UNCHANGED <<row, memory, limit, hurt, sends>>
-----------------------------------------------------------------------------
DataCall ==
  \E end \in Ends :
    \/ RetryPending(end)
    \/ \E m \in Inbound : Admit(m, end)
    \/ \E m \in Messages :
         \/ DeliverLoad(m, end) \/ DeliverList(m, end) \/ DeliverLease(m, end)
         \/ DeliverSending(m, end) \/ DeliverSent(m, end) \/ DeliverCatch(m, end)
         \/ ExecStamp(m, end) \/ ExecExport(m, end) \/ ExecAdmit(m, end)
         \/ ExecOutStamp(m, end) \/ ExecDelivers(m, end)
         \/ RetryMessage(m, end) \/ ScheduleOrDeliver(m, end) \/ Exhausted(m, end)

ChannelNext ==
  \/ DataCall \/ RecoveryBegins
  \/ OrchestratorStops \/ MainEnds \/ MainStarts
  \/ \E m \in Messages : \/ Arrive(m) \/ ScheduledRunCompletes(m) \/ PromptSettles(m)
                         \/ DeliverSend(m) \/ TimerFires(m)

ChannelSpec == ChannelInit /\ [][ChannelNext]_channelVars

\* The data service answers, prompts and sends settle, timers fire, the
\* start-up reaches the recovery: some step of what is under way is taken.
ChannelProgress ==
  \/ DataCall \/ RecoveryBegins
  \/ \E m \in Messages : PromptSettles(m) \/ DeliverSend(m) \/ TimerFires(m)

FairChannelSpec == ChannelSpec /\ WF_channelVars(ChannelProgress)
-----------------------------------------------------------------------------
(* Properties *)

ChannelTypeOK ==
  /\ \A m \in Messages :
       /\ row[m].inb \in {"none", "admitted", "processing", "processed", "failed"}
       /\ row[m].out \in {"none"} \cup Undelivered \cup Final
       /\ \A i \in DOMAIN row[m].att : row[m].att[i] \in {"sending", "sent", "retry", "dead-letter"}
       /\ (tail[m] = <<>>) = (del[m].at = "idle")
  /\ proc \in {"up", "stopped", "down"} /\ hurt \in [Messages -> {"no", "now", "once"}]

\* A message is sent at most MaxAttempts times, over all retries, ends of the
\* process and recoveries, unless some call for the message has failed: one that
\* records an attempt may lose it, and any other is counted with it.
SendBudget == \A m \in Messages : sends[m] > MaxAttempts => hurt[m] # "no"

\* No send of a message begins once the store holds it as delivered or given
\* up (the comment in deliver: a captured state cannot resend a message).
NoResend ==
  [][\A m \in Messages : sends'[m] > sends[m] => row[m].out \notin Final]_channelVars

\* What is delivered stays delivered unless a call of the message has failed.
\* TLC refutes it: the recovery gives up a message whose last attempt is being
\* sent, because scheduleOrDeliver does not wait for the delivery under way.
DeliveredStays ==
  [][\A m \in Messages : row[m].out = "delivered"
                         => row'[m].out = "delivered" \/ hurt[m] = "now"]_channelVars

\* An execution begins only on a row no execution has touched: a message the
\* connector hands over again, at once or after a restart, is prompted once.
InboundOnce ==
  [][\A m \in Inbound :
       exec[m].at # "mark" /\ exec'[m].at = "mark" => row'[m].inb = "admitted"]_channelVars

\* In a process that goes on, with no failing call, every outbound message is
\* delivered or given up.
OutboundEnds ==
  \A m \in Messages :
    row[m].out \in Undelivered ~> row[m].out \in Final \/ hurt[m] = "now" \/ proc # "up"
=============================================================================
