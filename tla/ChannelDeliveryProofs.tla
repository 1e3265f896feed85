------------------------ MODULE ChannelDeliveryProofs ------------------------
(***************************************************************************)
(* For every number of messages, conversations, failing calls, redeliveries  *)
(* and restarts: an envelope handed over again is prompted once              *)
(* (InboundOnce), a message is sent within its budget (SendBudget), and what *)
(* is delivered or given up is not sent again (NoResend).                    *)
(*                                                                          *)
(* The step that begins an execution is often the end of another one, which  *)
(* takes the next message of its conversation.  LaneInv says what waits      *)
(* there: messages no execution has touched, each once, behind the one that  *)
(* executes.                                                                *)
(*                                                                          *)
(* An attempt is numbered from the attempts that were listed, and the budget *)
(* is read once, by the recovery.  SendInv says why that is enough while no  *)
(* call of the message fails: sends are attempts, the recovery asks once,    *)
(* one thing at most asks before it looks, and what it finds used up has     *)
(* nothing left that asks.                                                  *)
(***************************************************************************)
EXTENDS ChannelDelivery, FiniteSetTheorems, TLAPS

Shapes ==
  /\ row = [m \in Messages |-> row[m]]
  /\ \A m \in Messages :
       row[m] = [inb |-> row[m].inb, out |-> row[m].out, att |-> row[m].att]
  /\ exec = [m \in Messages |-> exec[m]]
  /\ \A m \in Messages : exec[m] = [at |-> exec[m].at, seen |-> exec[m].seen]
  /\ lane \in [Conversations -> Seq(Inbound)]
  /\ tail \in [Messages -> Seq({"exec", "retry", "recovery"})]

\* What executes, or has executed, has its row.
ExecutedIsKnown ==
  \A m \in Inbound : exec[m].at # "idle" => row[m].inb # "none"

\* The message that executes is the first of its conversation.
ExecutesFirst ==
  \A m \in Inbound :
    exec[m].at \notin {"idle", "lane", "done"}
      => lane[ConvOf[m]] # <<>> /\ Head(lane[ConvOf[m]]) = m

\* What waits behind it is admitted, of this conversation and waits once.
WaitsFresh ==
  \A c \in Conversations : \A i \in DOMAIN lane[c] :
    i > 1 => /\ ConvOf[lane[c][i]] = c
             /\ exec[lane[c][i]].at = "lane"
             /\ row[lane[c][i]].inb = "admitted"
             /\ \A j \in DOMAIN lane[c] : j > 1 /\ lane[c][j] = lane[c][i] => j = i

\* An execution that waits for its delivery waits for one.
OneDelivery ==
  \A m \in Messages : \A i \in DOMAIN tail[m] :
    tail[m][i] = "exec"
      => /\ exec[m].at = "deliver"
         /\ \A j \in DOMAIN tail[m] : tail[m][j] = "exec" => j = i

\* A delivery under way has its task at the head of the queue.
DeliveryQueued ==
  /\ del = [m \in Messages |-> del[m]]
  /\ \A m \in Messages : tail[m] = <<>> => del[m].at = "idle"

LaneInv == Shapes /\ ExecutedIsKnown /\ ExecutesFirst /\ WaitsFresh /\ OneDelivery

\* Nothing of LaneInv but Shapes and ExecutedIsKnown depends on more of the
\* rows than their inbound half.
RowsKeep(who) ==
  /\ row' = [m \in Messages |-> row'[m]]
  /\ \A m \in Messages :
       row'[m] = [inb |-> row'[m].inb, out |-> row'[m].out, att |-> row'[m].att]
  /\ \A m \in Messages \ who : row'[m].inb = row[m].inb
  /\ \A m \in who : row'[m].inb = "none" => row[m].inb = "none"

LEMMA LaneInvInit == ChannelInit => LaneInv
  <1> SUFFICES ASSUME ChannelInit PROVE LaneInv
    OBVIOUS
  <1>1. Shapes
    BY DEF ChannelInit, Shapes, NoExec
  <1>2. ExecutedIsKnown /\ ExecutesFirst
    BY DEF ChannelInit, ExecutedIsKnown, ExecutesFirst, NoExec, Messages
  <1>3. WaitsFresh /\ OneDelivery
    BY DEF ChannelInit, WaitsFresh, OneDelivery
  <1> QED BY <1>1, <1>2, <1>3 DEF LaneInv

LEMMA AtOf ==
  ASSUME NEW e, e = [at |-> e.at, seen |-> e.seen], NEW v
  PROVE  [e EXCEPT !.at = v] = [at |-> v, seen |-> e.seen]
  <1> DEFINE a == e.at
             s == e.seen
  <1>1. e = [at |-> a, seen |-> s]
    OBVIOUS
  <1> HIDE DEF a, s
  <1>2. [e EXCEPT !.at = v] = [at |-> v, seen |-> s]
    BY <1>1
  <1> QED BY <1>2 DEF s

LEMMA AppendItems ==
  ASSUME NEW S, NEW s \in Seq(S), NEW e \in S
  PROVE  /\ Append(s, e)[Len(s) + 1] = e /\ Len(s) + 1 \in Nat
         /\ Append(s, e) # <<>> /\ (s = <<>> => Head(Append(s, e)) = e)
         /\ \A j \in DOMAIN Append(s, e) :
              j = Len(s) + 1 \/ (j \in DOMAIN s /\ Append(s, e)[j] = s[j])
  OBVIOUS

LEMMA LanesTyped ==
  ASSUME LaneInv, NEW c \in Conversations
  PROVE  /\ lane[c] \in Seq(Inbound)
         /\ \A i \in DOMAIN lane[c] : lane[c][i] \in Messages
  BY DEF LaneInv, Shapes, Messages

\* A step that leaves executions, lanes and delivery queues alone.
LEMMA RowStepKeeps ==
  ASSUME LaneInv, UNCHANGED <<exec, lane, tail>>, RowsKeep({})
  PROVE  LaneInv'
  <1>1. Shapes'
    BY DEF LaneInv, Shapes, RowsKeep
  <1>2. ExecutedIsKnown' /\ ExecutesFirst' /\ OneDelivery'
    BY DEF LaneInv, ExecutedIsKnown, ExecutesFirst, OneDelivery, RowsKeep, Messages
  <1>3. WaitsFresh'
    BY LanesTyped DEF LaneInv, WaitsFresh, RowsKeep
  <1> QED BY <1>1, <1>2, <1>3 DEF LaneInv

\* A task other than an execution joins a delivery queue.
LEMMA QueueKeeps ==
  ASSUME LaneInv, NEW m \in Messages, NEW who \in {"retry", "recovery"},
         Queues(m, who), UNCHANGED <<row, exec, lane>>
  PROVE  LaneInv'
  <1>1. tail' = [tail EXCEPT ![m] = Append(@, who)]
    BY DEF Queues
  <1>2. Shapes'
    BY <1>1 DEF LaneInv, Shapes
  <1>3. OneDelivery'
    BY <1>1 DEF LaneInv, Shapes, OneDelivery
  <1> QED
    BY <1>2, <1>3 DEF LaneInv, ExecutedIsKnown, ExecutesFirst, WaitsFresh

\* An execution goes from one await to the next, within its turn.
LEMMA TurnKeeps ==
  ASSUME LaneInv, NEW m \in Messages,
         exec[m].at \notin {"idle", "lane", "done", "deliver"},
         NEW pc, pc \notin {"idle", "lane", "mark"}, NEW seen,
         exec' = [exec EXCEPT ![m] = [at |-> pc, seen |-> seen]],
         UNCHANGED <<lane, tail>>,
         pc # "done" \/ m \notin Inbound,
         RowsKeep({m})
  PROVE  LaneInv'
  <1>1. /\ \A x \in Messages \ {m} : exec'[x] = exec[x]
        /\ exec'[m].at = pc /\ exec'[m].seen = seen
    BY DEF LaneInv, Shapes
  <1>2. Shapes'
    BY DEF LaneInv, Shapes, RowsKeep
  <1>3. ExecutedIsKnown'
    BY <1>1 DEF LaneInv, ExecutedIsKnown, RowsKeep, Messages
  <1>4. ExecutesFirst'
    BY <1>1 DEF LaneInv, ExecutesFirst, Messages
  <1>5. WaitsFresh'
    <2>1. \A c \in Conversations : \A i \in DOMAIN lane[c] :
            i > 1 => lane[c][i] \in Messages \ {m}
      BY LanesTyped DEF LaneInv, WaitsFresh
    <2> QED BY <1>1, <2>1 DEF LaneInv, WaitsFresh, RowsKeep
  <1>6. OneDelivery'
    BY <1>1 DEF LaneInv, OneDelivery
  <1> QED BY <1>2, <1>3, <1>4, <1>5, <1>6 DEF LaneInv

\* The execution queues its delivery and waits for it.
LEMMA DeliversKeeps ==
  ASSUME LaneInv, NEW m \in Messages, exec[m].at = "read",
         exec' = [exec EXCEPT ![m].at = "deliver"],
         tail' = [tail EXCEPT ![m] = Append(@, "exec")],
         UNCHANGED <<row, lane>>
  PROVE  LaneInv'
  <1>1. /\ \A x \in Messages \ {m} : exec'[x] = exec[x]
        /\ exec'[m] = [at |-> "deliver", seen |-> exec[m].seen]
    BY DEF LaneInv, Shapes
  <1>2. Shapes'
    <2>1. exec' = [x \in Messages |-> exec'[x]]
      BY DEF LaneInv, Shapes
    <2>2. tail' \in [Messages -> Seq({"exec", "retry", "recovery"})]
      BY DEF LaneInv, Shapes
    <2>3. \A x \in Messages : exec'[x] = [at |-> exec'[x].at, seen |-> exec'[x].seen]
      BY <1>1 DEF LaneInv, Shapes
    <2> QED BY <2>1, <2>2, <2>3 DEF LaneInv, Shapes
  <1>3. ExecutedIsKnown' /\ ExecutesFirst'
    BY <1>1 DEF LaneInv, ExecutedIsKnown, ExecutesFirst, Messages
  <1>4. WaitsFresh'
    <2>1. \A c \in Conversations : \A i \in DOMAIN lane[c] :
            i > 1 => lane[c][i] \in Messages \ {m}
      BY LanesTyped DEF LaneInv, WaitsFresh
    <2> QED BY <1>1, <2>1 DEF LaneInv, WaitsFresh
  <1>5. OneDelivery'
    <2>1. /\ tail[m] \in Seq({"exec", "retry", "recovery"})
          /\ \A i \in DOMAIN tail[m] : tail[m][i] # "exec"
      BY DEF LaneInv, Shapes, OneDelivery
    <2>2. \A i \in DOMAIN tail'[m] : tail'[m][i] = "exec" => i = Len(tail[m]) + 1
      BY <2>1 DEF LaneInv, Shapes
    <2>3. \A x \in Messages \ {m} : tail'[x] = tail[x]
      BY DEF LaneInv, Shapes
    <2> QED BY <1>1, <2>2, <2>3 DEF LaneInv, OneDelivery
  <1> QED BY <1>2, <1>3, <1>4, <1>5 DEF LaneInv

\* A delivery is over: an execution that waited for it goes on.
LEMMA DeliveryOverKeeps ==
  ASSUME LaneInv, NEW m \in Messages, NEW threw \in BOOLEAN, tail[m] # <<>>,
         DeliveryOver(m, threw), UNCHANGED lane, RowsKeep({})
  PROVE  LaneInv' /\ \A x \in Inbound : exec'[x].at = "mark" => exec[x].at = "mark"
  <1> DEFINE asked == Head(tail[m]) = "exec"
             back == IF ~asked THEN "idle" ELSE IF ~threw /\ m \in Inbound THEN "get"
                     ELSE IF m \in Inbound THEN "fail" ELSE "done"
  <1>1. /\ tail' = [tail EXCEPT ![m] = Tail(tail[m])]
        /\ exec' = IF asked THEN [exec EXCEPT ![m].at = back] ELSE exec
    BY DEF DeliveryOver
  <1>2. tail[m] \in Seq({"exec", "retry", "recovery"}) /\ 1 \in DOMAIN tail[m]
        /\ Head(tail[m]) = tail[m][1]
    BY DEF LaneInv, Shapes
  <1>3. /\ \A x \in Messages \ {m} : tail'[x] = tail[x]
        /\ tail'[m] = Tail(tail[m])
        /\ \A i \in DOMAIN tail'[m] : i + 1 \in DOMAIN tail[m] /\ tail'[m][i] = tail[m][i + 1]
        /\ DOMAIN tail'[m] \subseteq Nat \ {0}
    BY <1>1, <1>2 DEF LaneInv, Shapes
  <1>4. CASE ~asked
    <2>1. exec' = exec
      BY <1>1, <1>4
    <2>2. Shapes'
      BY <1>1, <2>1, <1>2 DEF LaneInv, Shapes, RowsKeep
    <2>3. OneDelivery'
      <3>1. ASSUME NEW i \in DOMAIN tail'[m], tail'[m][i] = "exec"
            PROVE  exec'[m].at = "deliver"
                   /\ \A j \in DOMAIN tail'[m] : tail'[m][j] = "exec" => j = i
        <4>1. exec[m].at = "deliver"
              /\ \A j \in DOMAIN tail[m] : tail[m][j] = "exec" => j = i + 1
          BY <1>3, <3>1 DEF LaneInv, OneDelivery
        <4>2. \A j \in DOMAIN tail'[m] : tail'[m][j] = "exec" => j + 1 = i + 1
          BY <1>3, <4>1
        <4> QED BY <1>3, <2>1, <4>1, <4>2
      <3> QED BY <1>3, <2>1, <3>1 DEF LaneInv, OneDelivery
    <2>4. ExecutedIsKnown' /\ ExecutesFirst'
      BY <2>1 DEF LaneInv, ExecutedIsKnown, ExecutesFirst, RowsKeep, Messages
    <2>5. WaitsFresh'
      BY <2>1, LanesTyped DEF LaneInv, WaitsFresh, RowsKeep
    <2> QED BY <2>1, <2>2, <2>3, <2>4, <2>5 DEF LaneInv
  <1>5. CASE asked
    <2>1. exec[m].at = "deliver" /\ \A j \in DOMAIN tail[m] : tail[m][j] = "exec" => j = 1
      BY <1>2, <1>5 DEF LaneInv, OneDelivery
    <2>2. \A j \in DOMAIN tail'[m] : tail'[m][j] # "exec"
      BY <1>3, <2>1
    <2>3. back \in {"get", "fail", "done"} /\ (back = "done" => m \notin Inbound)
      BY <1>5
    <2> HIDE DEF back
    <2>4. /\ \A x \in Messages \ {m} : exec'[x] = exec[x]
          /\ exec'[m] = [at |-> back, seen |-> exec[m].seen]
      BY <1>1, <1>5 DEF LaneInv, Shapes
    <2>5. Shapes'
      <3>1. exec' = [x \in Messages |-> exec'[x]]
        BY <1>1, <1>5 DEF LaneInv, Shapes
      <3>2. tail' \in [Messages -> Seq({"exec", "retry", "recovery"})]
        BY <1>1, <1>2 DEF LaneInv, Shapes
      <3>3. \A x \in Messages : exec'[x] = [at |-> exec'[x].at, seen |-> exec'[x].seen]
        BY <2>4 DEF LaneInv, Shapes
      <3> QED BY <3>1, <3>2, <3>3 DEF LaneInv, Shapes, RowsKeep
    <2>6. ExecutedIsKnown' /\ ExecutesFirst'
      BY <2>1, <2>3, <2>4 DEF LaneInv, ExecutedIsKnown, ExecutesFirst, RowsKeep, Messages
    <2>7. WaitsFresh'
      <3>1. \A c \in Conversations : \A i \in DOMAIN lane[c] :
              i > 1 => lane[c][i] \in Messages \ {m}
        BY <2>1, LanesTyped DEF LaneInv, WaitsFresh
      <3> QED BY <2>4, <3>1 DEF LaneInv, WaitsFresh, RowsKeep
    <2>8. OneDelivery'
      <3>1. ASSUME NEW x \in Messages \ {m}, NEW i \in DOMAIN tail'[x], tail'[x][i] = "exec"
            PROVE  exec'[x].at = "deliver"
                   /\ \A j \in DOMAIN tail'[x] : tail'[x][j] = "exec" => j = i
        BY <1>3, <2>4, <3>1 DEF LaneInv, OneDelivery
      <3> QED BY <2>2, <3>1 DEF OneDelivery
    <2> QED BY <2>3, <2>4, <2>5, <2>6, <2>7, <2>8 DEF LaneInv, Messages
  <1> QED BY <1>4, <1>5
\* An execution is over and the next message of its conversation begins: one
\* no execution has touched, and no execution of the conversation is left.
LEMMA NextBegins ==
  ASSUME LaneInv, NEW m \in Inbound,
         exec[m].at \notin {"idle", "lane", "done", "deliver"},
         Tail(lane[ConvOf[m]]) # <<>>,
         lane' = [lane EXCEPT ![ConvOf[m]] = Tail(lane[ConvOf[m]])],
         exec' = [exec EXCEPT ![m].at = "done", ![Head(Tail(lane[ConvOf[m]]))].at = "mark"],
         UNCHANGED tail, RowsKeep({m})
  PROVE  /\ LaneInv'
         /\ \A x \in Inbound : exec[x].at # "mark" /\ exec'[x].at = "mark"
                                 => row'[x].inb = "admitted"
  <1> DEFINE c == ConvOf[m]
             l == lane[c]
             n == Head(Tail(l))
  <1>1. m \in Messages /\ c \in Conversations /\ l \in Seq(Inbound) /\ l # <<>> /\ Head(l) = m
    BY DEF LaneInv, Shapes, ExecutesFirst, Messages, Conversations
  <1>2. /\ 2 \in DOMAIN l /\ n = l[2] /\ n = Head(Tail(l))
        /\ Tail(l) \in Seq(Inbound) /\ Tail(l) # <<>>
        /\ Len(Tail(l)) = Len(l) - 1 /\ Len(l) \in Nat
        /\ \A i \in DOMAIN Tail(l) : i \in Nat \ {0} /\ i + 1 \in DOMAIN l /\ Tail(l)[i] = l[i + 1]
    BY <1>1
  <1>3. n \in Inbound /\ exec[n].at = "lane" /\ row[n].inb = "admitted" /\ n # m /\ ConvOf[n] = c
    BY <1>1, <1>2 DEF LaneInv, WaitsFresh
  <1>4. n \in Messages
    BY <1>3 DEF Messages
  <1>5. row'[n].inb = "admitted"
    BY <1>3, <1>4 DEF RowsKeep
  <1> HIDE DEF n
  <1>6. /\ exec' = [exec EXCEPT ![m].at = "done", ![n].at = "mark"]
        /\ lane' = [lane EXCEPT ![c] = Tail(l)]
    BY DEF n
  <1> HIDE DEF l, c
  <1>7. /\ exec' = [x \in Messages |-> exec'[x]]
        /\ exec'[m] = [at |-> "done", seen |-> exec[m].seen]
        /\ exec'[n] = [at |-> "mark", seen |-> exec[n].seen]
        /\ \A x \in Messages \ {m, n} : exec'[x] = exec[x]
    <2>1. /\ exec = [x \in Messages |-> exec[x]]
          /\ exec[m] = [at |-> exec[m].at, seen |-> exec[m].seen]
          /\ exec[n] = [at |-> exec[n].at, seen |-> exec[n].seen]
      BY <1>1, <1>4 DEF LaneInv, Shapes
    <2>2. /\ [exec[m] EXCEPT !.at = "done"] = [at |-> "done", seen |-> exec[m].seen]
          /\ [exec[n] EXCEPT !.at = "mark"] = [at |-> "mark", seen |-> exec[n].seen]
      BY <2>1, AtOf
    <2>3. exec' = [[exec EXCEPT ![m] = [exec[m] EXCEPT !.at = "done"]]
                    EXCEPT ![n] = [exec[n] EXCEPT !.at = "mark"]]
      BY <1>1, <1>3, <1>4, <1>6, <2>1
    <2> QED BY <1>1, <1>3, <1>4, <2>1, <2>2, <2>3
  <1>8. /\ lane'[c] = Tail(l) /\ \A d \in Conversations \ {c} : lane'[d] = lane[d]
        /\ lane' \in [Conversations -> Seq(Inbound)]
    <2>1. lane \in [Conversations -> Seq(Inbound)]
      BY DEF LaneInv, Shapes
    <2>2. lane' = [lane EXCEPT ![c] = Tail(l)]
      BY <1>6
    <2>3. c \in Conversations /\ Tail(l) \in Seq(Inbound)
      BY <1>1, <1>2
    <2> QED BY <2>1, <2>2, <2>3
  <1>9. Shapes'
    <2>1. \A x \in Messages : exec'[x] = [at |-> exec'[x].at, seen |-> exec'[x].seen]
      BY <1>7 DEF LaneInv, Shapes
    <2>2. tail \in [Messages -> Seq({"exec", "retry", "recovery"})]
      BY DEF LaneInv, Shapes
    <2> QED BY <1>7, <1>8, <2>1, <2>2 DEF Shapes, RowsKeep
  <1>10. ExecutedIsKnown'
    <2>1. row[m].inb # "none" /\ row'[m].inb # "none"
      BY DEF LaneInv, ExecutedIsKnown, RowsKeep
    <2>2. ASSUME NEW x \in Inbound, x \notin {m, n}, exec'[x].at # "idle"
          PROVE  row'[x].inb # "none"
      <3>1. x \in Messages \ {m, n}
        BY <2>2 DEF Messages
      <3>2. exec'[x] = exec[x]
        BY <1>7, <3>1
      <3>3. row[x].inb # "none"
        BY <2>2, <3>2 DEF LaneInv, ExecutedIsKnown
      <3> QED BY <3>1, <3>3 DEF RowsKeep
    <2> QED BY <1>5, <2>1, <2>2 DEF ExecutedIsKnown
  <1>11. ExecutesFirst'
    <2>1. ASSUME NEW x \in Inbound, exec'[x].at \notin {"idle", "lane", "done"}
          PROVE  lane'[ConvOf[x]] # <<>> /\ Head(lane'[ConvOf[x]]) = x
      <3>1. CASE x = n
        BY <1>2, <1>3, <1>8, <3>1
      <3>2. CASE x # n
        <4>0. exec'[m].at = "done"
          <5>1. exec'[m] = [at |-> "done", seen |-> exec[m].seen]
            BY <1>7
          <5> QED BY <5>1
        <4>1. x \in Messages \ {m, n} /\ exec'[x] = exec[x]
          <5>1. x \in Messages \ {m, n}
            BY <2>1, <3>2, <4>0 DEF Messages
          <5> QED BY <1>7, <5>1
        <4>2. lane[ConvOf[x]] # <<>> /\ Head(lane[ConvOf[x]]) = x
          BY <2>1, <4>1 DEF LaneInv, ExecutesFirst
        <4>3. ConvOf[x] # c
          BY <1>1, <4>1, <4>2 DEF l
        <4> QED BY <1>8, <4>1, <4>2, <4>3 DEF Conversations
      <3> QED BY <3>1, <3>2
    <2> QED BY <2>1 DEF ExecutesFirst
  <1>12. WaitsFresh'
    <2>1. ASSUME NEW d \in Conversations \ {c}, NEW i \in DOMAIN lane[d], i > 1
          PROVE  /\ ConvOf[lane[d][i]] = d
                 /\ exec'[lane[d][i]].at = "lane"
                 /\ row'[lane[d][i]].inb = "admitted"
                 /\ \A j \in DOMAIN lane[d] : j > 1 /\ lane[d][j] = lane[d][i] => j = i
      <3> DEFINE x == lane[d][i]
      <3>1. /\ x \in Messages /\ ConvOf[x] = d /\ exec[x].at = "lane"
            /\ row[x].inb = "admitted"
            /\ \A j \in DOMAIN lane[d] : j > 1 /\ lane[d][j] = x => j = i
        BY <2>1, LanesTyped DEF LaneInv, WaitsFresh
      <3> HIDE DEF x
      <3>2. x \notin {m, n}
        BY <1>3, <3>1 DEF c
      <3>3. exec'[x] = exec[x] /\ row'[x].inb = row[x].inb
        BY <1>7, <3>1, <3>2 DEF RowsKeep
      <3>4. exec'[x].at = "lane" /\ row'[x].inb = "admitted"
        BY <3>1, <3>3
      <3> QED BY <3>1, <3>4 DEF x
    <2>2. ASSUME NEW i \in DOMAIN Tail(l), i > 1
          PROVE  /\ ConvOf[Tail(l)[i]] = c
                 /\ exec'[Tail(l)[i]].at = "lane"
                 /\ row'[Tail(l)[i]].inb = "admitted"
                 /\ \A j \in DOMAIN Tail(l) : j > 1 /\ Tail(l)[j] = Tail(l)[i] => j = i
      <3> DEFINE x == Tail(l)[i]
      <3>1. /\ i \in Nat /\ i + 1 \in DOMAIN l /\ x = l[i + 1] /\ i + 1 > 1
        BY <1>2, <2>2
      <3>2. /\ x \in Messages /\ ConvOf[x] = c /\ exec[x].at = "lane"
            /\ row[x].inb = "admitted"
            /\ \A j \in DOMAIN l : j > 1 /\ l[j] = x => j = i + 1
        BY <1>1, <3>1, LanesTyped DEF LaneInv, WaitsFresh, l
      <3> HIDE DEF x
      <3>3. x # m
        BY <3>2
      <3>4. x # n
        <4>1. ASSUME x = n PROVE FALSE
          <5>1. l[2] = x /\ 2 \in DOMAIN l
            BY <1>2, <4>1 DEF n
          <5>2. 2 = i + 1
            BY <3>2, <5>1
          <5> QED BY <2>2, <3>1, <5>2
        <4> QED BY <4>1
      <3>5. exec'[x] = exec[x] /\ row'[x].inb = row[x].inb
        BY <1>7, <3>2, <3>3, <3>4 DEF RowsKeep
      <3>6. ASSUME NEW j \in DOMAIN Tail(l), j > 1, Tail(l)[j] = x PROVE j = i
        <4>1. j \in Nat /\ j + 1 \in DOMAIN l /\ l[j + 1] = x /\ j + 1 > 1
          BY <1>2, <3>6
        <4>2. j + 1 = i + 1
          BY <3>2, <4>1
        <4> QED BY <3>1, <4>1, <4>2
      <3>7. exec'[x].at = "lane" /\ row'[x].inb = "admitted"
        BY <3>2, <3>5
      <3>8. /\ ConvOf[x] = c /\ exec'[x].at = "lane" /\ row'[x].inb = "admitted"
            /\ \A j \in DOMAIN Tail(l) : j > 1 /\ Tail(l)[j] = x => j = i
        BY <3>2, <3>6, <3>7
      <3> QED BY <3>8 DEF x
    <2>3. ASSUME NEW d \in Conversations, NEW i \in DOMAIN lane'[d], i > 1
          PROVE  /\ ConvOf[lane'[d][i]] = d
                 /\ exec'[lane'[d][i]].at = "lane"
                 /\ row'[lane'[d][i]].inb = "admitted"
                 /\ \A j \in DOMAIN lane'[d] : j > 1 /\ lane'[d][j] = lane'[d][i] => j = i
      <3>1. CASE d = c
        <4>1. lane'[d] = Tail(l)
          BY <1>8, <3>1
        <4>2. i \in DOMAIN Tail(l) /\ i > 1
          BY <2>3, <4>1
        <4> QED BY <2>2, <3>1, <4>1, <4>2
      <3>2. CASE d # c
        <4>1. lane'[d] = lane[d] /\ d \in Conversations \ {c}
          BY <1>8, <3>2
        <4>2. i \in DOMAIN lane[d] /\ i > 1
          BY <2>3, <4>1
        <4>3. /\ ConvOf[lane[d][i]] = d
              /\ exec'[lane[d][i]].at = "lane"
              /\ row'[lane[d][i]].inb = "admitted"
              /\ \A j \in DOMAIN lane[d] : j > 1 /\ lane[d][j] = lane[d][i] => j = i
          BY <2>1, <4>1, <4>2
        <4> QED BY <4>1, <4>3
      <3> QED BY <3>1, <3>2
    <2> QED BY <2>3 DEF WaitsFresh
  <1>13. OneDelivery'
    <2>1. ASSUME NEW x \in Messages, exec[x].at = "deliver" PROVE exec'[x] = exec[x]
      BY <1>3, <1>7, <2>1
    <2> QED BY <2>1 DEF LaneInv, OneDelivery
  <1>14. ASSUME NEW x \in Inbound, exec[x].at # "mark", exec'[x].at = "mark"
         PROVE  row'[x].inb = "admitted"
    BY <1>5, <1>7, <1>14 DEF Messages
  <1> QED BY <1>9, <1>10, <1>11, <1>12, <1>13, <1>14 DEF LaneInv

\* The last execution of a conversation is over.
LEMMA LaneEmpties ==
  ASSUME LaneInv, NEW m \in Inbound,
         exec[m].at \notin {"idle", "lane", "done", "deliver"},
         Tail(lane[ConvOf[m]]) = <<>>,
         lane' = [lane EXCEPT ![ConvOf[m]] = <<>>],
         exec' = [exec EXCEPT ![m].at = "done"],
         UNCHANGED tail, RowsKeep({m})
  PROVE  LaneInv'
  <1> DEFINE c == ConvOf[m]
  <1>1. m \in Messages /\ c \in Conversations /\ lane[c] # <<>> /\ Head(lane[c]) = m
    BY DEF LaneInv, Shapes, ExecutesFirst, Messages, Conversations
  <1>2. /\ exec' = [x \in Messages |-> exec'[x]]
        /\ exec'[m] = [at |-> "done", seen |-> exec[m].seen]
        /\ \A x \in Messages \ {m} : exec'[x] = exec[x]
    BY <1>1 DEF LaneInv, Shapes
  <1>3. /\ lane'[c] = <<>> /\ \A d \in Conversations \ {c} : lane'[d] = lane[d]
        /\ lane' \in [Conversations -> Seq(Inbound)]
    BY <1>1 DEF LaneInv, Shapes
  <1>4. Shapes'
    <2>1. \A x \in Messages : exec'[x] = [at |-> exec'[x].at, seen |-> exec'[x].seen]
      BY <1>2 DEF LaneInv, Shapes
    <2> QED BY <1>2, <1>3, <2>1 DEF LaneInv, Shapes, RowsKeep
  <1>5. ExecutedIsKnown'
    BY <1>1, <1>2 DEF LaneInv, ExecutedIsKnown, RowsKeep, Messages
  <1>6. ExecutesFirst'
    <2>1. ASSUME NEW x \in Inbound, exec'[x].at \notin {"idle", "lane", "done"}
          PROVE  lane'[ConvOf[x]] # <<>> /\ Head(lane'[ConvOf[x]]) = x
      <3>1. x \in Messages \ {m} /\ exec'[x] = exec[x] /\ ConvOf[x] \in Conversations
        BY <1>2, <2>1 DEF Messages, Conversations
      <3>2. lane[ConvOf[x]] # <<>> /\ Head(lane[ConvOf[x]]) = x
        BY <2>1, <3>1 DEF LaneInv, ExecutesFirst
      <3> QED BY <1>1, <1>3, <3>1, <3>2
    <2> QED BY <2>1 DEF ExecutesFirst
  <1>7. WaitsFresh'
    <2>1. \A d \in Conversations : \A i \in DOMAIN lane'[d] : d # c /\ lane'[d] = lane[d]
      BY <1>3
    <2>2. \A d \in Conversations : \A i \in DOMAIN lane[d] :
            i > 1 => lane[d][i] \in Messages \ {m}
      BY LanesTyped DEF LaneInv, WaitsFresh
    <2> QED BY <1>2, <2>1, <2>2 DEF LaneInv, WaitsFresh, RowsKeep
  <1>8. OneDelivery'
    BY <1>1, <1>2 DEF LaneInv, OneDelivery
  <1> QED BY <1>4, <1>5, <1>6, <1>7, <1>8 DEF LaneInv
\* A new message executes at once or waits behind its conversation.
LEMMA AdmitKeeps ==
  ASSUME LaneInv, NEW m \in Inbound, row[m].inb = "none", row'[m].inb = "admitted",
         Executes(m), UNCHANGED tail, RowsKeep({m})
  PROVE  LaneInv'
  <1> DEFINE c == ConvOf[m]
             pc == IF lane[c] = <<>> THEN "mark" ELSE "lane"
  <1>1. m \in Messages /\ c \in Conversations /\ exec[m].at = "idle"
    BY DEF LaneInv, ExecutedIsKnown, Messages, Conversations
  <1>2. /\ exec' = [exec EXCEPT ![m].at = pc]
        /\ lane' = [lane EXCEPT ![c] = Append(lane[c], m)]
    BY DEF Executes
  <1>3. pc \in {"mark", "lane"} /\ (pc = "mark" => lane[c] = <<>>) /\ (pc = "lane" => lane[c] # <<>>)
    OBVIOUS
  <1> HIDE DEF pc
  <1>4. /\ exec'[m] = [at |-> pc, seen |-> exec[m].seen]
        /\ \A x \in Messages \ {m} : exec'[x] = exec[x]
    BY <1>1, <1>2 DEF LaneInv, Shapes
  <1>5. /\ lane[c] \in Seq(Inbound)
        /\ lane'[c] = Append(lane[c], m)
        /\ \A d \in Conversations \ {c} : lane'[d] = lane[d]
    BY <1>1, <1>2 DEF LaneInv, Shapes
  <1>6. Shapes'
    <2>1. exec' = [x \in Messages |-> exec'[x]]
      BY <1>2 DEF LaneInv, Shapes
    <2>2. \A x \in Messages : exec'[x] = [at |-> exec'[x].at, seen |-> exec'[x].seen]
      BY <1>4 DEF LaneInv, Shapes
    <2>3. lane' \in [Conversations -> Seq(Inbound)]
      <3>1. lane \in [Conversations -> Seq(Inbound)] /\ Append(lane[c], m) \in Seq(Inbound)
        BY <1>5 DEF LaneInv, Shapes
      <3> QED BY <1>2, <3>1
    <2> QED BY <2>1, <2>2, <2>3 DEF LaneInv, Shapes, RowsKeep
  <1>7. ExecutedIsKnown'
    BY <1>1, <1>4 DEF LaneInv, ExecutedIsKnown, RowsKeep, Messages
  <1>8. ExecutesFirst'
    <2>1. ASSUME NEW x \in Inbound, exec'[x].at \notin {"idle", "lane", "done"}
          PROVE  lane'[ConvOf[x]] # <<>> /\ Head(lane'[ConvOf[x]]) = x
      <3>1. CASE x = m
        <4>1. pc = "mark" /\ lane[c] = <<>>
          BY <1>3, <1>4, <2>1, <3>1
        <4>2. lane[c] \in Seq(Inbound) /\ lane'[c] = Append(lane[c], m)
          BY <1>5
        <4>3. lane'[c] # <<>> /\ Head(lane'[c]) = m
          BY <4>1, <4>2, AppendItems
        <4> QED BY <3>1, <4>3
      <3>2. CASE x # m
        <4>1. x \in Messages \ {m} /\ exec'[x] = exec[x] /\ ConvOf[x] \in Conversations
          BY <1>4, <3>2 DEF Messages, Conversations
        <4>2. lane[ConvOf[x]] # <<>> /\ Head(lane[ConvOf[x]]) = x
          BY <2>1, <4>1 DEF LaneInv, ExecutesFirst
        <4> QED BY <1>5, <4>1, <4>2
      <3> QED BY <3>1, <3>2
    <2> QED BY <2>1 DEF ExecutesFirst
  <1>9. WaitsFresh'
    <2>1. ASSUME NEW d \in Conversations, NEW i \in DOMAIN lane[d], i > 1
          PROVE  /\ lane[d][i] \in Messages \ {m}
                 /\ ConvOf[lane[d][i]] = d
                 /\ exec'[lane[d][i]].at = "lane"
                 /\ row'[lane[d][i]].inb = "admitted"
                 /\ \A j \in DOMAIN lane[d] : j > 1 /\ lane[d][j] = lane[d][i] => j = i
      <3>1. lane[d][i] \in Messages \ {m} /\ exec[lane[d][i]].at = "lane"
        BY <1>1, <2>1, LanesTyped DEF LaneInv, WaitsFresh
      <3> QED BY <1>4, <2>1, <3>1 DEF LaneInv, WaitsFresh, RowsKeep
    <2>2. ASSUME NEW i \in DOMAIN lane'[c], i > 1
          PROVE  /\ ConvOf[lane'[c][i]] = c
                 /\ exec'[lane'[c][i]].at = "lane"
                 /\ row'[lane'[c][i]].inb = "admitted"
                 /\ \A j \in DOMAIN lane'[c] : j > 1 /\ lane'[c][j] = lane'[c][i] => j = i
      <3> DEFINE k == Len(lane[c]) + 1
      <3>1. /\ k \in Nat /\ lane'[c][k] = m
            /\ \A j \in DOMAIN lane'[c] : j = k \/ (j \in DOMAIN lane[c] /\ lane'[c][j] = lane[c][j])
        BY <1>5, AppendItems
      <3> HIDE DEF k
      <3>2. CASE i = k
        <4>1. pc = "lane"
          <5>1. lane[c] # <<>>
            BY <1>5, <2>2, <3>2 DEF k
          <5> QED BY <1>3, <5>1
        <4>2. \A j \in DOMAIN lane'[c] : j > 1 /\ lane'[c][j] = m => j = k
          BY <1>1, <2>1, <3>1
        <4>3. exec'[m].at = "lane"
          BY <1>4, <4>1
        <4> QED BY <3>1, <3>2, <4>2, <4>3
      <3>3. CASE i # k
        <4>1. i \in DOMAIN lane[c] /\ lane'[c][i] = lane[c][i]
          BY <2>2, <3>1, <3>3
        <4>2. \A j \in DOMAIN lane'[c] : j > 1 /\ lane'[c][j] = lane[c][i] => j = i
          BY <1>1, <2>1, <2>2, <3>1, <4>1
        <4> QED BY <1>1, <2>1, <2>2, <4>1, <4>2
      <3> QED BY <3>2, <3>3
    <2>3. ASSUME NEW d \in Conversations \ {c}, NEW i \in DOMAIN lane'[d], i > 1
          PROVE  /\ ConvOf[lane'[d][i]] = d
                 /\ exec'[lane'[d][i]].at = "lane"
                 /\ row'[lane'[d][i]].inb = "admitted"
                 /\ \A j \in DOMAIN lane'[d] : j > 1 /\ lane'[d][j] = lane'[d][i] => j = i
      <3>1. lane'[d] = lane[d]
        BY <1>5
      <3> QED BY <2>1, <2>3, <3>1
    <2> QED BY <2>2, <2>3 DEF WaitsFresh
  <1>10. OneDelivery'
    <2>1. ASSUME NEW x \in Messages, exec[x].at = "deliver" PROVE exec'[x] = exec[x]
      BY <1>1, <1>4, <2>1
    <2> QED BY <2>1 DEF LaneInv, OneDelivery
  <1> QED BY <1>6, <1>7, <1>8, <1>9, <1>10 DEF LaneInv

\* A scheduled run completes: its result begins to be exported.
LEMMA ScheduledKeeps ==
  ASSUME LaneInv, NEW m \in Scheduled, exec[m].at = "idle",
         exec' = [exec EXCEPT ![m].at = "export"], UNCHANGED <<row, lane, tail>>
  PROVE  LaneInv'
  <1>1. m \in Messages /\ m \notin Inbound
    BY ChannelAssumption DEF Messages, ChannelAssumption
  <1>2. /\ exec'[m] = [at |-> "export", seen |-> exec[m].seen]
        /\ \A x \in Messages \ {m} : exec'[x] = exec[x]
    BY <1>1 DEF LaneInv, Shapes
  <1>3. Shapes'
    <2>1. exec' = [x \in Messages |-> exec'[x]]
      BY DEF LaneInv, Shapes
    <2>2. \A x \in Messages : exec'[x] = [at |-> exec'[x].at, seen |-> exec'[x].seen]
      BY <1>2 DEF LaneInv, Shapes
    <2> QED BY <2>1, <2>2 DEF LaneInv, Shapes
  <1>4. ExecutedIsKnown' /\ ExecutesFirst'
    BY <1>1, <1>2 DEF LaneInv, ExecutedIsKnown, ExecutesFirst, Messages
  <1>5. WaitsFresh'
    <2>1. \A c \in Conversations : \A i \in DOMAIN lane[c] : lane[c][i] \in Messages \ {m}
      BY <1>1, LanesTyped DEF LaneInv, Shapes
    <2> QED BY <1>2, <2>1 DEF LaneInv, WaitsFresh
  <1>6. OneDelivery'
    BY <1>1, <1>2 DEF LaneInv, OneDelivery
  <1> QED BY <1>3, <1>4, <1>5, <1>6 DEF LaneInv

\* Main ends: nothing executes and nothing waits.
LEMMA EndKeeps ==
  ASSUME LaneInv, EmptyMemory, UNCHANGED row
  PROVE  LaneInv'
  <1>1. \A m \in Messages :
          exec'[m] = IF m \in Scheduled /\ exec[m].at # "idle"
                     THEN [at |-> "done", seen |-> "none"] ELSE [at |-> "idle", seen |-> "none"]
    BY DEF EmptyMemory, NoExec
  <1>2. Shapes'
    <2>1. exec' = [x \in Messages |-> exec'[x]]
      BY DEF EmptyMemory
    <2>2. \A x \in Messages : exec'[x] = [at |-> exec'[x].at, seen |-> exec'[x].seen]
      BY <1>1
    <2>3. /\ lane' \in [Conversations -> Seq(Inbound)]
          /\ tail' \in [Messages -> Seq({"exec", "retry", "recovery"})]
      BY DEF EmptyMemory
    <2> QED BY <2>1, <2>2, <2>3 DEF LaneInv, Shapes
  <1>3. \A m \in Inbound : exec'[m].at = "idle"
    BY <1>1, ChannelAssumption DEF ChannelAssumption, Messages
  <1>4. ExecutedIsKnown' /\ ExecutesFirst'
    BY <1>3 DEF ExecutedIsKnown, ExecutesFirst
  <1>5. WaitsFresh' /\ OneDelivery'
    BY DEF EmptyMemory, WaitsFresh, OneDelivery
  <1> QED BY <1>2, <1>4, <1>5 DEF LaneInv
\* What InboundOnce says of a step.
Once ==
  \A m \in Inbound :
    exec[m].at # "mark" /\ exec'[m].at = "mark" => row'[m].inb = "admitted"

\* ExecGoes: the execution awaits its next call, or is over.
LEMMA GoesKeeps ==
  ASSUME LaneInv, NEW m \in Messages,
         exec[m].at \notin {"idle", "lane", "done", "deliver"},
         NEW pc, pc \notin {"idle", "lane", "mark"},
         ExecGoes(m, pc), UNCHANGED tail, RowsKeep({m})
  PROVE  LaneInv' /\ Once
  <1>1. CASE pc = "done" /\ m \in Inbound /\ Tail(lane[ConvOf[m]]) # <<>>
    <2>1. /\ lane' = [lane EXCEPT ![ConvOf[m]] = Tail(lane[ConvOf[m]])]
          /\ exec' = [exec EXCEPT ![m].at = "done",
                                  ![Head(Tail(lane[ConvOf[m]]))].at = "mark"]
      BY <1>1 DEF ExecGoes
    <2> QED BY <1>1, <2>1, NextBegins DEF Once
  <1>2. CASE ~(pc = "done" /\ m \in Inbound /\ Tail(lane[ConvOf[m]]) # <<>>)
    <2>1. /\ exec' = [exec EXCEPT ![m].at = pc]
          /\ lane' = IF pc = "done" /\ m \in Inbound
                     THEN [lane EXCEPT ![ConvOf[m]] = <<>>] ELSE lane
      BY <1>2 DEF ExecGoes
    <2>2. Once
      <3>1. \A x \in Messages \ {m} : exec'[x] = exec[x]
        BY <2>1 DEF LaneInv, Shapes
      <3>2. exec'[m].at = pc
        BY <2>1 DEF LaneInv, Shapes
      <3> QED BY <3>1, <3>2 DEF Once, Messages
    <2>3. CASE pc = "done" /\ m \in Inbound
      BY <1>2, <2>1, <2>2, <2>3, LaneEmpties
    <2>4. CASE ~(pc = "done" /\ m \in Inbound)
      <3>1. exec' = [exec EXCEPT ![m] = [at |-> pc, seen |-> exec[m].seen]]
        <4>1. exec[m] = [at |-> exec[m].at, seen |-> exec[m].seen]
          BY DEF LaneInv, Shapes
        <4> QED BY <2>1, <4>1, AtOf
      <3> QED BY <2>1, <2>2, <2>4, <3>1, TurnKeeps
    <2> QED BY <2>3, <2>4
  <1> QED BY <1>1, <1>2

\* A failed call ends the execution or takes it to its catch.
LEMMA FailsKeeps ==
  ASSUME LaneInv, NEW m \in Messages, NEW pc,
         exec[m].at \notin {"idle", "lane", "done", "deliver"},
         ExecFails(m, pc), UNCHANGED tail, RowsKeep({m})
  PROVE  LaneInv' /\ Once
  <1> DEFINE next == IF m \in Scheduled \/ pc \in {"mark", "fail"} THEN "done" ELSE "fail"
  <1>1. ExecGoes(m, next)
    BY DEF ExecFails
  <1>2. next \notin {"idle", "lane", "mark"}
    OBVIOUS
  <1> HIDE DEF next
  <1> QED BY <1>1, <1>2, GoesKeeps

\* Executions that stay where they are begin nothing.
LEMMA NothingBegins == ASSUME UNCHANGED exec PROVE Once
  BY DEF Once
-----------------------------------------------------------------------------
(* What the calls do to the rows *)

LEMMA RowsSame ==
  ASSUME LaneInv, UNCHANGED row, NEW who
  PROVE  RowsKeep(who)
  BY DEF LaneInv, Shapes, RowsKeep

LEMMA RowSet ==
  ASSUME LaneInv, NEW m \in Messages, NEW i, NEW o, NEW a,
         row' = [row EXCEPT ![m] = [inb |-> i, out |-> o, att |-> a]]
  PROVE  /\ i # "none" => RowsKeep({m})
         /\ i = row[m].inb => RowsKeep({})
  <1>1. /\ row' = [x \in Messages |-> row'[x]]
        /\ row'[m] = [inb |-> i, out |-> o, att |-> a]
        /\ \A x \in Messages \ {m} : row'[x] = row[x]
    BY DEF LaneInv, Shapes
  <1>2. \A x \in Messages :
          row'[x] = [inb |-> row'[x].inb, out |-> row'[x].out, att |-> row'[x].att]
    <2>1. row'[m] = [inb |-> row'[m].inb, out |-> row'[m].out, att |-> row'[m].att]
      BY <1>1
    <2>2. \A x \in Messages : row[x] = [inb |-> row[x].inb, out |-> row[x].out, att |-> row[x].att]
      BY DEF LaneInv, Shapes
    <2>3. ASSUME NEW x \in Messages \ {m}
          PROVE  row'[x] = [inb |-> row'[x].inb, out |-> row'[x].out, att |-> row'[x].att]
      <3>1. row'[x] = row[x]
        BY <1>1
      <3> QED BY <2>2, <3>1
    <2> QED BY <2>1, <2>3
  <1>3. row'[m].inb = i
    BY <1>1
  <1>4. \A x \in Messages \ {m} : row'[x].inb = row[x].inb
    BY <1>1
  <1>5. row' = [x \in Messages |-> row'[x]]
    BY <1>1
  <1>6. ASSUME i # "none" PROVE RowsKeep({m})
    BY <1>2, <1>3, <1>4, <1>5, <1>6 DEF RowsKeep
  <1>7. ASSUME i = row[m].inb PROVE RowsKeep({})
    BY <1>2, <1>3, <1>4, <1>5, <1>7 DEF RowsKeep
  <1> QED BY <1>6, <1>7

\* How a call sets one field of a row.
LEMMA RowFields ==
  ASSUME NEW e, e = [inb |-> e.inb, out |-> e.out, att |-> e.att], NEW v
  PROVE  /\ [e EXCEPT !.inb = v] = [inb |-> v, out |-> e.out, att |-> e.att]
         /\ [e EXCEPT !.out = v] = [inb |-> e.inb, out |-> v, att |-> e.att]
  <1> DEFINE i == e.inb
             o == e.out
             a == e.att
  <1>1. e = [inb |-> i, out |-> o, att |-> a]
    OBVIOUS
  <1> HIDE DEF i, o, a
  <1>2. /\ [e EXCEPT !.inb = v] = [inb |-> v, out |-> o, att |-> a]
        /\ [e EXCEPT !.out = v] = [inb |-> i, out |-> v, att |-> a]
    BY <1>1
  <1> QED BY <1>2 DEF i, o, a

LEMMA InboundSet ==
  ASSUME LaneInv, NEW m \in Messages, NEW v, v # "none", NEW end,
         Applied(end, [row EXCEPT ![m].inb = v])
  PROVE  RowsKeep({m}) /\ (end # "refused" => row'[m].inb = v)
  <1>1. CASE end = "refused"
    BY <1>1, RowsSame DEF Applied
  <1>2. CASE end # "refused"
    <2>1. row' = [row EXCEPT ![m] = [inb |-> v, out |-> row[m].out, att |-> row[m].att]]
      <3>1. row[m] = [inb |-> row[m].inb, out |-> row[m].out, att |-> row[m].att]
        BY DEF LaneInv, Shapes
      <3> QED BY <1>2, <3>1, RowFields DEF Applied
    <2>2. row'[m] = [inb |-> v, out |-> row[m].out, att |-> row[m].att]
      BY <2>1 DEF LaneInv, Shapes
    <2>3. row'[m].inb = v
      BY <2>2
    <2> QED BY <2>1, <2>3, RowSet
  <1> QED BY <1>1, <1>2

LEMMA OutboundSet ==
  ASSUME LaneInv, NEW m \in Messages, NEW v, NEW end,
         Applied(end, [row EXCEPT ![m].out = v])
  PROVE  RowsKeep({})
  <1>1. CASE end = "refused"
    BY <1>1, RowsSame DEF Applied
  <1>2. CASE end # "refused"
    <2>1. row' = [row EXCEPT ![m] = [inb |-> row[m].inb, out |-> v, att |-> row[m].att]]
      <3>1. row[m] = [inb |-> row[m].inb, out |-> row[m].out, att |-> row[m].att]
        BY DEF LaneInv, Shapes
      <3> QED BY <1>2, <3>1, RowFields DEF Applied
    <2> QED BY <2>1, RowSet
  <1> QED BY <1>1, <1>2

LEMMA AttemptSet ==
  ASSUME LaneInv, NEW m \in Messages, NEW n, NEW status, NEW end,
         Applied(end, Recorded(m, n, status))
  PROVE  RowsKeep({})
  <1>1. CASE end = "refused"
    BY <1>1, RowsSame DEF Applied
  <1>2. CASE end # "refused"
    <2> DEFINE v == MessageStatus(status)
               a == IF n > Len(row[m].att) THEN Append(row[m].att, status)
                    ELSE [row[m].att EXCEPT ![n] = status]
    <2>1. row' = [row EXCEPT ![m] = [inb |-> row[m].inb, out |-> v, att |-> a]]
      BY <1>2 DEF Applied, Recorded, LaneInv, Shapes
    <2> QED BY <2>1, RowSet
  <1> QED BY <1>1, <1>2

\* Keeping every inbound half is more than keeping all but one.
LEMMA RowsKeepMore ==
  ASSUME NEW m \in Messages, RowsKeep({}) PROVE RowsKeep({m})
  BY DEF RowsKeep-----------------------------------------------------------------------------
(* The delivery queues *)

LEMMA QueuedKeeps ==
  ASSUME LaneInv, DeliveryQueued, NEW m \in Messages, NEW d, tail[m] # <<>>,
         del' = [del EXCEPT ![m] = d], UNCHANGED tail
  PROVE  DeliveryQueued'
  BY DEF DeliveryQueued

LEMMA QueuesKeeps ==
  ASSUME LaneInv, DeliveryQueued, NEW m \in Messages, NEW who, Queues(m, who)
  PROVE  DeliveryQueued'
  <1>1. tail' = [tail EXCEPT ![m] = Append(tail[m], who)]
    BY DEF Queues
  <1>2. tail[m] \in Seq({"exec", "retry", "recovery"})
    BY DEF LaneInv, Shapes
  <1>3. tail'[m] # <<>> /\ \A x \in Messages \ {m} : tail'[x] = tail[x]
    BY <1>1, <1>2 DEF LaneInv, Shapes
  <1>4. del' = [x \in Messages |-> del'[x]] /\ \A x \in Messages \ {m} : del'[x] = del[x]
    BY DEF Queues, DeliveryQueued
  <1> QED BY <1>3, <1>4 DEF DeliveryQueued

LEMMA OverKeeps ==
  ASSUME LaneInv, DeliveryQueued, NEW m \in Messages, NEW threw, DeliveryOver(m, threw)
  PROVE  DeliveryQueued'
  <1>1. /\ tail' = [tail EXCEPT ![m] = Tail(tail[m])]
        /\ del' = [del EXCEPT ![m] = IF Tail(tail[m]) = <<>> THEN NoDelivery
                                     ELSE [NoDelivery EXCEPT !.at = "load"]]
    BY DEF DeliveryOver
  <1>2. /\ tail'[m] = Tail(tail[m]) /\ \A x \in Messages \ {m} : tail'[x] = tail[x]
        /\ del' = [x \in Messages |-> del'[x]] /\ \A x \in Messages \ {m} : del'[x] = del[x]
        /\ tail'[m] = <<>> => del'[m] = NoDelivery
    BY <1>1 DEF LaneInv, Shapes, DeliveryQueued
  <1>3. NoDelivery.at = "idle"
    BY DEF NoDelivery
  <1> QED BY <1>2, <1>3 DEF DeliveryQueued

LEMMA UnderWay ==
  ASSUME DeliveryQueued, NEW m \in Messages, del[m].at # "idle" PROVE tail[m] # <<>>
  BY DEF DeliveryQueued

LEMMA DeliverGoesKeeps ==
  ASSUME LaneInv, DeliveryQueued, NEW m \in Messages, tail[m] # <<>>, NEW pc,
         DeliverGoes(m, pc), UNCHANGED lane, RowsKeep({})
  PROVE  LaneInv' /\ DeliveryQueued' /\ Once
  <1>1. DeliveryQueued'
    BY DEF DeliverGoes, DeliveryQueued
  <1> QED BY <1>1, RowStepKeeps, NothingBegins DEF DeliverGoes

LEMMA DeliveryEnds ==
  ASSUME LaneInv, DeliveryQueued, NEW m \in Messages, tail[m] # <<>>, NEW threw \in BOOLEAN,
         DeliveryOver(m, threw), UNCHANGED lane, RowsKeep({})
  PROVE  LaneInv' /\ DeliveryQueued' /\ Once
  BY DeliveryOverKeeps, OverKeeps DEF Once

Inv == LaneInv /\ DeliveryQueued
-----------------------------------------------------------------------------
(* One step of each action *)

LEMMA DeliverLoadKeeps ==
  ASSUME Inv, NEW m \in Messages, NEW end, DeliverLoad(m, end)
  PROVE  Inv' /\ Once
  <1>1. tail[m] # <<>> /\ RowsKeep({}) /\ UNCHANGED lane
    BY UnderWay, RowsSame DEF DeliverLoad, Delivering, DeliverRest, Inv
  <1>2. DeliverGoes(m, "list") \/ DeliveryOver(m, TRUE) \/ DeliveryOver(m, FALSE)
    BY DEF DeliverLoad
  <1> QED BY <1>1, <1>2, DeliverGoesKeeps, DeliveryEnds DEF Inv

LEMMA DeliverListKeeps ==
  ASSUME Inv, NEW m \in Messages, NEW end, DeliverList(m, end)
  PROVE  Inv' /\ Once
  <1>1. tail[m] # <<>> /\ RowsKeep({}) /\ UNCHANGED lane
    BY UnderWay, RowsSame DEF DeliverList, Delivering, DeliverRest, Inv
  <1>2. CASE end # "ok"
    BY <1>1, <1>2, DeliveryEnds DEF DeliverList, Inv
  <1>3. CASE end = "ok"
    <2>1. UNCHANGED <<exec, lane, tail>>
      BY <1>1, <1>3 DEF DeliverList
    <2>2. DeliveryQueued'
      BY <1>1, <1>3, QueuedKeeps DEF DeliverList, Inv
    <2> QED BY <1>1, <2>1, <2>2, RowStepKeeps, NothingBegins DEF Inv
  <1> QED BY <1>2, <1>3

LEMMA DeliverLeaseKeeps ==
  ASSUME Inv, NEW m \in Messages, NEW end, DeliverLease(m, end)
  PROVE  Inv' /\ Once
  <1>1. tail[m] # <<>> /\ RowsKeep({}) /\ UNCHANGED lane
    BY UnderWay, RowsSame DEF DeliverLease, Delivering, DeliverRest, Inv
  <1>2. DeliveryOver(m, TRUE) \/ \E pc \in {"sending"} \cup Refusal : DeliverGoes(m, pc)
    BY DEF DeliverLease
  <1> QED BY <1>1, <1>2, DeliverGoesKeeps, DeliveryEnds DEF Inv

LEMMA DeliverSendingKeeps ==
  ASSUME Inv, NEW m \in Messages, NEW end, DeliverSending(m, end)
  PROVE  Inv' /\ Once
  <1>1. tail[m] # <<>> /\ RowsKeep({}) /\ UNCHANGED lane
    BY UnderWay, AttemptSet DEF DeliverSending, Delivering, DeliverRest, Inv
  <1>2. DeliverGoes(m, "send") \/ DeliverGoes(m, "catch")
    BY DEF DeliverSending
  <1> QED BY <1>1, <1>2, DeliverGoesKeeps DEF Inv

LEMMA DeliverSendKeeps ==
  ASSUME Inv, NEW m \in Messages, DeliverSend(m)
  PROVE  Inv' /\ Once
  <1>1. RowsKeep({}) /\ UNCHANGED <<exec, lane, tail>>
    BY RowsSame DEF DeliverSend, DeliverRest, Inv
  <1>2. tail[m] # <<>>
    BY UnderWay DEF DeliverSend, Inv
  <1>3. DeliveryQueued'
    BY <1>1, <1>2 DEF DeliverSend, DeliveryQueued, Inv
  <1> QED BY <1>1, <1>3, RowStepKeeps, NothingBegins DEF Inv

LEMMA DeliverSentKeeps ==
  ASSUME Inv, NEW m \in Messages, NEW end, DeliverSent(m, end)
  PROVE  Inv' /\ Once
  <1>1. tail[m] # <<>> /\ RowsKeep({}) /\ UNCHANGED lane
    BY UnderWay, AttemptSet DEF DeliverSent, Delivering, DeliverRest, Inv
  <1>2. DeliverGoes(m, "catch") \/ DeliveryOver(m, FALSE)
    BY DEF DeliverSent
  <1> QED BY <1>1, <1>2, DeliverGoesKeeps, DeliveryEnds DEF Inv

LEMMA DeliverCatchKeeps ==
  ASSUME Inv, NEW m \in Messages, NEW end, DeliverCatch(m, end)
  PROVE  Inv' /\ Once
  <1>1. tail[m] # <<>> /\ RowsKeep({}) /\ UNCHANGED lane
    BY UnderWay, AttemptSet DEF DeliverCatch, Delivering, DeliverRest, Inv
  <1>2. DeliveryOver(m, end # "ok") /\ (end # "ok") \in BOOLEAN
    BY DEF DeliverCatch
  <1> QED BY <1>1, <1>2, DeliveryEnds DEF Inv
LEMMA AdmissionKeeps ==
  ASSUME Inv, NEW m \in Inbound, NEW end, Admit(m, end)
  PROVE  Inv' /\ Once
  <1>1. m \in Messages /\ UNCHANGED <<tail, del>>
    BY DEF Admit, Messages
  <1>2. DeliveryQueued'
    BY <1>1 DEF DeliveryQueued, Inv
  <1>3. CASE row[m].inb = "none"
    <2>1. RowsKeep({m}) /\ (end # "refused" => row'[m].inb = "admitted")
      <3>1. Applied(end, [row EXCEPT ![m].inb = "admitted"])
        BY <1>3 DEF Admit
      <3> QED BY <1>1, <3>1, InboundSet DEF Inv
    <2>2. CASE end = "ok"
      <3>1. Executes(m) /\ row'[m].inb = "admitted"
        BY <1>3, <2>1, <2>2 DEF Admit
      <3>2. LaneInv'
        BY <1>1, <1>3, <2>1, <3>1, AdmitKeeps DEF Inv
      <3>3. \A x \in Messages \ {m} : exec'[x] = exec[x]
        BY <3>1 DEF Executes, Inv, LaneInv, Shapes
      <3> QED BY <1>2, <3>1, <3>2, <3>3 DEF Once, Inv, Messages
    <2>3. CASE end # "ok"
      <3>1. UNCHANGED <<exec, lane, tail>>
        BY <1>1, <2>3 DEF Admit
      <3>2. LaneInv'
        <4>1. exec[m].at = "idle"
          BY <1>3 DEF Inv, LaneInv, ExecutedIsKnown
        <4>2. Shapes' /\ ExecutesFirst' /\ OneDelivery'
          BY <2>1, <3>1 DEF Inv, LaneInv, Shapes, ExecutesFirst, OneDelivery, RowsKeep
        <4>3. ExecutedIsKnown'
          BY <2>1, <3>1, <4>1 DEF Inv, LaneInv, ExecutedIsKnown, RowsKeep, Messages
        <4>4. WaitsFresh'
          <5>1. \A c \in Conversations : \A i \in DOMAIN lane[c] :
                  i > 1 => lane[c][i] \in Messages \ {m}
            BY <1>3, LanesTyped DEF Inv, LaneInv, WaitsFresh
          <5> QED BY <2>1, <3>1, <5>1 DEF Inv, LaneInv, WaitsFresh, RowsKeep
        <4> QED BY <4>2, <4>3, <4>4 DEF LaneInv
      <3> QED BY <1>2, <3>1, <3>2, NothingBegins DEF Inv
    <2> QED BY <2>2, <2>3
  <1>4. CASE row[m].inb # "none"
    <2>1. UNCHANGED <<row, exec, lane, tail>>
      BY <1>1, <1>4 DEF Admit, Applied
    <2> QED BY <1>2, <2>1, RowsSame, RowStepKeeps, NothingBegins DEF Inv
  <1> QED BY <1>3, <1>4

\* A call of an execution that leaves the delivery queues alone.
LEMMA ExecCallKeeps ==
  ASSUME Inv, NEW m \in Messages, exec[m].at \notin {"idle", "lane", "done", "deliver"},
         NEW pc, ExecFails(m, pc) \/ \E next : /\ next \notin {"idle", "lane", "mark"}
                                              /\ ExecGoes(m, next),
         UNCHANGED <<tail, del>>, RowsKeep({m})
  PROVE  Inv' /\ Once
  <1>1. LaneInv' /\ Once
    BY FailsKeeps, GoesKeeps DEF Inv
  <1> QED BY <1>1 DEF Inv, DeliveryQueued

LEMMA ExecStampKeeps ==
  ASSUME Inv, NEW m \in Messages, NEW end, ExecStamp(m, end)
  PROVE  Inv' /\ Once
  <1> DEFINE pc == exec[m].at
  <1>1. /\ pc \in {"mark", "store", "fail", "get"}
        /\ Following[pc] \notin {"idle", "lane", "mark"}
        /\ pc # "get" => pc \in DOMAIN Stamps /\ Stamps[pc] # "none"
        /\ pc = "get" => pc \notin DOMAIN Stamps
    BY DEF ExecStamp, Following, Stamps
  <1>2. RowsKeep({m})
    <2>1. CASE pc = "get"
      <3>1. row' = row
        BY <1>1, <2>1 DEF ExecStamp, Applied
      <3> QED BY <3>1, RowsSame DEF Inv
    <2>2. CASE pc # "get"
      <3>1. Applied(end, [row EXCEPT ![m].inb = Stamps[pc]])
        BY <1>1, <2>2 DEF ExecStamp
      <3> QED BY <1>1, <2>2, <3>1, InboundSet DEF Inv
    <2> QED BY <2>1, <2>2
  <1>3. /\ UNCHANGED <<tail, del>>
        /\ ExecFails(m, pc) \/ ExecGoes(m, Following[pc])
    BY DEF ExecStamp
  <1> QED BY <1>1, <1>2, <1>3, ExecCallKeeps

LEMMA ExecExportKeeps ==
  ASSUME Inv, NEW m \in Messages, NEW end, ExecExport(m, end)
  PROVE  Inv' /\ Once
  <1>1. exec[m].at = "export" /\ UNCHANGED <<tail, del>> /\ RowsKeep({m})
    BY RowsSame DEF ExecExport, Executing, Inv
  <1>2. \/ ExecFails(m, "export")
        \/ \E next \in {"get", "done", "admit"} : ExecGoes(m, next)
    BY DEF ExecExport
  <1> QED BY <1>1, <1>2, ExecCallKeeps

LEMMA ExecAdmitKeeps ==
  ASSUME Inv, NEW m \in Messages, NEW end, ExecAdmit(m, end)
  PROVE  Inv' /\ Once
  <1> DEFINE admitted == [row EXCEPT ![m].out = IF @ = "none" THEN "pending-delivery" ELSE @]
             status == IF row[m].out = "none" THEN "pending-delivery" ELSE row[m].out
  <1>1. exec[m].at = "admit" /\ UNCHANGED <<tail, del>>
    BY DEF ExecAdmit, Executing
  <1>2. RowsKeep({m})
    <2>1. Applied(end, [row EXCEPT ![m].out = status]) \/ UNCHANGED row
      BY DEF ExecAdmit, Inv, LaneInv, Shapes
    <2>2. RowsKeep({})
      BY <2>1, OutboundSet, RowsSame DEF Inv
    <2> QED BY <2>2, RowsKeepMore
  <1>3. \/ ExecFails(m, "admit")
        \/ /\ exec' = [exec EXCEPT ![m] = [at |-> "stamp", seen |-> admitted[m].out]]
           /\ UNCHANGED lane
    BY DEF ExecAdmit
  <1> HIDE DEF admitted
  <1>4. CASE ExecFails(m, "admit")
    BY <1>1, <1>2, <1>4, ExecCallKeeps
  <1>5. CASE /\ exec' = [exec EXCEPT ![m] = [at |-> "stamp", seen |-> admitted[m].out]]
             /\ UNCHANGED lane
    <2>1. LaneInv'
      <3> DEFINE seen == admitted[m].out
      <3>1. exec' = [exec EXCEPT ![m] = [at |-> "stamp", seen |-> seen]] /\ UNCHANGED lane
        BY <1>5
      <3> HIDE DEF seen
      <3>2. "stamp" \notin {"idle", "lane", "mark", "done"}
        OBVIOUS
      <3> QED BY <1>1, <1>2, <3>1, <3>2, TurnKeeps DEF Inv
    <2>2. Once
      BY <1>5 DEF Once, Inv, LaneInv, Shapes, Messages
    <2> QED BY <1>1, <2>1, <2>2 DEF Inv, DeliveryQueued
  <1> QED BY <1>3, <1>4, <1>5

LEMMA ExecOutStampKeeps ==
  ASSUME Inv, NEW m \in Messages, NEW end, ExecOutStamp(m, end)
  PROVE  Inv' /\ Once
  <1>1. exec[m].at = "stamp" /\ UNCHANGED <<tail, del>> /\ RowsKeep({})
    BY OutboundSet DEF ExecOutStamp, Executing, Inv
  <1>2. ExecGoes(m, "read") \/ ExecFails(m, "stamp")
    BY DEF ExecOutStamp
  <1> QED BY <1>1, <1>2, RowsKeepMore, ExecCallKeeps

LEMMA ExecDeliversKeeps ==
  ASSUME Inv, NEW m \in Messages, NEW end, ExecDelivers(m, end)
  PROVE  Inv' /\ Once
  <1>1. exec[m].at = "read" /\ UNCHANGED row /\ RowsKeep({m})
    BY RowsSame DEF ExecDelivers, Executing, Inv
  <1>2. CASE end = "ok"
    <2>1. /\ Queues(m, "exec") /\ UNCHANGED lane
          /\ exec' = [exec EXCEPT ![m].at = "deliver"]
      BY <1>2 DEF ExecDelivers
    <2>2. LaneInv' /\ DeliveryQueued'
      BY <1>1, <2>1, DeliversKeeps, QueuesKeeps DEF Queues, Inv
    <2>3. Once
      BY <2>1 DEF Once, Inv, LaneInv, Shapes, Messages
    <2> QED BY <2>2, <2>3 DEF Inv
  <1>3. CASE end # "ok"
    <2>1. ExecFails(m, "read") /\ UNCHANGED <<tail, del>>
      BY <1>3 DEF ExecDelivers
    <2> QED BY <1>1, <2>1, ExecCallKeeps
  <1> QED BY <1>2, <1>3

\* A step that leaves the rows' inbound halves and every queue alone.
LEMMA RestKeeps ==
  ASSUME Inv, UNCHANGED <<exec, lane, tail, del>>, RowsKeep({})
  PROVE  Inv' /\ Once
  <1>1. LaneInv' /\ Once
    BY RowStepKeeps, NothingBegins DEF Inv
  <1> QED BY <1>1 DEF Inv, DeliveryQueued

\* A delivery that a timer or the recovery asks for.
LEMMA AskedKeeps ==
  ASSUME Inv, NEW m \in Messages, NEW who \in {"retry", "recovery"}, Queues(m, who),
         UNCHANGED <<row, exec, lane>>
  PROVE  Inv' /\ Once
  BY QueueKeeps, QueuesKeeps, NothingBegins DEF Inv

LEMMA RecoveryKeeps ==
  ASSUME Inv, NEW m \in Messages, NEW end,
         RetryMessage(m, end) \/ ScheduleOrDeliver(m, end)
  PROVE  Inv' /\ Once
  <1>1. UNCHANGED <<row, exec, lane>> /\ RowsKeep({})
    BY RowsSame DEF RetryMessage, ScheduleOrDeliver, Inv
  <1>2. Queues(m, "retry") \/ Queues(m, "recovery") \/ UNCHANGED <<tail, del>>
    BY DEF RetryMessage, ScheduleOrDeliver
  <1> QED BY <1>1, <1>2, AskedKeeps, RestKeeps

LEMMA PromptSettlesKeeps ==
  ASSUME Inv, NEW m \in Messages, PromptSettles(m)
  PROVE  Inv' /\ Once
  <1>1. exec[m].at = "prompt" /\ UNCHANGED <<row, lane, tail, del>> /\ RowsKeep({m})
    BY RowsSame DEF PromptSettles, Inv
  <1>2. PICK pc \in {"store", "fail"} : exec' = [exec EXCEPT ![m].at = pc]
    BY DEF PromptSettles
  <1>3. exec' = [exec EXCEPT ![m] = [at |-> pc, seen |-> exec[m].seen]]
    <2>1. exec[m] = [at |-> exec[m].at, seen |-> exec[m].seen]
      BY DEF Inv, LaneInv, Shapes
    <2> QED BY <1>2, <2>1, AtOf
  <1>4. LaneInv'
    BY <1>1, <1>3, TurnKeeps DEF Inv
  <1>5. Once
    BY <1>3 DEF Once, Inv, LaneInv, Shapes, Messages
  <1> QED BY <1>1, <1>4, <1>5 DEF Inv, DeliveryQueued

LEMMA ScheduledRunKeeps ==
  ASSUME Inv, NEW m \in Messages, ScheduledRunCompletes(m)
  PROVE  Inv' /\ Once
  <1>1. /\ m \in Scheduled /\ exec[m].at = "idle" /\ UNCHANGED <<row, lane, tail, del>>
        /\ exec' = [exec EXCEPT ![m].at = "export"]
    BY DEF ScheduledRunCompletes
  <1>2. LaneInv'
    BY <1>1, ScheduledKeeps DEF Inv
  <1>3. Once
    BY <1>1 DEF Once, Inv, LaneInv, Shapes, Messages
  <1> QED BY <1>1, <1>2, <1>3 DEF Inv, DeliveryQueued

LEMMA MainEndsKeeps ==
  ASSUME Inv, MainEnds
  PROVE  Inv' /\ Once
  <1>1. EmptyMemory /\ UNCHANGED row
    BY DEF MainEnds
  <1>2. LaneInv'
    BY <1>1, EndKeeps DEF Inv
  <1>3. DeliveryQueued'
    BY <1>1 DEF EmptyMemory, DeliveryQueued, NoDelivery
  <1>4. Once
    <2>1. ASSUME NEW x \in Inbound PROVE exec'[x].at # "mark"
      BY <1>1 DEF EmptyMemory, NoExec, Messages
    <2> QED BY <2>1 DEF Once
  <1> QED BY <1>2, <1>3, <1>4 DEF Inv
-----------------------------------------------------------------------------
LEMMA InvInit == ChannelInit => Inv
  <1> SUFFICES ASSUME ChannelInit PROVE Inv
    OBVIOUS
  <1>1. DeliveryQueued
    BY DEF ChannelInit, DeliveryQueued, NoDelivery
  <1> QED BY <1>1, LaneInvInit DEF Inv

LEMMA InvStep == Inv /\ [ChannelNext]_channelVars => Inv' /\ Once
  <1> SUFFICES ASSUME Inv, [ChannelNext]_channelVars PROVE Inv' /\ Once
    OBVIOUS
  <1>1. ASSUME NEW end \in Ends, RetryPending(end) PROVE Inv' /\ Once
    BY <1>1, RowsSame, RestKeeps DEF RetryPending, Inv
  <1>2. ASSUME NEW end \in Ends, NEW m \in Messages, Exhausted(m, end) PROVE Inv' /\ Once
    BY <1>2, AttemptSet, RestKeeps DEF Exhausted, Inv
  <1>3. CASE DataCall
    <2> PICK end \in Ends :
          \/ RetryPending(end)
          \/ \E m \in Inbound : Admit(m, end)
          \/ \E m \in Messages :
               \/ DeliverLoad(m, end) \/ DeliverList(m, end) \/ DeliverLease(m, end)
               \/ DeliverSending(m, end) \/ DeliverSent(m, end) \/ DeliverCatch(m, end)
               \/ ExecStamp(m, end) \/ ExecExport(m, end) \/ ExecAdmit(m, end)
               \/ ExecOutStamp(m, end) \/ ExecDelivers(m, end)
               \/ RetryMessage(m, end) \/ ScheduleOrDeliver(m, end) \/ Exhausted(m, end)
      BY <1>3 DEF DataCall
    <2> QED
      BY <1>1, <1>2, AdmissionKeeps, DeliverLoadKeeps, DeliverListKeeps, DeliverLeaseKeeps,
         DeliverSendingKeeps, DeliverSentKeeps, DeliverCatchKeeps, ExecStampKeeps,
         ExecExportKeeps, ExecAdmitKeeps, ExecOutStampKeeps, ExecDeliversKeeps, RecoveryKeeps
  <1>4. CASE RecoveryBegins \/ OrchestratorStops \/ MainStarts
    BY <1>4, RowsSame, RestKeeps
    DEF RecoveryBegins, OrchestratorStops, MainStarts, memory, Inv
  <1>5. ASSUME NEW m \in Messages, Arrive(m) \/ TimerFires(m) PROVE Inv' /\ Once
    BY <1>5, RowsSame, RestKeeps DEF Arrive, TimerFires, Inv
  <1>6. CASE UNCHANGED channelVars
    BY <1>6, RowsSame, RestKeeps DEF channelVars, memory, Inv
  <1> QED
    BY <1>3, <1>4, <1>5, <1>6, MainEndsKeeps, ScheduledRunKeeps, PromptSettlesKeeps,
       DeliverSendKeeps DEF ChannelNext

\* An execution begins only on a row no execution has touched: whatever the
\* connector hands over again, at once or after a restart, is prompted once.
THEOREM ChannelInboundOnce == ChannelSpec => InboundOnce
  <1>1. ChannelInit => Inv
    BY InvInit
  <1>2. Inv /\ [ChannelNext]_channelVars => Inv'
    BY InvStep
  <1>3. Inv /\ [ChannelNext]_channelVars
          => [\A m \in Inbound :
                exec[m].at # "mark" /\ exec'[m].at = "mark"
                  => row'[m].inb = "admitted"]_channelVars
    BY InvStep DEF Once
  <1> QED BY <1>1, <1>2, <1>3, PTL DEF ChannelSpec, InboundOnce
-----------------------------------------------------------------------------
(* The budget of sends *)

Statuses == {"sending", "sent", "retry", "dead-letter"}
Asked ==
  ({"deliver", "exec", "retry", "attempts"} \X Messages)
    \cup ({"admit"} \X Inbound) \cup {<<"pending", "all">>}
    \cup ({"exhausted"} \X Messages \X (Nat \ {0}))

Forms ==
  /\ calls \in Seq(Asked)
  /\ timer \in [Messages -> BOOLEAN] /\ hurt \in [Messages -> {"no", "now", "once"}]
  /\ sends \in [Messages -> Nat]
  /\ \A m \in Messages :
       /\ row[m].att \in Seq(Statuses)
       /\ del[m] = [at |-> del[m].at, attempt |-> del[m].attempt] /\ del[m].attempt \in Nat
       /\ (del[m].at = "idle") = (tail[m] = <<>>)

Is(c, tag, m) == c[1] = tag /\ c[2] = m
Has(tag, m) == \E i \in DOMAIN calls : Is(calls[i], tag, m)
Single(tag, m) ==
  \A i, j \in DOMAIN calls : Is(calls[i], tag, m) /\ Is(calls[j], tag, m) => i = j
LastIs(m, status) == row[m].att # <<>> /\ row[m].att[Len(row[m].att)] = status

\* The recovery has not looked at the message yet.
Unrecovered(m) == pending = "idle" \/ Has("pending", "all") \/ Has("attempts", m)

\* Nothing asks for a delivery of the message.
Unasked(m) ==
  tail[m] = <<>> /\ ~timer[m] /\ ~Has("retry", m) /\ exec[m].at \notin {"stamp", "read"}

\* No execution has answered the message yet.
Unanswered(m) ==
  \/ exec[m].at \in {"lane", "mark", "prompt", "store", "export", "admit"}
  \/ exec[m].at = "idle" /\ (m \in Inbound => row[m].inb = "none")

Sending == {"send", "sent", "catch"}

\* The recovery reads the rows once, and every row it lists once.
RecoversOnce ==
  /\ pending = "idle" => ~Has("pending", "all")
  /\ Single("pending", "all")
  /\ pending = "idle" \/ Has("pending", "all")
       => \A m \in Messages : ~Has("attempts", m) /\ ~Has("exhausted", m)
  /\ \A m \in Messages : Single("attempts", m)

\* The call that stamps the answer stands before the recovery's.
StampsFirst(m) ==
  \E k \in DOMAIN calls :
    /\ Is(calls[k], "exec", m)
    /\ \A i \in DOMAIN calls : Is(calls[i], "attempts", m) => k < i

AnswerIsNew(m) ==
  /\ Unanswered(m) => /\ row[m].out = "none" /\ row[m].att = <<>>
                      /\ Unasked(m) /\ ~Has("attempts", m) /\ ~Has("exhausted", m)
  /\ exec[m].at = "stamp" =>
       /\ exec[m].seen = "pending-delivery" /\ row[m].out = "pending-delivery"
       /\ row[m].att = <<>> /\ tail[m] = <<>> /\ ~timer[m]
       /\ ~Has("retry", m) /\ ~Has("exhausted", m) /\ StampsFirst(m)

AttemptsCounted(m) ==
  /\ \A i \in DOMAIN row[m].att : row[m].att[i] = "retry" => i < MaxAttempts
  /\ del[m].at \in {"lease", "sending"} => del[m].attempt = Len(row[m].att) + 1
  /\ del[m].at \in {"send", "sent"} => del[m].attempt \in 1 .. Len(row[m].att)
  /\ del[m].at = "catch" => del[m].attempt \in 1 .. Len(row[m].att) + 1
  /\ del[m].at \in {"list", "lease", "sending"} => row[m].out \notin Final

\* Until the recovery looks, one thing at most asks for a delivery.
OneAsks(m) ==
  Unrecovered(m) =>
    /\ ~Has("exhausted", m)
    /\ Len(tail[m]) <= 1 /\ Single("retry", m)
    /\ timer[m] => ~Has("retry", m)
    /\ tail[m] # <<>> => ~timer[m] /\ ~Has("retry", m)
    /\ exec[m].at = "read" => /\ tail[m] = <<>> /\ ~timer[m] /\ ~Has("retry", m)
                              /\ row[m].att = <<>>
    /\ timer[m] \/ Has("retry", m) => LastIs(m, "retry")
    /\ del[m].at \in {"load", "list", "lease", "sending"}
         => row[m].att = <<>> \/ LastIs(m, "retry")
    /\ del[m].at \in Sending => del[m].attempt >= Len(row[m].att)

\* What the recovery gives up is not delivered again.
GivenUp(m) ==
  Has("exhausted", m) =>
    /\ ~timer[m] /\ ~Has("retry", m) /\ exec[m].at # "read"
    /\ Len(tail[m]) <= 1
    /\ del[m].at \notin {"load", "list", "lease", "sending"}
    /\ del[m].at \in Sending => del[m].attempt >= MaxAttempts

\* With the attempts used up, the last is under way or nothing is.
Budgeted(m) ==
  hurt[m] = "no" =>
    /\ sends[m] <= Len(row[m].att) /\ sends[m] <= MaxAttempts
    /\ row[m].out \notin Final /\ Len(row[m].att) >= MaxAttempts
         => Unasked(m) \/ (del[m].at \in Sending /\ del[m].attempt >= MaxAttempts)
    /\ del[m].at \in Sending /\ del[m].attempt < MaxAttempts => row[m].out \notin Final

SendSound(m) == AnswerIsNew(m) /\ AttemptsCounted(m) /\ OneAsks(m) /\ GivenUp(m) /\ Budgeted(m)
SendInv == Forms /\ RecoversOnce /\ \A m \in Messages : SendSound(m)

(* The queue of calls *)

\* Calls that ask for nothing: a delivery or an execution goes on.
Plain(more) == more \in Seq(Asked) /\ \A j \in DOMAIN more : more[j][1] \in {"deliver", "exec"}

LEMMA Taken ==
  ASSUME calls \in Seq(Asked), calls # <<>>, NEW more \in Seq(Asked), Then(more)
  PROVE  /\ calls' \in Seq(Asked)
         /\ \A i \in DOMAIN calls' :
              \/ i + 1 \in DOMAIN calls /\ calls'[i] = calls[i + 1]
              \/ /\ i >= Len(calls) /\ i - (Len(calls) - 1) \in DOMAIN more
                 /\ calls'[i] = more[i - (Len(calls) - 1)]
         /\ \A k \in DOMAIN calls : k > 1 => k - 1 \in DOMAIN calls' /\ calls'[k - 1] = calls[k]
  <1> DEFINE t == Tail(calls)
  <1>1. /\ t \in Seq(Asked) /\ Len(t) = Len(calls) - 1 /\ Len(calls) \in Nat \ {0}
        /\ \A i \in 1 .. Len(t) : t[i] = calls[i + 1]
    OBVIOUS
  <1>2. calls' = t \o more
    BY DEF Then
  <1> HIDE DEF t
  <1>3. /\ calls' \in Seq(Asked) /\ Len(calls') = Len(t) + Len(more)
        /\ \A i \in 1 .. Len(calls') :
             calls'[i] = IF i <= Len(t) THEN t[i] ELSE more[i - Len(t)]
    BY <1>1, <1>2
  <1> DEFINE n == Len(t)
  <1>4. /\ n \in Nat /\ n = Len(calls) - 1 /\ Len(more) \in Nat /\ DOMAIN calls = 1 .. n + 1
        /\ DOMAIN more = 1 .. Len(more) /\ DOMAIN calls' = 1 .. n + Len(more)
        /\ \A i \in 1 .. n : t[i] = calls[i + 1]
        /\ \A i \in 1 .. n + Len(more) : calls'[i] = IF i <= n THEN t[i] ELSE more[i - n]
    <2>1. n \in Nat /\ n = Len(calls) - 1 /\ Len(more) \in Nat /\ Len(calls) = n + 1
      BY <1>1
    <2>2. Len(calls') = n + Len(more)
      BY <1>3
    <2>3. DOMAIN calls = 1 .. n + 1 /\ DOMAIN more = 1 .. Len(more)
      BY <2>1
    <2>4. DOMAIN calls' = 1 .. n + Len(more)
      BY <1>3, <2>2
    <2> QED BY <1>1, <1>3, <2>1, <2>2, <2>3, <2>4
  <1> HIDE DEF n
  <1>5. ASSUME NEW i \in DOMAIN calls', i <= n
        PROVE  i + 1 \in DOMAIN calls /\ calls'[i] = calls[i + 1]
    BY <1>4, <1>5
  <1>6. ASSUME NEW i \in DOMAIN calls', ~(i <= n)
        PROVE  /\ i >= Len(calls) /\ i - (Len(calls) - 1) \in DOMAIN more
               /\ calls'[i] = more[i - (Len(calls) - 1)]
    <2>1. i \in Nat /\ i - n \in 1 .. Len(more)
      BY <1>4, <1>6
    <2>2. calls'[i] = more[i - n]
      BY <1>4, <1>6
    <2> QED BY <1>4, <1>6, <2>1, <2>2
  <1>7. ASSUME NEW k \in DOMAIN calls, k > 1
        PROVE  k - 1 \in DOMAIN calls' /\ calls'[k - 1] = calls[k]
    <2>1. k - 1 \in 1 .. n /\ k = (k - 1) + 1
      BY <1>4, <1>7
    <2> QED BY <1>4, <2>1
  <1> QED BY <1>3, <1>5, <1>6, <1>7

\* A call that is answered is gone; those behind it keep their order.
LEMMA TakenPass ==
  ASSUME calls \in Seq(Asked), calls # <<>>, NEW more \in Seq(Asked), Then(more),
         NEW tag, NEW x, \A j \in DOMAIN more : ~Is(more[j], tag, x)
  PROVE  /\ Has(tag, x)' => Has(tag, x)
         /\ Single(tag, x) => Single(tag, x)'
         /\ Single(tag, x) /\ Is(Head(calls), tag, x) => ~Has(tag, x)'
  <1>1. /\ \A i \in DOMAIN calls' :
              \/ i + 1 \in DOMAIN calls /\ calls'[i] = calls[i + 1]
              \/ \E j \in DOMAIN more : calls'[i] = more[j]
        /\ DOMAIN calls' \subseteq Nat \ {0}
    BY Taken
  <1>2. \A i \in DOMAIN calls' :
          Is(calls'[i], tag, x) => i + 1 \in DOMAIN calls /\ Is(calls[i + 1], tag, x)
    BY <1>1 DEF Is
  <1>3. Head(calls) = calls[1] /\ 1 \in DOMAIN calls
    OBVIOUS
  <1>4. Has(tag, x)' => Has(tag, x)
    BY <1>2 DEF Has, Is
  <1>5. ASSUME Single(tag, x) PROVE Single(tag, x)'
    <2>1. ASSUME NEW i \in DOMAIN calls', NEW j \in DOMAIN calls',
                 Is(calls'[i], tag, x), Is(calls'[j], tag, x)
          PROVE  i = j
      <3>1. i + 1 = j + 1
        BY <1>2, <1>5, <2>1 DEF Single
      <3> QED BY <1>1, <3>1
    <2> QED BY <2>1 DEF Single, Is
  <1>6. ASSUME Single(tag, x), Is(Head(calls), tag, x), Has(tag, x)' PROVE FALSE
    <2>1. PICK i \in DOMAIN calls' : Is(calls'[i], tag, x)
      BY <1>6 DEF Has, Is
    <2>2. i + 1 = 1
      BY <1>2, <1>3, <1>6, <2>1 DEF Single
    <2> QED BY <1>1, <2>2
  <1> QED BY <1>4, <1>5, <1>6

LEMMA TakenFirst ==
  ASSUME calls \in Seq(Asked), calls # <<>>, NEW more \in Seq(Asked), Then(more),
         NEW x, StampsFirst(x), ~Is(Head(calls), "exec", x)
  PROVE  StampsFirst(x)'
  <1>1. PICK k \in DOMAIN calls :
          /\ Is(calls[k], "exec", x)
          /\ \A i \in DOMAIN calls : Is(calls[i], "attempts", x) => k < i
    BY DEF StampsFirst
  <1>2. Head(calls) = calls[1] /\ Len(calls) \in Nat /\ DOMAIN calls = 1 .. Len(calls)
    OBVIOUS
  <1>3. k > 1
    BY <1>1, <1>2
  <1>4. k - 1 \in DOMAIN calls' /\ Is(calls'[k - 1], "exec", x)
    BY <1>1, <1>3, Taken
  <1>5. ASSUME NEW i \in DOMAIN calls', Is(calls'[i], "attempts", x) PROVE k - 1 < i
    <2>1. CASE i + 1 \in DOMAIN calls /\ calls'[i] = calls[i + 1]
      <3>1. k < i + 1
        BY <1>1, <1>5, <2>1
      <3>2. i \in Nat
        BY Taken
      <3> QED BY <1>2, <3>1, <3>2
    <2>2. CASE i >= Len(calls)
      <3>1. i \in Nat
        BY Taken
      <3> QED BY <1>2, <2>2, <3>1
    <2> QED BY <2>1, <2>2, Taken
  <1> QED BY <1>4, <1>5 DEF StampsFirst, Is

\* A call joins the queue.
LEMMA JoinPass ==
  ASSUME calls \in Seq(Asked), NEW c \in Asked, calls' = Append(calls, c)
  PROVE  /\ calls' \in Seq(Asked)
         /\ \A tag, x : ~Is(c, tag, x) => /\ Has(tag, x)' => Has(tag, x)
                                          /\ Single(tag, x) => Single(tag, x)'
         /\ \A tag, x : Is(c, tag, x) /\ ~Has(tag, x) => Single(tag, x)'
         /\ \A x : StampsFirst(x) => StampsFirst(x)'
  <1> DEFINE n == Len(calls) + 1
  <1>1. /\ calls' \in Seq(Asked) /\ DOMAIN calls' = 1 .. n /\ calls'[n] = c /\ n \in Nat
        /\ DOMAIN calls = 1 .. n - 1
        /\ \A i \in DOMAIN calls : i \in DOMAIN calls' /\ calls'[i] = calls[i]
        /\ \A i \in DOMAIN calls' : i = n \/ i \in DOMAIN calls
    OBVIOUS
  <1> HIDE DEF n
  <1>2. ASSUME NEW tag, NEW x, ~Is(c, tag, x)
        PROVE  /\ Has(tag, x)' => Has(tag, x)
               /\ Single(tag, x) => Single(tag, x)'
    BY <1>1, <1>2 DEF Has, Single, Is
  <1>3. ASSUME NEW tag, NEW x, ~Has(tag, x) PROVE Single(tag, x)'
    BY <1>1, <1>3 DEF Has, Single, Is
  <1>4. ASSUME NEW x, StampsFirst(x) PROVE StampsFirst(x)'
    <2>1. PICK k \in DOMAIN calls :
            /\ Is(calls[k], "exec", x)
            /\ \A i \in DOMAIN calls : Is(calls[i], "attempts", x) => k < i
      BY <1>4 DEF StampsFirst
    <2>2. k \in DOMAIN calls' /\ Is(calls'[k], "exec", x)
      BY <1>1, <2>1
    <2>3. \A i \in DOMAIN calls' : Is(calls'[i], "attempts", x) => k < i
      BY <1>1, <2>1
    <2> QED BY <2>2, <2>3 DEF StampsFirst, Is
  <1> QED BY <1>1, <1>2, <1>3, <1>4

\* What a step may do to the calls of a message that is not its own.
Passes(x) ==
  /\ \A tag \in {"retry", "attempts", "exhausted"} : Has(tag, x)' => Has(tag, x)
  /\ Single("retry", x) => Single("retry", x)'
  /\ Unrecovered(x)' => Unrecovered(x)

RecoveryPasses ==
  /\ pending' = pending
  /\ Has("pending", "all")' => Has("pending", "all")
  /\ Single("pending", "all") => Single("pending", "all")'
  /\ \A x \in Messages : /\ \A tag \in {"attempts", "exhausted"} : Has(tag, x)' => Has(tag, x)
                         /\ Single("attempts", x) => Single("attempts", x)'

LEMMA RecoveryKept ==
  ASSUME RecoversOnce, RecoveryPasses
  PROVE  RecoversOnce'
  BY DEF RecoversOnce, RecoveryPasses

LEMMA PlainPasses ==
  ASSUME calls \in Seq(Asked), calls # <<>>, NEW more, Plain(more), Then(more),
         pending' = pending
  PROVE  /\ calls' \in Seq(Asked) /\ RecoveryPasses
         /\ \A x \in Messages : Passes(x)
         /\ \A x : ~Is(Head(calls), "exec", x) /\ StampsFirst(x) => StampsFirst(x)'
  <1>1. more \in Seq(Asked)
    BY DEF Plain
  <1>2. ASSUME NEW tag \in {"retry", "attempts", "exhausted", "pending"}, NEW x
        PROVE  /\ Has(tag, x)' => Has(tag, x)
               /\ Single(tag, x) => Single(tag, x)'
    <2>1. \A j \in DOMAIN more : ~Is(more[j], tag, x)
      BY <1>2 DEF Plain, Is
    <2> QED BY <1>1, <2>1, TakenPass
  <1>3. RecoveryPasses
    BY <1>2 DEF RecoveryPasses
  <1>4. \A x \in Messages : Passes(x)
    BY <1>2 DEF Passes, Unrecovered
  <1> QED BY <1>1, <1>3, <1>4, Taken, TakenFirst

\* A call of the message joins the queue, or the queue stays.
LEMMA JoinPasses ==
  ASSUME calls \in Seq(Asked), NEW c \in Asked, calls' = Append(calls, c),
         c[1] # "pending", pending' = pending
  PROVE  /\ \A x \in Messages : c[2] # x => Passes(x)
         /\ c[1] \notin {"attempts", "exhausted"} => RecoveryPasses
         /\ c[1] \in {"deliver", "exec", "admit"} => \A x \in Messages : Passes(x)
         /\ \A x : StampsFirst(x) => StampsFirst(x)'
         /\ calls' \in Seq(Asked)
  <1>1. /\ calls' \in Seq(Asked)
        /\ \A tag, x : ~Is(c, tag, x) => /\ Has(tag, x)' => Has(tag, x)
                                         /\ Single(tag, x) => Single(tag, x)'
        /\ \A x : StampsFirst(x) => StampsFirst(x)'
    BY JoinPass
  <1>2. /\ Has("pending", "all")' => Has("pending", "all")
        /\ Single("pending", "all") => Single("pending", "all")'
    BY <1>1 DEF Is
  <1>3. \A x \in Messages : c[2] # x => Passes(x)
    <2>1. \A x \in Messages : c[2] # x => \A tag : ~Is(c, tag, x)
      BY DEF Is
    <2> QED BY <1>1, <1>2, <2>1 DEF Passes, Unrecovered
  <1>4. ASSUME c[1] \notin {"attempts", "exhausted"} PROVE RecoveryPasses
    <2>1. \A x, tag : tag \in {"attempts", "exhausted"} => ~Is(c, tag, x)
      BY <1>4 DEF Is
    <2> QED BY <1>1, <1>2, <2>1 DEF RecoveryPasses
  <1>5. ASSUME c[1] \in {"deliver", "exec", "admit"} PROVE \A x \in Messages : Passes(x)
    <2>1. \A x, tag : tag \in {"retry", "attempts", "exhausted"} => ~Is(c, tag, x)
      BY <1>5 DEF Is
    <2> QED BY <1>1, <1>2, <2>1 DEF Passes, Unrecovered
  <1> QED BY <1>1, <1>3, <1>4, <1>5

LEMMA SameCallsPass ==
  ASSUME UNCHANGED <<calls, pending>>
  PROVE  /\ RecoveryPasses /\ \A x \in Messages : Passes(x)
         /\ \A x : StampsFirst(x) => StampsFirst(x)'
  BY DEF RecoveryPasses, Passes, Unrecovered, Has, Single, StampsFirst, Is

(* What a step leaves alone *)

ExecApart(x) ==
  \/ exec'[x] = exec[x]
  \/ x \in Inbound /\ exec[x].at = "lane" /\ exec'[x].at = "mark"

Apart(x) ==
  /\ row'[x].out = row[x].out /\ row'[x].att = row[x].att
  /\ tail'[x] = tail[x] /\ del'[x] = del[x] /\ (timer'[x] => timer[x])
  /\ sends'[x] = sends[x] /\ (hurt'[x] = "no" => hurt[x] = "no")
  /\ Unanswered(x)' => Unanswered(x)
  /\ exec'[x].at = "stamp" => /\ exec[x].at = "stamp" /\ exec'[x].seen = exec[x].seen
                              /\ StampsFirst(x) => StampsFirst(x)'
  /\ exec'[x].at = "read" => exec[x].at = "read"
  /\ Has("retry", x)' => Has("retry", x)
  /\ Has("attempts", x)' => Has("attempts", x) \/ ~Unanswered(x)'
  /\ Has("exhausted", x)' => Has("exhausted", x)
  /\ Single("retry", x) => Single("retry", x)'
  /\ Unrecovered(x)' => Unrecovered(x)

LEMMA ApartKeeps ==
  ASSUME NEW x, SendSound(x), Apart(x)
  PROVE  SendSound(x)'
  <1>1. AnswerIsNew(x)'
    BY DEF SendSound, AnswerIsNew, Apart, Unasked
  <1>2. AttemptsCounted(x)'
    BY DEF SendSound, AttemptsCounted, Apart
  <1>3. OneAsks(x)'
    BY DEF SendSound, OneAsks, Apart, LastIs
  <1>4. GivenUp(x)'
    BY DEF SendSound, GivenUp, Apart
  <1>5. Budgeted(x)'
    BY DEF SendSound, Budgeted, Apart, Unasked
  <1> QED BY <1>1, <1>2, <1>3, <1>4, <1>5 DEF SendSound

LEMMA Elsewhere ==
  ASSUME NEW x, SendSound(x), Passes(x), ExecApart(x),
         row'[x] = row[x], tail'[x] = tail[x], del'[x] = del[x], timer'[x] => timer[x],
         sends'[x] = sends[x], hurt'[x] = "no" => hurt[x] = "no",
         StampsFirst(x) => StampsFirst(x)'
  PROVE  SendSound(x)'
  <1>1. Apart(x)
    BY DEF Apart, Passes, ExecApart, Unanswered
  <1> QED BY <1>1, ApartKeeps

LEMMA EndedHurt ==
  ASSUME hurt \in [Messages -> {"no", "now", "once"}], NEW end, NEW who, Ended(end, who)
  PROVE  /\ hurt' \in [Messages -> {"no", "now", "once"}]
         /\ \A x \in Messages : hurt'[x] = "no" => hurt[x] = "no" /\ (end = "ok" \/ x \notin who)
  BY DEF Ended

(* Executions *)

LEMMA ExecGone ==
  ASSUME LaneInv, NEW m \in Messages, exec[m].at \notin {"idle", "lane", "done", "deliver"},
         NEW pc, ExecGoes(m, pc)
  PROVE  /\ \A x \in Messages \ {m} : ExecApart(x)
         /\ exec'[m].at = pc /\ exec'[m].seen = exec[m].seen
         /\ \E more : Plain(more) /\ Then(more)
  <1>1. exec = [x \in Messages |-> exec[x]]
        /\ exec[m] = [at |-> exec[m].at, seen |-> exec[m].seen]
    BY DEF LaneInv, Shapes
  <1>2. Plain(<<>>) /\ \A x \in Messages : Plain(<<<<"exec", x>>>>)
    BY DEF Plain, Asked
  <1>3. CASE pc = "done" /\ m \in Inbound /\ Tail(lane[ConvOf[m]]) # <<>>
    <2> DEFINE l == lane[ConvOf[m]]
               n == Head(Tail(l))
    <2>1. l \in Seq(Inbound) /\ l # <<>> /\ Head(l) = m /\ ConvOf[m] \in Conversations
      BY <1>3 DEF LaneInv, Shapes, ExecutesFirst, Messages, Conversations
    <2>2. 2 \in DOMAIN l /\ n = l[2] /\ l[2] \in Inbound
      BY <1>3, <2>1
    <2>3. n \in Inbound /\ exec[n].at = "lane" /\ n # m /\ n \in Messages
      BY <2>1, <2>2 DEF LaneInv, WaitsFresh, Messages
    <2>4. exec' = [exec EXCEPT ![m].at = "done", ![n].at = "mark"] /\ Then(<<<<"exec", n>>>>)
      BY <1>3 DEF ExecGoes
    <2> HIDE DEF n, l
    <2>5. exec' = [[exec EXCEPT ![m] = [exec[m] EXCEPT !.at = "done"]]
                    EXCEPT ![n] = [exec[n] EXCEPT !.at = "mark"]]
      BY <1>1, <2>3, <2>4
    <2>6. /\ [exec[m] EXCEPT !.at = "done"] = [at |-> "done", seen |-> exec[m].seen]
          /\ [exec[n] EXCEPT !.at = "mark"] = [at |-> "mark", seen |-> exec[n].seen]
      <3>1. exec[n] = [at |-> exec[n].at, seen |-> exec[n].seen]
        BY <2>3 DEF LaneInv, Shapes
      <3> QED BY <1>1, <3>1, AtOf
    <2>7. /\ exec'[m] = [at |-> "done", seen |-> exec[m].seen]
          /\ exec'[n] = [at |-> "mark", seen |-> exec[n].seen]
          /\ \A x \in Messages \ {m, n} : exec'[x] = exec[x]
      BY <1>1, <2>3, <2>5, <2>6
    <2>8. exec'[m].at = "done" /\ exec'[m].seen = exec[m].seen /\ exec'[n].at = "mark"
      BY <2>7
    <2> QED BY <1>2, <1>3, <2>3, <2>4, <2>7, <2>8 DEF ExecApart
  <1>4. CASE ~(pc = "done" /\ m \in Inbound /\ Tail(lane[ConvOf[m]]) # <<>>)
    <2>1. /\ exec' = [exec EXCEPT ![m].at = pc]
          /\ Then(IF pc \in {"prompt", "done"} THEN <<>> ELSE <<<<"exec", m>>>>)
      BY <1>4 DEF ExecGoes
    <2>2. exec'[m] = [at |-> pc, seen |-> exec[m].seen]
      <3>1. exec' = [exec EXCEPT ![m] = [exec[m] EXCEPT !.at = pc]]
        BY <2>1
      <3>2. [exec[m] EXCEPT !.at = pc] = [at |-> pc, seen |-> exec[m].seen]
        BY <1>1, AtOf
      <3> QED BY <1>1, <3>1, <3>2
    <2>3. \A x \in Messages \ {m} : exec'[x] = exec[x]
      BY <1>1, <2>1
    <2>4. exec'[m].at = pc /\ exec'[m].seen = exec[m].seen
      BY <2>2
    <2> QED BY <1>2, <2>1, <2>3, <2>4 DEF ExecApart
  <1> QED BY <1>3, <1>4

LEMMA TailItems ==
  ASSUME NEW S, NEW s \in Seq(S), s # <<>>
  PROVE  /\ Tail(s) \in Seq(S) /\ Len(Tail(s)) = Len(s) - 1 /\ Len(s) \in Nat \ {0}
         /\ (Len(Tail(s)) = 0) = (Tail(s) = <<>>)
  <1>1. Tail(s) \in Seq(S) /\ Len(Tail(s)) = Len(s) - 1 /\ Len(s) \in Nat \ {0}
    OBVIOUS
  <1>2. ASSUME NEW t \in Seq(S) PROVE (Len(t) = 0) = (t = <<>>)
    <2>1. t = <<>> => Len(t) = 0
      OBVIOUS
    <2>2. Len(t) = 0 => t = <<>>
      OBVIOUS
    <2> QED BY <2>1, <2>2
  <1> QED BY <1>1, <1>2

LEMMA PlainTwo ==
  ASSUME NEW a, NEW b, Plain(a), Plain(b) PROVE Plain(a \o b)
  <1>1. a \in Seq(Asked) /\ b \in Seq(Asked) /\ a \o b \in Seq(Asked)
    BY DEF Plain
  <1>2. ASSUME NEW j \in DOMAIN (a \o b) PROVE (a \o b)[j][1] \in {"deliver", "exec"}
    <2>1. j \in 1 .. Len(a) + Len(b)
      BY <1>1
    <2>2. CASE j <= Len(a)
      <3>1. j \in DOMAIN a /\ (a \o b)[j] = a[j]
        BY <1>1, <2>1, <2>2
      <3> QED BY <3>1 DEF Plain
    <2>3. CASE ~(j <= Len(a))
      <3>1. j - Len(a) \in DOMAIN b /\ (a \o b)[j] = b[j - Len(a)]
        BY <1>1, <2>1, <2>3
      <3> QED BY <3>1 DEF Plain
    <2> QED BY <2>2, <2>3
  <1> QED BY <1>1, <1>2 DEF Plain

\* The delivery of the message is over: what its caller does next.
LEMMA OverParts ==
  ASSUME Inv, Forms, NEW m \in Messages, tail[m] # <<>>, NEW threw, DeliveryOver(m, threw)
  PROVE  /\ \A x \in Messages \ {m} :
              tail'[x] = tail[x] /\ del'[x] = del[x] /\ exec'[x] = exec[x]
         /\ tail'[m] = Tail(tail[m]) /\ Len(tail'[m]) = Len(tail[m]) - 1 /\ Len(tail[m]) \in Nat \ {0}
         /\ (Len(tail'[m]) = 0) = (tail'[m] = <<>>)
         /\ del'[m] = [at |-> del'[m].at, attempt |-> del'[m].attempt] /\ del'[m].attempt = 0
         /\ del'[m].at = IF tail'[m] = <<>> THEN "idle" ELSE "load"
         /\ exec'[m] = exec[m] \/ exec'[m].at \in {"get", "fail", "done"}
         /\ \E more : Plain(more) /\ Then(more)
  <1> DEFINE rest == Tail(tail[m])
             asked == Head(tail[m]) = "exec"
             back == IF ~asked THEN "idle" ELSE IF ~threw /\ m \in Inbound THEN "get"
                     ELSE IF m \in Inbound THEN "fail" ELSE "done"
             more == (IF asked /\ m \in Inbound THEN <<<<"exec", m>>>> ELSE <<>>) \o Load(m, rest)
  <1>1. /\ tail' = [tail EXCEPT ![m] = rest]
        /\ del' = [del EXCEPT ![m] = IF rest = <<>> THEN NoDelivery
                                     ELSE [NoDelivery EXCEPT !.at = "load"]]
        /\ exec' = IF asked THEN [exec EXCEPT ![m].at = back] ELSE exec
        /\ Then(more)
    BY DEF DeliveryOver
  <1>2. tail[m] \in Seq({"exec", "retry", "recovery"})
        /\ tail \in [Messages -> Seq({"exec", "retry", "recovery"})]
        /\ exec = [x \in Messages |-> exec[x]] /\ del = [x \in Messages |-> del[x]]
        /\ exec[m] = [at |-> exec[m].at, seen |-> exec[m].seen]
    BY DEF Inv, LaneInv, Shapes, DeliveryQueued
  <1>3. /\ rest \in Seq({"exec", "retry", "recovery"}) /\ Len(rest) = Len(tail[m]) - 1
        /\ Len(tail[m]) \in Nat \ {0} /\ (Len(rest) = 0) = (rest = <<>>)
    BY <1>2, TailItems
  <1>4. Plain(more)
    <2>1. <<"exec", m>> \in Asked /\ <<"deliver", m>> \in Asked
      BY DEF Asked
    <2>2. Plain(<<>>) /\ Plain(<<<<"exec", m>>>>) /\ Plain(<<<<"deliver", m>>>>)
      BY <2>1 DEF Plain
    <2>3. Plain(Load(m, rest)) /\ Plain(IF asked /\ m \in Inbound THEN <<<<"exec", m>>>> ELSE <<>>)
      BY <2>2 DEF Load
    <2> QED BY <2>3, PlainTwo
  <1>5. exec'[m] = exec[m] \/ exec'[m].at \in {"get", "fail", "done"}
    <2>1. CASE asked
      <3>1. back \in {"get", "fail", "done"}
        BY <2>1
      <3> HIDE DEF back
      <3>2. exec'[m] = [exec[m] EXCEPT !.at = back]
        BY <1>1, <1>2, <2>1
      <3>3. exec'[m] = [at |-> back, seen |-> exec[m].seen]
        BY <1>2, <3>2, AtOf
      <3> QED BY <3>1, <3>3
    <2>2. CASE ~asked
      BY <1>1, <2>2
    <2> QED BY <2>1, <2>2
  <1>6. \A x \in Messages \ {m} : tail'[x] = tail[x] /\ del'[x] = del[x] /\ exec'[x] = exec[x]
    BY <1>1, <1>2
  <1> HIDE DEF more, asked, back
  <1>7. tail'[m] = rest
    BY <1>1, <1>2
  <1>8. /\ del'[m] = [at |-> del'[m].at, attempt |-> del'[m].attempt] /\ del'[m].attempt = 0
        /\ del'[m].at = IF rest = <<>> THEN "idle" ELSE "load"
    <2>1. CASE rest = <<>>
      BY <1>1, <1>2, <2>1 DEF NoDelivery
    <2>2. CASE rest # <<>>
      BY <1>1, <1>2, <2>2 DEF NoDelivery
    <2> QED BY <2>1, <2>2
  <1> QED BY <1>1, <1>3, <1>4, <1>5, <1>6, <1>7, <1>8

LEMMA OverForms ==
  ASSUME Inv, Inv', Forms, NEW m \in Messages, tail[m] # <<>>, NEW threw, DeliveryOver(m, threw),
         calls # <<>>, timer' \in [Messages -> BOOLEAN],
         hurt' \in [Messages -> {"no", "now", "once"}], sends' \in [Messages -> Nat],
         \A x \in Messages : row'[x].att \in Seq(Statuses)
  PROVE  Forms'
  <1>1. PICK more : Plain(more) /\ Then(more)
    BY OverParts
  <1>2. calls' \in Seq(Asked)
    BY <1>1, Taken DEF Plain, Forms
  <1>0. /\ \A x \in Messages \ {m} : tail'[x] = tail[x] /\ del'[x] = del[x]
        /\ del'[m] = [at |-> del'[m].at, attempt |-> del'[m].attempt] /\ del'[m].attempt = 0
        /\ del'[m].at = IF tail'[m] = <<>> THEN "idle" ELSE "load"
    BY OverParts
  <1>3. ASSUME NEW x \in Messages
        PROVE  /\ del'[x] = [at |-> del'[x].at, attempt |-> del'[x].attempt]
               /\ del'[x].attempt \in Nat /\ (del'[x].at = "idle") = (tail'[x] = <<>>)
    <2>1. CASE x = m
      BY <1>0, <2>1
    <2>2. CASE x # m
      BY <1>0, <2>2 DEF Forms
    <2> QED BY <2>1, <2>2
  <1> QED BY <1>2, <1>3 DEF Forms

\* A delivery that is over: its message keeps its budget if its row does.
LEMMA OverSound ==
  ASSUME Inv, Forms, NEW m \in Messages, tail[m] # <<>>, NEW threw, DeliveryOver(m, threw),
         SendSound(m), Passes(m), exec[m].at # "stamp", ~Unanswered(m),
         ~Unanswered(m)',
         Len(row'[m].att) \in Nat,
         \A i \in DOMAIN row'[m].att : row'[m].att[i] = "retry" => i < MaxAttempts,
         timer'[m] => timer[m] \/ (~Has("exhausted", m) /\ (Unrecovered(m) => LastIs(m, "retry")')),
         hurt'[m] = "no" => /\ sends'[m] <= Len(row'[m].att) /\ sends'[m] <= MaxAttempts
                            /\ row'[m].out \in Final \/ Len(row'[m].att) < MaxAttempts
  PROVE  SendSound(m)'
  <1>0. /\ Len(tail'[m]) = Len(tail[m]) - 1 /\ Len(tail[m]) \in Nat \ {0}
        /\ (Len(tail'[m]) = 0) = (tail'[m] = <<>>)
        /\ del'[m].at = IF tail'[m] = <<>> THEN "idle" ELSE "load"
        /\ exec'[m] = exec[m] \/ exec'[m].at \in {"get", "fail", "done"}
    BY OverParts
  <1>1. AnswerIsNew(m)'
    BY <1>0 DEF AnswerIsNew
  <1>2. del'[m].at \in {"idle", "load"}
    BY <1>0
  <1>3. AttemptsCounted(m)'
    BY <1>2 DEF AttemptsCounted
  <1>4. OneAsks(m)'
    <2>1. SUFFICES ASSUME Unrecovered(m)' PROVE OneAsks(m)'
      BY DEF OneAsks
    <2>2. Unrecovered(m)
      BY <2>1 DEF Passes
    <2>3. tail'[m] = <<>> /\ Len(tail'[m]) = 0 /\ del'[m].at = "idle"
      BY <1>0, <2>2 DEF SendSound, OneAsks
    <2>4. ~timer[m] /\ ~Has("retry", m) /\ ~Has("exhausted", m) /\ Single("retry", m)
          /\ exec[m].at # "read"
      BY <2>2 DEF SendSound, OneAsks
    <2>5. ~Has("retry", m)' /\ ~Has("exhausted", m)' /\ Single("retry", m)'
      BY <2>4 DEF Passes
    <2>6. exec'[m].at # "read"
      BY <1>0, <2>4
    <2>7. timer'[m] => LastIs(m, "retry")'
      BY <2>2, <2>4
    <2> QED BY <2>3, <2>5, <2>6, <2>7 DEF OneAsks, LastIs, Sending
  <1>5. GivenUp(m)'
    <2>1. SUFFICES ASSUME Has("exhausted", m)' PROVE GivenUp(m)'
      BY DEF GivenUp
    <2>2. Has("exhausted", m)
      BY <2>1 DEF Passes
    <2>3. ~timer[m] /\ ~Has("retry", m) /\ exec[m].at # "read" /\ Len(tail[m]) <= 1
      BY <2>2 DEF SendSound, GivenUp
    <2>4. tail'[m] = <<>> /\ Len(tail'[m]) = 0 /\ del'[m].at = "idle" /\ exec'[m].at # "read"
      BY <1>0, <2>3
    <2>5. ~timer'[m] /\ ~Has("retry", m)'
      BY <2>2, <2>3 DEF Passes
    <2> QED BY <2>4, <2>5 DEF GivenUp, Sending
  <1>6. Budgeted(m)'
    <2>1. Len(row'[m].att) < MaxAttempts => ~(Len(row'[m].att) >= MaxAttempts)
      BY ChannelAssumption DEF ChannelAssumption
    <2> QED BY <1>2, <2>1 DEF Budgeted, Sending
  <1> QED BY <1>1, <1>3, <1>4, <1>5, <1>6 DEF SendSound

(* The steps of a delivery *)

LEMMA DeliveryCall ==
  ASSUME Inv, SendInv, NEW m \in Messages, Answers("deliver", m), del[m].at # "idle"
  PROVE  /\ calls # <<>> /\ calls \in Seq(Asked) /\ tail[m] # <<>>
         /\ exec[m].at # "stamp" /\ ~Unanswered(m)
         /\ \A x : ~Is(Head(calls), "exec", x)
  <1>1. tail[m] # <<>> /\ calls \in Seq(Asked)
    BY DEF SendInv, Forms
  <1>2. AnswerIsNew(m)
    BY DEF SendInv, SendSound
  <1> QED BY <1>1, <1>2 DEF AnswerIsNew, Unasked, Answers, Is

\* A delivery goes on: what has to be shown of its message.
LEMMA DeliveryMoves ==
  ASSUME Inv, Inv', SendInv, NEW m \in Messages, del[m].at # "idle",
         calls' \in Seq(Asked), RecoveryPasses, \A x \in Messages : Passes(x),
         \A x : StampsFirst(x) => StampsFirst(x)',
         UNCHANGED <<exec, tail, timer, pending>>,
         NEW pc, pc # "idle", NEW n \in Nat, del'[m] = [at |-> pc, attempt |-> n],
         \A x \in Messages \ {m} : del'[x] = del[x] /\ row'[x] = row[x] /\ sends'[x] = sends[x],
         hurt' \in [Messages -> {"no", "now", "once"}], sends' \in [Messages -> Nat],
         \A x \in Messages : hurt'[x] = "no" => hurt[x] = "no",
         row'[m].att \in Seq(Statuses), row'[m].inb = row[m].inb,
         AttemptsCounted(m)', Budgeted(m)',
         Unrecovered(m) =>
           /\ pc \in {"load", "list", "lease", "sending"} => row'[m].att = <<>> \/ LastIs(m, "retry")'
           /\ pc \in Sending => n >= Len(row'[m].att),
         Has("exhausted", m) => pc \in Sending /\ n >= MaxAttempts
  PROVE  SendInv'
  <1>1. calls \in Seq(Asked) /\ tail[m] # <<>>
    BY DEF SendInv, Forms
  <1>2. /\ calls' \in Seq(Asked) /\ RecoveryPasses /\ \A x \in Messages : Passes(x)
        /\ \A x : StampsFirst(x) => StampsFirst(x)'
    OBVIOUS
  <1>3. RecoversOnce'
    BY <1>2, RecoveryKept DEF SendInv
  <1>4. ASSUME NEW x \in Messages \ {m} PROVE SendSound(x)'
    <2>1. ExecApart(x) /\ SendSound(x) /\ Passes(x)
      BY <1>2 DEF ExecApart, SendInv
    <2> QED BY <1>2, <2>1, Elsewhere
  <1>5. del'[m].at = pc /\ del'[m].attempt = n
    OBVIOUS
  <1>6. Forms'
    <2>1. ASSUME NEW x \in Messages
          PROVE  /\ row'[x].att \in Seq(Statuses)
                 /\ del'[x] = [at |-> del'[x].at, attempt |-> del'[x].attempt]
                 /\ del'[x].attempt \in Nat /\ (del'[x].at = "idle") = (tail'[x] = <<>>)
      <3>1. CASE x = m
        BY <1>1, <1>5, <3>1
      <3>2. CASE x # m
        BY <3>2 DEF SendInv, Forms
      <3> QED BY <3>1, <3>2
    <2> QED BY <1>2, <2>1 DEF SendInv, Forms
  <1>7. SendSound(m)'
    <2>1. SendSound(m) /\ Passes(m)
      BY <1>2 DEF SendInv
    <2>2. ~Unanswered(m) /\ exec[m].at # "stamp"
      BY <1>1, <2>1 DEF SendSound, AnswerIsNew, Unasked
    <2>3. AnswerIsNew(m)'
      BY <2>2 DEF AnswerIsNew, Unanswered
    <2>4. OneAsks(m)'
      <3>1. SUFFICES ASSUME Unrecovered(m)' PROVE OneAsks(m)'
        BY DEF OneAsks
      <3>2. Unrecovered(m)
        BY <2>1, <3>1 DEF Passes
      <3>3. /\ ~Has("exhausted", m) /\ Len(tail[m]) <= 1 /\ Single("retry", m)
            /\ ~timer[m] /\ ~Has("retry", m) /\ exec[m].at # "read"
        BY <1>1, <2>1, <3>2 DEF SendSound, OneAsks
      <3>4. ~Has("exhausted", m)' /\ ~Has("retry", m)' /\ Single("retry", m)'
        BY <2>1, <3>3 DEF Passes
      <3> QED BY <1>5, <3>2, <3>3, <3>4 DEF OneAsks, LastIs
    <2>5. GivenUp(m)'
      <3>1. SUFFICES ASSUME Has("exhausted", m)' PROVE GivenUp(m)'
        BY DEF GivenUp
      <3>2. Has("exhausted", m)
        BY <2>1, <3>1 DEF Passes
      <3>3. ~timer[m] /\ ~Has("retry", m) /\ exec[m].at # "read" /\ Len(tail[m]) <= 1
        BY <2>1, <3>2 DEF SendSound, GivenUp
      <3>4. ~Has("retry", m)'
        BY <2>1, <3>3 DEF Passes
      <3> QED BY <1>5, <3>2, <3>3, <3>4 DEF GivenUp, Sending
    <2> QED BY <2>3, <2>4, <2>5 DEF SendSound
  <1> QED BY <1>3, <1>4, <1>6, <1>7 DEF SendInv

\* A delivery is over: what has to be shown of its message.
LEMMA DeliveryStops ==
  ASSUME Inv, Inv', SendInv, NEW m \in Messages, Answers("deliver", m), del[m].at # "idle",
         NEW threw, DeliveryOver(m, threw), NEW end, Ended(end, {m}), UNCHANGED <<pending, sends>>,
         \A x \in Messages \ {m} : row'[x] = row[x] /\ timer'[x] = timer[x],
         row'[m].inb = row[m].inb, row'[m].att \in Seq(Statuses),
         timer' \in [Messages -> BOOLEAN],
         \A i \in DOMAIN row'[m].att : row'[m].att[i] = "retry" => i < MaxAttempts,
         timer'[m] => timer[m] \/ (~Has("exhausted", m) /\ (Unrecovered(m) => LastIs(m, "retry")')),
         hurt[m] = "no" /\ end = "ok"
           => /\ Len(row[m].att) <= Len(row'[m].att)
              /\ row'[m].out \in Final \/ Len(row'[m].att) < MaxAttempts
  PROVE  SendInv'
  <1>1. /\ calls # <<>> /\ calls \in Seq(Asked) /\ tail[m] # <<>>
        /\ exec[m].at # "stamp" /\ ~Unanswered(m)
        /\ \A x : ~Is(Head(calls), "exec", x)
    BY DeliveryCall
  <1>2. /\ \A x \in Messages \ {m} :
             tail'[x] = tail[x] /\ del'[x] = del[x] /\ exec'[x] = exec[x]
        /\ exec'[m] = exec[m] \/ exec'[m].at \in {"get", "fail", "done"}
        /\ \E more : Plain(more) /\ Then(more)
    BY <1>1, OverParts DEF SendInv
  <1>3. PICK more : Plain(more) /\ Then(more)
    BY <1>2
  <1>4. /\ calls' \in Seq(Asked) /\ RecoveryPasses /\ \A x \in Messages : Passes(x)
        /\ \A x : StampsFirst(x) => StampsFirst(x)'
    BY <1>1, <1>3, PlainPasses
  <1>5. RecoversOnce'
    BY <1>4, RecoveryKept DEF SendInv
  <1>6. /\ hurt' \in [Messages -> {"no", "now", "once"}]
        /\ \A x \in Messages : hurt'[x] = "no" => hurt[x] = "no" /\ (end = "ok" \/ x # m)
    BY EndedHurt DEF SendInv, Forms
  <1>7. ASSUME NEW x \in Messages \ {m} PROVE SendSound(x)'
    <2>1. ExecApart(x) /\ SendSound(x) /\ Passes(x)
      BY <1>2, <1>4 DEF ExecApart, SendInv
    <2> QED BY <1>2, <1>4, <1>6, <2>1, Elsewhere
  <1>8. Forms'
    <2>1. \A x \in Messages : row'[x].att \in Seq(Statuses)
      BY DEF SendInv, Forms
    <2>2. sends' \in [Messages -> Nat]
      BY DEF SendInv, Forms
    <2> QED BY <1>1, <1>6, <2>1, <2>2, OverForms DEF SendInv
  <1>9. SendSound(m)'
    <2>1. ~Unanswered(m)'
      BY <1>1, <1>2 DEF Unanswered
    <2>2. SendSound(m) /\ Passes(m) /\ Forms /\ sends[m] \in Nat /\ Len(row[m].att) \in Nat
          /\ Len(row'[m].att) \in Nat /\ MaxAttempts \in Nat
      BY <1>4, ChannelAssumption DEF SendInv, Forms, ChannelAssumption
    <2>3. hurt'[m] = "no" => /\ sends'[m] <= Len(row'[m].att) /\ sends'[m] <= MaxAttempts
                             /\ row'[m].out \in Final \/ Len(row'[m].att) < MaxAttempts
      BY <1>6, <2>2 DEF SendSound, Budgeted
    <2> QED BY <1>1, <2>1, <2>2, <2>3, OverSound
  <1> QED BY <1>5, <1>7, <1>8, <1>9 DEF SendInv

\* A sequence with one item appended or overwritten.
LEMMA Written ==
  ASSUME NEW S, NEW a \in Seq(S), NEW n \in Nat \ {0}, NEW s \in S, NEW b,
         b = IF n > Len(a) THEN Append(a, s) ELSE [a EXCEPT ![n] = s]
  PROVE  /\ b \in Seq(S) /\ Len(b) > 0 /\ Len(b) \in Nat /\ DOMAIN b = 1 .. Len(b)
         /\ Len(a) \in Nat /\ DOMAIN a = 1 .. Len(a)
         /\ n > Len(a) => Len(b) = Len(a) + 1
         /\ n <= Len(a) => Len(b) = Len(a)
         /\ n >= Len(a) => b[Len(b)] = s
         /\ \A i \in 1 .. Len(b) :
              \/ b[i] = s /\ i <= n
              \/ i \in 1 .. Len(a) /\ b[i] = a[i]
  <1>1. Len(a) \in Nat /\ DOMAIN a = 1 .. Len(a)
    OBVIOUS
  <1>2. CASE n > Len(a)
    <2>1. b = Append(a, s)
      BY <1>2
    <2>2. b \in Seq(S) /\ Len(b) = Len(a) + 1 /\ b[Len(a) + 1] = s
      BY <2>1
    <2>3. \A i \in 1 .. Len(a) : b[i] = a[i]
      BY <2>1
    <2>4. DOMAIN b = 1 .. Len(b)
      BY <2>2
    <2> DEFINE k == Len(a)
               l == Len(b)
    <2>5. k \in Nat /\ l = k + 1 /\ n > k /\ b[l] = s /\ \A i \in 1 .. k : b[i] = a[i]
      BY <1>1, <1>2, <2>2, <2>3
    <2> HIDE DEF k, l
    <2>6. ASSUME NEW i \in 1 .. l PROVE (b[i] = s /\ i <= n) \/ (i \in 1 .. k /\ b[i] = a[i])
      <3>1. CASE i = l
        <4>1. l \in Nat /\ l <= n
          BY <2>5
        <4> QED BY <2>5, <3>1, <4>1
      <3>2. CASE i # l
        <4>1. i \in 1 .. k
          BY <2>5, <3>2
        <4> QED BY <2>5, <4>1
      <3> QED BY <3>1, <3>2
    <2>7. l \in Nat /\ l > 0 /\ ~(n <= k)
      BY <2>5
    <2> QED BY <1>1, <2>2, <2>4, <2>5, <2>6, <2>7 DEF k, l
  <1>3. CASE ~(n > Len(a))
    <2>1. b = [a EXCEPT ![n] = s] /\ n \in 1 .. Len(a)
      BY <1>1, <1>3
    <2>2. b \in Seq(S) /\ Len(b) = Len(a)
      BY <2>1
    <2>3. b[n] = s /\ \A i \in 1 .. Len(a) : i # n => b[i] = a[i]
      BY <1>1, <2>1
    <2>4. DOMAIN b = 1 .. Len(b)
      BY <2>2
    <2> DEFINE k == Len(a)
               l == Len(b)
    <2>5. k \in Nat /\ l = k /\ n \in 1 .. k /\ b[n] = s /\ \A i \in 1 .. k : i # n => b[i] = a[i]
      BY <1>1, <2>1, <2>2, <2>3
    <2> HIDE DEF k, l
    <2>6. ASSUME NEW i \in 1 .. l PROVE (b[i] = s /\ i <= n) \/ (i \in 1 .. k /\ b[i] = a[i])
      <3>1. CASE i = n
        <4>1. i <= n
          BY <2>5, <3>1
        <4> QED BY <2>5, <3>1, <4>1
      <3>2. CASE i # n
        <4>1. i \in 1 .. k
          BY <2>5, <3>2
        <4> QED BY <2>5, <3>2, <4>1
      <3> QED BY <3>1, <3>2
    <2>7. l \in Nat /\ l > 0 /\ ~(n > k) /\ (n >= k => n = l)
      BY <2>5
    <2>8. n >= k => b[l] = s
      BY <2>5, <2>7
    <2> QED BY <1>1, <2>2, <2>4, <2>5, <2>6, <2>7, <2>8 DEF k, l
  <1> QED BY <1>2, <1>3

\* recordChannelDeliveryAttempt: the attempts grow by one at most.
LEMMA RecordedAttempt ==
  ASSUME Inv, SendInv, NEW m \in Messages, NEW n \in Nat \ {0}, NEW status \in Statuses,
         NEW end, Applied(end, Recorded(m, n, status)),
         \A i \in DOMAIN row[m].att : row[m].att[i] = "retry" => i < MaxAttempts,
         status = "retry" => n < MaxAttempts
  PROVE  /\ \A x \in Messages \ {m} : row'[x] = row[x]
         /\ row'[m].inb = row[m].inb /\ row'[m].att \in Seq(Statuses)
         /\ Len(row'[m].att) \in Nat /\ Len(row[m].att) \in Nat
         /\ end = "refused" => row' = row
         /\ end # "refused" =>
              /\ row'[m].out = MessageStatus(status)
              /\ n > Len(row[m].att) => Len(row'[m].att) = Len(row[m].att) + 1
              /\ n <= Len(row[m].att) => Len(row'[m].att) = Len(row[m].att)
              /\ n >= Len(row[m].att)
                   => row'[m].att # <<>> /\ row'[m].att[Len(row'[m].att)] = status
         /\ \A i \in DOMAIN row'[m].att : row'[m].att[i] = "retry" => i < MaxAttempts
  <1> DEFINE a == row[m].att
             b == IF n > Len(a) THEN Append(a, status) ELSE [a EXCEPT ![n] = status]
  <1>1. a \in Seq(Statuses) /\ MaxAttempts \in Nat
    BY ChannelAssumption DEF SendInv, Forms, ChannelAssumption
  <1>4. /\ \A i \in DOMAIN a : a[i] = "retry" => i < MaxAttempts
        /\ status = "retry" => n < MaxAttempts
    OBVIOUS
  <1>2. CASE end = "refused"
    <2>1. row' = row
      BY <1>2 DEF Applied
    <2>2. Len(row[m].att) \in Nat
      BY <1>1
    <2> QED BY <1>1, <1>2, <2>1, <2>2
  <1>3. CASE end # "refused"
    <2>1. row' = [row EXCEPT ![m] = [inb |-> row[m].inb, out |-> MessageStatus(status), att |-> b]]
      BY <1>3 DEF Applied, Recorded, Inv, LaneInv, Shapes
    <2>2. row'[m] = [inb |-> row[m].inb, out |-> MessageStatus(status), att |-> b]
          /\ \A x \in Messages \ {m} : row'[x] = row[x]
      BY <2>1 DEF Inv, LaneInv, Shapes
    <2>3. row'[m].inb = row[m].inb /\ row'[m].out = MessageStatus(status) /\ row'[m].att = b
      BY <2>2
    <2> HIDE DEF a
    <2>4. /\ b \in Seq(Statuses) /\ Len(b) > 0 /\ Len(b) \in Nat /\ DOMAIN b = 1 .. Len(b)
          /\ Len(a) \in Nat /\ DOMAIN a = 1 .. Len(a)
          /\ n > Len(a) => Len(b) = Len(a) + 1
          /\ n <= Len(a) => Len(b) = Len(a)
          /\ n >= Len(a) => b[Len(b)] = status
          /\ \A i \in 1 .. Len(b) :
               \/ b[i] = status /\ i <= n
               \/ i \in 1 .. Len(a) /\ b[i] = a[i]
      BY <1>1, Written
    <2> HIDE DEF b
    <2>5. b # <<>>
      <3>1. Len(<<>>) = 0 /\ ~(0 > 0)
        OBVIOUS
      <3> QED BY <2>4, <3>1
    <2>6. ASSUME NEW i \in DOMAIN b, b[i] = "retry" PROVE i < MaxAttempts
      <3>1. i \in Nat /\ \/ status = "retry" /\ i <= n
                         \/ i \in DOMAIN a /\ a[i] = "retry"
        <4>1. i \in 1 .. Len(b)
          BY <2>4
        <4>2. \/ b[i] = status /\ i <= n
              \/ i \in DOMAIN a /\ b[i] = a[i]
          BY <2>4, <4>1
        <4>3. i \in Nat
          BY <4>1
        <4> QED BY <2>6, <4>2, <4>3
      <3>2. CASE status = "retry" /\ i <= n
        <4>1. n < MaxAttempts
          BY <1>4, <3>2
        <4> QED BY <1>1, <3>1, <3>2, <4>1
      <3>3. CASE i \in DOMAIN a /\ a[i] = "retry"
        BY <1>4, <3>3
      <3> QED BY <3>1, <3>2, <3>3
    <2> QED BY <1>1, <1>3, <2>2, <2>3, <2>4, <2>5, <2>6 DEF a
  <1> QED BY <1>2, <1>3

\* DeliverGoes as a move.
LEMMA GoesParts ==
  ASSUME Inv, SendInv, NEW m \in Messages, NEW pc, DeliverGoes(m, pc)
  PROVE  /\ del'[m] = [at |-> pc, attempt |-> del[m].attempt]
         /\ \A x \in Messages \ {m} : del'[x] = del[x]
         /\ UNCHANGED <<tail, exec>>
         /\ \E more : Plain(more) /\ Then(more)
  <1>1. del' = [del EXCEPT ![m].at = pc] /\ UNCHANGED <<tail, exec>>
        /\ Then(IF pc = "send" THEN <<>> ELSE <<<<"deliver", m>>>>)
    BY DEF DeliverGoes
  <1>2. del = [x \in Messages |-> del[x]] /\ del[m] = [at |-> del[m].at, attempt |-> del[m].attempt]
    BY DEF Inv, DeliveryQueued, SendInv, Forms
  <1>3. Plain(<<>>) /\ Plain(<<<<"deliver", m>>>>)
    BY DEF Plain, Asked
  <1>4. del'[m] = [at |-> pc, attempt |-> del[m].attempt]
    <2> DEFINE a == del[m].at
               n == del[m].attempt
    <2>1. del[m] = [at |-> a, attempt |-> n]
      BY <1>2
    <2> HIDE DEF a, n
    <2>2. [del[m] EXCEPT !.at = pc] = [at |-> pc, attempt |-> n]
      BY <2>1
    <2>3. del'[m] = [del[m] EXCEPT !.at = pc]
      BY <1>1, <1>2
    <2> QED BY <2>2, <2>3 DEF n
  <1> QED BY <1>1, <1>2, <1>3, <1>4

\* A delivery that goes on without touching the rows.
LEMMA DeliveryReads ==
  ASSUME Inv, Inv', SendInv, NEW m \in Messages, Answers("deliver", m), del[m].at # "idle",
         NEW pc \in {"list", "lease", "sending", "catch"}, NEW n \in Nat,
         del'[m] = [at |-> pc, attempt |-> n],
         \A x \in Messages \ {m} : del'[x] = del[x], UNCHANGED <<tail, exec>>,
         \E more : Plain(more) /\ Then(more),
         NEW end, Ended(end, {m}), UNCHANGED <<row, timer, pending, sends>>,
         del[m].at \in {"load", "list", "lease", "sending"}, row[m].out \notin Final,
         pc \in {"lease", "sending", "catch"} => n = Len(row[m].att) + 1
  PROVE  SendInv'
  <1>1. /\ calls # <<>> /\ calls \in Seq(Asked) /\ tail[m] # <<>>
        /\ exec[m].at # "stamp" /\ ~Unanswered(m)
        /\ \A x : ~Is(Head(calls), "exec", x)
    BY DeliveryCall
  <1>2. /\ hurt' \in [Messages -> {"no", "now", "once"}]
        /\ \A x \in Messages : hurt'[x] = "no" => hurt[x] = "no" /\ (end = "ok" \/ x # m)
    BY EndedHurt DEF SendInv, Forms
  <1>3. SendSound(m) /\ Len(row[m].att) \in Nat /\ MaxAttempts \in Nat \ {0}
    BY ChannelAssumption DEF SendInv, Forms, ChannelAssumption
  <1>4. del'[m].at = pc /\ del'[m].attempt = n
    OBVIOUS
  <1>5. AttemptsCounted(m)'
    BY <1>3, <1>4 DEF SendSound, AttemptsCounted
  <1>6. ~Has("exhausted", m)
    BY <1>3 DEF SendSound, GivenUp, Sending
  <1>7. Budgeted(m)'
    <2>1. SUFFICES ASSUME hurt'[m] = "no" PROVE Budgeted(m)'
      BY DEF Budgeted
    <2>2. /\ sends[m] <= Len(row[m].att) /\ sends[m] <= MaxAttempts
          /\ ~(Len(row[m].att) >= MaxAttempts)
      BY <1>1, <1>2, <1>3, <2>1 DEF SendSound, Budgeted, Unasked, Sending
    <2> QED BY <2>2 DEF Budgeted
  <1>8. Unrecovered(m) =>
          /\ pc \in {"load", "list", "lease", "sending"} => row'[m].att = <<>> \/ LastIs(m, "retry")'
          /\ pc \in Sending => n >= Len(row'[m].att)
    <2>1. Unrecovered(m) => row[m].att = <<>> \/ LastIs(m, "retry")
      BY <1>3 DEF SendSound, OneAsks
    <2> QED BY <1>3, <2>1 DEF LastIs, Sending
  <1>9. PICK more : Plain(more) /\ Then(more)
    OBVIOUS
  <1>11. /\ calls' \in Seq(Asked) /\ RecoveryPasses /\ \A x \in Messages : Passes(x)
         /\ \A x : StampsFirst(x) => StampsFirst(x)'
    BY <1>1, <1>9, PlainPasses
  <1>10. sends' \in [Messages -> Nat] /\ row'[m].att \in Seq(Statuses) /\ row'[m].inb = row[m].inb
    BY DEF SendInv, Forms
  <1> QED
    BY <1>1, <1>2, <1>5, <1>6, <1>7, <1>8, <1>10, <1>11, DeliveryMoves
-----------------------------------------------------------------------------
(* The actions *)

LEMMA GoesPass ==
  ASSUME SendInv, calls # <<>>, \A x : ~Is(Head(calls), "exec", x),
         \E more : Plain(more) /\ Then(more), pending' = pending
  PROVE  /\ calls' \in Seq(Asked) /\ RecoveryPasses /\ \A x \in Messages : Passes(x)
         /\ \A x : StampsFirst(x) => StampsFirst(x)'
  <1>1. calls \in Seq(Asked)
    BY DEF SendInv, Forms
  <1> QED BY <1>1, PlainPasses

LEMMA FormsOf ==
  ASSUME SendInv, NEW m \in Messages
  PROVE  /\ SendSound(m) /\ RecoversOnce
         /\ calls \in Seq(Asked) /\ timer \in [Messages -> BOOLEAN]
         /\ hurt \in [Messages -> {"no", "now", "once"}] /\ sends \in [Messages -> Nat]
         /\ row[m].att \in Seq(Statuses) /\ Len(row[m].att) \in Nat
         /\ del[m] = [at |-> del[m].at, attempt |-> del[m].attempt] /\ del[m].attempt \in Nat
         /\ (del[m].at = "idle") = (tail[m] = <<>>)
         /\ MaxAttempts \in Nat \ {0} /\ sends[m] \in Nat
  <1>1. calls \in Seq(Asked) /\ timer \in [Messages -> BOOLEAN] /\ row[m].att \in Seq(Statuses)
    BY DEF SendInv, Forms
  <1>2. hurt \in [Messages -> {"no", "now", "once"}] /\ sends \in [Messages -> Nat]
    BY DEF SendInv, Forms
  <1>3. /\ del[m] = [at |-> del[m].at, attempt |-> del[m].attempt] /\ del[m].attempt \in Nat
        /\ (del[m].at = "idle") = (tail[m] = <<>>)
    BY DEF SendInv, Forms
  <1>4. SendSound(m) /\ RecoversOnce
    BY DEF SendInv
  <1>5. Len(row[m].att) \in Nat
    BY <1>1
  <1>6. MaxAttempts \in Nat \ {0} /\ sends[m] \in Nat
    BY <1>2, ChannelAssumption DEF ChannelAssumption
  <1> QED BY <1>1, <1>2, <1>3, <1>4, <1>5, <1>6

\* A delivery ends and leaves the row of its message.
LEMMA DeliveryDrops ==
  ASSUME Inv, Inv', SendInv, NEW m \in Messages, Answers("deliver", m),
         del[m].at \in {"load", "list", "lease", "sending"},
         NEW threw, DeliveryOver(m, threw), NEW end, Ended(end, {m}),
         UNCHANGED <<row, timer, pending, sends>>,
         end = "ok" => row[m].out \in Final
  PROVE  SendInv'
  <1>1. /\ SendSound(m) /\ row[m].att \in Seq(Statuses) /\ timer \in [Messages -> BOOLEAN]
        /\ Len(row[m].att) \in Nat
    BY FormsOf
  <1>2. \A i \in DOMAIN row'[m].att : row'[m].att[i] = "retry" => i < MaxAttempts
    BY <1>1 DEF SendSound, AttemptsCounted
  <1>3. hurt[m] = "no" /\ end = "ok"
          => /\ Len(row[m].att) <= Len(row'[m].att)
             /\ row'[m].out \in Final \/ Len(row'[m].att) < MaxAttempts
    BY <1>1
  <1> QED BY <1>1, <1>2, <1>3, DeliveryStops

LEMMA LoadBudget ==
  ASSUME Inv, Inv', SendInv, NEW m \in Messages, NEW end, DeliverLoad(m, end)
  PROVE  SendInv'
  <1>1. /\ Answers("deliver", m) /\ del[m].at = "load" /\ Ended(end, {m})
        /\ UNCHANGED <<row, timer, pending, sends>>
    BY DEF DeliverLoad, Delivering, DeliverRest
  <1>2. SendSound(m) /\ del[m].attempt \in Nat /\ tail[m] # <<>> /\ Len(row[m].att) \in Nat
        /\ row[m].att \in Seq(Statuses) /\ timer \in [Messages -> BOOLEAN] /\ MaxAttempts \in Nat
    BY <1>1, FormsOf
  <1>3. CASE end # "ok" \/ proc = "stopped" \/ row[m].out \in Final
    <2>1. PICK threw : DeliveryOver(m, threw)
      BY <1>3 DEF DeliverLoad
    <2>2. \A i \in DOMAIN row'[m].att : row'[m].att[i] = "retry" => i < MaxAttempts
      BY <1>1, <1>2 DEF SendSound, AttemptsCounted
    <2>3. hurt[m] = "no" => row[m].out \in Final \/ ~(Len(row[m].att) >= MaxAttempts)
      BY <1>1, <1>2 DEF SendSound, Budgeted, Unasked, Sending
    <2>4. hurt[m] = "no" /\ end = "ok"
            => /\ Len(row[m].att) <= Len(row'[m].att)
               /\ row'[m].out \in Final \/ Len(row'[m].att) < MaxAttempts
      BY <1>1, <1>2, <2>3
    <2> QED BY <1>1, <1>2, <2>1, <2>2, <2>4, DeliveryStops
  <1>4. CASE ~(end # "ok" \/ proc = "stopped" \/ row[m].out \in Final)
    <2>1. DeliverGoes(m, "list")
      BY <1>4 DEF DeliverLoad
    <2> QED BY <1>1, <1>2, <1>4, <2>1, GoesParts, DeliveryReads
  <1> QED BY <1>3, <1>4

LEMMA ListBudget ==
  ASSUME Inv, Inv', SendInv, NEW m \in Messages, NEW end, DeliverList(m, end)
  PROVE  SendInv'
  <1>1. /\ Answers("deliver", m) /\ del[m].at = "list" /\ Ended(end, {m})
        /\ UNCHANGED <<row, timer, pending, sends>>
    BY DEF DeliverList, Delivering, DeliverRest
  <1>2. SendSound(m) /\ Len(row[m].att) \in Nat
    BY DEF SendInv, Forms
  <1>3. CASE end # "ok"
    <2>1. DeliveryOver(m, TRUE)
      BY <1>3 DEF DeliverList
    <2> QED BY <1>1, <1>3, <2>1, DeliveryDrops
  <1>4. CASE end = "ok"
    <2>1. /\ del' = [del EXCEPT ![m] = [at |-> "lease", attempt |-> Len(row[m].att) + 1]]
          /\ Then(<<<<"deliver", m>>>>) /\ UNCHANGED <<tail, exec>>
      BY <1>4 DEF DeliverList
    <2>2. /\ del'[m] = [at |-> "lease", attempt |-> Len(row[m].att) + 1]
          /\ \A x \in Messages \ {m} : del'[x] = del[x]
      BY <2>1 DEF Inv, DeliveryQueued
    <2>3. Plain(<<<<"deliver", m>>>>)
      BY DEF Plain, Asked
    <2>4. row[m].out \notin Final
      BY <1>1, <1>2 DEF SendSound, AttemptsCounted
    <2>5. Len(row[m].att) + 1 \in Nat
      BY <1>2
    <2> QED BY <1>1, <1>2, <2>1, <2>2, <2>3, <2>4, <2>5, DeliveryReads
  <1> QED BY <1>3, <1>4

LEMMA LeaseBudget ==
  ASSUME Inv, Inv', SendInv, NEW m \in Messages, NEW end, DeliverLease(m, end)
  PROVE  SendInv'
  <1>1. /\ Answers("deliver", m) /\ del[m].at = "lease" /\ Ended(end, {m})
        /\ UNCHANGED <<row, timer, pending, sends>>
    BY DEF DeliverLease, Delivering, DeliverRest
  <1>2. SendSound(m) /\ del[m].attempt \in Nat
    BY DEF SendInv, Forms
  <1>3. CASE end # "ok"
    <2>1. DeliveryOver(m, TRUE)
      BY <1>3 DEF DeliverLease
    <2> QED BY <1>1, <1>3, <2>1, DeliveryDrops
  <1>4. CASE end = "ok"
    <2>1. PICK pc \in {"sending", "catch"} : DeliverGoes(m, pc)
      BY <1>4 DEF DeliverLease, Refusal
    <2>2. row[m].out \notin Final /\ del[m].attempt = Len(row[m].att) + 1
      BY <1>1, <1>2 DEF SendSound, AttemptsCounted
    <2> QED BY <1>1, <1>2, <2>1, <2>2, GoesParts, DeliveryReads
  <1> QED BY <1>3, <1>4

LEMMA SendingBudget ==
  ASSUME Inv, Inv', SendInv, NEW m \in Messages, NEW end, DeliverSending(m, end)
  PROVE  SendInv'
  <1> DEFINE n == del[m].attempt
             pc == IF end = "ok" THEN "send" ELSE "catch"
  <1>1. /\ Answers("deliver", m) /\ del[m].at = "sending" /\ Ended(end, {m})
        /\ UNCHANGED <<timer, pending>> /\ Applied(end, Recorded(m, n, "sending"))
        /\ DeliverGoes(m, pc)
        /\ sends' = IF end = "ok" THEN [sends EXCEPT ![m] = @ + 1] ELSE sends
    BY DEF DeliverSending, Delivering, DeliverRest
  <1>2. /\ SendSound(m) /\ Len(row[m].att) \in Nat /\ sends \in [Messages -> Nat]
        /\ MaxAttempts \in Nat \ {0}
    BY ChannelAssumption DEF SendInv, Forms, ChannelAssumption
  <1>3. n = Len(row[m].att) + 1 /\ n \in Nat \ {0} /\ row[m].out \notin Final
    <2>1. n = Len(row[m].att) + 1 /\ row[m].out \notin Final
      BY <1>1, <1>2 DEF SendSound, AttemptsCounted
    <2> HIDE DEF n
    <2> QED BY <1>2, <2>1
  <1>4. /\ calls # <<>> /\ tail[m] # <<>> /\ \A x : ~Is(Head(calls), "exec", x)
    BY <1>1, DeliveryCall
  <1>5. /\ del'[m] = [at |-> pc, attempt |-> n] /\ \A x \in Messages \ {m} : del'[x] = del[x]
        /\ UNCHANGED <<tail, exec>> /\ \E more : Plain(more) /\ Then(more)
    BY <1>1, GoesParts
  <1>6. /\ calls' \in Seq(Asked) /\ RecoveryPasses /\ \A x \in Messages : Passes(x)
        /\ \A x : StampsFirst(x) => StampsFirst(x)'
    BY <1>1, <1>4, <1>5, GoesPass
  <1>7. /\ \A x \in Messages \ {m} : row'[x] = row[x]
        /\ row'[m].inb = row[m].inb /\ row'[m].att \in Seq(Statuses)
        /\ Len(row'[m].att) \in Nat
        /\ end = "refused" => row' = row
        /\ end # "refused" => /\ row'[m].out = "pending-delivery"
                              /\ Len(row'[m].att) = Len(row[m].att) + 1
        /\ \A i \in DOMAIN row'[m].att : row'[m].att[i] = "retry" => i < MaxAttempts
    <2>1. "sending" \in Statuses /\ MessageStatus("sending") = "pending-delivery"
      BY DEF Statuses, MessageStatus
    <2>2. \A i \in DOMAIN row[m].att : row[m].att[i] = "retry" => i < MaxAttempts
      BY <1>2 DEF SendSound, AttemptsCounted
    <2>3. n > Len(row[m].att)
      BY <1>2, <1>3
    <2> HIDE DEF n
    <2> QED BY <1>1, <1>3, <2>1, <2>2, <2>3, RecordedAttempt
  <1>8. /\ hurt' \in [Messages -> {"no", "now", "once"}]
        /\ \A x \in Messages : hurt'[x] = "no" => hurt[x] = "no" /\ (end = "ok" \/ x # m)
    BY <1>1, EndedHurt DEF SendInv, Forms
  <1> HIDE DEF n
  <1>9. AttemptsCounted(m)'
    <2>1. del'[m].at = pc /\ del'[m].attempt = n
      BY <1>5
    <2>2. CASE end = "ok"
      <3>1. n \in 1 .. Len(row'[m].att) /\ pc = "send"
        BY <1>2, <1>3, <1>7, <2>2
      <3> QED BY <1>7, <2>1, <3>1 DEF AttemptsCounted
    <2>3. CASE end # "ok"
      <3>1. n \in 1 .. Len(row'[m].att) + 1 /\ pc = "catch"
        BY <1>2, <1>3, <1>7, <2>3
      <3> QED BY <1>7, <2>1, <3>1 DEF AttemptsCounted
    <2> QED BY <2>2, <2>3
  <1>10. Budgeted(m)'
    <2>1. SUFFICES ASSUME hurt'[m] = "no" PROVE Budgeted(m)'
      BY DEF Budgeted
    <2>2. /\ sends[m] <= Len(row[m].att) /\ ~(Len(row[m].att) >= MaxAttempts) /\ end = "ok"
      BY <1>1, <1>2, <1>3, <1>4, <1>8, <2>1 DEF SendSound, Budgeted, Unasked, Sending
    <2>3. sends'[m] = sends[m] + 1 /\ sends[m] \in Nat
      BY <1>1, <1>2, <2>2
    <2>4. sends'[m] <= Len(row'[m].att) /\ sends'[m] <= MaxAttempts
      BY <1>2, <1>7, <2>2, <2>3
    <2>5. del'[m].at = "send" /\ del'[m].attempt = n /\ n = Len(row'[m].att)
      BY <1>3, <1>5, <1>7, <2>2
    <2>6. row'[m].out \notin Final
      BY <1>7, <2>2 DEF Final
    <2> QED BY <2>4, <2>5, <2>6 DEF Budgeted, Sending
  <1>11. n >= Len(row'[m].att)
    BY <1>2, <1>3, <1>7
  <1>12. ~Has("exhausted", m)
    BY <1>1, <1>2 DEF SendSound, GivenUp
  <1>13. sends' \in [Messages -> Nat] /\ \A x \in Messages \ {m} : sends'[x] = sends[x]
    BY <1>1, <1>2
  <1>14. pc \in Sending /\ pc \notin {"idle", "load", "list", "lease", "sending"} /\ n \in Nat
    BY <1>3 DEF Sending
  <1> HIDE DEF pc
  <1>15. /\ Unrecovered(m) =>
              /\ pc \in {"load", "list", "lease", "sending"} => row'[m].att = <<>> \/ LastIs(m, "retry")'
              /\ pc \in Sending => n >= Len(row'[m].att)
         /\ Has("exhausted", m) => pc \in Sending /\ n >= MaxAttempts
         /\ del[m].at # "idle" /\ pc # "idle"
    BY <1>1, <1>11, <1>12, <1>14
  <1>16. /\ UNCHANGED <<exec, tail, timer, pending>> /\ n \in Nat
         /\ del'[m] = [at |-> pc, attempt |-> n]
         /\ \A x \in Messages \ {m} : del'[x] = del[x] /\ row'[x] = row[x] /\ sends'[x] = sends[x]
         /\ \A x \in Messages : hurt'[x] = "no" => hurt[x] = "no"
    BY <1>1, <1>5, <1>7, <1>8, <1>13, <1>14
  <1>17. /\ hurt' \in [Messages -> {"no", "now", "once"}] /\ sends' \in [Messages -> Nat]
         /\ row'[m].att \in Seq(Statuses) /\ row'[m].inb = row[m].inb
    BY <1>7, <1>8, <1>13
  <1> QED
    BY <1>6, <1>9, <1>10, <1>15, <1>16, <1>17, DeliveryMoves, ZenonT(60)
LEMMA SendBudgetStep ==
  ASSUME Inv, Inv', SendInv, NEW m \in Messages, DeliverSend(m)
  PROVE  SendInv'
  <1> DEFINE n == del[m].attempt
  <1>1. PICK pc \in {"sent", "catch"} : del' = [del EXCEPT ![m].at = pc]
    BY DEF DeliverSend, Refusal
  <1>2. /\ del[m].at = "send" /\ calls' = Append(calls, <<"deliver", m>>)
        /\ UNCHANGED <<pending, row, exec, tail, timer, hurt, sends>>
    BY DEF DeliverSend, DeliverRest
  <1>3. SendSound(m) /\ calls \in Seq(Asked) /\ tail[m] # <<>> /\ n \in Nat
        /\ Len(row[m].att) \in Nat
    BY <1>2, FormsOf
  <1>4. /\ calls' \in Seq(Asked) /\ RecoveryPasses /\ \A x \in Messages : Passes(x)
        /\ \A x : StampsFirst(x) => StampsFirst(x)'
    <2>1. <<"deliver", m>> \in Asked
      BY DEF Asked
    <2> DEFINE c == <<"deliver", m>>
    <2>2. c[1] = "deliver" /\ c \in Asked /\ calls' = Append(calls, c)
      BY <1>2, <2>1
    <2> HIDE DEF c
    <2> QED BY <1>2, <1>3, <2>2, JoinPasses
  <1>5. del'[m] = [at |-> pc, attempt |-> n] /\ \A x \in Messages \ {m} : del'[x] = del[x]
    <2>1. del = [x \in Messages |-> del[x]] /\ del[m] = [at |-> del[m].at, attempt |-> n]
      BY FormsOf DEF Inv, DeliveryQueued
    <2> HIDE DEF n
    <2>2. [del[m] EXCEPT !.at = pc] = [at |-> pc, attempt |-> n]
      BY <2>1
    <2>3. del'[m] = [del[m] EXCEPT !.at = pc]
      BY <1>1, <2>1
    <2> QED BY <1>1, <2>1, <2>2, <2>3
  <1>6. del'[m].at = pc /\ del'[m].attempt = n
    BY <1>5
  <1>7. pc \in Sending /\ pc \notin {"idle", "load", "list", "lease", "sending"}
    BY DEF Sending
  <1>8. AttemptsCounted(m)'
    <2>1. n \in 1 .. Len(row[m].att)
      BY <1>2, <1>3 DEF SendSound, AttemptsCounted
    <2>2. n \in 1 .. Len(row[m].att) + 1
      BY <1>3, <2>1
    <2> QED BY <1>2, <1>3, <1>6, <1>7, <2>1, <2>2 DEF SendSound, AttemptsCounted
  <1>9. Budgeted(m)'
    BY <1>2, <1>3, <1>6, <1>7 DEF SendSound, Budgeted, Unasked, Sending
  <1>10. /\ Unrecovered(m) =>
              /\ pc \in {"load", "list", "lease", "sending"} => row'[m].att = <<>> \/ LastIs(m, "retry")'
              /\ pc \in Sending => n >= Len(row'[m].att)
         /\ Has("exhausted", m) => pc \in Sending /\ n >= MaxAttempts
         /\ del[m].at # "idle" /\ pc # "idle"
    BY <1>2, <1>3, <1>7 DEF SendSound, OneAsks, GivenUp, Sending
  <1> HIDE DEF n
  <1>11. /\ UNCHANGED <<exec, tail, timer, pending>> /\ n \in Nat
         /\ \A x \in Messages \ {m} : del'[x] = del[x] /\ row'[x] = row[x] /\ sends'[x] = sends[x]
         /\ \A x \in Messages : hurt'[x] = "no" => hurt[x] = "no"
    BY <1>2, <1>3, <1>5
  <1>12. /\ hurt' \in [Messages -> {"no", "now", "once"}] /\ sends' \in [Messages -> Nat]
         /\ row'[m].att \in Seq(Statuses) /\ row'[m].inb = row[m].inb
    BY <1>2, FormsOf
  <1> QED
    BY <1>4, <1>5, <1>8, <1>9, <1>10, <1>11, <1>12, DeliveryMoves, ZenonT(60)

LEMMA SentBudget ==
  ASSUME Inv, Inv', SendInv, NEW m \in Messages, NEW end, DeliverSent(m, end)
  PROVE  SendInv'
  <1> DEFINE n == del[m].attempt
  <1>1. /\ Answers("deliver", m) /\ del[m].at = "sent" /\ Ended(end, {m})
        /\ UNCHANGED <<timer, pending, sends>> /\ Applied(end, Recorded(m, n, "sent"))
        /\ IF end = "ok" THEN DeliveryOver(m, FALSE) ELSE DeliverGoes(m, "catch")
    BY DEF DeliverSent, Delivering, DeliverRest
  <1>2. SendSound(m) /\ tail[m] # <<>> /\ n \in Nat /\ Len(row[m].att) \in Nat
        /\ timer \in [Messages -> BOOLEAN] /\ hurt \in [Messages -> {"no", "now", "once"}]
        /\ sends \in [Messages -> Nat]
    BY <1>1, FormsOf
  <1>3. n \in 1 .. Len(row[m].att) /\ n \in Nat \ {0}
    <2>1. n \in 1 .. Len(row[m].att)
      BY <1>1, <1>2 DEF SendSound, AttemptsCounted
    <2> HIDE DEF n
    <2> QED BY <2>1
  <1>4. /\ \A x \in Messages \ {m} : row'[x] = row[x]
        /\ row'[m].inb = row[m].inb /\ row'[m].att \in Seq(Statuses)
        /\ Len(row'[m].att) = Len(row[m].att)
        /\ end # "refused" => row'[m].out = "delivered"
        /\ \A i \in DOMAIN row'[m].att : row'[m].att[i] = "retry" => i < MaxAttempts
    <2>1. "sent" \in Statuses /\ MessageStatus("sent") = "delivered"
      BY DEF Statuses, MessageStatus
    <2>2. \A i \in DOMAIN row[m].att : row[m].att[i] = "retry" => i < MaxAttempts
      BY <1>2 DEF SendSound, AttemptsCounted
    <2>3. n <= Len(row[m].att)
      BY <1>2, <1>3
    <2> HIDE DEF n
    <2> QED BY <1>1, <1>3, <2>1, <2>2, <2>3, RecordedAttempt
  <1>5. CASE end = "ok"
    <2>1. DeliveryOver(m, FALSE) /\ row'[m].out \in Final
      BY <1>1, <1>4, <1>5 DEF Final
    <2>2. timer'[m] => timer[m] \/ (~Has("exhausted", m) /\ (Unrecovered(m) => LastIs(m, "retry")'))
      BY <1>1
    <2>3. hurt[m] = "no" /\ end = "ok"
            => /\ Len(row[m].att) <= Len(row'[m].att)
               /\ row'[m].out \in Final \/ Len(row'[m].att) < MaxAttempts
      BY <1>2, <1>4, <2>1
    <2>4. /\ del[m].at # "idle" /\ UNCHANGED <<pending, sends>> /\ Answers("deliver", m)
          /\ \A x \in Messages \ {m} : row'[x] = row[x] /\ timer'[x] = timer[x]
          /\ row'[m].inb = row[m].inb /\ row'[m].att \in Seq(Statuses)
          /\ timer' \in [Messages -> BOOLEAN]
          /\ \A i \in DOMAIN row'[m].att : row'[m].att[i] = "retry" => i < MaxAttempts
          /\ Ended(end, {m})
      BY <1>1, <1>2, <1>4
    <2> QED BY <2>1, <2>2, <2>3, <2>4, DeliveryStops, ZenonT(60)
  <1>6. CASE end # "ok"
    <2>1. DeliverGoes(m, "catch")
      BY <1>1, <1>6
    <2>2. /\ calls # <<>> /\ \A x : ~Is(Head(calls), "exec", x)
      BY <1>1, DeliveryCall
    <2>3. /\ del'[m] = [at |-> "catch", attempt |-> n] /\ \A x \in Messages \ {m} : del'[x] = del[x]
          /\ UNCHANGED <<tail, exec>> /\ \E more : Plain(more) /\ Then(more)
      BY <2>1, GoesParts
    <2>4. /\ calls' \in Seq(Asked) /\ RecoveryPasses /\ \A x \in Messages : Passes(x)
          /\ \A x : StampsFirst(x) => StampsFirst(x)'
      BY <1>1, <2>2, <2>3, GoesPass
    <2>5. /\ hurt' \in [Messages -> {"no", "now", "once"}]
          /\ \A x \in Messages : hurt'[x] = "no" => hurt[x] = "no" /\ (end = "ok" \/ x # m)
      BY <1>1, <1>2, EndedHurt
    <2>6. Budgeted(m)'
      BY <1>6, <2>5 DEF Budgeted
    <2>7. AttemptsCounted(m)'
      <3>1. n \in 1 .. Len(row'[m].att) + 1
        BY <1>2, <1>3, <1>4
      <3>2. del'[m].at = "catch" /\ del'[m].attempt = n
        BY <2>3
      <3> QED BY <1>4, <3>1, <3>2 DEF AttemptsCounted
    <2> DEFINE pc == "catch"
    <2>8. /\ Unrecovered(m) =>
               /\ pc \in {"load", "list", "lease", "sending"}
                    => row'[m].att = <<>> \/ LastIs(m, "retry")'
               /\ pc \in Sending => n >= Len(row'[m].att)
          /\ Has("exhausted", m) => pc \in Sending /\ n >= MaxAttempts
          /\ del[m].at # "idle" /\ pc # "idle"
      BY <1>1, <1>2, <1>4 DEF SendSound, OneAsks, GivenUp, Sending
    <2> HIDE DEF n
    <2>9. /\ UNCHANGED <<exec, tail, timer, pending>> /\ n \in Nat
          /\ \A x \in Messages \ {m} : del'[x] = del[x] /\ row'[x] = row[x] /\ sends'[x] = sends[x]
          /\ \A x \in Messages : hurt'[x] = "no" => hurt[x] = "no"
          /\ row'[m].att \in Seq(Statuses) /\ row'[m].inb = row[m].inb
          /\ sends' \in [Messages -> Nat] /\ hurt' \in [Messages -> {"no", "now", "once"}]
      BY <1>1, <1>2, <1>4, <2>3, <2>5
    <2>10. del'[m] = [at |-> pc, attempt |-> n]
      BY <2>3
    <2> HIDE DEF pc
    <2> QED
      BY <2>4, <2>6, <2>7, <2>8, <2>9, <2>10, DeliveryMoves, ZenonT(60)
  <1> QED BY <1>5, <1>6

LEMMA CatchBudget ==
  ASSUME Inv, Inv', SendInv, NEW m \in Messages, NEW end, DeliverCatch(m, end)
  PROVE  SendInv'
  <1> DEFINE n == del[m].attempt
             status == Failure(n)
  <1>1. /\ Answers("deliver", m) /\ del[m].at = "catch" /\ Ended(end, {m})
        /\ UNCHANGED <<pending, sends>> /\ Applied(end, Recorded(m, n, status))
        /\ DeliveryOver(m, end # "ok")
        /\ timer' = [timer EXCEPT ![m] = @ \/ (end = "ok" /\ status = "retry")]
    BY DEF DeliverCatch, Delivering, DeliverRest
  <1>2. SendSound(m) /\ tail[m] # <<>> /\ n \in Nat /\ Len(row[m].att) \in Nat
        /\ timer \in [Messages -> BOOLEAN] /\ MaxAttempts \in Nat \ {0}
    BY <1>1, FormsOf
  <1>3. n \in 1 .. Len(row[m].att) + 1 /\ n \in Nat \ {0}
    <2>1. n \in 1 .. Len(row[m].att) + 1
      BY <1>1, <1>2 DEF SendSound, AttemptsCounted
    <2> HIDE DEF n, status
    <2> QED BY <2>1
  <1>4. /\ status = "dead-letter" => n >= MaxAttempts
        /\ status = "retry" => n < MaxAttempts
        /\ status \in {"retry", "dead-letter"} /\ status \in Statuses
    BY <1>2 DEF Failure, Statuses
  <1>5. /\ Unrecovered(m) => n >= Len(row[m].att)
        /\ Has("exhausted", m) => n >= MaxAttempts
        /\ hurt[m] = "no" /\ n < MaxAttempts
             => row[m].out \notin Final /\ ~(Len(row[m].att) >= MaxAttempts)
        /\ \A i \in DOMAIN row[m].att : row[m].att[i] = "retry" => i < MaxAttempts
    <2>1. /\ Unrecovered(m) => n >= Len(row[m].att)
          /\ Has("exhausted", m) => n >= MaxAttempts
      BY <1>1, <1>2 DEF SendSound, OneAsks, GivenUp, Sending
    <2>2. ASSUME hurt[m] = "no", n < MaxAttempts
          PROVE  row[m].out \notin Final /\ ~(Len(row[m].att) >= MaxAttempts)
      <3>1. row[m].out \notin Final
        BY <1>1, <1>2, <2>2 DEF SendSound, Budgeted, Sending
      <3>2. Len(row[m].att) >= MaxAttempts => n >= MaxAttempts
        BY <1>1, <1>2, <2>2, <3>1 DEF SendSound, Budgeted, Unasked
      <3> HIDE DEF n, status
      <3>3. ~(n >= MaxAttempts)
        BY <1>2, <2>2
      <3> QED BY <3>1, <3>2, <3>3
    <2>3. \A i \in DOMAIN row[m].att : row[m].att[i] = "retry" => i < MaxAttempts
      BY <1>2 DEF SendSound, AttemptsCounted
    <2> QED BY <2>1, <2>2, <2>3
  <1> HIDE DEF n, status
  <1>6. /\ \A x \in Messages \ {m} : row'[x] = row[x]
        /\ row'[m].inb = row[m].inb /\ row'[m].att \in Seq(Statuses)
        /\ Len(row'[m].att) \in Nat
        /\ end = "refused" => row' = row
        /\ end # "refused" =>
             /\ row'[m].out = MessageStatus(status)
             /\ n > Len(row[m].att) => Len(row'[m].att) = Len(row[m].att) + 1
             /\ n <= Len(row[m].att) => Len(row'[m].att) = Len(row[m].att)
             /\ n >= Len(row[m].att)
                  => row'[m].att # <<>> /\ row'[m].att[Len(row'[m].att)] = status
        /\ \A i \in DOMAIN row'[m].att : row'[m].att[i] = "retry" => i < MaxAttempts
    <2>1. /\ \A i \in DOMAIN row[m].att : row[m].att[i] = "retry" => i < MaxAttempts
          /\ status = "retry" => n < MaxAttempts
          /\ n \in Nat \ {0} /\ status \in Statuses /\ Applied(end, Recorded(m, n, status))
      BY <1>1, <1>3, <1>4, <1>5
    <2>2. n \in Nat \ {0} /\ status \in Statuses /\ m \in Messages /\ Inv /\ SendInv
      BY <2>1
    <2>3. Applied(end, Recorded(m, n, status))
      BY <2>1
    <2>4. status = "retry" => n < MaxAttempts
      BY <2>1
    <2>5. \A i \in DOMAIN row[m].att : row[m].att[i] = "retry" => i < MaxAttempts
      BY <2>1
    <2>6. /\ \A x \in Messages \ {m} : row'[x] = row[x]
          /\ row'[m].inb = row[m].inb /\ row'[m].att \in Seq(Statuses)
          /\ Len(row'[m].att) \in Nat /\ Len(row[m].att) \in Nat
          /\ end = "refused" => row' = row
          /\ end # "refused" =>
               /\ row'[m].out = MessageStatus(status)
               /\ n > Len(row[m].att) => Len(row'[m].att) = Len(row[m].att) + 1
               /\ n <= Len(row[m].att) => Len(row'[m].att) = Len(row[m].att)
               /\ n >= Len(row[m].att)
                    => row'[m].att # <<>> /\ row'[m].att[Len(row'[m].att)] = status
          /\ \A i \in DOMAIN row'[m].att : row'[m].att[i] = "retry" => i < MaxAttempts
      BY ONLY RecordedAttempt, <2>2, <2>3, <2>4, <2>5
    <2> QED BY <2>6
  <1>7. /\ \A x \in Messages \ {m} : timer'[x] = timer[x]
        /\ timer' \in [Messages -> BOOLEAN]
        /\ timer'[m] => timer[m] \/ (end = "ok" /\ status = "retry")
    BY <1>1, <1>2
  <1>8. timer'[m] => timer[m] \/ (~Has("exhausted", m) /\ (Unrecovered(m) => LastIs(m, "retry")'))
    <2>1. SUFFICES ASSUME end = "ok", status = "retry"
          PROVE  ~Has("exhausted", m) /\ (Unrecovered(m) => LastIs(m, "retry")')
      BY <1>7
    <2>2. ~(n >= MaxAttempts)
      BY <1>2, <1>3, <1>4, <2>1
    <2>3. Unrecovered(m) => row'[m].att # <<>> /\ row'[m].att[Len(row'[m].att)] = "retry"
      BY <1>5, <1>6, <2>1
    <2> QED BY <1>5, <2>2, <2>3 DEF LastIs
  <1>9. ASSUME hurt[m] = "no", end = "ok"
        PROVE  /\ Len(row[m].att) <= Len(row'[m].att)
               /\ row'[m].out \in Final \/ Len(row'[m].att) < MaxAttempts
    <2>1. Len(row[m].att) <= Len(row'[m].att)
      BY <1>2, <1>3, <1>6, <1>9
    <2>2. CASE status = "dead-letter"
      <3>1. row'[m].out = "dead-letter"
        BY <1>6, <1>9, <2>2 DEF MessageStatus
      <3> QED BY <2>1, <3>1 DEF Final
    <2>3. CASE status = "retry"
      <3>1. n < MaxAttempts /\ ~(Len(row[m].att) >= MaxAttempts)
        BY <1>4, <1>5, <1>9, <2>3
      <3>2. Len(row'[m].att) < MaxAttempts
        BY <1>2, <1>3, <1>6, <1>9, <3>1
      <3> QED BY <2>1, <3>2
    <2> QED BY <1>4, <2>2, <2>3
  <1>10. /\ del[m].at # "idle" /\ UNCHANGED <<pending, sends>> /\ Answers("deliver", m)
         /\ \A x \in Messages \ {m} : row'[x] = row[x] /\ timer'[x] = timer[x]
         /\ row'[m].inb = row[m].inb /\ row'[m].att \in Seq(Statuses)
         /\ timer' \in [Messages -> BOOLEAN]
         /\ \A i \in DOMAIN row'[m].att : row'[m].att[i] = "retry" => i < MaxAttempts
         /\ hurt[m] = "no" /\ end = "ok"
              => /\ Len(row[m].att) <= Len(row'[m].att)
                 /\ row'[m].out \in Final \/ Len(row'[m].att) < MaxAttempts
         /\ DeliveryOver(m, end # "ok") /\ Ended(end, {m})
    BY <1>1, <1>6, <1>7, <1>9
  <1> QED BY <1>8, <1>10, DeliveryStops, ZenonT(60)

(* The steps of an execution *)

LEMMA FormsStay ==
  ASSUME Forms, calls' \in Seq(Asked), UNCHANGED <<tail, del, sends>>,
         timer' \in [Messages -> BOOLEAN], hurt' \in [Messages -> {"no", "now", "once"}],
         \A x \in Messages : row'[x].att = row[x].att
  PROVE  Forms'
  BY DEF Forms

LEMMA AllApart ==
  ASSUME SendInv, calls' \in Seq(Asked), RecoveryPasses, UNCHANGED <<tail, del, sends>>,
         timer' \in [Messages -> BOOLEAN], hurt' \in [Messages -> {"no", "now", "once"}],
         \A x \in Messages : row'[x].att = row[x].att /\ Apart(x)
  PROVE  SendInv'
  <1>1. Forms' /\ RecoversOnce'
    BY FormsStay, RecoveryKept DEF SendInv
  <1>2. \A x \in Messages : SendSound(x)'
    BY ApartKeeps DEF SendInv
  <1> QED BY <1>1, <1>2 DEF SendInv

\* The messages a step is not about keep their part of the rest.
LEMMA OthersApart ==
  ASSUME SendInv, NEW m \in Messages, Forms', RecoveryPasses, SendSound(m)',
         \A x \in Messages \ {m} :
           /\ Passes(x) /\ ExecApart(x) /\ row'[x] = row[x] /\ tail'[x] = tail[x]
           /\ del'[x] = del[x] /\ (timer'[x] => timer[x]) /\ sends'[x] = sends[x]
           /\ (hurt'[x] = "no" => hurt[x] = "no") /\ (StampsFirst(x) => StampsFirst(x)')
  PROVE  SendInv'
  <1>1. RecoversOnce'
    BY RecoveryKept DEF SendInv
  <1>2. ASSUME NEW x \in Messages PROVE SendSound(x)'
    <2>1. CASE x = m
      BY <2>1
    <2>2. CASE x # m
      <3>1. SendSound(x)
        BY DEF SendInv
      <3> QED BY <2>2, <3>1, Elsewhere
    <2> QED BY <2>1, <2>2
  <1> QED BY <1>1, <1>2 DEF SendInv

LEMMA ExecCall ==
  ASSUME Inv, SendInv, NEW m \in Messages, Answers("exec", m),
         \E more : Plain(more) /\ Then(more), pending' = pending
  PROVE  /\ calls # <<>> /\ calls \in Seq(Asked) /\ calls' \in Seq(Asked) /\ RecoveryPasses
         /\ \A x \in Messages : Passes(x)
         /\ \A x \in Messages \ {m} : StampsFirst(x) => StampsFirst(x)'
  <1>1. calls # <<>> /\ calls \in Seq(Asked) /\ Head(calls)[1] = "exec" /\ Head(calls)[2] = m
    BY DEF SendInv, Forms, Answers
  <1>2. \A x \in Messages \ {m} : ~Is(Head(calls), "exec", x)
    BY <1>1 DEF Is
  <1>3. PICK more : Plain(more) /\ Then(more)
    OBVIOUS
  <1>4. /\ calls' \in Seq(Asked) /\ RecoveryPasses /\ \A x \in Messages : Passes(x)
        /\ \A x : ~Is(Head(calls), "exec", x) /\ StampsFirst(x) => StampsFirst(x)'
    BY <1>1, <1>3, PlainPasses
  <1> QED BY <1>1, <1>2, <1>4

LEMMA ExecMoves ==
  ASSUME Inv, SendInv, NEW m \in Messages, Answers("exec", m),
         exec[m].at \notin {"idle", "lane", "done", "deliver"},
         NEW pc, pc \notin {"stamp", "read"}, ExecGoes(m, pc),
         Unanswered(m)' => Unanswered(m),
         row'[m].out = row[m].out, row'[m].att = row[m].att,
         \A x \in Messages \ {m} : row'[x] = row[x],
         UNCHANGED <<tail, del, timer, pending, sends>>, NEW end, Ended(end, {m})
  PROVE  SendInv'
  <1>1. /\ \A x \in Messages \ {m} : ExecApart(x)
        /\ exec'[m].at = pc /\ \E more : Plain(more) /\ Then(more)
    BY ExecGone DEF Inv
  <1>2. /\ calls' \in Seq(Asked) /\ RecoveryPasses /\ \A x \in Messages : Passes(x)
        /\ \A x \in Messages \ {m} : StampsFirst(x) => StampsFirst(x)'
    BY <1>1, ExecCall
  <1>3. /\ hurt' \in [Messages -> {"no", "now", "once"}]
        /\ \A x \in Messages : hurt'[x] = "no" => hurt[x] = "no"
    BY EndedHurt, FormsOf
  <1>4. Forms'
    <2>1. timer' \in [Messages -> BOOLEAN] /\ \A x \in Messages : row'[x].att = row[x].att
      BY FormsOf
    <2> QED BY <1>2, <1>3, <2>1, FormsStay DEF SendInv
  <1>5. SendSound(m)'
    <2>1. Passes(m) /\ SendSound(m)
      BY <1>2, FormsOf
    <2>2. Apart(m)
      BY <1>1, <1>3, <2>1 DEF Apart, Passes
    <2> QED BY <2>1, <2>2, ApartKeeps
  <1> QED BY <1>1, <1>2, <1>3, <1>4, <1>5, OthersApart

LEMMA FailsAs ==
  ASSUME NEW m, NEW pc, ExecFails(m, pc)
  PROVE  \E q \in {"done", "fail"} : ExecGoes(m, q)
  BY DEF ExecFails

\* An execution that gives up, whatever its call was.
LEMMA ExecGivesUp ==
  ASSUME Inv, SendInv, NEW m \in Messages, Answers("exec", m),
         exec[m].at \notin {"idle", "lane", "done", "deliver"},
         NEW pc, ExecFails(m, pc),
         row'[m].out = row[m].out, row'[m].att = row[m].att,
         \A x \in Messages \ {m} : row'[x] = row[x],
         UNCHANGED <<tail, del, timer, pending, sends>>, NEW end, Ended(end, {m})
  PROVE  SendInv'
  <1>1. PICK q \in {"done", "fail"} : ExecGoes(m, q)
    BY FailsAs
  <1>2. exec'[m].at = q
    BY <1>1, ExecGone DEF Inv
  <1>3. ~Unanswered(m)'
    BY <1>1, <1>2 DEF Unanswered
  <1> QED BY <1>1, <1>3, ExecMoves

LEMMA StampBudget ==
  ASSUME Inv, SendInv, NEW m \in Messages, NEW end, ExecStamp(m, end)
  PROVE  SendInv'
  <1> DEFINE pc == exec[m].at
  <1>1. /\ Answers("exec", m) /\ pc \in {"mark", "store", "fail", "get"} /\ Ended(end, {m})
        /\ UNCHANGED <<tail, del, timer, pending, sends>>
        /\ IF end = "ok" THEN ExecGoes(m, Following[pc]) ELSE ExecFails(m, pc)
    BY DEF ExecStamp, ExecRest, Following
  <1>2. /\ row'[m].out = row[m].out /\ row'[m].att = row[m].att
        /\ \A x \in Messages \ {m} : row'[x] = row[x]
    <2>1. Applied(end, IF pc \in DOMAIN Stamps THEN [row EXCEPT ![m].inb = Stamps[pc]] ELSE row)
      BY DEF ExecStamp
    <2>2. row = [x \in Messages |-> row[x]]
          /\ row[m] = [inb |-> row[m].inb, out |-> row[m].out, att |-> row[m].att]
      BY DEF Inv, LaneInv, Shapes
    <2>3. CASE row' = row
      BY <2>3
    <2>4. CASE row' = [row EXCEPT ![m].inb = Stamps[pc]]
      <3> DEFINE s == Stamps[pc]
                 o == row[m].out
                 a == row[m].att
      <3>1. row' = [row EXCEPT ![m].inb = s] /\ row[m] = [inb |-> row[m].inb, out |-> o, att |-> a]
        BY <2>2, <2>4
      <3> HIDE DEF s, o, a
      <3>2. row'[m].out = o /\ row'[m].att = a /\ \A x \in Messages \ {m} : row'[x] = row[x]
        BY <2>2, <3>1
      <3> QED BY <3>2 DEF o, a
    <2> QED BY <2>1, <2>3, <2>4 DEF Applied
  <1>3. CASE end = "ok"
    <2> DEFINE q == Following[pc]
    <2>1. /\ ExecGoes(m, q) /\ q \in {"prompt", "export", "done"}
          /\ q = "prompt" => pc = "mark"
          /\ q = "export" => pc = "store"
      BY <1>1, <1>3 DEF Following
    <2>2. pc \notin {"idle", "lane", "done", "deliver"}
      BY <1>1
    <2> HIDE DEF q
    <2>3. exec'[m].at = q
      BY <2>1, <2>2, ExecGone DEF Inv
    <2>4. Unanswered(m)' => Unanswered(m)
      BY <2>1, <2>3 DEF Unanswered
    <2> QED BY <1>1, <1>2, <2>1, <2>2, <2>4, ExecMoves
  <1>4. CASE end # "ok"
    BY <1>1, <1>2, <1>4, ExecGivesUp
  <1> QED BY <1>3, <1>4

LEMMA ExportBudget ==
  ASSUME Inv, SendInv, NEW m \in Messages, NEW end, ExecExport(m, end)
  PROVE  SendInv'
  <1>1. /\ Answers("exec", m) /\ exec[m].at = "export" /\ Ended(end, {m})
        /\ UNCHANGED <<row, tail, del, timer, pending, sends>>
    BY DEF ExecExport, Executing, ExecRest
  <1>2. CASE ExecFails(m, "export")
    BY <1>1, <1>2, ExecGivesUp
  <1>3. ASSUME NEW q \in {"get", "done", "admit"}, ExecGoes(m, q) PROVE SendInv'
    <2>1. Unanswered(m)
      BY <1>1 DEF Unanswered
    <2> QED BY <1>1, <1>3, <2>1, ExecMoves
  <1>4. ExecFails(m, "export") \/ \E q \in {"get", "done", "admit"} : ExecGoes(m, q)
    BY DEF ExecExport
  <1> QED BY <1>2, <1>3, <1>4

LEMMA PromptBudget ==
  ASSUME Inv, SendInv, NEW m \in Messages, PromptSettles(m)
  PROVE  SendInv'
  <1>1. PICK pc \in {"store", "fail"} : exec' = [exec EXCEPT ![m].at = pc]
    BY DEF PromptSettles
  <1>2. /\ exec[m].at = "prompt" /\ calls' = Append(calls, <<"exec", m>>)
        /\ UNCHANGED <<row, tail, del, timer, pending, hurt, sends>>
    BY DEF PromptSettles
  <1>3. /\ exec'[m].at = pc /\ \A x \in Messages \ {m} : exec'[x] = exec[x]
    <2>1. exec = [x \in Messages |-> exec[x]] /\ exec[m] = [at |-> exec[m].at, seen |-> exec[m].seen]
      BY DEF Inv, LaneInv, Shapes
    <2>2. exec'[m] = [exec[m] EXCEPT !.at = pc] /\ \A x \in Messages \ {m} : exec'[x] = exec[x]
      BY <1>1, <2>1
    <2>3. exec'[m] = [at |-> pc, seen |-> exec[m].seen]
      BY <2>1, <2>2, AtOf
    <2> QED BY <2>2, <2>3
  <1>4. /\ calls' \in Seq(Asked) /\ RecoveryPasses /\ \A x \in Messages : Passes(x)
        /\ \A x : StampsFirst(x) => StampsFirst(x)'
    <2> DEFINE c == <<"exec", m>>
    <2>1. c[1] = "exec" /\ c \in Asked /\ calls' = Append(calls, c)
      BY <1>2 DEF Asked
    <2> HIDE DEF c
    <2> QED BY <1>2, <2>1, FormsOf, JoinPasses
  <1>5. Unanswered(m)
    BY <1>2 DEF Unanswered
  <1>6. ASSUME NEW x \in Messages PROVE Apart(x)
    <2>1. Passes(x)
      BY <1>4
    <2>2. CASE x = m
      BY <1>1, <1>2, <1>3, <1>5, <2>1, <2>2 DEF Apart, Passes
    <2>3. CASE x # m
      BY <1>2, <1>3, <1>4, <2>1, <2>3 DEF Apart, Passes, Unanswered
    <2> QED BY <2>2, <2>3
  <1>7. timer' \in [Messages -> BOOLEAN] /\ hurt' \in [Messages -> {"no", "now", "once"}]
    BY <1>2, FormsOf
  <1> QED BY <1>2, <1>4, <1>6, <1>7, AllApart

LEMMA ArriveBudget ==
  ASSUME Inv, SendInv, NEW m \in Messages, Arrive(m)
  PROVE  SendInv'
  <1>1. /\ m \in Inbound /\ calls' = Append(calls, <<"admit", m>>)
        /\ UNCHANGED <<row, exec, tail, del, timer, pending, hurt, sends>>
    BY DEF Arrive
  <1>2. /\ calls' \in Seq(Asked) /\ RecoveryPasses /\ \A x \in Messages : Passes(x)
        /\ \A x : StampsFirst(x) => StampsFirst(x)'
    <2> DEFINE c == <<"admit", m>>
    <2>1. c[1] = "admit" /\ c \in Asked /\ calls' = Append(calls, c)
      BY <1>1 DEF Asked
    <2> HIDE DEF c
    <2> QED BY <1>1, <2>1, FormsOf, JoinPasses
  <1>3. \A x \in Messages : Apart(x)
    BY <1>1, <1>2 DEF Apart, Passes, Unanswered
  <1>4. timer' \in [Messages -> BOOLEAN] /\ hurt' \in [Messages -> {"no", "now", "once"}]
    BY <1>1, FormsOf
  <1> QED BY <1>1, <1>2, <1>3, <1>4, AllApart

LEMMA ScheduledBudget ==
  ASSUME Inv, SendInv, NEW m \in Messages, ScheduledRunCompletes(m)
  PROVE  SendInv'
  <1>1. /\ m \in Scheduled /\ exec[m].at = "idle" /\ calls' = Append(calls, <<"exec", m>>)
        /\ exec' = [exec EXCEPT ![m].at = "export"]
        /\ UNCHANGED <<row, tail, del, timer, pending, hurt, sends>>
    BY DEF ScheduledRunCompletes
  <1>2. /\ exec'[m].at = "export" /\ \A x \in Messages \ {m} : exec'[x] = exec[x]
    <2>1. exec = [x \in Messages |-> exec[x]] /\ exec[m] = [at |-> exec[m].at, seen |-> exec[m].seen]
      BY DEF Inv, LaneInv, Shapes
    <2>2. exec'[m] = [exec[m] EXCEPT !.at = "export"] /\ \A x \in Messages \ {m} : exec'[x] = exec[x]
      BY <1>1, <2>1
    <2>3. exec'[m] = [at |-> "export", seen |-> exec[m].seen]
      BY <2>1, <2>2, AtOf
    <2> QED BY <2>2, <2>3
  <1>3. /\ calls' \in Seq(Asked) /\ RecoveryPasses /\ \A x \in Messages : Passes(x)
        /\ \A x : StampsFirst(x) => StampsFirst(x)'
    <2> DEFINE c == <<"exec", m>>
    <2>1. c[1] = "exec" /\ c \in Asked /\ calls' = Append(calls, c)
      BY <1>1 DEF Asked
    <2> HIDE DEF c
    <2> QED BY <1>1, <2>1, FormsOf, JoinPasses
  <1>4. m \notin Inbound
    BY <1>1, ChannelAssumption DEF ChannelAssumption
  <1>5. ASSUME NEW x \in Messages PROVE Apart(x)
    <2>1. Passes(x)
      BY <1>3
    <2>2. CASE x = m
      BY <1>1, <1>2, <1>3, <1>4, <2>1, <2>2 DEF Apart, Passes, Unanswered
    <2>3. CASE x # m
      BY <1>1, <1>2, <1>3, <2>1, <2>3 DEF Apart, Passes, Unanswered
    <2> QED BY <2>2, <2>3
  <1>6. timer' \in [Messages -> BOOLEAN] /\ hurt' \in [Messages -> {"no", "now", "once"}]
    BY <1>1, FormsOf
  <1> QED BY <1>1, <1>3, <1>5, <1>6, AllApart

LEMMA AdmitBudget ==
  ASSUME Inv, SendInv, NEW m \in Inbound, NEW end, Admit(m, end)
  PROVE  SendInv'
  <1> DEFINE new == row[m].inb = "none"
  <1>1. /\ Answers("admit", m) /\ Ended(end, {m}) /\ m \in Messages
        /\ UNCHANGED <<tail, del, timer, pending, sends>>
        /\ Applied(end, IF new THEN [row EXCEPT ![m].inb = "admitted"] ELSE row)
        /\ IF end = "ok" /\ new THEN Executes(m) ELSE Then(<<>>) /\ UNCHANGED <<lane, exec>>
    BY DEF Admit, Messages
  <1>2. /\ \A x \in Messages : row'[x].out = row[x].out /\ row'[x].att = row[x].att
        /\ \A x \in Messages \ {m} : row'[x] = row[x]
        /\ row'[m].inb = "none" => row[m].inb = "none"
    <2>1. row = [x \in Messages |-> row[x]]
          /\ row[m] = [inb |-> row[m].inb, out |-> row[m].out, att |-> row[m].att]
      BY <1>1 DEF Inv, LaneInv, Shapes
    <2>2. CASE row' = row
      BY <2>2
    <2>3. CASE row' = [row EXCEPT ![m].inb = "admitted"]
      <3> DEFINE o == row[m].out
                 a == row[m].att
      <3>1. row[m] = [inb |-> row[m].inb, out |-> o, att |-> a]
        BY <2>1
      <3> HIDE DEF o, a
      <3>2. /\ row'[m].out = o /\ row'[m].att = a /\ row'[m].inb = "admitted"
            /\ \A x \in Messages \ {m} : row'[x] = row[x]
        BY <1>1, <2>1, <2>3, <3>1
      <3> QED BY <3>2 DEF o, a
    <2> QED BY <1>1, <2>2, <2>3 DEF Applied
  <1>3. /\ \A x \in Messages \ {m} : exec'[x] = exec[x]
        /\ exec'[m] = exec[m] \/ (new /\ exec'[m].at \in {"mark", "lane"})
        /\ \E more : Plain(more) /\ Then(more)
    <2>1. Plain(<<>>) /\ Plain(<<<<"exec", m>>>>)
      BY <1>1 DEF Plain, Asked
    <2>2. exec = [x \in Messages |-> exec[x]] /\ exec[m] = [at |-> exec[m].at, seen |-> exec[m].seen]
      BY <1>1 DEF Inv, LaneInv, Shapes
    <2>3. CASE end = "ok" /\ new
      <3>1. PICK pc \in {"mark", "lane"} :
              exec' = [exec EXCEPT ![m].at = pc] /\ (Then(<<>>) \/ Then(<<<<"exec", m>>>>))
        BY <1>1, <2>3 DEF Executes
      <3>2. exec'[m] = [exec[m] EXCEPT !.at = pc] /\ \A x \in Messages \ {m} : exec'[x] = exec[x]
        BY <1>1, <2>2, <3>1
      <3>3. exec'[m] = [at |-> pc, seen |-> exec[m].seen]
        BY <2>2, <3>2, AtOf
      <3>4. exec'[m].at = pc
        BY <3>3
      <3> QED BY <2>1, <2>3, <3>1, <3>2, <3>4
    <2>4. CASE ~(end = "ok" /\ new)
      BY <1>1, <2>1, <2>4
    <2> QED BY <2>3, <2>4
  <1>4. /\ calls # <<>> /\ \A x : ~Is(Head(calls), "exec", x)
    BY <1>1 DEF Answers, Is
  <1>5. /\ calls' \in Seq(Asked) /\ RecoveryPasses /\ \A x \in Messages : Passes(x)
        /\ \A x : StampsFirst(x) => StampsFirst(x)'
    BY <1>1, <1>3, <1>4, GoesPass
  <1>6. /\ hurt' \in [Messages -> {"no", "now", "once"}]
        /\ \A x \in Messages : hurt'[x] = "no" => hurt[x] = "no"
    BY <1>1, EndedHurt, FormsOf
  <1>7. new => Unanswered(m)
    BY DEF Unanswered, Inv, LaneInv, ExecutedIsKnown
  <1>8. Unanswered(m)' => Unanswered(m)
    BY <1>2, <1>3, <1>7 DEF Unanswered
  <1> HIDE DEF new
  <1>9. ASSUME NEW x \in Messages PROVE Apart(x)
    <2>1. Passes(x)
      BY <1>5
    <2>2. CASE x = m
      BY <1>1, <1>2, <1>3, <1>5, <1>6, <1>8, <2>1, <2>2 DEF Apart, Passes
    <2>3. CASE x # m
      BY <1>1, <1>2, <1>3, <1>5, <1>6, <2>1, <2>3 DEF Apart, Passes, Unanswered
    <2> QED BY <2>2, <2>3
  <1>10. timer' \in [Messages -> BOOLEAN]
    BY <1>1, FormsOf
  <1> QED BY <1>1, <1>2, <1>5, <1>6, <1>9, <1>10, AllApart

\* A call at the end of the queue.
LEMMA TakenLast ==
  ASSUME calls \in Seq(Asked), calls # <<>>, NEW c, c \in Asked, Then(<<c>>)
  PROVE  \E k \in DOMAIN calls' : calls'[k] = c
  <1> DEFINE t == Tail(calls)
  <1>1. t \in Seq(Asked) /\ Len(t) \in Nat /\ calls' = t \o <<c>>
    BY DEF Then
  <1> HIDE DEF t
  <1>2. calls' = Append(t, c) /\ Len(t) + 1 \in DOMAIN calls' /\ calls'[Len(t) + 1] = c
    BY <1>1
  <1> QED BY <1>2

LEMMA ExecAdmitBudget ==
  ASSUME Inv, SendInv, NEW m \in Messages, NEW end, ExecAdmit(m, end)
  PROVE  SendInv'
  <1> DEFINE admitted == [row EXCEPT ![m].out = IF @ = "none" THEN "pending-delivery" ELSE @]
  <1>1. /\ Answers("exec", m) /\ exec[m].at = "admit" /\ Ended(end, {m})
        /\ UNCHANGED <<tail, del, timer, pending, sends>>
        /\ \/ /\ Applied(end, admitted)
              /\ IF end # "ok" THEN ExecFails(m, "admit")
                 ELSE /\ exec' = [exec EXCEPT ![m] = [at |-> "stamp", seen |-> admitted[m].out]]
                      /\ Then(<<<<"exec", m>>>>) /\ UNCHANGED lane
           \/ ExecFails(m, "admit") /\ UNCHANGED row
    BY DEF ExecAdmit, Executing, ExecRest
  <1>2. CASE ExecFails(m, "admit") /\ UNCHANGED row
    BY <1>1, <1>2, ExecGivesUp
  <1>3. CASE /\ Applied(end, admitted)
             /\ IF end # "ok" THEN ExecFails(m, "admit")
                ELSE /\ exec' = [exec EXCEPT ![m] = [at |-> "stamp", seen |-> admitted[m].out]]
                     /\ Then(<<<<"exec", m>>>>) /\ UNCHANGED lane
    <2>1. /\ SendSound(m) /\ Unanswered(m) /\ row[m].out = "none" /\ row[m].att = <<>> /\ Unasked(m)
          /\ ~Has("attempts", m) /\ ~Has("exhausted", m) /\ del[m].at = "idle"
      BY <1>1, FormsOf DEF SendSound, AnswerIsNew, Unanswered, Unasked
    <2>2. /\ \A x \in Messages \ {m} : row'[x] = row[x]
          /\ row'[m].att = <<>> /\ row'[m].out \notin Final
          /\ end = "ok" => row'[m].out = "pending-delivery"
          /\ admitted[m].out = "pending-delivery"
      <3>1. row = [x \in Messages |-> row[x]]
            /\ row[m] = [inb |-> row[m].inb, out |-> "none", att |-> <<>>]
        BY <2>1 DEF Inv, LaneInv, Shapes
      <3>2. /\ admitted[m].out = "pending-delivery" /\ admitted[m].att = <<>>
            /\ \A x \in Messages \ {m} : admitted[x] = row[x]
        BY <3>1
      <3> QED BY <1>3, <2>1, <3>2 DEF Applied, Final
    <2> HIDE DEF admitted
    <2>3. /\ \A x \in Messages \ {m} : ExecApart(x)
          /\ \E more : Plain(more) /\ Then(more)
          /\ end # "ok" => exec'[m].at \in {"done", "fail"}
          /\ end = "ok" => exec'[m] = [at |-> "stamp", seen |-> "pending-delivery"]
      <3>1. CASE end # "ok"
        <4>1. PICK q \in {"done", "fail"} : ExecGoes(m, q)
          BY <1>3, <3>1, FailsAs
        <4>2. /\ \A x \in Messages \ {m} : ExecApart(x)
              /\ exec'[m].at = q /\ \E more : Plain(more) /\ Then(more)
          BY <1>1, <4>1, ExecGone DEF Inv
        <4> QED BY <3>1, <4>2
      <3>2. CASE end = "ok"
        <4>1. exec = [x \in Messages |-> exec[x]]
          BY DEF Inv, LaneInv, Shapes
        <4>2. Plain(<<<<"exec", m>>>>)
          BY DEF Plain, Asked
        <4> QED BY <1>3, <2>2, <3>2, <4>1, <4>2 DEF ExecApart
      <3> QED BY <3>1, <3>2
    <2>4. /\ calls # <<>> /\ calls \in Seq(Asked) /\ calls' \in Seq(Asked) /\ RecoveryPasses
          /\ \A x \in Messages : Passes(x)
          /\ \A x \in Messages \ {m} : StampsFirst(x) => StampsFirst(x)'
      BY <1>1, <2>3, ExecCall
    <2>5. /\ hurt' \in [Messages -> {"no", "now", "once"}]
          /\ \A x \in Messages : hurt'[x] = "no" => hurt[x] = "no"
      BY <1>1, EndedHurt, FormsOf
    <2>6. Forms'
      <3>1. row'[m].att \in Seq(Statuses)
        BY <2>2
      <3>2. \A x \in Messages : row'[x].att \in Seq(Statuses)
        BY <2>2, <3>1 DEF SendInv, Forms
      <3> QED BY <1>1, <2>4, <2>5, <3>2 DEF SendInv, Forms
    <2>7. /\ ~Has("retry", m)' /\ ~Has("attempts", m)' /\ ~Has("exhausted", m)'
          /\ tail'[m] = <<>> /\ ~timer'[m] /\ del'[m].at = "idle" /\ Len(tail'[m]) = 0
      BY <1>1, <2>1, <2>4 DEF Passes, Unasked
    <2>8. end = "ok" => StampsFirst(m)'
      <3>1. SUFFICES ASSUME end = "ok" PROVE StampsFirst(m)'
        OBVIOUS
      <3> DEFINE c == <<"exec", m>>
      <3>2. Then(<<c>>) /\ c \in Asked /\ Is(c, "exec", m)
        BY <1>3, <3>1 DEF Asked, Is
      <3> HIDE DEF c
      <3>3. PICK k \in DOMAIN calls' : calls'[k] = c
        BY <2>4, <3>2, TakenLast
      <3>4. \A i \in DOMAIN calls' : ~Is(calls'[i], "attempts", m)
        BY <2>7 DEF Has, Is
      <3>5. k \in DOMAIN calls' /\ Is(calls'[k], "exec", m)
        BY <3>2, <3>3
      <3> QED BY <3>4, <3>5 DEF StampsFirst, Is
    <2>9. AnswerIsNew(m)'
      <3>1. ~Unanswered(m)' /\ (exec'[m].at = "stamp" => end = "ok" /\ exec'[m].seen = "pending-delivery")
        BY <2>3 DEF Unanswered
      <3> QED BY <2>2, <2>7, <2>8, <3>1 DEF AnswerIsNew
    <2>10. AttemptsCounted(m)'
      BY <2>2, <2>7 DEF AttemptsCounted
    <2>11. OneAsks(m)'
      <3>1. Single("retry", m)' /\ exec'[m].at # "read"
        BY <2>3, <2>7 DEF Single, Has
      <3> QED BY <2>7, <3>1 DEF OneAsks, Sending
    <2>12. GivenUp(m)'
      BY <2>7 DEF GivenUp
    <2>13. Budgeted(m)'
      <3>1. Len(row'[m].att) = 0 /\ ~(Len(row'[m].att) >= MaxAttempts)
        <4>1. Len(row'[m].att) = 0
          BY <2>2
        <4>2. MaxAttempts \in Nat \ {0}
          BY FormsOf
        <4>3. ~(0 >= MaxAttempts)
          BY <4>2
        <4> QED BY <4>1, <4>3
      <3>2. hurt'[m] = "no" => sends'[m] <= Len(row'[m].att) /\ sends'[m] <= MaxAttempts
        <4>1. hurt'[m] = "no" => sends[m] <= Len(row[m].att) /\ sends[m] <= MaxAttempts
          BY <2>1, <2>5 DEF SendSound, Budgeted
        <4> QED BY <1>1, <2>1, <2>2, <4>1
      <3> QED BY <2>7, <3>1, <3>2 DEF Budgeted, Sending
    <2>14. SendSound(m)'
      BY <2>9, <2>10, <2>11, <2>12, <2>13 DEF SendSound
    <2>15. \A x \in Messages \ {m} :
             /\ Passes(x) /\ ExecApart(x) /\ row'[x] = row[x] /\ tail'[x] = tail[x]
             /\ del'[x] = del[x] /\ (timer'[x] => timer[x]) /\ sends'[x] = sends[x]
             /\ (hurt'[x] = "no" => hurt[x] = "no") /\ (StampsFirst(x) => StampsFirst(x)')
      BY <1>1, <2>2, <2>3, <2>4, <2>5
    <2> QED BY <2>4, <2>6, <2>14, <2>15, OthersApart
  <1> QED BY <1>1, <1>2, <1>3

LEMMA OutStampBudget ==
  ASSUME Inv, SendInv, NEW m \in Messages, NEW end, ExecOutStamp(m, end)
  PROVE  SendInv'
  <1>1. /\ Answers("exec", m) /\ exec[m].at = "stamp" /\ Ended(end, {m})
        /\ UNCHANGED <<tail, del, timer, pending, sends>>
        /\ Applied(end, [row EXCEPT ![m].out = exec[m].seen])
        /\ IF end = "ok" THEN ExecGoes(m, "read") ELSE ExecFails(m, "stamp")
    BY DEF ExecOutStamp, Executing, ExecRest
  <1>2. /\ SendSound(m) /\ exec[m].seen = "pending-delivery" /\ row[m].out = "pending-delivery"
        /\ row[m].att = <<>> /\ tail[m] = <<>> /\ ~timer[m] /\ del[m].at = "idle"
        /\ ~Has("retry", m) /\ ~Has("exhausted", m)
    BY <1>1, FormsOf DEF SendSound, AnswerIsNew
  <1>3. /\ \A x \in Messages \ {m} : row'[x] = row[x]
        /\ row'[m].att = row[m].att /\ row'[m].out = row[m].out
    <2> DEFINE i == row[m].inb
    <2>1. row = [x \in Messages |-> row[x]]
          /\ row[m] = [inb |-> i, out |-> "pending-delivery", att |-> <<>>]
      BY <1>2 DEF Inv, LaneInv, Shapes
    <2> HIDE DEF i
    <2>2. row' = row \/ row' = [row EXCEPT ![m].out = "pending-delivery"]
      BY <1>1, <1>2 DEF Applied
    <2>3. row'[m].att = <<>> /\ row'[m].out = "pending-delivery"
          /\ \A x \in Messages \ {m} : row'[x] = row[x]
      BY <2>1, <2>2
    <2> QED BY <1>2, <2>3
  <1>4. CASE end # "ok"
    <2>1. ExecFails(m, "stamp")
      BY <1>1, <1>4
    <2> QED BY <1>1, <1>3, <2>1, ExecGivesUp
  <1>5. CASE end = "ok"
    <2>1. /\ \A x \in Messages \ {m} : ExecApart(x)
          /\ exec'[m].at = "read" /\ \E more : Plain(more) /\ Then(more)
      BY <1>1, <1>5, ExecGone DEF Inv
    <2>2. /\ calls' \in Seq(Asked) /\ RecoveryPasses /\ \A x \in Messages : Passes(x)
          /\ \A x \in Messages \ {m} : StampsFirst(x) => StampsFirst(x)'
      BY <1>1, <2>1, ExecCall
    <2>3. /\ hurt' \in [Messages -> {"no", "now", "once"}]
          /\ \A x \in Messages : hurt'[x] = "no" => hurt[x] = "no"
      BY <1>1, EndedHurt, FormsOf
    <2>4. Forms'
      <3>1. timer' \in [Messages -> BOOLEAN] /\ \A x \in Messages : row'[x].att = row[x].att
        BY <1>1, <1>3, FormsOf
      <3> QED BY <1>1, <2>2, <2>3, <3>1, FormsStay DEF SendInv
    <2>5. /\ ~Has("retry", m)' /\ ~Has("exhausted", m)'
          /\ tail'[m] = <<>> /\ ~timer'[m] /\ del'[m].at = "idle" /\ Len(tail'[m]) = 0
      BY <1>1, <1>2, <2>2 DEF Passes
    <2>6. AnswerIsNew(m)' /\ GivenUp(m)'
      BY <2>1, <2>5 DEF AnswerIsNew, Unanswered, GivenUp
    <2>7. AttemptsCounted(m)'
      BY <1>2, <1>3, <2>5 DEF AttemptsCounted
    <2>8. OneAsks(m)'
      <3>1. Single("retry", m)' /\ row'[m].att = <<>>
        BY <1>2, <1>3, <2>5 DEF Single, Has
      <3> QED BY <2>5, <3>1 DEF OneAsks, Sending
    <2>9. Budgeted(m)'
      <3>1. ~(Len(row'[m].att) >= MaxAttempts)
        <4>1. Len(row'[m].att) = 0
          BY <1>2, <1>3
        <4>2. MaxAttempts \in Nat \ {0}
          BY FormsOf
        <4>3. ~(0 >= MaxAttempts)
          BY <4>2
        <4> QED BY <4>1, <4>3
      <3>2. hurt'[m] = "no" => sends'[m] <= Len(row'[m].att) /\ sends'[m] <= MaxAttempts
        <4>1. hurt'[m] = "no" => sends[m] <= Len(row[m].att) /\ sends[m] <= MaxAttempts
          BY <1>2, <2>3 DEF SendSound, Budgeted
        <4> QED BY <1>1, <1>3, <4>1
      <3> QED BY <2>5, <3>1, <3>2 DEF Budgeted, Sending
    <2>10. SendSound(m)'
      BY <2>6, <2>7, <2>8, <2>9 DEF SendSound
    <2>11. \A x \in Messages \ {m} :
             /\ Passes(x) /\ ExecApart(x) /\ row'[x] = row[x] /\ tail'[x] = tail[x]
             /\ del'[x] = del[x] /\ (timer'[x] => timer[x]) /\ sends'[x] = sends[x]
             /\ (hurt'[x] = "no" => hurt[x] = "no") /\ (StampsFirst(x) => StampsFirst(x)')
      BY <1>1, <1>3, <2>1, <2>2, <2>3
    <2> QED BY <2>2, <2>4, <2>10, <2>11, OthersApart
  <1> QED BY <1>4, <1>5

(* Who asks for a delivery *)

LEMMA QueueParts ==
  ASSUME Inv, Forms, NEW m \in Messages, NEW who, who \in {"exec", "retry", "recovery"},
         Queues(m, who)
  PROVE  /\ \A x \in Messages \ {m} : tail'[x] = tail[x] /\ del'[x] = del[x]
         /\ Len(tail'[m]) = Len(tail[m]) + 1 /\ tail'[m] # <<>>
         /\ Len(tail[m]) \in Nat /\ (tail[m] = <<>> => Len(tail[m]) = 0)
         /\ tail[m] = <<>> => del'[m].at = "load"
         /\ tail[m] # <<>> => del'[m] = del[m]
         /\ del'[m] = [at |-> del'[m].at, attempt |-> del'[m].attempt] /\ del'[m].attempt \in Nat
         /\ del'[m].at # "idle"
         /\ \E more : Plain(more) /\ Then(more)
  <1>1. /\ tail' = [tail EXCEPT ![m] = Append(@, who)]
        /\ \/ tail[m] = <<>> /\ del' = [del EXCEPT ![m] = [NoDelivery EXCEPT !.at = "load"]]
           \/ tail[m] # <<>> /\ del' = del
        /\ Then(<<<<"deliver", m>>>>) \/ Then(<<>>)
    BY DEF Queues
  <1>2. /\ tail[m] \in Seq({"exec", "retry", "recovery"})
        /\ tail \in [Messages -> Seq({"exec", "retry", "recovery"})]
        /\ del = [x \in Messages |-> del[x]]
    BY DEF Inv, LaneInv, Shapes, DeliveryQueued
  <1>3. /\ tail'[m] = Append(tail[m], who) /\ \A x \in Messages \ {m} : tail'[x] = tail[x]
    BY <1>1, <1>2
  <1>4. /\ Len(tail'[m]) = Len(tail[m]) + 1 /\ tail'[m] # <<>> /\ Len(tail[m]) \in Nat
    BY <1>2, <1>3
  <1>5. [NoDelivery EXCEPT !.at = "load"] = [at |-> "load", attempt |-> 0]
    BY DEF NoDelivery
  <1>6. CASE tail[m] = <<>>
    <2>1. del'[m] = [at |-> "load", attempt |-> 0] /\ \A x \in Messages \ {m} : del'[x] = del[x]
      BY <1>1, <1>2, <1>5, <1>6
    <2>2. Len(tail[m]) = 0
      BY <1>6
    <2>3. \E more : Plain(more) /\ Then(more)
      <3>1. Plain(<<>>) /\ Plain(<<<<"deliver", m>>>>)
        BY DEF Plain, Asked
      <3> QED BY <1>1, <3>1
    <2> QED BY <1>3, <1>4, <1>6, <2>1, <2>2, <2>3
  <1>7. CASE tail[m] # <<>>
    <2>1. del' = del
      BY <1>1, <1>7
    <2>2. \E more : Plain(more) /\ Then(more)
      <3>1. Plain(<<>>) /\ Plain(<<<<"deliver", m>>>>)
        BY DEF Plain, Asked
      <3> QED BY <1>1, <3>1
    <2> QED BY <1>3, <1>4, <1>7, <2>1, <2>2 DEF Forms
  <1> QED BY <1>6, <1>7

\* A delivery joins the queue of its message: what allows it.
LEMMA QueuesSound ==
  ASSUME Inv, Inv', SendInv, NEW m \in Messages, NEW who, who \in {"exec", "retry", "recovery"},
         Queues(m, who), UNCHANGED <<row, pending, sends>>,
         calls # <<>>, timer' \in [Messages -> BOOLEAN], timer'[m] => timer[m],
         NEW end, Ended(end, {m}),
         \A x \in Messages \ {m} :
           /\ exec'[x] = exec[x] /\ timer'[x] = timer[x]
           /\ StampsFirst(x) => StampsFirst(x)',
         ~Unanswered(m)', exec'[m].at # "stamp", ~Has("exhausted", m),
         Unrecovered(m)' =>
           /\ tail[m] = <<>> /\ ~timer'[m] /\ ~Has("retry", m)' /\ exec'[m].at # "read"
           /\ row[m].att = <<>> \/ LastIs(m, "retry"),
         hurt[m] = "no" => \/ row[m].out \in Final \/ ~(Len(row[m].att) >= MaxAttempts)
                           \/ del[m].at \in Sending /\ del[m].attempt >= MaxAttempts
  PROVE  SendInv'
  <1>1. /\ \A x \in Messages \ {m} : tail'[x] = tail[x] /\ del'[x] = del[x]
        /\ Len(tail'[m]) = Len(tail[m]) + 1 /\ tail'[m] # <<>>
        /\ Len(tail[m]) \in Nat /\ (tail[m] = <<>> => Len(tail[m]) = 0)
        /\ tail[m] = <<>> => del'[m].at = "load"
        /\ tail[m] # <<>> => del'[m] = del[m]
        /\ del'[m] = [at |-> del'[m].at, attempt |-> del'[m].attempt] /\ del'[m].attempt \in Nat
        /\ del'[m].at # "idle"
        /\ \E more : Plain(more) /\ Then(more)
    BY QueueParts DEF SendInv
  <1>2. /\ SendSound(m) /\ calls \in Seq(Asked) /\ (del[m].at = "idle") = (tail[m] = <<>>)
    BY FormsOf
  <1>3. /\ calls' \in Seq(Asked) /\ RecoveryPasses /\ \A x \in Messages : Passes(x)
    <2>1. PICK more : Plain(more) /\ Then(more)
      BY <1>1
    <2> QED BY <1>2, <2>1, PlainPasses
  <1>4. /\ hurt' \in [Messages -> {"no", "now", "once"}]
        /\ \A x \in Messages : hurt'[x] = "no" => hurt[x] = "no"
    BY EndedHurt, FormsOf
  <1>5. Forms'
    <2>1. ASSUME NEW x \in Messages
          PROVE  /\ del'[x] = [at |-> del'[x].at, attempt |-> del'[x].attempt]
                 /\ del'[x].attempt \in Nat /\ (del'[x].at = "idle") = (tail'[x] = <<>>)
      <3>1. CASE x = m
        BY <1>1, <3>1
      <3>2. CASE x # m
        BY <1>1, <3>2 DEF SendInv, Forms
      <3> QED BY <3>1, <3>2
    <2> QED BY <1>3, <1>4, <2>1 DEF SendInv, Forms
  <1>6. ~Has("exhausted", m)'
    BY <1>3 DEF Passes
  <1>7. AnswerIsNew(m)' /\ GivenUp(m)'
    BY <1>6 DEF AnswerIsNew, GivenUp
  <1>8. AttemptsCounted(m)'
    BY <1>1, <1>2 DEF SendSound, AttemptsCounted
  <1>9. OneAsks(m)'
    <2>1. SUFFICES ASSUME Unrecovered(m)' PROVE OneAsks(m)'
      BY DEF OneAsks
    <2>2. /\ tail[m] = <<>> /\ ~timer'[m] /\ ~Has("retry", m)' /\ exec'[m].at # "read"
          /\ row[m].att = <<>> \/ LastIs(m, "retry")
      BY <2>1
    <2>3. Len(tail'[m]) = 1 /\ del'[m].at = "load" /\ Len(tail'[m]) <= 1
      BY <1>1, <2>2
    <2>4. Single("retry", m)'
      BY <1>3, <2>2 DEF Single, Has
    <2> QED BY <1>6, <2>2, <2>3, <2>4 DEF OneAsks, LastIs, Sending
  <1>10. Budgeted(m)'
    <2>1. SUFFICES ASSUME hurt'[m] = "no" PROVE Budgeted(m)'
      BY DEF Budgeted
    <2>2. hurt[m] = "no"
      BY <1>4, <2>1
    <2>3. del[m].at \in Sending => del'[m] = del[m]
      BY <1>1, <1>2 DEF Sending
    <2>4. del'[m].at \in Sending => del'[m] = del[m]
      BY <1>1 DEF Sending
    <2> QED BY <1>2, <2>2, <2>3, <2>4 DEF SendSound, Budgeted
  <1>11. SendSound(m)'
    BY <1>7, <1>8, <1>9, <1>10 DEF SendSound
  <1>12. \A x \in Messages \ {m} :
           /\ Passes(x) /\ ExecApart(x) /\ row'[x] = row[x] /\ tail'[x] = tail[x]
           /\ del'[x] = del[x] /\ (timer'[x] => timer[x]) /\ sends'[x] = sends[x]
           /\ (hurt'[x] = "no" => hurt[x] = "no") /\ (StampsFirst(x) => StampsFirst(x)')
    BY <1>1, <1>3, <1>4 DEF ExecApart
  <1> QED BY <1>3, <1>5, <1>11, <1>12, OthersApart

LEMMA DeliversBudget ==
  ASSUME Inv, Inv', SendInv, NEW m \in Messages, NEW end, ExecDelivers(m, end)
  PROVE  SendInv'
  <1>1. /\ Answers("exec", m) /\ exec[m].at = "read" /\ Ended(end, {m})
        /\ UNCHANGED <<row, timer, pending, sends>>
        /\ IF end = "ok"
           THEN Queues(m, "exec") /\ exec' = [exec EXCEPT ![m].at = "deliver"]
           ELSE ExecFails(m, "read") /\ UNCHANGED <<tail, del>>
    BY DEF ExecDelivers, Executing, ExecRest
  <1>2. CASE end # "ok"
    BY <1>1, <1>2, ExecGivesUp
  <1>3. CASE end = "ok"
    <2>1. Queues(m, "exec") /\ exec' = [exec EXCEPT ![m].at = "deliver"]
      BY <1>1, <1>3
    <2>2. exec'[m].at = "deliver" /\ \A x \in Messages \ {m} : exec'[x] = exec[x]
      <3>1. exec = [x \in Messages |-> exec[x]]
            /\ exec[m] = [at |-> exec[m].at, seen |-> exec[m].seen]
        BY DEF Inv, LaneInv, Shapes
      <3>2. exec'[m] = [exec[m] EXCEPT !.at = "deliver"]
            /\ \A x \in Messages \ {m} : exec'[x] = exec[x]
        BY <2>1, <3>1
      <3>3. exec'[m] = [at |-> "deliver", seen |-> exec[m].seen]
        BY <3>1, <3>2, AtOf
      <3> QED BY <3>2, <3>3
    <2>3. /\ calls # <<>> /\ \A x \in Messages : Passes(x)
          /\ \A x \in Messages \ {m} : StampsFirst(x) => StampsFirst(x)'
      <3>1. \E more : Plain(more) /\ Then(more)
        BY <2>1, QueueParts DEF SendInv
      <3> QED BY <1>1, <3>1, ExecCall
    <2>4. SendSound(m) /\ timer \in [Messages -> BOOLEAN] /\ (del[m].at = "idle") = (tail[m] = <<>>)
      BY FormsOf
    <2>5. ~Unanswered(m)' /\ exec'[m].at \notin {"stamp", "read"} /\ ~Has("exhausted", m)
      BY <1>1, <2>2, <2>4 DEF Unanswered, SendSound, GivenUp
    <2>6. Unrecovered(m)' =>
            /\ tail[m] = <<>> /\ ~timer'[m] /\ ~Has("retry", m)' /\ exec'[m].at # "read"
            /\ row[m].att = <<>> \/ LastIs(m, "retry")
      <3>1. Unrecovered(m) => /\ tail[m] = <<>> /\ ~timer[m] /\ ~Has("retry", m)
                              /\ row[m].att = <<>>
        BY <1>1, <2>4 DEF SendSound, OneAsks
      <3> QED BY <1>1, <2>3, <2>5, <3>1 DEF Passes
    <2>7. hurt[m] = "no" => \/ row[m].out \in Final \/ ~(Len(row[m].att) >= MaxAttempts)
                            \/ del[m].at \in Sending /\ del[m].attempt >= MaxAttempts
      BY <1>1, <2>4 DEF SendSound, Budgeted, Unasked
    <2> DEFINE who == "exec"
    <2>8. /\ who \in {"exec", "retry", "recovery"} /\ Queues(m, who)
          /\ UNCHANGED <<row, pending, sends>> /\ timer' \in [Messages -> BOOLEAN]
          /\ (timer'[m] => timer[m])
          /\ \A x \in Messages \ {m} :
               /\ exec'[x] = exec[x] /\ timer'[x] = timer[x]
               /\ StampsFirst(x) => StampsFirst(x)'
      BY <1>1, <2>1, <2>2, <2>3, <2>4
    <2> HIDE DEF who
    <2> QED BY <1>1, <2>3, <2>5, <2>6, <2>7, <2>8, QueuesSound
  <1> QED BY <1>2, <1>3

LEMMA TimerBudget ==
  ASSUME Inv, SendInv, NEW m \in Messages, TimerFires(m)
  PROVE  SendInv'
  <1> DEFINE c == <<"retry", m>>
  <1>1. /\ timer[m] /\ timer' = [timer EXCEPT ![m] = FALSE] /\ calls' = Append(calls, c)
        /\ UNCHANGED <<row, exec, tail, del, pending, hurt, sends>>
    BY DEF TimerFires
  <1>2. /\ SendSound(m) /\ calls \in Seq(Asked) /\ timer \in [Messages -> BOOLEAN]
    BY FormsOf
  <1>3. /\ ~timer'[m] /\ timer' \in [Messages -> BOOLEAN]
        /\ \A x \in Messages \ {m} : timer'[x] = timer[x]
    BY <1>1, <1>2
  <1>4. c[1] = "retry" /\ c[2] = m /\ c \in Asked
    BY DEF Asked
  <1> HIDE DEF c
  <1>5. /\ calls' \in Seq(Asked) /\ RecoveryPasses /\ \A x \in Messages \ {m} : Passes(x)
        /\ \A x : StampsFirst(x) => StampsFirst(x)'
    BY <1>1, <1>2, <1>4, JoinPasses
  <1>6. /\ \A tag \in {"pending", "attempts", "exhausted"} : \A x : Has(tag, x)' => Has(tag, x)
        /\ ~Has("retry", m) => Single("retry", m)'
    <2>1. /\ \A tag, x : ~Is(c, tag, x) => (Has(tag, x)' => Has(tag, x))
          /\ \A tag, x : Is(c, tag, x) /\ ~Has(tag, x) => Single(tag, x)'
      BY <1>1, <1>2, <1>4, JoinPass
    <2> QED BY <1>4, <2>1 DEF Is
  <1>7. ~Unanswered(m) /\ exec[m].at # "stamp" /\ ~Has("exhausted", m)
    BY <1>1, <1>2 DEF SendSound, AnswerIsNew, Unasked, GivenUp
  <1>8. AnswerIsNew(m)' /\ GivenUp(m)'
    BY <1>1, <1>6, <1>7 DEF AnswerIsNew, GivenUp, Unanswered
  <1>9. AttemptsCounted(m)'
    BY <1>1, <1>2 DEF SendSound, AttemptsCounted
  <1>10. OneAsks(m)'
    <2>1. SUFFICES ASSUME Unrecovered(m)' PROVE OneAsks(m)'
      BY DEF OneAsks
    <2>2. Unrecovered(m)
      BY <1>1, <1>6, <2>1 DEF Unrecovered
    <2>3. /\ Len(tail[m]) <= 1 /\ tail[m] = <<>> /\ exec[m].at # "read" /\ LastIs(m, "retry")
          /\ ~Has("retry", m) /\ ~Has("exhausted", m) /\ del[m].at = "idle"
      BY <1>1, <1>2, <2>2, FormsOf DEF SendSound, OneAsks
    <2>4. Single("retry", m)' /\ ~Has("exhausted", m)'
      BY <1>6, <2>3
    <2> QED BY <1>1, <1>3, <2>3, <2>4 DEF OneAsks, LastIs, Sending
  <1>11. Budgeted(m)'
    BY <1>1, <1>2 DEF SendSound, Budgeted, Unasked
  <1>12. SendSound(m)'
    BY <1>8, <1>9, <1>10, <1>11 DEF SendSound
  <1>13. Forms'
    BY <1>1, <1>3, <1>5 DEF SendInv, Forms
  <1>14. \A x \in Messages \ {m} :
           /\ Passes(x) /\ ExecApart(x) /\ row'[x] = row[x] /\ tail'[x] = tail[x]
           /\ del'[x] = del[x] /\ (timer'[x] => timer[x]) /\ sends'[x] = sends[x]
           /\ (hurt'[x] = "no" => hurt[x] = "no") /\ (StampsFirst(x) => StampsFirst(x)')
    BY <1>1, <1>3, <1>5 DEF ExecApart
  <1> QED BY <1>5, <1>12, <1>13, <1>14, OthersApart

\* A call of the recovery, or of a retry, that asks for nothing.
LEMMA DropsBudget ==
  ASSUME Inv, SendInv, NEW m, NEW tag \in {"retry", "attempts"}, Answers(tag, m), Then(<<>>),
         UNCHANGED <<row, exec, tail, del, timer, pending, sends>>, NEW end, NEW who, Ended(end, who)
  PROVE  SendInv'
  <1>1. /\ calls # <<>> /\ \A x : ~Is(Head(calls), "exec", x)
    BY DEF Answers, Is
  <1>2. /\ calls' \in Seq(Asked) /\ RecoveryPasses /\ \A x \in Messages : Passes(x)
        /\ \A x : StampsFirst(x) => StampsFirst(x)'
    <2>1. Plain(<<>>)
      BY DEF Plain
    <2> QED BY <1>1, <2>1, GoesPass
  <1>3. /\ hurt' \in [Messages -> {"no", "now", "once"}]
        /\ \A x \in Messages : hurt'[x] = "no" => hurt[x] = "no"
    <2>1. hurt \in [Messages -> {"no", "now", "once"}]
      BY DEF SendInv, Forms
    <2> QED BY <2>1, EndedHurt
  <1>4. \A x \in Messages : Apart(x)
    BY <1>2, <1>3 DEF Apart, Passes, Unanswered
  <1>5. timer' \in [Messages -> BOOLEAN] /\ \A x \in Messages : row'[x].att = row[x].att
    BY DEF SendInv, Forms
  <1> QED BY <1>2, <1>3, <1>4, <1>5, AllApart

LEMMA RetryBudget ==
  ASSUME Inv, Inv', SendInv, NEW m \in Messages, NEW end, RetryMessage(m, end)
  PROVE  SendInv'
  <1>1. /\ Answers("retry", m) /\ Ended(end, {m})
        /\ UNCHANGED <<row, exec, pending, sends>>
        /\ IF end = "ok" THEN Queues(m, "retry") /\ timer' = [timer EXCEPT ![m] = FALSE]
           ELSE Then(<<>>) /\ UNCHANGED <<tail, del, timer>>
    BY DEF RetryMessage
  <1>2. CASE end # "ok"
    BY <1>1, <1>2, DropsBudget
  <1>3. CASE end = "ok"
    <2>1. /\ SendSound(m) /\ calls \in Seq(Asked) /\ timer \in [Messages -> BOOLEAN]
          /\ (del[m].at = "idle") = (tail[m] = <<>>)
      BY FormsOf
    <2>2. /\ calls # <<>> /\ Is(Head(calls), "retry", m) /\ Has("retry", m)
          /\ \A x : ~Is(Head(calls), "exec", x)
      <3>1. calls # <<>> /\ Is(Head(calls), "retry", m) /\ \A x : ~Is(Head(calls), "exec", x)
        BY <1>1 DEF Answers, Is
      <3>2. 1 \in DOMAIN calls /\ Head(calls) = calls[1]
        BY <2>1, <3>1
      <3> QED BY <3>1, <3>2 DEF Has
    <2>3. PICK more : Plain(more) /\ Then(more)
      BY <1>1, <1>3, QueueParts DEF SendInv
    <2>4. /\ \A x \in Messages : Passes(x)
          /\ \A x : StampsFirst(x) => StampsFirst(x)'
          /\ Single("retry", m) => ~Has("retry", m)'
      <3>1. more \in Seq(Asked) /\ \A j \in DOMAIN more : ~Is(more[j], "retry", m)
        BY <2>3 DEF Plain, Is
      <3>2. Single("retry", m) => ~Has("retry", m)'
        BY <2>1, <2>2, <2>3, <3>1, TakenPass
      <3>3. /\ \A x \in Messages : Passes(x)
            /\ \A x : StampsFirst(x) => StampsFirst(x)'
        BY <1>1, <2>2, <2>3, GoesPass
      <3> QED BY <3>2, <3>3
    <2>5. ~Unanswered(m)' /\ exec'[m].at # "stamp" /\ ~Has("exhausted", m)
      BY <1>1, <2>1, <2>2 DEF SendSound, AnswerIsNew, Unasked, GivenUp, Unanswered
    <2>6. Unrecovered(m)' =>
            /\ tail[m] = <<>> /\ ~timer'[m] /\ ~Has("retry", m)' /\ exec'[m].at # "read"
            /\ row[m].att = <<>> \/ LastIs(m, "retry")
      <3>1. Unrecovered(m) => /\ tail[m] = <<>> /\ exec[m].at # "read" /\ LastIs(m, "retry")
                              /\ Single("retry", m)
        BY <2>1, <2>2 DEF SendSound, OneAsks
      <3>2. ~timer'[m]
        BY <1>1, <1>3, <2>1
      <3> QED BY <1>1, <2>4, <3>1, <3>2 DEF Passes
    <2>7. hurt[m] = "no" => \/ row[m].out \in Final \/ ~(Len(row[m].att) >= MaxAttempts)
                            \/ del[m].at \in Sending /\ del[m].attempt >= MaxAttempts
      BY <2>1, <2>2 DEF SendSound, Budgeted, Unasked
    <2> DEFINE who == "retry"
    <2>8. /\ who \in {"exec", "retry", "recovery"} /\ Queues(m, who)
          /\ UNCHANGED <<row, pending, sends>> /\ timer' \in [Messages -> BOOLEAN]
          /\ (timer'[m] => timer[m])
          /\ \A x \in Messages \ {m} :
               /\ exec'[x] = exec[x] /\ timer'[x] = timer[x]
               /\ StampsFirst(x) => StampsFirst(x)'
      BY <1>1, <1>3, <2>1, <2>4
    <2> HIDE DEF who
    <2> QED BY <1>1, <2>2, <2>5, <2>6, <2>7, <2>8, QueuesSound
  <1> QED BY <1>2, <1>3

LEMMA BeginsBudget ==
  ASSUME Inv, SendInv, RecoveryBegins
  PROVE  SendInv'
  <1> DEFINE c == <<"pending", "all">>
  <1>1. /\ pending = "idle" /\ pending' = "begun" /\ calls' = Append(calls, c)
        /\ UNCHANGED <<row, exec, tail, del, timer, hurt, sends>>
    BY DEF RecoveryBegins
  <1>2. calls \in Seq(Asked) /\ RecoversOnce
    BY DEF SendInv, Forms
  <1>3. c \in Asked /\ c[1] = "pending" /\ c[2] = "all"
    BY DEF Asked
  <1> HIDE DEF c
  <1>4. /\ calls' \in Seq(Asked)
        /\ \A tag, x : ~Is(c, tag, x) => /\ Has(tag, x)' => Has(tag, x)
                                         /\ Single(tag, x) => Single(tag, x)'
        /\ \A tag, x : Is(c, tag, x) /\ ~Has(tag, x) => Single(tag, x)'
        /\ \A x : StampsFirst(x) => StampsFirst(x)'
    BY <1>1, <1>2, <1>3, JoinPass
  <1>5. \A tag \in {"retry", "attempts", "exhausted"} : \A x :
          /\ Has(tag, x)' => Has(tag, x)
          /\ Single(tag, x) => Single(tag, x)'
    BY <1>3, <1>4 DEF Is
  <1>6. RecoversOnce'
    <2>1. Single("pending", "all")'
      BY <1>1, <1>2, <1>3, <1>4 DEF RecoversOnce, Is
    <2>2. \A x \in Messages : ~Has("attempts", x) /\ ~Has("exhausted", x) /\ Single("attempts", x)
      BY <1>1, <1>2 DEF RecoversOnce
    <2>3. \A x \in Messages : ~Has("attempts", x)' /\ ~Has("exhausted", x)' /\ Single("attempts", x)'
      BY <1>5, <2>2
    <2>4. pending' # "idle"
      BY <1>1
    <2> QED BY <2>1, <2>3, <2>4 DEF RecoversOnce
  <1>7. \A x \in Messages : Apart(x)
    BY <1>1, <1>4, <1>5 DEF Apart, Unanswered, Unrecovered
  <1>8. \A x \in Messages : SendSound(x)'
    BY <1>7, ApartKeeps DEF SendInv
  <1>9. Forms'
    BY <1>1, <1>4 DEF SendInv, Forms
  <1> QED BY <1>6, <1>8, <1>9 DEF SendInv

(* The recovery *)

\* The recovery lists every message that is not delivered, once.
LEMMA ListedOnce ==
  ASSUME NEW order \in SetToSeqs(PendingMessages), NEW more,
         more = [i \in DOMAIN order |-> <<"attempts", order[i]>>]
  PROVE  /\ more \in Seq(Asked)
         /\ \A j \in DOMAIN more : more[j][1] = "attempts" /\ more[j][2] \in PendingMessages
         /\ \A j, k \in DOMAIN more : more[j][2] = more[k][2] => j = k
  <1> DEFINE n == Cardinality(PendingMessages)
  <1>1. n \in Nat
    <2>1. PendingMessages \in SUBSET Messages
      BY DEF PendingMessages
    <2>2. IsFiniteSet(PendingMessages)
      BY <2>1, ChannelAssumption, FS_Subset DEF ChannelAssumption
    <2> QED BY <2>2, FS_CardinalityType
  <1>2. /\ order \in [1 .. n -> PendingMessages]
        /\ \A i, j \in 1 .. n : i # j => order[i] # order[j]
    BY DEF SetToSeqs
  <1> HIDE DEF n
  <1>3. /\ DOMAIN order = 1 .. n /\ DOMAIN more = 1 .. n
        /\ \A j \in 1 .. n : more[j] = <<"attempts", order[j]>> /\ order[j] \in PendingMessages
    BY <1>2
  <1>4. \A j \in 1 .. n : /\ more[j][1] = "attempts" /\ more[j][2] = order[j]
                          /\ more[j] \in Asked
    BY <1>3 DEF Asked, PendingMessages
  <1>5. more \in [1 .. n -> Asked]
    BY <1>3, <1>4
  <1>6. more \in Seq(Asked)
    BY <1>1, <1>5
  <1> QED BY <1>2, <1>3, <1>4, <1>6

LEMMA PendingBudget ==
  ASSUME Inv, SendInv, NEW end, RetryPending(end)
  PROVE  SendInv'
  <1>1. /\ Answers("pending", "all") /\ Ended(end, Messages)
        /\ UNCHANGED <<row, exec, tail, del, timer, pending, sends>>
        /\ \/ \E order \in SetToSeqs(PendingMessages) :
                Then([i \in DOMAIN order |-> <<"attempts", order[i]>>])
           \/ Then(<<>>)
    BY DEF RetryPending
  <1>2. calls \in Seq(Asked) /\ RecoversOnce /\ hurt \in [Messages -> {"no", "now", "once"}]
        /\ timer \in [Messages -> BOOLEAN]
    BY DEF SendInv, Forms
  <1>3. PICK more \in Seq(Asked) :
          /\ Then(more)
          /\ \A j \in DOMAIN more : more[j][1] = "attempts" /\ more[j][2] \in PendingMessages
          /\ \A j, k \in DOMAIN more : more[j][2] = more[k][2] => j = k
    <2>1. CASE Then(<<>>)
      <3>1. <<>> \in Seq(Asked) /\ DOMAIN <<>> = {}
        OBVIOUS
      <3> QED BY <2>1, <3>1
    <2>2. ASSUME NEW order \in SetToSeqs(PendingMessages),
                 Then([i \in DOMAIN order |-> <<"attempts", order[i]>>])
          PROVE  \E more \in Seq(Asked) :
                   /\ Then(more)
                   /\ \A j \in DOMAIN more : more[j][1] = "attempts" /\ more[j][2] \in PendingMessages
                   /\ \A j, k \in DOMAIN more : more[j][2] = more[k][2] => j = k
      <3> DEFINE more == [i \in DOMAIN order |-> <<"attempts", order[i]>>]
      <3>1. Then(more)
        BY <2>2
      <3>2. /\ more \in Seq(Asked)
            /\ \A j \in DOMAIN more : more[j][1] = "attempts" /\ more[j][2] \in PendingMessages
            /\ \A j, k \in DOMAIN more : more[j][2] = more[k][2] => j = k
        BY ListedOnce
      <3> HIDE DEF more
      <3> QED BY <3>1, <3>2
    <2> QED BY <1>1, <2>1, <2>2
  <1>4. /\ calls # <<>> /\ Is(Head(calls), "pending", "all") /\ Has("pending", "all")
        /\ \A x : ~Is(Head(calls), "exec", x)
    <2>1. calls # <<>> /\ Is(Head(calls), "pending", "all") /\ \A x : ~Is(Head(calls), "exec", x)
      BY <1>1 DEF Answers, Is
    <2>2. 1 \in DOMAIN calls /\ Head(calls) = calls[1]
      BY <1>2, <2>1
    <2> QED BY <2>1, <2>2 DEF Has
  <1>5. /\ pending # "idle" /\ Single("pending", "all")
        /\ \A x \in Messages : ~Has("attempts", x) /\ ~Has("exhausted", x)
    BY <1>2, <1>4 DEF RecoversOnce
  <1>6. /\ calls' \in Seq(Asked)
        /\ \A i \in DOMAIN calls' :
              \/ i + 1 \in DOMAIN calls /\ calls'[i] = calls[i + 1]
              \/ /\ i >= Len(calls) /\ i - (Len(calls) - 1) \in DOMAIN more
                 /\ calls'[i] = more[i - (Len(calls) - 1)]
    BY <1>2, <1>3, <1>4, Taken
  <1>7. /\ ~Has("pending", "all")'
        /\ \A x : /\ \A tag \in {"retry", "exhausted"} : Has(tag, x)' => Has(tag, x)
                  /\ Single("retry", x) => Single("retry", x)'
    <2>1. \A tag \in {"retry", "exhausted", "pending"} : \A x : \A j \in DOMAIN more : ~Is(more[j], tag, x)
      BY <1>3 DEF Is
    <2>2. ASSUME NEW tag \in {"retry", "exhausted", "pending"}, NEW x
          PROVE  /\ Has(tag, x)' => Has(tag, x)
                 /\ Single(tag, x) => Single(tag, x)'
                 /\ Single(tag, x) /\ Is(Head(calls), tag, x) => ~Has(tag, x)'
      BY <1>2, <1>3, <1>4, <2>1, TakenPass
    <2> QED BY <1>4, <1>5, <2>2
  <1>8. ASSUME NEW x \in Messages, NEW i \in DOMAIN calls', Is(calls'[i], "attempts", x)
        PROVE  /\ i >= Len(calls) /\ i - (Len(calls) - 1) \in DOMAIN more
               /\ more[i - (Len(calls) - 1)][2] = x /\ x \in PendingMessages
    <2>1. ~(i + 1 \in DOMAIN calls /\ calls'[i] = calls[i + 1])
      BY <1>5, <1>8 DEF Has, Is
    <2>2. /\ i >= Len(calls) /\ i - (Len(calls) - 1) \in DOMAIN more
          /\ calls'[i] = more[i - (Len(calls) - 1)]
      BY <1>6, <2>1
    <2> DEFINE k == i - (Len(calls) - 1)
    <2>3. k \in DOMAIN more /\ calls'[i] = more[k]
      BY <2>2
    <2> HIDE DEF k
    <2>4. more[k][2] = x /\ x \in PendingMessages
      BY <1>3, <1>8, <2>3 DEF Is
    <2> QED BY <2>2, <2>4 DEF k
  <1>9. ASSUME NEW x \in Messages PROVE Single("attempts", x)'
    <2>1. ASSUME NEW i \in DOMAIN calls', NEW j \in DOMAIN calls',
                 Is(calls'[i], "attempts", x), Is(calls'[j], "attempts", x)
          PROVE  i = j
      <3>1. /\ i - (Len(calls) - 1) \in DOMAIN more /\ more[i - (Len(calls) - 1)][2] = x
            /\ j - (Len(calls) - 1) \in DOMAIN more /\ more[j - (Len(calls) - 1)][2] = x
        BY <1>8, <2>1
      <3>2. i - (Len(calls) - 1) = j - (Len(calls) - 1)
        BY <1>3, <3>1
      <3>3. Len(calls) \in Nat /\ i \in Nat /\ j \in Nat
        BY <1>2, <1>6
      <3> QED BY <3>2, <3>3
    <2> QED BY <2>1 DEF Single, Is
  <1>10. RecoversOnce'
    <2>1. Single("pending", "all")'
      BY <1>7 DEF Single, Has
    <2> QED BY <1>1, <1>5, <1>7, <1>9, <2>1 DEF RecoversOnce
  <1>11. ASSUME NEW x \in Messages, StampsFirst(x) PROVE StampsFirst(x)'
    <2>1. PICK k \in DOMAIN calls :
            /\ Is(calls[k], "exec", x)
            /\ \A i \in DOMAIN calls : Is(calls[i], "attempts", x) => k < i
      BY <1>11 DEF StampsFirst
    <2>2. Head(calls) = calls[1] /\ Len(calls) \in Nat /\ DOMAIN calls = 1 .. Len(calls)
      BY <1>2, <1>4
    <2>3. k > 1
      BY <1>4, <2>1, <2>2
    <2>4. k - 1 \in DOMAIN calls' /\ Is(calls'[k - 1], "exec", x)
      BY <1>2, <1>3, <1>4, <2>1, <2>3, Taken
    <2>5. ASSUME NEW i \in DOMAIN calls', Is(calls'[i], "attempts", x) PROVE k - 1 < i
      <3>1. i >= Len(calls) /\ i \in Nat
        BY <1>6, <1>8, <2>5
      <3> QED BY <2>1, <2>2, <3>1
    <2> QED BY <2>4, <2>5 DEF StampsFirst, Is
  <1>12. ASSUME NEW x \in Messages PROVE SendSound(x)'
    <2>1. SendSound(x) /\ Unrecovered(x)
      BY <1>4 DEF SendInv, Unrecovered
    <2>2. Has("attempts", x)' => ~Unanswered(x)'
      <3>1. SUFFICES ASSUME Has("attempts", x)' PROVE ~Unanswered(x)'
        OBVIOUS
      <3>2. x \in PendingMessages
        BY <1>8, <3>1 DEF Has, Is
      <3>3. row[x].out # "none"
        BY <3>2 DEF PendingMessages, Undelivered
      <3> QED BY <1>1, <2>1, <3>3 DEF SendSound, AnswerIsNew, Unanswered
    <2>3. hurt'[x] = "no" => hurt[x] = "no"
      BY <1>1, <1>2, EndedHurt
    <2>4. Apart(x)
      BY <1>1, <1>7, <1>11, <2>1, <2>2, <2>3 DEF Apart, Unanswered
    <2> QED BY <2>1, <2>4, ApartKeeps
  <1>13. Forms'
    <2>1. hurt' \in [Messages -> {"no", "now", "once"}]
      BY <1>1, <1>2, EndedHurt
    <2> QED BY <1>1, <1>6, <2>1 DEF SendInv, Forms
  <1> QED BY <1>10, <1>12, <1>13 DEF SendInv

\* The recovery has looked at the attempts of a message.
LEMMA Looked ==
  ASSUME SendInv, NEW m \in Messages, Answers("attempts", m),
         NEW more \in Seq(Asked), Then(more), pending' = pending,
         \A j \in DOMAIN more : more[j][1] = "deliver" \/ Is(more[j], "exhausted", m)
  PROVE  /\ calls # <<>> /\ Has("attempts", m) /\ Unrecovered(m) /\ ~Unrecovered(m)'
         /\ calls' \in Seq(Asked) /\ RecoversOnce'
         /\ \A x : Has("retry", x)' => Has("retry", x)
         /\ \A x \in Messages \ {m} : Passes(x)
         /\ \A x : StampsFirst(x) => StampsFirst(x)'
         /\ ~Unanswered(m) /\ exec[m].at # "stamp" /\ ~Has("exhausted", m)
         /\ \A x : ~Is(Head(calls), "exec", x)
  <1>1. SendSound(m) /\ calls \in Seq(Asked) /\ RecoversOnce
    BY FormsOf
  <1>2. /\ calls # <<>> /\ Is(Head(calls), "attempts", m) /\ Has("attempts", m)
        /\ \A x : ~Is(Head(calls), "exec", x) /\ 1 \in DOMAIN calls /\ Head(calls) = calls[1]
    <2>1. calls # <<>> /\ Is(Head(calls), "attempts", m) /\ \A x : ~Is(Head(calls), "exec", x)
      BY DEF Answers, Is
    <2>2. 1 \in DOMAIN calls /\ Head(calls) = calls[1]
      BY <1>1, <2>1
    <2> QED BY <2>1, <2>2 DEF Has
  <1>3. pending # "idle" /\ ~Has("pending", "all") /\ Single("attempts", m) /\ Unrecovered(m)
    BY <1>1, <1>2 DEF RecoversOnce, Unrecovered
  <1>4. ASSUME NEW tag \in {"retry", "attempts", "pending"}, NEW x
        PROVE  /\ Has(tag, x)' => Has(tag, x)
               /\ Single(tag, x) => Single(tag, x)'
               /\ Single(tag, x) /\ Is(Head(calls), tag, x) => ~Has(tag, x)'
    <2>1. \A j \in DOMAIN more : ~Is(more[j], tag, x)
      BY <1>4 DEF Is
    <2> QED BY <1>1, <1>2, <2>1, TakenPass
  <1>5. ASSUME NEW x \in Messages \ {m} PROVE Has("exhausted", x)' => Has("exhausted", x)
    <2>1. \A j \in DOMAIN more : ~Is(more[j], "exhausted", x)
      BY DEF Is
    <2> QED BY <1>1, <1>2, <2>1, TakenPass
  <1>6. ~Unrecovered(m)' /\ ~Has("pending", "all")'
    BY <1>2, <1>3, <1>4 DEF Unrecovered
  <1>7. RecoversOnce'
    <2>1. Single("pending", "all")'
      BY <1>6 DEF Single, Has
    <2>2. \A x \in Messages : Single("attempts", x)'
      BY <1>1, <1>4 DEF RecoversOnce
    <2>3. pending' # "idle"
      BY <1>3
    <2> QED BY <1>6, <2>1, <2>2, <2>3 DEF RecoversOnce
  <1>8. \A x \in Messages \ {m} : Passes(x)
    BY <1>4, <1>5 DEF Passes, Unrecovered
  <1>9. \A x : StampsFirst(x) => StampsFirst(x)'
    BY <1>1, <1>2, TakenFirst
  <1>10. ~Unanswered(m) /\ ~Has("exhausted", m)
    BY <1>1, <1>2, <1>3 DEF SendSound, AnswerIsNew, OneAsks
  <1>11. exec[m].at # "stamp"
    <2>1. SUFFICES ASSUME exec[m].at = "stamp" PROVE FALSE
      OBVIOUS
    <2>2. PICK k \in DOMAIN calls : \A i \in DOMAIN calls : Is(calls[i], "attempts", m) => k < i
      BY <1>1, <2>1 DEF SendSound, AnswerIsNew, StampsFirst
    <2>3. k < 1
      BY <1>2, <2>2
    <2>4. k >= 1 /\ k \in Nat
      BY <1>1
    <2> QED BY <2>3, <2>4
  <1>12. calls' \in Seq(Asked)
    BY <1>1, <1>2, Taken
  <1> QED BY <1>2, <1>3, <1>4, <1>6, <1>7, <1>8, <1>9, <1>10, <1>11, <1>12

LEMMA SpentBudget ==
  ASSUME Inv, SendInv, NEW m \in Messages, Answers("attempts", m), Ended("ok", {m}),
         UNCHANGED <<row, exec, tail, del, timer, pending, sends>>,
         LastStatus(m) \notin Settled, Len(row[m].att) >= MaxAttempts,
         Then(<<<<"exhausted", m, Len(row[m].att) + 1>>>>)
  PROVE  SendInv'
  <1> DEFINE more == <<<<"exhausted", m, Len(row[m].att) + 1>>>>
  <1>1. /\ SendSound(m) /\ Len(row[m].att) \in Nat /\ MaxAttempts \in Nat \ {0}
        /\ timer \in [Messages -> BOOLEAN] /\ row[m].att \in Seq(Statuses)
        /\ (del[m].at = "idle") = (tail[m] = <<>>) /\ del[m].attempt \in Nat
    BY FormsOf
  <1>2. /\ more \in Seq(Asked) /\ Then(more)
        /\ \A j \in DOMAIN more : more[j][1] = "deliver" \/ Is(more[j], "exhausted", m)
    <2>1. Len(row[m].att) + 1 \in Nat \ {0}
      BY <1>1
    <2>2. <<"exhausted", m, Len(row[m].att) + 1>> \in Asked
      BY <2>1 DEF Asked
    <2> QED BY <2>2 DEF Is
  <1> HIDE DEF more
  <1>3. /\ Unrecovered(m) /\ ~Unrecovered(m)' /\ calls' \in Seq(Asked) /\ RecoversOnce'
        /\ Has("retry", m)' => Has("retry", m)
        /\ \A x \in Messages \ {m} : Passes(x)
        /\ \A x : StampsFirst(x) => StampsFirst(x)'
        /\ ~Unanswered(m) /\ exec[m].at # "stamp"
    BY <1>2, Looked
  <1>4. UNCHANGED hurt
    BY DEF Ended
  <1>5. /\ row[m].att # <<>> /\ ~LastIs(m, "retry")
    <2>1. Len(<<>>) = 0 /\ ~(0 >= MaxAttempts)
      BY <1>1
    <2>2. row[m].att # <<>>
      BY <2>1
    <2>3. ASSUME LastIs(m, "retry") PROVE FALSE
      <3>1. Len(row[m].att) \in DOMAIN row[m].att
        BY <1>1, <2>2
      <3>2. Len(row[m].att) < MaxAttempts
        BY <1>1, <2>3, <3>1 DEF LastIs, SendSound, AttemptsCounted
      <3> QED BY <1>1, <3>2
    <2> QED BY <2>2, <2>3
  <1>6. /\ ~timer[m] /\ ~Has("retry", m) /\ exec[m].at # "read" /\ Len(tail[m]) <= 1
        /\ del[m].at \notin {"load", "list", "lease", "sending"}
        /\ del[m].at \in Sending => del[m].attempt >= Len(row[m].att)
    BY <1>1, <1>3, <1>5 DEF SendSound, OneAsks
  <1>7. del[m].at \in Sending => del[m].attempt >= MaxAttempts
    BY <1>1, <1>6
  <1>8. SendSound(m)'
    <2>1. AnswerIsNew(m)' /\ OneAsks(m)'
      BY <1>3 DEF AnswerIsNew, OneAsks, Unanswered
    <2>2. GivenUp(m)'
      BY <1>3, <1>6, <1>7 DEF GivenUp
    <2>3. AttemptsCounted(m)'
      BY <1>1 DEF SendSound, AttemptsCounted
    <2>4. Budgeted(m)'
      BY <1>1, <1>3, <1>4 DEF SendSound, Budgeted, Unasked
    <2> QED BY <2>1, <2>2, <2>3, <2>4 DEF SendSound
  <1>9. ASSUME NEW x \in Messages PROVE SendSound(x)'
    <2>1. CASE x = m
      BY <1>8, <2>1
    <2>2. CASE x # m
      <3>1. SendSound(x) /\ Passes(x) /\ ExecApart(x)
        BY <1>3, <2>2 DEF SendInv, ExecApart
      <3> QED BY <1>3, <1>4, <3>1, Elsewhere
    <2> QED BY <2>1, <2>2
  <1>10. Forms'
    BY <1>3, <1>4 DEF SendInv, Forms
  <1> QED BY <1>3, <1>9, <1>10 DEF SendInv

LEMMA TimesBudget ==
  ASSUME Inv, SendInv, NEW m \in Messages, Answers("attempts", m), Ended("ok", {m}),
         UNCHANGED <<row, exec, tail, del, pending, sends>>,
         ~(Len(row[m].att) >= MaxAttempts), timer' = [timer EXCEPT ![m] = TRUE], Then(<<>>)
  PROVE  SendInv'
  <1>1. SendSound(m) /\ timer \in [Messages -> BOOLEAN]
    BY FormsOf
  <1>2. Plain(<<>>) /\ <<>> \in Seq(Asked)
        /\ \A j \in DOMAIN <<>> : <<>>[j][1] = "deliver" \/ Is(<<>>[j], "exhausted", m)
    BY DEF Plain
  <1>3. /\ ~Unrecovered(m)' /\ ~Unanswered(m) /\ exec[m].at # "stamp" /\ ~Has("exhausted", m)
        /\ calls # <<>> /\ \A x : ~Is(Head(calls), "exec", x)
    BY <1>2, Looked
  <1>4. /\ calls' \in Seq(Asked) /\ RecoveryPasses /\ \A x \in Messages : Passes(x)
        /\ \A x : StampsFirst(x) => StampsFirst(x)'
    BY <1>2, <1>3, GoesPass
  <1>5. UNCHANGED hurt
    BY DEF Ended
  <1>6. /\ timer' \in [Messages -> BOOLEAN] /\ \A x \in Messages \ {m} : timer'[x] = timer[x]
    BY <1>1
  <1>7. SendSound(m)'
    <2>1. ~Has("exhausted", m)'
      BY <1>3, <1>4 DEF Passes
    <2>2. AnswerIsNew(m)' /\ OneAsks(m)' /\ GivenUp(m)'
      BY <1>3, <2>1 DEF AnswerIsNew, OneAsks, Unanswered, GivenUp
    <2>3. AttemptsCounted(m)'
      BY <1>1 DEF SendSound, AttemptsCounted
    <2>4. Budgeted(m)'
      BY <1>1, <1>5 DEF SendSound, Budgeted
    <2> QED BY <2>2, <2>3, <2>4 DEF SendSound
  <1>8. Forms'
    BY <1>4, <1>5, <1>6 DEF SendInv, Forms
  <1>9. \A x \in Messages \ {m} :
          /\ Passes(x) /\ ExecApart(x) /\ row'[x] = row[x] /\ tail'[x] = tail[x]
          /\ del'[x] = del[x] /\ (timer'[x] => timer[x]) /\ sends'[x] = sends[x]
          /\ (hurt'[x] = "no" => hurt[x] = "no") /\ (StampsFirst(x) => StampsFirst(x)')
    BY <1>4, <1>5, <1>6 DEF ExecApart
  <1> QED BY <1>4, <1>7, <1>8, <1>9, OthersApart

LEMMA RecoversBudget ==
  ASSUME Inv, Inv', SendInv, NEW m \in Messages, Answers("attempts", m), Ended("ok", {m}),
         UNCHANGED <<row, exec, timer, pending, sends>>,
         ~(Len(row[m].att) >= MaxAttempts), Queues(m, "recovery")
  PROVE  SendInv'
  <1>1. SendSound(m) /\ timer \in [Messages -> BOOLEAN]
    BY FormsOf
  <1>2. PICK more \in Seq(Asked) :
          Plain(more) /\ Then(more) /\ \A j \in DOMAIN more : more[j][1] = "deliver"
    <2>1. CASE Then(<<>>)
      <3>1. Plain(<<>>) /\ <<>> \in Seq(Asked) /\ DOMAIN <<>> = {}
        BY DEF Plain
      <3> QED BY <2>1, <3>1
    <2>2. CASE Then(<<<<"deliver", m>>>>)
      <3> DEFINE more == <<<<"deliver", m>>>>
      <3>1. /\ Plain(more) /\ more \in Seq(Asked) /\ Then(more)
            /\ \A j \in DOMAIN more : more[j][1] = "deliver"
        BY <2>2 DEF Plain, Asked
      <3> HIDE DEF more
      <3> QED BY <3>1
    <2> QED BY <2>1, <2>2 DEF Queues
  <1>3. calls # <<>> /\ \A x : ~Is(Head(calls), "exec", x)
    BY DEF Answers, Is
  <1>4. \A x : StampsFirst(x) => StampsFirst(x)'
    BY <1>2, <1>3, GoesPass
  <1>5. /\ ~Unrecovered(m)' /\ ~Unanswered(m) /\ exec[m].at # "stamp" /\ ~Has("exhausted", m)
    BY <1>2, Looked
  <1>6. ~Unanswered(m)' /\ exec'[m].at # "stamp"
    BY <1>5 DEF Unanswered
  <1> DEFINE who == "recovery"
             end == "ok"
  <1>7. /\ who \in {"exec", "retry", "recovery"} /\ Queues(m, who) /\ Ended(end, {m})
        /\ timer' \in [Messages -> BOOLEAN] /\ (timer'[m] => timer[m])
        /\ \A x \in Messages \ {m} :
             /\ exec'[x] = exec[x] /\ timer'[x] = timer[x]
             /\ StampsFirst(x) => StampsFirst(x)'
    BY <1>1, <1>4
  <1> HIDE DEF who, end
  <1> QED BY <1>3, <1>5, <1>6, <1>7, QueuesSound

LEMMA LooksBudget ==
  ASSUME Inv, Inv', SendInv, NEW m \in Messages, NEW end, ScheduleOrDeliver(m, end)
  PROVE  SendInv'
  <1> DEFINE spent == Len(row[m].att) >= MaxAttempts
  <1>1. /\ Answers("attempts", m) /\ Ended(end, {m})
        /\ UNCHANGED <<row, exec, pending, sends>>
        /\ \/ Then(<<>>) /\ UNCHANGED <<tail, del, timer>>
           \/ /\ end = "ok" /\ LastStatus(m) \notin Settled /\ spent
              /\ Then(<<<<"exhausted", m, Len(row[m].att) + 1>>>>)
              /\ UNCHANGED <<tail, del, timer>>
           \/ /\ end = "ok" /\ ~spent /\ timer' = [timer EXCEPT ![m] = TRUE]
              /\ Then(<<>>) /\ UNCHANGED <<tail, del>>
           \/ end = "ok" /\ ~spent /\ Queues(m, "recovery") /\ UNCHANGED timer
    BY DEF ScheduleOrDeliver
  <1>2. CASE Then(<<>>) /\ UNCHANGED <<tail, del, timer>>
    BY <1>1, <1>2, DropsBudget
  <1>3. CASE /\ end = "ok" /\ LastStatus(m) \notin Settled /\ spent
             /\ Then(<<<<"exhausted", m, Len(row[m].att) + 1>>>>)
             /\ UNCHANGED <<tail, del, timer>>
    BY <1>1, <1>3, SpentBudget
  <1>4. CASE /\ end = "ok" /\ ~spent /\ timer' = [timer EXCEPT ![m] = TRUE]
             /\ Then(<<>>) /\ UNCHANGED <<tail, del>>
    BY <1>1, <1>4, TimesBudget
  <1>5. CASE end = "ok" /\ ~spent /\ Queues(m, "recovery") /\ UNCHANGED timer
    BY <1>1, <1>5, RecoversBudget
  <1> QED BY <1>1, <1>2, <1>3, <1>4, <1>5

LEMMA ExhaustedBudget ==
  ASSUME Inv, SendInv, NEW m \in Messages, NEW end, Exhausted(m, end)
  PROVE  SendInv'
  <1> DEFINE n == Head(calls)[3]
  <1>1. /\ Answers("exhausted", m) /\ Applied(end, Recorded(m, n, "dead-letter"))
        /\ Then(<<>>) /\ Ended(end, {m})
        /\ UNCHANGED <<exec, tail, del, timer, pending, sends>>
    BY DEF Exhausted
  <1>2. /\ SendSound(m) /\ calls \in Seq(Asked) /\ Len(row[m].att) \in Nat /\ sends[m] \in Nat
        /\ MaxAttempts \in Nat \ {0} /\ del[m].attempt \in Nat
    BY FormsOf
  <1>3. /\ calls # <<>> /\ Has("exhausted", m) /\ \A x : ~Is(Head(calls), "exec", x)
    <2>1. calls # <<>> /\ Is(Head(calls), "exhausted", m) /\ \A x : ~Is(Head(calls), "exec", x)
      BY <1>1 DEF Answers, Is
    <2>2. 1 \in DOMAIN calls /\ Head(calls) = calls[1]
      BY <1>2, <2>1
    <2> QED BY <2>1, <2>2 DEF Has
  <1>4. n \in Nat \ {0}
    <2>1. Head(calls) \in Asked /\ Head(calls)[1] = "exhausted"
      BY <1>1, <1>2, <1>3 DEF Answers
    <2> QED BY <2>1 DEF Asked
  <1> HIDE DEF n
  <1>5. /\ calls' \in Seq(Asked) /\ RecoveryPasses /\ \A x \in Messages : Passes(x)
        /\ \A x : StampsFirst(x) => StampsFirst(x)'
    <2>1. Plain(<<>>)
      BY DEF Plain
    <2> QED BY <1>1, <1>3, <2>1, GoesPass
  <1>6. /\ hurt' \in [Messages -> {"no", "now", "once"}]
        /\ \A x \in Messages : hurt'[x] = "no" => hurt[x] = "no" /\ (end = "ok" \/ x # m)
    <2>1. hurt \in [Messages -> {"no", "now", "once"}] /\ Ended(end, {m})
      BY <1>1, FormsOf
    <2> QED BY <2>1, EndedHurt
  <1>7. /\ \A x \in Messages \ {m} : row'[x] = row[x]
        /\ row'[m].inb = row[m].inb
        /\ row'[m].att \in Seq(Statuses) /\ Len(row'[m].att) \in Nat
        /\ Len(row'[m].att) >= Len(row[m].att)
        /\ end # "refused" => row'[m].out = "dead-letter"
        /\ \A i \in DOMAIN row'[m].att : row'[m].att[i] = "retry" => i < MaxAttempts
    <2> DEFINE status == "dead-letter"
    <2>1. /\ status \in Statuses /\ MessageStatus(status) = "dead-letter"
          /\ (status = "retry" => n < MaxAttempts) /\ Applied(end, Recorded(m, n, status))
      BY <1>1 DEF Statuses, MessageStatus
    <2>2. \A i \in DOMAIN row[m].att : row[m].att[i] = "retry" => i < MaxAttempts
      BY <1>2 DEF SendSound, AttemptsCounted
    <2> HIDE DEF status
    <2>3. /\ \A x \in Messages \ {m} : row'[x] = row[x]
          /\ row'[m].inb = row[m].inb /\ row'[m].att \in Seq(Statuses) /\ Len(row'[m].att) \in Nat
          /\ end = "refused" => row' = row
          /\ end # "refused" =>
               /\ row'[m].out = "dead-letter"
               /\ n > Len(row[m].att) => Len(row'[m].att) = Len(row[m].att) + 1
               /\ n <= Len(row[m].att) => Len(row'[m].att) = Len(row[m].att)
          /\ \A i \in DOMAIN row'[m].att : row'[m].att[i] = "retry" => i < MaxAttempts
      BY <1>1, <1>4, <2>1, <2>2, RecordedAttempt
    <2>4. Len(row'[m].att) >= Len(row[m].att)
      <3>1. CASE end = "refused"
        BY <1>2, <2>3, <3>1
      <3>2. CASE end # "refused"
        BY <1>2, <1>4, <2>3, <3>2
      <3> QED BY <3>1, <3>2
    <2> QED BY <2>3, <2>4
  <1>8. /\ ~Unrecovered(m) /\ ~Unanswered(m) /\ exec[m].at # "stamp"
        /\ ~timer[m] /\ ~Has("retry", m) /\ exec[m].at # "read" /\ Len(tail[m]) <= 1
        /\ del[m].at \notin {"load", "list", "lease", "sending"}
        /\ del[m].at \in Sending => del[m].attempt >= MaxAttempts
    BY <1>2, <1>3 DEF SendSound, OneAsks, AnswerIsNew, GivenUp
  <1>9. ~Unrecovered(m)' /\ ~Has("retry", m)'
    BY <1>5, <1>8 DEF Passes
  <1>10. AnswerIsNew(m)' /\ OneAsks(m)' /\ GivenUp(m)'
    <2>2. ~Unanswered(m)'
      BY <1>1, <1>7, <1>8 DEF Unanswered
    <2> QED BY <1>1, <1>8, <1>9, <2>2 DEF AnswerIsNew, OneAsks, GivenUp
  <1>11. AttemptsCounted(m)'
    <2>1. /\ del[m].at \in {"send", "sent"} => del[m].attempt \in 1 .. Len(row[m].att)
          /\ del[m].at = "catch" => del[m].attempt \in 1 .. Len(row[m].att) + 1
      BY <1>2 DEF SendSound, AttemptsCounted
    <2> DEFINE a == Len(row[m].att)
               b == Len(row'[m].att)
    <2>2. 1 .. a \subseteq 1 .. b /\ 1 .. a + 1 \subseteq 1 .. b + 1
      <3>1. a \in Nat /\ b \in Nat /\ b >= a
        BY <1>2, <1>7
      <3> HIDE DEF a, b
      <3> QED BY <3>1
    <2>3. /\ del[m].at \in {"send", "sent"} => del[m].attempt \in 1 .. Len(row'[m].att)
          /\ del[m].at = "catch" => del[m].attempt \in 1 .. Len(row'[m].att) + 1
      BY <2>1, <2>2
    <2> QED BY <1>1, <1>7, <1>8, <2>3 DEF AttemptsCounted
  <1>12. Budgeted(m)'
    <2>1. SUFFICES ASSUME hurt'[m] = "no" PROVE Budgeted(m)'
      BY DEF Budgeted
    <2>2. sends[m] <= Len(row[m].att) /\ sends[m] <= MaxAttempts /\ end = "ok"
      BY <1>2, <1>6, <2>1 DEF SendSound, Budgeted
    <2>3. sends'[m] <= Len(row'[m].att) /\ sends'[m] <= MaxAttempts
      BY <1>1, <1>2, <1>7, <2>2
    <2>4. row'[m].out \in Final
      BY <1>7, <2>2 DEF Final
    <2>5. del'[m].at \in Sending => ~(del'[m].attempt < MaxAttempts)
      BY <1>1, <1>2, <1>8
    <2> QED BY <2>3, <2>4, <2>5 DEF Budgeted
  <1>13. SendSound(m)'
    BY <1>10, <1>11, <1>12 DEF SendSound
  <1>14. Forms'
    <2>1. \A x \in Messages : row'[x].att \in Seq(Statuses)
      BY <1>7 DEF SendInv, Forms
    <2> QED BY <1>1, <1>5, <1>6, <2>1 DEF SendInv, Forms
  <1>15. \A x \in Messages \ {m} :
           /\ Passes(x) /\ ExecApart(x) /\ row'[x] = row[x] /\ tail'[x] = tail[x]
           /\ del'[x] = del[x] /\ (timer'[x] => timer[x]) /\ sends'[x] = sends[x]
           /\ (hurt'[x] = "no" => hurt[x] = "no") /\ (StampsFirst(x) => StampsFirst(x)')
    BY <1>1, <1>5, <1>6, <1>7 DEF ExecApart
  <1> QED BY <1>5, <1>13, <1>14, <1>15, OthersApart

(* Main stops, ends and starts again *)

LEMMA QuietBudget ==
  ASSUME SendInv, UNCHANGED <<row, calls, exec, tail, del, pending, hurt, sends>>,
         timer' \in [Messages -> BOOLEAN], \A x \in Messages : timer'[x] => timer[x]
  PROVE  SendInv'
  <1>1. /\ RecoveryPasses /\ \A x \in Messages : Passes(x)
        /\ \A x : StampsFirst(x) => StampsFirst(x)'
    BY SameCallsPass
  <1>2. \A x \in Messages : Apart(x)
    BY <1>1 DEF Apart, Passes, Unanswered
  <1>3. /\ calls' \in Seq(Asked) /\ hurt' \in [Messages -> {"no", "now", "once"}]
    BY DEF SendInv, Forms
  <1> QED BY <1>1, <1>2, <1>3, AllApart

LEMMA EndsBudget ==
  ASSUME Inv, SendInv, MainEnds
  PROVE  SendInv'
  <1>1. /\ calls' = <<>> /\ pending' = "idle" /\ UNCHANGED <<row, sends>>
        /\ \A x \in Messages :
             /\ tail'[x] = <<>> /\ del'[x] = NoDelivery /\ ~timer'[x]
             /\ hurt'[x] = IF hurt[x] = "no" THEN "no" ELSE "once"
             /\ exec'[x] = IF x \in Scheduled /\ exec[x].at # "idle"
                           THEN [NoExec EXCEPT !.at = "done"] ELSE NoExec
        /\ timer' \in [Messages -> BOOLEAN] /\ hurt' \in [Messages -> {"no", "now", "once"}]
    BY DEF MainEnds, EmptyMemory
  <1>2. calls' \in Seq(Asked) /\ \A tag, x : ~Has(tag, x)' /\ Single(tag, x)'
    BY <1>1 DEF Has, Single
  <1>3. Forms'
    <2>1. \A x \in Messages :
            /\ del'[x] = [at |-> del'[x].at, attempt |-> del'[x].attempt] /\ del'[x].attempt \in Nat
            /\ (del'[x].at = "idle") = (tail'[x] = <<>>)
      BY <1>1 DEF NoDelivery
    <2>2. sends' \in [Messages -> Nat] /\ \A x \in Messages : row'[x].att \in Seq(Statuses)
      BY <1>1 DEF SendInv, Forms
    <2> QED BY <1>1, <1>2, <2>1, <2>2 DEF Forms
  <1>4. RecoversOnce'
    BY <1>2 DEF RecoversOnce
  <1>5. ASSUME NEW x \in Messages PROVE SendSound(x)'
    <2>1. /\ SendSound(x) /\ Len(row[x].att) \in Nat /\ MaxAttempts \in Nat
      BY FormsOf
    <2>2. /\ exec'[x].at \in {"idle", "done"} /\ del'[x].at = "idle" /\ Len(tail'[x]) = 0
          /\ exec'[x].at = "idle" => x \notin Scheduled \/ exec[x].at = "idle"
      BY <1>1 DEF NoExec, NoDelivery
    <2>3. Unanswered(x)' => Unanswered(x)
      <3>1. x \in Inbound => (exec[x].at # "idle" => row[x].inb # "none")
        BY DEF Inv, LaneInv, ExecutedIsKnown
      <3> QED BY <1>1, <2>2, <3>1 DEF Unanswered, Messages
    <2>4. Unasked(x)'
      BY <1>1, <1>2, <2>2 DEF Unasked
    <2>5. AnswerIsNew(x)'
      BY <1>1, <1>2, <2>1, <2>2, <2>3, <2>4 DEF SendSound, AnswerIsNew
    <2>6. AttemptsCounted(x)'
      BY <1>1, <2>1, <2>2 DEF SendSound, AttemptsCounted
    <2>7. OneAsks(x)' /\ GivenUp(x)'
      BY <1>1, <1>2, <2>2 DEF OneAsks, GivenUp, Sending
    <2>8. Budgeted(x)'
      BY <1>1, <2>1, <2>2, <2>4 DEF SendSound, Budgeted, Sending
    <2> QED BY <2>5, <2>6, <2>7, <2>8 DEF SendSound
  <1> QED BY <1>3, <1>4, <1>5 DEF SendInv

LEMMA SendInit == ChannelInit => SendInv
  <1> SUFFICES ASSUME ChannelInit PROVE SendInv
    OBVIOUS
  <1>1. /\ calls = <<>> /\ pending = "idle"
        /\ \A x \in Messages :
             /\ row[x] = [inb |-> "none", out |-> "none", att |-> <<>>]
             /\ tail[x] = <<>> /\ del[x] = NoDelivery /\ ~timer[x]
             /\ hurt[x] = "no" /\ exec[x] = NoExec /\ sends[x] = 0
        /\ timer \in [Messages -> BOOLEAN] /\ hurt \in [Messages -> {"no", "now", "once"}]
        /\ sends \in [Messages -> Nat]
    BY DEF ChannelInit
  <1>2. calls \in Seq(Asked) /\ \A tag, x : ~Has(tag, x) /\ Single(tag, x)
    BY <1>1 DEF Has, Single
  <1>3. ASSUME NEW x \in Messages
        PROVE  /\ row[x].att = <<>> /\ row[x].out = "none"
               /\ del[x].at = "idle" /\ del[x].attempt = 0 /\ exec[x].at = "idle"
               /\ del[x] = [at |-> del[x].at, attempt |-> del[x].attempt]
    BY <1>1 DEF NoDelivery, NoExec
  <1>7. <<>> \in Seq(Statuses) /\ Len(<<>>) = 0 /\ DOMAIN <<>> = {} /\ 0 <= 1
    OBVIOUS
  <1>4. Forms
    <2>1. ASSUME NEW x \in Messages
          PROVE  /\ row[x].att \in Seq(Statuses)
                 /\ del[x] = [at |-> del[x].at, attempt |-> del[x].attempt] /\ del[x].attempt \in Nat
                 /\ (del[x].at = "idle") = (tail[x] = <<>>)
      <3>1. row[x].att \in Seq(Statuses)
        BY <1>3, <1>7, <2>1
      <3>2. del[x] = [at |-> del[x].at, attempt |-> del[x].attempt] /\ del[x].attempt \in Nat
        BY <1>3, <2>1
      <3>3. del[x].at = "idle" /\ tail[x] = <<>>
        BY <1>1, <1>3, <2>1
      <3> QED BY <3>1, <3>2, <3>3
    <2> QED BY <1>1, <1>2, <2>1 DEF Forms
  <1>5. RecoversOnce
    BY <1>2 DEF RecoversOnce
  <1>6. ASSUME NEW x \in Messages PROVE SendSound(x)
    <2>1. Unasked(x)
      BY <1>1, <1>2, <1>3 DEF Unasked
    <2>2. AnswerIsNew(x) /\ GivenUp(x)
      BY <1>2, <1>3, <2>1 DEF AnswerIsNew, GivenUp
    <2>5. AttemptsCounted(x)
      BY <1>3, <1>7 DEF AttemptsCounted
    <2>6. OneAsks(x)
      BY <1>1, <1>2, <1>3, <1>7 DEF OneAsks, Sending
    <2>3. 0 <= 0 /\ 0 <= MaxAttempts
      BY ChannelAssumption DEF ChannelAssumption
    <2>4. Budgeted(x)
      BY <1>1, <1>3, <1>7, <2>1, <2>3 DEF Budgeted, Sending
    <2> QED BY <2>2, <2>4, <2>5, <2>6 DEF SendSound
  <1> QED BY <1>4, <1>5, <1>6 DEF SendInv

LEMMA SendStep == Inv /\ Inv' /\ SendInv /\ [ChannelNext]_channelVars => SendInv'
  <1> SUFFICES ASSUME Inv, Inv', SendInv, [ChannelNext]_channelVars PROVE SendInv'
    OBVIOUS
  <1>1. CASE DataCall
    <2>1. ASSUME NEW end \in Ends, RetryPending(end) PROVE SendInv'
      BY <2>1, PendingBudget
    <2>2. ASSUME NEW end \in Ends, NEW m \in Inbound, Admit(m, end) PROVE SendInv'
      BY <2>2, AdmitBudget
    <2>3. ASSUME NEW end \in Ends, NEW m \in Messages,
                 \/ DeliverLoad(m, end) \/ DeliverList(m, end) \/ DeliverLease(m, end)
                 \/ DeliverSending(m, end) \/ DeliverSent(m, end) \/ DeliverCatch(m, end)
          PROVE  SendInv'
      BY <2>3, LoadBudget, ListBudget, LeaseBudget, SendingBudget, SentBudget, CatchBudget
    <2>4. ASSUME NEW end \in Ends, NEW m \in Messages,
                 \/ ExecStamp(m, end) \/ ExecExport(m, end) \/ ExecAdmit(m, end)
                 \/ ExecOutStamp(m, end) \/ ExecDelivers(m, end)
          PROVE  SendInv'
      BY <2>4, StampBudget, ExportBudget, ExecAdmitBudget, OutStampBudget, DeliversBudget
    <2>5. ASSUME NEW end \in Ends, NEW m \in Messages,
                 RetryMessage(m, end) \/ ScheduleOrDeliver(m, end) \/ Exhausted(m, end)
          PROVE  SendInv'
      BY <2>5, RetryBudget, LooksBudget, ExhaustedBudget
    <2> QED BY <1>1, <2>1, <2>2, <2>3, <2>4, <2>5 DEF DataCall
  <1>2. CASE RecoveryBegins
    BY <1>2, BeginsBudget
  <1>3. CASE OrchestratorStops
    <2>1. /\ timer' \in [Messages -> BOOLEAN] /\ \A x \in Messages : timer'[x] => timer[x]
          /\ UNCHANGED <<row, calls, exec, tail, del, pending, hurt, sends>>
      BY <1>3 DEF OrchestratorStops
    <2> QED BY <2>1, QuietBudget
  <1>4. CASE MainEnds
    BY <1>4, EndsBudget
  <1>5. CASE MainStarts \/ UNCHANGED channelVars
    <2>1. UNCHANGED <<row, calls, exec, tail, del, timer, pending, hurt, sends>>
      BY <1>5 DEF MainStarts, channelVars, memory
    <2>2. timer' \in [Messages -> BOOLEAN]
      BY <2>1 DEF SendInv, Forms
    <2> QED BY <2>1, <2>2, QuietBudget
  <1>6. ASSUME NEW m \in Messages,
               \/ Arrive(m) \/ ScheduledRunCompletes(m) \/ PromptSettles(m)
               \/ DeliverSend(m) \/ TimerFires(m)
        PROVE  SendInv'
    BY <1>6, ArriveBudget, ScheduledBudget, PromptBudget, SendBudgetStep, TimerBudget
  <1> QED BY <1>1, <1>2, <1>3, <1>4, <1>5, <1>6 DEF ChannelNext

\* A message is sent at most MaxAttempts times, over all retries, ends of the
\* process and recoveries, unless a call of the message has failed.
THEOREM ChannelSendBudget == ChannelSpec => []SendBudget
  <1>1. ChannelInit => Inv /\ SendInv
    BY InvInit, SendInit
  <1>2. Inv /\ SendInv /\ [ChannelNext]_channelVars => (Inv /\ SendInv)'
    BY InvStep, SendStep
  <1>3. Inv /\ SendInv => SendBudget
    <2> SUFFICES ASSUME SendInv, NEW m \in Messages, sends[m] > MaxAttempts PROVE hurt[m] # "no"
      BY DEF SendBudget
    <2>1. SendSound(m) /\ sends[m] \in Nat /\ MaxAttempts \in Nat
      BY FormsOf
    <2>2. hurt[m] = "no" => sends[m] <= MaxAttempts
      BY <2>1 DEF SendSound, Budgeted
    <2> QED BY <2>1, <2>2
  <1> QED BY <1>1, <1>2, <1>3, PTL DEF ChannelSpec

\* A delivery that has listed the attempts is of a message that is neither
\* delivered nor given up: the queue of the message and its reload keep the
\* captured state from being sent again.
THEOREM ChannelNoResend == ChannelSpec => NoResend
  <1>1. ChannelInit => Inv /\ SendInv
    BY InvInit, SendInit
  <1>2. Inv /\ SendInv /\ [ChannelNext]_channelVars => (Inv /\ SendInv)'
    BY InvStep, SendStep
  <1>3. Inv /\ SendInv /\ [ChannelNext]_channelVars
          => [\A m \in Messages : sends'[m] > sends[m] => row[m].out \notin Final]_channelVars
    <2> SUFFICES ASSUME SendInv, [ChannelNext]_channelVars,
                        NEW m \in Messages, sends'[m] > sends[m]
                 PROVE  row[m].out \notin Final
      OBVIOUS
    <2>1. /\ SendSound(m) /\ sends \in [Messages -> Nat] /\ sends[m] \in Nat
      BY FormsOf
    <2>2. ~UNCHANGED sends
      BY <2>1
    <2>3. \E end \in Ends, x \in Messages : DeliverSending(x, end)
      <3>1. CASE DataCall
        <4>1. ASSUME NEW end \in Ends, RetryPending(end) PROVE FALSE
          BY <2>2, <4>1 DEF RetryPending
        <4>2. ASSUME NEW end \in Ends, NEW x \in Inbound, Admit(x, end) PROVE FALSE
          BY <2>2, <4>2 DEF Admit
        <4>3. ASSUME NEW end \in Ends, NEW x \in Messages,
                     \/ DeliverLoad(x, end) \/ DeliverList(x, end) \/ DeliverLease(x, end)
                     \/ DeliverSent(x, end) \/ DeliverCatch(x, end)
              PROVE  FALSE
          BY <2>2, <4>3 DEF DeliverLoad, DeliverList, DeliverLease, DeliverSent, DeliverCatch
        <4>4. ASSUME NEW end \in Ends, NEW x \in Messages,
                     \/ ExecStamp(x, end) \/ ExecExport(x, end) \/ ExecAdmit(x, end)
                     \/ ExecOutStamp(x, end) \/ ExecDelivers(x, end)
              PROVE  FALSE
          <5>1. ExecRest
            BY <4>4 DEF ExecStamp, ExecExport, ExecAdmit, ExecOutStamp, ExecDelivers
          <5> QED BY <2>2, <5>1 DEF ExecRest
        <4>5. ASSUME NEW end \in Ends, NEW x \in Messages,
                     RetryMessage(x, end) \/ ScheduleOrDeliver(x, end) \/ Exhausted(x, end)
              PROVE  FALSE
          BY <2>2, <4>5 DEF RetryMessage, ScheduleOrDeliver, Exhausted
        <4> QED BY <3>1, <4>1, <4>2, <4>3, <4>4, <4>5 DEF DataCall
      <3>2. CASE RecoveryBegins \/ OrchestratorStops \/ MainEnds \/ MainStarts \/ UNCHANGED channelVars
        BY <2>2, <3>2 DEF RecoveryBegins, OrchestratorStops, MainEnds, MainStarts, channelVars
      <3>3. ASSUME NEW x \in Messages,
                   \/ Arrive(x) \/ ScheduledRunCompletes(x) \/ PromptSettles(x)
                   \/ DeliverSend(x) \/ TimerFires(x)
            PROVE  FALSE
        BY <2>2, <3>3 DEF Arrive, ScheduledRunCompletes, PromptSettles, DeliverSend, TimerFires
      <3> QED BY <3>1, <3>2, <3>3 DEF ChannelNext
    <2>4. PICK end \in Ends, x \in Messages : DeliverSending(x, end)
      BY <2>3
    <2>5. /\ del[x].at = "sending"
          /\ sends' = [sends EXCEPT ![x] = @ + 1] \/ sends' = sends
      BY <2>4 DEF DeliverSending, Delivering
    <2>6. x = m
      BY <2>1, <2>2, <2>5
    <2> QED BY <2>1, <2>5, <2>6 DEF SendSound, AttemptsCounted
  <1> QED BY <1>1, <1>2, <1>3, PTL DEF ChannelSpec, NoResend
=============================================================================
