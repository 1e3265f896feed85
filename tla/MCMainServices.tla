--------------------------- MODULE MCMainServices ---------------------------
(* Small instances of ChannelDelivery, DataServiceHost and GatewayManager for  *)
(* TLC.  They share no state: a behaviour is one of the channel service, one   *)
(* of the host or one of the Gateway manager.                                 *)
EXTENDS ChannelDelivery, DataServiceHost, GatewayManager

CONSTANTS i1, i2, s1, c1, k1, k2

VARIABLE part

OneConversation == [m \in Messages |-> c1]

\* One message with failing calls and ends of Main; two of one conversation;
\* the result of a scheduled run.
MCLimits ==
  {[who |-> {i1}, faults |-> 2, ends |-> 1, again |-> 0, refuses |-> TRUE],
   [who |-> {i1}, faults |-> 0, ends |-> 2, again |-> 2, refuses |-> TRUE],
   [who |-> {i1, i2}, faults |-> 0, ends |-> 0, again |-> 0, refuses |-> FALSE],
   [who |-> {s1}, faults |-> 1, ends |-> 1, again |-> 0, refuses |-> TRUE]}

\* Crashes; start-ups that hang.
MCTroubles ==
  {[crashes |-> 2, hangs |-> 0, slow |-> 1], [crashes |-> 1, hangs |-> 2, slow |-> 0]}

\* Starts around a stop, a restart and a crash; a stop and a restart around a
\* crash and a failing step; a child that outlives its termination; restarts
\* around a recovery.
MCBudgets ==
  {[starts |-> 2, stops |-> 1, restarts |-> 1, crashes |-> 1, fails |-> 0, slow |-> 0,
    identity |-> FALSE],
   [starts |-> 1, stops |-> 1, restarts |-> 1, crashes |-> 1, fails |-> 1, slow |-> 0,
    identity |-> TRUE],
   [starts |-> 1, stops |-> 1, restarts |-> 1, crashes |-> 0, fails |-> 0, slow |-> 1,
    identity |-> TRUE],
   [starts |-> 1, stops |-> 0, restarts |-> 2, crashes |-> 1, fails |-> 1, slow |-> 0,
    identity |-> TRUE]}

OneChannelInit == ChannelInit /\ limit = CHOOSE l \in Limits : TRUE
OneHostInit == HostInit /\ trouble = CHOOSE t \in Troubles : TRUE
OneGatewayInit == GatewayInit /\ budget = CHOOSE b \in Budgets : TRUE

ServicesInit ==
  \/ part = "channel" /\ ChannelInit /\ OneHostInit /\ OneGatewayInit
  \/ part = "host" /\ HostInit /\ OneChannelInit /\ OneGatewayInit
  \/ part = "gateway" /\ GatewayInit /\ OneChannelInit /\ OneHostInit

ServicesNext ==
  \/ part = "channel" /\ ChannelNext /\ UNCHANGED <<hostVars, gatewayVars, part>>
  \/ part = "host" /\ HostNext /\ UNCHANGED <<channelVars, gatewayVars, part>>
  \/ part = "gateway" /\ GatewayNext /\ UNCHANGED <<channelVars, hostVars, part>>

ServicesSpec ==
  /\ ServicesInit /\ [][ServicesNext]_<<channelVars, hostVars, gatewayVars, part>>
  /\ WF_channelVars(part = "channel" /\ ChannelProgress)
  /\ WF_hostVars(part = "host" /\ HostProgress)
  /\ WF_gatewayVars(part = "gateway" /\ GatewayProgress)
=============================================================================
