-------------------------- MODULE MCGatewayManager --------------------------
(* An instance of GatewayManager without failures: one start, two restarts.  *)
EXTENDS GatewayManager

MCBudgets ==
  {[starts |-> 1, stops |-> 0, restarts |-> 2, crashes |-> 0, fails |-> 0, slow |-> 0,
    identity |-> TRUE]}
=============================================================================
