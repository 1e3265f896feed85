------------------------- MODULE MCKernelSupervisor -------------------------
(* Small instances of KernelSupervisor for TLC. *)
EXTENDS KernelSupervisor, TLC

CONSTANTS r1, MaxCalls, MaxFaults

\* Many calls with few failures, few calls with many.
MCBounds ==
  {[calls |-> MaxCalls, faults |-> 1, slides |-> TRUE],
   [calls |-> 1, faults |-> MaxFaults, slides |-> TRUE],
   [calls |-> 1, faults |-> MaxFaults, slides |-> FALSE]}
=============================================================================
