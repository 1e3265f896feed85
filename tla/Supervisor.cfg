SPECIFICATION FairSupervisorSpec
CONSTANTS
  r1 = r1
  Requests = {r1}
  MaxRestarts = 1
  MaxGen = 4
  MaxCalls = 2
  MaxFaults = 3
  Bounds <- MCBounds
CHECK_DEADLOCK FALSE
INVARIANTS NoOrphan StateAgrees
PROPERTIES StartsAreWanted OperationsFinish Recovers
