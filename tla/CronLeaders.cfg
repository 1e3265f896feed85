SPECIFICATION CronSpec
CONSTANTS
  j1 = j1
  o1 = o1
  o2 = o2
  Jobs = {j1}
  Owners = {o1, o2}
  NoOwner = NoOwner
  Dead = Dead
  None = None
  LeaseDuration = 1
  Horizon = 1
  Plans <- OnePlan
CHECK_DEADLOCK FALSE
INVARIANTS DispatchedOnce
SYMMETRY OwnerSymmetry
