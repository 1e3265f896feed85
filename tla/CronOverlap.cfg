SPECIFICATION CronSpec
CONSTANTS
  j1 = j1
  o1 = o1
  o2 = o2
  Jobs = {j1}
  Owners = {o1}
  NoOwner = NoOwner
  Dead = Dead
  None = None
  LeaseDuration = 2
  Horizon = 3
  Plans <- LostReply
CHECK_DEADLOCK FALSE
PROPERTIES OverlapMeansActive
