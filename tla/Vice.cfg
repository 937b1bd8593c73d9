SPECIFICATION Spec
CONSTANTS
  CPUs = {"cpu1", "cpu2"}
  VCPU = "VCPU"
  VBUS = "VBUS"
  BUS = "BUS"
  BusTime = 1
  Ops = {"get", "send"}
  SyncOps = {"get"}
  StaticOps = {"send"}
  Rank <- NameOrder
  OpPrio <- NoPriorities
  Durations = {1}
  GuardTime = 1
  TaskSwitch = 1
  StepSize = 1
  FirstSwap = 0
  MaxTime = 3
  MaxMes = 2
  MaxThreads = 3
  NoMessage = NoMessage
INVARIANTS TypeOK RequestsComeFirst
PROPERTIES LogIsOrdered WorkIsNeverUndone CallsAreServedOnce
CHECK_DEADLOCK FALSE
