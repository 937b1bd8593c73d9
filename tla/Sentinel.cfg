SPECIFICATION FairSpec
CONSTANTS
  Threads = {t1, t2, t3}
  Ops = {"put", "get"}
  MutexDefs <- MutexBoth
  GivesWay <- PutFirst
  StateGuarded = {"get"}
  MayThrow = {"get"}
  MaxReq = 2
  MaxDepth = 2
  None = None
INVARIANTS TypeOK CountersAreExact MutexHolds NobodySleepsInVain
PROPERTY WaitingEnds
CHECK_DEADLOCK FALSE
