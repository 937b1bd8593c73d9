SPECIFICATION Spec
CONSTANTS
  Objs = {o1, o2}
  Ops = {"put", "get"}
  Mutex <- MutexTwo
  StateGuarded = {"get"}
  ThreadObjs = {o1}
  Priorities = {}
  InstrnumSlice = FALSE
  MaxInstr = 1
  PriorityBased = FALSE
  DebugInfo = FALSE
  Stmts = {"exit", "assign"}
  UserCmds = {}
  MaxThreads = 3
  MaxReq = 2
  MaxDepth = 3
  NoCall = NoCall
  NoObj = NoObj
INVARIANTS TypeOK MutexHolds GuardWindowClosed HistoryIsExact NoInternalError
PROPERTIES ActivationIsPermitted
