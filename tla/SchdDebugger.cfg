SPECIFICATION Spec
CONSTANTS
  Objs = {o1}
  Ops = {"put"}
  Mutex <- MutexOne
  StateGuarded = {}
  ThreadObjs = {o1}
  Priorities <- PriorityFiles
  InstrnumSlice = TRUE
  MaxInstr = 1
  PriorityBased = TRUE
  DebugInfo = TRUE
  Stmts = {"stop", "exit"}
  UserCmds = {"break", "print", "selthread", "priorityfile"}
  MaxThreads = 3
  MaxReq = 2
  MaxDepth = 2
  NoCall = NoCall
  NoObj = NoObj
INVARIANTS OneRunningThread HistoryNeverUndercounts DeadlockIsReal
PROPERTIES PriorityIsRespected
