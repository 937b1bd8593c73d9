SPECIFICATION FairSpec
CONSTANTS
  Objs = {o1, o2}
  Ops = {"put"}
  Mutex <- MutexOne
  StateGuarded = {}
  ThreadObjs = {o1}
  Priorities = {}
  InstrnumSlice = TRUE
  MaxInstr = 2
  PriorityBased = FALSE
  DebugInfo = TRUE
  Stmts = {"exit"}
  UserCmds = {}
  MaxThreads = 3
  MaxReq = 2
  MaxDepth = 2
  NoCall = NoCall
  NoObj = NoObj
PROPERTIES NoStarvation
