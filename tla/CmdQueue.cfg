SPECIFICATION FairSpec
CONSTANTS
  Clients = {c1, c2}
  InputThread = input
  MaxPosts = 4
  Main = Main
  None = None
INVARIANTS TypeOK QueueIsEmptyWhenFree PostMeansCommand
PROPERTIES StoredUntilExecuted Implements AnsweredInConsoleMode
CHECK_DEADLOCK FALSE
