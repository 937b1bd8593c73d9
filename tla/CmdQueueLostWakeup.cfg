SPECIFICATION FairSpec
CONSTANTS
  Clients = {c1, c2}
  InputThread = input
  MaxPosts = 4
  Main = Main
  None = None
PROPERTY EnqueuedIsAnswered
CHECK_DEADLOCK FALSE
