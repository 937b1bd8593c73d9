SPECIFICATION FairSpec
CONSTANTS
  UsesCorba = TRUE
  MaxBuffer = 2
  MaxEvents = 3
INVARIANTS TypeOK HandledBeforeGoingOn InputFollowsCommand EnabledWhenDone
PROPERTIES WaitEnds CommandsAreTaken
