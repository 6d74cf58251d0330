\* A long job and a lagging client: the terminal event is what is dropped.
SPECIFICATION FairSpec
CONSTANTS
  Page = 2
  QueueSize = 3
  MaxEvents = 6
  MaxDrops = 0
PROPERTY TerminalReachesClient
CHECK_DEADLOCK FALSE
