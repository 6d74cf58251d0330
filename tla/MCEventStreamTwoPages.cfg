\* A replay of up to two pages; the queue overflows and the network drops.
SPECIFICATION FairSpec
CONSTANTS
  Page = 4
  QueueSize = 2
  MaxEvents = 6
  MaxDrops = 2
PROPERTIES
  DeliverySpec
  TerminalReachesClient
CHECK_DEADLOCK FALSE
