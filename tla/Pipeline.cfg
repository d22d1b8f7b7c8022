\* Two events through a queue of one and over two connections.
CONSTANTS
  NumSubs = 1
  MaxEvents <- TwoEvents
  BatchSize = 2
  QueueSize = 1
  MaxFetchFailures = 0
  MaxMessages = 2
  FrameEnds <- Frame
  WriteMask <- WriteEvent
  CloseMask <- CloseEvent
  NULL = NULL
  MaxConnections = 2
  MaxRecord = 1
SPECIFICATION FairSpec
PROPERTIES
  ImplementsLogForwarding
  EventsAreDelivered
  EachMeetsTheOther
CHECK_DEADLOCK FALSE
