\* Two subscriptions, two events for the first, batches of up to two, a queue of one.
CONSTANTS
  NumSubs = 2
  MaxEvents <- TwoAndNone
  BatchSize = 2
  QueueSize = 1
  MaxFetchFailures = 1
SPECIFICATION FairSpec
INVARIANTS
  TypeOK
  Accounting
  InOrder
  NoLostSignal
PROPERTIES
  EventsAreFetched
  StopEndsCollector
CHECK_DEADLOCK FALSE
