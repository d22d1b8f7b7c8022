\* Three producers overtake each other around two slots; spurious wake-ups included.
CONSTANTS
  Producers = {p1, p2, p3}
  Consumers = {c1}
  Messages = {m1, m2}
  Capacity = 2
  NULL = NULL
SPECIFICATION FairSpec
INVARIANTS
  TypeOK
  RingShape
  NoLostWakeup
PROPERTIES
  NullMeansStopped
  ImplementsFifo
  ImplementsFifoProgress
