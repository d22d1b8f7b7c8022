\* Every capacity from one byte to more than the longest message.
CONSTANTS
  BMP <- MCBMP
  Width <- Widths
  HIGH = "H"
  LOW = "L"
  PAIR = "pair"
  BAD = BAD
  NULL = NULL
  Events <- MCEvents
  Capacities <- MCCapacities
  MaxSdLength = 4
  NameLength = 3
  BufferSize = 2
SPECIFICATION Spec
INVARIANTS
  ReceiverReadsEvent
  LeftOutOnlyIfTooLong
CHECK_DEADLOCK FALSE
