\* The grammar of RFC 5424, the space after the header included.
CONSTANTS
  BMP <- MCBMP
  Width <- Widths
  HIGH = "H"
  LOW = "L"
  PAIR = "pair"
  BAD = BAD
  NULL = NULL
  Events <- MCEvents
  Capacities <- MCCapacities
  MaxSdLength = 4
  NameLength = 3
  BufferSize = 2
SPECIFICATION Spec
INVARIANTS
  HeaderIsSeparated
CHECK_DEADLOCK FALSE
