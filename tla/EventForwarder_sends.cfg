\* One message over one connection, events tested as in the code.
CONSTANTS
  MaxMessages = 1
  MaxConnections = 1
  MaxCongestions = 0
  Flights = 2
  MaxRecord = 1
  CaInstalled = TRUE
  OutOfMemory = TRUE
  FrameEnds <- Frame
  WriteMask <- WriteBitIndex
  CloseMask <- CloseBitIndex
  NULL = NULL
SPECIFICATION FairSpec
PROPERTIES
  MessagesAreSent
CHECK_DEADLOCK FALSE
