\* Two messages over three connections; the recorded events are tested with the
\* masks that EventForwarder::run selects, FD_WRITE and FD_CLOSE.
CONSTANTS
  MaxMessages = 2
  MaxConnections = 3
  MaxCongestions = 1
  Flights = 2
  MaxRecord = 1
  CaInstalled = TRUE
  OutOfMemory = TRUE
  FrameEnds <- Frame
  WriteMask <- WriteEvent
  CloseMask <- CloseEvent
  NULL = NULL
SPECIFICATION FairSpec
INVARIANTS
  TypeOK
  StreamIsFrames
  PoppedIsSentOrHeld
  NothingOvertakes
  SessionIsOwn
PROPERTIES
  EndIsAnnounced
  MessagesAreSent
  StopEndsForwarder
CHECK_DEADLOCK FALSE
