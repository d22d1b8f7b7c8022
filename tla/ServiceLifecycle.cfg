\* At a console and as a service, with two stops: two Ctrl+C handlers run at
\* the same time.
CONSTANTS
  Stoppers = {s1, s2}
  NumSubs = 2
SPECIFICATION FairSpec
INVARIANTS
  TypeOK
  StoppedIsReportedLast
  NoThreadOutlivesTheService
PROPERTIES
  StopEndsService
CHECK_DEADLOCK FALSE
