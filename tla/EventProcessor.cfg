\* Four SIDs in a cache of two; events smaller than, as large as and larger than
\* the limits of both buffers.
CONSTANTS
  Sids = {s1, s2, s3, s4}
  Nodes = {n1, n2, n3, n4}
  MaxCacheSize = 2
  MaxFailures = 1
  Events <- LogEvents
  ValuesLimit = 2
  XmlLimit = 2
  NULL = NULL
SPECIFICATION Spec
SYMMETRY Symmetric
INVARIANTS
  TypeOK
  NoDanglingIterator
  HoldsMostRecent
  FormattedIsOwn
  LeftOutByItsOwnFault
CHECK_DEADLOCK FALSE
