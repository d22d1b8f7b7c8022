\* One stop is enough, at any moment of the start.
CONSTANTS
  Stoppers = {s1}
  NumSubs = 2
SPECIFICATION Spec
INVARIANTS
  NoNullThreadIsUsed
CHECK_DEADLOCK FALSE
