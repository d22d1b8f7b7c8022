\* Files with a defect in each parameter of each section, and good ones.
CONSTANTS
  Files <- MCFiles
  LimitRange <- Ranges
  MinMaxSDLength = 2
  Facilities = {"local0", "local1"}
  Properties = {"p", "q"}
  MaxEnterpriseId = 50
  Canonical <- Fold
  Denied = {"security"}
  Unknown = {"unknown"}
  Indeterminate = {0, 3}
  TEXT = TEXT
  HUGE = HUGE
  NULL = NULL
  WRONG = WRONG
SPECIFICATION LoadSpec
INVARIANTS
  LoadsExactlyGoodFiles
  FormattersAreApart
  EachSubscriptionOnce
CHECK_DEADLOCK FALSE
