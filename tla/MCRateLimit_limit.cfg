CONSTANTS
  Calls = {c1, c2, c3}
  MaxRequests = 2
  LastWindow = 2
  Failures = TRUE
SPECIFICATION FairSpec
INVARIANTS
  WithinLimit
  EveryoneCounted
PROPERTY WaitingOnlyWhenFull
CHECK_DEADLOCK FALSE
