CONSTANTS
  Events = {e1, e2, e3}
  BatchSize = 2
  MaxFaults = 2
  NoBatch = NoBatch
SPECIFICATION FairSpec
INVARIANTS
  TypeOK
  NoneSkipped
  InOrder
  DuplicatesNeedFaults
PROPERTY EverySavedHandled
CHECK_DEADLOCK FALSE
