CONSTANTS
  Events = {e1}
  BatchSize = 1
  MaxFaults = 0
  NoBatch = NoBatch
SPECIFICATION Spec
INVARIANT PublishedAsSaved
CHECK_DEADLOCK FALSE
