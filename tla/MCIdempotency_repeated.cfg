CONSTANTS
  Runs = {r1, r2, r3, r4}
  Failures = TRUE
  None = None
SPECIFICATION Spec
SYMMETRY RunSymmetry
INVARIANTS
  OneExecuting
  CompletedHadEffect
CHECK_DEADLOCK FALSE
