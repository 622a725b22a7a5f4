CONSTANTS
  Requests = {r1, r2}
  MaxTokens = 2
  MaxReminders = 2
  MaxBegun = 6
  MaxFaults = 1
SPECIFICATION Spec
SYMMETRY RequestSymmetry
INVARIANTS
  TypeOK
  UsedOnce
  RemindersBounded
PROPERTY SigningKept
CHECK_DEADLOCK FALSE
