CONSTANTS
  Requests = {r1, r2, r3, r4}
  Users = {alice, bob}
  MaxFaults = 1
  NoItem = NoItem
  Undefined = Undefined
SPECIFICATION Spec
SYMMETRY RequestSymmetry
INVARIANTS
  TypeOK
  DeletedStaysDeleted
  SentIsSettled
PROPERTY OnlyOwnerUnlocks
CHECK_DEADLOCK FALSE
