CONSTANTS
  o = o
  i1 = i1
  i2 = i2
  v1 = v1
  None = None
  Requests = {r1, r2, r3, r4}
  Owner = o
  Invitees = {i1, i2}
  Viewers = {}
  Roster = {o, i1, i2}
  SigningOrder = "OWNER_FIRST"
  Operations = {"send", "cancel", "sign", "decline"}
  Overlap = TRUE
  Failures = TRUE
  SignatureFits = TRUE
  MaxBatch = 0
SPECIFICATION Spec
SYMMETRY RequestSymmetry
INVARIANTS CompletedIsAllSigned CompletedHasDocument RecordedHash
CHECK_DEADLOCK FALSE
