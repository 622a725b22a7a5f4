CONSTANTS
  o = o
  i1 = i1
  i2 = i2
  v1 = v1
  None = None
  Requests = {r1, r2, r3, r4, r5}
  Owner = o
  Invitees = {i1, i2}
  Viewers = {v1}
  Roster = {o, i1}
  SigningOrder = "OWNER_FIRST"
  Operations = {"send", "cancel", "update", "share", "sign", "decline"}
  Overlap = FALSE
  Failures = TRUE
  SignatureFits = TRUE
  MaxBatch = 2
SPECIFICATION Spec
SYMMETRY RequestSymmetry
INVARIANT DeclinerDeclined
PROPERTY ImplementsLifecycle
CHECK_DEADLOCK FALSE
