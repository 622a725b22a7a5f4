CONSTANTS
  o = o
  i1 = i1
  i2 = i2
  v1 = v1
  None = None
  Requests = {r1, r2, r3}
  Owner = o
  Invitees = {i1, i2}
  Viewers = {}
  Roster = {o, i1, i2}
  SigningOrder = "OWNER_FIRST"
  Operations = {"sign"}
  Overlap = TRUE
  Failures = FALSE
  SignatureFits = TRUE
  MaxBatch = 0
SPECIFICATION FairSpec
PROPERTY AllSignedCompletes
CHECK_DEADLOCK FALSE
