CONSTANTS
  Requests = {r1, r2, r3}
  Providers = {google, microsoft}
  Roles = {"UNASSIGNED", "ADMIN"}
  Seeds = {"ACTIVE", "SUSPENDED", "PENDING_VERIFICATION"}
  Targets = {"ACTIVE", "SUSPENDED", "DELETED"}
  AllowPending = TRUE
  MaxFaults = 2
  None = None
SPECIFICATION Spec
SYMMETRY RequestSymmetry
INVARIANTS
  TypeOK
  PoolMatchesRow
  BlockedIsSignedOut
  ClaimIsRole
PROPERTIES
  OnlyAdminsChange
  LastProviderKept
CHECK_DEADLOCK FALSE
