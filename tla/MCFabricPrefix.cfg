SPECIFICATION Spec
CONSTANTS
  alpha = alpha
  beta = beta
  Prefixes = "shared"
  Tenants <- MCTenants
  VNetOf <- MCVNetOf
  MaxFaults = 0
  None = None
INVARIANTS
  SavedMatchesStatus
