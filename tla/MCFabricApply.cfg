SPECIFICATION Spec
CONSTANTS
  alpha = alpha
  beta = beta
  Prefixes = "distinct"
  Tenants <- MCTenants
  VNetOf <- MCVNetOf
  MaxFaults = 1
  None = None
INVARIANTS
  ReadyIsRunning
