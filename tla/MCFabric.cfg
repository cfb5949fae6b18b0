SPECIFICATION FairSpec
CONSTANTS
  alpha = alpha
  beta = beta
  Prefixes = "distinct"
  Tenants <- MCTenants
  VNetOf <- MCVNetOf
  MaxFaults = 3
  None = None
INVARIANTS
  TypeOK
  Serialised
  SavedMatchesStatus
  RunningUnlessMissed
PROPERTIES
  EveryCallEnds
