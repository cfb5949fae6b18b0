SPECIFICATION Spec
CONSTANTS
  alpha = alpha
  beta = beta
  cam = cam
  web = web
  m1 = m1
  m2 = m2
  m3 = m3
  None = None
  Tenants <- MCTenants
  Names <- MCNames
  MACs <- MCMACs
  Calls <- MCCalls
  Foreign <- MCForeign
  PoolSize = 2
  Quota = 1
  MaxWorkloads = 1
  MaxFaults = 1
INVARIANTS
  TypeOK
  AddressesGivenOnce
  EveryObjectHasARow
  OneOwnerPerName
  NoNameLeftBehind
  AnswerHolds
  AppliedUnlessCutOff
