SPECIFICATION Spec
CONSTANTS
  MaxAllocatable = 3
  VRFVNIBase = 9000
  VNetVNIBase = 10000
  TenantVMIDBase = 2000
  Tenants = {alpha, beta}
  Requests = {r1, r2}
  Optional = {}
  Issuable = {}
  ForeignZones <- MCForeignZones
  Overlap = FALSE
  MaxFaults = 1
  MaxLosses = 1
  None = None
  ForeignVNIs = {9001, 77}
  foreign = foreign
SYMMETRY Symmetry
INVARIANTS
  TypeOK
  UniqueIndex
  FabricUnique
  ReadyMeansBuilt
PROPERTIES
  DeleteLeavesNothing
  DeletingIsFinal
  ComesBackToItsIndex
  ImplementsRegistry
