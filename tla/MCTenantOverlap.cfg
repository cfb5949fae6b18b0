SPECIFICATION Spec
CONSTANTS
  MaxAllocatable = 1
  VRFVNIBase = 9000
  VNetVNIBase = 10000
  TenantVMIDBase = 2000
  Tenants = {alpha}
  Requests = {r1, r2}
  Optional = {}
  Issuable = {}
  ForeignZones <- MCForeignZones
  Overlap = TRUE
  MaxFaults = 0
  MaxLosses = 0
  None = None
  ForeignVNIs = {}
  foreign = foreign
PROPERTIES
  DeleteLeavesNothing
