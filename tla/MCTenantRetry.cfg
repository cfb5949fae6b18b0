SPECIFICATION FairSpec
CONSTANTS
  MaxAllocatable = 1
  VRFVNIBase = 9000
  VNetVNIBase = 10000
  TenantVMIDBase = 2000
  Tenants = {alpha}
  Requests = {r1}
  Optional = {"device-address", "log-store", "dashboards"}
  Issuable = {"device-address", "wifi-key", "workload"}
  ForeignZones <- MCForeignZones
  Overlap = FALSE
  MaxFaults = 2
  MaxLosses = 0
  None = None
  ForeignVNIs = {}
  foreign = foreign
INVARIANTS
  PlacedIsRecorded
PROPERTIES
  RepeatingSucceeds
