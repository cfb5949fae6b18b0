SPECIFICATION Spec
CONSTANTS
  Requests = {r1}
  MaxSecret = 9
  MaxFaults = 0
  MaxLosses = 0
PROPERTIES
  KeptUnlessSupplied
