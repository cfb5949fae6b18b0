SPECIFICATION Spec
CONSTANTS
  Requests = {r1}
  MaxSecret = 9
  MaxFaults = 2
  MaxLosses = 0
INVARIANTS
  ResupplyIsAsked
