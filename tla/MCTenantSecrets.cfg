SPECIFICATION FairSpec
CONSTANTS
  Requests = {r1}
  MaxSecret = 9
  MaxFaults = 2
  MaxLosses = 1
INVARIANTS
  TypeOK
PROPERTIES
  KeptUnlessRestored
  AnswerIsStored
  GoodAnswerIsInForce
  RestoreHeals
