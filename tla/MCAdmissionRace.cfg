SPECIFICATION Spec
CONSTANTS
  alpha = alpha
  beta = beta
  Operator = Operator
  None = None
  Names <- MCNames
  Established <- MCEstablished
  Calls <- MCCalls
  MaxSecret = 9
  MaxSpare = 2
  MaxFaults = 1
CHECK_DEADLOCK FALSE
INVARIANT
  NoKeyWithoutRecord
