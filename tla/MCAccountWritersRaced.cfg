SPECIFICATION Spec
CONSTANTS
  None = None
  scene = scene
  Tenants <- MCTenants
  IoTDevices <- MCDevices
  Levels <- MCLevels
  Chars <- MCChars
  PlusLevels = {"+", "a+"}
  HashLevels = {"#", "#b"}
  PercentLevels = {"%u"}
  DollarLevels = {"$s"}
  maxPattern <- MCMaxPattern
  maxPatterns = 2
  Accounts <- MCAccounts
  TenantOf <- MCTenantOf
  Asks <- MCAsks
  Filters <- MCFilters
  Topics <- MCTopics
  Together <- MCTogether
  MaxCalls = 3
  MaxAtOnce = 2
  MaxFaults = 1
CHECK_DEADLOCK FALSE
INVARIANT
  ToldUsersStay
