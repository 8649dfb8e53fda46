SPECIFICATION FairSpec
CONSTANTS
  a = a
  b = b
  f = f
  g = g
  NoCtx = NoCtx
  NoFilter = NoFilter
  Ctx = {a, b}
  Filter = {f, g}
  Restored <- MCRestored
  ProxyCtx = {a}
  MaxCalls = 2
  MaxInFlight = 2
  MaxSelections = 0
  MaxSaves = 1
  MaxReloads = 0
CHECK_DEADLOCK FALSE
INVARIANTS TypeOK NewestCommitIsActive 
PROPERTIES ImplementsContract EveryConnectReturns
