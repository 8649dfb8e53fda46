SPECIFICATION Spec
CONSTANTS
  a = a
  b = b
  f = f
  g = g
  NoCtx = NoCtx
  NoFilter = NoFilter
  Ctx = {a, b}
  Filter = {f, g}
  Restored <- MCRestored
  ProxyCtx = {a}
  MaxCalls = 2
  MaxInFlight = 1
  MaxSelections = 2
  MaxSaves = 0
  MaxReloads = 1
CHECK_DEADLOCK FALSE
INVARIANTS
  
  ActiveFactoryRuns
  FilterIsNewestSelection
