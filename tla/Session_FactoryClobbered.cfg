SPECIFICATION Spec
CONSTANTS
  a = a
  b = b
  f = f
  g = g
  NoCtx = NoCtx
  NoFilter = NoFilter
  Ctx = {a, b}
  Filter = {f, g}
  Restored <- MCRestored
  ProxyCtx = {}
  MaxCalls = 2
  MaxInFlight = 2
  MaxSelections = 0
  MaxSaves = 0
  MaxReloads = 0
CHECK_DEADLOCK FALSE
INVARIANTS
  ActiveFactoryRuns
