CONSTANTS
  n1 = n1
  n2 = n2
  n3 = n3
  Ns = {n1, n2}
  Everywhere = Everywhere
  NoGroup = NoGroup
  MaxNamespaces = 2
  MaxCalls = 2
  HasGlobalStop = TRUE
  MayStop = FALSE
SPECIFICATION Spec
CHECK_DEADLOCK FALSE
SYMMETRY AnyNamespace
INVARIANTS OnlyCurrentGroupRuns DenialIsContained 
