CONSTANTS
  n1 = n1
  n2 = n2
  n3 = n3
  Ns = {n1, n2, n3}
  Everywhere = Everywhere
  NoGroup = NoGroup
  MaxNamespaces = 2
  MaxCalls = 1
  HasGlobalStop = TRUE
  MayStop = TRUE
SPECIFICATION FairSpec
CHECK_DEADLOCK FALSE
INVARIANTS TypeOK
 
