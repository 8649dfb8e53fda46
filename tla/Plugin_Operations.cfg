CONSTANTS
  MaxThreads = 2
  MaxLoaders = 2
  MaxProcs = 2
  MaxInstalls = 1
  MaxRestarts = 1
SPECIFICATION Spec
INVARIANTS
  
  AdoptsNoOrphan
  StartedIsStoppable
  
  
CHECK_DEADLOCK FALSE
