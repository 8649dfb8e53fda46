CONSTANTS
  MaxLaunches = 2
  Stopper = {p1}
  HasAddr = TRUE
SPECIFICATION FairSpec
CHECK_DEADLOCK FALSE
INVARIANTS TypeOK InFlightIsCurrent OldShellIsDoomed
PROPERTIES LaunchSettles StopReturns DemotedByOwnWatcher ImplementsSetupProxy
