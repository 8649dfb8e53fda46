CONSTANTS
  MaxEffects = 2
  MaxEvents = 1
SPECIFICATION FairSpec
CHECK_DEADLOCK FALSE
INVARIANTS RunningIsStoppable ShownLiveIsLive
PROPERTIES OvertakenEnds
