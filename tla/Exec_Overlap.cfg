CONSTANTS
  MaxSessions = 2
  MaxEvents = 1
SPECIFICATION FairSpec
CHECK_DEADLOCK FALSE
INVARIANTS NewestIsResized OfferedIsOpen ShownLiveIsLive
PROPERTIES CancelledUnwinds
