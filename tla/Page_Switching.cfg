CONSTANTS
  Ctx = {a, b, p}
  NoCtx = NoCtx
  Setup = {p}
  MaxAttempts = 3
  MaxReloads = 1
SPECIFICATION FairSpec
CHECK_DEADLOCK FALSE
INVARIANTS PageShowsSession VisitKeepsItsQueries VisitStartsFresh
PROPERTIES ConnectingEnds
