CONSTANTS
  Key = {k1, k2}
  NoKey = NoKey
  Changing = {k1}
  MaxChanges = 2
  MaxCommits = 1
SPECIFICATION FairSpec
CHECK_DEADLOCK FALSE
INVARIANTS WatchFollowsDrawer 
PROPERTIES ListConverges WatchedChangeIsShown
