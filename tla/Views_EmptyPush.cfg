CONSTANTS
  Key = {k1}
  NoKey = NoKey
  Changing = {k1}
  MaxChanges = 2
  MaxCommits = 0
SPECIFICATION FairSpec
CHECK_DEADLOCK FALSE
PROPERTY ListIsLive
