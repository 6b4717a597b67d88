\* Two workers; a node is stale after two intervals without a heartbeat.
CONSTANTS
  w1 = w1
  w2 = w2
  Nodes <- TwoNodes
  StaleAfter = 2
  MaxSessions = 1
  MaxRestarts = 1
SPECIFICATION FairSpec
INVARIANTS TypeOK Schedulable
PROPERTIES Rejoins CountCatchesUp
CHECK_DEADLOCK FALSE
