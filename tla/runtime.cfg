\* Two ids, the first snapshot is evicted by the second, one id is started again,
\* the teardown of the other may never return.
CONSTANTS
  a = a
  b = b
  Ids <- TwoIds
  Incarnations <- Again
  Limit = 1
  Patient = TRUE
  Returning <- AllButB
SPECIFICATION FairSpec
INVARIANTS TypeOK OnePlace Reachable
PROPERTIES ServesSessions AnswersSettle StopSettles ShutdownEnds
CHECK_DEADLOCK FALSE
