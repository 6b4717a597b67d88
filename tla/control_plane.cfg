\* Sessions are independent of each other: one, with two requests at a time.
CONSTANTS
  x = x
  h1 = h1
  h2 = h2
  SessionIds = {x}
  Handlers <- TwoHandlers
SPECIFICATION FairSpec
INVARIANTS TypeOK EndIsReal
PROPERTIES StoreCatchesUp
CHECK_DEADLOCK FALSE
