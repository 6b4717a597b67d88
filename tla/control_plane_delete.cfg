\* The README's promise of DELETE.
CONSTANTS
  x = x
  h1 = h1
  h2 = h2
  SessionIds = {x}
  Handlers <- TwoHandlers
SPECIFICATION Spec
INVARIANTS DeleteStops
CHECK_DEADLOCK FALSE
