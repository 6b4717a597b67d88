\* Two health checks may overlap, and a reconnect has two attempts.
CONSTANTS
  t1 = t1
  t2 = t2
  MaxAttempts = 2
  EnableAudio = TRUE
  EnableVideo = TRUE
  Ticks <- TwoTicks
  Slow <- SlowSource
SPECIFICATION Spec
SYMMETRY AlikeTicks
INVARIANTS TypeOK BridgeIsWhole OneBuilder MonitorWatchesLiveBridge CleanEnd
PROPERTIES TerminalStays
CHECK_DEADLOCK FALSE
