\* A real session with its orchestrator and a dry run, on a pool too small for
\* both.
CONSTANTS
  s1 = s1
  s2 = s2
  s3 = s3
  t1 = t1
  Own = s1
  Others = {s2}
  DryRun = {s2}
  EnableAudio = FALSE
  EnableVideo = FALSE
  Displays = {1, 2, 3}
  VideoDevices = {1, 2}
  MaxAttempts = 1
  Ticks <- OneTick
  Slow <- SlowTarget
  MayCrash = TRUE
  MaxOrphans = 0
SPECIFICATION FairSpec
INVARIANTS AllocatesAfresh BridgeHasDisplays NeighboursKeepDisplays PoolForgets
PROPERTIES AllocateSettles StopCompletes
CHECK_DEADLOCK FALSE
