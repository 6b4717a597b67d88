\* One health check at a time; both attempts of a reconnect.
CONSTANTS
  t1 = t1
  t2 = t2
  MaxAttempts = 2
  EnableAudio = TRUE
  EnableVideo = FALSE
  Ticks <- OneTick
  Slow <- SlowTarget
SPECIFICATION FairSpec
PROPERTIES KeepsLifecycle DeathNoticed
CHECK_DEADLOCK FALSE
