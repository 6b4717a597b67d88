\* README: a session gets a display of its own, ready before its browser
\* starts. Two real sessions.
CONSTANTS
  s1 = s1
  s2 = s2
  s3 = s3
  t1 = t1
  Own = s1
  Others = {s2}
  DryRun = {}
  EnableAudio = FALSE
  EnableVideo = FALSE
  Displays = {1, 2, 3, 4}
  VideoDevices = {1, 2}
  MaxAttempts = 1
  Ticks <- OneTick
  Slow <- SlowTarget
  MayCrash = FALSE
  MaxOrphans = 0
SPECIFICATION Spec
INVARIANTS DisplaysReady
CHECK_DEADLOCK FALSE
