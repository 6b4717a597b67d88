\* The design document's isolation of sessions: a crash stays in its session.
CONSTANTS
  t1 = t1
  t2 = t2
  MaxAttempts = 1
  EnableAudio = FALSE
  EnableVideo = FALSE
  Ticks <- OneTick
  Slow <- SlowTarget
SPECIFICATION Spec
INVARIANTS WorkerSurvives
CHECK_DEADLOCK FALSE
