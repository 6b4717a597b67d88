\* Two real sessions and a dry run, all with video, on a pool that is enough for
\* two of them and cameras for one.
CONSTANTS
  s1 = s1
  s2 = s2
  s3 = s3
  stop = stop
  Sessions <- Three
  DryRun = {s3}
  WithVideo = {s1, s2, s3}
  Displays = {1, 2, 3, 4}
  VideoDevices = {1, 2}
  Callers = {stop}
  MayCrash = FALSE
  MaxOrphans = 1
SPECIFICATION Spec
SYMMETRY RealSessions
INVARIANTS DevicesReturned
PROPERTIES NoDisplayLeak
CHECK_DEADLOCK FALSE
