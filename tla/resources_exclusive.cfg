\* Two real sessions and a dry run on a pool too small for them, with X servers
\* that may die at any time.
CONSTANTS
  s1 = s1
  s2 = s2
  s3 = s3
  stop = stop
  Sessions <- Three
  DryRun = {s3}
  WithVideo = {s1, s3}
  Displays = {1, 2, 3}
  VideoDevices = {1, 2}
  Callers = {stop}
  MayCrash = TRUE
  MaxOrphans = 1
SPECIFICATION Spec
INVARIANTS TypeOK DisplayExclusive UsedIsTaken XvfbReaped
CHECK_DEADLOCK FALSE
