\* Two attempts, a stop() at any time, forwarders that any signal may end.
CONSTANTS
  MaxAttempts = 2
  MaySignal = TRUE
SPECIFICATION FairSpec
INVARIANTS TypeOK ModulesKnown MediaReleased
PROPERTIES OneWriter LossNoticed TeardownCompletes
CHECK_DEADLOCK FALSE
