---------------------------- MODULE MCOrchestrator ----------------------------
(* Small instances of SessionOrchestrator for TLC.                           *)
EXTENDS SessionOrchestrator, TLC

CONSTANTS t1, t2

OneTick == {t1}
TwoTicks == {t1, t2}
SlowSource == {"source"}
SlowTarget == {"target"}
AlikeTicks == Permutations(TwoTicks)
===============================================================================
