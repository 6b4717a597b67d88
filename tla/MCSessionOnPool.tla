--------------------------- MODULE MCSessionOnPool ---------------------------
(* Small instances of SessionOnPool for TLC.                                *)
EXTENDS SessionOnPool, TLC

CONSTANTS s1, s2, s3, t1

OneTick == {t1}
SlowTarget == {"target"}
AlikeOthers == Permutations(Others)
==============================================================================
