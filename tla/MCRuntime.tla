------------------------------ MODULE MCRuntime ------------------------------
(* Small instances of WorkerRuntime for TLC.                                *)
EXTENDS WorkerRuntime, TLC

CONSTANTS a, b

TwoIds == {a, b}
Again == [id \in TwoIds |-> IF id = a THEN 2 ELSE 1]

\* The teardown of the one session of b may never come back.
AllButB == Orchestrators \ {<<b, 1>>}
==============================================================================
