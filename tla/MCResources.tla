----------------------------- MODULE MCResources -----------------------------
(* Small instances of SessionResourceManager for TLC.                       *)
EXTENDS SessionResourceManager, TLC

CONSTANTS s1, s2, s3, stop

Three == {s1, s2, s3}

\* The two real sessions may be exchanged.
RealSessions == Permutations({s1, s2})
==============================================================================
