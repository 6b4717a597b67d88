----------------------------- MODULE MCRegistry -----------------------------
(* Small instances of NodeRegistry for TLC.                                *)
EXTENDS NodeRegistry, TLC

CONSTANTS w1, w2

TwoNodes == {w1, w2}
=============================================================================
