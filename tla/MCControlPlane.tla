--------------------------- MODULE MCControlPlane ---------------------------
(* Small instances of ControlPlane for TLC.                                *)
EXTENDS ControlPlane, TLC

CONSTANTS x, h1, h2

TwoHandlers == {h1, h2}
=============================================================================
