------------------------------- MODULE MCMedia -------------------------------
(* Small instances of MediaPipeline for TLC.                                *)
EXTENDS MediaPipeline
==============================================================================
