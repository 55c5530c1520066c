-------------------------- MODULE MCSessionEngine --------------------------
(***************************************************************************)
(* A model-checking instance of SessionEngine: three sessions, one place   *)
(* in the background, so that switching sessions must evict or fail.       *)
(***************************************************************************)
EXTENDS SessionEngine

CONSTANTS s1, s2, s3
=============================================================================
