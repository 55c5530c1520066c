--------------------------- MODULE MCEngineClaims ---------------------------
(***************************************************************************)
(* Instances of EngineClaims: one session, or two where the claim is about *)
(* a command sent to another than the active session.                      *)
(***************************************************************************)
EXTENDS EngineClaims

CONSTANTS s1, s2, s3
=============================================================================
