--------------------------- MODULE MCEventBridge ---------------------------
(***************************************************************************)
(* Instances of EventBridge for TLC.  Sizes are chosen so that an event is *)
(* small (1), more than half of the ring (2) or exceeds it on its own (4). *)
(***************************************************************************)
EXTENDS EventBridge

MCSizes == {1, 2, 4}
=============================================================================
