------------------------ MODULE MCLegacySubscription ------------------------
(* Instance of LegacySubscription for TLC: one consumer, small events.      *)
EXTENDS LegacySubscription

MCSizes == {1}
=============================================================================
