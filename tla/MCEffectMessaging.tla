------------------------- MODULE MCEffectMessaging -------------------------
(* Small instances of EffectMessaging for TLC.                             *)
EXTENDS EffectMessaging
============================================================================
