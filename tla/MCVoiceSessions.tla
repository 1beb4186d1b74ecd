-------------------------- MODULE MCVoiceSessions --------------------------
(* Instances of VoiceSessions for TLC. *)
EXTENDS VoiceSessions
=============================================================================
