---------------------------- MODULE MCHeartbeat ----------------------------
(* A heartbeat in small units of time.                                     *)
EXTENDS Heartbeat
=============================================================================
