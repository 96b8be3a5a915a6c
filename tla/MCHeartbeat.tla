---------------------------- MODULE MCHeartbeat ----------------------------
(* Instances of Heartbeat for TLC.                                         *)
EXTENDS Heartbeat

WorkerAndInline == {1, 2}
=============================================================================
