---------------------------- MODULE MCSLAService ----------------------------
(* Instances of SLAService for TLC: an SLA of a client, due at every tick,   *)
(* and the demo SLA, due at every second one: longer than a handler lasts,   *)
(* so a check of it that was stored is not due at once.                      *)
EXTENDS SLAService

MCFrequency == [s \in SLAs |-> s]
============================================================================
