---------------------------- MODULE MCSLAMonitor ----------------------------
(* Instances of SLAMonitor for TLC: one SLA due at every second poll, one at *)
(* every third.                                                              *)
EXTENDS SLAMonitor

CONSTANTS s1, s2

MCSLAs == {s1, s2}

MCFrequency == [s \in MCSLAs |-> IF s = s1 THEN 2 ELSE 3]
============================================================================
