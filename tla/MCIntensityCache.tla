-------------------------- MODULE MCIntensityCache --------------------------
(* The instance of IntensityCache for TLC is a plain one: its cfg gives every *)
(* constant a small set or number.                                            *)
EXTENDS IntensityCache
============================================================================
