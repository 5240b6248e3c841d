------------------------------ MODULE MCShedder ------------------------------
(* Instances of Shedder for TLC: a clean and a dirty signal.                 *)
EXTENDS Shedder

CONSTANTS clean, dirty

MCSignals == {clean, dirty}

MCGood == {clean}
============================================================================
