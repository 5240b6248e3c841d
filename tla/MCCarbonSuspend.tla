--------------------------- MODULE MCCarbonSuspend ---------------------------
(* Instances of CarbonSuspend for TLC: two CronJobs of a region whose signal *)
(* may stay away, the first without a deadline and the second with a cap,    *)
(* listed before one of a reliable region.                                   *)
EXTENDS CarbonSuspend

CONSTANTS r1, r2

MCRegions == {r1, r2}
MCReliable == {r2}
MCRegion == <<r1, r1, r2>>
MCCap == <<None, 0, None>>
MCMaxDefer == <<None, 1, 1>>

\* Clean, clean but above the cap, and dirty.
MCSignals == {[clean |-> TRUE, intensity |-> 0],
              [clean |-> TRUE, intensity |-> 1],
              [clean |-> FALSE, intensity |-> 1]}
============================================================================
