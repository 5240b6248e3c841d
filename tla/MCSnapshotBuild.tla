--------------------------- MODULE MCSnapshotBuild ---------------------------
(* Instances of SnapshotBuild for TLC: two regions, each in its own zone.    *)
EXTENDS SnapshotBuild

CONSTANTS k1, k2, z1, z2

MCZoneOf == [k \in {k1, k2} |-> IF k = k1 THEN z1 ELSE z2]
============================================================================
