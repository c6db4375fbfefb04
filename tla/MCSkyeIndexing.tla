---- MODULE MCSkyeIndexing ----
(* Instances of SkyeIndexing for TLC. *)
EXTENDS SkyeIndexing

CONSTANTS v1, v2, p1, p2

OneVariant    == {v1}
TwoVariants   == {v1, v2}
TwoPartitions == {p1, p2}
BothTypes     == {"RESET", "DELTA"}
====
