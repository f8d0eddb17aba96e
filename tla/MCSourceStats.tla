---------------------------- MODULE MCSourceStats ----------------------------
(* The statistics alone: two sources that can be reached, one that cannot, *)
(* and batches of two.  Intervals of 1 and 2 keep the order of the checks  *)
(* open; the intervals themselves are checked in MCCataloguing.            *)
EXTENDS SourceStats, TLC
==============================================================================
