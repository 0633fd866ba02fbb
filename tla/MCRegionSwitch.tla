---------------------------- MODULE MCRegionSwitch ----------------------------
(* RegionSwitch with two groups of three layers. *)
EXTENDS RegionSwitch
=============================================================================
