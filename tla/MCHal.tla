--------------------------------- MODULE MCHal ---------------------------------
(* Two descriptors besides the standard ones, two alarms, a counter of three *)
(* bits.                                                                     *)
EXTENDS Hal
=============================================================================
