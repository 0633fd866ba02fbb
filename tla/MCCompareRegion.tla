--------------------------- MODULE MCCompareRegion ---------------------------
(* A revolution of four points; distances that belong together, and nothing  *)
(* measured; a size that takes three points.                                 *)
EXTENDS TargetSize
=============================================================================
