------------------------------ MODULE MCSysWarn ------------------------------
(* SysWarn with rounds of two status frames and two values per quantity. *)
EXTENDS SysWarn
=============================================================================
