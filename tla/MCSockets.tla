------------------------------- MODULE MCSockets -------------------------------
(* The two sockets that get the reports, with their 4 KB of memory. *)
EXTENDS Sockets, TLC
MCPolled == <<0, 1>>
MCReported == <<0, 1>>
MCMemory == 0 :> 4096 @@ 1 :> 4096
=============================================================================
