------------------------------- MODULE MCUpload -------------------------------
(* Upload with revolutions of a few points. *)
EXTENDS Upload
=============================================================================
