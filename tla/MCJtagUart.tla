------------------------------ MODULE MCJtagUart ------------------------------
(* Rings of two characters and hardware FIFOs of one: every ring is full,    *)
(* empty and wrapped around within a call.                                   *)
EXTENDS JtagUart
=============================================================================
