---------------------------------- MODULE Hal ----------------------------------
(* The kernel services of the HAL together: descriptors and clock. *)
EXTENDS AltFd, AltTick

halVars == <<fdVars, tickVars>>
HalInit == FdInit /\ TickInit
HalNext == (FdNext /\ UNCHANGED tickVars) \/ (TickNext /\ UNCHANGED fdVars)
HalSpec == HalInit /\ [][HalNext]_halVars

=============================================================================
