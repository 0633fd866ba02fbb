-------------------------------- MODULE Channel --------------------------------
(***************************************************************************)
(* One direction of the console as its two ends see it: characters come    *)
(* out in the order in which they were put in, none lost and none twice,   *)
(* until the system restarts.                                              *)
(***************************************************************************)
EXTENDS Integers, Sequences

CONSTANT Char
VARIABLES q,        \* the characters on their way
          received, \* how many have come out
          up        \* the system runs

Init == q = <<>> /\ received = 0 /\ up = TRUE

Put ==
    /\ up /\ Len(q') > Len(q) /\ SubSeq(q', 1, Len(q)) = q
    /\ \A i \in 1..Len(q') : q'[i] \in Char
    /\ UNCHANGED <<received, up>>

Take ==
    /\ up /\ received' - received \in 1..Len(q)
    /\ q' = SubSeq(q, received' - received + 1, Len(q))
    /\ UNCHANGED up

Restart == (~up \/ ~up') /\ q' = <<>> /\ received' = 0

Next == Put \/ Take \/ Restart

Spec == Init /\ [][Next]_<<q, received, up>>

=============================================================================
