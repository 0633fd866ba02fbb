---------------------------- MODULE MCCommandLink ----------------------------
(***************************************************************************)
(* CommandLink with small packets: two parameter registers, an enable bit, *)
(* the motor speed, and two regions of two words in RAMs of three.          *)
(***************************************************************************)
EXTENDS CommandLink

MCRegCmds == {1, 2, 3}
MCEnableCmds == {1}
MCRegions == {11, 12}
MCWidth == [c \in MCRegCmds |-> CASE c = 1 -> 2 [] c = 2 -> 16 [] OTHER -> 8]
MCResetValue == [c \in MCRegCmds |-> 1]
MCAnnounced == [c \in MCRegCmds \cup MCRegions \cup {20} |->
                   IF c \in MCRegions THEN 2 ELSE IF c = 20 THEN 2 ELSE 1]
MCSent == MCAnnounced
MCWords == {[head |-> TRUE, data |-> 11], [head |-> FALSE, data |-> 9]}
=============================================================================
