------------------------------ MODULE MCBootLink ------------------------------
(***************************************************************************)
(* BootLink with the real lengths of the laser_presdo packet (30 announced, *)
(* 8 written) and regions of 24 words instead of 811: long enough for the   *)
(* 22 words the FSM swallows to end inside the first region packet.         *)
(***************************************************************************)
EXTENDS BootLink

MCRegCmds == {1, 2, 3}
MCEnableCmds == {1}
MCLayers == <<11, 12, 13>>
MCRegions == {11, 12, 13}
RegionLen == 24
MCParams == <<1, 2, 3>>
MCGroups == {0, 1}
MCWidth == [c \in MCRegCmds |-> CASE c = 1 -> 2 [] c = 2 -> 16 [] OTHER -> 64]
MCResetValue == [c \in MCRegCmds |-> 1]
MCCmds == MCRegCmds \cup MCRegions \cup {20}
MCAnnounced == [c \in MCCmds |->
                   IF c \in MCRegions THEN RegionLen ELSE IF c = 20 THEN 30 ELSE 1]
MCSent == [c \in MCCmds |->
                   IF c \in MCRegions THEN RegionLen ELSE IF c = 20 THEN 8 ELSE 1]
W(v) == [head |-> FALSE, data |-> v]
MCRom == [g \in MCGroups |-> [r \in MCRegions |-> [i \in 0..(RegionLen - 1) |->
             W(1000 * (g + 1) + 100 * (r - 10) + i)]]]
MCSysPara == [c \in MCRegCmds |-> W(8 + c)]
MCPresdoWords == [i \in 0..7 |-> W(5000 + i)]
MCWords == {W(7777)}
MCTail0 == W(7777)
=============================================================================
