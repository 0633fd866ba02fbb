------------------------------- MODULE BootLink -------------------------------
(***************************************************************************)
(* What the firmware really sends over the command link from power-on:     *)
(* main.c loads the three layers of the group the switch selects, then     *)
(* init_fpga_sys sends every parameter and finally write_laser_presdo, and *)
(* the main loop reloads the three layers every time the group has to be   *)
(* loaded again (the first time in its first iteration).                   *)
(*                                                                         *)
(* write_laser_presdo announces 30 words (the bytes of laser_presdo) and   *)
(* writes 8, so Announced[PRESDO] > Sent[PRESDO] here.                     *)
(***************************************************************************)
EXTENDS CommandLink

CONSTANTS
    Layers,         \* the sequence of the three region commands
    Params,         \* the sequence of parameter commands of init_fpga_sys
    Groups,         \* the positions of the region switch
    Rom,            \* [Groups -> [Regions -> [0..n-1 -> words]]]: the EEPROM
    SysPara,        \* [RegCmds -> words]
    PresdoWords,    \* [0..Sent[PRESDO]-1 -> words]: SysPara.laser_presdo
    Tail0,          \* the last word of a packet, 0xccccdddd or a checksum
    Reloads         \* how many reloads of the main loop are followed

(* A word that cannot be taken for the head of a packet: its upper half is  *)
(* not 0x1234.  A region holds 16-bit values and a bulk packet ends with    *)
(* 0xccccdddd, so region packets carry no other words.                      *)
Plain == [head : {FALSE}, data : Nat]

(* What is in the EEPROM, and the lengths the packet functions announce: all *)
(* of them tell the truth but write_laser_presdo, which announces too much, *)
(* yet less than a region packet makes up for.                              *)
ASSUME BootAssumption ==
    /\ Layers \in Seq(Regions) /\ Len(Layers) = 3
    /\ Regions \subseteq {Layers[i] : i \in 1..3}
    /\ Params \in Seq(RegCmds)
    /\ \A g \in Groups, r \in Regions : Rom[g][r] \in [0..(Sent[r] - 1) -> Plain]
    /\ \A c \in RegCmds : SysPara[c] \in [head : BOOLEAN, data : Nat]
    /\ PresdoWords \in [0..(Sent[PRESDO] - 1) -> [head : BOOLEAN, data : Nat]]
    /\ Tail0 \in Plain
    /\ Reloads \in Nat
    /\ \A c \in RegCmds : Announced[c] = 1 /\ Sent[c] = 1
    /\ \A r \in Regions : Announced[r] = Sent[r] /\ Sent[r] <= RamSize
    /\ \A c \in Cmds : Announced[c] + 2 <= CntMax
    /\ Announced[PRESDO] > Sent[PRESDO]
    /\ \A r \in Regions : Announced[PRESDO] <= Sent[PRESDO] + Sent[r] + 3

VARIABLES
    io,             \* the switch
    value,          \* alarm_region.change_region_value
    step            \* how many items of Program are done

bvars == <<vars, io, value, step>>

Sample == [op |-> "sample", cmd |-> 0]
Send(c) == [op |-> "send", cmd |-> c]
LoadGroup == <<Sample>> \o [i \in DOMAIN Layers |-> Send(Layers[i])]

(* main.c: boot, then Reloads passes through the reload at the end of the loop. *)
Program ==
    LET boot == LoadGroup \o [i \in DOMAIN Params |-> Send(Params[i])] \o <<Send(PRESDO)>>
        n == Len(LoadGroup)
        reload == [i \in 1..(Reloads * n) |-> LoadGroup[((i - 1) % n) + 1]]
    IN  boot \o reload

BootLen == Len(LoadGroup) + Len(Params) + 1

(* Index of the last item of the k-th reload. *)
EndOfReload(k) == BootLen + k * Len(LoadGroup)

PacketFor(c) ==
    [cmd |-> c,
     data |-> IF c \in Regions THEN Rom[value][c]
              ELSE IF c = PRESDO THEN PresdoWords
              ELSE [i \in {0} |-> SysPara[c]],
     sum |-> Tail0]

BootInit ==
    /\ Init
    /\ io \in Groups
    /\ value = io
    /\ step = 0

(* rd_switch_io_value: the group to load is the one the switch shows now.   *)
SampleSwitch ==
    /\ pkt = NoPacket
    /\ step < Len(Program)
    /\ Program[step + 1] = Sample
    /\ value' = io
    /\ step' = step + 1
    /\ UNCHANGED <<vars, io>>

(* The next packet function is called. *)
CallSend ==
    /\ step < Len(Program)
    /\ Program[step + 1].op = "send"
    /\ BeginPacket(PacketFor(Program[step + 1].cmd))
    /\ step' = step + 1
    /\ UNCHANGED <<io, value>>

(* Someone turns the switch while the firmware is busy. *)
TurnSwitch ==
    /\ step < Len(Program)
    /\ \E v \in Groups \ {io} : io' = v
    /\ UNCHANGED <<vars, value, step>>

LinkStep ==
    /\ WriteWord \/ IdleClock
    /\ UNCHANGED <<io, value, step>>

BootNext == SampleSwitch \/ CallSend \/ TurnSwitch \/ LinkStep

BootSpec == BootInit /\ [][BootNext]_bvars

-----------------------------------------------------------------------------
(* A packet has been written out and the RAM write port is empty. *)
Quiet == pkt = NoPacket /\ region_wren = NoRegion

Loaded == \A r \in Regions : \A i \in DOMAIN Rom[value][r] : ram[r][i] = Rom[value][r][i].data

(* The damage is bounded: the packet after write_laser_presdo is lost, but  *)
(* by its end the FSM has found the packet boundaries again and never loses *)
(* them any more, although nothing resets it.                               *)
Resynchronised == (step > BootLen + 2) => InStep

(* ... so that every reload after the first one leaves the FPGA with the    *)
(* group the firmware loaded, all three layers of it.                       *)
LaterReloadsLoaded ==
    \A k \in 2..Reloads : (step = EndOfReload(k) /\ Quiet) => Loaded

(* The parameters are all in place when init_fpga_sys returns, and nothing  *)
(* that goes wrong later disturbs them.                                     *)
ParametersHeld ==
    (step > BootLen - 1) =>
        \A i \in DOMAIN Params :
            LET c == Params[i] IN reg[c] = Latch(c, ResetValue[c], SysPara[c].data)
=============================================================================
