----------------------------- MODULE CommandLink -----------------------------
(***************************************************************************)
(* The command link as a whole: the Nios firmware writes packets word by   *)
(* word into the protocol FIFO (nios2fpga_protocol.c, region.c), the FPGA  *)
(* of module CommandModule consumes one word per clock whenever there is   *)
(* one.  Nothing checks a packet on the way: the checksum is never         *)
(* verified, the length announced is trusted, and the FSM can be kept in   *)
(* step only by what the firmware writes and when.                         *)
(*                                                                         *)
(* wantReg and wantRam record what the packets written so far ask for.     *)
(***************************************************************************)
EXTENDS CommandModule

CONSTANTS
    Announced,      \* [Cmds -> Nat]: the length word of a packet
    Sent,           \* [Cmds -> Nat]: the data words actually written
    Words,          \* the data and checksum words a packet may carry
    MinGap          \* FPGA clocks without a word between two words

NoPacket == [cmd |-> -1]

(* A packet: its command, its data words and its last word (the XOR of      *)
(* nios2fpga_data_packet or the constant 0xccccdddd of the bulk writers).   *)
PacketsOf(c) ==
    {[cmd |-> c, data |-> d, sum |-> s] : d \in [0..(Sent[c] - 1) -> Words], s \in Words}

ASSUME LinkAssumption ==
    /\ Announced \in [Cmds -> Nat]
    /\ Sent \in [Cmds -> Nat \ {0}]
    /\ MinGap \in Nat \ {0}
    /\ Words \subseteq [head : BOOLEAN, data : Nat]

VARIABLES
    pkt,            \* the packet being written, or NoPacket
    pos,            \* how many of its words have been written
    gap,            \* clocks since the last word, up to MinGap
    wantReg,        \* what the registers should hold
    wantRam         \* what the region RAMs should hold

nios == <<pkt, pos, gap, wantReg, wantRam>>
vars == <<cs, recv_command, data_len_reg, recv_cnt, reg, dac_set_flag,
          region_wren, region_wrdata, ram, laser_presdo,
          pkt, pos, gap, wantReg, wantRam>>

Init ==
    /\ FpgaInit
    /\ pkt = NoPacket
    /\ pos = 0
    /\ gap = 0
    /\ wantReg = ResetValue
    /\ wantRam = [r \in Regions |-> [a \in Addr |-> 0]]

-----------------------------------------------------------------------------
LastPos(p) == Sent[p.cmd] + 2

(* The word at position i of packet p: head, length, data, checksum. *)
WordAt(p, i) ==
    IF i = 0 THEN [head |-> TRUE, data |-> p.cmd]
    ELSE IF i = 1 THEN [head |-> FALSE, data |-> Announced[p.cmd]]
    ELSE IF i = LastPos(p) THEN p.sum
    ELSE p.data[i - 2]

(* What writing the word at position i of p asks the FPGA to hold. *)
Want(p, i) ==
    LET isData == i \in 2..(LastPos(p) - 1)
    IN  /\ wantReg' = IF isData /\ p.cmd \in RegCmds
                      THEN [wantReg EXCEPT ![p.cmd] = Latch(p.cmd, @, p.data[i - 2].data)]
                      ELSE wantReg
        /\ wantRam' = IF isData /\ p.cmd \in Regions
                      THEN [wantRam EXCEPT ![p.cmd][i - 2] = p.data[i - 2].data]
                      ELSE wantRam

(* The firmware starts a packet: set_laser_paramter, region_save2fpga or    *)
(* write_laser_presdo is called.                                            *)
BeginPacket(p) ==
    /\ pkt = NoPacket
    /\ pkt' = p
    /\ pos' = 0
    /\ UNCHANGED <<fpga, gap, wantReg, wantRam>>

(* altera_avalon_fifo_write_fifo: the next word reaches the FPGA. *)
WriteWord ==
    /\ pkt # NoPacket
    /\ gap = MinGap
    /\ Clock(TRUE, WordAt(pkt, pos))
    /\ Want(pkt, pos)
    /\ IF pos = LastPos(pkt)
       THEN pkt' = NoPacket /\ pos' = 0
       ELSE pkt' = pkt /\ pos' = pos + 1
    /\ gap' = 0

(* A clock at which the FIFO is empty; the bus may show anything. *)
IdleClock ==
    /\ \E w \in Words : Clock(FALSE, w)
    /\ gap' = IF gap < MinGap THEN gap + 1 ELSE gap
    /\ UNCHANGED <<pkt, pos, wantReg, wantRam>>

Next ==
    \/ \E c \in Cmds : \E p \in PacketsOf(c) : BeginPacket(p)
    \/ WriteWord
    \/ IdleClock

Spec == Init /\ [][Next]_vars

(* The clock never stops and a packet function, once called, runs to its    *)
(* end: it neither blocks nor returns early.                                *)
FairSpec == Spec /\ WF_vars(WriteWord) /\ WF_vars(IdleClock)

-----------------------------------------------------------------------------
(* Every register of the FPGA and of the writer stays in its range; a        *)
(* parameter register never exceeds its width.                              *)
TypeOK ==
    /\ FpgaTypeOK
    /\ pkt = NoPacket \/ \E c \in Cmds : pkt \in PacketsOf(c)
    /\ pos \in Nat
    /\ pkt # NoPacket => pos \in 0..LastPos(pkt)
    /\ gap \in 0..MinGap
    /\ wantReg \in [RegCmds -> Nat]
    /\ \A c \in RegCmds : wantReg[c] < Width[c]
    /\ wantRam \in [Regions -> [Addr -> Nat]]

(* The FSM of command_module.v is exactly as far into a packet as the       *)
(* firmware that writes it: no word of one packet is ever taken for a word  *)
(* of another, although neither side tells the other where it is.           *)
InStep ==
    LET c == pkt.cmd
    IN  \/ /\ pkt = NoPacket \/ pos = 0
           /\ cs = "IDLE" \/ (cs = "OVER" /\ gap = 0)
        \/ /\ pkt # NoPacket /\ pos = 1
           /\ cs = "HEAD_COMMAND" /\ recv_command = c /\ recv_cnt = 0
        \/ /\ pkt # NoPacket /\ pos \in 2..(Sent[c] + 2)
           /\ recv_command = c /\ data_len_reg = Announced[c] /\ recv_cnt = pos - 1
           /\ IF pos = 2 THEN cs = "DATA_LEN"
              ELSE IF pos = Sent[c] + 2 THEN cs = "CHECKSUM" \/ (cs = "DATA" /\ gap = 0)
              ELSE cs = "DATA"

(* The FPGA holds what the firmware asked for: every parameter register    *)
(* equals the last value written for it, and so does every word of every   *)
(* region RAM once the write that sits in the registered write port        *)
(* (region?_wren, region?_wrdata) has been done.                           *)
Delivered ==
    /\ reg = wantReg
    /\ wantRam = IF region_wren = NoRegion THEN ram
                 ELSE [ram EXCEPT ![region_wren][WrAddr] = region_wrdata]

(* Whenever the FSM has left IDLE it comes back to it, ready for the next    *)
(* head, instead of waiting for words of a packet that is already complete. *)
ReturnsToIdle == (cs # "IDLE") ~> (cs = "IDLE")
=============================================================================
