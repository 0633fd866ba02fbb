---------------------------- MODULE CommandModule ----------------------------
(***************************************************************************)
(* The FPGA side of the Nios -> FPGA command link: hdl/command_module.v.   *)
(* Every register below is a register of that Verilog module and           *)
(* Clock(valid, word) is one rising edge of its clk, with the head of the  *)
(* protocol FIFO on protocol_fifo_out_valid / protocol_fifo_out_data.      *)
(*                                                                         *)
(* A word is a record: head says whether its upper half is HEAD_CODE       *)
(* (0x1234), the only thing IDLE looks at, and data is what a register     *)
(* receives from it.  protocol_fifo_out_ready is 1 from the first clock    *)
(* after reset on, so a valid word is always consumed.                     *)
(***************************************************************************)
EXTENDS Integers, Sequences

CONSTANTS
    RegCmds,        \* commands that carry one parameter word (0xa1xx..0xadxx)
    EnableCmds,     \* ... those decoded to one bit: laser, motor, upload enable
    MOTOR_SPEED,    \* ... the one the FPGA range-checks itself
    APD_VOLT,       \* ... the one that also pulses dac_set_flag
    Regions,        \* M_WR_REGION0..2, each with a RAM of its own
    PRESDO,         \* M_LASER_PSEUDO, a shift register of words
    RamSize,        \* words of a region RAM (1024)
    PresdoDepth,    \* words laser_presdo holds (240 bits: seven and a half)
    CntMax,         \* largest value of the 16-bit recv_cnt
    Width,          \* [RegCmds -> Nat]: how many values a register can hold
    ResetValue,     \* [RegCmds -> Nat]: the value after rst_n
    ENABLE,         \* 0x11111111
    SpeedMin,       \* 8
    SpeedMax        \* 15

Cmds == RegCmds \cup Regions \cup {PRESDO}

NoRegion == -1

ASSUME CmdAssumption ==
    /\ RegCmds \subseteq Nat
    /\ Regions \subseteq Nat
    /\ PRESDO \in Nat
    /\ RegCmds \cap Regions = {}
    /\ PRESDO \notin RegCmds \cup Regions
    /\ EnableCmds \subseteq RegCmds
    /\ MOTOR_SPEED \in RegCmds \ EnableCmds

ASSUME SizeAssumption ==
    /\ RamSize \in Nat \ {0}
    /\ CntMax \in Nat
    /\ PresdoDepth \in Nat \ {0}

ASSUME RegAssumption ==
    /\ Width \in [RegCmds -> Nat \ {0}]
    /\ ResetValue \in [RegCmds -> Nat]
    /\ \A c \in RegCmds : ResetValue[c] < Width[c]
    /\ \A c \in EnableCmds : Width[c] = 2
    /\ SpeedMin \in Nat /\ SpeedMax \in Nat /\ SpeedMax < Width[MOTOR_SPEED]

VARIABLES
    cs,             \* the state of the FSM
    recv_command,
    data_len_reg,
    recv_cnt,
    reg,            \* [RegCmds -> Nat], the parameter registers
    dac_set_flag,
    region_wren,    \* the region whose registered write enable is high
    region_wrdata,
    ram,            \* [Regions -> [0..RamSize-1 -> Nat]]
    laser_presdo    \* the words it holds, oldest first

fpga == <<cs, recv_command, data_len_reg, recv_cnt, reg, dac_set_flag,
          region_wren, region_wrdata, ram, laser_presdo>>

States == {"IDLE", "HEAD_COMMAND", "DATA_LEN", "DATA", "CHECKSUM", "OVER"}

Addr == 0..(RamSize - 1)

FpgaInit ==
    /\ cs = "IDLE"
    /\ recv_command = 0
    /\ data_len_reg = 0
    /\ recv_cnt = 0
    /\ reg = ResetValue
    /\ dac_set_flag = FALSE
    /\ region_wren = NoRegion
    /\ region_wrdata = 0
    /\ ram = [r \in Regions |-> [a \in Addr |-> 0]]
    /\ laser_presdo = <<>>

-----------------------------------------------------------------------------
(* Faulty variants, used to show that the properties can fail. *)
NextStateEarlyExit(valid, word) ==
    IF cs = "IDLE" THEN IF valid /\ word.head THEN "HEAD_COMMAND" ELSE "IDLE"
    ELSE IF cs = "HEAD_COMMAND" THEN IF valid THEN "DATA_LEN" ELSE "HEAD_COMMAND"
    ELSE IF cs = "DATA_LEN" THEN IF valid THEN "DATA" ELSE "DATA_LEN"
    ELSE IF cs = "DATA" THEN IF recv_cnt = data_len_reg THEN "CHECKSUM" ELSE "DATA"
    ELSE IF cs = "CHECKSUM" THEN IF valid THEN "OVER" ELSE "CHECKSUM"
    ELSE "IDLE"

NextStateLateExit(valid, word) ==
    IF cs = "IDLE" THEN IF valid /\ word.head THEN "HEAD_COMMAND" ELSE "IDLE"
    ELSE IF cs = "HEAD_COMMAND" THEN IF valid THEN "DATA_LEN" ELSE "HEAD_COMMAND"
    ELSE IF cs = "DATA_LEN" THEN IF valid THEN "DATA" ELSE "DATA_LEN"
    ELSE IF cs = "DATA" THEN IF recv_cnt = data_len_reg + 2 THEN "CHECKSUM" ELSE "DATA"
    ELSE IF cs = "CHECKSUM" THEN IF valid THEN "OVER" ELSE "CHECKSUM"
    ELSE "IDLE"

NextStateNoHeadTest(valid, word) ==
    IF cs = "IDLE" THEN IF valid THEN "HEAD_COMMAND" ELSE "IDLE"
    ELSE IF cs = "HEAD_COMMAND" THEN IF valid THEN "DATA_LEN" ELSE "HEAD_COMMAND"
    ELSE IF cs = "DATA_LEN" THEN IF valid THEN "DATA" ELSE "DATA_LEN"
    ELSE IF cs = "DATA" THEN IF recv_cnt = data_len_reg + 1 THEN "CHECKSUM" ELSE "DATA"
    ELSE IF cs = "CHECKSUM" THEN IF valid THEN "OVER" ELSE "CHECKSUM"
    ELSE "IDLE"

LatchUntruncated(c, old, v) ==
    IF c \in EnableCmds THEN IF v = ENABLE THEN 1 ELSE 0
    ELSE IF c = MOTOR_SPEED THEN IF v \in SpeedMin..SpeedMax THEN v ELSE old
    ELSE v

WrAddrOffByOne == (recv_cnt - 1) % RamSize

(* ns: the combinational next state. *)
NextState(valid, word) ==
    IF cs = "IDLE" THEN IF valid /\ word.head THEN "HEAD_COMMAND" ELSE "IDLE"
    ELSE IF cs = "HEAD_COMMAND" THEN IF valid THEN "DATA_LEN" ELSE "HEAD_COMMAND"
    ELSE IF cs = "DATA_LEN" THEN IF valid THEN "DATA" ELSE "DATA_LEN"
    ELSE IF cs = "DATA" THEN IF recv_cnt = data_len_reg + 1 THEN "CHECKSUM" ELSE "DATA"
    ELSE IF cs = "CHECKSUM" THEN IF valid THEN "OVER" ELSE "CHECKSUM"
    ELSE "IDLE"

(* What a parameter register takes from the word on the bus. *)
Latch(c, old, v) ==
    IF c \in EnableCmds THEN IF v = ENABLE THEN 1 ELSE 0
    ELSE IF c = MOTOR_SPEED THEN IF v \in SpeedMin..SpeedMax THEN v ELSE old
    ELSE v % Width[c]

(* region?_wraddr is combinational: recv_cnt - 2, as many bits as the RAM has. *)
WrAddr == IF recv_cnt - 2 \in Addr THEN recv_cnt - 2 ELSE (recv_cnt - 2) % RamSize

(* The 240-bit shift register: the newest word enters at the low end. *)
ShiftIn(s, v) ==
    IF Len(s) < PresdoDepth THEN Append(s, v) ELSE Append(Tail(s), v)

RecvCommand(ns, word) ==
    recv_command' = IF cs = "IDLE" /\ ns = "HEAD_COMMAND" THEN word.data ELSE recv_command

RecvCount(valid) ==
    recv_cnt' = IF cs = "IDLE" THEN 0
                ELSE IF ~valid THEN recv_cnt
                ELSE IF recv_cnt = CntMax THEN 0 ELSE recv_cnt + 1

(* The registers are written while ns is DATA, whether the word is valid or
   not; the region RAMs and laser_presdo ask for a valid word.              *)
Store(toData, valid, word) ==
    /\ reg' = IF toData /\ recv_command \in RegCmds
              THEN [reg EXCEPT ![recv_command] = Latch(recv_command, @, word.data)]
              ELSE reg
    /\ dac_set_flag' = (toData /\ recv_command = APD_VOLT)
    /\ region_wren' = IF toData /\ valid /\ recv_command \in Regions
                      THEN recv_command ELSE NoRegion
    /\ region_wrdata' = IF toData /\ recv_command \in Regions THEN word.data ELSE 0
    /\ ram' = IF region_wren \in Regions
              THEN [ram EXCEPT ![region_wren][WrAddr] = region_wrdata]
              ELSE ram
    /\ laser_presdo' = IF toData /\ valid /\ recv_command = PRESDO
                       THEN ShiftIn(laser_presdo, word.data) ELSE laser_presdo

(* One clock. *)
Clock(valid, word) ==
    LET ns == NextState(valid, word)
    IN  /\ cs' = ns
        /\ RecvCommand(ns, word)
        /\ data_len_reg' = IF cs = "HEAD_COMMAND" /\ ns = "DATA_LEN" THEN word.data
                           ELSE IF cs = "IDLE" THEN 0 ELSE data_len_reg
        /\ RecvCount(valid)
        /\ Store(ns = "DATA", valid, word)

FpgaTypeOK ==
    /\ cs \in States
    /\ recv_command \in Nat
    /\ data_len_reg \in Nat
    /\ recv_cnt \in 0..CntMax
    /\ reg \in [RegCmds -> Nat]
    /\ \A c \in RegCmds : reg[c] < Width[c]
    /\ dac_set_flag \in BOOLEAN
    /\ region_wren \in Regions \cup {NoRegion}
    /\ region_wrdata \in Nat
    /\ ram \in [Regions -> [Addr -> Nat]]
    /\ laser_presdo \in Seq(Nat)
=============================================================================
