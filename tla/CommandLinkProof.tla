-------------------------- MODULE CommandLinkProof --------------------------
(***************************************************************************)
(* The command link stays in step, and delivers what it is given, for      *)
(* every set of commands, every packet length and every content, provided  *)
(* that a packet announces the number of data words it really carries.     *)
(* And at boot, where the presdo packet announces one word more than it    *)
(* carries: the FSM is in step again after two packets, and everything     *)
(* that is sent after them is in force, for all packets and parameters.    *)
(***************************************************************************)
EXTENDS BootLink, TLAPS

ST == INSTANCE SequenceTheorems

(* What the firmware must respect: the length word tells the truth, a      *)
(* parameter packet has one data word, a region fits its RAM, and the      *)
(* 16-bit word counter does not wrap inside a packet.                      *)
WellFormed ==
    /\ \A c \in Cmds : Announced[c] = Sent[c] /\ Sent[c] + 2 <= CntMax
    /\ \A c \in RegCmds : Sent[c] = 1
    /\ \A r \in Regions : Sent[r] <= RamSize

Word == [head : BOOLEAN, data : Nat]

(* Shape of a packet as the firmware builds it. *)
LEMMA PacketShape ==
    ASSUME NEW c \in Cmds, NEW p \in PacketsOf(c)
    PROVE  /\ p.cmd = c /\ p.cmd \in Nat /\ p # NoPacket
           /\ p.data \in [0..(Sent[c] - 1) -> Words] /\ p.sum \in Words
  BY CmdAssumption DEF PacketsOf, NoPacket, Cmds

(* The packet being written, seen from the type invariant. *)
LEMMA CurrentPacket ==
    ASSUME TypeOK, pkt # NoPacket
    PROVE  /\ pkt.cmd \in Cmds /\ pkt.cmd \in Nat
           /\ pkt.data \in [0..(Sent[pkt.cmd] - 1) -> Words] /\ pkt.sum \in Words
           /\ Sent[pkt.cmd] \in Nat \ {0}
           /\ Announced[pkt.cmd] \in Nat
           /\ LastPos(pkt) = Sent[pkt.cmd] + 2
           /\ pos \in 0..LastPos(pkt)
  <1>1. PICK c \in Cmds : pkt \in PacketsOf(c)
    BY DEF TypeOK
  <1>2. /\ pkt.cmd = c /\ pkt.cmd \in Nat
        /\ pkt.data \in [0..(Sent[c] - 1) -> Words] /\ pkt.sum \in Words
    BY <1>1, PacketShape
  <1>3. Sent[c] \in Nat \ {0} /\ Announced[c] \in Nat
    BY LinkAssumption
  <1>4. pos \in 0..LastPos(pkt)
    BY DEF TypeOK
  <1>5. QED
    BY <1>2, <1>3, <1>4 DEF LastPos

(* Every position of a packet holds a word. *)
LEMMA WordAtType ==
    ASSUME TypeOK, pkt # NoPacket
    PROVE  /\ WordAt(pkt, pos) \in Word
           /\ pos \in 2..(LastPos(pkt) - 1) => /\ WordAt(pkt, pos) = pkt.data[pos - 2]
                                               /\ pkt.data[pos - 2] \in Word
  <1>1. Words \subseteq Word
    BY LinkAssumption DEF Word
  <1>2. CASE pos = 0
    BY <1>2, CurrentPacket DEF WordAt, Word
  <1>3. CASE pos = 1
    BY <1>3, CurrentPacket DEF WordAt, Word
  <1>4. CASE pos = LastPos(pkt)
    BY <1>4, <1>1, CurrentPacket DEF WordAt
  <1>5. CASE pos \in 2..(LastPos(pkt) - 1)
    <2>1. pos - 2 \in 0..(Sent[pkt.cmd] - 1)
      BY <1>5, CurrentPacket
    <2>2. pkt.data[pos - 2] \in Words
      BY <2>1, CurrentPacket
    <2>3. WordAt(pkt, pos) = pkt.data[pos - 2]
      BY <1>5, CurrentPacket DEF WordAt
    <2> QED BY <2>2, <2>3, <1>1
  <1>6. QED
    BY <1>2, <1>3, <1>4, <1>5, CurrentPacket

(* A parameter register only ever takes values that fit it. *)
LEMMA LatchType ==
    ASSUME NEW c \in RegCmds, NEW old \in Nat, old < Width[c], NEW v \in Nat
    PROVE  Latch(c, old, v) \in Nat /\ Latch(c, old, v) < Width[c]
  <1>1. Width[c] \in Nat \ {0}
    BY RegAssumption
  <1>2. v % Width[c] \in 0..(Width[c] - 1)
    BY <1>1
  <1>3. CASE c \in EnableCmds
    BY <1>3, RegAssumption DEF Latch
  <1>4. CASE c \notin EnableCmds /\ c = MOTOR_SPEED
    BY <1>4, RegAssumption DEF Latch
  <1>5. CASE c \notin EnableCmds /\ c # MOTOR_SPEED
    BY <1>5, <1>1, <1>2 DEF Latch
  <1>6. QED
    BY <1>3, <1>4, <1>5

LEMMA WrAddrType ==
    ASSUME recv_cnt \in Nat
    PROVE  WrAddr \in Addr
  <1>1. (recv_cnt - 2) % RamSize \in 0..(RamSize - 1)
    BY SizeAssumption
  <1>2. QED
    BY <1>1 DEF WrAddr, Addr

(* One clock of command_module.v, with any word on the bus, keeps every     *)
(* register within its width.                                               *)
LEMMA ClockType ==
    ASSUME FpgaTypeOK, NEW valid \in BOOLEAN, NEW word \in Word, Clock(valid, word)
    PROVE  FpgaTypeOK'
  <1> DEFINE ns == NextState(valid, word)
  <1>1. ns \in States
    BY DEF NextState, States
  <1>2. cs' \in States
    BY <1>1 DEF Clock
  <1>3. recv_command' \in Nat
    BY DEF Clock, RecvCommand, FpgaTypeOK, Word
  <1>4. data_len_reg' \in Nat
    BY DEF Clock, FpgaTypeOK, Word
  <1>5. recv_cnt' \in 0..CntMax
    BY SizeAssumption DEF Clock, RecvCount, FpgaTypeOK
  <1>6. reg' \in [RegCmds -> Nat] /\ \A c \in RegCmds : reg'[c] < Width[c]
    <2>1. CASE ns = "DATA" /\ recv_command \in RegCmds
      <3> DEFINE l == Latch(recv_command, reg[recv_command], word.data)
      <3>1. l \in Nat /\ l < Width[recv_command]
        BY <2>1, LatchType DEF FpgaTypeOK, Word
      <3>2. reg' = [reg EXCEPT ![recv_command] = l]
        BY <2>1 DEF Clock, Store
      <3> HIDE DEF l
      <3> QED BY <2>1, <3>1, <3>2 DEF FpgaTypeOK
    <2>2. CASE ~(ns = "DATA" /\ recv_command \in RegCmds)
      BY <2>2 DEF Clock, Store, FpgaTypeOK
    <2> QED BY <2>1, <2>2
  <1>7. dac_set_flag' \in BOOLEAN
    BY DEF Clock, Store
  <1>8. region_wren' \in Regions \cup {NoRegion}
    BY DEF Clock, Store
  <1>9. region_wrdata' \in Nat
    BY DEF Clock, Store, Word
  <1>10. ram' \in [Regions -> [Addr -> Nat]]
    <2>1. WrAddr \in Addr
      BY WrAddrType, SizeAssumption DEF FpgaTypeOK
    <2> QED BY <2>1 DEF Clock, Store, FpgaTypeOK
  <1>11. laser_presdo' \in Seq(Nat)
    <2>1. ShiftIn(laser_presdo, word.data) \in Seq(Nat)
      BY SizeAssumption DEF ShiftIn, FpgaTypeOK, Word
    <2> QED BY <2>1 DEF Clock, Store, FpgaTypeOK
  <1>12. QED
    BY <1>2, <1>3, <1>4, <1>5, <1>6, <1>7, <1>8, <1>9, <1>10, <1>11 DEF FpgaTypeOK

(* A step of the whole link keeps the type invariant. *)
LEMMA TypeStep ==
    ASSUME TypeOK, [Next]_vars
    PROVE  TypeOK'
  <1>1. CASE \E c \in Cmds : \E p \in PacketsOf(c) : BeginPacket(p)
    <2>0. PICK c \in Cmds : \E p \in PacketsOf(c) : BeginPacket(p)
      BY <1>1
    <2>1. PICK p \in PacketsOf(c) : BeginPacket(p)
      BY <2>0
    <2>2. FpgaTypeOK'
      BY <2>1 DEF BeginPacket, fpga, TypeOK, FpgaTypeOK, WrAddr
    <2>3. pkt' \in PacketsOf(c) /\ pos' = 0 /\ LastPos(pkt') \in Nat
      BY <2>1, PacketShape, LinkAssumption DEF BeginPacket, LastPos
    <2>4. QED
      BY <2>1, <2>2, <2>3 DEF BeginPacket, TypeOK
  <1>2. CASE WriteWord
    <2>1. pkt # NoPacket
      BY <1>2 DEF WriteWord
    <2>2. FpgaTypeOK'
      <3>1. Clock(TRUE, WordAt(pkt, pos)) /\ WordAt(pkt, pos) \in Word
        BY <1>2, <2>1, WordAtType DEF WriteWord
      <3>2. FpgaTypeOK
        BY DEF TypeOK
      <3>3. QED
        BY <3>1, <3>2, ClockType
    <2>3. /\ pkt' = NoPacket \/ \E c \in Cmds : pkt' \in PacketsOf(c)
          /\ pos' \in Nat
          /\ pkt' # NoPacket => pos' \in 0..LastPos(pkt')
          /\ gap' \in 0..MinGap
      <3>1. CASE pos = LastPos(pkt)
        BY <1>2, <3>1, LinkAssumption DEF WriteWord
      <3>2. CASE pos # LastPos(pkt)
        <4>1. pkt' = pkt /\ pos' = pos + 1 /\ gap' = 0
          BY <1>2, <3>2 DEF WriteWord
        <4>2. pos + 1 \in 0..LastPos(pkt)
          BY <3>2, <2>1, CurrentPacket
        <4>3. QED
          BY <4>1, <4>2, LinkAssumption DEF TypeOK
      <3>3. QED
        BY <3>1, <3>2
    <2>4. wantReg' \in [RegCmds -> Nat] /\ \A c \in RegCmds : wantReg'[c] < Width[c]
      <3>1. CASE pos \in 2..(LastPos(pkt) - 1) /\ pkt.cmd \in RegCmds
        <4> DEFINE l == Latch(pkt.cmd, wantReg[pkt.cmd], pkt.data[pos - 2].data)
        <4>1. l \in Nat /\ l < Width[pkt.cmd]
          BY <3>1, <2>1, WordAtType, LatchType DEF TypeOK, Word
        <4>2. wantReg' = [wantReg EXCEPT ![pkt.cmd] = l]
          BY <1>2, <3>1 DEF WriteWord, Want
        <4> HIDE DEF l
        <4>3. QED
          BY <3>1, <4>1, <4>2 DEF TypeOK
      <3>2. CASE ~(pos \in 2..(LastPos(pkt) - 1) /\ pkt.cmd \in RegCmds)
        BY <1>2, <3>2 DEF WriteWord, Want, TypeOK
      <3>3. QED
        BY <3>1, <3>2
    <2>5. wantRam' \in [Regions -> [Addr -> Nat]]
      <3>1. CASE pos \in 2..(LastPos(pkt) - 1) /\ pkt.cmd \in Regions
        <4>1. pkt.data[pos - 2].data \in Nat
          BY <3>1, <2>1, WordAtType DEF Word
        <4>2. wantRam' = [wantRam EXCEPT ![pkt.cmd][pos - 2] = pkt.data[pos - 2].data]
          BY <1>2, <3>1 DEF WriteWord, Want
        <4>3. QED
          BY <4>1, <4>2 DEF TypeOK
      <3>2. CASE ~(pos \in 2..(LastPos(pkt) - 1) /\ pkt.cmd \in Regions)
        BY <1>2, <3>2 DEF WriteWord, Want, TypeOK
      <3>3. QED
        BY <3>1, <3>2
    <2>6. QED
      BY <2>2, <2>3, <2>4, <2>5 DEF TypeOK
  <1>3. CASE IdleClock
    <2>1. FpgaTypeOK'
      <3>1. PICK w \in Words : Clock(FALSE, w)
        BY <1>3 DEF IdleClock
      <3>2. w \in Word /\ FpgaTypeOK
        BY LinkAssumption DEF Word, TypeOK
      <3>3. QED
        BY <3>1, <3>2, ClockType
    <2>2. gap' \in 0..MinGap
      BY <1>3, LinkAssumption DEF IdleClock, TypeOK
    <2>3. QED
      BY <1>3, <2>1, <2>2 DEF IdleClock, TypeOK, LastPos
  <1>4. CASE UNCHANGED vars
    BY <1>4 DEF vars, TypeOK, FpgaTypeOK, LastPos
  <1>5. QED
    BY <1>1, <1>2, <1>3, <1>4 DEF Next

(* The packet being written tells the truth about its length: all that the  *)
(* next lemmas need to know of it.                                          *)
Fits ==
    pkt # NoPacket =>
        LET c == pkt.cmd
        IN  /\ c \in Cmds /\ c \in Nat
            /\ Sent[c] \in Nat \ {0} /\ Announced[c] = Sent[c] /\ Sent[c] + 2 <= CntMax
            /\ c \in RegCmds => Sent[c] = 1
            /\ c \in Regions => Sent[c] <= RamSize
            /\ pkt.data \in [0..(Sent[c] - 1) -> Word] /\ pkt.sum \in Word
            /\ pos \in 0..(Sent[c] + 2)

LEMMA TypeFits ==
    ASSUME WellFormed, TypeOK
    PROVE  Fits
  <1>1. Words \subseteq Word
    BY LinkAssumption DEF Word
  <1>2. SUFFICES ASSUME pkt # NoPacket
                 PROVE  Fits
    BY DEF Fits
  <1>3. pkt.data \in [0..(Sent[pkt.cmd] - 1) -> Word] /\ pkt.sum \in Word
    BY <1>1, <1>2, CurrentPacket
  <1>4. QED
    BY <1>2, <1>3, CurrentPacket DEF Fits, WellFormed

(* The data words of such a packet. *)
LEMMA FitsWord ==
    ASSUME Fits, pkt # NoPacket
    PROVE  /\ WordAt(pkt, pos) \in Word
           /\ pos \in 2..(LastPos(pkt) - 1) => /\ WordAt(pkt, pos) = pkt.data[pos - 2]
                                               /\ pos - 2 \in 0..(Sent[pkt.cmd] - 1)
                                               /\ pkt.data[pos - 2] \in Word
  <1>1. CASE pos = 0
    BY <1>1 DEF Fits, WordAt, Word
  <1>2. CASE pos = 1
    BY <1>2 DEF Fits, WordAt, Word
  <1>3. CASE pos = LastPos(pkt)
    BY <1>3 DEF Fits, WordAt, LastPos, Word
  <1>4. CASE pos \in 2..(LastPos(pkt) - 1)
    BY <1>4 DEF Fits, WordAt, LastPos
  <1>5. QED
    BY <1>1, <1>2, <1>3, <1>4 DEF Fits, LastPos

(* The heart of the argument: the FSM and the writer move in lock step.    *)
(* A word may only follow MinGap >= 1 idle clocks, so the FSM has left     *)
(* DATA for CHECKSUM, and OVER for IDLE, before the next word arrives.     *)
LEMMA InStepWrite ==
    ASSUME Fits, InStep, WriteWord
    PROVE  InStep'
  <1> DEFINE w == WordAt(pkt, pos)
             c == pkt.cmd
  <1>1. /\ pkt # NoPacket /\ gap = MinGap /\ gap # 0 /\ Clock(TRUE, w) /\ gap' = 0
    BY LinkAssumption DEF WriteWord
  <1>2. /\ c \in Cmds /\ Sent[c] \in Nat \ {0} /\ Announced[c] = Sent[c]
        /\ Sent[c] + 2 <= CntMax /\ CntMax \in Nat
        /\ LastPos(pkt) = Sent[c] + 2 /\ pos \in 0..(Sent[c] + 2)
    BY <1>1, SizeAssumption DEF Fits, LastPos
  <1>3. pos # Sent[c] + 2 => pkt' = pkt /\ pos' = pos + 1
    BY <1>2 DEF WriteWord
  <1>4. pos = Sent[c] + 2 => pkt' = NoPacket /\ pos' = 0
    BY <1>2 DEF WriteWord
  <1>5. CASE pos = 0
    <2>1. cs = "IDLE" /\ w = [head |-> TRUE, data |-> c]
      BY <1>1, <1>5 DEF InStep, WordAt
    <2>2. cs' = "HEAD_COMMAND" /\ recv_command' = c /\ recv_cnt' = 0
      BY <1>1, <2>1 DEF Clock, NextState, RecvCommand, RecvCount
    <2>3. pkt' = pkt /\ pos' = 1
      BY <1>2, <1>3, <1>5
    <2>4. QED
      BY <1>1, <2>2, <2>3 DEF InStep
  <1>6. CASE pos = 1
    <2>1. /\ cs = "HEAD_COMMAND" /\ recv_command = c /\ recv_cnt = 0
          /\ w = [head |-> FALSE, data |-> Announced[c]]
      BY <1>1, <1>6 DEF InStep, WordAt
    <2>2. /\ cs' = "DATA_LEN" /\ recv_command' = c /\ data_len_reg' = Announced[c]
          /\ recv_cnt' = 1
      BY <1>1, <1>2, <2>1 DEF Clock, NextState, RecvCommand, RecvCount
    <2>3. pkt' = pkt /\ pos' = 2
      BY <1>2, <1>3, <1>6
    <2>4. QED
      BY <1>1, <1>2, <2>2, <2>3 DEF InStep
  <1>7. CASE pos \in 2..(Sent[c] + 1)
    <2>1. /\ cs = IF pos = 2 THEN "DATA_LEN" ELSE "DATA"
          /\ recv_command = c /\ data_len_reg = Announced[c] /\ recv_cnt = pos - 1
      BY <1>1, <1>2, <1>7 DEF InStep
    <2>2. /\ cs' = "DATA" /\ recv_command' = c /\ data_len_reg' = Announced[c]
          /\ recv_cnt' = pos
      BY <1>1, <1>2, <1>7, <2>1 DEF Clock, NextState, RecvCommand, RecvCount
    <2>3. pkt' = pkt /\ pos' = pos + 1
      BY <1>2, <1>3, <1>7
    <2>4. QED
      BY <1>1, <1>2, <1>7, <2>2, <2>3 DEF InStep
  <1>8. CASE pos = Sent[c] + 2
    <2>1. cs = "CHECKSUM"
      BY <1>1, <1>2, <1>8 DEF InStep
    <2>2. cs' = "OVER"
      BY <1>1, <2>1 DEF Clock, NextState
    <2>3. QED
      BY <1>1, <1>4, <1>8, <2>2 DEF InStep
  <1>9. QED
    BY <1>2, <1>5, <1>6, <1>7, <1>8

LEMMA InStepIdle ==
    ASSUME Fits, InStep, IdleClock
    PROVE  InStep'
  <1>1. PICK w \in Words : Clock(FALSE, w)
    BY DEF IdleClock
  <1>2. UNCHANGED <<pkt, pos>>
    BY DEF IdleClock
  <1>3. CASE pkt = NoPacket \/ pos = 0
    <2>1. cs = "IDLE" \/ cs = "OVER"
      BY <1>3, LinkAssumption DEF Fits, InStep
    <2>2. cs' = "IDLE"
      BY <1>1, <2>1 DEF Clock, NextState
    <2>3. QED
      BY <1>2, <1>3, <2>2 DEF InStep
  <1>4. CASE pkt # NoPacket /\ pos = 1
    <2>1. cs = "HEAD_COMMAND" /\ recv_command = pkt.cmd /\ recv_cnt = 0
      BY <1>4 DEF InStep
    <2>2. UNCHANGED <<cs, recv_command, recv_cnt>>
      BY <1>1, <2>1 DEF Clock, NextState, RecvCommand, RecvCount
    <2>3. QED
      BY <1>2, <1>4, <2>1, <2>2 DEF InStep
  <1>5. CASE pkt # NoPacket /\ pos \in 2..(Sent[pkt.cmd] + 2)
    <2> DEFINE c == pkt.cmd
    <2>1. /\ recv_command = c /\ data_len_reg = Announced[c] /\ recv_cnt = pos - 1
          /\ cs \in {"DATA_LEN", "DATA", "CHECKSUM"}
          /\ pos = 2 => cs = "DATA_LEN"
          /\ pos = Sent[c] + 2 => cs \in {"DATA", "CHECKSUM"}
          /\ pos # 2 /\ pos # Sent[c] + 2 => cs = "DATA"
      BY <1>5 DEF Fits, InStep
    <2>2. UNCHANGED <<recv_command, recv_cnt, data_len_reg>>
      BY <1>1, <2>1 DEF Clock, NextState, RecvCommand, RecvCount
    <2>3. Announced[c] = Sent[c] /\ Sent[c] \in Nat \ {0}
      BY <1>5 DEF Fits
    <2>4. /\ pos = 2 => cs' = "DATA_LEN"
          /\ pos = Sent[c] + 2 => cs' = "CHECKSUM"
          /\ pos # 2 /\ pos # Sent[c] + 2 => cs' = "DATA"
      BY <1>1, <1>5, <2>1, <2>3 DEF Clock, NextState
    <2>5. QED
      BY <1>2, <1>5, <2>1, <2>2, <2>3, <2>4 DEF InStep
  <1>6. QED
    BY <1>3, <1>4, <1>5 DEF Fits

LEMMA InStepStep ==
    ASSUME WellFormed, TypeOK, InStep, [Next]_vars
    PROVE  InStep'
  <1>1. CASE \E c \in Cmds : \E p \in PacketsOf(c) : BeginPacket(p)
    <2>1. /\ pkt = NoPacket /\ pos' = 0
          /\ UNCHANGED <<cs, gap>>
      BY <1>1 DEF BeginPacket, fpga
    <2>2. QED
      BY <2>1 DEF InStep
  <1>2. CASE WriteWord
    BY <1>2, TypeFits, InStepWrite
  <1>3. CASE IdleClock
    BY <1>3, TypeFits, InStepIdle
  <1>4. CASE UNCHANGED vars
    BY <1>4 DEF vars, InStep
  <1>5. QED
    BY <1>1, <1>2, <1>3, <1>4 DEF Next

(* What the FPGA stores at a clock that brings a word: exactly the data     *)
(* words, each at the address that is its position in the packet.           *)
LEMMA StoreAtWord ==
    ASSUME Fits, InStep, WriteWord
    PROVE  LET w == WordAt(pkt, pos)
           IN  /\ Store(pos \in 2..(LastPos(pkt) - 1), TRUE, w)
               /\ pos \in 2..(LastPos(pkt) - 1) =>
                     /\ recv_command = pkt.cmd
                     /\ recv_cnt' = pos
                     /\ pkt.cmd \in RegCmds => pos = 2
                     /\ pkt.cmd \in Regions => WrAddr' = pos - 2 /\ pos - 2 \in Addr
  <1> DEFINE w == WordAt(pkt, pos)
             c == pkt.cmd
             ns == NextState(TRUE, w)
  <1>1. /\ pkt # NoPacket /\ gap # 0 /\ Clock(TRUE, w)
    BY LinkAssumption DEF WriteWord
  <1>2. /\ c \in Cmds /\ Sent[c] \in Nat \ {0} /\ Announced[c] = Sent[c]
        /\ Sent[c] + 2 <= CntMax /\ CntMax \in Nat
        /\ LastPos(pkt) = Sent[c] + 2 /\ pos \in 0..(Sent[c] + 2)
    BY <1>1, SizeAssumption DEF Fits, LastPos
  <1>3. (ns = "DATA") <=> (pos \in 2..(LastPos(pkt) - 1))
    <2>1. CASE pos = 0
      <3>1. cs = "IDLE"
        BY <1>1, <2>1 DEF InStep
      <3>2. QED
        BY <1>2, <2>1, <3>1 DEF NextState
    <2>2. CASE pos = 1
      <3>1. cs = "HEAD_COMMAND"
        BY <1>1, <2>2 DEF InStep
      <3>2. QED
        BY <1>2, <2>2, <3>1 DEF NextState
    <2>3. CASE pos \in 2..(Sent[c] + 1)
      <3>1. /\ cs = IF pos = 2 THEN "DATA_LEN" ELSE "DATA"
            /\ data_len_reg = Announced[c] /\ recv_cnt = pos - 1
        BY <1>1, <1>2, <2>3 DEF InStep
      <3>2. ns = "DATA"
        BY <1>2, <2>3, <3>1 DEF NextState
      <3> HIDE DEF ns
      <3>3. QED
        BY <1>2, <2>3, <3>2
    <2>4. CASE pos = Sent[c] + 2
      <3>1. cs = "CHECKSUM"
        BY <1>1, <1>2, <2>4 DEF InStep
      <3>2. QED
        BY <1>2, <2>4, <3>1 DEF NextState
    <2> HIDE DEF ns
    <2>5. QED
      BY <1>2, <2>1, <2>2, <2>3, <2>4
  <1>4. Store(pos \in 2..(LastPos(pkt) - 1), TRUE, w)
    <2> HIDE DEF w
    <2>1. Store(NextState(TRUE, w) = "DATA", TRUE, w)
      BY <1>1 DEF Clock
    <2>2. QED
      BY <1>3, <2>1 DEF Store
  <1>5. ASSUME pos \in 2..(LastPos(pkt) - 1)
        PROVE  /\ recv_command = c /\ recv_cnt' = pos
               /\ c \in RegCmds => pos = 2
               /\ c \in Regions => WrAddr' = pos - 2 /\ pos - 2 \in Addr
    <2>1. /\ cs # "IDLE" /\ recv_command = c /\ recv_cnt = pos - 1
      BY <1>1, <1>2, <1>5 DEF InStep
    <2>2. recv_cnt' = pos
      BY <1>1, <1>2, <1>5, <2>1 DEF Clock, RecvCount
    <2>3. c \in RegCmds => pos = 2
      BY <1>1, <1>2, <1>5 DEF Fits
    <2>4. c \in Regions => pos - 2 \in Addr
      BY <1>1, <1>2, <1>5, SizeAssumption DEF Fits, Addr
    <2>5. c \in Regions => WrAddr' = pos - 2
      BY <2>2, <2>4 DEF WrAddr, Addr
    <2>6. QED
      BY <2>1, <2>2, <2>3, <2>4, <2>5
  <1>6. QED
    BY <1>4, <1>5

(* At a clock without a word nothing is stored but the pending RAM write.   *)
LEMMA StoreAtIdle ==
    ASSUME Fits, InStep, IdleClock
    PROVE  /\ reg' = reg /\ region_wren' = NoRegion
           /\ ram' = IF region_wren \in Regions
                     THEN [ram EXCEPT ![region_wren][WrAddr] = region_wrdata]
                     ELSE ram
  <1>1. PICK w \in Words : Clock(FALSE, w)
    BY DEF IdleClock
  <1>2. ~(NextState(FALSE, w) = "DATA" /\ recv_command \in RegCmds)
    <2>1. SUFFICES ASSUME NextState(FALSE, w) = "DATA", recv_command \in RegCmds
                   PROVE  FALSE
      OBVIOUS
    <2>2. cs = "DATA" /\ recv_cnt # data_len_reg + 1
      BY <2>1 DEF NextState
    <2>3. pkt # NoPacket /\ pos \in 3..(Sent[pkt.cmd] + 2) /\ recv_command = pkt.cmd
      BY <2>2 DEF Fits, InStep
    <2>4. Sent[pkt.cmd] = 1 /\ Announced[pkt.cmd] = 1
      BY <2>1, <2>3 DEF Fits
    <2>5. pos = 3 /\ recv_cnt = 2 /\ data_len_reg = 1
      BY <2>2, <2>3, <2>4 DEF InStep
    <2>6. QED
      BY <2>2, <2>5
  <1>3. QED
    BY <1>1, <1>2 DEF Clock, Store

(* The region RAMs once the registered write port has done its write. *)
Settled ==
    IF region_wren = NoRegion THEN ram
    ELSE [ram EXCEPT ![region_wren][WrAddr] = region_wrdata]

LEMMA SettledRam ==
    ASSUME FpgaTypeOK
    PROVE  Settled = IF region_wren \in Regions
                     THEN [ram EXCEPT ![region_wren][WrAddr] = region_wrdata]
                     ELSE ram
  <1>1. NoRegion \notin Regions
    BY CmdAssumption DEF NoRegion
  <1>2. CASE region_wren = NoRegion
    BY <1>1, <1>2 DEF Settled
  <1>3. CASE region_wren \in Regions
    BY <1>1, <1>3 DEF Settled
  <1>4. QED
    BY <1>2, <1>3 DEF FpgaTypeOK

(* A data word of a region packet goes to its own address, and nothing else *)
(* changes the RAMs.                                                        *)
LEMMA SettledWrite ==
    ASSUME FpgaTypeOK, Fits, InStep, WriteWord
    PROVE  /\ pos \in 2..(LastPos(pkt) - 1) /\ pkt.cmd \in Regions =>
                 /\ pos - 2 \in Addr
                 /\ Settled' = [Settled EXCEPT ![pkt.cmd][pos - 2] = pkt.data[pos - 2].data]
           /\ ~(pos \in 2..(LastPos(pkt) - 1) /\ pkt.cmd \in Regions) => Settled' = Settled
  <1> DEFINE w == WordAt(pkt, pos)
             isData == pos \in 2..(LastPos(pkt) - 1)
  <1>1. Store(isData, TRUE, w) /\ pkt # NoPacket
    BY StoreAtWord DEF WriteWord
  <1>2. isData => /\ recv_command = pkt.cmd
                  /\ w = pkt.data[pos - 2]
                  /\ pkt.cmd \in Regions => WrAddr' = pos - 2 /\ pos - 2 \in Addr
    BY <1>1, StoreAtWord, FitsWord
  <1>3. ram' = Settled
    BY <1>1, SettledRam DEF Store
  <1> HIDE DEF isData, w
  <1>4. ASSUME isData, pkt.cmd \in Regions
        PROVE  /\ pos - 2 \in Addr
               /\ Settled' = [Settled EXCEPT ![pkt.cmd][pos - 2] = pkt.data[pos - 2].data]
    <2>1. region_wren' = pkt.cmd /\ region_wrdata' = pkt.data[pos - 2].data
      BY <1>1, <1>2, <1>4 DEF Store
    <2>2. pkt.cmd # NoRegion
      BY <1>4, CmdAssumption DEF NoRegion
    <2>3. Settled' = [ram' EXCEPT ![region_wren'][WrAddr'] = region_wrdata']
      BY <2>1, <2>2 DEF Settled
    <2>4. QED
      BY <1>2, <1>3, <1>4, <2>1, <2>3, Zenon
  <1>5. ASSUME ~(isData /\ pkt.cmd \in Regions)
        PROVE  Settled' = Settled
    <2>1. region_wren' = NoRegion
      BY <1>1, <1>2, <1>5 DEF Store
    <2>2. QED
      BY <1>3, <2>1 DEF Settled
  <1>6. QED
    BY <1>4, <1>5 DEF isData

LEMMA SettledIdle ==
    ASSUME FpgaTypeOK, Fits, InStep, IdleClock
    PROVE  Settled' = Settled
  <1>1. region_wren' = NoRegion /\ ram' = Settled
    BY StoreAtIdle, SettledRam
  <1>2. QED
    BY <1>1 DEF Settled

(* The same for the parameter registers. *)
LEMMA RegWrite ==
    ASSUME Fits, InStep, WriteWord
    PROVE  /\ pos \in 2..(LastPos(pkt) - 1) /\ pkt.cmd \in RegCmds =>
                 /\ pos = 2
                 /\ reg' = [reg EXCEPT ![pkt.cmd] = Latch(pkt.cmd, reg[pkt.cmd], pkt.data[pos - 2].data)]
           /\ ~(pos \in 2..(LastPos(pkt) - 1) /\ pkt.cmd \in RegCmds) => reg' = reg
  <1> DEFINE w == WordAt(pkt, pos)
             isData == pos \in 2..(LastPos(pkt) - 1)
  <1>1. Store(isData, TRUE, w) /\ pkt # NoPacket
    BY StoreAtWord DEF WriteWord
  <1>2. isData => /\ recv_command = pkt.cmd
                  /\ w = pkt.data[pos - 2]
                  /\ pkt.cmd \in RegCmds => pos = 2
    BY <1>1, StoreAtWord, FitsWord
  <1> HIDE DEF isData, w
  <1>3. QED
    BY <1>1, <1>2 DEF Store, isData

(* What the FPGA holds keeps up with what the firmware wrote. *)
LEMMA DeliveredStep ==
    ASSUME WellFormed, TypeOK, InStep, Delivered, [Next]_vars
    PROVE  Delivered'
  <1>0. Fits /\ FpgaTypeOK
    BY TypeFits DEF TypeOK
  <1>1. CASE \E c \in Cmds : \E p \in PacketsOf(c) : BeginPacket(p)
    BY <1>1 DEF BeginPacket, fpga, Delivered, WrAddr
  <1>2. CASE WriteWord
    <2>1. Want(pkt, pos)
      BY <1>2 DEF WriteWord
    <2>2. reg' = wantReg'
      BY <1>0, <1>2, <2>1, RegWrite DEF Want, Delivered
    <2>3. wantRam = Settled
      BY DEF Delivered, Settled
    <2>4. CASE pos \in 2..(LastPos(pkt) - 1) /\ pkt.cmd \in Regions
      <3>1. wantRam' = [wantRam EXCEPT ![pkt.cmd][pos - 2] = pkt.data[pos - 2].data]
        BY <2>1, <2>4 DEF Want
      <3>2. Settled' = [Settled EXCEPT ![pkt.cmd][pos - 2] = pkt.data[pos - 2].data]
        BY <1>0, <1>2, <2>4, SettledWrite
      <3>3. QED
        BY <2>2, <2>3, <3>1, <3>2 DEF Delivered, Settled
    <2>5. CASE ~(pos \in 2..(LastPos(pkt) - 1) /\ pkt.cmd \in Regions)
      <3>1. wantRam' = wantRam
        BY <2>1, <2>5 DEF Want
      <3>2. Settled' = Settled
        BY <1>0, <1>2, <2>5, SettledWrite
      <3>3. QED
        BY <2>2, <2>3, <3>1, <3>2 DEF Delivered, Settled
    <2>6. QED
      BY <2>4, <2>5
  <1>3. CASE IdleClock
    <2>1. reg' = reg /\ Settled' = Settled
      BY <1>0, <1>3, StoreAtIdle, SettledIdle
    <2>2. UNCHANGED <<wantReg, wantRam>>
      BY <1>3 DEF IdleClock
    <2>3. QED
      BY <2>1, <2>2 DEF Delivered, Settled
  <1>4. CASE UNCHANGED vars
    BY <1>4 DEF vars, Delivered, WrAddr
  <1>5. QED
    BY <1>1, <1>2, <1>3, <1>4 DEF Next

(* After reset the registers hold their reset values. *)
LEMMA InitType ==
    ASSUME Init
    PROVE  TypeOK
  <1>1. /\ cs \in States /\ recv_command \in Nat /\ data_len_reg \in Nat
        /\ recv_cnt \in 0..CntMax
        /\ region_wren \in Regions \cup {NoRegion} /\ region_wrdata \in Nat
    BY SizeAssumption DEF Init, FpgaInit, States
  <1>2. /\ reg \in [RegCmds -> Nat] /\ \A c \in RegCmds : reg[c] < Width[c]
        /\ wantReg \in [RegCmds -> Nat] /\ \A c \in RegCmds : wantReg[c] < Width[c]
    BY RegAssumption DEF Init, FpgaInit
  <1>3. ram \in [Regions -> [Addr -> Nat]] /\ wantRam \in [Regions -> [Addr -> Nat]]
    BY DEF Init, FpgaInit
  <1>4. laser_presdo \in Seq(Nat)
    BY DEF Init, FpgaInit
  <1>5. pkt = NoPacket /\ pos \in Nat /\ gap \in 0..MinGap
    BY LinkAssumption DEF Init
  <1>6. dac_set_flag \in BOOLEAN
    BY DEF Init, FpgaInit
  <1>7. QED
    BY <1>1, <1>2, <1>3, <1>4, <1>5, <1>6 DEF TypeOK, FpgaTypeOK

-----------------------------------------------------------------------------
(* TypeOK: no register of command_module.v ever leaves its width, whatever  *)
(* the packets contain and whatever lengths they announce.                  *)
THEOREM TypeCorrect == Spec => []TypeOK
  <1>1. Init => TypeOK
    BY InitType
  <1>2. TypeOK /\ [Next]_vars => TypeOK'
    BY TypeStep
  <1>3. QED
    BY <1>1, <1>2, PTL DEF Spec

(* InStep alone does not need Delivered: where the FSM is depends on the    *)
(* lengths of the packets only, never on what the registers or RAMs hold.   *)
THEOREM StaysInStep ==
    ASSUME WellFormed
    PROVE  Spec => []InStep
  <1>1. Init => TypeOK /\ InStep
    BY InitType DEF Init, FpgaInit, InStep
  <1>2. TypeOK /\ InStep /\ [Next]_vars => (TypeOK /\ InStep)'
    BY TypeStep, InStepStep
  <1>3. QED
    BY <1>1, <1>2, PTL DEF Spec

(* InStep and Delivered: as long as packets tell the truth about their      *)
(* length, the FSM never mistakes one packet's words for another's, and     *)
(* every register and region RAM word holds the last value written to it.   *)
THEOREM LinkCorrect ==
    ASSUME WellFormed
    PROVE  Spec => [](InStep /\ Delivered)
  <1> DEFINE IInv == TypeOK /\ InStep /\ Delivered
  <1>1. Init => IInv
    <2>1. Init => TypeOK
      BY InitType
    <2>2. Init => InStep /\ Delivered
      BY DEF Init, FpgaInit, InStep, Delivered
    <2>3. QED
      BY <2>1, <2>2
  <1>2. IInv /\ [Next]_vars => IInv'
    BY TypeStep, InStepStep, DeliveredStep
  <1>3. IInv => InStep /\ Delivered
    OBVIOUS
  <1>4. QED
    BY <1>1, <1>2, <1>3, PTL DEF Spec

-----------------------------------------------------------------------------
(* The whole sequence from power-on, write_laser_presdo included.            *)

LEMMA SeqOf ==
    ASSUME NEW S, NEW n \in Nat, NEW f \in [1..n -> S]
    PROVE  f \in Seq(S) /\ Len(f) = n
  OBVIOUS

IsJoin(u, s, t) == u = s \o t
Follows(u, s, t) ==
    /\ Len(u) = Len(s) + Len(t)
    /\ \A i \in 1..Len(s) : u[i] = s[i]
    /\ \A i \in 1..Len(t) : u[Len(s) + i] = t[i]

LEMMA Joined ==
    ASSUME NEW S, NEW s \in Seq(S), NEW t \in Seq(S), NEW u, IsJoin(u, s, t)
    PROVE  u \in Seq(S) /\ Follows(u, s, t)
  <1>1. /\ u \in Seq(S) /\ Len(u) = Len(s) + Len(t)
        /\ \A i \in 1..(Len(s) + Len(t)) : u[i] = IF i <= Len(s) THEN s[i] ELSE t[i - Len(s)]
    BY ST!ConcatProperties, Zenon DEF IsJoin
  <1>2. Len(s) \in Nat /\ Len(t) \in Nat
    BY ST!LenProperties, Zenon
  <1>3. PICK m \in Nat, n \in Nat : m = Len(s) /\ n = Len(t)
    BY <1>2, Zenon
  <1>4. \A i \in 1..(m + n) : u[i] = IF i <= m THEN s[i] ELSE t[i - m]
    BY <1>1, <1>3, Zenon
  <1>5. \A i \in 1..m : u[i] = s[i]
    BY <1>4
  <1>6. \A i \in 1..n : u[m + i] = t[i]
    BY <1>4
  <1>7. QED
    BY <1>1, <1>2, <1>3, <1>5, <1>6, Zenon DEF Follows

(* What the firmware does at each step of the sequence. *)
LEMMA ProgramShape ==
    /\ Len(Params) \in Nat /\ BootLen = Len(Params) + 5 /\ Reloads \in Nat
    /\ Len(Program) = BootLen + 4 * Reloads /\ Len(LoadGroup) = 4
    /\ LoadGroup[1] = Sample
    /\ \A m \in 1..3 : LoadGroup[m + 1] = Send(Layers[m])
    /\ \A n \in 1..4 : Program[n] = LoadGroup[n]
    /\ \A i \in 1..Len(Params) : Program[4 + i] = Send(Params[i])
    /\ Program[BootLen] = Send(PRESDO)
    /\ \A n \in 1..(4 * Reloads) : Program[BootLen + n] = LoadGroup[((n - 1) % 4) + 1]
  <1>0. PICK Item : Item = {Sample} \cup {Send(c) : c \in Cmds}
    OBVIOUS
  <1>01. Sample \in Item /\ \A c \in Cmds : Send(c) \in Item
    BY <1>0, Zenon
  <1>02. /\ DOMAIN Layers = 1..3 /\ \A i \in 1..3 : Layers[i] \in Cmds
         /\ Len(Params) \in Nat /\ DOMAIN Params = 1..Len(Params)
         /\ \A i \in 1..Len(Params) : Params[i] \in Cmds
         /\ PRESDO \in Cmds /\ Reloads \in Nat
    <2>1. Layers \in Seq(Regions) /\ Len(Layers) = 3 /\ Params \in Seq(RegCmds) /\ Reloads \in Nat
      BY BootAssumption, Zenon
    <2>2. DOMAIN Layers = 1..3 /\ Layers \in [1..3 -> Regions]
      BY <2>1, ST!LenProperties, Zenon
    <2>3. /\ Len(Params) \in Nat /\ DOMAIN Params = 1..Len(Params)
          /\ Params \in [1..Len(Params) -> RegCmds]
      BY <2>1, ST!LenProperties, Zenon
    <2>4. QED
      BY <2>1, <2>2, <2>3, Zenon DEF Cmds
  <1>1. PICK layers : layers = [i \in DOMAIN Layers |-> Send(Layers[i])]
    OBVIOUS
  <1>2. PICK params : params = [i \in DOMAIN Params |-> Send(Params[i])]
    OBVIOUS
  <1>3. PICK first : first = <<Sample>>
    OBVIOUS
  <1>4. PICK last : last = <<Send(PRESDO)>>
    OBVIOUS
  <1>5. PICK reload : reload = [i \in 1..(Reloads * 4) |-> LoadGroup[((i - 1) % 4) + 1]]
    OBVIOUS
  <1>11. layers \in Seq(Item) /\ Len(layers) = 3 /\ \A m \in 1..3 : layers[m] = Send(Layers[m])
    <2>1. layers \in [1..3 -> Item] /\ \A m \in 1..3 : layers[m] = Send(Layers[m])
      BY <1>01, <1>02, <1>1, Zenon
    <2>2. QED
      BY <2>1, SeqOf
  <1>12. /\ params \in Seq(Item) /\ Len(params) = Len(Params)
         /\ \A i \in 1..Len(Params) : params[i] = Send(Params[i])
    <2>1. params \in [1..Len(Params) -> Item] /\ \A i \in 1..Len(Params) : params[i] = Send(Params[i])
      BY <1>01, <1>02, <1>2, Zenon
    <2>2. QED
      BY <1>02, <2>1, SeqOf
  <1>13. first \in Seq(Item) /\ Len(first) = 1 /\ first[1] = Sample
    BY <1>01, <1>3
  <1>14. last \in Seq(Item) /\ Len(last) = 1 /\ last[1] = Send(PRESDO)
    BY <1>01, <1>02, <1>4
  <1>15. PICK g : g = LoadGroup
    OBVIOUS
  <1>16. /\ g \in Seq(Item) /\ Len(g) = 4 /\ g[1] = Sample
         /\ \A m \in 1..3 : g[m + 1] = Send(Layers[m])
    <2>1. IsJoin(g, first, layers)
      BY <1>1, <1>3, <1>15 DEF LoadGroup, IsJoin
    <2>2. g \in Seq(Item) /\ Follows(g, first, layers)
      <3>1. first \in Seq(Item) /\ layers \in Seq(Item)
        BY <1>11, <1>13
      <3>2. QED
        BY ONLY <3>1, <2>1, Joined, Zenon
    <2>3. QED
      BY <1>11, <1>13, <2>2 DEF Follows
  <1>17. /\ reload \in Seq(Item) /\ Len(reload) = 4 * Reloads
         /\ \A n \in 1..(4 * Reloads) : reload[n] = g[((n - 1) % 4) + 1]
    <2>1. PICK k \in Nat : k = 4 * Reloads /\ k = Reloads * 4
      BY <1>02
    <2>2. reload = [i \in 1..k |-> g[((i - 1) % 4) + 1]]
      BY <1>5, <1>15, <2>1
    <2>3. \A n \in 1..k : ((n - 1) % 4) + 1 \in 1..4
      BY <2>1
    <2>4. \A n \in 1..k : g[((n - 1) % 4) + 1] \in Item
      <3>1. g \in [1..4 -> Item]
        BY <1>16, ST!LenProperties, Zenon
      <3>2. QED
        BY <2>3, <3>1, Zenon
    <2>5. reload \in [1..k -> Item] /\ \A n \in 1..k : reload[n] = g[((n - 1) % 4) + 1]
      BY <2>2, <2>4, Zenon
    <2>6. QED
      BY <2>1, <2>5, SeqOf
  <1>18. PICK a : IsJoin(a, g, params)
    BY DEF IsJoin
  <1>19. /\ a \in Seq(Item) /\ Len(a) = 4 + Len(Params)
         /\ \A n \in 1..4 : a[n] = g[n]
         /\ \A i \in 1..Len(Params) : a[4 + i] = Send(Params[i])
    <2>1. a \in Seq(Item) /\ Follows(a, g, params)
      <3>1. g \in Seq(Item) /\ params \in Seq(Item)
        BY <1>12, <1>16
      <3>2. QED
        BY ONLY <3>1, <1>18, Joined, Zenon
    <2>2. QED
      BY <1>12, <1>16, <2>1 DEF Follows
  <1>20. PICK boot : IsJoin(boot, a, last)
    BY DEF IsJoin
  <1>21. /\ boot \in Seq(Item) /\ Len(boot) = 5 + Len(Params)
         /\ \A n \in 1..(4 + Len(Params)) : boot[n] = a[n]
         /\ boot[5 + Len(Params)] = Send(PRESDO)
    <2>1. boot \in Seq(Item) /\ Follows(boot, a, last)
      <3>1. a \in Seq(Item) /\ last \in Seq(Item)
        BY <1>14, <1>19
      <3>2. QED
        BY ONLY <3>1, <1>20, Joined, Zenon
    <2>2. QED
      BY <1>02, <1>14, <1>19, <2>1 DEF Follows
  <1>22. PICK P : P = Program
    OBVIOUS
  <1>23. IsJoin(P, boot, reload)
    <2>1. Len(LoadGroup) = 4
      BY <1>15, <1>16
    <2>2. Program = LoadGroup \o params \o last
                    \o [i \in 1..(Reloads * 4) |-> LoadGroup[((i - 1) % 4) + 1]]
      BY <1>2, <1>4, <2>1 DEF Program
    <2>3. QED
      BY <1>5, <1>15, <1>18, <1>20, <1>22, <2>2, Zenon DEF IsJoin
  <1>24. /\ Len(P) = 5 + Len(Params) + 4 * Reloads
         /\ \A n \in 1..(5 + Len(Params)) : P[n] = boot[n]
         /\ \A n \in 1..(4 * Reloads) : P[5 + Len(Params) + n] = reload[n]
    <2>1. P \in Seq(Item) /\ Follows(P, boot, reload)
      <3>1. boot \in Seq(Item) /\ reload \in Seq(Item)
        BY <1>17, <1>21
      <3>2. QED
        BY ONLY <3>1, <1>23, Joined, Zenon
    <2>2. QED
      BY <1>02, <1>17, <1>21, <2>1 DEF Follows
  <1>25. BootLen = Len(Params) + 5
    BY <1>02, <1>15, <1>16 DEF BootLen
  <1>26. /\ \A n \in 1..4 : P[n] = g[n]
         /\ \A i \in 1..Len(Params) : P[4 + i] = Send(Params[i])
         /\ P[BootLen] = Send(PRESDO)
    BY <1>02, <1>19, <1>21, <1>24, <1>25
  <1>27. /\ \A n \in 1..(4 * Reloads) : P[BootLen + n] = g[((n - 1) % 4) + 1]
         /\ Len(P) = BootLen + 4 * Reloads
    <2>1. Len(P) = BootLen + 4 * Reloads
      BY <1>02, <1>24, <1>25
    <2>2. ASSUME NEW n \in 1..(4 * Reloads)
          PROVE  P[BootLen + n] = reload[n]
      <3>1. BootLen + n = 5 + Len(Params) + n
        BY <1>02, <1>25
      <3>2. QED
        BY <1>24, <3>1, Zenon
    <2>3. QED
      BY <1>17, <2>1, <2>2, Zenon
  <1>28. QED
    BY <1>02, <1>15, <1>16, <1>22, <1>25, <1>26, <1>27, Zenon

LEMMA CallTypes ==
    /\ \A m \in 1..3 : Layers[m] \in Regions
    /\ \A i \in 1..Len(Params) : Params[i] \in RegCmds
    /\ DOMAIN Params = 1..Len(Params)
  <1>1. Layers \in Seq(Regions) /\ Len(Layers) = 3 /\ Params \in Seq(RegCmds)
    BY BootAssumption, Zenon
  <1>2. QED
    BY <1>1, ST!LenProperties, Zenon

(* Where a packet stands in the sequence, and where the switch is read. *)
LEMMA SendItem ==
    ASSUME NEW n \in 1..Len(Program), Program[n].op = "send"
    PROVE  LET c == Program[n].cmd
               k == (n - BootLen - 1) % 4
           IN  /\ n < BootLen => c \in Regions \cup RegCmds
               /\ n = BootLen => c = PRESDO
               /\ n > BootLen => k \in 1..3 /\ c = Layers[k]
               /\ \A i \in 1..Len(Params) : n = 4 + i => c = Params[i]
  <1>1. n \in Int /\ BootLen \in Nat /\ Len(Params) \in Nat /\ BootLen = Len(Params) + 5
        /\ Reloads \in Nat /\ n <= BootLen + 4 * Reloads
    BY ProgramShape
  <1>2. /\ Program[n] # Sample
        /\ \A c : Send(c).cmd = c
    BY DEF Sample, Send
  <1>3. CASE n \in 1..4
    <2>1. PICK m \in 1..3 : n = m + 1
      BY <1>2, <1>3, ProgramShape
    <2>2. Program[n] = Send(Layers[m]) /\ Layers[m] \in Regions
      BY <1>3, <2>1, ProgramShape, CallTypes
    <2>3. QED
      BY <1>1, <1>2, <1>3, <2>2
  <1>4. CASE n \in 5..(BootLen - 1)
    <2> DEFINE m == n - 4
    <2>a. m \in 1..Len(Params) /\ n = 4 + m
      BY <1>1, <1>4
    <2>1. PICK j \in 1..Len(Params) : n = 4 + j
      BY <2>a, Zenon
    <2>2. Program[n] = Send(Params[j]) /\ Params[j] \in RegCmds
      BY <2>1, ProgramShape, CallTypes
    <2>3. QED
      BY <1>1, <1>2, <1>4, <2>1, <2>2
  <1>5. CASE n = BootLen
    <2>1. Program[n] = Send(PRESDO)
      BY <1>5, ProgramShape
    <2>2. QED
      BY <1>1, <1>2, <1>5, <2>1
  <1>6. CASE n > BootLen
    <2> DEFINE m == n - BootLen
    <2>a. m \in 1..(4 * Reloads) /\ n = BootLen + m
      BY <1>1, <1>6
    <2>1. PICK j \in 1..(4 * Reloads) : n = BootLen + j
      BY <2>a, Zenon
    <2>2. PICK k \in 0..3 : k = (j - 1) % 4
      BY <2>1
    <2>3. Program[n] = LoadGroup[k + 1]
      BY <2>1, <2>2, ProgramShape
    <2>4. k \in 1..3
      BY <1>2, <2>2, <2>3, ProgramShape
    <2>5. Program[n] = Send(Layers[k])
      BY <2>3, <2>4, ProgramShape
    <2>6. n - BootLen - 1 = j - 1
      BY <1>1, <2>1
    <2>7. \A i \in 1..Len(Params) : n # 4 + i
      BY <1>1, <1>6
    <2>8. (n - BootLen - 1) % 4 = k /\ ~(n < BootLen) /\ n # BootLen
      BY <1>1, <1>6, <2>2, <2>6
    <2>9. QED
      BY <1>2, <2>4, <2>5, <2>7, <2>8, Zenon
  <1>7. QED
    BY <1>1, <1>3, <1>4, <1>5, <1>6

LEMMA SampleItem ==
    ASSUME NEW n \in 1..Len(Program), Program[n] = Sample
    PROVE  /\ n # BootLen /\ (n > BootLen => (n - BootLen - 1) % 4 = 0)
           /\ \A i \in 1..Len(Params) : n # 4 + i
  <1>1. n \in Int /\ BootLen \in Nat /\ Len(Params) \in Nat /\ BootLen = Len(Params) + 5
        /\ Reloads \in Nat /\ n <= BootLen + 4 * Reloads
    BY ProgramShape
  <1>2. \A c : Send(c) # Sample
    BY DEF Sample, Send
  <1>3. n # BootLen /\ \A i \in 1..Len(Params) : n # 4 + i
    <2>1. Program[BootLen] = Send(PRESDO)
      BY ProgramShape
    <2>2. \A i \in 1..Len(Params) : Program[4 + i] = Send(Params[i])
      BY ProgramShape
    <2>3. QED
      BY <1>2, <2>1, <2>2, Zenon
  <1>4. ASSUME n > BootLen
        PROVE  (n - BootLen - 1) % 4 = 0
    <2>0. n - BootLen \in 1..(4 * Reloads) /\ n = BootLen + (n - BootLen)
      BY <1>1, <1>4
    <2>1. PICK j \in 1..(4 * Reloads) : n = BootLen + j
      BY <2>0, Zenon
    <2>2. PICK k \in 0..3 : k = (j - 1) % 4
      BY <2>1
    <2>3. Program[n] = LoadGroup[k + 1]
      BY <2>1, <2>2, ProgramShape
    <2>4. k = 0
      <3>1. SUFFICES ASSUME k \in 1..3
                     PROVE  FALSE
        BY <2>2
      <3>2. Program[n] = Send(Layers[k])
        BY <2>3, <3>1, ProgramShape
      <3>3. QED
        BY <1>2, <3>2
    <2>5. n - BootLen - 1 = j - 1
      BY <1>1, <2>1
    <2>6. QED
      BY <2>2, <2>4, <2>5
  <1>5. QED
    BY <1>3, <1>4

(* What the packet functions put into a packet. *)
FromEeprom(p, c) ==
    /\ p # NoPacket /\ p.cmd = c /\ p.sum = Tail0
    /\ p.data \in [0..(Sent[c] - 1) -> Word]
    /\ c \in Regions => p.data = Rom[value][c] /\ p.data \in [0..(Sent[c] - 1) -> Plain]
    /\ c \in RegCmds => p.data[0] = SysPara[c]

LEMMA PacketForShape ==
    ASSUME NEW c \in Cmds, value \in Groups
    PROVE  FromEeprom(PacketFor(c), c)
  <1>0. PICK p : p = PacketFor(c)
    OBVIOUS
  <1>1. p.cmd = c /\ p.sum = Tail0
    BY <1>0 DEF PacketFor
  <1>2. p # NoPacket
    BY <1>1, CmdAssumption DEF NoPacket, Cmds
  <1>3. ASSUME c \in Regions PROVE FromEeprom(p, c)
    <2>1. p.data = Rom[value][c]
      BY <1>0, <1>3 DEF PacketFor
    <2>2. Rom[value][c] \in [0..(Sent[c] - 1) -> Plain]
      BY <1>3, BootAssumption
    <2>3. Plain \subseteq Word
      BY DEF Plain, Word
    <2>4. Rom[value][c] \in [0..(Sent[c] - 1) -> Word]
      BY <2>2, <2>3
    <2>5. QED
      BY <1>1, <1>2, <1>3, <2>1, <2>2, <2>4, CmdAssumption DEF FromEeprom
  <1>4. ASSUME c = PRESDO PROVE FromEeprom(p, c)
    <2>1. p.data = PresdoWords
      BY <1>0, <1>4, CmdAssumption DEF PacketFor
    <2>2. PresdoWords \in [0..(Sent[c] - 1) -> Word]
      BY <1>4, BootAssumption DEF Word
    <2>3. QED
      BY <1>1, <1>2, <1>4, <2>1, <2>2, CmdAssumption DEF FromEeprom
  <1>5. ASSUME c \in RegCmds PROVE FromEeprom(p, c)
    <2>1. p.data = [i \in {0} |-> SysPara[c]]
      BY <1>0, <1>5, CmdAssumption DEF PacketFor
    <2>2. 0..(Sent[c] - 1) = {0}
      BY <1>5, BootAssumption
    <2>3. SysPara[c] \in Word
      BY <1>5, BootAssumption DEF Word
    <2>4. p.data \in [0..(Sent[c] - 1) -> Word] /\ p.data[0] = SysPara[c]
      BY <2>1, <2>2, <2>3
    <2>5. QED
      BY <1>1, <1>2, <1>5, <2>4, CmdAssumption DEF FromEeprom
  <1>6. FromEeprom(p, c)
    BY <1>3, <1>4, <1>5, Zenon DEF Cmds
  <1>7. QED
    BY <1>0, <1>6, Zenon

(* The registers stay within their widths, and the packet on its way is the *)
(* one the last item of the sequence asks for.                              *)
BootType ==
    /\ FpgaTypeOK
    /\ gap \in 0..MinGap
    /\ io \in Groups /\ value \in Groups
    /\ step \in 0..Len(Program)
    /\ pkt # NoPacket => /\ step > 0 /\ Program[step].op = "send"
                         /\ pkt = PacketFor(Program[step].cmd)
                         /\ pos \in 0..LastPos(pkt)

LEMMA BootNumbers ==
    /\ BootLen \in Nat /\ Len(Params) \in Nat /\ BootLen = Len(Params) + 5
    /\ Reloads \in Nat /\ Len(Program) = BootLen + 4 * Reloads
    /\ CntMax \in Nat /\ MinGap \in Nat \ {0} /\ RamSize \in Nat \ {0}
    /\ Sent[PRESDO] \in Nat \ {0} /\ Announced[PRESDO] \in Nat
    /\ Announced[PRESDO] > Sent[PRESDO] /\ Announced[PRESDO] + 2 <= CntMax
  BY ProgramShape, BootAssumption, LinkAssumption, SizeAssumption DEF Cmds

LEMMA BootPacket ==
    ASSUME BootType, pkt # NoPacket
    PROVE  /\ pkt.cmd \in Cmds /\ FromEeprom(pkt, pkt.cmd)
           /\ step \in 1..Len(Program) /\ Program[step].op = "send" /\ pkt.cmd = Program[step].cmd
           /\ Sent[pkt.cmd] \in Nat \ {0} /\ LastPos(pkt) = Sent[pkt.cmd] + 2
           /\ pos \in 0..(Sent[pkt.cmd] + 2)
  <1>1. step \in 1..Len(Program) /\ Program[step].op = "send"
    BY BootNumbers DEF BootType
  <1>2. PICK n \in 1..Len(Program) : n = step
    BY <1>1
  <1>3. PICK c : c = Program[n].cmd
    OBVIOUS
  <1>4. c \in Cmds
    <2>1. /\ n < BootLen => c \in Regions \cup RegCmds
          /\ n = BootLen => c = PRESDO
          /\ n > BootLen => (n - BootLen - 1) % 4 \in 1..3 /\ c = Layers[(n - BootLen - 1) % 4]
      BY <1>1, <1>2, <1>3, SendItem, Zenon
    <2>2. n > BootLen => c \in Regions
      BY <2>1, CallTypes, Zenon
    <2>3. n < BootLen \/ n = BootLen \/ n > BootLen
      BY <1>2, BootNumbers
    <2>4. QED
      BY <2>1, <2>2, <2>3, Zenon DEF Cmds
  <1>5. pkt = PacketFor(c) /\ value \in Groups /\ pos \in 0..LastPos(pkt)
    BY <1>2, <1>3 DEF BootType
  <1>6. FromEeprom(pkt, c)
    BY <1>4, <1>5, PacketForShape, Zenon
  <1>7. pkt.cmd = c
    BY <1>6 DEF FromEeprom
  <1>8. Sent[c] \in Nat \ {0}
    BY <1>4, LinkAssumption
  <1>9. LastPos(pkt) = Sent[c] + 2
    BY <1>7 DEF LastPos
  <1>10. QED
    BY <1>1, <1>2, <1>3, <1>4, <1>5, <1>6, <1>7, <1>8, <1>9, Zenon

(* Every packet but that of write_laser_presdo fits. *)
LEMMA BootFits ==
    ASSUME BootType, step # BootLen
    PROVE  /\ Fits
           /\ pkt # NoPacket /\ step > BootLen => pkt.cmd \in Regions
  <1>1. SUFFICES ASSUME pkt # NoPacket
                 PROVE  Fits /\ (step > BootLen => pkt.cmd \in Regions)
    BY DEF Fits
  <1>2. PICK n \in 1..Len(Program) : n = step
    BY <1>1, BootPacket
  <1>3. PICK c \in Cmds : c = pkt.cmd /\ c = Program[n].cmd
    BY <1>1, <1>2, BootPacket, Zenon
  <1>4. (n > BootLen => c \in Regions) /\ (n < BootLen => c \in Regions \cup RegCmds)
    <2>1. /\ n < BootLen => c \in Regions \cup RegCmds
          /\ n > BootLen => (n - BootLen - 1) % 4 \in 1..3 /\ c = Layers[(n - BootLen - 1) % 4]
      BY <1>1, <1>2, <1>3, BootPacket, SendItem, Zenon
    <2>2. QED
      BY <2>1, CallTypes, Zenon
  <1>5. c \in Regions \cup RegCmds
    <2>1. n < BootLen \/ n > BootLen
      BY <1>2, BootNumbers
    <2>2. QED
      BY <2>1, <1>4, Zenon
  <1>6. /\ Sent[c] \in Nat \ {0} /\ Announced[c] = Sent[c] /\ Sent[c] + 2 <= CntMax
        /\ c \in RegCmds => Sent[c] = 1
        /\ c \in Regions => Sent[c] <= RamSize
        /\ c \in Nat
    BY <1>5, BootAssumption, LinkAssumption, CmdAssumption DEF Cmds
  <1>7. /\ pkt.data \in [0..(Sent[c] - 1) -> Word] /\ pkt.sum \in Word
        /\ pos \in 0..(Sent[c] + 2)
    <2>1. FromEeprom(pkt, c) /\ pos \in 0..(Sent[c] + 2)
      BY <1>1, <1>3, BootPacket, Zenon
    <2>2. Tail0 \in Word
      BY BootAssumption DEF Plain, Word
    <2>3. QED
      BY <2>1, <2>2 DEF FromEeprom
  <1>8. Fits
    BY <1>3, <1>6, <1>7 DEF Fits
  <1>9. QED
    BY <1>2, <1>3, <1>4, <1>8

(* Every word on the link is one, those of write_laser_presdo included, and *)
(* in a region packet only the first one is a head.                         *)
LEMMA BootWord ==
    ASSUME BootType, pkt # NoPacket
    PROVE  /\ WordAt(pkt, pos) \in Word
           /\ pos = 0 => WordAt(pkt, pos) = [head |-> TRUE, data |-> pkt.cmd]
           /\ pos = 1 => WordAt(pkt, pos).data = Announced[pkt.cmd]
           /\ pkt.cmd \in Regions /\ pos # 0 => ~WordAt(pkt, pos).head
  <1>1. PICK c \in Cmds : c = pkt.cmd
    BY BootPacket
  <1>2. /\ c \in Nat /\ Announced[c] \in Nat /\ Sent[c] \in Nat \ {0}
        /\ Tail0 \in Word /\ ~Tail0.head
    BY LinkAssumption, CmdAssumption, BootAssumption DEF Cmds, Plain, Word
  <1>3. /\ pkt.sum = Tail0
        /\ pkt.data \in [0..(Sent[c] - 1) -> Word]
        /\ c \in Regions => pkt.data \in [0..(Sent[c] - 1) -> Plain]
    <2>1. FromEeprom(pkt, c)
      BY <1>1, BootPacket, Zenon
    <2>2. QED
      BY <2>1 DEF FromEeprom
  <1>4. pos \in 0..(Sent[c] + 2) /\ LastPos(pkt) = Sent[c] + 2
    BY <1>1, BootPacket, Zenon
  <1>5. CASE pos = 0
    BY <1>1, <1>2, <1>5 DEF WordAt, Word
  <1>6. CASE pos = 1
    BY <1>1, <1>2, <1>6 DEF WordAt, Word
  <1>7. CASE pos = Sent[c] + 2
    BY <1>2, <1>3, <1>4, <1>7 DEF WordAt
  <1>8. CASE pos \in 2..(Sent[c] + 1)
    <2>1. WordAt(pkt, pos) = pkt.data[pos - 2] /\ pos - 2 \in 0..(Sent[c] - 1)
      BY <1>2, <1>4, <1>8 DEF WordAt
    <2>2. pkt.data[pos - 2] \in Word /\ (c \in Regions => pkt.data[pos - 2] \in Plain)
      BY <1>3, <2>1
    <2>3. \A w \in Plain : ~w.head
      BY DEF Plain
    <2>4. pos # 0 /\ pos # 1
      BY <1>2, <1>8
    <2>5. QED
      BY <1>1, <2>1, <2>2, <2>3, <2>4, Zenon
  <1>9. QED
    BY <1>2, <1>4, <1>5, <1>6, <1>7, <1>8

LEMMA BootTypeStep ==
    ASSUME BootType, [BootNext]_bvars
    PROVE  BootType'
  <1>1. CASE SampleSwitch
    <2>1. /\ UNCHANGED <<cs, recv_command, data_len_reg, recv_cnt, reg, dac_set_flag,
                         region_wren, region_wrdata, ram, laser_presdo, pkt, gap, io>>
          /\ pkt = NoPacket /\ value' = io /\ step' = step + 1 /\ step < Len(Program)
      BY <1>1 DEF SampleSwitch, vars
    <2>2. step' \in 0..Len(Program)
      BY <2>1, BootNumbers DEF BootType
    <2>3. FpgaTypeOK'
      BY <2>1 DEF BootType, FpgaTypeOK
    <2>4. QED
      BY <2>1, <2>2, <2>3 DEF BootType
  <1>2. CASE CallSend
    <2>1. PICK n : n = step + 1
      OBVIOUS
    <2>2. /\ UNCHANGED <<cs, recv_command, data_len_reg, recv_cnt, reg, dac_set_flag,
                         region_wren, region_wrdata, ram, laser_presdo, gap, io, value>>
          /\ step < Len(Program) /\ step' = n /\ Program[n].op = "send"
          /\ pkt' = PacketFor(Program[n].cmd) /\ pos' = 0
      BY <1>2, <2>1 DEF CallSend, BeginPacket, fpga
    <2>3. n \in 1..Len(Program)
      BY <2>1, <2>2, BootNumbers DEF BootType
    <2>4. FpgaTypeOK'
      BY <2>2 DEF BootType, FpgaTypeOK
    <2>5. PacketFor(Program[step].cmd)' = PacketFor(Program[n].cmd)
      BY <2>2 DEF PacketFor
    <2>6. pkt'.cmd \in Cmds
      <3>1. PICK c : c = Program[n].cmd
        OBVIOUS
      <3>2. /\ n < BootLen => c \in Regions \cup RegCmds
            /\ n = BootLen => c = PRESDO
            /\ n > BootLen => (n - BootLen - 1) % 4 \in 1..3 /\ c = Layers[(n - BootLen - 1) % 4]
        BY <2>2, <2>3, <3>1, SendItem, Zenon
      <3>3. n > BootLen => c \in Regions
        BY <3>2, CallTypes, Zenon
      <3>4. n < BootLen \/ n = BootLen \/ n > BootLen
        BY <2>3, BootNumbers
      <3>5. c \in Cmds
        BY <3>2, <3>3, <3>4, Zenon DEF Cmds
      <3>6. pkt'.cmd = c
        BY <2>2, <3>1 DEF PacketFor
      <3>7. QED
        BY <3>5, <3>6
    <2>7. 0 \in 0..LastPos(pkt')
      BY <2>6, LinkAssumption DEF LastPos
    <2>8. QED
      BY <2>2, <2>3, <2>4, <2>5, <2>7 DEF BootType
  <1>3. CASE TurnSwitch
    <2>1. /\ UNCHANGED <<cs, recv_command, data_len_reg, recv_cnt, reg, dac_set_flag,
                         region_wren, region_wrdata, ram, laser_presdo, pkt, pos, gap,
                         value, step>>
          /\ io' \in Groups
      BY <1>3 DEF TurnSwitch, vars
    <2>2. FpgaTypeOK'
      BY <2>1 DEF BootType, FpgaTypeOK
    <2>3. PacketFor(Program[step].cmd)' = PacketFor(Program[step].cmd)
      BY <2>1 DEF PacketFor
    <2>4. QED
      BY <2>1, <2>2, <2>3 DEF BootType, LastPos
  <1>4. CASE LinkStep /\ WriteWord
    <2>1. /\ UNCHANGED <<io, value, step>> /\ pkt # NoPacket /\ gap' = 0
          /\ Clock(TRUE, WordAt(pkt, pos))
      BY <1>4 DEF LinkStep, WriteWord
    <2>2. FpgaTypeOK'
      <3>1. PICK w \in Word : w = WordAt(pkt, pos)
        BY <2>1, BootWord
      <3>2. QED
        BY <2>1, <3>1, ClockType DEF BootType
    <2>3. PacketFor(Program[step].cmd)' = PacketFor(Program[step].cmd)
      BY <2>1 DEF PacketFor
    <2>4. pkt' # NoPacket => pkt' = pkt /\ pos' \in 0..LastPos(pkt)
      <3>1. pos \in 0..LastPos(pkt) /\ LastPos(pkt) \in Nat
        BY <2>1, BootPacket
      <3>2. QED
        BY <1>4, <3>1 DEF WriteWord
    <2>5. gap' \in 0..MinGap
      BY <2>1, BootNumbers
    <2>6. QED
      BY <2>1, <2>2, <2>3, <2>4, <2>5 DEF BootType
  <1>5. CASE LinkStep /\ IdleClock
    <2>1. UNCHANGED <<io, value, step, pkt, pos>> /\ gap' \in 0..MinGap
      BY <1>5, BootNumbers DEF LinkStep, IdleClock, BootType
    <2>2. FpgaTypeOK'
      <3>1. PICK w \in Words : Clock(FALSE, w)
        BY <1>5 DEF IdleClock
      <3>2. w \in Word
        BY LinkAssumption DEF Word
      <3>3. QED
        BY <3>1, <3>2, ClockType DEF BootType
    <2>3. PacketFor(Program[step].cmd)' = PacketFor(Program[step].cmd)
      BY <2>1 DEF PacketFor
    <2>4. QED
      BY <2>1, <2>2, <2>3 DEF BootType, LastPos
  <1>6. CASE UNCHANGED bvars
    <2>1. /\ UNCHANGED <<cs, recv_command, data_len_reg, recv_cnt, reg, dac_set_flag,
                         region_wren, region_wrdata, ram, laser_presdo, pkt, pos, gap,
                         io, value, step>>
      BY <1>6 DEF bvars, vars
    <2>2. FpgaTypeOK'
      BY <2>1 DEF BootType, FpgaTypeOK
    <2>3. PacketFor(Program[step].cmd)' = PacketFor(Program[step].cmd)
      BY <2>1 DEF PacketFor
    <2>4. QED
      BY <2>1, <2>2, <2>3 DEF BootType, LastPos
  <1>7. QED
    BY <1>1, <1>2, <1>3, <1>4, <1>5, <1>6 DEF BootNext, LinkStep

(* From the call of write_laser_presdo until the end of the packet after it *)
(* the FSM need not be in step.  Written counts the words of the two         *)
(* packets: Announced[PRESDO] of them behind the length word, one more for  *)
(* the checksum, and the FSM is back in IDLE, where it drops the rest of the *)
(* region packet, since no word of it is a head.                            *)
Astray == step \in {BootLen, BootLen + 1} \/ (step = BootLen + 2 /\ pkt # NoPacket)

Written ==
    IF pkt = NoPacket THEN Sent[PRESDO] + 3
    ELSE IF step = BootLen THEN pos ELSE Sent[PRESDO] + 3 + pos

SwallowAt(s) ==
    LET a == Announced[PRESDO]
    IN  /\ s = 0 => cs = "IDLE" \/ (cs = "OVER" /\ gap = 0)
        /\ s = 1 => cs = "HEAD_COMMAND" /\ recv_command = PRESDO /\ recv_cnt = 0
        /\ s \in 2..(a + 2) => recv_command = PRESDO /\ data_len_reg = a /\ recv_cnt = s - 1
        /\ s = 2 => cs = "DATA_LEN"
        /\ s \in 3..(a + 1) => cs = "DATA"
        /\ s = a + 2 => cs = "CHECKSUM" \/ (cs = "DATA" /\ gap = 0)
        /\ s = a + 3 => cs = "IDLE" \/ (cs = "OVER" /\ gap = 0)
        /\ s > a + 3 => cs = "IDLE"

Position == IF Astray THEN SwallowAt(Written) ELSE InStep

(* One clock, without what it stores in the RAMs. *)
Effect(valid, w, ns) ==
    /\ cs' = ns
    /\ recv_command' = IF cs = "IDLE" /\ ns = "HEAD_COMMAND" THEN w.data ELSE recv_command
    /\ data_len_reg' = IF cs = "HEAD_COMMAND" /\ ns = "DATA_LEN" THEN w.data
                       ELSE IF cs = "IDLE" THEN 0 ELSE data_len_reg
    /\ recv_cnt' = IF cs = "IDLE" THEN 0
                   ELSE IF ~valid THEN recv_cnt
                   ELSE IF recv_cnt = CntMax THEN 0 ELSE recv_cnt + 1
    /\ ~(ns = "DATA" /\ recv_command \in RegCmds) => reg' = reg

LEMMA ClockEffect ==
    ASSUME NEW valid \in BOOLEAN, NEW w \in Word, Clock(valid, w)
    PROVE  Effect(valid, w, NextState(valid, w))
  <1>1. PICK ns : ns = NextState(valid, w)
    OBVIOUS
  <1>2. Effect(valid, w, ns)
    BY <1>1 DEF Clock, RecvCommand, RecvCount, Store, Effect
  <1>3. QED
    BY <1>1, <1>2

LEMMA SwallowWord ==
    ASSUME NEW s \in Nat, SwallowAt(s), gap # 0, gap' = 0,
           NEW w \in Word, Clock(TRUE, w),
           s = 0 => w = [head |-> TRUE, data |-> PRESDO],
           s = 1 => w.data = Announced[PRESDO],
           s >= Announced[PRESDO] + 3 => ~w.head
    PROVE  SwallowAt(s + 1)' /\ reg' = reg
  <1>1. PICK a \in Nat : a = Announced[PRESDO] /\ a >= 2 /\ a + 2 <= CntMax
    BY BootNumbers
  <1>2. CntMax \in Nat /\ PRESDO \notin RegCmds
    BY BootNumbers, CmdAssumption
  <1>3. CASE s = 0
    <2>1. cs = "IDLE" /\ NextState(TRUE, w) = "HEAD_COMMAND"
      BY <1>3 DEF SwallowAt, NextState
    <2>2. cs' = "HEAD_COMMAND" /\ recv_command' = PRESDO /\ recv_cnt' = 0 /\ reg' = reg
      <3>1. Effect(TRUE, w, "HEAD_COMMAND")
        BY <2>1, ClockEffect
      <3>2. QED
        BY <1>3, <2>1, <3>1 DEF Effect
    <2>3. QED
      BY <1>1, <1>3, <2>2 DEF SwallowAt
  <1>4. CASE s = 1
    <2>1. /\ cs = "HEAD_COMMAND" /\ recv_command = PRESDO /\ recv_cnt = 0
          /\ NextState(TRUE, w) = "DATA_LEN"
      BY <1>4 DEF SwallowAt, NextState
    <2>2. /\ cs' = "DATA_LEN" /\ recv_command' = PRESDO /\ recv_cnt' = 1 /\ reg' = reg
          /\ data_len_reg' = a
      <3>1. Effect(TRUE, w, "DATA_LEN")
        BY <2>1, ClockEffect
      <3>2. QED
        BY <1>1, <1>2, <1>4, <2>1, <3>1 DEF Effect
    <2>3. QED
      BY <1>1, <1>4, <2>2 DEF SwallowAt
  <1>5. CASE s \in 2..(a + 1)
    <2>1. /\ cs \in {"DATA_LEN", "DATA"} /\ recv_command = PRESDO /\ recv_cnt = s - 1
          /\ data_len_reg = a
      BY <1>1, <1>5 DEF SwallowAt
    <2>2. NextState(TRUE, w) = "DATA"
      BY <1>1, <1>5, <2>1 DEF NextState
    <2>3. /\ cs' = "DATA" /\ recv_command' = PRESDO /\ recv_cnt' = s /\ reg' = reg
          /\ data_len_reg' = a
      <3>1. Effect(TRUE, w, "DATA")
        BY <2>2, ClockEffect
      <3>2. QED
        BY <1>1, <1>2, <1>5, <2>1, <3>1 DEF Effect
    <2>4. QED
      BY <1>1, <1>5, <2>3 DEF SwallowAt
  <1>6. CASE s = a + 2
    <2>1. cs = "CHECKSUM" /\ NextState(TRUE, w) = "OVER"
      BY <1>1, <1>6 DEF SwallowAt, NextState
    <2>2. cs' = "OVER" /\ reg' = reg
      BY <2>1 DEF Clock, Store
    <2>3. QED
      BY <1>1, <1>6, <2>2 DEF SwallowAt
  <1>7. CASE s >= a + 3
    <2>1. cs = "IDLE" /\ NextState(TRUE, w) = "IDLE"
      BY <1>1, <1>7 DEF SwallowAt, NextState
    <2>2. cs' = "IDLE" /\ reg' = reg
      BY <2>1 DEF Clock, Store
    <2>3. QED
      BY <1>1, <1>7, <2>2 DEF SwallowAt
  <1>8. QED
    BY <1>1, <1>3, <1>4, <1>5, <1>6, <1>7

LEMMA SwallowIdle ==
    ASSUME NEW s \in Nat, SwallowAt(s), NEW w \in Word, Clock(FALSE, w)
    PROVE  SwallowAt(s)' /\ reg' = reg
  <1>1. PICK a \in Nat : a = Announced[PRESDO] /\ a >= 2 /\ a + 2 <= CntMax
    BY BootNumbers
  <1>2. CntMax \in Nat /\ PRESDO \notin RegCmds
    BY BootNumbers, CmdAssumption
  <1>3. CASE s = 0 \/ s >= a + 3
    <2>1. (cs = "IDLE" \/ cs = "OVER") /\ NextState(FALSE, w) = "IDLE"
      BY <1>1, <1>3 DEF SwallowAt, NextState
    <2>2. cs' = "IDLE" /\ reg' = reg
      BY <2>1 DEF Clock, Store
    <2>3. QED
      BY <1>1, <1>3, <2>2 DEF SwallowAt
  <1>4. CASE s = 1
    <2>1. /\ cs = "HEAD_COMMAND" /\ recv_command = PRESDO /\ recv_cnt = 0
          /\ NextState(FALSE, w) = "HEAD_COMMAND"
      BY <1>4 DEF SwallowAt, NextState
    <2>2. cs' = "HEAD_COMMAND" /\ recv_command' = PRESDO /\ recv_cnt' = 0 /\ reg' = reg
      BY <2>1 DEF Clock, RecvCommand, RecvCount, Store
    <2>3. QED
      BY <1>1, <1>4, <2>2 DEF SwallowAt
  <1>5. CASE s \in 2..(a + 2)
    <2>1. /\ recv_command = PRESDO /\ recv_cnt = s - 1 /\ data_len_reg = a
          /\ cs \in {"DATA_LEN", "DATA", "CHECKSUM"}
          /\ s = 2 => cs = "DATA_LEN"
          /\ s \in 3..(a + 1) => cs = "DATA"
          /\ s = a + 2 => cs \in {"DATA", "CHECKSUM"}
      BY <1>1, <1>5 DEF SwallowAt
    <2>2. /\ recv_command' = PRESDO /\ recv_cnt' = s - 1 /\ data_len_reg' = a /\ reg' = reg
      BY <1>2, <2>1 DEF Clock, RecvCommand, RecvCount, Store, NextState
    <2>3. /\ s = 2 => cs' = "DATA_LEN"
          /\ s \in 3..(a + 1) => cs' = "DATA"
          /\ s = a + 2 => cs' = "CHECKSUM"
      BY <1>1, <1>5, <2>1 DEF Clock, NextState
    <2>4. QED
      BY <1>1, <1>5, <2>2, <2>3 DEF SwallowAt
  <1>6. QED
    BY <1>1, <1>3, <1>4, <1>5

(* While the FSM may be out of step: the words of write_laser_presdo and of *)
(* the first layer after it, up to the word that ends the latter.           *)
LEMMA AstrayWrite ==
    ASSUME BootType, Astray, Position, WriteWord, step' = step
    PROVE  Position' /\ reg' = reg
  <1>1. pkt # NoPacket /\ gap # 0 /\ gap' = 0 /\ Clock(TRUE, WordAt(pkt, pos))
    BY BootNumbers DEF WriteWord
  <1>2. PICK n \in 1..Len(Program) : n = step
    BY <1>1, BootPacket
  <1>3. PICK c \in Cmds : c = pkt.cmd /\ c = Program[n].cmd
    BY <1>1, <1>2, BootPacket, Zenon
  <1>4. /\ n = BootLen => c = PRESDO
        /\ n > BootLen => (n - BootLen - 1) % 4 \in 1..3 /\ c = Layers[(n - BootLen - 1) % 4]
    BY <1>1, <1>2, <1>3, BootPacket, SendItem, Zenon
  <1>5. PICK p \in Nat \ {0}, a \in Nat, l \in Nat \ {0} :
           p = Sent[PRESDO] /\ a = Announced[PRESDO] /\ l = Sent[c] /\ a > p
    BY <1>1, <1>3, BootNumbers, BootPacket
  <1>6. pos \in 0..(l + 2) /\ LastPos(pkt) = l + 2
    BY <1>1, <1>3, <1>5, BootPacket
  <1>7. \/ n = BootLen /\ c = PRESDO /\ l = p
        \/ n = BootLen + 2 /\ c \in Regions /\ a <= p + l + 3
    <2>1. n \in {BootLen, BootLen + 1, BootLen + 2}
      BY <1>2 DEF Astray
    <2>2. n # BootLen + 1
      <3>1. SUFFICES ASSUME n = BootLen + 1
                     PROVE  FALSE
        OBVIOUS
      <3>2. n > BootLen /\ (n - BootLen - 1) % 4 = 0
        BY <3>1, BootNumbers
      <3>3. QED
        BY <1>4, <3>2
    <2>3. ASSUME n = BootLen + 2
          PROVE  c \in Regions /\ a <= p + l + 3
      <3>1. n > BootLen
        BY <2>3, BootNumbers
      <3>2. c \in Regions
        BY <1>4, <3>1, CallTypes, Zenon
      <3>3. QED
        BY <1>5, <3>2, BootAssumption
    <2>4. QED
      BY <1>4, <1>5, <2>1, <2>2, <2>3
  <1>8. PICK w \in Word : w = WordAt(pkt, pos)
    BY <1>1, BootWord
  <1>9. /\ pos = 0 => w = [head |-> TRUE, data |-> c]
        /\ pos = 1 => w.data = Announced[c]
        /\ c \in Regions /\ pos # 0 => ~w.head
    BY <1>1, <1>3, <1>8, BootWord, Zenon
  <1>10. PICK s \in Nat : /\ s = Written
                          /\ n = BootLen => s = pos
                          /\ n # BootLen => s = p + 3 + pos
    BY <1>1, <1>2, <1>5, <1>6 DEF Written
  <1>11. SwallowAt(s)
    BY <1>10 DEF Position
  <1>12. /\ s = 0 => w = [head |-> TRUE, data |-> PRESDO]
         /\ s = 1 => w.data = Announced[PRESDO]
         /\ s >= Announced[PRESDO] + 3 => ~w.head
    <2>1. CASE n = BootLen /\ c = PRESDO /\ l = p
      <3>1. s = pos /\ ~(s >= a + 3)
        BY <1>5, <1>6, <1>10, <2>1
      <3>2. QED
        BY <1>5, <1>9, <2>1, <3>1
    <2>2. CASE n = BootLen + 2 /\ c \in Regions /\ a <= p + l + 3
      <3>1. s = p + 3 + pos
        BY <1>10, <2>2, BootNumbers
      <3>2. s # 0 /\ s # 1 /\ (s >= a + 3 => pos # 0)
        BY <1>5, <1>6, <3>1
      <3>3. QED
        BY <1>5, <1>9, <2>2, <3>2
    <2>3. QED
      BY <1>7, <2>1, <2>2
  <1>13. SwallowAt(s + 1)' /\ reg' = reg
    BY <1>1, <1>8, <1>11, <1>12, SwallowWord
  <1>14. PICK z \in Nat : z = s + 1
    OBVIOUS
  <1>15. (SwallowAt(z))'
    BY <1>13, <1>14
  <1>16. CASE pos # l + 2
    <2>1. pkt' = pkt /\ pos' = pos + 1
      BY <1>6, <1>16 DEF WriteWord
    <2>2. Written' = z
      <3>1. Written' = IF n = BootLen THEN pos + 1 ELSE p + 3 + (pos + 1)
        BY <1>1, <1>2, <1>5, <2>1 DEF Written
      <3>2. (n = BootLen => z = pos + 1) /\ (n # BootLen => z = p + 3 + (pos + 1))
        BY <1>6, <1>10, <1>14
      <3>3. QED
        BY <3>1, <3>2, Zenon
    <2>3. Astray'
      BY <2>1 DEF Astray
    <2>4. QED
      BY <1>13, <1>15, <2>2, <2>3 DEF Position
  <1>17. CASE pos = l + 2 /\ n = BootLen
    <2>1. pkt' = NoPacket
      BY <1>6, <1>17 DEF WriteWord
    <2>2. Written' = z /\ Astray'
      <3>1. Written' = p + 3 /\ Astray'
        BY <1>2, <1>5, <1>17, <2>1 DEF Written, Astray
      <3>2. l = p
        BY <1>7, <1>17, BootNumbers
      <3>3. z = p + 3
        BY <1>10, <1>14, <1>17, <3>2
      <3>4. QED
        BY <3>1, <3>3, Zenon
    <2>3. QED
      BY <1>13, <1>15, <2>2 DEF Position
  <1>18. CASE pos = l + 2 /\ n = BootLen + 2
    <2>1. pkt' = NoPacket /\ ~Astray'
      BY <1>2, <1>6, <1>18, BootNumbers DEF WriteWord, Astray
    <2>2. z >= a + 3
      <3>1. BootLen + 2 # BootLen
        BY BootNumbers
      <3>2. a <= p + l + 3 /\ s = p + 3 + (l + 2)
        BY <1>7, <1>10, <1>18, <3>1
      <3>3. z = s + 1
        BY <1>14
      <3>4. p + 3 + (l + 2) + 1 >= a + 3
        BY <3>2
      <3>5. QED
        BY <3>2, <3>3, <3>4
    <2>3. cs' = "IDLE" \/ (cs' = "OVER" /\ gap' = 0)
      BY <1>5, <1>15, <2>2 DEF SwallowAt
    <2>4. QED
      BY <1>13, <2>1, <2>3 DEF Position, InStep
  <1>19. QED
    BY <1>7, <1>16, <1>17, <1>18

LEMMA AstrayIdle ==
    ASSUME BootType, Astray, Position, IdleClock, step' = step
    PROVE  Position' /\ reg' = reg
  <1>1. PICK v \in Words : Clock(FALSE, v)
    BY DEF IdleClock
  <1>2. PICK w \in Word : Clock(FALSE, w)
    BY <1>1, LinkAssumption DEF Word
  <1>3. pkt' = pkt /\ pos' = pos
    BY DEF IdleClock
  <1>4. PICK s \in Nat : s = Written
    BY BootNumbers, BootPacket DEF Written
  <1>5. SwallowAt(s)
    BY <1>4 DEF Position
  <1>6. SwallowAt(s)' /\ reg' = reg
    BY <1>2, <1>5, SwallowIdle
  <1>7. Written' = s /\ Astray'
    BY <1>3, <1>4 DEF Written, Astray
  <1>8. QED
    BY <1>6, <1>7 DEF Position

LEMMA CallBegins ==
    ASSUME CallSend
    PROVE  pkt' # NoPacket
  <1>1. PICK p : p = PacketFor(Program[step + 1].cmd)
    OBVIOUS
  <1>2. pkt' = p
    BY <1>1 DEF CallSend, BeginPacket
  <1>3. p = [cmd |-> Program[step + 1].cmd, data |-> p.data, sum |-> Tail0]
    BY <1>1 DEF PacketFor
  <1>4. DOMAIN p = {"cmd", "data", "sum"} /\ DOMAIN NoPacket = {"cmd"}
    BY <1>3 DEF NoPacket
  <1>5. "sum" \notin {"cmd"}
    OBVIOUS
  <1>6. QED
    BY <1>2, <1>4, <1>5

(* Calls and the switch leave the FSM alone. *)
LEMMA PositionCall ==
    ASSUME BootType, Position, CallSend
    PROVE  Position'
  <1>1. PICK n : n = step + 1
    OBVIOUS
  <1>2. /\ UNCHANGED <<cs, recv_command, data_len_reg, recv_cnt, gap>>
        /\ step < Len(Program) /\ step' = n /\ Program[n].op = "send"
        /\ pkt = NoPacket /\ pos' = 0
    BY <1>1 DEF CallSend, BeginPacket, fpga
  <1>3. step \in Nat /\ n \in 1..Len(Program)
    BY <1>1, <1>2, BootNumbers DEF BootType
  <1>4. pkt' # NoPacket
    BY CallBegins
  <1>5. n # BootLen + 1
    <2>1. n > BootLen => (n - BootLen - 1) % 4 \in 1..3
      BY <1>2, <1>3, SendItem
    <2>2. n = BootLen + 1 => n > BootLen /\ (n - BootLen - 1) % 4 = 0
      BY BootNumbers
    <2>3. QED
      BY <2>1, <2>2
  <1>6. CASE n = BootLen
    <2>1. ~Astray
      BY <1>1, <1>3, <1>6, BootNumbers DEF Astray
    <2>2. cs = "IDLE" \/ (cs = "OVER" /\ gap = 0)
      BY <1>2, <2>1 DEF Position, InStep
    <2>3. Astray' /\ Written' = 0
      BY <1>2, <1>4, <1>6 DEF Astray, Written
    <2>4. (SwallowAt(0))'
      BY <1>2, <2>2, BootNumbers DEF SwallowAt
    <2>5. QED
      BY <2>3, <2>4 DEF Position
  <1>7. CASE n = BootLen + 2
    <2>1. Astray /\ Written = Sent[PRESDO] + 3
      BY <1>1, <1>2, <1>3, <1>7, BootNumbers DEF Astray, Written
    <2>2. PICK s \in Nat : s = Sent[PRESDO] + 3
      BY BootNumbers
    <2>3. SwallowAt(s)
      BY <2>1, <2>2 DEF Position
    <2>4. (SwallowAt(s))'
      BY <1>2, <2>3 DEF SwallowAt
    <2>5. Astray' /\ Written' = s
      BY <1>2, <1>4, <1>7, <2>2, BootNumbers DEF Astray, Written
    <2>6. QED
      BY <2>4, <2>5 DEF Position
  <1>8. CASE n < BootLen \/ n > BootLen + 2
    <2>1. ~Astray /\ ~Astray'
      <3>1. step # BootLen /\ step # BootLen + 1
        BY <1>1, <1>3, <1>8, BootNumbers
      <3>2. n # BootLen /\ n # BootLen + 1 /\ n # BootLen + 2
        BY <1>3, <1>8, BootNumbers
      <3>3. QED
        BY <1>2, <3>1, <3>2 DEF Astray
    <2>2. cs = "IDLE" \/ (cs = "OVER" /\ gap = 0)
      BY <1>2, <2>1 DEF Position, InStep
    <2>3. QED
      BY <1>2, <2>1, <2>2 DEF Position, InStep
  <1>9. QED
    BY <1>3, <1>5, <1>6, <1>7, <1>8, BootNumbers

LEMMA PositionStep ==
    ASSUME BootType, Position, [BootNext]_bvars
    PROVE  Position'
  <1>1. CASE SampleSwitch
    <2>1. /\ UNCHANGED <<cs, recv_command, data_len_reg, recv_cnt, gap, pkt, pos>>
          /\ pkt = NoPacket /\ step' = step + 1 /\ step < Len(Program)
          /\ Program[step + 1] = Sample /\ step \in Nat
      BY <1>1, BootNumbers DEF SampleSwitch, vars, BootType
    <2>2. PICK n \in 1..Len(Program) : n = step + 1
      BY <2>1, BootNumbers
    <2>3. n # BootLen /\ (n > BootLen => (n - BootLen - 1) % 4 = 0)
      BY <2>1, <2>2, SampleItem
    <2>4. n # BootLen + 2
      <3>1. n = BootLen + 2 => n > BootLen /\ (n - BootLen - 1) % 4 = 1
        BY BootNumbers
      <3>2. QED
        BY <2>3, <3>1
    <2>5. CASE n = BootLen + 1
      <3>1. Astray /\ Astray' /\ Written' = Written /\ Written = Sent[PRESDO] + 3
        BY <2>1, <2>2, <2>5, BootNumbers DEF Astray, Written
      <3>2. PICK s \in Nat : s = Written
        BY <3>1, BootNumbers
      <3>3. SwallowAt(s)
        BY <3>1, <3>2 DEF Position
      <3>4. (SwallowAt(s))'
        BY <2>1, <3>3 DEF SwallowAt
      <3>5. QED
        BY <3>1, <3>2, <3>4 DEF Position
    <2>6. CASE n # BootLen + 1
      <3>1. ~Astray /\ ~Astray'
        BY <2>1, <2>2, <2>3, <2>4, <2>6, BootNumbers DEF Astray
      <3>2. QED
        BY <2>1, <3>1 DEF Position, InStep
    <2>7. QED
      BY <2>5, <2>6
  <1>2. CASE CallSend
    BY <1>2, PositionCall
  <1>3. CASE TurnSwitch \/ UNCHANGED bvars
    <2>1. UNCHANGED <<cs, recv_command, data_len_reg, recv_cnt, gap, pkt, pos, step>>
      BY <1>3 DEF TurnSwitch, bvars, vars
    <2>2. Astray' = Astray /\ Written' = Written
      BY <2>1 DEF Astray, Written
    <2>3. QED
      BY <2>1, <2>2 DEF Position, InStep, SwallowAt
  <1>4. CASE LinkStep /\ Astray
    BY <1>4, AstrayWrite, AstrayIdle DEF LinkStep
  <1>5. CASE LinkStep /\ ~Astray
    <2>1. step' = step /\ step # BootLen /\ InStep
      BY <1>5 DEF LinkStep, Astray, Position
    <2>2. Fits
      BY <2>1, BootFits
    <2>3. InStep'
      BY <1>5, <2>1, <2>2, InStepWrite, InStepIdle DEF LinkStep
    <2>4. ~Astray'
      BY <1>5, <2>1 DEF LinkStep, WriteWord, IdleClock, Astray
    <2>5. QED
      BY <2>3, <2>4 DEF Position
  <1>6. QED
    BY <1>1, <1>2, <1>3, <1>4, <1>5 DEF BootNext

(* A register takes the same value from the same word twice. *)
Kept(c) == Latch(c, ResetValue[c], SysPara[c].data)

LEMMA LatchTwice ==
    ASSUME NEW c \in RegCmds, NEW old \in {ResetValue[c], Kept(c)}
    PROVE  Latch(c, old, SysPara[c].data) = Kept(c)
  <1>1. CASE c \in EnableCmds
    BY <1>1 DEF Latch, Kept
  <1>2. CASE c \notin EnableCmds /\ c = MOTOR_SPEED
    BY <1>2 DEF Latch, Kept
  <1>3. CASE c \notin EnableCmds /\ c # MOTOR_SPEED
    BY <1>3 DEF Latch, Kept
  <1>4. QED
    BY <1>1, <1>2, <1>3

(* A parameter whose word has been written is in its register. *)
Held ==
    /\ \A c \in RegCmds : reg[c] \in {ResetValue[c], Kept(c)}
    /\ \A i \in 1..Len(Params) :
          4 + i < step \/ (4 + i = step /\ (pkt = NoPacket \/ pos > 2)) =>
              reg[Params[i]] = Kept(Params[i])

LEMMA HeldStep ==
    ASSUME BootType, Position, Held, [BootNext]_bvars
    PROVE  Held'
  <1>0. step \in Nat /\ Len(Params) \in Nat /\ \A i \in 1..Len(Params) : Params[i] \in RegCmds
    BY BootNumbers, CallTypes DEF BootType
  <1>1. CASE SampleSwitch
    <2>1. /\ reg' = reg /\ pkt' = pkt /\ pkt = NoPacket /\ step' = step + 1
          /\ step < Len(Program) /\ Program[step + 1] = Sample
      BY <1>1 DEF SampleSwitch, vars
    <2>2. PICK n \in 1..Len(Program) : n = step + 1
      BY <1>0, <2>1, BootNumbers
    <2>3. \A i \in 1..Len(Params) : 4 + i # step + 1
      BY <2>1, <2>2, SampleItem
    <2>4. ASSUME NEW i \in 1..Len(Params), 4 + i < step + 1 \/ 4 + i = step + 1
          PROVE  reg[Params[i]] = Kept(Params[i])
      <3>1. 4 + i < step \/ 4 + i = step
        BY <1>0, <2>3, <2>4
      <3>2. QED
        BY <2>1, <3>1 DEF Held
    <2>5. QED
      BY <2>1, <2>4 DEF Held
  <1>2. CASE CallSend
    <2>1. reg' = reg /\ pkt = NoPacket /\ step' = step + 1 /\ pos' = 0
      BY <1>2 DEF CallSend, BeginPacket, fpga
    <2>2. pkt' # NoPacket
      BY <1>2, CallBegins
    <2>3. ASSUME NEW i \in 1..Len(Params), 4 + i < step + 1
          PROVE  reg[Params[i]] = Kept(Params[i])
      <3>1. 4 + i < step \/ 4 + i = step
        BY <1>0, <2>3
      <3>2. QED
        BY <2>1, <3>1 DEF Held
    <2>4. QED
      BY <2>1, <2>2, <2>3 DEF Held
  <1>3. CASE TurnSwitch \/ UNCHANGED bvars
    <2>1. reg' = reg /\ pkt' = pkt /\ pos' = pos /\ step' = step
      BY <1>3 DEF TurnSwitch, bvars, vars
    <2>2. QED
      BY <2>1 DEF Held
  <1>4. CASE LinkStep /\ Astray
    <2>1. reg' = reg /\ step' = step
      BY <1>4, AstrayWrite, AstrayIdle DEF LinkStep
    <2>2. \A i \in 1..Len(Params) : 4 + i < step
      BY <1>4, BootNumbers DEF Astray
    <2>3. QED
      BY <2>1, <2>2 DEF Held
  <1>5. CASE LinkStep /\ ~Astray /\ IdleClock
    <2>1. step' = step /\ pkt' = pkt /\ pos' = pos /\ step # BootLen /\ InStep
      BY <1>5 DEF LinkStep, IdleClock, Astray, Position
    <2>2. reg' = reg
      BY <1>5, <2>1, BootFits, StoreAtIdle
    <2>3. QED
      BY <2>1, <2>2 DEF Held
  <1>6. CASE LinkStep /\ ~Astray /\ WriteWord
    <2>1. step' = step /\ pkt # NoPacket /\ step # BootLen /\ InStep /\ Fits
      BY <1>6, BootFits DEF LinkStep, WriteWord, Astray, Position
    <2>2. PICK c \in Cmds : c = pkt.cmd /\ FromEeprom(pkt, c)
      BY <2>1, BootPacket, Zenon
    <2>3. PICK l \in Nat \ {0} : l = Sent[c] /\ LastPos(pkt) = l + 2 /\ pos \in 0..(l + 2)
                                 /\ (c \in RegCmds => l = 1)
      BY <2>1, <2>2 DEF Fits, LastPos
    <2>4. /\ pos = l + 2 => pkt' = NoPacket
          /\ pos # l + 2 => pkt' = pkt /\ pos' = pos + 1
      BY <1>6, <2>3 DEF WriteWord
    <2>5. \A i \in 1..Len(Params) : 4 + i = step => Params[i] = c
      <3>1. PICK n \in 1..Len(Program) : n = step /\ Program[n].op = "send" /\ c = Program[n].cmd
        BY <2>1, <2>2, BootPacket, Zenon
      <3>2. \A i \in 1..Len(Params) : n = 4 + i => c = Params[i]
        BY <3>1, SendItem, Zenon
      <3>3. QED
        BY <3>1, <3>2
    <2>6. CASE c \in RegCmds /\ pos = 2
      <3>1. reg' = [reg EXCEPT ![c] = Latch(c, reg[c], pkt.data[0].data)]
        <4>1. pos \in 2..(LastPos(pkt) - 1) /\ pos - 2 = 0
          BY <2>3, <2>6
        <4>2. QED
          BY <1>6, <2>1, <2>2, <2>6, <4>1, RegWrite
      <3>2. pkt.data[0] = SysPara[c]
        BY <2>2, <2>6 DEF FromEeprom
      <3>3. Latch(c, reg[c], SysPara[c].data) = Kept(c)
        BY <2>6, LatchTwice DEF Held
      <3>4. reg' = [reg EXCEPT ![c] = Kept(c)]
        BY <3>1, <3>2, <3>3
      <3>5. reg'[c] = Kept(c) /\ \A d \in RegCmds : d # c => reg'[d] = reg[d]
        BY <2>6, <3>4 DEF BootType, FpgaTypeOK
      <3>6. \A d \in RegCmds : reg'[d] \in {ResetValue[d], Kept(d)}
        BY <3>5 DEF Held
      <3>7. ASSUME NEW i \in 1..Len(Params), 4 + i < step \/ 4 + i = step
            PROVE  reg'[Params[i]] = Kept(Params[i])
        <4>1. CASE 4 + i = step
          BY <2>5, <3>5, <4>1
        <4>2. CASE 4 + i < step
          <5>1. reg[Params[i]] = Kept(Params[i])
            BY <4>2 DEF Held
          <5>2. QED
            BY <1>0, <3>5, <5>1
        <4>3. QED
          BY <3>7, <4>1, <4>2
      <3>8. QED
        BY <2>1, <3>6, <3>7 DEF Held
    <2>7. CASE ~(c \in RegCmds /\ pos = 2)
      <3>1. reg' = reg
        <4>1. ~(pos \in 2..(LastPos(pkt) - 1) /\ pkt.cmd \in RegCmds)
          BY <2>2, <2>3, <2>7
        <4>2. QED
          BY <1>6, <2>1, <4>1, RegWrite
      <3>2. ASSUME NEW i \in 1..Len(Params), 4 + i = step, pkt' = NoPacket \/ pos' > 2
            PROVE  reg[Params[i]] = Kept(Params[i])
        <4>1. c \in RegCmds
          BY <1>0, <2>5, <3>2
        <4>2. l = 1 /\ pos \in 0..3 /\ pos # 2
          BY <2>3, <2>7, <4>1
        <4>3. pos > 2
          BY <2>1, <2>4, <3>2, <4>2
        <4>4. QED
          BY <3>2, <4>3 DEF Held
      <3>3. QED
        BY <2>1, <3>1, <3>2 DEF Held
    <2>8. QED
      BY <2>6, <2>7
  <1>7. QED
    BY <1>1, <1>2, <1>3, <1>4, <1>5, <1>6 DEF BootNext, LinkStep

(* From the second reload on: what has been written of the group is in the  *)
(* RAMs.  Layer is the layer of the present reload that was called last.    *)
Layer == (step - BootLen - 1) % 4

Filled ==
    step > BootLen + 4 =>
        \A m \in 1..Layer : \A i \in 0..(Sent[Layers[m]] - 1) :
            m < Layer \/ pkt = NoPacket \/ i < pos - 2 =>
                Settled[Layers[m]][i] = Rom[value][Layers[m]][i].data

LEMMA LayerType ==
    ASSUME step \in Nat
    PROVE  Layer \in 0..3
  BY BootNumbers DEF Layer

LEMMA FilledWrite ==
    ASSUME BootType, Position, Filled, WriteWord, step' = step, value' = value
    PROVE  Filled'
  <1>1. SUFFICES ASSUME step > BootLen + 4
                 PROVE  Filled'
    BY DEF Filled
  <1>2. step \in Nat /\ BootLen \in Nat /\ step # BootLen /\ ~Astray
    BY <1>1, BootNumbers DEF BootType, Astray
  <1>3. pkt # NoPacket /\ Fits /\ InStep /\ FpgaTypeOK
    BY <1>2, BootFits DEF WriteWord, Position, BootType
  <1>4. PICK k \in 0..3 : k = Layer
    BY <1>2, LayerType
  <1>5. PICK c \in Regions : c = pkt.cmd /\ FromEeprom(pkt, c) /\ k \in 1..3 /\ c = Layers[k]
    <2>1. PICK n \in 1..Len(Program) : n = step /\ Program[n].op = "send" /\ pkt.cmd = Program[n].cmd
      BY <1>3, BootPacket, Zenon
    <2>2. n > BootLen
      BY <1>1, <1>2, <2>1
    <2>3. (n - BootLen - 1) % 4 \in 1..3 /\ pkt.cmd = Layers[(n - BootLen - 1) % 4]
      BY <2>1, <2>2, SendItem, Zenon
    <2>4. (n - BootLen - 1) % 4 = k
      BY <1>4, <2>1 DEF Layer
    <2>5. k \in 1..3 /\ pkt.cmd = Layers[k] /\ Layers[k] \in Regions
      BY <2>3, <2>4, CallTypes, Zenon
    <2>6. FromEeprom(pkt, pkt.cmd)
      BY <1>3, BootPacket, Zenon
    <2>7. QED
      BY <2>5, <2>6, Zenon
  <1>6. PICK l \in Nat \ {0} : l = Sent[c] /\ LastPos(pkt) = l + 2 /\ pos \in 0..(l + 2)
    BY <1>3, <1>5 DEF Fits, LastPos
  <1>7. /\ pos = l + 2 => pkt' = NoPacket
        /\ pos # l + 2 => pkt' = pkt /\ pos' = pos + 1
    BY <1>6 DEF WriteWord
  <1>8. pkt.data = Rom[value][c]
    BY <1>5 DEF FromEeprom
  <1>9. Layer' = k
    BY <1>4 DEF Layer
  <1>10. ASSUME NEW m \in 1..k, NEW i \in 0..(Sent[Layers[m]] - 1),
                m < k \/ pkt' = NoPacket \/ i < pos' - 2
         PROVE  Settled'[Layers[m]][i] = Rom[value][Layers[m]][i].data
    <2>1. PICK r \in Regions : r = Layers[m]
      BY <1>5, CallTypes
    <2>2. i \in 0..(Sent[r] - 1) /\ i \in Nat
      BY <2>1
    <2>3. m < k \/ i < pos - 2 \/ pkt = NoPacket => Settled[r][i] = Rom[value][r][i].data
      BY <1>1, <1>4, <2>1 DEF Filled
    <2>4. CASE pos \in 2..(LastPos(pkt) - 1)
      <3>1. /\ pos - 2 \in Addr
            /\ Settled' = [Settled EXCEPT ![c][pos - 2] = Rom[value][c][pos - 2].data]
        BY <1>3, <1>5, <1>8, <2>4, SettledWrite
      <3>2. Settled \in [Regions -> [Addr -> Nat]]
        <4>1. WrAddr \in Addr
          BY <1>3, WrAddrType, SizeAssumption DEF FpgaTypeOK
        <4>2. CASE region_wren = NoRegion
          BY <1>3, <4>2 DEF FpgaTypeOK, Settled
        <4>3. CASE region_wren # NoRegion
          <5>1. region_wren \in Regions /\ region_wrdata \in Nat /\ ram \in [Regions -> [Addr -> Nat]]
            BY <1>3, <4>3 DEF FpgaTypeOK
          <5>2. Settled = [ram EXCEPT ![region_wren][WrAddr] = region_wrdata]
            BY <4>3 DEF Settled
          <5>3. QED
            BY <4>1, <5>1, <5>2
        <4>4. QED
          BY <4>2, <4>3
      <3>3. i \in Addr
        <4>1. Sent[r] <= RamSize /\ Sent[r] \in Nat /\ RamSize \in Nat
          BY <2>1, BootAssumption, BootNumbers, LinkAssumption DEF Cmds
        <4>2. QED
          BY <2>2, <4>1 DEF Addr
      <3>4. CASE r = c /\ i = pos - 2
        BY <2>1, <3>1, <3>2, <3>4
      <3>5. CASE ~(r = c /\ i = pos - 2)
        <4>1. Settled'[r][i] = Settled[r][i]
          BY <3>1, <3>2, <3>3, <3>5
        <4>2. m < k \/ i < pos - 2
          <5>1. pkt' = pkt /\ pos' = pos + 1
            BY <1>6, <1>7, <2>4
          <5>2. m < k \/ i < pos - 1
            BY <1>3, <1>6, <1>10, <5>1
          <5>3. m = k => r = c
            BY <1>5, <2>1
          <5>4. QED
            BY <1>6, <2>2, <3>5, <5>2, <5>3
        <4>3. QED
          BY <2>1, <2>3, <4>1, <4>2
      <3>6. QED
        BY <3>4, <3>5
    <2>5. CASE ~(pos \in 2..(LastPos(pkt) - 1))
      <3>1. Settled' = Settled
        BY <1>3, <2>5, SettledWrite
      <3>2. m < k \/ i < pos - 2
        <4>1. CASE m < k
          BY <4>1
        <4>2. CASE m = k /\ pos = l + 2
          BY <1>5, <1>6, <2>1, <2>2, <4>2
        <4>3. CASE m = k /\ pos # l + 2
          <5>1. pos \in 0..1 /\ pkt' = pkt /\ pos' = pos + 1
            BY <1>6, <1>7, <2>5, <4>3
          <5>2. QED
            BY <1>3, <1>10, <2>2, <4>3, <5>1
        <4>4. QED
          BY <4>1, <4>2, <4>3
      <3>3. QED
        BY <2>1, <2>3, <3>1, <3>2
    <2>6. QED
      BY <2>4, <2>5
  <1>11. QED
    BY <1>9, <1>10 DEF Filled

LEMMA FilledStep ==
    ASSUME BootType, Position, Filled, [BootNext]_bvars
    PROVE  Filled'
  <1>0. step \in Nat /\ BootLen \in Nat
    BY BootNumbers DEF BootType
  <1>1. CASE SampleSwitch
    <2>1. step' = step + 1 /\ step < Len(Program) /\ Program[step + 1] = Sample
      BY <1>1 DEF SampleSwitch
    <2>2. PICK n \in 1..Len(Program) : n = step + 1
      BY <1>0, <2>1, BootNumbers
    <2>3. n > BootLen => (n - BootLen - 1) % 4 = 0
      BY <2>1, <2>2, SampleItem
    <2>4. step' > BootLen + 4 => Layer' = 0
      BY <1>0, <2>1, <2>2, <2>3 DEF Layer
    <2>5. QED
      BY <2>4 DEF Filled
  <1>2. CASE CallSend
    <2>1. /\ UNCHANGED <<recv_cnt, region_wren, region_wrdata, ram, value>>
          /\ step' = step + 1 /\ pos' = 0 /\ pkt = NoPacket
          /\ step < Len(Program) /\ Program[step + 1].op = "send"
      BY <1>2 DEF CallSend, BeginPacket, fpga
    <2>2. pkt' # NoPacket
      BY <1>2, CallBegins
    <2>3. Settled' = Settled
      BY <2>1 DEF Settled, WrAddr
    <2>4. SUFFICES ASSUME step + 1 > BootLen + 4
                   PROVE  Filled'
      BY <2>1 DEF Filled
    <2>5. PICK n \in 1..Len(Program) : n = step + 1
      BY <1>0, <2>1, BootNumbers
    <2>6. (n - BootLen - 1) % 4 \in 1..3
      <3>1. n > BootLen
        BY <1>0, <2>4, <2>5
      <3>2. QED
        BY <2>1, <2>5, <3>1, SendItem
    <2>7. PICK k \in 0..3 : k = Layer
      BY <1>0, LayerType
    <2>8. Layer' = k + 1 /\ step > BootLen + 4
      <3>1. PICK j \in Nat : step = BootLen + 4 + j
        BY <1>0, <2>4
      <3>2. n - BootLen - 1 = j + 4 /\ step - BootLen - 1 = j + 3
        BY <1>0, <2>5, <3>1
      <3>3. (j + 4) % 4 \in 1..3 /\ k = (j + 3) % 4
        BY <2>6, <2>7, <3>2 DEF Layer
      <3>4. (j + 4) % 4 = k + 1 /\ j # 0
        BY <3>3
      <3>5. QED
        BY <1>0, <2>1, <2>5, <3>1, <3>2, <3>4 DEF Layer
    <2>9. \A m \in 1..k : \A i \in 0..(Sent[Layers[m]] - 1) :
             Settled[Layers[m]][i] = Rom[value][Layers[m]][i].data
      BY <2>1, <2>7, <2>8 DEF Filled
    <2>10. ASSUME NEW m \in 1..(k + 1), NEW i \in 0..(Sent[Layers[m]] - 1),
                  m < k + 1 \/ i < 0 - 2
           PROVE  Settled[Layers[m]][i] = Rom[value][Layers[m]][i].data
      <3>1. m \in 1..k
        BY <2>10
      <3>2. QED
        BY <2>9, <3>1
    <2>11. QED
      BY <2>1, <2>2, <2>3, <2>8, <2>10 DEF Filled
  <1>3. CASE TurnSwitch \/ UNCHANGED bvars
    <2>1. UNCHANGED <<recv_cnt, region_wren, region_wrdata, ram, value, pkt, pos, step>>
      BY <1>3 DEF TurnSwitch, bvars, vars
    <2>2. Settled' = Settled /\ Layer' = Layer
      BY <2>1 DEF Settled, WrAddr, Layer
    <2>3. QED
      BY <2>1, <2>2 DEF Filled
  <1>4. CASE LinkStep /\ WriteWord
    BY <1>4, FilledWrite DEF LinkStep
  <1>5. CASE LinkStep /\ IdleClock
    <2>1. SUFFICES ASSUME step > BootLen + 4
                   PROVE  Filled'
      BY <1>5 DEF Filled, LinkStep
    <2>2. step # BootLen /\ ~Astray /\ UNCHANGED <<value, pkt, pos, step>>
      BY <1>0, <1>5, <2>1 DEF Astray, LinkStep, IdleClock
    <2>3. Settled' = Settled
      BY <1>5, <2>2, BootFits, SettledIdle DEF Position, BootType
    <2>4. Layer' = Layer
      BY <2>2 DEF Layer
    <2>5. QED
      BY <2>2, <2>3, <2>4 DEF Filled
  <1>6. QED
    BY <1>1, <1>2, <1>3, <1>4, <1>5 DEF BootNext, LinkStep

BootInv == BootType /\ Position /\ Held /\ Filled

LEMMA BootInvInit ==
    ASSUME BootInit
    PROVE  BootInv
  <1>1. TypeOK /\ pkt = NoPacket /\ pos = 0 /\ step = 0 /\ cs = "IDLE" /\ reg = ResetValue
        /\ io \in Groups /\ value = io
    BY InitType DEF BootInit, Init, FpgaInit
  <1>2. FpgaTypeOK /\ gap \in 0..MinGap
    BY <1>1 DEF TypeOK
  <1>3. BootType
    BY <1>1, <1>2, BootNumbers DEF BootType
  <1>4. ~Astray
    BY <1>1, BootNumbers DEF Astray
  <1>5. Position
    BY <1>1, <1>4 DEF Position, InStep
  <1>6. Held
    BY <1>1, BootNumbers DEF Held
  <1>7. Filled
    BY <1>1, BootNumbers DEF Filled
  <1>8. QED
    BY <1>3, <1>5, <1>6, <1>7 DEF BootInv

LEMMA BootInvStep ==
    ASSUME BootInv, [BootNext]_bvars
    PROVE  BootInv'
  BY BootTypeStep, PositionStep, HeldStep, FilledStep DEF BootInv

(* Resynchronised: whatever the EEPROM holds and however long the packets    *)
(* are, the announcement of write_laser_presdo costs the link one region    *)
(* packet and not more.                                                     *)
THEOREM LinkResynchronises == BootSpec => []Resynchronised
  <1>1. BootInv => Resynchronised
    <2>1. SUFFICES ASSUME BootInv, step > BootLen + 2
                   PROVE  InStep
      BY DEF Resynchronised
    <2>2. ~Astray
      BY <2>1, BootNumbers DEF Astray, BootInv, BootType
    <2>3. QED
      BY <2>1, <2>2 DEF BootInv, Position
  <1>2. QED
    BY <1>1, BootInvInit, BootInvStep, PTL DEF BootSpec

(* ParametersHeld: once init_fpga_sys has sent them, the parameters are in  *)
(* the registers, and neither the packet whose words the FSM swallows nor   *)
(* any reload after it disturbs them.                                       *)
THEOREM ParametersStay == BootSpec => []ParametersHeld
  <1>1. BootInv => ParametersHeld
    <2>1. SUFFICES ASSUME BootInv, step > BootLen - 1, NEW i \in DOMAIN Params
                   PROVE  reg[Params[i]] = Latch(Params[i], ResetValue[Params[i]], SysPara[Params[i]].data)
      BY DEF ParametersHeld
    <2>2. i \in 1..Len(Params)
      BY CallTypes
    <2>3. 4 + i < step
      BY <2>1, <2>2, BootNumbers DEF BootInv, BootType
    <2>4. QED
      BY <2>1, <2>2, <2>3 DEF BootInv, Held, Kept
  <1>2. QED
    BY <1>1, BootInvInit, BootInvStep, PTL DEF BootSpec

(* LaterReloadsLoaded: at the end of every reload but the first, all three  *)
(* RAMs hold the group that the firmware read the switch for.               *)
THEOREM ReloadsLoad == BootSpec => []LaterReloadsLoaded
  <1>1. BootInv => LaterReloadsLoaded
    <2>1. SUFFICES ASSUME BootInv, NEW k \in 2..Reloads, step = EndOfReload(k), Quiet
                   PROVE  Loaded
      BY DEF LaterReloadsLoaded
    <2>2. step = BootLen + 4 * k /\ BootLen \in Nat /\ k \in Nat /\ k >= 2
      BY <2>1, ProgramShape, BootNumbers DEF EndOfReload
    <2>3. step > BootLen + 4 /\ Layer = 3
      BY <2>2 DEF Layer
    <2>4. pkt = NoPacket /\ Settled = ram
      BY <2>1 DEF Quiet, Settled
    <2>5. \A m \in 1..3 : \A i \in 0..(Sent[Layers[m]] - 1) :
             ram[Layers[m]][i] = Rom[value][Layers[m]][i].data
      BY <2>1, <2>3, <2>4 DEF BootInv, Filled
    <2>6. ASSUME NEW r \in Regions, NEW i \in DOMAIN Rom[value][r]
          PROVE  ram[r][i] = Rom[value][r][i].data
      <3>1. PICK m \in 1..3 : r = Layers[m]
        BY BootAssumption
      <3>2. value \in Groups
        BY <2>1 DEF BootInv, BootType
      <3>3. i \in 0..(Sent[r] - 1)
        BY <2>6, <3>2, BootAssumption
      <3>4. QED
        BY <2>5, <3>1, <3>3
    <2>7. QED
      BY <2>6 DEF Loaded
  <1>2. QED
    BY <1>1, BootInvInit, BootInvStep, PTL DEF BootSpec

=============================================================================
