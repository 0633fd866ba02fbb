--------------------------- MODULE PcProtocolProof ---------------------------
(***************************************************************************)
(* The parameters and regions survive whatever the PC sends and wherever   *)
(* the power fails, for every set of layers, every factory image that went *)
(* through the checks of pc2dev_parse, and any number of changes, power    *)
(* failures and watchdog resets.  The tables of parameters and the layout  *)
(* of the EEPROM are those of the code: what the proofs need of them is    *)
(* proved from their definitions.                                          *)
(***************************************************************************)
EXTENDS PcProtocol, TLAPS

ST == INSTANCE SequenceTheorems
WF == INSTANCE WellFoundedInduction

-----------------------------------------------------------------------------
(* The tables *)

(* What pc2dev_parse checks of the parameters that others overwrite. *)
LEMMA RangeTable ==
    /\ "laser_enable" \in Param /\ Range["laser_enable"] = {ENABLE, DISABLE}
    /\ "motor_enable" \in Param /\ ENABLE \in Range["motor_enable"]
    /\ "dust_threshold" \in Param /\ 400 \in Range["dust_threshold"]
    /\ "laser_presdo_tail" \in Param /\ Range["laser_presdo_tail"] = Int
    /\ Range["laser_presdo"] = Int
    /\ "apd_vol_base" \in Param /\ Range["apd_vol_base"] = Int
    /\ "signal_thresold" \in Param
    /\ Range["signal_thresold"] = (0..1024) \cup {v \in Nat : (v \div Bit15) % 2 = 1}
  <1>1. /\ RangesDrive["laser_enable"] = {ENABLE, DISABLE}
        /\ RangesDrive["motor_enable"] = {ENABLE, DISABLE}
        /\ RangesDrive["dust_threshold"] = Int
        /\ RangesDrive["laser_presdo_tail"] = Int /\ RangesDrive["laser_presdo"] = Int
        /\ {"laser_enable", "motor_enable", "dust_threshold", "laser_presdo_tail",
            "laser_presdo"} \subseteq DOMAIN RangesDrive
        /\ {"apd_vol_base", "signal_thresold"} \cap DOMAIN RangesDrive = {}
    BY DEF RangesDrive
  <1>2. /\ RangesSignal["apd_vol_base"] = Int
        /\ RangesSignal["signal_thresold"] = (0..1024) \cup {v \in Nat : (v \div Bit15) % 2 = 1}
        /\ {"apd_vol_base", "signal_thresold"} \subseteq DOMAIN RangesSignal
    BY DEF RangesSignal
  <1>3. QED
    BY <1>1, <1>2 DEF Range, Param

LEMMA FabricTable ==
    /\ Listed \subseteq Forwarded /\ Channels \subseteq Listed
    /\ {"laser_presdo", "laser_presdo_tail"} \cap Forwarded = {}
    /\ DOMAIN ResetValue = Forwarded
  BY DEF Listed, Forwarded, Channels, ResetValue

LEMMA ForwardedParam == Forwarded \subseteq Param
  <1>1. DOMAIN ResetValue \subseteq DOMAIN RangesDrive \cup DOMAIN RangesSignal \cup DOMAIN RangesOutput
    BY DEF ResetValue, RangesDrive, RangesSignal, RangesOutput
  <1>2. QED
    BY <1>1 DEF Forwarded, Range, Param

LEMMA PageTable ==
    /\ {"laser_enable", "motor_enable"} \cap Second = {} /\ "apd_vol_base" \notin Second
    /\ Second \subseteq Param
  <1>1. Second \subseteq DOMAIN RangesDrive \cup DOMAIN RangesSignal \cup DOMAIN RangesOutput
    BY DEF Second, RangesDrive, RangesSignal, RangesOutput
  <1>2. QED
    BY <1>1 DEF Range, Param, Second

-----------------------------------------------------------------------------
(* The layout of the EEPROM *)

(* Where the i-th burst of an area lies, and how long it is. *)
Bounds(a) == IF a = Para THEN 2 ELSE 8
At(a, i) ==
    IF a = Para THEN 1024 + 256 * (i - 1)
    ELSE 4096 + 2048 * a + (IF i = 8 THEN 1622 ELSE 256 * (i - 1))
Length(a, i) ==
    IF a = Para THEN IF i = 1 THEN 256 ELSE 52
    ELSE IF i = 8 THEN 103 ELSE IF i = 7 THEN 86 ELSE 256

LEMMA DeviceHalf ==
    ASSUME NEW base \in Nat, NEW addr \in Nat,
           base < 131072, addr < 131072, base >= 65536 <=> addr >= 65536
    PROVE  Device(base, addr) = addr
  <1>1. CASE base < 65536
    <2>1. base \div 65536 = 0 /\ addr % 65536 = addr
      BY <1>1
    <2>2. QED
      BY <2>1 DEF Device
  <1>2. CASE base >= 65536
    <2>1. base \div 65536 = 1 /\ addr % 65536 = addr - 65536
      BY <1>2
    <2>2. QED
      BY <2>1 DEF Device
  <1>3. QED
    BY <1>1, <1>2

(* save_sys_para writes two bursts. *)
LEMMA ParaLayout ==
    /\ Len(ParaBursts) = 2 /\ DOMAIN ParaBursts = 1..2
    /\ \A i \in 1..2 : ParaBursts[i] = [at |-> At(Para, i), len |-> Length(Para, i)]
  <1>1. ParaBursts = [i \in 1..2 |-> Burst(1024, 1024 + (i - 1) * 256, IF i <= 1 THEN 256 ELSE 52)]
    BY DEF ParaBursts, Bursts, SYS_PARA_ADDR, SizeofSysPara, EEPROM_PAGE_SIZE
  <1>2. \A i \in 1..2 : Device(1024, 1024 + (i - 1) * 256) = 1024 + 256 * (i - 1)
    BY DEF Device
  <1>3. QED
    BY <1>1, <1>2 DEF Burst, At, Length

LEMMA SevenAndOne ==
    ASSUME NEW S, NEW s \in Seq(S), NEW t \in Seq(S), Len(s) = 7, Len(t) = 1
    PROVE  /\ Len(s \o t) = 8 /\ DOMAIN (s \o t) = 1..8
           /\ \A i \in 1..7 : (s \o t)[i] = s[i]
           /\ (s \o t)[8] = t[1]
  <1>1. PICK u : u = s \o t
    OBVIOUS
  <1>2. /\ u \in Seq(S) /\ Len(u) = Len(s) + Len(t)
        /\ \A i \in 1..(Len(s) + Len(t)) : u[i] = IF i <= Len(s) THEN s[i] ELSE t[i - Len(s)]
    BY <1>1, ST!ConcatProperties, Zenon
  <1>3. /\ Len(u) = 8 /\ DOMAIN u = 1..8
        /\ (\A i \in 1..7 : u[i] = s[i]) /\ u[8] = t[1]
    BY <1>2
  <1>4. QED
    BY <1>1, <1>3, Zenon

(* region_save2eeprom writes seven bursts of points and one of corners. *)
LEMMA LayerLayout ==
    ASSUME NEW k \in 0..47
    PROVE  /\ Len(LayerBursts(k)) = 8 /\ DOMAIN LayerBursts(k) = 1..8
           /\ \A i \in 1..8 : LayerBursts(k)[i] = [at |-> At(k, i), len |-> Length(k, i)]
  <1> DEFINE L == 4096 + 2048 * k
  <1>0. PICK S : S = {[at |-> At(k, i), len |-> Length(k, i)] : i \in 1..8}
    OBVIOUS
  <1>1. PICK P : P = [i \in 1..7 |-> Burst(L, L + (i - 1) * 256, IF i <= 6 THEN 256 ELSE 86)]
    OBVIOUS
  <1>2. PICK C : C = [i \in 1..1 |-> Burst(L + 1622, L + 1622 + (i - 1) * 256, 103)]
    OBVIOUS
  <1>3. Bursts(LayerAddr(k), TARGET_NUMBER * 2) = P
    BY <1>1 DEF Bursts, LayerAddr, GROUP_OFFSET_ADDR, REGION_SPACE_SIZE, TARGET_NUMBER,
                EEPROM_PAGE_SIZE
  <1>4. Bursts(LayerAddr(k) + TARGET_NUMBER * 2, ZENITH_NUMBER) = C
    BY <1>2 DEF Bursts, LayerAddr, GROUP_OFFSET_ADDR, REGION_SPACE_SIZE, TARGET_NUMBER,
                ZENITH_NUMBER, EEPROM_PAGE_SIZE
  <1>5. ASSUME NEW i \in 1..7
        PROVE  P[i] = [at |-> At(k, i), len |-> Length(k, i)]
    <2>1. /\ L \in Nat /\ L + (i - 1) * 256 \in Nat /\ L + (i - 1) * 256 < 131072 /\ L < 131072
          /\ L >= 65536 <=> L + (i - 1) * 256 >= 65536
      <3>1. k <= 29 \/ k >= 30
        OBVIOUS
      <3>2. QED
        BY <3>1
    <2>2. Device(L, L + (i - 1) * 256) = L + (i - 1) * 256
      BY <2>1, DeviceHalf
    <2>3. P[i] = [at |-> L + (i - 1) * 256, len |-> IF i <= 6 THEN 256 ELSE 86]
      BY <1>1, <2>2 DEF Burst
    <2>4. QED
      BY <2>3 DEF At, Length, Para
  <1>6. C[1] = [at |-> At(k, 8), len |-> Length(k, 8)]
    <2>1. Device(L + 1622, L + 1622) = L + 1622
      BY DeviceHalf
    <2>2. L + 1622 + (1 - 1) * 256 = L + 1622
      OBVIOUS
    <2>3. C[1] = [at |-> L + 1622, len |-> 103]
      BY <1>2, <2>1, <2>2 DEF Burst
    <2>4. QED
      BY <2>3 DEF At, Length, Para
  <1>7. P \in Seq(S) /\ Len(P) = 7 /\ C \in Seq(S) /\ Len(C) = 1
    <2>1. \A i \in 1..7 : P[i] \in S
      BY <1>0, <1>5
    <2>2. C[1] \in S
      BY <1>0, <1>6
    <2>3. DOMAIN P = 1..7 /\ DOMAIN C = 1..1
      BY <1>1, <1>2
    <2>4. P \in [1..7 -> S] /\ C \in [1..1 -> S]
      BY <1>1, <1>2, <2>1, <2>2
    <2>5. P \in Seq(S) /\ C \in Seq(S)
      BY <2>4, ST!SeqDef, Zenon
    <2>6. QED
      BY <2>3, <2>5
  <1>8. /\ Len(LayerBursts(k)) = 8 /\ DOMAIN LayerBursts(k) = 1..8
        /\ \A i \in 1..7 : LayerBursts(k)[i] = P[i]
        /\ LayerBursts(k)[8] = C[1]
    <2>1. LayerBursts(k) = P \o C
      BY <1>3, <1>4, Zenon DEF LayerBursts
    <2>2. PICK u : u = P \o C
      OBVIOUS
    <2>3. /\ Len(u) = 8 /\ DOMAIN u = 1..8
          /\ (\A i \in 1..7 : u[i] = P[i]) /\ u[8] = C[1]
      BY <1>7, <2>2, SevenAndOne, Zenon
    <2>4. LayerBursts(k) = u
      BY <2>1, <2>2, Zenon
    <2>5. QED
      BY <2>3, <2>4
  <1>9. ASSUME NEW i \in 1..8
        PROVE  LayerBursts(k)[i] = [at |-> At(k, i), len |-> Length(k, i)]
    <2>1. i \in 1..7 \/ i = 8
      OBVIOUS
    <2>2. QED
      BY <1>5, <1>6, <1>8, <2>1, Zenon
  <1>10. QED
    BY <1>8, <1>9, Zenon

LEMMA AreaLayout ==
    ASSUME NEW a \in Areas
    PROVE  /\ Len(AreaBursts[a]) = Bounds(a) /\ DOMAIN AreaBursts[a] = 1..Bounds(a)
           /\ \A i \in 1..Bounds(a) :
                 AreaBursts[a][i] = [at |-> At(a, i), len |-> Length(a, i)]
  <1>1. CASE a = Para
    BY <1>1, ParaLayout DEF AreaBursts, Bounds
  <1>2. CASE a # Para
    <2>1. a \in 0..47
      BY <1>2, LayoutAssumption DEF Areas
    <2>2. AreaBursts[a] = LayerBursts(a)
      BY <1>2 DEF AreaBursts
    <2>3. QED
      BY <1>2, <2>1, <2>2, LayerLayout DEF Bounds
  <1>3. QED
    BY <1>1, <1>2

GroupByte == WriteByte(CUR_ALARM_GROUP + 3)[1]

LEMMA GroupLayout == GroupByte = [at |-> 3, len |-> 1]
  <1>1. Device(3, 3) = 3
    BY DeviceHalf
  <1>2. QED
    BY <1>1 DEF GroupByte, WriteByte, CUR_ALARM_GROUP, Burst

LEMMA AreaNumbers ==
    ASSUME NEW a \in Areas
    PROVE  a = Para \/ a \in 0..47
  BY LayoutAssumption DEF Areas

(* The page of a burst. *)
LEMMA ParaPage ==
    ASSUME NEW i \in 1..2
    PROVE  At(Para, i) \in Nat /\ At(Para, i) \div 256 = 3 + i
  BY DEF At

LEMMA LayerPage ==
    ASSUME NEW k \in 0..47, NEW i \in 1..8
    PROVE  \E x \in 0..6 : /\ At(k, i) \in Nat /\ At(k, i) \div 256 = 16 + 8 * k + x
                           /\ i = x + 1 \/ (i = 8 /\ x = 6)
  <1>1. CASE i = 8
    <2>1. At(k, i) \in Nat /\ At(k, i) \div 256 = 16 + 8 * k + 6
      BY <1>1 DEF At, Para
    <2>2. QED
      BY <1>1, <2>1
  <1>2. CASE i # 8
    <2>1. At(k, i) \in Nat /\ At(k, i) \div 256 = 16 + 8 * k + (i - 1)
      BY <1>2 DEF At, Para
    <2>2. i - 1 \in 0..6
      BY <1>2
    <2>3. QED
      BY <2>1, <2>2
  <1>3. QED
    BY <1>1, <1>2

(* No two bursts have a byte in common: neither those of two areas nor two  *)
(* of the same area, although the points and the corners of a layer share   *)
(* a page.                                                                  *)
LEMMA Apart ==
    ASSUME NEW a \in Areas, NEW i \in 1..Bounds(a),
           NEW b \in Areas, NEW j \in 1..Bounds(b), a # b \/ i # j
    PROVE  /\ AreaBursts[a][i] # AreaBursts[b][j]
           /\ ~Meet(AreaBursts[a][i], AreaBursts[b][j])
  <1>1. AreaBursts[a][i] = [at |-> At(a, i), len |-> Length(a, i)]
    BY AreaLayout
  <1>2. AreaBursts[b][j] = [at |-> At(b, j), len |-> Length(b, j)]
    BY AreaLayout
  <1>3. CASE At(a, i) \div 256 # At(b, j) \div 256
    BY <1>1, <1>2, <1>3 DEF Meet, EEPROM_PAGE_SIZE
  <1>4. CASE At(a, i) \div 256 = At(b, j) \div 256
    <2>1. (a = Para \/ a \in 0..47) /\ (b = Para \/ b \in 0..47)
      BY AreaNumbers
    <2>2. CASE a = Para /\ b = Para
      BY <1>4, <2>2, ParaPage DEF Bounds
    <2>3. CASE a = Para /\ b \in 0..47
      <3>1. i \in 1..2 /\ j \in 1..8
        BY <2>3 DEF Bounds, Para
      <3>2. QED
        BY <1>4, <2>3, <3>1, ParaPage, LayerPage
    <2>4. CASE a \in 0..47 /\ b = Para
      <3>1. i \in 1..8 /\ j \in 1..2
        BY <2>4 DEF Bounds, Para
      <3>2. QED
        BY <1>4, <2>4, <3>1, ParaPage, LayerPage
    <2>5. CASE a \in 0..47 /\ b \in 0..47
      <3>1. i \in 1..8 /\ j \in 1..8
        BY <2>5 DEF Bounds, Para
      <3>2. PICK x \in 0..6 : /\ At(a, i) \div 256 = 16 + 8 * a + x
                              /\ i = x + 1 \/ (i = 8 /\ x = 6)
        BY <2>5, <3>1, LayerPage
      <3>3. PICK y \in 0..6 : /\ At(b, j) \div 256 = 16 + 8 * b + y
                              /\ j = y + 1 \/ (j = 8 /\ y = 6)
        BY <2>5, <3>1, LayerPage
      <3>4. 16 + 8 * a + x = 16 + 8 * b + y
        BY <1>4, <3>2, <3>3
      <3>5. a = b /\ x = y
        BY <2>5, <3>4
      <3>6. (i = 7 /\ j = 8) \/ (i = 8 /\ j = 7)
        BY <3>1, <3>2, <3>3, <3>5
      <3>7. At(a, 8) - At(a, 7) = 86 /\ At(a, 7) - At(a, 8) = 0 - 86
        BY <2>5 DEF At, Para
      <3>8. \A d \in Int : (d = 86 => d % 256 = 86) /\ (d = 0 - 86 => d % 256 = 170)
        OBVIOUS
      <3>9. (At(a, 8) - At(a, 7)) % 256 = 86 /\ (At(a, 7) - At(a, 8)) % 256 = 170
        BY <3>7, <3>8
      <3>10. Length(a, 7) = 86 /\ Length(a, 8) = 103
        BY <2>5 DEF Length, Para
      <3>11. QED
        BY <1>1, <1>2, <3>5, <3>6, <3>9, <3>10 DEF Meet, EEPROM_PAGE_SIZE
    <2>6. QED
      BY <2>1, <2>2, <2>3, <2>4, <2>5
  <1>5. QED
    BY <1>3, <1>4

(* The byte that says which layer was loaded last lies below them all. *)
LEMMA GroupApart ==
    ASSUME NEW a \in Areas, NEW i \in 1..Bounds(a)
    PROVE  AreaBursts[a][i] # GroupByte /\ ~Meet(AreaBursts[a][i], GroupByte)
  <1>1. At(a, i) \in Nat /\ At(a, i) >= 1024
    BY AreaNumbers DEF At, Bounds, Para
  <1>2. At(a, i) \div 256 # 3 \div 256
    BY <1>1
  <1>3. AreaBursts[a][i] = [at |-> At(a, i), len |-> Length(a, i)]
    BY AreaLayout
  <1>4. QED
    BY <1>1, <1>2, <1>3, GroupLayout DEF Meet, EEPROM_PAGE_SIZE

LEMMA AreaSlots ==
    /\ GroupByte \in Slots
    /\ \A a \in Areas : \A i \in 1..Bounds(a) : AreaBursts[a][i] \in Slots
  <1> DEFINE In(bs) == {bs[i] : i \in 1..Len(bs)}
  <1>1. /\ In(WriteByte(CUR_ALARM_GROUP + 3)) \subseteq Slots
        /\ In(ParaBursts) \subseteq Slots
        /\ \A k \in Layers : In(LayerBursts(k)) \subseteq Slots
    BY DEF Slots
  <1>2. GroupByte \in In(WriteByte(CUR_ALARM_GROUP + 3))
    BY DEF GroupByte, WriteByte
  <1>3. ASSUME NEW a \in Areas, NEW i \in 1..Bounds(a)
        PROVE  AreaBursts[a][i] \in Slots
    <2>1. AreaBursts[a][i] \in In(AreaBursts[a])
      BY AreaLayout
    <2> HIDE DEF In
    <2>2. AreaBursts[a] = ParaBursts \/ \E k \in Layers : AreaBursts[a] = LayerBursts(k)
      BY DEF AreaBursts, Areas
    <2>3. QED
      BY <1>1, <2>1, <2>2, Zenon
  <1>4. QED
    BY <1>1, <1>2, <1>3

(* What a burst of an area changes, and what it leaves alone: m before the  *)
(* burst, n after it.                                                       *)
WritesOnly(m, n, a, i, c) ==
    /\ DOMAIN n = Slots
    /\ n[AreaBursts[a][i]] = c
    /\ \A b \in Areas : \A j \in 1..Bounds(b) :
          a # b \/ i # j => n[AreaBursts[b][j]] = m[AreaBursts[b][j]]

LEMMA Written ==
    ASSUME NEW m, DOMAIN m = Slots, NEW c, NEW a \in Areas, NEW i \in 1..Bounds(a),
           NEW n, n = WriteBurst(m, AreaBursts[a][i], c)
    PROVE  WritesOnly(m, n, a, i, c)
  <1>1. DOMAIN n = Slots /\ n[AreaBursts[a][i]] = c
    BY AreaSlots DEF WriteBurst
  <1>2. ASSUME NEW b \in Areas, NEW j \in 1..Bounds(b), a # b \/ i # j
        PROVE  n[AreaBursts[b][j]] = m[AreaBursts[b][j]]
    <2>1. /\ AreaBursts[b][j] # AreaBursts[a][i] /\ ~Meet(AreaBursts[b][j], AreaBursts[a][i])
          /\ AreaBursts[b][j] \in Slots
      BY <1>2, Apart, AreaSlots
    <2>2. QED
      BY <2>1 DEF WriteBurst
  <1>3. QED
    BY <1>1, <1>2, Zenon DEF WritesOnly

LEMMA GroupWritten ==
    ASSUME NEW m, DOMAIN m = Slots, NEW c, NEW n, n = WriteBurst(m, GroupByte, c)
    PROVE  /\ DOMAIN n = Slots
           /\ \A b \in Areas : \A j \in 1..Bounds(b) :
                 n[AreaBursts[b][j]] = m[AreaBursts[b][j]]
  <1>1. ASSUME NEW b \in Areas, NEW j \in 1..Bounds(b)
        PROVE  n[AreaBursts[b][j]] = m[AreaBursts[b][j]]
    BY GroupApart, AreaSlots DEF WriteBurst
  <1>2. DOMAIN n = Slots
    BY DEF WriteBurst
  <1>3. QED
    BY <1>1, <1>2

-----------------------------------------------------------------------------
(* The inductive invariant *)

(* A value that pc2dev_parse lets pass as parameter p.  For the APD there   *)
(* is one command for two parameters, so that what is kept as apd_vol_base  *)
(* has bit 15 clear.                                                        *)
Fits(p, v) == v \in Range[p] /\ (p = "apd_vol_base" => Channel(v) = p)

PageParams(i) == IF i = 1 THEN Param \ Second ELSE Second

(* SysPara in the EEPROM, m, fits page by page, whichever save wrote which  *)
(* of the two pages.                                                        *)
PageFits(c, i) == \A p \in PageParams(i) : Fits(p, c[p])
PagesFit(m) == \A i \in 1..2 : PageFits(m[AreaBursts[Para][i]], i)

Packets ==
    Sets \cup OftenSets \cup Apds \cup Loads \cup Asks \cup Requests \cup AskedRequests
      \cup {<<"ask", Para, 0>>}

StateOK ==
    /\ ram = [p \in Param |-> ram[p]] /\ (\A p \in Param : Fits(p, ram[p]))
    /\ fpga = [p \in Forwarded |-> fpga[p]] /\ forced \subseteq DOMAIN AlarmWord
    /\ DOMAIN mem = Slots /\ DOMAIN kept = Areas
    /\ pc \in {"idle", "parse", "write", "runaway"}
    /\ buf \in Seq(Packets) /\ (pc \in {"parse", "write"} => buf # <<>>)

(* A save under way: its bursts go out in order, the area's last ones are   *)
(* those still to do, and the others already hold what they should.         *)
Todo(j, a, t) ==
    /\ a \in Areas /\ t \in 1..(Bounds(a) + 1)
    /\ j.area = a /\ DOMAIN j.image = 1..Bounds(a) /\ j.image = [i \in 1..Bounds(a) |-> j.image[i]]
    /\ DOMAIN j.todo = 1..t /\ Len(j.todo) = t
    /\ \A i \in 1..t :
          j.todo[i] = IF t - i < Bounds(a)
                      THEN <<AreaBursts[a][Bounds(a) - t + i], j.image[Bounds(a) - t + i]>>
                      ELSE <<GroupByte, 0>>
    /\ a = Para => \A i \in 1..2 : PageFits(j.image[i], i)

Done(m, j, a, t) == \A i \in 1..(Bounds(a) - t) : m[AreaBursts[a][i]] = j.image[i]

SaveOK ==
    pc = "write" => \E a \in Areas : \E t \in 1..(Bounds(a) + 1) :
                       Todo(job, a, t) /\ Done(mem, job, a, t) /\ kept[a] = <<>>

IInv == StateOK /\ PagesFit(mem) /\ SaveOK /\ InForce /\ SavedIntact

-----------------------------------------------------------------------------
(* Packets *)

LEMMA PacketShape ==
    ASSUME NEW p \in Packets
    PROVE  /\ p[1] = "set" => p[2] \in Param \ {"apd_vol_base", "laser_presdo_tail"}
           /\ p[1] = "apd" => p[2] \in Nat
           /\ p[1] = "load" => p[2] \in Layers
  <1>1. CASE p \in Sets
    BY <1>1 DEF Sets, SetPackets
  <1>2. CASE p \in OftenSets
    BY <1>2, LayoutAssumption DEF OftenSets
  <1>3. CASE p \in Apds
    BY <1>3, ParamAssumption, RangeTable DEF Apds
  <1>4. CASE p \in Loads
    BY <1>4 DEF Loads
  <1>5. CASE p \in Asks \cup {<<"ask", Para, 0>>}
    BY <1>5 DEF Asks
  <1>6. CASE p \in Requests \cup AskedRequests
    BY <1>6 DEF Requests, AskedRequests
  <1>7. QED
    BY <1>1, <1>2, <1>3, <1>4, <1>5, <1>6, Zenon DEF Packets

(* What one recv brings: a packet or two. *)
LEMMA BufferShape ==
    ASSUME NEW b \in Buffers
    PROVE  b \in Seq(Packets) /\ b # <<>>
  <1>1. CASE b \in CommonBuffers \cup Single(Asks) \cup FirstBuffers \cup ChangeBuffers
    <2>1. PICK p \in Packets : b = <<p>>
      BY <1>1 DEF CommonBuffers, FirstBuffers, ChangeBuffers, Single, Packets
    <2>2. QED
      BY <2>1
  <1>2. CASE b \in Pairs
    <2>1. PICK p \in Packets, q \in Packets : b = <<p, q>>
      BY <1>2 DEF Pairs, Packets
    <2>2. QED
      BY <2>1
  <1>3. QED
    BY <1>1, <1>2, Zenon DEF Buffers

(* The buffer after a packet. *)
LEMMA BufferStep ==
    ASSUME buf \in Seq(Packets), buf # <<>>, NextPacket
    PROVE  /\ buf' \in Seq(Packets) /\ pc' \in {"idle", "parse"}
           /\ pc' = "parse" => buf' # <<>>
  BY DEF NextPacket

LEMMA HeadPacket ==
    ASSUME buf \in Seq(Packets), buf # <<>>
    PROVE  Head(buf) \in Packets
  OBVIOUS

-----------------------------------------------------------------------------
(* The start *)

(* What read_sys_para takes fits, although it checks four bytes only, and   *)
(* although the two pages may come from different saves.                    *)
LEMMA ReadFits ==
    ASSUME NEW m, PagesFit(m)
    PROVE  LET r == read_sys_para(m)
           IN  r = [p \in Param |-> r[p]] /\ \A p \in Param : Fits(p, r[p])
  <1> DEFINE img == [p \in Param |-> m[ParaBursts[IF p \in Second THEN 2 ELSE 1]][p]]
             r == [img EXCEPT !["laser_enable"] = ENABLE, !["motor_enable"] = ENABLE,
                              !["dust_threshold"] = 400]
  <1>1. AreaBursts[Para] = ParaBursts
    BY DEF AreaBursts, Areas
  <1>2. ASSUME NEW p \in Param
        PROVE  Fits(p, img[p])
    <2>1. CASE p \in Second
      BY <1>1, <2>1 DEF PagesFit, PageFits, PageParams
    <2>2. CASE p \notin Second
      BY <1>1, <2>2 DEF PagesFit, PageFits, PageParams
    <2>3. QED
      BY <2>1, <2>2
  <1>3. img["laser_enable"] \in {ENABLE, DISABLE}
    <2> HIDE DEF img
    <2>1. QED
      BY <1>2, RangeTable DEF Fits
  <1>4. read_sys_para(m) = r
    BY <1>3 DEF read_sys_para
  <1>5. PICK i : i = img
    OBVIOUS
  <1>6. /\ r = [i EXCEPT !["laser_enable"] = ENABLE, !["motor_enable"] = ENABLE,
                         !["dust_threshold"] = 400]
        /\ i = [p \in Param |-> i[p]] /\ \A p \in Param : Fits(p, i[p])
    BY <1>2, <1>5
  <1>7. r = [p \in Param |-> IF p \in {"laser_enable", "motor_enable"} THEN ENABLE
                             ELSE IF p = "dust_threshold" THEN 400 ELSE i[p]]
    BY <1>6
  <1> HIDE DEF img, r
  <1>8. Fits("laser_enable", ENABLE) /\ Fits("motor_enable", ENABLE) /\ Fits("dust_threshold", 400)
    BY RangeTable DEF Fits
  <1>9. ASSUME NEW p \in Param
        PROVE  Fits(p, r[p])
    BY <1>6, <1>7, <1>8
  <1>10. QED
    BY <1>4, <1>7, <1>9

(* A register that takes a word holds what it makes of it. *)
Holds(g, p, v) == Taken(p, v) => g[p] = Decode(p, v)

(* What an APD_VOL_SETTING does to the registers of the other channel and   *)
(* to those that are no channels: nothing.                                  *)
LEMMA ApdHolds ==
    ASSUME NEW f, NEW v
    PROVE  LET g == ApdSet(f, v)
           IN  /\ g = [p \in Forwarded |-> g[p]]
               /\ \A p \in Channels : Holds(g, p, v)
               /\ \A p \in Forwarded : p \notin Channels \/ ~ Taken(p, v) => g[p] = f[p]
  <1>1. PICK g : g = ApdSet(f, v)
    OBVIOUS
  <1>2. g = [p \in Forwarded |-> IF p \in Channels THEN Latch(p, f[p], v) ELSE f[p]]
    BY <1>1 DEF ApdSet
  <1>3. \A p \in Channels : Holds(g, p, v)
    BY <1>2, FabricTable DEF Holds, Latch
  <1>4. \A p \in Forwarded : p \notin Channels \/ ~ Taken(p, v) => g[p] = f[p]
    BY <1>2 DEF Latch
  <1>5. QED
    BY <1>1, <1>2, <1>3, <1>4

(* An APD_VOL_SETTING with bit 15 clear leaves the comparator alone. *)
LEMMA OtherChannel ==
    ASSUME NEW v, Channel(v) = "apd_vol_base"
    PROVE  ~ Taken("signal_thresold", v)
  BY DEF Taken

(* init_fpga_sys leaves the fabric with what it makes of SysPara, whatever  *)
(* the registers held: what goes out for apd_vol_base has bit 15 clear and  *)
(* comes after what goes out for signal_thresold.                           *)
LEMMA FabricSet ==
    ASSUME NEW f, NEW r, \A p \in Param : Fits(p, r[p])
    PROVE  LET g == init_fpga_sys(f, r)
           IN  /\ g = [p \in Forwarded |-> g[p]]
               /\ \A p \in Listed : Holds(g, p, r[p])
  <1>1. Channel(r["apd_vol_base"]) = "apd_vol_base"
    BY RangeTable DEF Fits
  <1>2. PICK g : g = [p \in Forwarded |-> IF p \in Listed \ Channels
                                          THEN Latch(p, f[p], r[p]) ELSE f[p]]
    OBVIOUS
  <1>3. PICK h : h = ApdSet(g, r["signal_thresold"])
    OBVIOUS
  <1>4. PICK k : k = ApdSet(h, r["apd_vol_base"])
    OBVIOUS
  <1>5. init_fpga_sys(f, r) = k
    BY <1>2, <1>3, <1>4 DEF init_fpga_sys
  <1>6. /\ \A p \in Channels : Holds(h, p, r["signal_thresold"])
        /\ \A p \in Forwarded : p \notin Channels => h[p] = g[p]
    BY <1>3, ApdHolds
  <1>7. /\ k = [p \in Forwarded |-> k[p]]
        /\ \A p \in Channels : Holds(k, p, r["apd_vol_base"])
        /\ \A p \in Forwarded : p \notin Channels \/ ~ Taken(p, r["apd_vol_base"]) => k[p] = h[p]
    BY <1>4, ApdHolds
  <1>8. ASSUME NEW p \in Listed
        PROVE  Holds(k, p, r[p])
    <2>1. p \in Forwarded
      BY FabricTable
    <2>2. CASE p = "apd_vol_base"
      BY <1>7, <2>2 DEF Channels
    <2>3. CASE p = "signal_thresold"
      <3>1. k[p] = h[p]
        BY <1>1, <1>7, <2>1, <2>3, OtherChannel
      <3>2. Holds(h, p, r[p])
        BY <1>6, <2>3 DEF Channels
      <3>3. QED
        BY <3>1, <3>2 DEF Holds
    <2>4. CASE p \notin Channels
      <3>1. k[p] = g[p]
        BY <1>6, <1>7, <2>1, <2>4
      <3>2. g[p] = Latch(p, f[p], r[p])
        BY <1>2, <2>1, <2>4
      <3>3. QED
        BY <3>1, <3>2 DEF Holds, Latch
    <2>5. QED
      BY <2>2, <2>3, <2>4 DEF Channels
  <1>9. QED
    BY <1>5, <1>7, <1>8

LEMMA BootStep ==
    ASSUME StateOK, PagesFit(mem), SavedIntact, UNCHANGED <<mem, kept>>,
           NEW f, Boot(mem, f)
    PROVE  IInv'
  <1>1. /\ ram' = [p \in Param |-> ram'[p]] /\ \A p \in Param : Fits(p, ram'[p])
    BY ReadFits DEF Boot
  <1>2. /\ fpga' = [p \in Forwarded |-> fpga'[p]]
        /\ \A p \in Listed : Holds(fpga', p, ram'[p])
    BY <1>1, FabricSet DEF Boot
  <1>3. pc' = "idle" /\ buf' = <<>> /\ forced' = {}
    BY DEF Boot
  <1>4. StateOK'
    BY <1>1, <1>2, <1>3 DEF StateOK
  <1>5. PagesFit(mem)' /\ SavedIntact'
    BY DEF PagesFit, SavedIntact, Stored
  <1>6. SaveOK'
    BY <1>3 DEF SaveOK
  <1>7. InForce'
    BY <1>2, <1>3 DEF InForce, Meant, Holds
  <1>8. QED
    BY <1>4, <1>5, <1>6, <1>7 DEF IInv

(* The factory image fits. *)
LEMMA FactoryFits ==
    DOMAIN Factory = Slots /\ PagesFit(Factory)
  <1>1. AreaBursts[Para] = ParaBursts /\ Bounds(Para) = 2 /\ Para \in Areas
    BY DEF AreaBursts, Areas, Bounds
  <1>2. ParaBursts[1] # ParaBursts[2]
    BY <1>1, Apart
  <1>3. ParaBursts[1] \in Slots /\ ParaBursts[2] \in Slots
    BY <1>1, AreaSlots
  <1>4. Factory[ParaBursts[1]] = Page(Image, 1) /\ Factory[ParaBursts[2]] = Page(Image, 2)
    BY <1>2, <1>3 DEF Factory
  <1>5. ASSUME NEW i \in 1..2, NEW p \in PageParams(i)
        PROVE  Page(Image, i)[p] = Image[p] /\ p \in Param
    BY <1>5, PageTable DEF Page, PageParams
  <1>6. \A p \in Param : Fits(p, Image[p])
    BY ParamAssumption DEF Fits
  <1>7. \A i \in 1..2 : PageFits(Page(Image, i), i)
    BY <1>5, <1>6 DEF PageFits
  <1>8. PagesFit(Factory)
    BY <1>1, <1>4, <1>7 DEF PagesFit
  <1>9. QED
    BY <1>8 DEF Factory

LEMMA InitInv ==
    ASSUME Init
    PROVE  IInv
  <1>1. DOMAIN mem = Slots /\ PagesFit(mem)
    BY FactoryFits DEF Init
  <1>2. /\ ram = [p \in Param |-> ram[p]] /\ \A p \in Param : Fits(p, ram[p])
    BY <1>1, ReadFits DEF Init
  <1>3. /\ fpga = [p \in Forwarded |-> fpga[p]]
        /\ \A p \in Listed : Holds(fpga, p, ram[p])
    BY <1>2, FabricSet DEF Init
  <1>4. /\ pc = "idle" /\ buf = <<>> /\ kept = [a \in Areas |-> Stored(mem, a)]
        /\ forced = {}
    BY DEF Init
  <1>5. StateOK
    BY <1>1, <1>2, <1>3, <1>4 DEF StateOK
  <1>6. SavedIntact
    BY <1>4 DEF SavedIntact
  <1>7. InForce /\ SaveOK
    BY <1>3, <1>4 DEF InForce, Meant, Holds, SaveOK
  <1>8. QED
    BY <1>1, <1>5, <1>6, <1>7 DEF IInv

-----------------------------------------------------------------------------
(* The steps *)

(* A step that does not write to the EEPROM. *)
LEMMA SettingsStep ==
    ASSUME IInv, UNCHANGED <<mem, kept>>,
           ram' = [p \in Param |-> ram'[p]], \A p \in Param : Fits(p, ram'[p]),
           fpga' = [p \in Forwarded |-> fpga'[p]], forced' \subseteq DOMAIN AlarmWord, InForce',
           pc' \in {"idle", "parse"}, buf' \in Seq(Packets), pc' = "parse" => buf' # <<>>
    PROVE  IInv'
  <1>1. StateOK'
    BY DEF IInv, StateOK
  <1>2. PagesFit(mem)' /\ SavedIntact'
    BY DEF IInv, PagesFit, SavedIntact, Stored
  <1>3. SaveOK'
    BY DEF SaveOK
  <1>4. QED
    BY <1>1, <1>2, <1>3 DEF IInv

(* A signal_thresold set under its own command has no bit 15. *)
LEMMA OwnCommand ==
    ASSUME NEW v \in Range["signal_thresold"], v <= 1024
    PROVE  ~ Taken("signal_thresold", v)
  <1>1. v \in 0..1024
    BY RangeTable
  <1>2. (v \div Bit15) % 2 # 1
    BY <1>1 DEF Bit15
  <1>3. QED
    BY <1>2 DEF Taken, Channel

LEMMA SetStep ==
    ASSUME IInv, pc = "parse", NEW p \in Param \ {"apd_vol_base", "laser_presdo_tail"}, NEW v,
           ParseSet(p, v)
    PROVE  IInv'
  <1>1. buf' \in Seq(Packets) /\ pc' \in {"idle", "parse"} /\ (pc' = "parse" => buf' # <<>>)
    BY BufferStep DEF IInv, StateOK, ParseSet
  <1>2. UNCHANGED <<mem, kept>>
    BY DEF ParseSet, rom
  <1>3. CASE Pass(p, v)
    <2>1. /\ ram' = [q \in Param |-> IF q \in Fields(p) THEN v ELSE ram[q]]
          /\ fpga' = IF p \in Forwarded \ Channels
                     THEN [fpga EXCEPT ![p] = Latch(p, @, v)] ELSE fpga
          /\ forced' = forced \ {p}
      BY <1>3 DEF ParseSet
    <2>2. \A q \in Fields(p) \cap Param : Fits(q, v)
      BY <1>3, RangeTable DEF Fields, Fits, Pass
    <2>3. \A q \in Param : Fits(q, ram'[q])
      BY <2>1, <2>2 DEF IInv, StateOK
    <2>4. fpga' = [q \in Forwarded |-> fpga'[q]] /\ forced' \subseteq DOMAIN AlarmWord
      BY <2>1 DEF IInv, StateOK
    <2>5. ASSUME NEW q \in Listed, Taken(q, Meant(q)')
          PROVE  fpga'[q] = Decode(q, Meant(q)')
      <3>1. q \in Forwarded /\ q \in Param /\ (Taken(q, Meant(q)) => fpga[q] = Decode(q, Meant(q)))
        BY ForwardedParam, FabricTable DEF IInv, InForce
      <3>2. CASE q = p
        <4>1. Meant(q)' = v
          BY <2>1, <3>1, <3>2 DEF Meant, Fields
        <4>2. Taken(p, v)
          BY <2>5, <3>2, <4>1
        <4>3. q \notin Channels
          <5>1. CASE p = "signal_thresold"
            BY <1>3, <4>2, <5>1, OwnCommand DEF Pass
          <5>2. CASE p # "signal_thresold"
            BY <3>2, <5>2 DEF Channels
          <5>3. QED
            BY <5>1, <5>2
        <4>4. fpga'[q] = Latch(p, fpga[q], v)
          BY <2>1, <3>1, <3>2, <4>3 DEF IInv, StateOK
        <4>5. QED
          BY <3>2, <4>1, <4>2, <4>4 DEF Latch
      <3>3. CASE q # p
        <4>1. q \notin Fields(p)
          BY <3>1, <3>3, FabricTable DEF Fields
        <4>2. ram'[q] = ram[q] /\ (q \in forced' <=> q \in forced)
          BY <2>1, <3>1, <3>3, <4>1
        <4>3. Meant(q)' = Meant(q)
          BY <4>2 DEF Meant
        <4>4. fpga'[q] = fpga[q]
          BY <2>1, <3>1, <3>3 DEF IInv, StateOK
        <4>5. QED
          BY <2>5, <3>1, <4>3, <4>4
      <3>4. QED
        BY <3>2, <3>3
    <2>6. ram' = [q \in Param |-> ram'[q]]
      BY <2>1
    <2>7. InForce'
      BY <2>5 DEF InForce
    <2>8. QED
      BY <1>1, <1>2, <2>3, <2>4, <2>6, <2>7, SettingsStep
  <1>4. CASE ~ Pass(p, v)
    <2>1. UNCHANGED <<ram, fpga, forced>>
      BY <1>4 DEF ParseSet, settings
    <2>2. InForce'
      BY <2>1 DEF IInv, InForce, Meant
    <2>3. QED
      BY <1>1, <1>2, <2>1, <2>2, SettingsStep DEF IInv, StateOK
  <1>5. QED
    BY <1>3, <1>4

LEMMA ApdStep ==
    ASSUME IInv, pc = "parse", NEW v \in Nat, ParseApd(v)
    PROVE  IInv'
  <1>1. buf' \in Seq(Packets) /\ pc' \in {"idle", "parse"} /\ (pc' = "parse" => buf' # <<>>)
    BY BufferStep DEF IInv, StateOK, ParseApd
  <1>2. UNCHANGED <<mem, kept>>
    BY DEF ParseApd, rom
  <1>3. PICK c : c = Channel(v)
    OBVIOUS
  <1>4. c \in Channels /\ Fits(c, v)
    <2>1. CASE (v \div Bit15) % 2 = 1
      BY <1>3, <2>1, RangeTable DEF Channel, Channels, Fits
    <2>2. CASE (v \div Bit15) % 2 # 1
      BY <1>3, <2>2, RangeTable DEF Channel, Channels, Fits
    <2>3. QED
      BY <2>1, <2>2
  <1>5. c \in Param /\ c \in Forwarded
    BY <1>4, RangeTable, FabricTable DEF Channels
  <1>6. ram' = [ram EXCEPT ![c] = v] /\ fpga' = ApdSet(fpga, v) /\ forced' = forced
    BY <1>3 DEF ParseApd
  <1>7. /\ ram' = [q \in Param |-> ram'[q]] /\ fpga' = [q \in Forwarded |-> fpga'[q]]
        /\ forced' \subseteq DOMAIN AlarmWord
    BY <1>6, ApdHolds DEF IInv, StateOK
  <1>8. \A q \in Param : Fits(q, ram'[q])
    BY <1>4, <1>6 DEF IInv, StateOK
  <1>9. ASSUME NEW q \in Listed, Taken(q, Meant(q)')
        PROVE  fpga'[q] = Decode(q, Meant(q)')
    <2>1. q \in Forwarded /\ q \in Param /\ (Taken(q, Meant(q)) => fpga[q] = Decode(q, Meant(q)))
      BY ForwardedParam, FabricTable DEF IInv, InForce
    <2>2. CASE q = c
      <3>1. q \notin forced'
        BY <1>4, <1>6, <2>2 DEF IInv, StateOK, Channels, AlarmWord
      <3>2. Meant(q)' = v
        BY <1>5, <1>6, <2>2, <3>1 DEF IInv, StateOK, Meant
      <3>3. Holds(fpga', q, v)
        BY <1>4, <1>6, <2>2, ApdHolds
      <3>4. QED
        BY <1>9, <3>2, <3>3 DEF Holds
    <2>3. CASE q # c
      <3>1. ram'[q] = ram[q]
        BY <1>6, <2>1, <2>3 DEF IInv, StateOK
      <3>2. Meant(q)' = Meant(q)
        BY <1>6, <3>1 DEF Meant
      <3>3. q \notin Channels \/ ~ Taken(q, v)
        BY <1>3, <2>3 DEF Channels, Taken
      <3>4. fpga'[q] = fpga[q]
        BY <1>6, <2>1, <3>3, ApdHolds
      <3>5. QED
        BY <1>9, <2>1, <3>2, <3>4
    <2>4. QED
      BY <2>2, <2>3
  <1>10. InForce'
    BY <1>9 DEF InForce
  <1>11. QED
    BY <1>1, <1>2, <1>7, <1>8, <1>10, SettingsStep

(* The beginning of a save, with nothing or the group byte to write first. *)
LEMMA Joined ==
    ASSUME NEW S, NEW s \in Seq(S), NEW t \in Seq(S)
    PROVE  /\ DOMAIN (s \o t) = 1..(Len(s) + Len(t)) /\ Len(s \o t) = Len(s) + Len(t)
           /\ \A i \in 1..(Len(s) + Len(t)) :
                 (s \o t)[i] = IF i <= Len(s) THEN s[i] ELSE t[i - Len(s)]
  <1>1. PICK u : u = s \o t
    OBVIOUS
  <1>2. /\ u \in Seq(S) /\ Len(u) = Len(s) + Len(t)
        /\ \A i \in 1..(Len(s) + Len(t)) : u[i] = IF i <= Len(s) THEN s[i] ELSE t[i - Len(s)]
    BY <1>1, ST!ConcatProperties, Zenon
  <1>3. DOMAIN u = 1..(Len(s) + Len(t))
    BY <1>2
  <1>4. QED
    BY <1>1, <1>2, <1>3, Zenon

LEMMA BeginTodo ==
    ASSUME NEW a \in Areas, NEW image, NEW before, NEW resume, NEW whole,
           DOMAIN image = 1..Bounds(a), image = [i \in 1..Bounds(a) |-> image[i]],
           Len(image) = Bounds(a),
           before = <<>> \/ before = <<<<GroupByte, 0>>>>,
           a = Para => \A i \in 1..2 : PageFits(image[i], i),
           Begin(a, image, before, resume, whole)
    PROVE  \E t \in 1..(Bounds(a) + 1) : t >= Bounds(a) /\ Todo(job', a, t)
  <1>1. PICK B \in Nat \ {0} : B = Bounds(a)
    BY DEF Bounds
  <1>2. PICK q : q = [i \in 1..B |-> <<AreaBursts[a][i], image[i]>>]
    OBVIOUS
  <1>3. PICK g : g = <<GroupByte, 0>>
    OBVIOUS
  <1>4. job' = [todo |-> before \o q, area |-> a, image |-> image, resume |-> resume, whole |-> whole]
    BY <1>1, <1>2 DEF Begin
  <1>5. PICK S : S = {q[i] : i \in 1..B} \cup {g}
    OBVIOUS
  <1>6. q \in Seq(S) /\ Len(q) = B
    <2>1. q \in [1..B -> S]
      BY <1>2, <1>5
    <2>2. q \in Seq(S)
      BY <1>1, <2>1, ST!SeqDef
    <2>3. DOMAIN q = 1..B
      BY <1>2
    <2>4. PICK L \in Nat : L = Len(q) /\ 1..L = 1..B
      BY <2>2, <2>3
    <2>5. L = B
      <3>1. B \in 1..L
        BY <2>4
      <3>2. L \in 1..B
        BY <2>4, <3>1
      <3>3. QED
        BY <3>1, <3>2
    <2>6. QED
      BY <2>2, <2>4, <2>5
  <1>7. PICK n \in {0, 1} : before \in Seq(S) /\ Len(before) = n /\ (n = 1 => before[1] = g)
    <2>1. <<>> \in Seq(S) /\ Len(<<>>) = 0 /\ <<g>> \in Seq(S) /\ Len(<<g>>) = 1 /\ <<g>>[1] = g
      BY <1>5
    <2>2. before = <<>> \/ before = <<g>>
      BY <1>3, Zenon
    <2>3. CASE before = <<>>
      BY <2>1, <2>3
    <2>4. CASE before = <<g>>
      BY <2>1, <2>4
    <2>5. QED
      BY <2>2, <2>3, <2>4
  <1>8. PICK u : u = before \o q
    OBVIOUS
  <1>9. /\ DOMAIN u = 1..(Len(before) + Len(q)) /\ Len(u) = Len(before) + Len(q)
        /\ \A i \in 1..(Len(before) + Len(q)) :
              u[i] = IF i <= Len(before) THEN before[i] ELSE q[i - Len(before)]
    <2>1. q \in Seq(S) /\ before \in Seq(S)
      BY <1>6, <1>7
    <2>2. QED
      BY ONLY <1>8, <2>1, Joined, Zenon
  <1>10. PICK t \in 1..(B + 1) : t = n + B /\ t >= B
    BY <1>1, <1>7
  <1>11. DOMAIN u = 1..t /\ Len(u) = t
    BY <1>6, <1>7, <1>9, <1>10
  <1>12. ASSUME NEW i \in 1..t
         PROVE  u[i] = IF t - i < B THEN <<AreaBursts[a][B - t + i], image[B - t + i]>> ELSE g
    <2>1. u[i] = IF i <= n THEN before[i] ELSE q[i - n]
      BY <1>6, <1>7, <1>9, <1>10
    <2>2. CASE i <= n
      BY <1>7, <1>10, <2>1, <2>2
    <2>3. CASE i > n
      <3>1. i - n \in 1..B /\ B - t + i = i - n /\ t - i < B
        BY <1>1, <1>7, <1>10, <2>3
      <3>2. q[i - n] = <<AreaBursts[a][i - n], image[i - n]>>
        BY <1>2, <3>1
      <3>3. QED
        BY <2>1, <2>3, <3>1, <3>2
    <2>4. QED
      BY <2>2, <2>3
  <1>13. job'.todo = u /\ job'.area = a /\ job'.image = image
    BY <1>4, <1>8
  <1>14. t \in 1..(Bounds(a) + 1) /\ t >= Bounds(a) /\ Todo(job', a, t)
    <2>1. t \in 1..(Bounds(a) + 1)
      BY <1>1
    <2>2. \A i \in 1..t :
             u[i] = IF t - i < Bounds(a)
                    THEN <<AreaBursts[a][Bounds(a) - t + i], image[Bounds(a) - t + i]>>
                    ELSE <<GroupByte, 0>>
      BY <1>1, <1>3, <1>12, Zenon
    <2>3. Todo(job', a, t)
      BY <1>11, <1>13, <2>1, <2>2, Zenon DEF Todo
    <2>4. QED
      BY <1>1, <1>10, <2>1, <2>3
  <1>15. QED
    BY <1>14, Zenon

LEMMA BeginStep ==
    ASSUME IInv, pc = "parse", NEW a \in Areas, NEW image, NEW before, NEW resume, NEW whole,
           DOMAIN image = 1..Bounds(a), image = [i \in 1..Bounds(a) |-> image[i]],
           Len(image) = Bounds(a),
           before = <<>> \/ before = <<<<GroupByte, 0>>>>,
           a = Para => \A i \in 1..2 : PageFits(image[i], i),
           Begin(a, image, before, resume, whole),
           UNCHANGED <<ram, fpga, forced, mem, buf>>
    PROVE  IInv'
  <1>1. PICK t \in 1..(Bounds(a) + 1) : t >= Bounds(a) /\ Todo(job', a, t)
    BY BeginTodo
  <1>2. kept' = [kept EXCEPT ![a] = <<>>] /\ pc' = "write" /\ DOMAIN kept = Areas
    BY DEF Begin, IInv, StateOK
  <1>3. Done(mem', job', a, t)
    BY <1>1 DEF Done, Bounds
  <1>4. SaveOK'
    BY <1>1, <1>2, <1>3 DEF SaveOK
  <1>5. StateOK'
    BY <1>2 DEF IInv, StateOK
  <1>6. PagesFit(mem)' /\ InForce'
    BY DEF IInv, PagesFit, InForce, Meant
  <1>7. SavedIntact'
    BY <1>2 DEF IInv, SavedIntact, Stored
  <1>8. QED
    BY <1>4, <1>5, <1>6, <1>7 DEF IInv

(* save_sys_para: what it writes fits, because SysPara does. *)
LEMMA SaveStep ==
    ASSUME IInv, pc = "parse", ParseSave
    PROVE  IInv'
  <1>1. PICK im : im = ParaImage(ram)
    OBVIOUS
  <1>2. DOMAIN im = 1..2 /\ im = [i \in 1..2 |-> im[i]] /\ Len(im) = 2
        /\ im[1] = Page(ram, 1) /\ im[2] = Page(ram, 2)
    BY <1>1 DEF ParaImage
  <1>3. Para \in Areas /\ Bounds(Para) = 2
    BY DEF Areas, Bounds
  <1>4. \A i \in 1..2 : PageFits(im[i], i)
    <2>1. ASSUME NEW i \in 1..2
          PROVE  PageFits(Page(ram, i), i)
      BY PageTable DEF PageFits, Page, PageParams, IInv, StateOK
    <2>2. QED
      BY <1>2, <2>1
  <1>5. Begin(Para, im, <<>>, FALSE, TRUE) /\ UNCHANGED <<ram, fpga, forced, mem, buf>>
    BY <1>1 DEF ParseSave, settings
  <1>6. QED
    BY <1>2, <1>3, <1>4, <1>5, BeginStep

(* PC_LOAD_REGION_DATA *)
LEMMA LoadStep ==
    ASSUME IInv, pc = "parse", NEW k \in Layers, NEW whole, ParseLoad(k, whole)
    PROVE  IInv'
  <1>1. PICK im : im = LayerImage(changes + 1, whole)
    OBVIOUS
  <1>2. DOMAIN im = 1..8 /\ im = [i \in 1..8 |-> im[i]] /\ Len(im) = 8
    BY <1>1 DEF LayerImage
  <1>3. k \in Areas /\ k # Para /\ Bounds(k) = 8
    BY LayoutAssumption DEF Areas, Bounds, Para
  <1>4. Begin(k, im, <<<<GroupByte, 0>>>>, update_pos_flag, whole) /\ UNCHANGED <<ram, fpga, forced, mem, buf>>
    BY <1>1 DEF ParseLoad, settings, GroupByte
  <1>5. PICK before : before = <<<<GroupByte, 0>>>>
    OBVIOUS
  <1>6. QED
    BY <1>2, <1>3, <1>4, <1>5, BeginStep

(* A burst reaches the EEPROM: one more of the area is as it should be, and *)
(* no other area is touched.                                                *)
LEMMA BurstStep ==
    ASSUME IInv, pc = "write", WriteStep,
           NEW a \in Areas, NEW t \in 1..(Bounds(a) + 1),
           Todo(job, a, t), Done(mem, job, a, t), kept[a] = <<>>
    PROVE  /\ DOMAIN mem' = Slots /\ PagesFit(mem')
           /\ Done(mem', job, a, t - 1)
           /\ \A b \in Areas \ {a} : Stored(mem', b) = Stored(mem, b)
  <1>1. PICK B \in {2, 8} : B = Bounds(a)
    BY DEF Bounds
  <1>2. t \in 1..(B + 1) /\ t \in Nat
    BY <1>1
  <1>3. PICK w : w = job.todo[1]
    OBVIOUS
  <1>4. /\ w = IF t - 1 < B THEN <<AreaBursts[a][B - t + 1], job.image[B - t + 1]>>
               ELSE <<GroupByte, 0>>
        /\ Head(job.todo) = w /\ mem' = WriteBurst(mem, w[1], w[2])
    <2>1. 1 \in 1..t
      BY <1>2
    <2>2. w = IF t - 1 < B THEN <<AreaBursts[a][B - t + 1], job.image[B - t + 1]>>
              ELSE <<GroupByte, 0>>
      BY <1>1, <1>3, <2>1 DEF Todo
    <2>3. Head(job.todo) = w
      BY <1>3
    <2>4. QED
      BY <2>2, <2>3 DEF WriteStep
  <1>5. DOMAIN mem = Slots /\ PagesFit(mem)
    BY DEF IInv, StateOK
  <1>6. CASE t - 1 < B
    <2>1. PICK i \in 1..B : i = B - t + 1
      BY <1>2, <1>6
    <2>2. mem' = WriteBurst(mem, AreaBursts[a][i], job.image[i])
      BY <1>4, <1>6, <2>1
    <2>3. /\ DOMAIN mem' = Slots
          /\ mem'[AreaBursts[a][i]] = job.image[i]
          /\ \A b \in Areas : \A j \in 1..Bounds(b) :
                a # b \/ i # j => mem'[AreaBursts[b][j]] = mem[AreaBursts[b][j]]
      <3>1. i \in 1..Bounds(a)
        BY <1>1
      <3>2. PICK m, n, c : m = mem /\ n = mem' /\ c = job.image[i]
        OBVIOUS
      <3>3. DOMAIN m = Slots /\ n = WriteBurst(m, AreaBursts[a][i], c)
        BY <1>5, <2>2, <3>2
      <3>4. WritesOnly(m, n, a, i, c)
        BY ONLY a \in Areas, <3>1, <3>3, Written
      <3>5. QED
        BY ONLY <3>2, <3>4, Zenon DEF WritesOnly
    <2>4. ASSUME NEW j \in 1..(Bounds(a) - (t - 1))
          PROVE  mem'[AreaBursts[a][j]] = job.image[j]
      <3>1. j \in 1..B /\ (j = i \/ j \in 1..(B - t))
        BY <1>1, <1>2, <2>1
      <3>2. QED
        BY <1>1, <2>3, <3>1 DEF Done
    <2>5. ASSUME NEW b \in Areas \ {a}
          PROVE  Stored(mem', b) = Stored(mem, b)
      BY <2>3, AreaLayout DEF Stored
    <2>6. PagesFit(mem')
      <3>1. CASE a = Para
        <4>1. ASSUME NEW j \in 1..2
              PROVE  PageFits(mem'[AreaBursts[Para][j]], j)
          <5>1. B = 2
            BY <1>1, <3>1 DEF Bounds
          <5>2. CASE j = i
            BY <2>3, <3>1, <5>2 DEF Todo
          <5>3. CASE j # i
            BY <1>1, <1>5, <2>3, <3>1, <5>1, <5>3 DEF PagesFit
          <5>4. QED
            BY <5>2, <5>3
        <4>2. QED
          BY <4>1 DEF PagesFit
      <3>2. CASE a # Para
        <4>1. Para \in Areas /\ Bounds(Para) = 2
          BY DEF Areas, Bounds
        <4>2. QED
          BY <1>5, <2>3, <3>2, <4>1 DEF PagesFit
      <3>3. QED
        BY <3>1, <3>2
    <2>7. QED
      BY <2>3, <2>4, <2>5, <2>6 DEF Done
  <1>7. CASE ~(t - 1 < B)
    <2>1. mem' = WriteBurst(mem, GroupByte, 0) /\ t = B + 1
      BY <1>2, <1>4, <1>7
    <2>2. /\ DOMAIN mem' = Slots
          /\ \A b \in Areas : \A j \in 1..Bounds(b) : mem'[AreaBursts[b][j]] = mem[AreaBursts[b][j]]
      <3>1. PICK m, n : m = mem /\ n = mem'
        OBVIOUS
      <3>2. DOMAIN m = Slots /\ n = WriteBurst(m, GroupByte, 0)
        BY <1>5, <2>1, <3>1
      <3>3. /\ DOMAIN n = Slots
            /\ \A b \in Areas : \A j \in 1..Bounds(b) : n[AreaBursts[b][j]] = m[AreaBursts[b][j]]
        BY ONLY <3>2, GroupWritten
      <3>4. QED
        BY ONLY <3>1, <3>3
    <2>3. Done(mem', job, a, t - 1)
      BY <1>1, <2>1 DEF Done
    <2>4. Para \in Areas /\ Bounds(Para) = 2
      BY DEF Areas, Bounds
    <2>5. PagesFit(mem')
      BY <1>5, <2>2, <2>4 DEF PagesFit
    <2>6. ASSUME NEW b \in Areas \ {a}
          PROVE  Stored(mem', b) = Stored(mem, b)
      BY <2>2, AreaLayout DEF Stored
    <2>7. QED
      BY <2>2, <2>3, <2>5, <2>6
  <1>8. QED
    BY <1>6, <1>7

(* The save goes on to its next burst, or has written all of the area. *)
LEMMA WriteStepInv ==
    ASSUME IInv, WriteStep
    PROVE  IInv'
  <1>0. pc = "write" /\ UNCHANGED <<ram, fpga, forced>>
    BY DEF WriteStep, settings
  <1>1. PICK a \in Areas : \E t \in 1..(Bounds(a) + 1) :
            Todo(job, a, t) /\ Done(mem, job, a, t) /\ kept[a] = <<>>
    BY <1>0, Zenon DEF IInv, SaveOK
  <1>2. PICK t \in 1..(Bounds(a) + 1) :
            Todo(job, a, t) /\ Done(mem, job, a, t) /\ kept[a] = <<>>
    BY <1>1
  <1>3. /\ DOMAIN mem' = Slots /\ PagesFit(mem')
        /\ Done(mem', job, a, t - 1)
        /\ \A b \in Areas \ {a} : Stored(mem', b) = Stored(mem, b)
    BY <1>0, <1>2, BurstStep
  <1>4. PICK B \in {2, 8} : B = Bounds(a)
    BY DEF Bounds
  <1>5. InForce'
    BY <1>0 DEF IInv, InForce, Meant
  <1>6. CASE Len(job.todo) > 1
    <2>1. UNCHANGED <<kept, pc, buf>> /\ job' = [job EXCEPT !.todo = Tail(@)]
      BY <1>6 DEF WriteStep
    <2>2. PICK r \in 1..(B + 1) : r = t - 1
      BY <1>2, <1>4, <1>6 DEF Todo
    <2>3. Todo(job', a, r)
      <3>1. /\ job.area = a /\ DOMAIN job.image = 1..B /\ job.image = [i \in 1..B |-> job.image[i]]
            /\ DOMAIN job.todo = 1..t /\ Len(job.todo) = t
            /\ \A i \in 1..t :
                  job.todo[i] = IF t - i < B THEN <<AreaBursts[a][B - t + i], job.image[B - t + i]>>
                                ELSE <<GroupByte, 0>>
            /\ a = Para => \A i \in 1..2 : PageFits(job.image[i], i)
        BY <1>2, <1>4, Zenon DEF Todo
      <3>2. job'.todo = Tail(job.todo) /\ job'.area = a /\ job'.image = job.image
        BY <2>1, <3>1
      <3>3. PICK q : q = job.todo
        OBVIOUS
      <3>4. Tail(q) = [i \in 1..r |-> q[i + 1]]
        BY <2>2, <3>1, <3>3
      <3>5. DOMAIN Tail(q) = 1..r /\ Len(Tail(q)) = r
        BY <3>4
      <3>6. ASSUME NEW i \in 1..r
            PROVE  Tail(q)[i] = IF r - i < B THEN <<AreaBursts[a][B - r + i], job.image[B - r + i]>>
                                ELSE <<GroupByte, 0>>
        <4>1. i + 1 \in 1..t /\ t - (i + 1) = r - i /\ B - t + (i + 1) = B - r + i
          BY <1>4, <2>2
        <4>2. QED
          BY <3>1, <3>3, <3>4, <4>1
      <3>7. QED
        BY <1>4, <3>1, <3>2, <3>3, <3>5, <3>6 DEF Todo
    <2>4. Done(mem', job', a, r)
      BY <1>3, <2>1, <2>2 DEF Done
    <2>5. SaveOK'
      BY <1>2, <1>4, <2>1, <2>3, <2>4 DEF SaveOK
    <2>6. StateOK'
      BY <1>0, <1>3, <2>1 DEF IInv, StateOK
    <2>7. SavedIntact'
      BY <1>2, <1>3, <2>1 DEF IInv, SavedIntact
    <2>8. QED
      BY <1>3, <1>5, <2>5, <2>6, <2>7 DEF IInv
  <1>7. CASE ~(Len(job.todo) > 1)
    <2>1. /\ kept' = [kept EXCEPT ![job.area] = job.image]
          /\ IF job.whole THEN NextPacket ELSE pc' = "runaway" /\ UNCHANGED buf
      BY <1>7 DEF WriteStep
    <2>2. /\ t = 1 /\ job.area = a
          /\ DOMAIN job.image = 1..B /\ job.image = [i \in 1..B |-> job.image[i]]
      BY <1>2, <1>4, <1>7 DEF Todo
    <2>3. buf \in Seq(Packets) /\ buf # <<>>
      BY <1>0 DEF IInv, StateOK
    <2>4. /\ buf' \in Seq(Packets) /\ pc' \in {"idle", "parse", "runaway"}
          /\ pc' = "parse" => buf' # <<>>
      BY <2>1, <2>3, BufferStep
    <2>5. Stored(mem', a) = job.image
      <3>1. \A i \in 1..B : mem'[AreaBursts[a][i]] = job.image[i]
        <4>1. \A i \in 1..(B - (t - 1)) : mem'[AreaBursts[a][i]] = job.image[i]
          BY <1>3, <1>4, Zenon DEF Done
        <4>2. B - (t - 1) = B
          BY <1>4, <2>2
        <4>3. QED
          BY <4>1, <4>2
      <3>2. Stored(mem', a) = [i \in 1..B |-> mem'[AreaBursts[a][i]]]
        BY <1>4, AreaLayout DEF Stored
      <3>3. QED
        BY <2>2, <3>1, <3>2
    <2>6. StateOK'
      BY <1>0, <1>3, <2>1, <2>2, <2>4 DEF IInv, StateOK
    <2>7. SavedIntact'
      BY <1>3, <2>1, <2>2, <2>5 DEF IInv, StateOK, SavedIntact
    <2>8. SaveOK'
      BY <2>4 DEF SaveOK
    <2>9. QED
      BY <1>3, <1>5, <2>6, <2>7, <2>8 DEF IInv
  <1>8. QED
    BY <1>6, <1>7

(* The steps that change neither SysPara nor the fabric nor the EEPROM. *)
LEMMA IdleStep ==
    ASSUME IInv, UNCHANGED <<ram, fpga, forced, mem, kept>>,
           pc' \in {"idle", "parse"}, buf' \in Seq(Packets), pc' = "parse" => buf' # <<>>
    PROVE  IInv'
  <1>1. InForce'
    BY DEF IInv, InForce, Meant
  <1>2. QED
    BY <1>1, SettingsStep DEF IInv, StateOK

LEMMA ParseStep ==
    ASSUME IInv, ParseNext
    PROVE  IInv'
  <1>1. pc = "parse" /\ buf \in Seq(Packets) /\ buf # <<>>
    BY DEF ParseNext, IInv, StateOK
  <1>2. PICK p \in Packets : p = Head(buf)
    BY <1>1, HeadPacket
  <1>3. CASE p[1] = "set" /\ ParseSet(p[2], p[3])
    BY <1>1, <1>3, PacketShape, SetStep
  <1>4. CASE p[1] = "apd" /\ ParseApd(p[2])
    BY <1>1, <1>4, PacketShape, ApdStep
  <1>5. CASE p[1] = "save" /\ ParseSave
    BY <1>1, <1>5, SaveStep
  <1>6. CASE p[1] = "load" /\ ParseLoad(p[2], p[3])
    BY <1>1, <1>6, PacketShape, LoadStep
  <1>7. CASE p[1] = "ask" /\ ParseAsk(p[2])
    <2>1. NextPacket /\ UNCHANGED <<ram, fpga, forced, mem, kept>>
      BY <1>7 DEF ParseAsk, settings, rom
    <2>2. QED
      BY <1>1, <2>1, BufferStep, IdleStep
  <1>8. CASE p[1] = "sick" /\ ParseSick(p[2])
    <2>1. buf' = <<>> /\ pc' = "idle" /\ UNCHANGED <<ram, fpga, forced, mem, kept>>
      BY <1>8 DEF ParseSick, settings, rom
    <2>2. QED
      BY <2>1, IdleStep
  <1>9. QED
    BY <1>2, <1>3, <1>4, <1>5, <1>6, <1>7, <1>8 DEF ParseNext

(* An alarm writes two registers and says so. *)
LEMMA ReactStep ==
    ASSUME IInv, React
    PROVE  IInv'
  <1>1. PICK sent \in SUBSET DOMAIN AlarmWord :
             /\ fpga' = [p \in Forwarded |-> IF p \in sent THEN Latch(p, fpga[p], AlarmWord[p])
                                             ELSE fpga[p]]
             /\ forced' = forced \cup sent
    BY DEF React, AlarmWord
  <1>2. /\ pc = "idle" /\ UNCHANGED <<ram, mem, kept, pc, buf>>
    BY DEF React, rom
  <1>3. /\ fpga' = [p \in Forwarded |-> fpga'[p]] /\ forced' \subseteq DOMAIN AlarmWord
    BY <1>1 DEF IInv, StateOK
  <1>4. ASSUME NEW q \in Listed, Taken(q, Meant(q)')
        PROVE  fpga'[q] = Decode(q, Meant(q)')
    <2>1. q \in Forwarded /\ (Taken(q, Meant(q)) => fpga[q] = Decode(q, Meant(q)))
      BY FabricTable DEF IInv, InForce
    <2>2. CASE q \in sent
      <3>1. Meant(q)' = AlarmWord[q]
        BY <1>1, <2>2 DEF Meant
      <3>2. fpga'[q] = Latch(q, fpga[q], AlarmWord[q])
        BY <1>1, <2>1, <2>2
      <3>3. QED
        BY <1>4, <3>1, <3>2 DEF Latch
    <2>3. CASE q \notin sent
      <3>1. Meant(q)' = Meant(q) /\ fpga'[q] = fpga[q]
        BY <1>1, <1>2, <2>1, <2>3 DEF Meant
      <3>2. QED
        BY <1>4, <2>1, <3>1
    <2>4. QED
      BY <2>2, <2>3
  <1>5. InForce'
    BY <1>4 DEF InForce
  <1>6. QED
    BY <1>2, <1>3, <1>5, SettingsStep DEF IInv, StateOK

LEMMA NextInv ==
    ASSUME IInv, [Next]_vars
    PROVE  IInv'
  <1>1. CASE Poll
    <2>1. /\ pc' = "parse" /\ UNCHANGED <<ram, fpga, forced, mem, kept>>
          /\ \E b \in Buffers : buf' = b
      BY <1>1 DEF Poll, settings, rom
    <2>2. QED
      BY <2>1, BufferShape, IdleStep
  <1>2. CASE ParseNext
    BY <1>2, ParseStep
  <1>3. CASE WriteStep
    BY <1>3, WriteStepInv
  <1>4. CASE StatusSent \/ StatusRead \/ UNCHANGED vars
    <2>1. UNCHANGED <<ram, fpga, forced, mem, kept, job, pc, buf>>
      BY <1>4 DEF StatusSent, StatusRead, vars, settings, rom
    <2>2. StateOK' /\ InForce' /\ PagesFit(mem)' /\ SavedIntact'
      BY <2>1 DEF IInv, StateOK, InForce, Meant, PagesFit, SavedIntact, Stored
    <2>3. SaveOK'
      BY <2>1 DEF IInv, SaveOK
    <2>4. QED
      BY <2>2, <2>3 DEF IInv
  <1>5. CASE Watchdog
    BY <1>5, BootStep DEF Watchdog, IInv
  <1>6. CASE PowerFail
    BY <1>6, BootStep DEF PowerFail, IInv
  <1>7. CASE React
    BY <1>7, ReactStep
  <1>8. QED
    BY <1>1, <1>2, <1>3, <1>4, <1>5, <1>6, <1>7 DEF Next

-----------------------------------------------------------------------------
(* The whole inductive invariant: the types, EEPROM pages that fit what is  *)
(* burnt into them, a save that is as far as its pc says, the fabric that   *)
(* holds the parameters in memory, and every saved page read back intact.   *)
THEOREM Invariant == Spec => []IInv
  <1>1. Init => IInv
    BY InitInv
  <1>2. IInv /\ [Next]_vars => IInv'
    BY NextInv
  <1>3. QED
    BY <1>1, <1>2, PTL DEF Spec

(* InRange: read_sys_para checks four bytes of 308, and a save may be cut   *)
(* between its two pages; still every parameter in force has passed the     *)
(* checks of pc2dev_parse.                                                  *)
THEOREM ParametersInRange == Spec => []InRange
  <1>1. IInv => InRange
    BY DEF IInv, StateOK, Fits, InRange
  <1>2. QED
    BY <1>1, Invariant, PTL

(* SavedIntact: what a completed save wrote is there, burst for burst,      *)
(* whichever areas have been written since and wherever a save was cut.     *)
THEOREM SavesIntact == Spec => []SavedIntact
  <1>1. IInv => SavedIntact
    BY DEF IInv
  <1>2. QED
    BY <1>1, Invariant, PTL

(* InForce: each register holds what the fabric makes of the parameter in   *)
(* SysPara, or of what a device alarm has written over it, after any        *)
(* settings, alarms, power failures and watchdog resets.                    *)
THEOREM FabricInForce == Spec => []InForce
  <1>1. IInv => InForce
    BY DEF IInv
  <1>2. QED
    BY <1>1, Invariant, PTL

-----------------------------------------------------------------------------
(* The answers *)

(* A layer comes in a buffer of its own, so that the answer to a read never *)
(* waits while a layer is written.                                          *)
LoadAlone == \A i \in 1..Len(buf) : buf[i][1] = "load" => Len(buf) = 1
AskApart ==
    /\ reply.k = "ask" => reply.w \in Areas /\ \A i \in 1..Len(buf) : buf[i][1] # "load"
    /\ pc = "write" /\ job.area # Para => reply.k # "ask"
RInv == IInv /\ LoadAlone /\ AskApart /\ ReadsAnswered

(* find_index finds the first of equal entries. *)
LEMMA Found ==
    ASSUME NEW r, NEW k \in 1..Len(tim561_index), tim561_index[k] = r
    PROVE  find_index(r) \in 1..Len(tim561_index) /\ tim561_index[find_index(r)] = r
  <1> DEFINE T == {i \in Nat : i \in 1..Len(tim561_index) /\ tim561_index[i] = r}
  <1>1. k \in T
    OBVIOUS
  <1>2. PICK x \in T : \A y \in T : ~(<<y, x>> \in WF!OpToRel(<, Nat))
    BY <1>1, WF!WFMin, WF!NatLessThanWellFounded
  <1>3. \A y \in T : ~(y < x)
    BY <1>2 DEF WF!OpToRel
  <1>4. \A j \in 1..(x - 1) : tim561_index[j] # r
    BY <1>3
  <1>5. \E i \in 1..Len(tim561_index) :
           tim561_index[i] = r /\ \A j \in 1..(i - 1) : tim561_index[j] # r
    BY <1>4
  <1>6. QED
    BY <1>1, <1>5 DEF find_index

(* An answer that says n somewhere. *)
Says(q, n) == \E j \in 1..Len(q) : q[j] = n

LEMMA SaysLast ==
    ASSUME NEW a, NEW b, NEW c, NEW d
    PROVE  Says(<<a>>, a) /\ Says(<<a, b>>, b) /\ Says(<<a, b, c, d>>, d)
  <1>1. 1 \in 1..Len(<<a>>) /\ <<a>>[1] = a
    OBVIOUS
  <1>2. 2 \in 1..Len(<<a, b>>) /\ <<a, b>>[2] = b
    OBVIOUS
  <1>3. 4 \in 1..Len(<<a, b, c, d>>) /\ <<a, b, c, d>>[4] = d
    OBVIOUS
  <1>4. QED
    BY <1>1, <1>2, <1>3, Zenon DEF Says

LEMMA SaysFirst ==
    ASSUME NEW S, NEW c \in S, NEW t \in Seq(S)
    PROVE  Says(<<c>> \o t, c) /\ (<<c>> \o t)[1] = c
  <1>1. <<c>> \in Seq(S) /\ Len(<<c>>) = 1 /\ <<c>>[1] = c
    OBVIOUS
  <1>2. PICK h \in Seq(S) : h = <<c>>
    BY <1>1, Zenon
  <1>3. Len(h) = 1 /\ h[1] = c /\ Len(t) \in Nat
    BY <1>1, <1>2
  <1>4. PICK u : u = h \o t
    OBVIOUS
  <1>5. /\ Len(u) = Len(h) + Len(t)
        /\ \A i \in 1..(Len(h) + Len(t)) : u[i] = IF i <= Len(h) THEN h[i] ELSE t[i - Len(h)]
    BY <1>4, Joined, Zenon
  <1>6. 1 \in 1..Len(u) /\ u[1] = c
    BY <1>3, <1>5
  <1>7. QED
    BY <1>2, <1>4, <1>6, Zenon DEF Says

LEMMA TenIn ==
    ASSUME NEW a, NEW b, NEW c, NEW S, a \in S, b \in S, c \in S
    PROVE  <<a, a, b, a, a, a, a, a, a, c>> \in Seq(S)
  OBVIOUS

LEMMA FiveIn ==
    ASSUME NEW a, NEW S, a \in S
    PROVE  [i \in 1..5 |-> a] \in Seq(S) /\ <<a>> \in Seq(S) /\ <<>> \in Seq(S)
  <1>1. [i \in 1..5 |-> a] \in Seq(S)
    BY ST!SeqDef
  <1>2. QED
    BY <1>1

(* Every request of the table is answered by its name. *)
LEMMA AnswerNames ==
    ASSUME NEW r, NEW k \in 1..Len(tim561_index), tim561_index[k] = r
    PROVE  Says(Answer(r), Named(r))
  <1>1. PICK x \in 1..Len(tim561_index) : x = find_index(r) /\ tim561_index[x] = r /\ x # 0
    BY Found
  <1>2. CASE r = "sMI 0 3 F4724744"
    <2>1. \/ Answer(r) = <<"sSI 1", "sSI 62", "sSI 2", "sAI 0">>
          \/ Answer(r) = <<"sSI 2", "sAI 0">>
      BY <1>1, <1>2 DEF Answer, sMI_0_3_F4724744_stop, sMI_0_3_F4724744_start
    <2>2. Named(r) = "sAI 0"
      BY <1>2, TableAssumption, Zenon
    <2>3. Says(<<"sSI 2", "sAI 0">>, "sAI 0")
      BY SaysLast, Zenon
    <2>4. Says(<<"sSI 1", "sSI 62", "sSI 2", "sAI 0">>, "sAI 0")
      BY SaysLast, Zenon
    <2>5. QED
      BY <2>1, <2>2, <2>3, <2>4, Zenon
  <1>3. CASE r = "sMI 2"
    <2>1. PICK S : S = {"sAI 2", "sSI 1", "sSI 62", "sSI 85"}
      OBVIOUS
    <2>2. "sAI 2" \in S /\ "sSI 1" \in S /\ "sSI 62" \in S /\ "sSI 85" \in S
      BY <2>1, Zenon
    <2>3. sMI_2 \in Seq(S)
      BY <2>2, TenIn, Zenon DEF sMI_2
    <2>4. Says(sMI_reply, "sAI 2") /\ sMI_reply[1] = "sAI 2"
      BY <2>2, <2>3, SaysFirst, Zenon DEF sMI_reply
    <2>5. Answer(r) = sMI_reply \/ Answer(r) = <<sMI_reply[1]>>
      BY <1>1, <1>3 DEF Answer
    <2>6. Says(<<"sAI 2">>, "sAI 2") /\ Named(r) = "sAI 2"
      BY <1>3, SaysLast, TableAssumption, Zenon
    <2>7. QED
      BY <2>4, <2>5, <2>6, Zenon
  <1>4. CASE r \notin {"sMI 0 3 F4724744", "sMI 2"}
    <2>1. PICK c : c = Named(r)
      OBVIOUS
    <2>2. PICK S : S = {c, "more"}
      OBVIOUS
    <2>3. Answer(r) = <<c>> \o More(r)
      BY <1>1, <1>4, <2>1, TableAssumption DEF Answer
    <2>4. More(r) \in Seq(S)
      <3>1. "more" \in S
        BY <2>2
      <3>2. [i \in 1..5 |-> "more"] \in Seq(S) /\ <<"more">> \in Seq(S) /\ <<>> \in Seq(S)
        BY <3>1, FiveIn, Zenon
      <3>3. QED
        BY <3>2 DEF More
    <2>5. QED
      BY <2>1, <2>2, <2>3, <2>4, SaysFirst, Zenon
  <1>5. QED
    BY <1>2, <1>3, <1>4

LEMMA SickPacket ==
    ASSUME NEW p \in Packets, p[1] = "sick"
    PROVE  p[2] = "unknown" \/ \E k \in 1..Len(tim561_index) : tim561_index[k] = p[2]
  <1>1. CASE p \in Requests
    BY <1>1 DEF Requests
  <1>2. CASE p \in AskedRequests
    BY <1>2, LayoutAssumption DEF AskedRequests
  <1>3. CASE p \in Sets \cup OftenSets \cup Apds \cup Loads \cup Asks \cup {<<"ask", Para, 0>>}
    BY <1>3 DEF Sets, SetPackets, OftenSets, Apds, Loads, Asks
  <1>4. QED
    BY <1>1, <1>2, <1>3, Zenon DEF Packets

LEMMA AskPacket ==
    ASSUME NEW p \in Packets, p[1] = "ask"
    PROVE  p[2] \in Areas
  <1>1. CASE p \in Asks \cup {<<"ask", Para, 0>>}
    BY <1>1 DEF Asks, Areas
  <1>2. CASE p \in Sets \cup OftenSets \cup Apds \cup Loads \cup Requests \cup AskedRequests
    BY <1>2 DEF Sets, SetPackets, OftenSets, Apds, Loads, Requests, AskedRequests
  <1>3. QED
    BY <1>1, <1>2, Zenon DEF Packets

(* What one recv brings: a layer alone, or no layer. *)
LEMMA BufferAlone ==
    ASSUME NEW b \in Buffers
    PROVE  \A i \in 1..Len(b) : b[i][1] = "load" => Len(b) = 1
  <1>1. CASE b \in CommonBuffers \cup Single(Asks) \cup FirstBuffers \cup ChangeBuffers
    <2>1. PICK p : b = <<p>>
      BY <1>1 DEF CommonBuffers, FirstBuffers, ChangeBuffers, Single
    <2>2. QED
      BY <2>1
  <1>2. CASE b \in Pairs
    <2>1. PICK p \in OftenSets \cup Asks, q \in OftenSets \cup Asks \cup AskedRequests : b = <<p, q>>
      BY <1>2 DEF Pairs
    <2>2. p[1] # "load" /\ q[1] # "load"
      BY DEF OftenSets, Asks, AskedRequests
    <2>3. QED
      BY <2>1, <2>2
  <1>3. QED
    BY <1>1, <1>2, Zenon DEF Buffers

(* The packets that are left are some of those that there were. *)
LEMMA TailApart ==
    ASSUME buf \in Seq(Packets), buf # <<>>, LoadAlone, buf' = Tail(buf)
    PROVE  /\ LoadAlone'
           /\ (\A i \in 1..Len(buf) : buf[i][1] # "load")
                 => \A i \in 1..Len(buf') : buf'[i][1] # "load"
           /\ Head(buf)[1] # "load" => \A i \in 1..Len(buf') : buf'[i][1] # "load"
  <1>1. PICK q \in Seq(Packets) : q = buf
    OBVIOUS
  <1>2. PICK t : t = Tail(q)
    OBVIOUS
  <1>3. Len(q) \in Nat /\ Len(q) >= 1 /\ Len(t) = Len(q) - 1 /\ \A i \in 1..Len(t) : t[i] = q[i + 1]
    BY <1>1, <1>2
  <1>4. \A i \in 1..Len(q) : q[i][1] = "load" => Len(q) = 1
    BY <1>1, Zenon DEF LoadAlone
  <1>5. \A i \in 1..Len(t) : t[i][1] # "load"
    BY <1>3, <1>4
  <1>6. buf' = t
    BY <1>1, <1>2
  <1>7. QED
    BY <1>5, <1>6, Zenon DEF LoadAlone

(* A step that leaves the last answer and the EEPROM alone. *)
LEMMA QuietStep ==
    ASSUME RInv, IInv', reply' = reply, kept' = kept,
           pc' = "write" => pc = "write" /\ job'.area = job.area,
           buf' = buf \/ (buf # <<>> /\ buf' = Tail(buf))
    PROVE  RInv'
  <1>1. LoadAlone' /\ ((\A i \in 1..Len(buf) : buf[i][1] # "load")
                          => \A i \in 1..Len(buf') : buf'[i][1] # "load")
    <2>1. CASE buf' = buf
      BY <2>1 DEF RInv, LoadAlone
    <2>2. CASE buf # <<>> /\ buf' = Tail(buf)
      BY <2>2, TailApart DEF RInv, IInv, StateOK
    <2>3. QED
      BY <2>1, <2>2
  <1>2. AskApart'
    BY <1>1 DEF RInv, AskApart
  <1>3. ReadsAnswered'
    BY DEF RInv, ReadsAnswered, LayersAnswered, RequestsAnswered
  <1>4. QED
    BY <1>1, <1>2, <1>3 DEF RInv

(* A start forgets the dialog. *)
LEMMA FreshStep ==
    ASSUME IInv', reply' = NoReply, LoadAlone', pc' # "write"
    PROVE  RInv'
  BY DEF RInv, AskApart, ReadsAnswered, LayersAnswered, RequestsAnswered, NoReply

(* The answer to the read of a layer is what was loaded, all of it: no      *)
(* layer lies beyond what eeprom_sequential_read accepts.                   *)
LEMMA AskStep ==
    ASSUME RInv, IInv', pc = "parse", NEW a \in Areas, Head(buf)[1] # "load", ParseAsk(a)
    PROVE  RInv'
  <1>1. /\ reply' = [k |-> "ask", w |-> a, parts |-> pc2dev_packet(a)]
        /\ buf' = Tail(buf) /\ pc' # "write" /\ UNCHANGED <<mem, kept>>
    BY DEF ParseAsk, NextPacket, rom
  <1>2. buf \in Seq(Packets) /\ buf # <<>> /\ LoadAlone /\ SavedIntact
    BY DEF RInv, IInv, StateOK
  <1>3. LoadAlone' /\ \A i \in 1..Len(buf') : buf'[i][1] # "load"
    BY <1>1, <1>2, TailApart
  <1>4. AskApart'
    BY <1>1, <1>3 DEF AskApart
  <1>5. ASSUME a # Para, kept[a] # <<>>
        PROVE  pc2dev_packet(a) = kept[a]
    <2>1. a \in 0..47
      BY <1>5, LayoutAssumption DEF Areas
    <2>2. Readable(LayerAddr(a))
      BY <2>1 DEF Readable, LayerAddr, AT24C1024_MAX_ADDR, GROUP_OFFSET_ADDR, REGION_SPACE_SIZE
    <2>3. QED
      BY <1>2, <1>5, <2>2 DEF pc2dev_packet, SavedIntact
  <1>6. ReadsAnswered'
    BY <1>1, <1>5 DEF ReadsAnswered, LayersAnswered, RequestsAnswered
  <1>7. QED
    BY <1>3, <1>4, <1>6 DEF RInv

LEMMA SickStep ==
    ASSUME RInv, IInv', NEW r, ParseSick(r),
           r = "unknown" \/ \E k \in 1..Len(tim561_index) : tim561_index[k] = r
    PROVE  RInv'
  <1>1. /\ reply' = [k |-> "sick", w |-> r, parts |-> Answer(r)]
        /\ buf' = <<>> /\ pc' = "idle"
    BY DEF ParseSick
  <1>2. LoadAlone' /\ AskApart'
    BY <1>1 DEF LoadAlone, AskApart
  <1>3. LayersAnswered'
    BY <1>1 DEF LayersAnswered
  <1>4. r # "unknown" => Says(Answer(r), Named(r))
    BY AnswerNames
  <1>5. PICK q : q = Answer(r)
    OBVIOUS
  <1>6. reply'.w = r /\ reply'.parts = q
    BY <1>1, <1>5
  <1>7. RequestsAnswered'
    BY <1>4, <1>5, <1>6, Zenon DEF RequestsAnswered, Says
  <1>8. QED
    BY <1>2, <1>3, <1>7 DEF RInv, ReadsAnswered

(* A save of an area whose last answer, if it was one, is not of this area. *)
LEMMA KeptStep ==
    ASSUME RInv, IInv', NEW a, NEW c, kept' = [kept EXCEPT ![a] = c], reply' = reply,
           a = Para \/ c = <<>> \/ reply.k # "ask",
           buf' = buf \/ (buf # <<>> /\ buf' = Tail(buf)),
           pc' = "write" /\ job'.area # Para => reply.k # "ask"
    PROVE  RInv'
  <1>1. LoadAlone' /\ ((\A i \in 1..Len(buf) : buf[i][1] # "load")
                          => \A i \in 1..Len(buf') : buf'[i][1] # "load")
    <2>1. CASE buf' = buf
      BY <2>1 DEF RInv, LoadAlone
    <2>2. CASE buf # <<>> /\ buf' = Tail(buf)
      BY <2>2, TailApart DEF RInv, IInv, StateOK
    <2>3. QED
      BY <2>1, <2>2
  <1>2. AskApart'
    BY <1>1 DEF RInv, AskApart
  <1>3. DOMAIN kept = Areas
    BY DEF RInv, IInv, StateOK
  <1>4. LayersAnswered'
    BY <1>3 DEF RInv, AskApart, ReadsAnswered, LayersAnswered
  <1>5. RequestsAnswered'
    BY DEF RInv, ReadsAnswered, RequestsAnswered
  <1>6. QED
    BY <1>1, <1>2, <1>4, <1>5 DEF RInv, ReadsAnswered

LEMMA ParseAnswers ==
    ASSUME RInv, IInv', ParseNext
    PROVE  RInv'
  <1>1. pc = "parse" /\ buf \in Seq(Packets) /\ buf # <<>>
    BY DEF ParseNext, RInv, IInv, StateOK
  <1>2. PICK p \in Packets : p = Head(buf)
    BY <1>1, HeadPacket
  <1>3. CASE p[1] = "set" /\ ParseSet(p[2], p[3])
    <2>1. UNCHANGED <<reply, kept>> /\ buf' = Tail(buf) /\ pc' \in {"idle", "parse"}
      BY <1>3 DEF ParseSet, NextPacket, rom
    <2>2. QED
      BY <1>1, <2>1, QuietStep
  <1>4. CASE p[1] = "apd" /\ ParseApd(p[2])
    <2>1. UNCHANGED <<reply, kept>> /\ buf' = Tail(buf) /\ pc' \in {"idle", "parse"}
      BY <1>4 DEF ParseApd, NextPacket, rom
    <2>2. QED
      BY <1>1, <2>1, QuietStep
  <1>5. CASE p[1] = "save" /\ ParseSave
    <2>1. kept' = [kept EXCEPT ![Para] = <<>>] /\ reply' = reply /\ buf' = buf /\ job'.area = Para
      BY <1>5 DEF ParseSave, Begin
    <2>2. QED
      BY <2>1, KeptStep
  <1>6. CASE p[1] = "load" /\ ParseLoad(p[2], p[3])
    <2>1. kept' = [kept EXCEPT ![p[2]] = <<>>] /\ reply' = reply /\ buf' = buf
      BY <1>6 DEF ParseLoad, Begin
    <2>2. reply.k # "ask"
      <3>1. 1 \in 1..Len(buf) /\ buf[1] = p
        BY <1>1, <1>2
      <3>2. QED
        BY <1>6, <3>1 DEF RInv, AskApart
    <2>3. QED
      BY <2>1, <2>2, KeptStep
  <1>7. CASE p[1] = "ask" /\ ParseAsk(p[2])
    BY <1>1, <1>2, <1>7, AskPacket, AskStep
  <1>8. CASE p[1] = "sick" /\ ParseSick(p[2])
    BY <1>8, SickPacket, SickStep
  <1>9. QED
    BY <1>2, <1>3, <1>4, <1>5, <1>6, <1>7, <1>8 DEF ParseNext

LEMMA WriteAnswers ==
    ASSUME RInv, IInv', WriteStep
    PROVE  RInv'
  <1>1. pc = "write" /\ reply' = reply /\ buf # <<>>
    BY DEF WriteStep, RInv, IInv, StateOK
  <1>2. CASE Len(job.todo) > 1
    <2>1. UNCHANGED <<kept, pc, buf>> /\ job' = [job EXCEPT !.todo = Tail(@)]
      BY <1>2 DEF WriteStep
    <2>2. job'.area = job.area
      <3>1. PICK a \in Areas : \E t \in 1..(Bounds(a) + 1) : Todo(job, a, t)
        BY <1>1, Zenon DEF RInv, IInv, SaveOK
      <3>2. QED
        BY <2>1
    <2>3. QED
      BY <1>1, <2>1, <2>2, QuietStep
  <1>3. CASE ~(Len(job.todo) > 1)
    <2>1. /\ kept' = [kept EXCEPT ![job.area] = job.image]
          /\ buf' = Tail(buf) \/ buf' = buf
          /\ pc' # "write"
      BY <1>3 DEF WriteStep, NextPacket
    <2>2. job.area = Para \/ reply.k # "ask"
      BY <1>1 DEF RInv, AskApart
    <2>3. QED
      BY <1>1, <2>1, <2>2, KeptStep
  <1>4. QED
    BY <1>2, <1>3

LEMMA NextAnswers ==
    ASSUME RInv, [Next]_vars
    PROVE  RInv'
  <1>0. IInv'
    BY NextInv DEF RInv
  <1>1. CASE Poll
    <2>1. reply' = NoReply /\ pc' = "parse" /\ \E b \in Buffers : buf' = b
      BY <1>1 DEF Poll
    <2>2. LoadAlone'
      BY <2>1, BufferAlone DEF LoadAlone
    <2>3. QED
      BY <1>0, <2>1, <2>2, FreshStep
  <1>2. CASE ParseNext
    BY <1>0, <1>2, ParseAnswers
  <1>3. CASE WriteStep
    BY <1>0, <1>3, WriteAnswers
  <1>4. CASE StatusSent \/ StatusRead \/ React \/ UNCHANGED vars
    <2>1. UNCHANGED <<reply, kept, job, pc, buf>>
      BY <1>4 DEF StatusSent, StatusRead, React, vars, rom
    <2>2. pc' = "write" => pc = "write" /\ job'.area = job.area
      BY <2>1
    <2>3. QED
      BY <1>0, <2>1, <2>2, QuietStep
  <1>5. CASE Watchdog \/ PowerFail
    <2>1. reply' = NoReply /\ pc' = "idle" /\ buf' = <<>>
      BY <1>5 DEF Watchdog, PowerFail, Boot
    <2>2. LoadAlone'
      BY <2>1 DEF LoadAlone
    <2>3. QED
      BY <1>0, <2>1, <2>2, FreshStep
  <1>6. QED
    BY <1>1, <1>2, <1>3, <1>4, <1>5 DEF Next

(* ReadsAnswered: a layer is read back as it was loaded last, unless its    *)
(* load was cut, and every request of tim561_index gets an answer that      *)
(* names it, although find_index stops at the first of equal entries.       *)
THEOREM AllReadsAnswered == Spec => []ReadsAnswered
  <1>1. Init => RInv
    <2>1. Init => reply = NoReply /\ buf = <<>> /\ pc = "idle"
      BY DEF Init
    <2>2. QED
      BY <2>1, InitInv DEF RInv, LoadAlone, AskApart, ReadsAnswered, LayersAnswered,
                           RequestsAnswered, NoReply
  <1>2. RInv /\ [Next]_vars => RInv'
    BY NextAnswers
  <1>3. RInv => ReadsAnswered
    BY DEF RInv
  <1>4. QED
    BY <1>1, <1>2, <1>3, PTL DEF Spec

=============================================================================
