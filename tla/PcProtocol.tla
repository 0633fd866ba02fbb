------------------------------ MODULE PcProtocol ------------------------------
(***************************************************************************)
(* What the PC can ask of the sensor (pc2dev_parse, sick_protocol_process) *)
(* and where the settings live: SysPara in RAM, the registers of the       *)
(* fabric, and the EEPROM, which is written burst by burst and survives    *)
(* power failures and watchdog resets.                                     *)
(*                                                                         *)
(* The commands to the fabric are executed at once here; CommandLink has   *)
(* their way through the FIFO, SysWarn how the device alarms arise.        *)
(***************************************************************************)
EXTENDS Eeprom, SysPara, SickTable, FiniteSets

CONSTANTS
    Layers,         \* the layers of regions in the EEPROM
    Image,          \* the parameters saved at the factory
    Tried,          \* [Param -> values the PC sends]
    Often,          \* bound: the only settings, <<parameter, value>>, made at any time
    Asked,          \* bound: SICK requests made at any time, but none after a
                    \* setting that is not one of Often
    Alarms,         \* the device alarms: "stop" (motor or laser), "warn" (only
                    \* dust or temperature)
    MaxChanges,     \* bound: packets that set a parameter or load a layer, none
                    \* after an incomplete one
    MaxFails        \* bound: power failures

Stale == -1             \* what the buffer held before
Para == -1              \* the parameters, beside the layers
MSS == 1460             \* what one TCP segment brings of a longer packet

Slots ==
    LET In(bs) == {bs[i] : i \in 1..Len(bs)}
    IN  In(WriteByte(CUR_ALARM_GROUP + 3)) \cup In(ParaBursts)
          \cup UNION {In(LayerBursts(k)) : k \in Layers}

ASSUME LayoutAssumption ==
    /\ Layers \subseteq 0..47
    /\ Often \subseteq (Param \ {"apd_vol_base", "laser_presdo_tail"}) \X Nat
    /\ Asked \subseteq {tim561_index[i] : i \in 1..Len(tim561_index)} \cup {"unknown"}
    /\ Alarms \subseteq {"stop", "warn"}
    /\ MaxChanges \in Nat /\ MaxFails \in Nat

VARIABLES
    ram,                \* SysPara
    update_pos_flag,    \* ... its first field
    fpga, upload,       \* the registers of the fabric; UPLOAD_EN
    forced,             \* history: the registers an alarm has written since
                        \* SysPara's value went there
    status,             \* upload as the last status frame reports it, not yet read
    sMI_3E_flag,
    mem,                \* the EEPROM: what each burst wrote
    kept,               \* what the last save of an area, if it was not cut, wrote
    pc, buf,            \* where pc2dev_parse is; the packets in the buffer
    job,                \* the save under way
    reply,              \* the last request and what was sent in answer
    changes, fails

settings == <<ram, fpga, forced>>
rom == <<mem, kept, job>>
dialog == <<update_pos_flag, upload, sMI_3E_flag>>
bounds == <<changes, fails>>
vars == <<settings, rom, dialog, status, pc, buf, reply, bounds>>

NoJob == [todo |-> <<>>, area |-> Para, image |-> <<>>, resume |-> FALSE, whole |-> TRUE]
NoReply == [k |-> "none", w |-> "none", parts |-> <<>>]
Areas == {Para} \cup Layers

(* The contents of an area, burst by burst. *)
Page(img, i) == [p \in (IF i = 1 THEN Param \ Second ELSE Second) |-> img[p]]
ParaImage(img) == <<Page(img, 1), Page(img, 2)>>
LayerImage(v, whole) ==
    [i \in 1..8 |-> IF whole \/ i * EEPROM_PAGE_SIZE <= MSS - 9 THEN v ELSE Stale]
AreaBursts == [a \in Areas |-> IF a = Para THEN ParaBursts ELSE LayerBursts(a)]
Stored(m, a) == [i \in 1..Len(AreaBursts[a]) |-> m[AreaBursts[a][i]]]

(* read_sys_para takes what the EEPROM holds if laser_enable looks right. *)
read_sys_para(m) ==
    LET img == [p \in Param |-> m[ParaBursts[IF p \in Second THEN 2 ELSE 1]][p]]
    IN  IF img["laser_enable"] \in {ENABLE, DISABLE}
        THEN [img EXCEPT !["laser_enable"] = ENABLE, !["motor_enable"] = ENABLE,
                         !["dust_threshold"] = 400]
        ELSE [Default EXCEPT !["dust_threshold"] = 400]

ReadValid(m) == m[ParaBursts[1]]["laser_enable"] \in {ENABLE, DISABLE}

(* What was saved at the factory went through pc2dev_parse too; what the PC *)
(* sends is unsigned.                                                       *)
ASSUME ParamAssumption ==
    /\ \A p \in Param : Image[p] \in Range[p] /\ Tried[p] \subseteq Nat
    /\ Channel(Image["apd_vol_base"]) = "apd_vol_base"

(* init_fpga_sys on registers f. *)
init_fpga_sys(f, r) ==
    LET g == [p \in Forwarded |-> IF p \in Listed \ Channels THEN Latch(p, f[p], r[p]) ELSE f[p]]
    IN  ApdSet(ApdSet(g, r["signal_thresold"]), r["apd_vol_base"])

Factory ==
    [s \in Slots |-> CASE s = ParaBursts[1] -> Page(Image, 1)
                       [] s = ParaBursts[2] -> Page(Image, 2)
                       [] OTHER -> 0]

(* main(), up to the loop, on EEPROM m and fabric registers f. *)
Boot(m, f) ==
    /\ ram' = read_sys_para(m) /\ update_pos_flag' = ReadValid(m)
    /\ fpga' = init_fpga_sys(f, ram') /\ forced' = {} /\ upload' = TRUE
    /\ sMI_3E_flag' = FALSE
    /\ pc' = "idle" /\ buf' = <<>> /\ job' = NoJob /\ reply' = NoReply

Init ==
    /\ mem = Factory
    /\ ram = read_sys_para(mem) /\ update_pos_flag = ReadValid(mem)
    /\ fpga = init_fpga_sys(ResetValue, ram) /\ forced = {}
    /\ upload = TRUE /\ status = "none"
    /\ sMI_3E_flag = FALSE
    /\ kept = [a \in Areas |-> Stored(mem, a)]
    /\ pc = "idle" /\ buf = <<>> /\ job = NoJob /\ reply = NoReply
    /\ changes = 0 /\ fails = 0

-----------------------------------------------------------------------------
(* Packets.  A set command has a value, a region a number and whether all   *)
(* of it is in the buffer; a longer packet than a segment may come in two.  *)
SetPackets(P) == UNION {{<<"set", p, v>> : v \in Tried[p]} : p \in P}
Sets == SetPackets(Param \ {"apd_vol_base", "laser_presdo_tail"})
OftenSets == {<<"set", o[1], o[2]>> : o \in Often}
Apds == {<<"apd", v, 0>> : v \in Tried["apd_vol_base"]}
Loads == {<<"load", k, whole>> : k \in Layers, whole \in BOOLEAN}
Asks == {<<"ask", k, 0>> : k \in Layers} \cup {<<"save", Para, 0>>}
Requests == {<<"sick", tim561_index[i], 0>> : i \in 1..Len(tim561_index)} \cup {<<"sick", "unknown", 0>>}
AskedRequests == {<<"sick", r, 0>> : r \in Asked}
Single(P) == {<<p>> : p \in P}
FirstBuffers == Single(Sets \cup Apds \cup Requests \cup {<<"ask", Para, 0>>})
CommonBuffers == Single(Asks \cup AskedRequests)
ChangeBuffers == Single(OftenSets \cup Loads)
Pairs == (OftenSets \cup Asks) \X (OftenSets \cup Asks \cup AskedRequests)

(* What one recv may bring.  All parameters and all requests are tried on a *)
(* sensor that has just started, a few of them at any time; after a setting *)
(* that is not one of Often there are only saves and reads.                 *)
Fresh ==
    /\ changes = 0 /\ fails = 0 /\ reply = NoReply
    /\ dialog = <<TRUE, TRUE, FALSE>> /\ status = "none"

Buffers ==
    (IF changes <= MaxChanges THEN CommonBuffers ELSE Single(Asks))
      \cup (IF Fresh THEN FirstBuffers ELSE {})
      \cup (IF changes < MaxChanges THEN ChangeBuffers ELSE {})
      \cup (IF changes + 1 < MaxChanges THEN Pairs ELSE {})

Count(p) == changes' = IF \E o \in Often : o[1] = p THEN changes + 1 ELSE MaxChanges + 1

(* tim561_run has read a buffer. *)
Poll ==
    /\ pc = "idle"
    /\ \E b \in Buffers : buf' = b
    /\ pc' = "parse" /\ reply' = NoReply
    /\ UNCHANGED <<settings, rom, dialog, status, bounds>>

(* Faulty variants, used to show that the properties can fail. *)
PassOneMore(p, v) == v \in Range[p] \/ (v - 1) \in Range[p]

(* Under its own command signal_thresold has no bit 15. *)
Pass(p, v) == v \in Range[p] /\ (p = "signal_thresold" => v <= 1024)

(* The end of a packet: on to the next one, until the lengths add up. *)
NextPacket ==
    /\ buf' = Tail(buf)
    /\ pc' = IF Tail(buf) = <<>> THEN "idle" ELSE "parse"

(* laser_presdo lies across the two bursts. *)
Fields(p) == IF p = "laser_presdo" THEN {p, "laser_presdo_tail"} ELSE {p}

ParseSetRamOnly(p, v) ==
    /\ Count(p)
    /\ IF Pass(p, v)
       THEN /\ ram' = [q \in Param |-> IF q \in Fields(p) THEN v ELSE ram[q]]
            /\ UNCHANGED <<fpga, forced>>
       ELSE UNCHANGED settings
    /\ NextPacket
    /\ UNCHANGED <<rom, dialog, status, reply, fails>>

(* A parameter: checked, kept, and passed on if the fabric knows it. *)
ParseSet(p, v) ==
    /\ Count(p)
    /\ IF Pass(p, v)
       THEN /\ ram' = [q \in Param |-> IF q \in Fields(p) THEN v ELSE ram[q]]
            /\ fpga' = IF p \in Forwarded \ Channels
                       THEN [fpga EXCEPT ![p] = Latch(p, @, v)] ELSE fpga
            /\ forced' = forced \ {p}
       ELSE UNCHANGED settings
    /\ NextPacket
    /\ UNCHANGED <<rom, dialog, status, reply, fails>>

(* APD_VOL_SETTING, for either channel. *)
ParseApd(v) ==
    /\ Count("apd_vol_base")
    /\ ram' = [ram EXCEPT ![Channel(v)] = v]
    /\ fpga' = ApdSet(fpga, v)
    /\ NextPacket
    /\ UNCHANGED <<forced, rom, dialog, status, reply, fails>>

(* save_sys_para: the bursts are written one after the other. *)
Begin(a, image, before, resume, whole) ==
    /\ job' = [todo |-> before \o [i \in 1..Len(image) |-> <<AreaBursts[a][i], image[i]>>],
               area |-> a, image |-> image, resume |-> resume, whole |-> whole]
    /\ kept' = [kept EXCEPT ![a] = <<>>]
    /\ changes' = IF a = Para THEN changes ELSE IF whole THEN changes + 1 ELSE MaxChanges
    /\ pc' = "write"

ParseSave ==
    /\ Begin(Para, ParaImage(ram), <<>>, FALSE, TRUE)
    /\ UNCHANGED <<settings, mem, dialog, status, buf, reply, fails>>

(* PC_LOAD_REGION_DATA: uploading is stopped while the layer is written, if *)
(* the firmware believes that it is on.  Of a packet that is not complete   *)
(* the missing bytes are taken from what the buffer held before.            *)
ParseLoad(k, whole) ==
    /\ Begin(k, LayerImage(changes + 1, whole),
             <<<<WriteByte(CUR_ALARM_GROUP + 3)[1], 0>>>>, update_pos_flag, whole)
    /\ upload' = (upload /\ ~update_pos_flag)
    /\ UNCHANGED <<settings, mem, update_pos_flag, sMI_3E_flag, status, buf, reply, fails>>

(* The write has ended; after a packet that was not complete len has become *)
(* negative and the loop runs on over the memory behind the buffer.         *)
WriteStep ==
    /\ pc = "write"
    /\ mem' = WriteBurst(mem, Head(job.todo)[1], Head(job.todo)[2])
    /\ IF Len(job.todo) > 1
       THEN /\ job' = [job EXCEPT !.todo = Tail(@)]
            /\ UNCHANGED <<kept, upload, pc, buf>>
       ELSE /\ job' = NoJob
            /\ kept' = [kept EXCEPT ![job.area] = job.image]
            /\ upload' = (upload \/ job.resume)
            /\ IF job.whole THEN NextPacket ELSE pc' = "runaway" /\ UNCHANGED buf
    /\ UNCHANGED <<settings, update_pos_flag, sMI_3E_flag, status, reply, bounds>>

pc2dev_packet(a) ==
    IF a = Para THEN ParaImage(ram) ELSE IF Readable(LayerAddr(a)) THEN Stored(mem, a) ELSE <<>>

(* PC_REQ_REGION_DATA, PC_REQ_RADAR_PARA *)
ParseAsk(a) ==
    /\ reply' = [k |-> "ask", w |-> a, parts |-> pc2dev_packet(a)]
    /\ NextPacket
    /\ UNCHANGED <<settings, rom, dialog, status, bounds>>

-----------------------------------------------------------------------------
(* sick_protocol_process takes the whole of the buffer as one request. *)
find_indexNext(r) ==
    IF \E i \in 1..Len(tim561_index) : tim561_index[i] = r
    THEN CHOOSE i \in 1..Len(tim561_index) : i = Len(tim561_index) \/ tim561_index[i + 1] = r
    ELSE 0

find_index(r) ==
    IF \E i \in 1..Len(tim561_index) : tim561_index[i] = r
    THEN CHOOSE i \in 1..Len(tim561_index) : tim561_index[i] = r /\ \A j \in 1..(i - 1) : tim561_index[j] # r
    ELSE 0

sMI_0_3_F4724744_stop == <<"sSI 1", "sSI 62", "sSI 2", "sAI 0">>
sMI_0_3_F4724744_start == <<"sSI 2", "sAI 0">>
sMI_2 == <<"sSI 62", "sSI 62", "sSI 85", "sSI 62", "sSI 62", "sSI 62", "sSI 62",
           "sSI 62", "sSI 62", "sSI 1">>
sMI_reply == <<"sAI 2">> \o sMI_2
More(r) == CASE r = "E6" -> [i \in 1..5 |-> "more"]
             [] r \in {"15B", "1DC"} -> <<"more">>
             [] OTHER -> <<>>

Answer(r) ==
    IF find_index(r) = 0 THEN <<>>
    ELSE CASE r = "sMI 0 3 F4724744" ->
                IF update_pos_flag THEN sMI_0_3_F4724744_stop ELSE sMI_0_3_F4724744_start
           [] r = "sMI 2" -> IF sMI_3E_flag THEN sMI_reply ELSE <<sMI_reply[1]>>
           [] OTHER -> <<tim561_respons[find_index(r)]>> \o More(r)

(* "sMI 2" after "sMI 3E" starts the uploading, after "sMI 3F" it stops it. *)
ParseSick(r) ==
    /\ reply' = [k |-> "sick", w |-> r, parts |-> Answer(r)]
    /\ sMI_3E_flag' = CASE r = "sMI 3E" -> TRUE [] r = "sMI 3F" -> FALSE [] OTHER -> sMI_3E_flag
    /\ IF r = "sMI 2"
       THEN upload' = sMI_3E_flag /\ update_pos_flag' = sMI_3E_flag
       ELSE UNCHANGED <<upload, update_pos_flag>>
    /\ buf' = <<>> /\ pc' = "idle"
    /\ UNCHANGED <<settings, rom, status, bounds>>

ParseNext ==
    /\ pc = "parse"
    /\ LET p == Head(buf)
       IN  \/ p[1] = "set" /\ ParseSet(p[2], p[3])
           \/ p[1] = "apd" /\ ParseApd(p[2])
           \/ p[1] = "save" /\ ParseSave
           \/ p[1] = "load" /\ ParseLoad(p[2], p[3])
           \/ p[1] = "ask" /\ ParseAsk(p[2])
           \/ p[1] = "sick" /\ ParseSick(p[2])

-----------------------------------------------------------------------------
(* The fabric builds a status frame; the main loop reads it, later. *)
StatusSent ==
    /\ status = "none"
    /\ status' = IF upload THEN "on" ELSE "off"
    /\ UNCHANGED <<settings, rom, dialog, pc, buf, reply, bounds>>

StatusReadWrongBit ==
    /\ pc = "idle" /\ status # "none"
    /\ status' = "none" /\ update_pos_flag' = FALSE
    /\ UNCHANGED <<settings, rom, upload, sMI_3E_flag, pc, buf, reply, bounds>>

StatusRead ==
    /\ pc = "idle" /\ status # "none"
    /\ status' = "none" /\ update_pos_flag' = (status = "on")
    /\ UNCHANGED <<settings, rom, upload, sMI_3E_flag, pc, buf, reply, bounds>>

(* The main loop's answer to a device alarm, in every round as long as the  *)
(* alarm lasts.  When it clears, nothing sends SysPara's values again.      *)
AlarmWord == [laser_freq |-> 1, laser_enable |-> 0]

React ==
    /\ pc = "idle"
    /\ \E a \in Alarms :
          LET sent == IF a = "stop" THEN {"laser_freq", "laser_enable"} ELSE {"laser_freq"}
          IN  /\ fpga' = [p \in Forwarded |-> IF p \in sent THEN Latch(p, fpga[p], AlarmWord[p])
                                              ELSE fpga[p]]
              /\ forced' = forced \cup sent
    /\ UNCHANGED <<ram, rom, dialog, status, pc, buf, reply, bounds>>

WatchdogFed == pc = "runaway" /\ UNCHANGED vars

(* The watchdog ends the runaway; the fabric goes on as it is. *)
Watchdog ==
    /\ pc = "runaway"
    /\ Boot(mem, fpga)
    /\ UNCHANGED <<mem, kept, status, bounds>>

(* A power failure, at any time: the fabric is reset too. *)
PowerFail ==
    /\ fails < MaxFails /\ fails' = fails + 1
    /\ Boot(mem, ResetValue) /\ status' = "none"
    /\ UNCHANGED <<mem, kept, changes>>

Next ==
    \/ Poll \/ ParseNext \/ WriteStep \/ StatusSent \/ StatusRead
    \/ React \/ Watchdog \/ PowerFail

(* The processor runs on, or is restarted; a status frame comes every       *)
(* second, and the main loop reads it when it comes round.                  *)
Spec == Init /\ [][Next]_vars
           /\ WF_<<pc, buf, job>>(ParseNext \/ WriteStep \/ Watchdog)
           /\ WF_status(StatusSent) /\ SF_status(StatusRead)

-----------------------------------------------------------------------------
(* Every variable is of its type. *)
TypeOK ==
    /\ ram \in [Param -> Int] /\ fpga \in [Forwarded -> Int]
    /\ forced \subseteq DOMAIN AlarmWord
    /\ dialog \in BOOLEAN \X BOOLEAN \X BOOLEAN /\ status \in {"none", "on", "off"}
    /\ DOMAIN mem = Slots /\ DOMAIN kept = Areas
    /\ \A k \in Layers, i \in 1..8 : Stored(mem, k)[i] \in Nat \cup {Stale}
    /\ pc \in {"idle", "parse", "write", "runaway"} /\ (pc = "write" <=> job.todo # <<>>)
    /\ changes \in 0..(MaxChanges + 1) /\ fails \in 0..MaxFails

(* No parameter in force is outside the range that pc2dev_parse protects,   *)
(* whatever was set, saved, cut off by a power failure and read back:       *)
(* read_sys_para checks four bytes of 308.                                  *)
InRange == \A p \in Param : ram[p] \in Range[p]

(* What has been saved is there to be read, burst for burst, whichever      *)
(* other areas have been written since, completely or not: areas do not     *)
(* overlap and a burst never wraps inside its page.                         *)
SavedIntact == \A a \in Areas : kept[a] # <<>> => Stored(mem, a) = kept[a]

(* The word a register should have been given last: an alarm's if one has   *)
(* come since SysPara's value was sent, SysPara's value otherwise.          *)
Meant(p) == IF p \in forced THEN AlarmWord[p] ELSE ram[p]

(* Each register init_fpga_sys fills holds what command_module.v makes of   *)
(* the parameter in SysPara, after settings, power failures and watchdog    *)
(* resets in any order: an enable bit, or the low bits that the register    *)
(* has room for.  Exceptions:                                               *)
(*  - laser_freq after a device alarm holds 1, laser_enable after a motor   *)
(*    or laser alarm 0, also when it has cleared, until the PC sets the     *)
(*    parameter or the firmware boots (forced);                             *)
(*  - a value that is not Taken says nothing of its register: a             *)
(*    signal_thresold without bit 15, set under its own command, never      *)
(*    reaches the comparator, and the base of the high voltage is kept if   *)
(*    the low ten bits of apd_vol_base are not in 200..680;                 *)
(*  - VALID_NUM_THRESHOLD and DUST_ALARM_THRESHOLD are not Listed: they are *)
(*    lost when the fabric is configured anew.                              *)
InForce == \A p \in Listed : Taken(p, Meant(p)) => fpga[p] = Decode(p, Meant(p))

Named(r) == IF r \in DOMAIN reference THEN reference[r] ELSE r

(* The two tables agree entry by entry; one request has an answer of its    *)
(* own.  They are the program's, not parameters: to evaluate this is to     *)
(* know it.                                                                 *)
ASSUME TableAssumption ==
    /\ \A i \in 1..Len(tim561_index) :
          tim561_index[i] = "sMI 0 3 F4724744" \/ tim561_respons[i] = Named(tim561_index[i])
    /\ Named("sMI 0 3 F4724744") = "sAI 0" /\ Named("sMI 2") = "sAI 2"

LayersAnswered ==
    reply.k = "ask" /\ reply.w # Para /\ kept[reply.w] # <<>> => reply.parts = kept[reply.w]

RequestsAnswered ==
    reply.k = "sick" /\ reply.w # "unknown"
      => \E j \in 1..Len(reply.parts) : reply.parts[j] = Named(reply.w)

(* A request that the table knows gets an answer that names it; the read of *)
(* a layer brings what was loaded last.                                     *)
ReadsAnswered == LayersAnswered /\ RequestsAnswered

(* update_pos_flag, which says whether a layer may be written without       *)
(* stopping the upload, agrees with the fabric again and again, although it *)
(* is overwritten with what an older status frame says.                     *)
FlagCatchesUp == []<>(update_pos_flag = upload)

(* The parser always comes back to the main loop. *)
LoopEnds == []<>(pc = "idle")
=============================================================================
