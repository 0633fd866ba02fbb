----------------------------- MODULE RegionSwitch -----------------------------
(***************************************************************************)
(* Which alarm regions the FPGA compares with.  A four-bit switch selects  *)
(* one of the groups stored in the EEPROM; a group has three layers.  The  *)
(* switch is sampled twice: by the main loop (main.c) and by the timer     *)
(* interrupt (user_interrupt.c), both working on the same four globals of  *)
(* alarm_region.  The PC can rewrite a layer, select a group itself, ask   *)
(* for the status again, or have the processor reset by the watchdog.      *)
(*                                                                         *)
(* The main loop is modelled access by access: the build is -O0, so every  *)
(* global is loaded and stored where the code says so and the interrupt    *)
(* can come between any two accesses.  The interrupt itself is one step.   *)
(*                                                                         *)
(* Loading a layer is one packet of the command link (module CommandLink). *)
(* The link has one way to lose a packet: while the FSM of the FPGA waits  *)
(* for words of an earlier packet that never came, it eats the next one.   *)
(* That is the state after every boot (write_laser_presdo announces more   *)
(* words than it sends, module BootLink) and after a reset in mid-packet.  *)
(***************************************************************************)
EXTENDS Integers

CONSTANTS
    Groups,         \* positions of the switch in use (0..15)
    Layers,         \* 0..2: inner, middle, outer
    TurnAtBoot,     \* whether the switch may be turned before the timer runs
    MaxTurns,       \* bound on the number of times the switch is turned
    MaxOps          \* bound on the number of requests of the PC

ASSUME RegionAssumption ==
    /\ Groups \subseteq Nat /\ 0 \in Groups
    /\ Layers = 0..2
    /\ TurnAtBoot \in BOOLEAN
    /\ MaxTurns \in Nat /\ MaxOps \in Nat

Torn == -1          \* an EEPROM layer whose page writes were cut short
Nothing == [grp |-> -1, ver |-> -1]
Garbage == [grp |-> -1, ver |-> -2]  \* half a layer, and words of another packet

VARIABLES
    io,             \* the switch, as rd_switch_io_value sees it
    l0, l1,         \* alarm_region.last_io_value[0], [1]
    flag,           \* alarm_region.change_region_flag
    value,          \* alarm_region.change_region_value
    rom,            \* [Groups -> [Layers -> version]]: the EEPROM
    fpga,           \* [Layers -> contents]: the region RAMs
    swallow,        \* the FSM of command_module.v will eat the next packet
    missed,         \* layers whose last packet was eaten
    reported,       \* the last UP_ALARM_IO_VALUE sent
    isPowerUp,      \* the value is to be reported once a client is connected
    pcSelected,     \* PC_SET_ALARM_REGION overrode the switch
    reset_nios,     \* SysStatus.reset_nios: the watchdog is no longer fed
    isr,            \* timer_initial has been called
    pc,             \* where main is
    tmp,            \* the processor register main works in
    arg,            \* the layer and group main is working on
    turns, ops      \* counters for the bounds

globals == <<l0, l1, flag, value>>
link == <<swallow, missed>>
told == <<reported, isPowerUp>>
vars == <<io, l0, l1, flag, value, rom, fpga, swallow, missed, reported, isPowerUp,
          pcSelected, reset_nios, isr, pc, tmp, arg, turns, ops>>

Places == {"boot", "bootLoad", "top", "set", "write", "written", "compare",
           "io", "l0", "getL0", "test", "flag", "getValue", "value", "getL1", "l1",
           "check", "clear", "load", "report"}

Contents(g, l) == [grp |-> g, ver |-> rom[g][l]]

Init ==
    /\ io \in Groups
    /\ l0 = 0 /\ l1 = 0 /\ flag = 0 /\ value = 0
    /\ rom = [g \in Groups |-> [l \in Layers |-> 0]]
    /\ fpga = [l \in Layers |-> Nothing]
    /\ swallow = FALSE
    /\ missed = {}
    /\ reported = -1 /\ isPowerUp = FALSE
    /\ pcSelected = FALSE
    /\ reset_nios = FALSE
    /\ isr = FALSE
    /\ pc = "boot"
    /\ tmp = 0
    /\ arg = [l |-> 0, g |-> 0]
    /\ turns = 0 /\ ops = 0

-----------------------------------------------------------------------------
(* The environment: someone turns the switch. *)
TurnSwitch ==
    /\ turns < MaxTurns
    /\ TurnAtBoot \/ isr
    /\ \E v \in Groups \ {io} : io' = v
    /\ turns' = turns + 1
    /\ UNCHANGED <<l0, l1, flag, value, rom, fpga, link, told, pcSelected, reset_nios,
                   isr, pc, tmp, arg, ops>>

(* The timer interrupt, every fourth tick of it: sample the switch. *)
TimerIsr ==
    /\ isr
    /\ l0' = io
    /\ IF io # l1 THEN flag' = 1 /\ value' = io ELSE UNCHANGED <<flag, value>>
    /\ l1' = io
    /\ UNCHANGED <<io, rom, fpga, link, told, pcSelected, reset_nios, isr, pc, tmp, arg,
                   turns, ops>>

-----------------------------------------------------------------------------
(* main: everything below leaves the environment alone. *)
Env == UNCHANGED <<io, turns>>

Goto(from, to) == pc = from /\ pc' = to

(* Before the loop: take the switch and load its group, layer by layer. *)
Boot ==
    /\ Goto("boot", "bootLoad")
    /\ value' = io /\ flag' = 1 /\ isPowerUp' = TRUE
    /\ arg' = [arg EXCEPT !.l = 0]
    /\ UNCHANGED <<l0, l1, rom, fpga, link, reported, pcSelected, reset_nios, isr, tmp, ops>>
    /\ Env

(* region_read_from_rom: EEPROM -> alarm_region.buffer -> FPGA. *)
LoadLayer(g) ==
    /\ fpga' = IF swallow THEN fpga ELSE [fpga EXCEPT ![arg.l] = Contents(g, arg.l)]
    /\ missed' = IF swallow THEN missed \cup {arg.l} ELSE missed \ {arg.l}

NextLayer(from, done) ==
    /\ pc = from
    /\ IF arg.l = 2 THEN pc' = done /\ arg' = [arg EXCEPT !.l = 0]
       ELSE pc' = from /\ arg' = [arg EXCEPT !.l = @ + 1]

(* ... and after the last layer init_fpga_sys sends the parameters and      *)
(* laser_presdo, and the timer is started.                                  *)
BootLoad ==
    /\ NextLayer("bootLoad", "top")
    /\ LoadLayer(value)
    /\ swallow' = (arg.l = 2)
    /\ isr' = (arg.l = 2)
    /\ UNCHANGED <<l0, l1, flag, value, rom, told, pcSelected, reset_nios, tmp, ops>>
    /\ Env

-----------------------------------------------------------------------------
(* tim561_run: a request of the PC is served, or none is there. *)
Request == pc = "top" /\ ops < MaxOps /\ ops' = ops + 1

(* PC_SET_ALARM_REGION: load the group the PC names. *)
PcSetRegion ==
    /\ Request
    /\ pc' = "set"
    /\ \E g \in Groups : arg' = [l |-> 0, g |-> g]
    /\ pcSelected' = TRUE
    /\ UNCHANGED <<l0, l1, flag, value, rom, fpga, link, told, reset_nios, isr, tmp>>
    /\ Env

PcSetLoad ==
    /\ NextLayer("set", "top")
    /\ LoadLayer(arg.g)
    /\ swallow' = FALSE
    /\ UNCHANGED <<l0, l1, flag, value, rom, told, pcSelected, reset_nios, isr, tmp, ops>>
    /\ Env

(* PC_LOAD_REGION_DATA: rewrite one layer in the EEPROM, page by page ... *)
PcLoadRegion ==
    /\ Request
    /\ pc' = "write"
    /\ \E g \in Groups, l \in Layers :
          /\ arg' = [l |-> l, g |-> g]
          /\ rom' = [rom EXCEPT ![g][l] = Torn]
    /\ UNCHANGED <<l0, l1, flag, value, fpga, link, told, pcSelected, reset_nios, isr, tmp>>
    /\ Env

RomWritten ==
    /\ Goto("write", "written")
    /\ rom' = [rom EXCEPT ![arg.g][arg.l] = ops]
    /\ UNCHANGED <<l0, l1, flag, value, fpga, link, told, pcSelected, reset_nios, isr, tmp,
                   arg, ops>>
    /\ Env

(* ... and have it loaded if it belongs to the group of the switch. *)
CompareValue ==
    /\ pc = "written"
    /\ pc' = IF value = arg.g THEN "compare" ELSE "top"
    /\ arg' = [arg EXCEPT !.l = 0]
    /\ UNCHANGED <<l0, l1, flag, value, rom, fpga, link, told, pcSelected, reset_nios, isr,
                   tmp, ops>>
    /\ Env

RaiseFlag ==
    /\ Goto("compare", "top")
    /\ flag' = 1
    /\ UNCHANGED <<l0, l1, value, rom, fpga, link, told, pcSelected, reset_nios, isr, tmp,
                   arg, ops>>
    /\ Env

(* A UDP search of the PC asks for the value again. *)
UdpSearch ==
    /\ Request
    /\ pc' = pc
    /\ flag' = 1 /\ isPowerUp' = TRUE
    /\ UNCHANGED <<l0, l1, value, rom, fpga, link, reported, pcSelected, reset_nios, isr, tmp, arg>>
    /\ Env

(* PC_RESET_NIOS. *)
PcReset ==
    /\ Request
    /\ pc' = pc
    /\ reset_nios' = TRUE
    /\ UNCHANGED <<l0, l1, flag, value, rom, fpga, link, told, pcSelected, isr, tmp, arg>>
    /\ Env

Served ==
    /\ Goto("top", "io")
    /\ UNCHANGED <<l0, l1, flag, value, rom, fpga, link, told, pcSelected, reset_nios, isr,
                   tmp, arg, ops>>
    /\ Env

-----------------------------------------------------------------------------
(* The sampling of the main loop, one access at a time. *)
Rest == UNCHANGED <<rom, fpga, link, told, pcSelected, reset_nios, isr, arg, ops>> /\ Env

ReadIo    == Goto("io", "l0") /\ tmp' = io /\ UNCHANGED globals /\ Rest
StoreL0   == Goto("l0", "getL0") /\ l0' = tmp /\ UNCHANGED <<l1, flag, value, tmp>> /\ Rest
GetL0     == Goto("getL0", "test") /\ tmp' = l0 /\ UNCHANGED globals /\ Rest
TestL1    == /\ pc = "test"
             /\ pc' = IF tmp # l1 THEN "flag" ELSE "getL1"
             /\ UNCHANGED <<l0, l1, flag, value, tmp>> /\ Rest
StoreFlag == Goto("flag", "getValue") /\ flag' = 1 /\ UNCHANGED <<l0, l1, value, tmp>> /\ Rest
GetValue  == Goto("getValue", "value") /\ tmp' = l0 /\ UNCHANGED globals /\ Rest
StoreValue == Goto("value", "getL1") /\ value' = tmp /\ UNCHANGED <<l0, l1, flag, tmp>> /\ Rest
GetL1     == Goto("getL1", "l1") /\ tmp' = l0 /\ UNCHANGED globals /\ Rest
StoreL1   == Goto("l1", "check") /\ l1' = tmp /\ UNCHANGED <<l0, flag, value, tmp>> /\ Rest

(* A client is connected for the first time since power-up or the last UDP  *)
(* search: report the value, whether it is loaded yet or not.               *)
PowerUpReport ==
    /\ pc = "check" /\ isPowerUp
    /\ isPowerUp' = FALSE
    /\ reported' = value
    /\ UNCHANGED <<l0, l1, flag, value, tmp, rom, fpga, link, pcSelected, reset_nios, isr, pc,
                   arg, ops>>
    /\ Env

(* The reload: the flag is cleared before the layers are loaded, and value  *)
(* is read anew for each of them.                                           *)
CheckFlagPcWins ==  \* faulty variant: the selection of the PC blocks the reload
    /\ pc = "check"
    /\ pc' = IF flag = 1 /\ ~pcSelected THEN "clear" ELSE "top"
    /\ UNCHANGED <<l0, l1, flag, value, tmp>> /\ Rest

CheckFlag ==
    /\ pc = "check"
    /\ pc' = IF flag = 1 THEN "clear" ELSE "top"
    /\ UNCHANGED <<l0, l1, flag, value, tmp>> /\ Rest

ClearFlag ==
    /\ Goto("clear", "load")
    /\ flag' = 0
    /\ pcSelected' = FALSE
    /\ UNCHANGED <<l0, l1, value, tmp, rom, fpga, link, told, reset_nios, isr, arg, ops>>
    /\ Env

ReloadLayer ==
    /\ NextLayer("load", "report")
    /\ LoadLayer(value)
    /\ swallow' = FALSE
    /\ UNCHANGED <<l0, l1, flag, value, tmp, rom, told, pcSelected, reset_nios, isr, ops>>
    /\ Env

ReportClears ==  \* faulty variant: the flag is cleared once the reload is done
    /\ Goto("report", "top")
    /\ reported' = value
    /\ flag' = 0
    /\ UNCHANGED <<l0, l1, value, tmp, rom, fpga, link, isPowerUp, pcSelected, reset_nios, isr, arg, ops>>
    /\ Env

Report ==
    /\ Goto("report", "top")
    /\ reported' = value
    /\ UNCHANGED <<l0, l1, flag, value, tmp, rom, fpga, link, isPowerUp, pcSelected, reset_nios, isr, arg, ops>>
    /\ Env

(* The watchdog is no longer fed and fires, wherever main happens to be.    *)
(* Memory is initialised again; the FPGA and the EEPROM keep what they hold. *)
(* In the middle of a region packet the FSM is left waiting for its rest,   *)
(* and takes it from the next packet.                                       *)
WatchdogReset ==
    /\ reset_nios
    /\ pc' = "boot"
    /\ l0' = 0 /\ l1' = 0 /\ flag' = 0 /\ value' = 0
    /\ tmp' = 0 /\ arg' = [l |-> 0, g |-> 0]
    /\ isr' = FALSE /\ reset_nios' = FALSE /\ isPowerUp' = FALSE
    /\ \/ UNCHANGED <<fpga, swallow>>
       \/ /\ pc \in {"bootLoad", "set", "load"} /\ ~swallow
          /\ fpga' = [fpga EXCEPT ![arg.l] = Garbage]
          /\ swallow' = TRUE
    /\ UNCHANGED <<rom, missed, reported, pcSelected, ops>>
    /\ Env

Main ==
    \/ Boot \/ BootLoad
    \/ PcSetLoad \/ RomWritten \/ CompareValue \/ RaiseFlag \/ Served
    \/ ReadIo \/ StoreL0 \/ GetL0 \/ TestL1 \/ StoreFlag \/ GetValue \/ StoreValue \/ GetL1 \/ StoreL1
    \/ PowerUpReport \/ CheckFlag \/ ClearFlag \/ ReloadLayer \/ Report

Pc == PcSetRegion \/ PcLoadRegion \/ UdpSearch \/ PcReset

Next == TurnSwitch \/ TimerIsr \/ Main \/ Pc \/ WatchdogReset

(* The loop never blocks for good, and the timer keeps interrupting. *)
Spec == Init /\ [][Next]_vars /\ WF_vars(Main) /\ WF_vars(TimerIsr)

-----------------------------------------------------------------------------
(* The globals of alarm_region name groups that exist, and the loaders      *)
(* address no layer but the three of a group.                               *)
TypeOK ==
    /\ io \in Groups /\ l0 \in Groups /\ l1 \in Groups /\ value \in Groups /\ tmp \in Groups
    /\ flag \in {0, 1}
    /\ rom \in [Groups -> [Layers -> (0..MaxOps) \cup {Torn}]]
    /\ fpga \in [Layers -> [grp : Groups, ver : (0..MaxOps) \cup {Torn}]
                            \cup {Nothing, Garbage}]
    /\ swallow \in BOOLEAN /\ missed \subseteq Layers
    /\ reported \in Groups \cup {-1} /\ isPowerUp \in BOOLEAN
    /\ pcSelected \in BOOLEAN /\ reset_nios \in BOOLEAN /\ isr \in BOOLEAN
    /\ pc \in Places
    /\ arg \in [l : Layers, g : Groups]
    /\ turns \in 0..MaxTurns /\ ops \in 0..MaxOps

(* The layers of group g as the EEPROM holds them now. *)
InForce(g) == \A l \in Layers \ missed : fpga[l] = Contents(g, l)

(* At the top of the loop with no reload pending, the layers in the FPGA    *)
(* are those the EEPROM holds for change_region_value, all from one group   *)
(* and none older than the EEPROM, and the PC has been told that group,     *)
(* unless the PC has selected a group itself since.  However the interrupt  *)
(* fell between the accesses of main, no reload was lost.  The only layer   *)
(* the link can have lost is the first one sent, the innermost.             *)
Settled ==
    (pc = "top" /\ flag = 0) => /\ missed \subseteq {0}
                                /\ pcSelected \/ InForce(value)
                                /\ reported = value

(* Once the switch is left alone and the PC is quiet, reloading stops with  *)
(* the FPGA holding the group of change_region_value.                       *)
EventuallySettled ==
    <>[](flag = 0 /\ (pcSelected \/ InForce(value)))

(* Once the switch is left alone, change_region_value is its position.      *)
SwitchFollowed == <>[](value = io)
=============================================================================
