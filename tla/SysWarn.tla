------------------------------- MODULE SysWarn -------------------------------
(***************************************************************************)
(* The device alarms: the FPGA sends a status frame every second, the      *)
(* firmware keeps the last samples of four quantities in sys_warn and      *)
(* evaluates them after every Depth-th frame (fpga2nios_protocol.c); the   *)
(* main loop reacts by switching the laser off and by setting bit 0 of     *)
(* LASER_FREQ, which drives the alarm pin (main.c, SingleScan.v).  The PC  *)
(* can change the settings in between (pc2dev.c).                          *)
(*                                                                         *)
(* A sample is stored only while its alarm is off: an alarm freezes the    *)
(* samples it was raised on.                                               *)
(***************************************************************************)
EXTENDS Integers

CONSTANTS
    Depth,          \* 5
    Values,         \* what a sample can be
    MotorLow,       \* MOTOR_LOW_SPEED_VALUE: a count as large as this is too slow
    LdMin,          \* LD_NO_WORK_VALUE: a pulse narrower than this is no echo
    TempMax,        \* TEMP_OUT_VALUE
    Thresholds,     \* dust thresholds the PC uses
    PcFreqs         \* values of bit 0 of the LASER_FREQ the PC sends

Kinds == {"motor", "ld", "dust", "temp"}
Slots == 0..(Depth - 1)
Frames == [Kinds -> Values]

ASSUME WarnAssumption ==
    /\ Depth \in Nat \ {0}
    /\ Values \subseteq Nat /\ 0 \in Values
    /\ MotorLow \in Nat /\ LdMin \in Nat /\ TempMax \in Nat
    /\ Thresholds \subseteq Nat /\ Thresholds # {}
    /\ PcFreqs \subseteq {0, 1}

VARIABLES
    sample,         \* motor_cycle_cnt, zero_value, dust_cnt, temp_value
    alarm,          \* motor_low_speed_alarm ... temp_out_alarm
    len,            \* sys_warn.len
    motor_enable,   \* SysPara.motor_enable
    dust_threshold, \* SysPara.dust_threshold
    laser,          \* the FPGA's laser_enable
    pin,            \* bit 0 of the FPGA's laser_freq
    pc,             \* where the main loop is
    recent          \* history: the last Depth status frames, oldest first

settings == <<motor_enable, dust_threshold>>
fpga == <<laser, pin>>
warn == <<sample, alarm, len, recent>>
warnVars == <<sample, alarm, len, motor_enable, dust_threshold, laser, pin, pc, recent>>

WarnInit ==
    /\ sample = [k \in Kinds |-> [i \in Slots |-> 0]]
    /\ alarm = [k \in Kinds |-> FALSE]
    /\ len = 0
    /\ motor_enable \in BOOLEAN /\ dust_threshold \in Thresholds
    /\ laser \in BOOLEAN /\ pin = 0
    /\ pc = "serve"
    /\ recent = [i \in Slots |-> [k \in Kinds |-> 0]]

-----------------------------------------------------------------------------
(* tim561_run serves requests of the PC. *)
PcMotorEnable ==
    /\ pc = "serve"
    /\ motor_enable' = ~motor_enable
    /\ UNCHANGED <<dust_threshold, fpga, warn, pc>>

PcDustThreshold ==
    /\ pc = "serve"
    /\ dust_threshold' \in Thresholds
    /\ UNCHANGED <<motor_enable, fpga, warn, pc>>

PcLaserEnable ==
    /\ pc = "serve"
    /\ laser' \in BOOLEAN
    /\ UNCHANGED <<pin, settings, warn, pc>>

PcLaserFreq ==
    /\ pc = "serve"
    /\ pin' \in PcFreqs
    /\ UNCHANGED <<laser, settings, warn, pc>>

-----------------------------------------------------------------------------
Bad(k, v) ==
    IF k = "motor" THEN v >= MotorLow
    ELSE IF k = "ld" THEN v < LdMin
    ELSE IF k = "dust" THEN v > dust_threshold
    ELSE v > TempMax

(* Faulty variants, used to show that the properties can fail. *)
EvaluateAny(s) ==
    [k \in Kinds |->
        IF k = "temp" THEN Bad(k, s[k][Depth - 1])
        ELSE (k = "motor" => motor_enable) /\ \E i \in Slots : Bad(k, s[k][i])]

(* What a frame changes in the samples. *)
Store(f, at) ==
    [k \in Kinds |-> IF alarm[k] THEN sample[k] ELSE [sample[k] EXCEPT ![at] = f[k]]]

(* process_motor_waring, process_ld_waring, process_window_dust_waring and  *)
(* process_sys_temp_waring, the loop of which leaves the last sample's      *)
(* verdict standing.                                                        *)
Evaluate(s) ==
    [k \in Kinds |->
        IF k = "temp" THEN Bad(k, s[k][Depth - 1])
        ELSE (k = "motor" => motor_enable) /\ \A i \in Slots : Bad(k, s[k][i])]

(* sys_warn.len %= 5: where the frame's samples go. *)
Slot == len % Depth

(* fpga2nios_parse on a status frame; intact says whether its tail is right. *)
Status ==
    /\ pc = "serve"
    /\ \E f \in Frames, intact \in BOOLEAN :
          /\ sample' = Store(f, Slot)
          /\ len' = Slot + 1
          /\ alarm' = IF intact /\ len' = Depth THEN Evaluate(sample') ELSE alarm
          /\ recent' = [i \in Slots |-> IF i < Depth - 1 THEN recent[i + 1] ELSE f]
    /\ pc' = "react"
    /\ UNCHANGED <<settings, fpga>>

NoFrame ==
    /\ pc = "serve"
    /\ pc' = "react"
    /\ UNCHANGED <<settings, fpga, warn>>

(* Faulty variant: the laser is left alone. *)
ReactPinOnly ==
    /\ pc = "react"
    /\ pin' = IF \E k \in Kinds : alarm[k] THEN 1 ELSE pin
    /\ pc' = "done"
    /\ UNCHANGED <<laser, settings, warn>>

(* The main loop's reaction.  Without an alarm nothing is sent. *)
React ==
    /\ pc = "react"
    /\ pin' = IF \E k \in Kinds : alarm[k] THEN 1 ELSE pin
    /\ laser' = (laser /\ ~(alarm["motor"] \/ alarm["ld"]))
    /\ pc' = "done"
    /\ UNCHANGED <<settings, warn>>

Loop ==
    /\ pc = "done"
    /\ pc' = "serve"
    /\ UNCHANGED <<settings, fpga, warn>>

WarnNext ==
    \/ PcMotorEnable \/ PcDustThreshold \/ PcLaserEnable \/ PcLaserFreq
    \/ Status \/ NoFrame \/ React \/ Loop

WarnSpec == WarnInit /\ [][WarnNext]_warnVars

-----------------------------------------------------------------------------
(* len indexes the sample arrays and the alarms are what the loop knows. *)
WarnTypeOK ==
    /\ sample \in [Kinds -> [Slots -> Values]]
    /\ alarm \in [Kinds -> BOOLEAN]
    /\ len \in 0..Depth
    /\ motor_enable \in BOOLEAN /\ dust_threshold \in Thresholds
    /\ laser \in BOOLEAN /\ pin \in {0, 1}
    /\ pc \in {"serve", "react", "done"}
    /\ recent \in [Slots -> Frames]

(* An alarm is raised only on the last Depth status frames, all of them bad *)
(* by the settings of now, and never on samples frozen by an earlier alarm  *)
(* or left from an earlier round; the temperature alarm on the last frame.  *)
RaisedOnRun ==
    [][\A k \in Kinds : ~alarm[k] /\ alarm'[k] =>
          IF k = "temp" THEN Bad(k, recent'[Depth - 1][k])
          ELSE \A i \in Slots : Bad(k, recent'[i][k])]_warnVars

(* At the end of every iteration of the main loop the laser is off if the   *)
(* motor is slow or the laser broken, and the alarm pin is active if one of *)
(* the four alarms is on, whatever the PC has asked for.                    *)
LaserOffUnderAlarm ==
    pc = "done" => /\ alarm["motor"] \/ alarm["ld"] => ~laser
                   /\ (\E k \in Kinds : alarm[k]) => pin = 1
=============================================================================
