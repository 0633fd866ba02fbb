-------------------------------- MODULE SysPara --------------------------------
(***************************************************************************)
(* The parameters of the sensor: the fields of Sys_Para that the PC sets,  *)
(* the values pc2dev_parse lets pass, the initializer of SysPara, the      *)
(* registers of the fabric and the list of init_fpga_sys.                  *)
(***************************************************************************)
EXTENDS Integers

ENABLE == 286331153     \* 0x11111111
DISABLE == 572662306    \* 0x22222222
Bit15 == 32768

(* pc2dev_parse, case by case.  Int: the value is not looked at. *)
RangesDrive ==
    [board_type |-> Int, dev_sn |-> Int, dev_type |-> Int, dust_threshold |-> Int,
     laser_enable |-> {ENABLE, DISABLE}, laser_freq |-> Int, laser_pulse_width |-> 3..10,
     laser_presdo |-> Int, laser_presdo_tail |-> Int, laser_recv_delay |-> 0..16,
     motor_enable |-> {ENABLE, DISABLE}, motor_expect_speed |-> 8..15,
     zero_distance_revise |-> 0..1024, zero_angle_revise |-> 2..240,
     gray_distance_revise1 |-> Int, gray_distance_revise2 |-> Int,
     gray_distance_revise3 |-> Int, gray_distance_revise4 |-> Int,
     gray_distance_revise5 |-> Int, gray_inflection1 |-> Int, gray_inflection2 |-> Int,
     gray_inflection3 |-> Int, gray_inflection4 |-> Int,
     noise_diff_setting1 |-> Int, noise_diff_setting2 |-> Int]

(* With bit 15 set, signal_thresold comes from APD_VOL_SETTING, and the     *)
(* other bits are not looked at.                                            *)
RangesSignal ==
    [signal_thresold |-> (0..1024) \cup {v \in Nat : (v \div Bit15) % 2 = 1},
     apd_vol_base |-> Int,
     temp_volt_cof1 |-> 20..45, temp_volt_cof2 |-> 20..45, temp_volt_inflection |-> 0..50,
     temp_distance_cof1 |-> 0..128, temp_distance_cof2 |-> 0..128,
     temp_distance_inflection |-> 0..60, valid_num_threshold |-> 2..39,
     min_display_distance |-> 0..500, first_noise_filter |-> 2..12,
     dust_alarm_threshold |-> 0..100]

RangesOutput ==
    [da_cycle_para1 |-> 0..1023, da_cycle_para2 |-> 0..1023, da_cycle_para3 |-> 0..1023,
     da_cycle_para4 |-> 0..1023, da_cycle_para5 |-> 0..1023, da_cycle_para6 |-> 0..1023,
     da_cycle_para7 |-> 0..1023, da_cycle_para8 |-> 0..1023, da_cycle_para9 |-> 0..1023,
     min_target_size |-> 0..8000, alarm_output_threshold |-> 1..500]

Range ==
    [p \in DOMAIN RangesDrive \cup DOMAIN RangesSignal \cup DOMAIN RangesOutput |->
        IF p \in DOMAIN RangesDrive THEN RangesDrive[p]
        ELSE IF p \in DOMAIN RangesSignal THEN RangesSignal[p]
        ELSE RangesOutput[p]]
Param == DOMAIN Range

(* Sys_Para from byte 256 on. *)
Second ==
    {"laser_presdo_tail", "valid_num_threshold", "gray_inflection3", "gray_inflection4",
     "gray_distance_revise4", "gray_distance_revise5", "dust_threshold",
     "min_target_size", "alarm_output_threshold"}

(* The initializer of SysPara; what it does not name is 0. *)
Initializer ==
    [laser_enable |-> ENABLE, laser_freq |-> 100000000, laser_pulse_width |-> 7,
     laser_recv_delay |-> 2, motor_enable |-> ENABLE, motor_expect_speed |-> 15,
     zero_distance_revise |-> 0, zero_angle_revise |-> 135, gray_distance_revise1 |-> 35,
     gray_distance_revise2 |-> 140, gray_distance_revise3 |-> 140,
     gray_inflection1 |-> 59, gray_inflection2 |-> 120, gray_inflection3 |-> 200,
     noise_diff_setting1 |-> 180, noise_diff_setting2 |-> 100, signal_thresold |-> 100,
     apd_vol_base |-> 520, temp_volt_cof1 |-> 35, temp_volt_cof2 |-> 38,
     temp_volt_inflection |-> 25, temp_distance_cof1 |-> 13, temp_distance_cof2 |-> 9,
     temp_distance_inflection |-> 16, min_display_distance |-> 50,
     first_noise_filter |-> 3, dust_alarm_threshold |-> 35, board_type |-> 1,
     dust_threshold |-> 400, da_cycle_para1 |-> 88, da_cycle_para2 |-> 112,
     da_cycle_para3 |-> 136, da_cycle_para4 |-> 160, da_cycle_para5 |-> 172,
     da_cycle_para6 |-> 148, da_cycle_para7 |-> 124, da_cycle_para8 |-> 100,
     da_cycle_para9 |-> 76, min_target_size |-> 0, alarm_output_threshold |-> 1]

Default == [p \in Param |-> IF p \in DOMAIN Initializer THEN Initializer[p] ELSE 0]

(* The registers of command_module.v after rst_n. *)
ResetValue ==
    [motor_enable |-> 1, laser_freq |-> 1000000, motor_expect_speed |-> 15,
     laser_enable |-> 1, zero_distance_revise |-> 0, zero_angle_revise |-> 135,
     gray_distance_revise1 |-> 144, gray_distance_revise2 |-> 40,
     gray_distance_revise3 |-> 140, gray_distance_revise4 |-> 140,
     gray_distance_revise5 |-> 140, laser_pulse_width |-> 7, laser_recv_delay |-> 0,
     noise_diff_setting1 |-> 180, noise_diff_setting2 |-> 180, apd_vol_base |-> 548,
     signal_thresold |-> 0, temp_volt_cof1 |-> 38, temp_volt_cof2 |-> 38,
     temp_volt_inflection |-> 25, temp_distance_cof1 |-> 4, temp_distance_cof2 |-> 4,
     temp_distance_inflection |-> 25, valid_num_threshold |-> 8, gray_inflection1 |-> 30,
     gray_inflection2 |-> 30, gray_inflection3 |-> 120, gray_inflection4 |-> 220,
     min_display_distance |-> 50, first_noise_filter |-> 3, dust_alarm_threshold |-> 35,
     da_cycle_para1 |-> 133, da_cycle_para2 |-> 152, da_cycle_para3 |-> 172,
     da_cycle_para4 |-> 191, da_cycle_para5 |-> 200, da_cycle_para6 |-> 181,
     da_cycle_para7 |-> 162, da_cycle_para8 |-> 143, da_cycle_para9 |-> 123,
     min_target_size |-> 0, alarm_output_threshold |-> 1, board_type |-> 1]

(* init_fpga_sys sends all but these two. *)
Forwarded == DOMAIN ResetValue
Listed == Forwarded \ {"valid_num_threshold", "dust_alarm_threshold"}
-----------------------------------------------------------------------------
(* What the fabric makes of a word.                                         *)

(* Both thresholds of the APD come under APD_VOL_SETTING, and bit 15 says   *)
(* which of the two is meant: adt7301_top hands the comparator its          *)
(* threshold and keeps the other as the base of the high voltage.           *)
Channels == {"apd_vol_base", "signal_thresold"}
Channel(v) == IF (v \div Bit15) % 2 = 1 THEN "signal_thresold" ELSE "apd_vol_base"

EnableBits == {"laser_enable", "motor_enable"}
TenBits ==
    Channels \cup
    {"gray_inflection1", "gray_inflection2", "gray_inflection3", "gray_inflection4",
     "da_cycle_para1", "da_cycle_para2", "da_cycle_para3", "da_cycle_para4",
     "da_cycle_para5", "da_cycle_para6", "da_cycle_para7", "da_cycle_para8",
     "da_cycle_para9", "alarm_output_threshold"}
SixteenBits == {"zero_distance_revise", "zero_angle_revise", "min_target_size"}

(* How many values a register can hold; laser_freq takes the whole word. *)
Width(p) ==
    CASE p = "board_type" -> 4
      [] p \in TenBits -> 1024
      [] p \in SixteenBits -> 65536
      [] OTHER -> 256

Decode(p, v) ==
    IF p \in EnableBits THEN IF v = ENABLE THEN 1 ELSE 0
    ELSE IF p = "laser_freq" THEN v
    ELSE v % Width(p)

(* Some words leave a register as it is. *)
Taken(p, v) ==
    CASE p = "motor_expect_speed" -> v \in 8..15
      [] p = "signal_thresold" -> Channel(v) = p
      [] p = "apd_vol_base" -> Channel(v) = p /\ v % 1024 \in 200..680
      [] OTHER -> TRUE

Latch(p, old, v) == IF Taken(p, v) THEN Decode(p, v) ELSE old

(* The registers f after one APD_VOL_SETTING. *)
ApdSet(f, v) == [p \in Forwarded |-> IF p \in Channels THEN Latch(p, f[p], v) ELSE f[p]]
=============================================================================
