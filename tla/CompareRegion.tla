---------------------------- MODULE CompareRegion ----------------------------
(***************************************************************************)
(* The region alarm: hdl/compare_region.v with the sector control of       *)
(* calc_distance/hdl/data_select.v and the write port of the region RAM in *)
(* command_module.v.  The three layers are three copies of the same logic  *)
(* that share nothing but the point counter; this is one of them.  With    *)
(* min_target_size = 0 (the default) a single point inside the boundary is *)
(* enough; otherwise the widths of neighbouring points are added up and    *)
(* compared with the size.                                                 *)
(*                                                                         *)
(* Points are thousands of clocks apart, so a step is a point: the clock   *)
(* of target_valid and the 36 clocks after it, in which the next boundary  *)
(* is read and the point is judged.  Only the last point is different:     *)
(* cycle_enable falls two clocks after it.                                 *)
(***************************************************************************)
EXTENDS Integers

CONSTANTS
    N,              \* points of a revolution (811)
    Distances,      \* what target_pos can be
    NoEdge,         \* 0xffff: no boundary here, or nothing measured
    Sizes,          \* what the PC sets min_target_size to (mm)
    Cap,            \* 500: where alarm_cnt stops, and the largest threshold
    MaxWrites,      \* bound: words written to the RAM while it is used
    MaxSettings     \* bound: changes of the threshold and of the size

ASSUME CompareAssumption ==
    /\ N \in Nat /\ N >= 2
    /\ Distances \subseteq 0..NoEdge /\ NoEdge \in Distances /\ NoEdge \in Nat
    /\ Cap \in Nat \ {0}
    /\ MaxWrites \in Nat /\ MaxSettings \in Nat

ASSUME SizesAssumption == Sizes \subseteq 0..8000

VARIABLES
    region,         \* the RAM: a boundary for every point
    cycle,          \* cycle_enable
    rd_cnt,         \* points of this revolution so far
    target_pos_r0,  \* the last point; 0 outside the sector
    rddata,         \* the boundary read last
    sum_r,          \* width of the target so far, 0.1 mm
    region_flag,    \* TRUE: no point of this revolution was inside
    alarm_cnt,      \* revolutions in a row with a point inside
    alarm_io_r,     \* the alarm
    threshold_com,  \* alarm_output_threshold_com
    min_target_size,
    run,            \* history: revolutions in a row, under these settings
    writes, settings

vars == <<region, cycle, rd_cnt, target_pos_r0, rddata, sum_r, region_flag, alarm_cnt,
          alarm_io_r, threshold_com, min_target_size, run, writes, settings>>
counters == <<writes, settings>>

Points == 0..(N - 1)
Inside(pos, edge) == edge # NoEdge /\ pos <= edge

Init ==
    /\ region \in [Points -> Distances]
    /\ cycle = FALSE /\ rd_cnt = 0
    /\ target_pos_r0 = 0 /\ rddata = 0
    /\ sum_r = 0 /\ region_flag = TRUE
    /\ alarm_cnt = 0 /\ alarm_io_r = FALSE /\ threshold_com = 1
    /\ min_target_size = 0 /\ run = 0
    /\ writes = 0 /\ settings = 0

-----------------------------------------------------------------------------
(* Faulty variants, used to show that the properties can fail. *)
AlarmCountUncapped == IF region_flag THEN 0 ELSE alarm_cnt + 1

RaiseLate(flag) == alarm_io_r \/ (flag /\ alarm_cnt > threshold_com)

KeepAlarm == alarm_io_r

RestartNever(d, edge) == FALSE

(* range_des: the width of a point, r * 2 pi / 1080, from mul_com and div_31bits. *)
range_des(pos) == (pos * 58) \div 1000

min_target_size_f == (min_target_size * 10) % 131072

(* judge_0: too small, the point being looked at (sum_0) included. *)
Judge(inside, range) ==
    sum_r + (IF sum_r > 0 /\ inside THEN range ELSE 0) < min_target_size_f

(* judge_0 as the last point has left it. *)
TooSmall == Judge(Inside(target_pos_r0, rddata), range_des(target_pos_r0))

(* What region_flag and the alarm look at: flag_0, or judge_0 when a size   *)
(* is set.                                                                  *)
Flag == IF min_target_size > 0 THEN ~TooSmall ELSE Inside(target_pos_r0, rddata)

(* change_r0 > 50 while judge_0 says too small, in any clock until the      *)
(* point is counted: boundary and width of the new point arrive one after   *)
(* the other.                                                               *)
Jump(a, b) == a - b > 50 \/ b - a > 50
Restart(d, edge) ==
    /\ Jump(d, target_pos_r0)
    /\ \/ TooSmall
       \/ Judge(Inside(d, rddata), range_des(target_pos_r0))
       \/ Judge(Inside(d, edge), range_des(target_pos_r0))
       \/ Judge(Inside(d, edge), range_des(d))

(* sum_r0: held at 0 by a restart, else the point is added 30 clocks after it. *)
SumWith(d, edge) ==
    IF Restart(d, edge) THEN 0 ELSE IF Inside(d, edge) THEN sum_r + range_des(d) ELSE sum_r

(* What a revolution does to alarm_cnt: beyond 500 it goes back to 500. *)
AlarmCount ==
    IF region_flag THEN 0 ELSE IF alarm_cnt > Cap THEN Cap ELSE alarm_cnt + 1

(* At target_valid the alarm looks at flag_0 as the point before left it. *)
Raise(flag) == alarm_io_r \/ (flag /\ alarm_cnt >= threshold_com)

(* At the end of a revolution without a point inside it is withdrawn. *)
Withdraw == alarm_io_r /\ ~region_flag

(* cycle_enable rises: the first boundary is read. *)
CycleRise ==
    /\ ~cycle
    /\ cycle' = TRUE /\ rd_cnt' = 0
    /\ rddata' = region[0]
    /\ region_flag' = TRUE
    /\ UNCHANGED <<region, target_pos_r0, sum_r, alarm_cnt, alarm_io_r, threshold_com,
                   min_target_size, run, counters>>

(* A point that is not the last one: the boundary read after it is the one  *)
(* it is judged by, 36 clocks later.                                        *)
TargetValid ==
    /\ cycle /\ rd_cnt < N - 1
    /\ UNCHANGED <<region, cycle, alarm_cnt, threshold_com, min_target_size, run, counters>>
    /\ \E d \in Distances :
          /\ alarm_io_r' = Raise(Flag)
          /\ target_pos_r0' = d
          /\ rd_cnt' = rd_cnt + 1
          /\ rddata' = region[rd_cnt + 1]
          /\ sum_r' = SumWith(d, region[rd_cnt + 1])
    /\ region_flag' = (region_flag /\ ~Flag')

(* The last point.  The sector ends before it is judged. *)
LastPoint ==
    /\ cycle /\ rd_cnt = N - 1
    /\ \E d \in Distances :
          /\ alarm_io_r' = Raise(Flag)
          /\ target_pos_r0' = d
    /\ rd_cnt' = N
    /\ UNCHANGED <<region, cycle, rddata, sum_r, region_flag, alarm_cnt, threshold_com,
                   min_target_size, run, counters>>

(* cycle_enable_fall: the revolution is counted. *)
CycleFall ==
    /\ cycle /\ rd_cnt = N
    /\ cycle' = FALSE
    /\ target_pos_r0' = 0 /\ sum_r' = 0
    /\ alarm_cnt' = AlarmCount
    /\ alarm_io_r' = Withdraw
    /\ run' = IF region_flag THEN 0 ELSE IF run > Cap THEN run ELSE run + 1
    /\ UNCHANGED <<region, rd_cnt, rddata, region_flag, threshold_com, min_target_size, counters>>

(* The command link writes a word of the region, at any time:               *)
(* protocol_fifo_out_ready does not wait for the revolution.                *)
WriteBoundary ==
    /\ writes < MaxWrites /\ writes' = writes + 1
    /\ \E i \in Points, v \in Distances : region' = [region EXCEPT ![i] = v]
    /\ UNCHANGED <<cycle, rd_cnt, target_pos_r0, rddata, sum_r, region_flag, alarm_cnt,
                   alarm_io_r, threshold_com, min_target_size, run, settings>>

(* ALARM_OUTPUT_THRESHOLD arrives; more than 500 is taken as 1. *)
SetThreshold ==
    /\ settings < MaxSettings /\ settings' = settings + 1
    /\ \E v \in 1..(Cap + 1) : threshold_com' = IF v > Cap THEN 1 ELSE v
    /\ run' = 0
    /\ UNCHANGED <<region, cycle, rd_cnt, target_pos_r0, rddata, sum_r, region_flag, alarm_cnt,
                   alarm_io_r, min_target_size, writes>>

(* MIN_TARGET_SIZE arrives.  judge_0 follows four clocks later; if the     *)
(* point is judged, or the next one comes, within them, the old judge_0    *)
(* counts, which without a size is never "too small".                      *)
SetTargetSize ==
    /\ settings < MaxSettings /\ settings' = settings + 1
    /\ \E v \in Sizes :
          /\ min_target_size' = v
          /\ \/ UNCHANGED <<region_flag, alarm_io_r>>
             \/ /\ v > 0 /\ cycle /\ ~TooSmall /\ rd_cnt \in 1..(N - 1)
                /\ region_flag' = FALSE /\ UNCHANGED alarm_io_r
             \/ /\ v > 0 /\ cycle /\ ~TooSmall /\ rd_cnt < N
                /\ alarm_io_r' = Raise(TRUE) /\ UNCHANGED region_flag
    /\ run' = 0
    /\ UNCHANGED <<region, cycle, rd_cnt, target_pos_r0, rddata, sum_r, alarm_cnt,
                   threshold_com, writes>>

Next ==
    \/ CycleRise \/ TargetValid \/ LastPoint \/ CycleFall
    \/ WriteBoundary \/ SetThreshold \/ SetTargetSize

Spec == Init /\ [][Next]_vars

-----------------------------------------------------------------------------
(* The counters stay in their ranges: rd_cnt addresses the RAM, alarm_cnt   *)
(* never passes 501 and so fits its ten bits.                               *)
TypeOK ==
    /\ region \in [Points -> Distances]
    /\ cycle \in BOOLEAN /\ rd_cnt \in 0..N
    /\ target_pos_r0 \in Nat /\ rddata \in Nat
    /\ sum_r \in Nat /\ min_target_size \in Nat
    /\ region_flag \in BOOLEAN /\ alarm_io_r \in BOOLEAN
    /\ alarm_cnt \in 0..(Cap + 1) /\ threshold_com \in 1..Cap /\ run \in 0..(Cap + 1)
    /\ writes \in 0..MaxWrites /\ settings \in 0..MaxSettings

(* No alarm is missed: once more revolutions in a row than the threshold    *)
(* asks for have had a point inside, the alarm is on, although the counter, *)
(* the flag of the revolution and the alarm look at the points at different *)
(* times, and however the boundaries change meanwhile.                      *)
AlarmRaised == (~cycle /\ run > threshold_com) => alarm_io_r

(* No alarm without cause: while the alarm is on, the last complete         *)
(* revolution had a point inside; one clean revolution withdraws it.        *)
AlarmJustified == alarm_io_r => alarm_cnt > 0
=============================================================================
