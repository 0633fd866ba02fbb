-------------------------- MODULE CompareRegionProof --------------------------
(***************************************************************************)
(* The alarm is neither missed nor raised without cause, for every number  *)
(* of points, every threshold and every sequence of boundary changes; and  *)
(* it respects the minimal size of a target, for every table of widths.    *)
(***************************************************************************)
EXTENDS TargetSize, TLAPS

(* The counter is not behind the revolutions counted under this threshold,  *)
(* except where it has been stopped, and there it is high enough for every  *)
(* threshold.                                                               *)
Counted == run <= alarm_cnt \/ alarm_cnt >= Cap

(* Once enough revolutions are counted, a point inside has either raised    *)
(* the alarm or is the last point judged, and will at the next one.         *)
Pending ==
    (cycle /\ ~region_flag /\ run >= threshold_com) => alarm_io_r \/ (Flag /\ rd_cnt < N)

IInv == TypeOK /\ Counted /\ Pending /\ AlarmRaised /\ AlarmJustified

-----------------------------------------------------------------------------
(* A distance is a number. *)
LEMMA DistanceIsNat == Distances \subseteq Nat
  BY CompareAssumption

(* The sum of the widths stays a number. *)
LEMMA SumIsNat ==
    ASSUME NEW d \in Nat, NEW edge, sum_r \in Nat
    PROVE  SumWith(d, edge) \in Nat
  <1>1. range_des(d) \in Nat
    BY DEF range_des
  <1>2. QED
    BY <1>1 DEF SumWith

(* What region_flag and the alarm look at is a function of four registers. *)
LEMMA FlagKept ==
    ASSUME UNCHANGED <<target_pos_r0, rddata, sum_r, min_target_size>>
    PROVE  Flag' = Flag
  BY DEF Flag, TooSmall, Judge, Inside, range_des, min_target_size_f

(* The initial state satisfies the invariant. *)
LEMMA Start == Init => IInv
  <1> SUFFICES ASSUME Init PROVE IInv
    OBVIOUS
  <1>1. TypeOK
    <2>1. /\ rd_cnt \in 0..N /\ target_pos_r0 \in Nat /\ rddata \in Nat
          /\ sum_r \in Nat /\ min_target_size \in Nat
          /\ alarm_cnt \in 0..(Cap + 1) /\ threshold_com \in 1..Cap /\ run \in 0..(Cap + 1)
          /\ writes \in 0..MaxWrites /\ settings \in 0..MaxSettings
      BY CompareAssumption DEF Init
    <2>2. /\ region \in [Points -> Distances] /\ cycle \in BOOLEAN
          /\ region_flag \in BOOLEAN /\ alarm_io_r \in BOOLEAN
      BY Zenon DEF Init
    <2>3. QED
      BY <2>1, <2>2, Zenon DEF TypeOK
  <1>2. Counted
    BY DEF Init, Counted
  <1>3. Pending /\ AlarmRaised /\ AlarmJustified
    BY CompareAssumption DEF Init, Pending, AlarmRaised, AlarmJustified
  <1>4. QED
    BY <1>1, <1>2, <1>3 DEF IInv

(* Every step keeps the types. *)
LEMMA TypeStep ==
    ASSUME TypeOK, [Next]_vars
    PROVE  TypeOK'
  <1>1. CASE CycleRise
    <2>1. 0 \in Points
      BY CompareAssumption DEF Points
    <2>2. region[0] \in Nat
      BY <2>1, DistanceIsNat DEF TypeOK
    <2>3. rd_cnt' \in 0..N /\ rddata' \in Nat
      BY <1>1, <2>2, CompareAssumption DEF CycleRise
    <2>4. QED
      BY <1>1, <2>3 DEF CycleRise, counters, TypeOK
  <1>2. CASE TargetValid
    <2> PICK d \in Distances :
               /\ alarm_io_r' = Raise(Flag)
               /\ target_pos_r0' = d
               /\ rd_cnt' = rd_cnt + 1
               /\ rddata' = region[rd_cnt + 1]
               /\ sum_r' = SumWith(d, region[rd_cnt + 1])
      BY <1>2, Zenon DEF TargetValid
    <2>1. d \in Nat
      BY DistanceIsNat
    <2>2. sum_r' \in Nat
      BY <2>1, SumIsNat DEF TypeOK
    <2>3. rd_cnt' \in 0..N /\ rddata' \in Nat
      BY <1>2, CompareAssumption, DistanceIsNat DEF TargetValid, TypeOK, Points
    <2>4. alarm_io_r' \in BOOLEAN /\ region_flag' \in BOOLEAN
      BY <1>2, Zenon DEF TargetValid, Raise
    <2>5. UNCHANGED <<region, cycle, alarm_cnt, threshold_com, min_target_size, run, writes,
                      settings>>
      BY <1>2 DEF TargetValid, counters
    <2>6. QED
      BY <2>1, <2>2, <2>3, <2>4, <2>5 DEF TypeOK
  <1>3. CASE LastPoint
    BY <1>3, CompareAssumption, DistanceIsNat DEF LastPoint, Raise, counters, TypeOK,
       Points
  <1>4. CASE CycleFall
    <2>1. alarm_cnt' \in 0..(Cap + 1) /\ run' \in 0..(Cap + 1)
      BY <1>4, CompareAssumption DEF CycleFall, AlarmCount, TypeOK
    <2>2. cycle' \in BOOLEAN /\ alarm_io_r' \in BOOLEAN
      BY <1>4, Zenon DEF CycleFall, Withdraw, TypeOK
    <2>3. QED
      BY <1>4, <2>1, <2>2 DEF CycleFall, counters, TypeOK
  <1>5. CASE WriteBoundary
    BY <1>5, CompareAssumption, DistanceIsNat DEF WriteBoundary, TypeOK, Points
  <1>6. CASE SetThreshold
    BY <1>6, CompareAssumption, DistanceIsNat DEF SetThreshold, TypeOK, Points
  <1>7. CASE SetTargetSize
    <2>1. settings' \in 0..MaxSettings /\ run' \in 0..(Cap + 1)
      BY <1>7, CompareAssumption DEF SetTargetSize, TypeOK
    <2>2. min_target_size' \in Nat
      BY <1>7, SizesAssumption DEF SetTargetSize
    <2>3. region_flag' \in BOOLEAN /\ alarm_io_r' \in BOOLEAN
      BY <1>7, Zenon DEF SetTargetSize, Raise, TypeOK
    <2>4. QED
      BY <1>7, <2>1, <2>2, <2>3 DEF SetTargetSize, TypeOK
  <1>8. CASE UNCHANGED vars
    BY <1>8 DEF vars, TypeOK, Points
  <1>9. QED
    BY <1>1, <1>2, <1>3, <1>4, <1>5, <1>6, <1>7, <1>8 DEF Next

(* Every step keeps the counter ahead. *)
LEMMA CountedStep ==
    ASSUME TypeOK, Counted, [Next]_vars
    PROVE  Counted'
  <1>1. CASE CycleRise
    BY <1>1, CompareAssumption DEF CycleRise, counters, TypeOK, Counted
  <1>2. CASE TargetValid
    BY <1>2, CompareAssumption DEF TargetValid, Raise, counters, TypeOK, Counted
  <1>3. CASE LastPoint
    BY <1>3, CompareAssumption DEF LastPoint, Raise, counters, TypeOK, Counted
  <1>4. CASE CycleFall
    BY <1>4, CompareAssumption DEF CycleFall, AlarmCount, Withdraw, counters, TypeOK,
       Counted
  <1>5. CASE WriteBoundary
    BY <1>5, CompareAssumption DEF WriteBoundary, TypeOK, Counted
  <1>6. CASE SetThreshold
    BY <1>6, CompareAssumption DEF SetThreshold, TypeOK, Counted
  <1>7. CASE SetTargetSize
    BY <1>7, CompareAssumption DEF SetTargetSize, TypeOK, Counted
  <1>8. CASE UNCHANGED vars
    BY <1>8 DEF vars, TypeOK, Counted
  <1>9. QED
    BY <1>1, <1>2, <1>3, <1>4, <1>5, <1>6, <1>7, <1>8 DEF Next

(* Every step keeps the point inside accounted for. *)
LEMMA PendingStep ==
    ASSUME TypeOK, Counted, Pending, [Next]_vars
    PROVE  Pending'
  <1>1. CASE CycleRise
    BY <1>1 DEF CycleRise, Pending
  <1>2. CASE TargetValid
    <2> SUFFICES ASSUME ~region_flag', run >= threshold_com, ~alarm_io_r'
                 PROVE  Flag' /\ rd_cnt' < N
      BY <1>2, Zenon DEF TargetValid, Pending
    <2>1. alarm_cnt >= threshold_com
      BY CompareAssumption DEF TypeOK, Counted
    <2>2. ~Flag /\ ~alarm_io_r
      BY <1>2, <2>1, Zenon DEF TargetValid, Raise
    <2>3. region_flag
      BY <1>2, <2>2, Zenon DEF TargetValid, Pending
    <2>4. Flag'
      BY <1>2, <2>3, Zenon DEF TargetValid
    <2>5. rd_cnt' < N
      BY <1>2, CompareAssumption DEF TargetValid, TypeOK
    <2>6. QED
      BY <2>4, <2>5
  <1>3. CASE LastPoint
    <2> SUFFICES ASSUME ~region_flag, cycle, run >= threshold_com
                 PROVE  alarm_io_r'
      BY <1>3, Zenon DEF LastPoint, Pending
    <2>1. alarm_cnt >= threshold_com
      BY CompareAssumption DEF TypeOK, Counted
    <2>2. alarm_io_r \/ Flag
      BY Zenon DEF Pending
    <2>3. QED
      BY <1>3, <2>1, <2>2, Zenon DEF LastPoint, Raise
  <1>4. CASE CycleFall
    BY <1>4 DEF CycleFall, Pending
  <1>5. CASE WriteBoundary
    BY <1>5, FlagKept DEF WriteBoundary, Pending
  <1>6. CASE SetThreshold
    BY <1>6, CompareAssumption DEF SetThreshold, Pending
  <1>7. CASE SetTargetSize
    BY <1>7, CompareAssumption DEF SetTargetSize, TypeOK, Pending
  <1>8. CASE UNCHANGED vars
    BY <1>8, FlagKept DEF vars, Pending
  <1>9. QED
    BY <1>1, <1>2, <1>3, <1>4, <1>5, <1>6, <1>7, <1>8 DEF Next

(* Every step keeps the alarm that is due. *)
LEMMA RaisedStep ==
    ASSUME TypeOK, Pending, AlarmRaised, [Next]_vars
    PROVE  AlarmRaised'
  <1>1. CASE CycleRise
    BY <1>1, CompareAssumption DEF CycleRise, counters, TypeOK, Pending, AlarmRaised
  <1>2. CASE TargetValid
    BY <1>2, CompareAssumption DEF TargetValid, Raise, counters, TypeOK, Pending,
       AlarmRaised
  <1>3. CASE LastPoint
    BY <1>3, CompareAssumption DEF LastPoint, Raise, counters, TypeOK, Pending,
       AlarmRaised
  <1>4. CASE CycleFall
    BY <1>4, CompareAssumption DEF CycleFall, AlarmCount, Withdraw, counters, TypeOK,
       Pending, AlarmRaised
  <1>5. CASE WriteBoundary
    BY <1>5, CompareAssumption DEF WriteBoundary, TypeOK, Pending, AlarmRaised
  <1>6. CASE SetThreshold
    BY <1>6, CompareAssumption DEF SetThreshold, TypeOK, Pending, AlarmRaised
  <1>7. CASE SetTargetSize
    BY <1>7, CompareAssumption DEF SetTargetSize, TypeOK, AlarmRaised
  <1>8. CASE UNCHANGED vars
    BY <1>8 DEF vars, TypeOK, Pending, AlarmRaised
  <1>9. QED
    BY <1>1, <1>2, <1>3, <1>4, <1>5, <1>6, <1>7, <1>8 DEF Next

(* Every step keeps the cause of the alarm. *)
LEMMA JustifiedStep ==
    ASSUME TypeOK, AlarmJustified, [Next]_vars
    PROVE  AlarmJustified'
  <1>1. CASE CycleRise
    BY <1>1, CompareAssumption DEF CycleRise, counters, TypeOK, AlarmJustified
  <1>2. CASE TargetValid
    BY <1>2, CompareAssumption DEF TargetValid, Raise, counters, TypeOK, AlarmJustified
  <1>3. CASE LastPoint
    BY <1>3, CompareAssumption DEF LastPoint, Raise, counters, TypeOK, AlarmJustified
  <1>4. CASE CycleFall
    <2> SUFFICES ASSUME ~region_flag PROVE AlarmCount > 0
      BY <1>4, Zenon DEF CycleFall, Withdraw, AlarmJustified
    <2>1. QED
      BY CompareAssumption DEF AlarmCount, TypeOK
  <1>5. CASE WriteBoundary
    BY <1>5, CompareAssumption DEF WriteBoundary, TypeOK, AlarmJustified
  <1>6. CASE SetThreshold
    BY <1>6, CompareAssumption DEF SetThreshold, TypeOK, AlarmJustified
  <1>7. CASE SetTargetSize
    <2>1. alarm_io_r' => alarm_io_r \/ alarm_cnt >= threshold_com
      BY <1>7, Zenon DEF SetTargetSize, Raise
    <2>2. alarm_cnt' = alarm_cnt
      BY <1>7, Zenon DEF SetTargetSize
    <2>3. QED
      BY <2>1, <2>2, CompareAssumption DEF TypeOK, AlarmJustified
  <1>8. CASE UNCHANGED vars
    BY <1>8 DEF vars, TypeOK, AlarmJustified
  <1>9. QED
    BY <1>1, <1>2, <1>3, <1>4, <1>5, <1>6, <1>7, <1>8 DEF Next

(* The strengthened invariant holds in every reachable state. *)
LEMMA Inductive == Spec => []IInv
  <1>1. Init => IInv
    BY Start
  <1>2. IInv /\ [Next]_vars => IInv'
    BY TypeStep, CountedStep, PendingStep, RaisedStep, JustifiedStep DEF IInv
  <1>3. QED
    BY <1>1, <1>2, PTL DEF Spec

(* The counters of compare_region.v stay in their ranges. *)
THEOREM TypeCorrect == Spec => []TypeOK
  <1>1. IInv => TypeOK
    BY DEF IInv
  <1>2. QED
    BY <1>1, Inductive, PTL

(* However many points a revolution has, whatever the threshold and however *)
(* it and the boundaries change: no alarm is missed.                        *)
THEOREM NoAlarmMissed == Spec => []AlarmRaised
  <1>1. IInv => AlarmRaised
    BY DEF IInv
  <1>2. QED
    BY <1>1, Inductive, PTL

(* ... and none is raised, or kept, without a point inside in the last      *)
(* complete revolution.                                                     *)
THEOREM NoFalseAlarm == Spec => []AlarmJustified
  <1>1. IInv => AlarmJustified
    BY DEF IInv
  <1>2. QED
    BY <1>1, Inductive, PTL

-----------------------------------------------------------------------------
(* The minimal size *)

SizeRange == 0..8000

SizedType ==
    /\ seen \in [1..(N - 1) -> [pos : Nat, in : BOOLEAN]] /\ total \in [0..(N - 1) -> Nat]
    /\ steady \in BOOLEAN /\ min_target_size \in SizeRange

(* The point judged last is the one in the register, and a revolution       *)
(* begins with a sum of 0.                                                  *)
LastSeen ==
    /\ cycle /\ rd_cnt \in 1..(N - 1) => seen[rd_cnt].pos = target_pos_r0
    /\ ~cycle \/ rd_cnt = 0 => sum_r = 0

Measuring == cycle /\ steady /\ min_target_size > 0

(* What sum_r0 is to the targets that end at the last point: no less than   *)
(* any of them without its first point if it is inside all along, and, as   *)
(* long as nothing has been seen, no more than one of them.                 *)
AllInside(i, j) == \A k \in i..j : seen[k].in
NotLess(n) == \A i \in 1..n : Connected(i, n) /\ AllInside(i, n) => sum_r >= Width(i + 1, n)
NotMore(n) == \E i \in 1..n : Connected(i, n) /\ sum_r <= Width(i, n)
SumFits ==
    Measuring /\ rd_cnt < N =>
        /\ NotLess(rd_cnt)
        /\ region_flag => TooSmall
        /\ region_flag /\ rd_cnt > 0 => NotMore(rd_cnt)

SizedInv == TypeOK /\ SizedType /\ LastSeen /\ SumFits /\ SizeRespected

(* The size in 0.1 mm is positive if there is one. *)
LEMMA SizePositive ==
    ASSUME SizedType
    PROVE  min_target_size_f \in Nat /\ (min_target_size > 0 => min_target_size_f > 0)
  <1>1. PICK m \in SizeRange : m = min_target_size
    BY Zenon DEF SizedType
  <1>2. m \in Int /\ 0 <= m /\ m <= 8000
    BY SMT DEF SizeRange
  <1>3. (m * 10) % 131072 = m * 10
    BY <1>2, SMT
  <1>4. m * 10 \in Nat /\ (m > 0 => m * 10 > 0)
    BY <1>2, SMT
  <1>5. min_target_size_f = m * 10
    BY <1>1, <1>3, SMT DEF min_target_size_f
  <1>6. QED
    BY <1>1, <1>4, <1>5, Zenon

(* What a point does to the history. *)
Grows(n, d, w) ==
    /\ seen' \in [1..(N - 1) -> [pos : Nat, in : BOOLEAN]] /\ total' \in [0..(N - 1) -> Nat]
    /\ \A k \in 1..n : seen'[k] = seen[k]
    /\ \A k \in 0..n : total'[k] = total[k]
    /\ seen'[n + 1].pos = d /\ total'[n + 1] = total[n] + w

LEMMA PointGrows ==
    ASSUME TypeOK, SizedType, Remember, cycle', NEW n \in 0..(N - 2), rd_cnt = n, rd_cnt' = n + 1,
           target_pos_r0' \in Nat
    PROVE  /\ Grows(n, target_pos_r0', WidthInside(target_pos_r0', rddata'))
           /\ seen'[n + 1].in = Inside(target_pos_r0', rddata')
           /\ WidthInside(target_pos_r0', rddata') \in Nat
  <1>1. PICK d \in Nat : d = target_pos_r0'
    BY Zenon
  <1>2. PICK b \in BOOLEAN : b = Inside(target_pos_r0', rddata')
    BY Zenon DEF Inside
  <1>3. PICK w : w = WidthInside(target_pos_r0', rddata')
    BY Zenon
  <1>4. w \in Nat
    <2>1. range_des(d) \in Nat
      BY DEF range_des
    <2>2. w = IF b THEN range_des(d) ELSE 0
      BY <1>1, <1>2, <1>3, Zenon DEF WidthInside
    <2>3. QED
      BY <2>1, <2>2
  <1>5. n \in Int /\ N \in Nat /\ N >= 2 /\ n + 1 < N
    BY CompareAssumption
  <1>6. Judging
    BY <1>5, Zenon DEF Judging
  <1>7. seen' = [seen EXCEPT ![n + 1] = [pos |-> d, in |-> b]]
    BY <1>1, <1>2, <1>6, Zenon DEF Remember
  <1>8. total' = [total EXCEPT ![n + 1] = total[n] + w]
    BY <1>3, <1>6, Zenon DEF Remember
  <1>9. seen \in [1..(N - 1) -> [pos : Nat, in : BOOLEAN]] /\ total \in [0..(N - 1) -> Nat]
    BY Zenon DEF SizedType
  <1>10. n + 1 \in 1..(N - 1) /\ n \in 0..(N - 1) /\ n + 1 \in 0..(N - 1)
    BY <1>5
  <1>11. [pos |-> d, in |-> b] \in [pos : Nat, in : BOOLEAN]
    BY Zenon
  <1>12. seen' \in [1..(N - 1) -> [pos : Nat, in : BOOLEAN]] /\ seen'[n + 1] = [pos |-> d, in |-> b]
    BY <1>7, <1>9, <1>10, <1>11, Zenon
  <1>13. \A k \in 1..n : seen'[k] = seen[k]
    BY <1>5, <1>7, <1>9
  <1>14. total[n] + w \in Nat
    BY <1>4, <1>9, <1>10
  <1>15. total' \in [0..(N - 1) -> Nat] /\ total'[n + 1] = total[n] + w
    BY <1>8, <1>9, <1>10, <1>14, Zenon
  <1>16. \A k \in 0..n : total'[k] = total[k]
    BY <1>5, <1>8, <1>9
  <1>17. seen'[n + 1].pos = d /\ seen'[n + 1].in = b
    BY <1>12
  <1>18. QED
    BY <1>1, <1>2, <1>3, <1>4, <1>12, <1>13, <1>15, <1>16, <1>17, Zenon DEF Grows

(* Targets that end earlier stay as they were. *)
LEMMA Earlier ==
    ASSUME NEW n \in 0..(N - 2), NEW d, NEW w, SizedType, Grows(n, d, w), min_target_size' = min_target_size,
           NEW j \in 1..n, NEW i \in 1..j
    PROVE  /\ Connected(i, j)' <=> Connected(i, j)
           /\ Large(i, j)' <=> Large(i, j)
           /\ Larger(i, j)' <=> Larger(i, j)
  <1>1. N \in Nat /\ n \in Nat /\ i \in Nat /\ j \in Nat /\ 1 <= i /\ i <= j /\ j <= n
    BY CompareAssumption
  <1>2. \A k \in 1..n : seen'[k] = seen[k]
    BY Zenon DEF Grows
  <1>3. \A k \in 0..n : total'[k] = total[k]
    BY Zenon DEF Grows
  <1>4. Connected(i, j)' <=> Connected(i, j)
    <2>1. \A k \in (i + 1)..j : k \in 1..n /\ k - 1 \in 1..n
      BY <1>1
    <2>2. \A k \in (i + 1)..j : seen'[k] = seen[k] /\ seen'[k - 1] = seen[k - 1]
      BY <1>2, <2>1, Zenon
    <2>3. QED
      BY <2>2, Zenon DEF Connected, Jump
  <1>5. (\A k \in i..j : seen'[k].in) <=> (\A k \in i..j : seen[k].in)
    <2>1. \A k \in i..j : k \in 1..n
      BY <1>1
    <2>2. QED
      BY <1>2, <2>1, Zenon
  <1>6. j \in 0..n /\ i - 1 \in 0..n /\ j - 1 \in 0..n /\ i + 1 - 1 \in 0..n
    BY <1>1
  <1>7. Width(i, j)' = Width(i, j) /\ Width(j, j)' = Width(j, j) /\ Width(i + 1, j)' = Width(i + 1, j)
    BY <1>1, <1>3, <1>6, SMT DEF Width
  <1>8. min_target_size_f' = min_target_size_f
    BY DEF min_target_size_f
  <1>9. QED
    BY <1>4, <1>5, <1>7, <1>8, Zenon DEF Large, Larger

(* Targets that end at the new point: it alone, or one that ended at the    *)
(* point before, unless the two are 50 mm apart.                            *)
LEMMA Extended ==
    ASSUME NEW n \in 1..(N - 2), NEW d, NEW w \in Nat, SizedType, Grows(n, d, w), NEW i \in 1..n
    PROVE  /\ Connected(i, n + 1)' <=> Connected(i, n) /\ ~Jump(d, seen[n].pos)
           /\ Width(i, n + 1)' = Width(i, n) + w /\ Width(i, n) \in Int
           /\ Width(i + 1, n + 1)' = Width(i + 1, n) + w /\ Width(i + 1, n) \in Int
           /\ AllInside(i, n + 1)' => AllInside(i, n)
  <1>1. N \in Nat /\ n \in Nat /\ i \in Nat /\ 1 <= i /\ i <= n /\ n <= N - 2 /\ N >= 2
    BY CompareAssumption
  <1>2. \A k \in 1..n : seen'[k] = seen[k]
    BY Zenon DEF Grows
  <1>3. \A k \in 0..n : total'[k] = total[k]
    BY Zenon DEF Grows
  <1>4. seen'[n + 1].pos = d /\ total'[n + 1] = total[n] + w
    BY Zenon DEF Grows
  <1>5. Connected(i, n + 1)' <=> Connected(i, n) /\ ~Jump(d, seen[n].pos)
    <2>1. \A k \in (i + 1)..n : k \in 1..n /\ k - 1 \in 1..n
      BY <1>1
    <2>2. \A k \in (i + 1)..n : seen'[k] = seen[k] /\ seen'[k - 1] = seen[k - 1]
      BY <1>2, <2>1, Zenon
    <2>3. (i + 1)..(n + 1) = (i + 1)..n \cup {n + 1}
      BY <1>1
    <2>4. n + 1 - 1 = n /\ n \in 1..n
      BY <1>1
    <2>5. seen'[n + 1].pos = d /\ seen'[n + 1 - 1].pos = seen[n].pos
      BY <1>2, <1>4, <2>4, Zenon
    <2>6. QED
      BY <2>2, <2>3, <2>5, SMT DEF Connected, Jump
  <1>6. AllInside(i, n + 1)' => AllInside(i, n)
    <2>1. \A k \in i..n : k \in 1..n /\ k \in i..(n + 1)
      BY <1>1
    <2>2. QED
      BY <1>2, <2>1, Zenon DEF AllInside
  <1>7. PICK x, y, z : x = total[n] /\ y = total[i - 1] /\ z = total[i]
    BY Zenon
  <1>8. x \in Int /\ y \in Int /\ z \in Int
    <2>1. n \in 0..(N - 1) /\ i - 1 \in 0..(N - 1) /\ i \in 0..(N - 1)
      BY <1>1
    <2>2. QED
      BY <1>7, <2>1 DEF SizedType
  <1>9. i - 1 \in 0..n /\ i \in 0..n /\ i + 1 - 1 = i
    BY <1>1
  <1>10. Width(i, n) = x - y /\ Width(i + 1, n) = x - z
    BY <1>1, <1>7, <1>9, SMT DEF Width
  <1>11. Width(i, n + 1)' = (x + w) - y /\ Width(i + 1, n + 1)' = (x + w) - z
    BY <1>1, <1>3, <1>4, <1>7, <1>9, SMT DEF Width
  <1>12. QED
    BY <1>5, <1>6, <1>8, <1>10, <1>11

(* The sum and the judgement after a point of width w. *)
LEMMA SumMoves ==
    ASSUME TypeOK, TypeOK', SizedType, TargetValid,
           NEW d \in Nat, d = target_pos_r0', NEW w \in Nat, w = WidthInside(target_pos_r0', rddata')
    PROVE  /\ Jump(d, target_pos_r0) /\ TooSmall => sum_r' = 0
           /\ ~Jump(d, target_pos_r0) => sum_r' = sum_r + w
           /\ sum_r' >= min_target_size_f => ~TooSmall'
           /\ ~TooSmall' => sum_r' + w >= min_target_size_f
  <1>1. sum_r \in Nat /\ sum_r' \in Nat /\ min_target_size_f \in Nat
    BY SizePositive, Zenon DEF TypeOK
  <1>2. sum_r' = SumWith(d, rddata')
    BY Zenon DEF TargetValid
  <1>3. Jump(d, target_pos_r0) /\ TooSmall => sum_r' = 0
    BY <1>2, Zenon DEF SumWith, Restart
  <1>4. ~Jump(d, target_pos_r0) => sum_r' = IF Inside(d, rddata') THEN sum_r + range_des(d) ELSE sum_r
    BY <1>2, Zenon DEF SumWith, Restart
  <1>5. w = IF Inside(d, rddata') THEN range_des(d) ELSE 0
    BY Zenon DEF WidthInside
  <1>6. ~Jump(d, target_pos_r0) => sum_r' = sum_r + w
    BY <1>1, <1>4, <1>5
  <1>7. PICK x \in Nat : /\ x <= w
                         /\ TooSmall' <=> sum_r' + x < min_target_size_f
    <2>1. min_target_size_f' = min_target_size_f
      BY DEF TargetValid, min_target_size_f
    <2>2. TooSmall' <=> sum_r' + (IF sum_r' > 0 /\ Inside(d, rddata') THEN range_des(d) ELSE 0) < min_target_size_f
      BY <2>1, Zenon DEF TooSmall, Judge
    <2>3. CASE sum_r' > 0 /\ Inside(d, rddata')
      <3>1. range_des(d) = w
        BY <2>3, <1>5, Zenon
      <3>2. w <= w
        OBVIOUS
      <3>3. QED
        BY <2>2, <2>3, <3>1, <3>2, Zenon
    <2>4. CASE ~(sum_r' > 0 /\ Inside(d, rddata'))
      <3>1. 0 <= w /\ 0 \in Nat
        OBVIOUS
      <3>2. QED
        BY <2>2, <2>4, <3>1, Zenon
    <2>5. QED
      BY <2>3, <2>4, Zenon
  <1>a. PICK s \in Nat, m \in Nat : s = sum_r' /\ m = min_target_size_f
    BY <1>1, Zenon
  <1>b. s >= m => ~(s + x < m)
    OBVIOUS
  <1>c. x <= w
    BY <1>7, Zenon
  <1>d. ~(s + x < m) => s + w >= m
    BY <1>c
  <1>8. sum_r' >= min_target_size_f => ~TooSmall'
    BY <1>7, <1>a, <1>b, Zenon
  <1>9. ~TooSmall' => sum_r' + w >= min_target_size_f
    BY <1>7, <1>a, <1>d, Zenon
  <1>10. QED
    BY <1>3, <1>6, <1>8, <1>9, Zenon

(* The size stays, and with it the size in 0.1 mm. *)
LEMMA SizeStays ==
    ASSUME UNCHANGED min_target_size
    PROVE  UNCHANGED min_target_size_f
  BY DEF min_target_size_f

KeepSteady == steady' = (~cycle' \/ (steady /\ min_target_size' = min_target_size))

LEMMA SteadyType ==
    ASSUME KeepSteady
    PROVE  /\ steady' \in BOOLEAN
           /\ cycle' /\ steady' => steady /\ min_target_size' = min_target_size
  <1>1. (~cycle' \/ (steady /\ min_target_size' = min_target_size)) \in BOOLEAN
    OBVIOUS
  <1>2. QED
    BY <1>1, Zenon DEF KeepSteady

(* A point that is judged. *)
LEMMA PointSized ==
    ASSUME SizedInv, TypeOK', TargetValid, Remember, KeepSteady
    PROVE  SizedInv'
  <1>0. TypeOK /\ SizedType /\ LastSeen /\ SumFits /\ SizeRespected
    BY Zenon DEF SizedInv
  <1>1. PICK n \in 0..(N - 2) : rd_cnt = n
    BY <1>0, CompareAssumption DEF TargetValid, TypeOK
  <1>2. /\ cycle /\ cycle' /\ rd_cnt' = n + 1 /\ min_target_size' = min_target_size
        /\ region_flag' = (region_flag /\ ~Flag')
    BY <1>1, Zenon DEF TargetValid
  <1>3. N \in Nat /\ N >= 2 /\ n \in Nat /\ n + 1 < N /\ n + 1 # N /\ n # N
    BY CompareAssumption
  <1>4. target_pos_r0' \in Nat
    BY Zenon DEF TypeOK
  <1>5. PICK d, w : d = target_pos_r0' /\ w = WidthInside(target_pos_r0', rddata')
    BY Zenon
  <1>6. Grows(n, d, w) /\ w \in Nat /\ d \in Nat
    BY <1>0, <1>1, <1>2, <1>4, <1>5, PointGrows, Zenon
  <1>7. /\ Jump(d, target_pos_r0) /\ TooSmall => sum_r' = 0
        /\ ~Jump(d, target_pos_r0) => sum_r' = sum_r + w
        /\ sum_r' >= min_target_size_f => ~TooSmall'
        /\ ~TooSmall' => sum_r' + w >= min_target_size_f
    BY <1>0, <1>5, <1>6, SumMoves, Zenon
  <1>8. sum_r \in Nat /\ sum_r' \in Nat /\ min_target_size_f \in Nat
    <2>1. sum_r \in Nat /\ sum_r' \in Nat
      BY <1>0, Zenon DEF TypeOK
    <2>2. QED
      BY <1>0, <2>1, SizePositive, Zenon
  <1>9. min_target_size_f' = min_target_size_f
    BY <1>2, SizeStays, Zenon
  <1>10. SizedType'
    <2>1. min_target_size' \in SizeRange
      BY <1>0, <1>2, Zenon DEF SizedType
    <2>2. steady' \in BOOLEAN
      BY SteadyType, Zenon
    <2>3. seen' \in [1..(N - 1) -> [pos : Nat, in : BOOLEAN]] /\ total' \in [0..(N - 1) -> Nat]
      BY <1>6, Zenon DEF Grows
    <2>4. QED
      BY <2>1, <2>2, <2>3, Zenon DEF SizedType
  <1>11. LastSeen'
    <2>1. seen'[n + 1].pos = target_pos_r0'
      BY <1>5, <1>6, Zenon DEF Grows
    <2>2. rd_cnt' # 0
      BY <1>2, <1>3
    <2>3. QED
      BY <1>2, <2>1, <2>2, Zenon DEF LastSeen
  <1>12. Measuring' => Measuring
    BY <1>2, SteadyType, Zenon DEF Measuring
  <1>13. n > 0 => n \in 1..(N - 2) /\ seen[n].pos = target_pos_r0
    <2>1. n > 0 => n \in 1..(N - 2) /\ n \in 1..(N - 1)
      BY <1>3
    <2>2. QED
      BY <1>0, <1>1, <1>2, <2>1, Zenon DEF LastSeen
  <1>14. Connected(n + 1, n + 1)' /\ Width(n + 1, n + 1)' = w /\ Width(n + 2, n + 1)' = 0
    <2>1. \A k \in (n + 1 + 1)..(n + 1) : FALSE
      BY <1>3
    <2>2. Connected(n + 1, n + 1)'
      BY <2>1, Zenon DEF Connected
    <2>3. PICK x \in Nat : x = total[n]
      BY <1>3 DEF SizedType, SizedInv
    <2>4. total'[n + 1] = x + w /\ total'[n] = x
      <3>1. n \in 0..n
        BY <1>3
      <3>2. QED
        BY <1>6, <2>3, <3>1, Zenon DEF Grows
    <2>5. Width(n + 1, n + 1)' = total'[n + 1] - total'[n] /\ Width(n + 2, n + 1)' = total'[n + 1] - total'[n + 1]
      BY <1>3, SMT DEF Width
    <2>6. QED
      BY <1>6, <2>2, <2>3, <2>4, <2>5
  <1>15. ASSUME Measuring' PROVE NotLess(n + 1)'
    <2>1. SUFFICES ASSUME NEW i \in 1..(n + 1), Connected(i, n + 1)', AllInside(i, n + 1)'
                   PROVE  sum_r' >= Width(i + 1, n + 1)'
      BY Zenon DEF NotLess
    <2>2. CASE i = n + 1
      <3>1. Width(i + 1, n + 1)' = Width(n + 2, n + 1)'
        BY <1>3, <2>2, SMT DEF Width
      <3>2. QED
        BY <1>8, <1>14, <3>1
    <2>3. CASE i # n + 1
      <3>1. i \in 1..n /\ n > 0
        BY <1>3, <2>3
      <3>2. /\ Connected(i, n) /\ ~Jump(d, target_pos_r0) /\ AllInside(i, n)
            /\ Width(i + 1, n + 1)' = Width(i + 1, n) + w /\ Width(i + 1, n) \in Int
        BY <1>0, <1>6, <1>13, <2>1, <3>1, Extended, Zenon
      <3>3. sum_r >= Width(i + 1, n)
        <4>1. Measuring /\ rd_cnt < N
          BY <1>1, <1>3, <1>12, <1>15
        <4>2. NotLess(n)
          BY <1>0, <1>1, <4>1, Zenon DEF SumFits
        <4>3. QED
          BY <3>1, <3>2, <4>2, Zenon DEF NotLess
      <3>4. sum_r' = sum_r + w
        BY <1>7, <3>2, Zenon
      <3>5. QED
        BY <1>6, <1>8, <3>2, <3>3, <3>4
    <2>4. QED
      BY <2>2, <2>3, Zenon
  <1>16. ASSUME Measuring', region_flag PROVE NotMore(n + 1)'
    <2>1. Measuring /\ rd_cnt < N
      BY <1>1, <1>3, <1>12, <1>16
    <2>2. TooSmall /\ (rd_cnt > 0 => NotMore(rd_cnt))
      BY <1>0, <1>16, <2>1, Zenon DEF SumFits
    <2>3. n + 1 \in 1..(n + 1)
      BY <1>3
    <2>4. CASE Jump(d, target_pos_r0)
      <3>1. sum_r' = 0
        BY <1>7, <2>2, <2>4, Zenon
      <3>2. sum_r' <= Width(n + 1, n + 1)'
        BY <1>6, <1>14, <3>1
      <3>3. QED
        BY <1>14, <2>3, <3>2, Zenon DEF NotMore
    <2>5. CASE ~Jump(d, target_pos_r0) /\ n = 0
      <3>1. sum_r = 0
        BY <1>0, <1>1, <2>5, Zenon DEF LastSeen
      <3>2. sum_r' = sum_r + w
        BY <1>7, <2>5, Zenon
      <3>3. sum_r' <= Width(n + 1, n + 1)'
        BY <1>6, <1>14, <3>1, <3>2
      <3>4. QED
        BY <1>14, <2>3, <3>3, Zenon DEF NotMore
    <2>6. CASE ~Jump(d, target_pos_r0) /\ n # 0
      <3>1. n > 0
        BY <1>3, <2>6
      <3>2. PICK i \in 1..n : Connected(i, n) /\ sum_r <= Width(i, n)
        BY <1>1, <2>2, <3>1, Zenon DEF NotMore
      <3>3. /\ Connected(i, n + 1)' <=> Connected(i, n) /\ ~Jump(d, target_pos_r0)
            /\ Width(i, n + 1)' = Width(i, n) + w /\ Width(i, n) \in Int
        BY <1>0, <1>6, <1>13, <3>1, <3>2, Extended, Zenon
      <3>4. Connected(i, n + 1)'
        BY <2>6, <3>2, <3>3, Zenon
      <3>5. sum_r' = sum_r + w
        BY <1>7, <2>6, Zenon
      <3>6. sum_r' <= Width(i, n + 1)'
        BY <1>6, <1>8, <3>2, <3>3, <3>5
      <3>7. i \in 1..(n + 1)
        BY <1>3
      <3>8. QED
        BY <3>4, <3>6, <3>7, Zenon DEF NotMore
    <2>7. QED
      BY <2>4, <2>5, <2>6, Zenon
  <1>17. ASSUME Measuring' PROVE Flag' <=> ~TooSmall'
    BY <1>17, Zenon DEF Flag, Measuring
  <1>18. SumFits'
    <2>1. ASSUME Measuring', region_flag'
          PROVE  region_flag /\ TooSmall'
      BY <1>2, <1>17, <2>1, Zenon
    <2>2. QED
      BY <1>2, <1>15, <1>16, <2>1, Zenon DEF SumFits
  <1>19. SizeRespected'
    <2>1. SUFFICES ASSUME Measuring'
                   PROVE  /\ \A j \in Judged' : \A i \in 1..j : Connected(i, j)' /\ Large(i, j)' => ~region_flag'
                          /\ ~region_flag' =>
                                \E j \in Judged' : \E i \in 1..j : Connected(i, j)' /\ Larger(i, j)'
      BY Zenon DEF SizeRespected, Measuring
    <2>2. Judged = 1..n /\ Judged' = 1..(n + 1)
      BY <1>1, <1>2, <1>3, Zenon DEF Judged
    <2>3. Measuring
      BY <1>12, <2>1, Zenon
    <2>4. /\ \A j \in 1..n : \A i \in 1..j : Connected(i, j) /\ Large(i, j) => ~region_flag
          /\ ~region_flag => \E j \in 1..n : \E i \in 1..j : Connected(i, j) /\ Larger(i, j)
      BY <1>0, <2>2, <2>3, Zenon DEF SizeRespected, Measuring
    <2>5. ASSUME NEW j \in 1..(n + 1), NEW i \in 1..j, Connected(i, j)', Large(i, j)'
          PROVE  ~region_flag'
      <3>1. CASE j = n + 1
        <4>1. AllInside(i, n + 1)' /\ Width(i + 1, n + 1)' >= min_target_size_f
          BY <1>9, <2>5, <3>1, Zenon DEF Large, AllInside
        <4>2. sum_r' >= Width(i + 1, n + 1)'
          BY <1>15, <2>1, <2>5, <3>1, <4>1, Zenon DEF NotLess
        <4>3. Width(i + 1, n + 1)' \in Int
          <5>1. i \in 0..(N - 1) /\ n + 1 \in 0..(N - 1) /\ i + 1 - 1 = i
            BY <1>3, <3>1
          <5>2. total'[n + 1] \in Nat /\ total'[i] \in Nat
            BY <1>10, <5>1 DEF SizedType
          <5>3. Width(i + 1, n + 1)' = total'[n + 1] - total'[i]
            BY <5>1, SMT DEF Width
          <5>4. QED
            BY <5>2, <5>3
        <4>4. sum_r' >= min_target_size_f
          BY <1>8, <4>1, <4>2, <4>3
        <4>5. QED
          BY <1>2, <1>7, <1>17, <2>1, <4>4, Zenon
      <3>2. CASE j # n + 1
        <4>1. j \in 1..n
          BY <1>3, <3>2
        <4>2. Connected(i, j) /\ Large(i, j)
          BY <1>0, <1>2, <1>6, <2>5, <4>1, Earlier, Zenon
        <4>3. QED
          BY <1>2, <2>4, <4>1, <4>2, Zenon
      <3>3. QED
        BY <3>1, <3>2, Zenon
    <2>6. ASSUME ~region_flag'
          PROVE  \E j \in 1..(n + 1) : \E i \in 1..j : Connected(i, j)' /\ Larger(i, j)'
      <3>1. CASE ~region_flag
        <4>0. PICK j \in 1..n : \E i \in 1..j : Connected(i, j) /\ Larger(i, j)
          BY <2>4, <3>1, Zenon
        <4>1. PICK i \in 1..j : Connected(i, j) /\ Larger(i, j)
          BY <4>0, Zenon
        <4>2. Connected(i, j)' /\ Larger(i, j)'
          BY <1>0, <1>2, <1>6, <4>1, Earlier, Zenon
        <4>3. j \in 1..(n + 1)
          BY <1>3
        <4>4. QED
          BY <4>2, <4>3, Zenon
      <3>2. CASE region_flag
        <4>1. ~TooSmall'
          BY <1>2, <1>17, <2>1, <2>6, <3>2, Zenon
        <4>2. PICK i \in 1..(n + 1) : Connected(i, n + 1)' /\ sum_r' <= Width(i, n + 1)'
          BY <1>16, <2>1, <3>2, Zenon DEF NotMore
        <4>3. Width(i, n + 1)' \in Int
          <5>1. i - 1 \in 0..(N - 1) /\ n + 1 \in 0..(N - 1)
            BY <1>3
          <5>2. total'[n + 1] \in Nat /\ total'[i - 1] \in Nat
            BY <1>10, <5>1 DEF SizedType
          <5>3. Width(i, n + 1)' = total'[n + 1] - total'[i - 1]
            BY Zenon DEF Width
          <5>4. QED
            BY <5>2, <5>3
        <4>4. PICK x \in Int : x = Width(i, n + 1)'
          BY <4>3, Zenon
        <4>8. sum_r' + w >= min_target_size_f /\ sum_r' <= x /\ Width(n + 1, n + 1)' = w
          BY <1>7, <1>14, <4>1, <4>2, <4>4, Zenon
        <4>9. x + w >= min_target_size_f
          <5>1. PICK s \in Nat, m \in Nat : s = sum_r' /\ m = min_target_size_f
            BY <1>8, Zenon
          <5>2. w \in Nat
            BY <1>6, Zenon
          <5>3. s + w >= m /\ s <= x => x + w >= m
            BY <5>2
          <5>4. QED
            BY <4>8, <5>1, <5>3, Zenon
        <4>5. Larger(i, n + 1)'
          BY <1>9, <4>4, <4>8, <4>9, Zenon DEF Larger
        <4>6. n + 1 \in 1..(n + 1)
          BY <1>3
        <4>7. QED
          BY <4>2, <4>5, <4>6, Zenon
      <3>3. QED
        BY <3>1, <3>2, Zenon
    <2>7. QED
      BY <2>2, <2>5, <2>6, Zenon
  <1>20. QED
    BY <1>10, <1>11, <1>18, <1>19, Zenon DEF SizedInv

(* The initial state: no sector, nothing seen. *)
LEMMA NothingSeen ==
    /\ NoneSeen \in [1..(N - 1) -> [pos : Nat, in : BOOLEAN]]
    /\ NoWidth \in [0..(N - 1) -> Nat]
  <1>1. [pos |-> 0, in |-> FALSE] \in [pos : Nat, in : BOOLEAN]
    OBVIOUS
  <1>2. QED
    BY <1>1 DEF NoneSeen, NoWidth

LEMMA SizedStart == SizedInit => SizedInv
  <1> SUFFICES ASSUME SizedInit PROVE SizedInv
    OBVIOUS
  <1>1. TypeOK
    BY Start, Zenon DEF SizedInit, IInv
  <1>2. ~cycle /\ sum_r = 0 /\ min_target_size = 0
    BY Zenon DEF SizedInit, Init
  <1>3. SizedType
    <2>1. 0 \in SizeRange
      BY SMT DEF SizeRange
    <2>2. steady \in BOOLEAN
      BY Zenon DEF SizedInit
    <2>3. QED
      BY <1>2, <2>1, <2>2, NothingSeen, Zenon DEF SizedInit, SizedType
  <1>4. LastSeen /\ SumFits /\ SizeRespected
    BY <1>2, Zenon DEF LastSeen, SumFits, Measuring, SizeRespected
  <1>5. QED
    BY <1>1, <1>3, <1>4, Zenon DEF SizedInv

(* Outside the sector there is nothing to compare. *)
LEMMA OutsideSized ==
    ASSUME TypeOK', Remember, KeepSteady, ~cycle', sum_r' \in {0}, min_target_size' \in SizeRange
    PROVE  SizedInv'
  <1>1. SizedType'
    BY SteadyType, NothingSeen, Zenon DEF Remember, SizedType
  <1>2. sum_r' = 0
    BY Zenon
  <1>3. LastSeen' /\ SumFits' /\ SizeRespected'
    BY <1>2, Zenon DEF LastSeen, SumFits, Measuring, SizeRespected
  <1>4. QED
    BY <1>1, <1>3, Zenon DEF SizedInv

(* No point is judged: the history and the targets stay as they are. *)
LEMMA HistoryStays ==
    ASSUME Remember, cycle', ~Judging
    PROVE  seen' = seen /\ total' = total
  BY Zenon DEF Remember

LEMMA TargetsStay ==
    ASSUME Remember, KeepSteady, cycle', ~Judging, Measuring', NEW i, NEW j
    PROVE  /\ Connected(i, j)' <=> Connected(i, j)
           /\ Large(i, j)' <=> Large(i, j)
           /\ Larger(i, j)' <=> Larger(i, j)
           /\ AllInside(i, j)' <=> AllInside(i, j)
           /\ Width(i, j)' = Width(i, j)
  <1>1. seen' = seen /\ total' = total
    BY HistoryStays, Zenon
  <1>2. min_target_size_f' = min_target_size_f
    BY SteadyType, SizeStays, Zenon DEF Measuring
  <1>3. \A a, b : Width(a, b)' = Width(a, b)
    BY <1>1, Zenon DEF Width
  <1>4. QED
    BY <1>1, <1>2, <1>3, Zenon DEF Connected, Jump, Large, Larger, AllInside

(* Types, when no point is judged. *)
LEMMA TypesStay ==
    ASSUME SizedType, Remember, KeepSteady, cycle', ~Judging, min_target_size' \in SizeRange
    PROVE  SizedType'
  BY HistoryStays, SteadyType, Zenon DEF SizedType

(* A step that leaves the sector, the sum and the last point alone, and the *)
(* flag unless the size is new.                                             *)
Held ==
    /\ UNCHANGED <<cycle, rd_cnt, target_pos_r0, rddata, sum_r>>
    /\ Measuring' /\ Measuring => UNCHANGED region_flag

LEMMA HeldSized ==
    ASSUME SizedInv, TypeOK', Remember, KeepSteady, cycle', min_target_size' \in SizeRange, Held
    PROVE  SizedInv'
  <1>0. TypeOK /\ SizedType /\ LastSeen /\ SumFits /\ SizeRespected
    BY Zenon DEF SizedInv
  <1>1. cycle /\ rd_cnt' = rd_cnt /\ target_pos_r0' = target_pos_r0 /\ rddata' = rddata /\ sum_r' = sum_r
    BY Zenon DEF Held
  <1>2. ~Judging
    <2>1. PICK n \in 0..N : n = rd_cnt
      BY <1>0, Zenon DEF TypeOK
    <2>2. n # n + 1
      BY <2>1, CompareAssumption
    <2>3. QED
      BY <1>1, <2>1, <2>2, Zenon DEF Judging
  <1>3. SizedType'
    BY <1>0, <1>2, TypesStay, Zenon
  <1>4. seen' = seen
    BY <1>2, HistoryStays, Zenon
  <1>5. LastSeen'
    BY <1>0, <1>1, <1>4, Zenon DEF LastSeen
  <1>6. SumFits' /\ SizeRespected'
    <2>1. CASE ~Measuring'
      BY <2>1, Zenon DEF SumFits, SizeRespected, Measuring
    <2>2. CASE Measuring'
      <3>1. Measuring /\ min_target_size' = min_target_size
        BY <1>1, <2>2, SteadyType, Zenon DEF Measuring
      <3>2. region_flag' = region_flag
        BY <2>2, <3>1, Zenon DEF Held
      <3>3. min_target_size_f' = min_target_size_f
        BY <3>1, SizeStays, Zenon
      <3>4. TooSmall' <=> TooSmall
        <4>1. range_des(target_pos_r0)' = range_des(target_pos_r0)
          BY <1>1, SMT DEF range_des
        <4>2. QED
          BY <1>1, <3>3, <4>1, Zenon DEF TooSmall, Judge, Inside
      <3>5. NotLess(rd_cnt)' <=> NotLess(rd_cnt)
        BY <1>1, <1>2, <2>2, TargetsStay, Zenon DEF NotLess
      <3>6. NotMore(rd_cnt)' <=> NotMore(rd_cnt)
        BY <1>1, <1>2, <2>2, TargetsStay, Zenon DEF NotMore
      <3>7. SumFits'
        BY <1>0, <1>1, <3>1, <3>2, <3>4, <3>5, <3>6, Zenon DEF SumFits
      <3>8. Judged' = Judged
        BY <1>1, Zenon DEF Judged
      <3>9. SizeRespected'
        BY <1>0, <1>2, <2>2, <3>1, <3>2, <3>8, TargetsStay, Zenon DEF SizeRespected, Measuring
      <3>10. QED
        BY <3>7, <3>9, Zenon
    <2>3. QED
      BY <2>1, <2>2, Zenon
  <1>7. QED
    BY <1>3, <1>5, <1>6, Zenon DEF SizedInv

(* A revolution begins: no point is judged and the sum is 0. *)
LEMMA BeginSized ==
    ASSUME SizedInv, TypeOK', CycleRise, Remember, KeepSteady
    PROVE  SizedInv'
  <1>0. TypeOK /\ SizedType /\ LastSeen
    BY Zenon DEF SizedInv
  <1>1. /\ ~cycle /\ cycle' /\ rd_cnt' = 0 /\ sum_r' = sum_r /\ region_flag'
        /\ min_target_size' = min_target_size
    BY Zenon DEF CycleRise
  <1>2. sum_r' = 0
    BY <1>0, <1>1, Zenon DEF LastSeen
  <1>3. ~Judging
    <2>1. PICK n \in 0..N : n = rd_cnt
      BY <1>0, Zenon DEF TypeOK
    <2>2. 0 # n + 1
      BY <2>1, CompareAssumption
    <2>3. QED
      BY <1>1, <2>1, <2>2, Zenon DEF Judging
  <1>4. min_target_size' \in SizeRange
    BY <1>0, <1>1, Zenon DEF SizedType
  <1>5. SizedType'
    BY <1>0, <1>1, <1>3, <1>4, TypesStay, Zenon
  <1>6. LastSeen'
    <2>1. 0 \notin 1..(N - 1)
      OBVIOUS
    <2>2. QED
      BY <1>1, <1>2, <2>1, Zenon DEF LastSeen
  <1>7. SumFits'
    <2>1. \A i \in 1..0 : FALSE
      OBVIOUS
    <2>2. NotLess(0)'
      BY <2>1, Zenon DEF NotLess
    <2>3. ASSUME Measuring' PROVE TooSmall'
      <3>1. min_target_size' > 0
        BY <2>3, Zenon DEF Measuring
      <3>2. PICK m \in Nat : m = min_target_size_f' /\ m > 0
        <4>1. min_target_size_f \in Nat /\ (min_target_size > 0 => min_target_size_f > 0)
          BY <1>0, SizePositive, Zenon
        <4>2. min_target_size_f' = min_target_size_f
          BY <1>1, SizeStays, Zenon
        <4>3. QED
          BY <1>1, <3>1, <4>1, <4>2, Zenon
      <3>3. ~(0 > 0) /\ 0 + 0 < m
        BY <3>2
      <3>4. (IF 0 > 0 /\ Inside(target_pos_r0, rddata)' THEN range_des(target_pos_r0)' ELSE 0) = 0
        BY <3>3, Zenon
      <3>5. QED
        BY <1>2, <3>2, <3>3, <3>4, Zenon DEF TooSmall, Judge
    <2>4. ~(0 > 0)
      OBVIOUS
    <2>5. QED
      BY <1>1, <2>2, <2>3, <2>4, Zenon DEF SumFits
  <1>8. SizeRespected'
    <2>1. 0 # N
      BY CompareAssumption
    <2>2. Judged' = 1..0
      BY <1>1, <2>1, Zenon DEF Judged
    <2>3. \A j \in 1..0 : FALSE
      OBVIOUS
    <2>4. QED
      BY <1>1, <2>2, <2>3, Zenon DEF SizeRespected
  <1>9. QED
    BY <1>5, <1>6, <1>7, <1>8, Zenon DEF SizedInv

(* The last point: the sector ends before it is judged. *)
LEMMA LastSized ==
    ASSUME SizedInv, TypeOK', LastPoint, Remember, KeepSteady
    PROVE  SizedInv'
  <1>0. TypeOK /\ SizedType /\ SizeRespected
    BY Zenon DEF SizedInv
  <1>1. /\ cycle /\ cycle' /\ rd_cnt = N - 1 /\ rd_cnt' = N
        /\ region_flag' = region_flag /\ min_target_size' = min_target_size
    BY Zenon DEF LastPoint
  <1>2. N \in Nat /\ N # 0 /\ N # N - 1 /\ N \notin 1..(N - 1) /\ ~(N < N)
    BY CompareAssumption
  <1>3. ~Judging
    BY <1>1, <1>2, Zenon DEF Judging
  <1>4. min_target_size' \in SizeRange
    BY <1>0, <1>1, Zenon DEF SizedType
  <1>5. SizedType'
    BY <1>0, <1>1, <1>3, <1>4, TypesStay, Zenon
  <1>6. LastSeen' /\ SumFits'
    BY <1>1, <1>2, Zenon DEF LastSeen, SumFits
  <1>7. SizeRespected'
    <2>1. SUFFICES ASSUME Measuring'
                   PROVE  /\ \A j \in Judged' : \A i \in 1..j : Connected(i, j)' /\ Large(i, j)' => ~region_flag'
                          /\ ~region_flag' =>
                                \E j \in Judged' : \E i \in 1..j : Connected(i, j)' /\ Larger(i, j)'
      BY Zenon DEF SizeRespected, Measuring
    <2>2. Judged' = Judged
      BY <1>1, <1>2, Zenon DEF Judged
    <2>3. Measuring
      BY <1>1, <2>1, SteadyType, Zenon DEF Measuring
    <2>4. QED
      BY <1>0, <1>1, <1>3, <2>1, <2>2, <2>3, TargetsStay, Zenon DEF SizeRespected, Measuring
  <1>8. QED
    BY <1>5, <1>6, <1>7, Zenon DEF SizedInv

(* The PC sets a size: the flag falls at once only if the sum is no longer  *)
(* too small, and that it has shown before if it is measured for this size. *)
LEMMA ResizedSized ==
    ASSUME SizedInv, TypeOK', SetTargetSize, Remember, KeepSteady, cycle'
    PROVE  SizedInv'
  <1>0. TypeOK /\ SumFits
    BY Zenon DEF SizedInv
  <1>1. PICK v \in Sizes :
            /\ min_target_size' = v
            /\ UNCHANGED region_flag \/ (~TooSmall /\ rd_cnt \in 1..(N - 1) /\ region_flag' = FALSE)
    BY Zenon DEF SetTargetSize
  <1>2. min_target_size' \in SizeRange
    BY <1>1, SizesAssumption, SMT DEF SizeRange
  <1>3. ASSUME Measuring', Measuring PROVE UNCHANGED region_flag
    <2>1. CASE ~TooSmall /\ rd_cnt \in 1..(N - 1) /\ region_flag' = FALSE
      <3>1. rd_cnt < N
        BY <2>1, CompareAssumption
      <3>2. ~region_flag
        BY <1>0, <1>3, <2>1, <3>1, Zenon DEF SumFits
      <3>3. QED
        BY <1>0, <2>1, <3>2, Zenon DEF TypeOK
    <2>2. QED
      BY <1>1, <2>1, Zenon
  <1>4. Held
    BY <1>3, Zenon DEF SetTargetSize, Held
  <1>5. QED
    BY <1>2, <1>4, HeldSized, Zenon

(* Every step keeps the invariant. *)
LEMMA SizedStep ==
    ASSUME SizedInv, SizedNext
    PROVE  SizedInv'
  <1>0. TypeOK /\ SizedType /\ LastSeen /\ Next /\ Remember /\ KeepSteady
    BY Zenon DEF SizedInv, SizedNext, KeepSteady
  <1>1. TypeOK'
    BY <1>0, TypeStep, Zenon
  <1>2. min_target_size \in SizeRange
    BY <1>0, Zenon DEF SizedType
  <1>3. CASE CycleRise
    BY <1>0, <1>1, <1>3, BeginSized, Zenon
  <1>4. CASE TargetValid
    BY <1>0, <1>1, <1>4, PointSized, Zenon
  <1>5. CASE LastPoint
    BY <1>0, <1>1, <1>5, LastSized, Zenon
  <1>6. CASE CycleFall
    <2>1. ~cycle' /\ sum_r' = 0 /\ min_target_size' = min_target_size
      BY <1>6, Zenon DEF CycleFall
    <2>2. sum_r' \in {0}
      BY <2>1, Zenon
    <2>3. QED
      BY <1>0, <1>1, <1>2, <2>1, <2>2, OutsideSized, Zenon
  <1>7. ASSUME WriteBoundary \/ SetThreshold \/ SetTargetSize
        PROVE  SizedInv'
    <2>1. UNCHANGED <<cycle, rd_cnt, target_pos_r0, rddata, sum_r>>
      BY <1>7, Zenon DEF WriteBoundary, SetThreshold, SetTargetSize
    <2>2. min_target_size' \in SizeRange
      <3>1. CASE WriteBoundary \/ SetThreshold
        BY <1>2, <3>1, Zenon DEF WriteBoundary, SetThreshold
      <3>2. CASE SetTargetSize
        <4>1. min_target_size' \in Sizes
          BY <3>2, Zenon DEF SetTargetSize
        <4>2. QED
          BY <4>1, SizesAssumption, SMT DEF SizeRange
      <3>3. QED
        BY <1>7, <3>1, <3>2, Zenon
    <2>3. CASE ~cycle'
      <3>1. sum_r' \in {0}
        BY <1>0, <2>1, <2>3, Zenon DEF LastSeen
      <3>2. QED
        BY <1>0, <1>1, <2>2, <2>3, <3>1, OutsideSized, Zenon
    <2>4. CASE cycle' /\ SetTargetSize
      BY <1>0, <1>1, <2>4, ResizedSized, Zenon
    <2>5. CASE cycle' /\ (WriteBoundary \/ SetThreshold)
      <3>1. Held
        BY <2>1, <2>5, Zenon DEF Held, WriteBoundary, SetThreshold
      <3>2. QED
        BY <1>0, <1>1, <2>2, <2>5, <3>1, HeldSized, Zenon
    <2>6. QED
      BY <1>7, <2>3, <2>4, <2>5, Zenon
  <1>8. QED
    BY <1>0, <1>3, <1>4, <1>5, <1>6, <1>7, Zenon DEF Next

(* A stuttering step changes nothing. *)
LEMMA SizedStutter ==
    ASSUME SizedInv, UNCHANGED allVars
    PROVE  SizedInv'
  <1>1. TypeOK'
    <2>1. UNCHANGED vars
      BY Zenon DEF allVars
    <2>2. QED
      BY <2>1, TypeStep, Zenon DEF SizedInv
  <1>2. QED
    BY <1>1 DEF allVars, vars, SizedInv, SizedType, LastSeen, SumFits, Measuring, SizeRespected,
       NotLess, NotMore, Connected, AllInside, Width, Large, Larger, Judged, Jump, TooSmall, Judge,
       Inside, range_des, min_target_size_f

(* The minimal size is respected to within the width of one point, for     *)
(* every number of points, every size, every sequence of distances and      *)
(* boundaries: a target inside that is large enough without its first point *)
(* is seen, and what is seen is large enough with its last point counted    *)
(* twice.                                                                   *)
THEOREM SizeIsRespected == SizedSpec => []SizeRespected
  <1>1. SizedInit => SizedInv
    BY SizedStart
  <1>2. SizedInv /\ [SizedNext]_allVars => SizedInv'
    BY SizedStep, SizedStutter
  <1>3. SizedInv => SizeRespected
    BY DEF SizedInv
  <1>4. QED
    BY <1>1, <1>2, <1>3, PTL DEF SizedSpec

=============================================================================
