------------------------------ MODULE FramesProof -----------------------------
(***************************************************************************)
(* What the fabric sends the firmware through the laser FIFO.              *)
(*   - The device alarms raised on the status frames, for any number of    *)
(*     frames in a round, any thresholds and any settings of the PC: when  *)
(*     they are raised, and what they do to the laser (SysWarn).           *)
(*   - The fill levels of the two FIFOs on the way of a scan, for any      *)
(*     number of points in a revolution and any depth of the laser FIFO    *)
(*     that takes a scan and a status frame (Upload).                      *)
(*   - What the firmware publishes as a scan, for the same parameters: the *)
(*     words that travel through the FIFO and the queue are frames, and a  *)
(*     distance frame is a whole revolution or has changed into a status   *)
(*     frame (Upload).                                                     *)
(***************************************************************************)
EXTENDS Upload, SysWarn, TLAPS

ST == INSTANCE SequenceTheorems

-----------------------------------------------------------------------------
(* SysWarn *)

(* While an alarm is off, the samples of the round under way are those of   *)
(* the last len frames.  At the end of a round this may fail: an alarm that *)
(* is withdrawn there leaves the samples it had frozen.                     *)
Fresh ==
    \A k \in Kinds :
        ~alarm[k] /\ len < Depth =>
            \A i \in 0..(len - 1) : sample[k][i] = recent[Depth - len + i][k]

WarnInv == WarnTypeOK /\ Fresh /\ LaserOffUnderAlarm

-----------------------------------------------------------------------------
(* sys_warn.len %= 5 starts the next round. *)
LEMMA SlotIs ==
    ASSUME WarnTypeOK
    PROVE  Slot = (IF len = Depth THEN 0 ELSE len) /\ Slot \in Slots
  <1>1. Depth \in Nat \ {0}
    BY WarnAssumption, Zenon
  <1>2. len \in 0..Depth
    BY Zenon DEF WarnTypeOK
  <1>3. QED
    BY <1>1, <1>2 DEF Slot, Slots

(* A frame stores one sample of every quantity whose alarm is off. *)
LEMMA StoreType ==
    ASSUME WarnTypeOK, NEW f \in Frames, NEW at \in Slots
    PROVE  /\ Store(f, at) \in [Kinds -> [Slots -> Values]]
           /\ \A k \in Kinds : ~alarm[k] =>
                 Store(f, at)[k] = [sample[k] EXCEPT ![at] = f[k]]
  BY DEF WarnTypeOK, Store, Frames

(* An alarm is on or off. *)
LEMMA BadIsBoolean ==
    ASSUME WarnTypeOK, NEW k \in Kinds, NEW v \in Values
    PROVE  Bad(k, v) \in BOOLEAN
  <1>1. v \in Nat /\ MotorLow \in Nat /\ LdMin \in Nat /\ TempMax \in Nat
    BY WarnAssumption, Zenon
  <1>2. dust_threshold \in Nat
    BY WarnAssumption, Zenon DEF WarnTypeOK
  <1>3. /\ (v >= MotorLow) \in BOOLEAN /\ (v < LdMin) \in BOOLEAN
        /\ (v > dust_threshold) \in BOOLEAN /\ (v > TempMax) \in BOOLEAN
    BY <1>1, <1>2
  <1>4. QED
    BY <1>3, Zenon DEF Bad

(* A round gives every alarm a verdict. *)
LEMMA EvaluateType ==
    ASSUME WarnTypeOK, NEW s \in [Kinds -> [Slots -> Values]]
    PROVE  Evaluate(s) \in [Kinds -> BOOLEAN]
  <1>1. Depth - 1 \in Slots
    BY WarnAssumption DEF Slots
  <1>2. ASSUME NEW k \in Kinds
        PROVE  (IF k = "temp" THEN Bad(k, s[k][Depth - 1])
                ELSE (k = "motor" => motor_enable) /\ \A i \in Slots : Bad(k, s[k][i])) \in BOOLEAN
    <2>1. Bad(k, s[k][Depth - 1]) \in BOOLEAN
      BY <1>1, BadIsBoolean
    <2>2. QED
      BY <2>1, Zenon
  <1>3. QED
    BY <1>2, Zenon DEF Evaluate

(* What a status frame does, with the slot it goes to. *)
LEMMA StatusStep ==
    ASSUME WarnTypeOK, Fresh, Status
    PROVE  WarnTypeOK' /\ Fresh'
  <1> PICK f \in Frames, intact \in BOOLEAN :
           /\ sample' = Store(f, Slot)
           /\ len' = Slot + 1
           /\ alarm' = IF intact /\ len' = Depth THEN Evaluate(sample') ELSE alarm
           /\ recent' = [i \in Slots |-> IF i < Depth - 1 THEN recent[i + 1] ELSE f]
    BY Zenon DEF Status
  <1>1. Slot \in Slots
    BY SlotIs
  <1>2. sample' \in [Kinds -> [Slots -> Values]]
    BY <1>1, StoreType
  <1>3. alarm' \in [Kinds -> BOOLEAN]
    BY <1>2, EvaluateType DEF WarnTypeOK
  <1>4. recent' \in [Slots -> Frames]
    BY WarnAssumption DEF WarnTypeOK, Slots
  <1>5. len' \in 1..Depth
    BY <1>1, WarnAssumption DEF Slots
  <1>6. WarnTypeOK'
    BY <1>2, <1>3, <1>4, <1>5 DEF WarnTypeOK, Status, settings, fpga
  <1>7. Fresh'
    <2> SUFFICES ASSUME NEW k \in Kinds, ~alarm'[k], len' < Depth,
                        NEW i \in 0..(len' - 1)
                 PROVE  sample'[k][i] = recent'[Depth - len' + i][k]
      BY DEF Fresh
    <2>1. ~alarm[k] /\ sample'[k] = [sample[k] EXCEPT ![Slot] = f[k]]
      <3>1. len' # Depth
        BY <1>5, WarnAssumption
      <3>2. alarm' = alarm
        BY <3>1, Zenon
      <3>3. ~alarm[k]
        BY <3>2, Zenon
      <3>4. Store(f, Slot)[k] = [sample[k] EXCEPT ![Slot] = f[k]]
        BY <3>3, Zenon DEF Store
      <3>5. QED
        BY <3>3, <3>4, Zenon
    <2>2. sample[k] \in [Slots -> Values]
      BY DEF WarnTypeOK
    <2>3. Depth - len' + i \in Slots
      BY <1>5, WarnAssumption DEF Slots
    <2>4. CASE i = Slot
      <3>1. Depth - len' + i = Depth - 1
        BY <2>4, <1>1, WarnAssumption DEF Slots
      <3>2. sample'[k][i] = f[k]
        BY <2>1, <2>2, <2>4, <1>1
      <3>3. recent'[Depth - 1] = f
        BY <2>3, <3>1, WarnAssumption DEF Slots
      <3>4. QED
        BY <3>1, <3>2, <3>3
    <2>5. CASE i # Slot
      <3>1. len < Depth /\ Slot = len /\ i \in 0..(len - 1)
        BY <2>5, SlotIs, WarnAssumption DEF WarnTypeOK
      <3>2. sample'[k][i] = sample[k][i]
        BY <2>1, <2>2, <2>5, <3>1, WarnAssumption DEF Slots, WarnTypeOK
      <3>3. sample[k][i] = recent[Depth - len + i][k]
        BY <2>1, <3>1 DEF Fresh
      <3>4. recent'[Depth - len' + i] = recent[Depth - len + i]
        BY <2>3, <3>1, WarnAssumption DEF Slots, WarnTypeOK
      <3>5. QED
        BY <3>2, <3>3, <3>4
    <2>6. QED
      BY <2>4, <2>5
  <1>8. QED
    BY <1>6, <1>7

-----------------------------------------------------------------------------
(* No alarm is on and no frame has come. *)
LEMMA WarnStart == WarnInit => WarnInv
  BY WarnAssumption DEF WarnInit, WarnInv, WarnTypeOK, Fresh, LaserOffUnderAlarm, Slots, Frames

(* One step per action: only a status frame changes samples and alarms. *)
LEMMA TypeFreshStep ==
    ASSUME WarnTypeOK, Fresh, [WarnNext]_warnVars
    PROVE  WarnTypeOK' /\ Fresh'
  <1>1. CASE PcMotorEnable
    BY <1>1 DEF PcMotorEnable, fpga, warn, WarnTypeOK, Fresh
  <1>2. CASE PcDustThreshold
    BY <1>2 DEF PcDustThreshold, fpga, warn, WarnTypeOK, Fresh
  <1>3. CASE PcLaserEnable
    BY <1>3 DEF PcLaserEnable, settings, warn, WarnTypeOK, Fresh
  <1>4. CASE PcLaserFreq
    BY <1>4, WarnAssumption DEF PcLaserFreq, settings, warn, WarnTypeOK, Fresh
  <1>5. CASE Status
    BY <1>5, StatusStep
  <1>6. CASE NoFrame
    BY <1>6 DEF NoFrame, settings, fpga, warn, WarnTypeOK, Fresh
  <1>7. CASE React
    <2>1. laser' \in BOOLEAN
      BY <1>7, Zenon DEF React
    <2>2. pin' \in {0, 1}
      BY <1>7 DEF React, WarnTypeOK
    <2>3. QED
      BY <1>7, <2>1, <2>2 DEF React, settings, warn, WarnTypeOK, Fresh
  <1>8. CASE Loop
    BY <1>8 DEF Loop, settings, fpga, warn, WarnTypeOK, Fresh
  <1>9. CASE UNCHANGED warnVars
    BY <1>9 DEF warnVars, WarnTypeOK, Fresh
  <1>10. QED
    BY <1>1, <1>2, <1>3, <1>4, <1>5, <1>6, <1>7, <1>8, <1>9 DEF WarnNext

(* The main loop is at the end of its iteration only after the reaction. *)
LEMMA LaserStep ==
    ASSUME WarnTypeOK, LaserOffUnderAlarm, [WarnNext]_warnVars
    PROVE  LaserOffUnderAlarm'
  <1>1. CASE React
    <2>1. alarm["motor"] \/ alarm["ld"] => ~laser'
      BY <1>1, Zenon DEF React
    <2>2. (\E k \in Kinds : alarm[k]) => pin' = 1
      BY <1>1, Zenon DEF React
    <2>3. QED
      BY <1>1, <2>1, <2>2, Zenon DEF React, warn, LaserOffUnderAlarm
  <1>2. CASE UNCHANGED warnVars
    BY <1>2 DEF warnVars, LaserOffUnderAlarm
  <1>3. CASE WarnNext /\ ~React
    <2>1. pc' # "done"
      BY <1>3 DEF WarnNext, PcMotorEnable, PcDustThreshold, PcLaserEnable, PcLaserFreq, Status,
         NoFrame, Loop
    <2>2. QED
      BY <2>1 DEF LaserOffUnderAlarm
  <1>4. QED
    BY <1>1, <1>2, <1>3

(* The invariant holds in every state. *)
LEMMA WarnInductive == WarnSpec => []WarnInv
  <1>1. WarnInit => WarnInv
    BY WarnStart
  <1>2. WarnInv /\ [WarnNext]_warnVars => WarnInv'
    BY TypeFreshStep, LaserStep DEF WarnInv
  <1>3. QED
    BY <1>1, <1>2, PTL DEF WarnSpec

(* The samples, the index into them and the settings keep their types, for  *)
(* any length of a round.                                                   *)
THEOREM WarnTypeCorrect == WarnSpec => []WarnTypeOK
  <1>1. WarnInv => WarnTypeOK
    BY DEF WarnInv
  <1>2. QED
    BY <1>1, WarnInductive, PTL

(* Whatever the PC asks for and in whatever order frames and requests come: *)
(* main.c ends no iteration with the laser on under a motor or laser alarm, *)
(* or with the alarm pin passive under any alarm.                           *)
THEOREM LaserOff == WarnSpec => []LaserOffUnderAlarm
  <1>1. WarnInv => LaserOffUnderAlarm
    BY DEF WarnInv
  <1>2. QED
    BY <1>1, WarnInductive, PTL

(* fpga2nios_parse raises no alarm on stale samples: a step that raises one *)
(* is the last of Depth frames in a row that are bad by the present         *)
(* settings, for any Depth.                                                 *)
THEOREM RaisedOnlyOnRun == WarnSpec => RaisedOnRun
  <1> DEFINE Run(k) == IF k = "temp" THEN Bad(k, recent'[Depth - 1][k])
                       ELSE \A i \in Slots : Bad(k, recent'[i][k])
  <1>1. ASSUME WarnInv, [WarnNext]_warnVars, NEW k \in Kinds, ~alarm[k], alarm'[k]
        PROVE  Run(k)
    <2>1. Status
      <3>1. alarm' # alarm
        BY <1>1
      <3>2. QED
        BY <1>1, <3>1 DEF WarnNext, warnVars, PcMotorEnable, PcDustThreshold, PcLaserEnable,
           PcLaserFreq, NoFrame, React, Loop, warn
    <2> PICK f \in Frames, intact \in BOOLEAN :
             /\ sample' = Store(f, Slot)
             /\ len' = Slot + 1
             /\ alarm' = IF intact /\ len' = Depth THEN Evaluate(sample') ELSE alarm
             /\ recent' = [i \in Slots |-> IF i < Depth - 1 THEN recent[i + 1] ELSE f]
      BY <2>1, Zenon DEF Status
    <2> USE <1>1 DEF WarnInv
    <2>2. len' = Depth /\ alarm'[k] = Evaluate(sample')[k]
      BY Zenon
    <2>3. Slot = Depth - 1 /\ Slot \in Slots /\ (len = Depth - 1 \/ Depth = 1)
      BY <2>2, SlotIs, WarnAssumption DEF WarnTypeOK
    <2>4. sample'[k] = [sample[k] EXCEPT ![Depth - 1] = f[k]] /\ sample[k] \in [Slots -> Values]
      BY <2>3, StoreType DEF WarnTypeOK
    <2>5. ASSUME NEW i \in Slots
          PROVE  sample'[k][i] = recent'[i][k]
      <3>1. CASE i = Depth - 1
        BY <3>1, <2>3, <2>4
      <3>2. CASE i # Depth - 1
        <4>1. len = Depth - 1 /\ i \in 0..(len - 1) /\ Depth - len + i = i + 1
          BY <3>2, <2>3, WarnAssumption DEF Slots
        <4>2. sample[k][i] = recent[i + 1][k]
          BY <4>1, WarnAssumption DEF Fresh
        <4>3. recent'[i] = recent[i + 1]
          BY <4>1, <3>2, WarnAssumption DEF Slots
        <4>4. QED
          BY <2>4, <3>2, <4>2, <4>3
      <3>3. QED
        BY <3>1, <3>2
    <2>6. Evaluate(sample')[k] =
             (IF k = "temp" THEN Bad(k, sample'[k][Depth - 1])
              ELSE (k = "motor" => motor_enable) /\ \A i \in Slots : Bad(k, sample'[k][i]))
      BY Zenon DEF Evaluate
    <2>7. sample'[k][Depth - 1] = recent'[Depth - 1][k]
      BY <2>3, <2>5
    <2>8. QED
      BY <2>2, <2>5, <2>6, <2>7, Zenon
  <1>2. WarnInv /\ [WarnNext]_warnVars =>
           [\A k \in Kinds : ~alarm[k] /\ alarm'[k] => Run(k)]_warnVars
    BY <1>1
  <1>3. QED
    BY <1>2, WarnInductive, PTL DEF WarnSpec, RaisedOnRun

-----------------------------------------------------------------------------
(* Upload *)

Commands == {"none", "DISTANCE", "STATUS"}
Points == {Point(r, i) : r \in Revs, i \in 0..N}
Words ==
    Points \cup {Blank}
      \cup {Word("head", c, 0) : c \in Commands} \cup {Word("tail", c, 1) : c \in Commands}
      \cup {Word("len", n, 0) : n \in {N, StatusLen}}
      \cup {Word("status", 0, low) : low \in {0, 1}}

laserw == Len(lfifo)

Shape ==
    /\ cycle \in BOOLEAN /\ update_enable \in BOOLEAN /\ enable_flag \in BOOLEAN
    /\ idx \in 0..N /\ rev \in Revs /\ quiet \in Nat /\ stalls \in Nat
    /\ pfifo \in Seq(Points) /\ lfifo \in Seq(Words)
    /\ cs \in {"IDLE", "HEAD", "DATA_LEN", "DATA", "DLY", "CHECKSUM", "OVER"}
    /\ tx_command \in Commands /\ tx_data_len \in Nat /\ tx_data_cnt \in Nat
    /\ timer_cnt \in Nat

(* The position FIFO has room for the rest of a revolution that is being    *)
(* collected, and with uploading off none is.                               *)
Room ==
    /\ usedw <= 2 * N
    /\ cycle /\ enable_flag => usedw + (N - idx) <= 2 * N
    /\ ~cycle /\ ~update_enable => ~enable_flag

(* A frame under way, up to its last point; and one of distances. *)
InFrame == cs \in {"HEAD", "DATA_LEN", "DATA"}
Distance == InFrame /\ tx_command = "DISTANCE"

(* Command, length and count agree in every clock of a frame, although the  *)
(* first two may change in the middle of it.                                *)
FrameInv ==
    /\ cs # "OVER"
    /\ tx_command = "DISTANCE" => tx_data_len = N
    /\ InFrame /\ tx_command # "DISTANCE" => tx_data_len = StatusLen
    /\ cs \in {"HEAD", "DATA_LEN"} => tx_data_cnt = 0
    /\ cs = "DATA" => tx_data_cnt < tx_data_len

(* Without a stall no more than one revolution is ever in the position      *)
(* FIFO, and a whole one only until its frame is sent, before the sector    *)
(* ends.  A frame in which the status timer has just expired is in one of   *)
(* three places: before its points, at one of the first two, or changed to  *)
(* a status frame after them.                                               *)
InTime ==
    /\ usedw <= N
    /\ cycle /\ enable_flag => usedw <= idx
    /\ usedw = N => quiet = 0 /\ idx = N /\ cycle
    /\ Distance => quiet = 0 /\ usedw >= N - tx_data_cnt /\ idx = N
    /\ InFrame /\ timer_flag =>
          \/ cs # "DATA" /\ Distance /\ usedw = N
          \/ Distance /\ tx_data_cnt \in {0, 1} /\ usedw = N - tx_data_cnt
          \/ cs = "DATA" /\ ~Distance /\ tx_data_cnt >= 2 /\ usedw < N /\ idx = N

(* Words the present frame still sends, and those of the frames to come     *)
(* before the laser FIFO is known to be empty again: a scan that is         *)
(* complete or can be, and a status frame until the timer has expired.      *)
Rest ==
    CASE cs = "HEAD"     -> 3 + tx_data_len
      [] cs = "DATA_LEN" -> 2 + tx_data_len
      [] cs = "DATA"     -> 1 + tx_data_len - tx_data_cnt
      [] cs \in {"DLY", "CHECKSUM"} -> 1
      [] OTHER -> 0
Pending == (usedw = N /\ ~Distance) \/ (cycle /\ enable_flag /\ idx < N /\ usedw = idx)
ScanDue == IF Pending THEN N + 3 ELSE 0
StatusDue == IF timer_cnt <= TimerAt THEN StatusLen + 3 ELSE 0
Budget == laserw + Rest + ScanDue + StatusDue <= LaserDepth

Steady == FrameInv /\ InTime /\ Budget
UploadInv == Shape /\ Room /\ (stalls = 0 => Steady)

-----------------------------------------------------------------------------
LEMMA Sizes ==
    /\ N \in Nat /\ N >= 4 /\ StatusLen \in Nat /\ StatusLen >= 3 /\ StatusLen < N
    /\ LaserDepth \in Int /\ N + StatusLen + 6 <= LaserDepth
    /\ TimerAt \in Nat /\ TimerMax \in Int /\ TimerAt <= TimerMax
    /\ QuietLimit \in Nat /\ QuietLimit >= 1 /\ CntMod \in Nat /\ 2 * N < CntMod
  BY UploadAssumption

(* Fill levels. *)
LEMMA Levels ==
    ASSUME Shape
    PROVE  /\ usedw \in Nat /\ laserw \in Nat
           /\ pfifo = <<>> <=> usedw = 0
           /\ lfifo = <<>> <=> laserw = 0
  <1>1. pfifo \in Seq(Points) /\ lfifo \in Seq(Words)
    BY Zenon DEF Shape
  <1>2. Len(pfifo) \in Nat /\ Len(lfifo) \in Nat
    BY <1>1, ST!LenProperties, Zenon
  <1>3. (pfifo = <<>> <=> Len(pfifo) = 0) /\ (lfifo = <<>> <=> Len(lfifo) = 0)
    BY <1>1, ST!EmptySeq, Zenon
  <1>4. QED
    BY <1>2, <1>3, Zenon DEF usedw, laserw

(* The words that update2nios writes. *)
LEMMA TxWordType ==
    ASSUME Shape, NEW low \in {0, 1}
    PROVE  TxWord(low) \in Words
  <1>1. tx_command \in Commands /\ pfifo \in Seq(Points)
    BY Zenon DEF Shape
  <1>2. pfifo # <<>> => Head(pfifo) \in Points
    BY <1>1, ST!HeadTailProperties, Zenon
  <1>3. Word("head", tx_command, 0) \in Words /\ Word("tail", tx_command, 1) \in Words
    BY <1>1, Zenon DEF Words
  <1>4. Word("len", IF tx_command = "DISTANCE" THEN N ELSE StatusLen, 0) \in Words
    BY Zenon DEF Words
  <1>5. Word("status", 0, low) \in Words /\ Blank \in Words
    BY Zenon DEF Words
  <1>6. (IF pfifo = <<>> THEN Blank ELSE Head(pfifo)) \in Words
    BY <1>2, <1>5, Zenon DEF Words
  <1>7. (IF tx_command # "DISTANCE" THEN Word("status", 0, low)
         ELSE IF pfifo = <<>> THEN Blank ELSE Head(pfifo)) \in Words
    BY <1>5, <1>6, Zenon
  <1>8. QED
    BY <1>3, <1>4, <1>7 DEF TxWord

(* One clock of update2nios, as far as fill levels go. *)
LEMMA TxLevels ==
    ASSUME Shape, TxClock
    PROVE  /\ pfifo' \in Seq(Points) /\ lfifo' \in Seq(Words)
           /\ usedw' = IF Reading /\ usedw # 0 THEN usedw - 1 ELSE usedw
           /\ laserw' = IF Valid /\ ready THEN laserw + 1 ELSE laserw
  <1>1. pfifo \in Seq(Points) /\ lfifo \in Seq(Words)
    BY Zenon DEF Shape
  <1>2. pfifo' \in Seq(Points) /\ Len(pfifo') = IF Reading /\ pfifo # <<>> THEN Len(pfifo) - 1 ELSE Len(pfifo)
    <2>1. CASE Reading /\ pfifo # <<>>
      <3>1. pfifo' = Tail(pfifo)
        BY <2>1, Zenon DEF TxClock
      <3>2. Tail(pfifo) \in Seq(Points) /\ Len(Tail(pfifo)) = Len(pfifo) - 1
        BY <1>1, <2>1, ST!HeadTailProperties, Zenon
      <3>3. QED
        BY <2>1, <3>1, <3>2, Zenon
    <2>2. CASE ~(Reading /\ pfifo # <<>>)
      <3>1. pfifo' = pfifo
        BY <2>2, Zenon DEF TxClock
      <3>2. QED
        BY <1>1, <2>2, <3>1, Zenon
    <2>3. QED
      BY <2>1, <2>2, Zenon
  <1>3. PICK low \in {0, 1} : lfifo' = IF Valid /\ ready THEN Append(lfifo, TxWord(low)) ELSE lfifo
    BY Zenon DEF TxClock, LowHalves
  <1>4. lfifo' \in Seq(Words) /\ Len(lfifo') = IF Valid /\ ready THEN Len(lfifo) + 1 ELSE Len(lfifo)
    <2>1. TxWord(low) \in Words
      BY TxWordType, Zenon
    <2>2. Append(lfifo, TxWord(low)) \in Seq(Words) /\ Len(Append(lfifo, TxWord(low))) = Len(lfifo) + 1
      BY <1>1, <2>1, ST!AppendProperties, Zenon
    <2>3. QED
      BY <1>1, <1>3, <2>2, Zenon
  <1>5. pfifo # <<>> <=> usedw # 0
    BY Levels, Zenon
  <1>6. QED
    BY <1>2, <1>4, <1>5, Zenon DEF usedw, laserw

(* A point that goes into the position FIFO. *)
LEMMA PointLevels ==
    ASSUME Shape, NewPoint
    PROVE  /\ pfifo' \in Seq(Points)
           /\ usedw' = IF enable_flag THEN usedw + 1 ELSE usedw
  <1>1. pfifo \in Seq(Points) /\ rev \in Revs /\ idx \in 0..N
    BY Zenon DEF Shape
  <1>2. Point(rev, idx) \in Points
    BY <1>1, SMT DEF Points
  <1>3. Append(pfifo, Point(rev, idx)) \in Seq(Points) /\ Len(Append(pfifo, Point(rev, idx))) = Len(pfifo) + 1
    BY <1>1, <1>2, ST!AppendProperties, Zenon
  <1>4. CASE enable_flag
    <2>1. pfifo' = Append(pfifo, Point(rev, idx))
      BY <1>4, Zenon DEF NewPoint
    <2>2. QED
      BY <1>3, <1>4, <2>1, Zenon DEF usedw
  <1>5. CASE ~enable_flag
    <2>1. pfifo' = pfifo
      BY <1>5, Zenon DEF NewPoint
    <2>2. QED
      BY <1>1, <1>5, <2>1, Zenon DEF usedw
  <1>6. QED
    BY <1>4, <1>5, Zenon

(* The word the firmware takes. *)
LEMMA ReadLevels ==
    ASSUME Shape, ReadWord
    PROVE  lfifo' \in Seq(Words) /\ laserw' = laserw - 1
  <1>1. lfifo \in Seq(Words) /\ lfifo # <<>>
    BY Zenon DEF Shape, ReadWord, fpga_is_has_data
  <1>2. lfifo' = Tail(lfifo)
    BY Zenon DEF ReadWord, altera_avalon_fifo_read_fifo
  <1>3. QED
    BY <1>1, <1>2, ST!HeadTailProperties, Zenon DEF laserw

(* Every action keeps the shape of the state. *)
LEMMA ShapeStep ==
    ASSUME Shape, [Next]_vars
    PROVE  Shape'
  <1> USE Sizes
  <1>1. CASE CycleRise
    <2>1. enable_flag' \in BOOLEAN
      <3>1. CASE update_enable
        <4>1. enable_flag' = (usedw \in {0, N})
          BY <1>1, <3>1, Zenon DEF CycleRise
        <4>2. (usedw \in {0, N}) \in BOOLEAN
          BY SMT
        <4>3. QED
          BY <4>1, <4>2, SMT
      <3>2. CASE ~update_enable
        BY <1>1, <3>2, Zenon DEF CycleRise, Shape
      <3>3. QED
        BY <3>1, <3>2, Zenon
    <2>2. quiet' \in Nat
      BY <1>1 DEF CycleRise, Elapse, Shape
    <2>3. stalls' \in Nat
      BY <1>1 DEF CycleRise, Begin, Shape
    <2>4. rev' \in Revs
      BY <1>1 DEF CycleRise, Shape, Revs
    <2>5. cycle' = TRUE /\ idx' = 0
      BY <1>1, Zenon DEF CycleRise
    <2>6. idx' \in 0..N
      BY <2>5
    <2>7. cycle' \in BOOLEAN
      BY <2>5, Zenon
    <2>8. UNCHANGED <<update_enable, pfifo, tx, lfifo>>
      BY <1>1, Zenon DEF CycleRise
    <2>9. QED
      BY <2>1, <2>2, <2>3, <2>4, <2>6, <2>7, <2>8, Zenon DEF Shape, tx
  <1>2. CASE NewPoint
    <2>1. idx' \in 0..N
      BY <1>2 DEF NewPoint, Shape
    <2>2. quiet' \in Nat
      BY <1>2 DEF NewPoint, Shape
    <2>3. pfifo' \in Seq(Points)
      BY <1>2, PointLevels, Zenon
    <2>4. UNCHANGED <<cycle, rev, update_enable, enable_flag, tx, lfifo, stalls>>
      BY <1>2, Zenon DEF NewPoint
    <2>5. QED
      BY <2>1, <2>2, <2>3, <2>4, Zenon DEF Shape, tx
  <1>3. CASE CycleFall
    <2>1. cycle' \in BOOLEAN /\ enable_flag' \in BOOLEAN
      BY <1>3, Zenon DEF CycleFall
    <2>2. quiet' \in Nat
      BY <1>3 DEF CycleFall, Elapse, Shape
    <2>3. UNCHANGED <<idx, rev, update_enable, pfifo, tx, lfifo, stalls>>
      BY <1>3, Zenon DEF CycleFall
    <2>4. QED
      BY <2>1, <2>2, <2>3, Zenon DEF Shape, tx
  <1>4. CASE SetUploadEn
    <2>1. update_enable' \in BOOLEAN /\ enable_flag' \in BOOLEAN
      BY <1>4, Zenon DEF SetUploadEn
    <2>2. UNCHANGED <<cycle, idx, rev, quiet, pfifo, tx, lfifo, stalls>>
      BY <1>4, Zenon DEF SetUploadEn
    <2>3. QED
      BY <2>1, <2>2, Zenon DEF Shape, tx
  <1>5. CASE ClearFifo
    <2>1. quiet' \in Nat
      BY <1>5 DEF ClearFifo
    <2>2. pfifo' \in Seq(Points)
      BY <1>5, ST!EmptySeq, Zenon DEF ClearFifo
    <2>3. UNCHANGED <<scanSide, tx, lfifo>>
      BY <1>5, Zenon DEF ClearFifo
    <2>4. QED
      BY <2>1, <2>2, <2>3, Zenon DEF Shape, tx, scanSide
  <1>6. CASE TxClock
    <2>1. pfifo' \in Seq(Points) /\ lfifo' \in Seq(Words)
      BY <1>6, TxLevels, Zenon
    <2>2. quiet' \in Nat
      BY <1>6 DEF TxClock, Shape
    <2>3. cs' \in {"IDLE", "HEAD", "DATA_LEN", "DATA", "DLY", "CHECKSUM", "OVER"}
      BY <1>6 DEF TxClock, NextState, Shape
    <2>4. tx_command' \in Commands /\ tx_data_len' \in Nat
      BY <1>6 DEF TxClock, Choose, Shape, Commands
    <2>5. tx_data_cnt' \in Nat
      BY <1>6 DEF TxClock, Shape
    <2>6. timer_cnt' \in Nat
      BY <1>6 DEF TxClock, Timer, Shape
    <2>7. UNCHANGED scanSide
      BY <1>6, Zenon DEF TxClock
    <2>8. QED
      BY <2>1, <2>2, <2>3, <2>4, <2>5, <2>6, <2>7, Zenon DEF Shape, scanSide
  <1>7. CASE ReadWord
    <2>1. lfifo' \in Seq(Words)
      BY <1>7, ReadLevels, Zenon
    <2>2. UNCHANGED <<scanSide, pfifo, quiet, tx>>
      BY <1>7, Zenon DEF ReadWord
    <2>3. QED
      BY <2>1, <2>2, Zenon DEF Shape, tx, scanSide
  <1>8. CASE UNCHANGED vars
    BY <1>8, Zenon DEF Shape, vars, tx, scanSide
  <1>9. QED
    BY <1>1, <1>2, <1>3, <1>4, <1>5, <1>6, <1>7, <1>8, Zenon DEF Next

(* A stall is never undone. *)
Stalled == stalls # 0

LEMMA StallsStay ==
    ASSUME Shape, [Next]_vars, Stalled
    PROVE  Stalled'
  <1>1. CASE CycleRise
    BY <1>1 DEF CycleRise, Begin, Shape, Stalled
  <1>2. CASE ~CycleRise
    BY <1>2, Zenon DEF Next, NewPoint, CycleFall, SetUploadEn, ClearFifo, TxClock, ReadWord,
       vars, scanSide, Stalled
  <1>3. QED
    BY <1>1, <1>2, Zenon

(* The position FIFO takes a revolution only as a whole. *)
LEMMA RoomStep ==
    ASSUME Shape, Room, [Next]_vars
    PROVE  Room'
  <1> USE Sizes
  <1>a. usedw \in Nat /\ idx \in 0..N /\ usedw <= 2 * N
    BY Levels DEF Shape, Room
  <1>1. CASE CycleRise
    <2>1. usedw' = usedw /\ idx' = 0 /\ cycle' = TRUE
      BY <1>1, Zenon DEF CycleRise, usedw
    <2>2. enable_flag' => usedw \in {0, N}
      BY <1>1, Zenon DEF CycleRise, Room
    <2>3. QED
      BY <1>a, <2>1, <2>2 DEF Room
  <1>2. CASE NewPoint
    <2>1. usedw' = IF enable_flag THEN usedw + 1 ELSE usedw
      BY <1>2, PointLevels, Zenon
    <2>2. /\ cycle /\ idx < N /\ idx' = idx + 1
          /\ cycle' = cycle /\ enable_flag' = enable_flag /\ update_enable' = update_enable
      BY <1>2, Zenon DEF NewPoint
    <2>3. QED
      BY <1>a, <2>1, <2>2 DEF Room
  <1>3. CASE CycleFall
    <2>1. usedw' = usedw /\ idx' = idx /\ cycle' = FALSE /\ update_enable' = update_enable
      BY <1>3, Zenon DEF CycleFall, usedw
    <2>2. enable_flag' => update_enable
      BY <1>3, Zenon DEF CycleFall
    <2>3. ~cycle' /\ ~update_enable' => ~enable_flag'
      BY <2>1, <2>2, Zenon
    <2>4. QED
      BY <1>a, <2>1, <2>3 DEF Room
  <1>4. CASE SetUploadEn
    <2>1. usedw' = usedw /\ idx' = idx /\ cycle' = cycle
      BY <1>4, Zenon DEF SetUploadEn, usedw
    <2>2. /\ enable_flag' => enable_flag
          /\ ~cycle /\ ~update_enable' => ~enable_flag'
      BY <1>4, Zenon DEF SetUploadEn
    <2>3. QED
      BY <2>1, <2>2, Zenon DEF Room
  <1>5. CASE ClearFifo
    <2>1. usedw' = 0
      BY <1>5, ST!EmptySeq, Zenon DEF ClearFifo, usedw
    <2>2. idx' = idx /\ cycle' = cycle /\ enable_flag' = enable_flag /\ update_enable' = update_enable
      BY <1>5, Zenon DEF ClearFifo, scanSide
    <2>3. QED
      BY <1>a, <2>1, <2>2 DEF Room
  <1>6. CASE TxClock
    <2>1. usedw' = IF Reading /\ usedw # 0 THEN usedw - 1 ELSE usedw
      BY <1>6, TxLevels, Zenon
    <2>2. idx' = idx /\ cycle' = cycle /\ enable_flag' = enable_flag /\ update_enable' = update_enable
      BY <1>6, Zenon DEF TxClock, scanSide
    <2>3. QED
      BY <1>a, <2>1, <2>2 DEF Room
  <1>7. CASE ReadWord \/ UNCHANGED vars
    <2>1. usedw' = usedw /\ idx' = idx /\ cycle' = cycle /\ enable_flag' = enable_flag
          /\ update_enable' = update_enable
      BY <1>7, Zenon DEF ReadWord, vars, scanSide, usedw
    <2>2. QED
      BY <2>1, Zenon DEF Room
  <1>8. QED
    BY <1>1, <1>2, <1>3, <1>4, <1>5, <1>6, <1>7, Zenon DEF Next

(* What is still to come. *)
LEMMA Dues ==
    ASSUME Shape, Steady
    PROVE  /\ Rest \in Nat /\ (cs # "IDLE" => Rest >= 1) /\ (cs = "IDLE" => Rest = 0)
           /\ ScanDue \in {0, N + 3} /\ (Pending <=> ScanDue = N + 3)
           /\ StatusDue \in {0, StatusLen + 3} /\ (timer_cnt <= TimerAt <=> StatusDue = StatusLen + 3)
           /\ laserw + Rest + ScanDue + StatusDue <= LaserDepth
  <1> USE Sizes
  <1>1. Rest \in Nat /\ (cs # "IDLE" => Rest >= 1) /\ (cs = "IDLE" => Rest = 0)
    <2>1. /\ tx_data_len \in Nat /\ tx_data_cnt \in Nat /\ (cs = "DATA" => tx_data_cnt < tx_data_len)
          /\ cs \in {"IDLE", "HEAD", "DATA_LEN", "DATA", "DLY", "CHECKSUM"}
      BY DEF Shape, Steady, FrameInv
    <2>2. QED
      BY <2>1 DEF Rest
  <1>2. ScanDue \in {0, N + 3} /\ (Pending <=> ScanDue = N + 3)
    BY DEF ScanDue
  <1>3. StatusDue \in {0, StatusLen + 3} /\ (timer_cnt <= TimerAt <=> StatusDue = StatusLen + 3)
    BY DEF StatusDue
  <1>4. QED
    BY <1>1, <1>2, <1>3, Zenon DEF Steady, Budget

(* The laser FIFO can take whatever update2nios has to send. *)
LEMMA CanSend ==
    ASSUME Shape, Steady
    PROVE  (cs # "IDLE" \/ usedw = N => ready) /\ laserw <= LaserDepth
  <1> USE Sizes, Levels, Dues
  <1>1. laserw <= LaserDepth
    OBVIOUS
  <1>2. cs # "IDLE" => laserw < LaserDepth
    OBVIOUS
  <1>3. cs = "IDLE" /\ usedw = N => Pending
    BY Zenon DEF Pending, Distance, InFrame
  <1>4. cs = "IDLE" /\ usedw = N => laserw < LaserDepth
    BY <1>3
  <1>5. QED
    BY <1>1, <1>2, <1>4, Zenon DEF ready, laserw

(* A revolution neither begins nor ends while a frame is being sent or one  *)
(* could be.                                                                *)
LEMMA Quiescent ==
    ASSUME Shape, Steady, ~Running
    PROVE  cs = "IDLE" /\ usedw # N /\ ~InFrame /\ ~Distance
  <1>1. cs = "IDLE"
    BY CanSend, Zenon DEF Running
  <1>2. usedw # N
    BY CanSend, Zenon DEF Running, Due
  <1>3. ~InFrame
    BY <1>1 DEF InFrame
  <1>4. QED
    BY <1>1, <1>2, <1>3, Zenon DEF Distance

(* What the actions of the other processes leave to update2nios. *)
LEMMA TxUnchanged ==
    ASSUME cs' = cs, tx_command' = tx_command, tx_data_len' = tx_data_len,
           tx_data_cnt' = tx_data_cnt, timer_cnt' = timer_cnt
    PROVE  /\ (FrameInv => FrameInv') /\ (InFrame' <=> InFrame) /\ (Distance' <=> Distance)
           /\ (timer_flag' <=> timer_flag) /\ Rest' = Rest /\ StatusDue' = StatusDue
  <1>1. (InFrame' <=> InFrame) /\ (Distance' <=> Distance)
    BY Zenon DEF InFrame, Distance
  <1>2. FrameInv => FrameInv'
    BY Zenon DEF FrameInv, InFrame
  <1>3. timer_flag' <=> timer_flag
    BY Zenon DEF timer_flag
  <1>4. Rest' = Rest /\ StatusDue' = StatusDue
    BY Zenon DEF Rest, StatusDue
  <1>5. QED
    BY <1>1, <1>2, <1>3, <1>4, Zenon

LEMMA RiseSteady ==
    ASSUME Shape, Room, Steady, CycleRise, stalls' = 0
    PROVE  Steady'
  <1> USE Sizes, Levels
  <1>1. cs = "IDLE" /\ usedw # N /\ ~InFrame /\ ~Distance
    BY Quiescent, Zenon DEF CycleRise
  <1>2. /\ (FrameInv => FrameInv') /\ (InFrame' <=> InFrame) /\ (Distance' <=> Distance)
        /\ Rest' = Rest /\ StatusDue' = StatusDue
    BY TxUnchanged, Zenon DEF CycleRise, tx
  <1>3. laserw = 0 /\ laserw' = laserw
    <2>1. lfifo = <<>>
      BY DEF CycleRise, Begin, Shape
    <2>2. lfifo' = lfifo
      BY Zenon DEF CycleRise
    <2>3. QED
      BY <2>1, <2>2, Zenon DEF laserw
  <1>4. usedw' = usedw /\ idx' = 0
    BY Zenon DEF CycleRise, usedw
  <1>5. enable_flag' => usedw = 0
    BY <1>1, Zenon DEF CycleRise, Room
  <1>6. InTime'
    <2>1. usedw <= N
      BY Zenon DEF Steady, InTime
    <2>2. QED
      BY <2>1, <1>1, <1>2, <1>4, <1>5 DEF InTime
  <1>7. Budget'
    <2>1. Rest' = 0 /\ StatusDue' \in {0, StatusLen + 3}
      BY <1>1, <1>2, Dues, Zenon
    <2>2. ScanDue' \in {0, N + 3}
      BY Zenon DEF ScanDue
    <2>3. laserw' = 0
      BY <1>3, Zenon
    <2>4. laserw' + Rest' + ScanDue' + StatusDue' <= LaserDepth
      <3>1. PICK x, y : x = ScanDue' /\ y = StatusDue'
        BY Zenon
      <3>2. x \in Int /\ x <= N + 3
        BY <2>2, <3>1
      <3>3. y \in Int /\ y <= StatusLen + 3
        BY <2>1, <3>1
      <3>4. 0 + 0 + x + y <= LaserDepth
        BY <3>2, <3>3
      <3>5. QED
        BY <2>1, <2>3, <3>1, <3>4, Zenon
    <2>5. QED
      BY <2>4, Zenon DEF Budget
  <1>8. QED
    BY <1>2, <1>6, <1>7, Zenon DEF Steady

LEMMA PointSteady ==
    ASSUME Shape, Steady, NewPoint
    PROVE  Steady'
  <1> USE Sizes, Levels
  <1>1. /\ cycle /\ idx \in Nat /\ idx < N /\ idx' = idx + 1
        /\ cycle' = cycle /\ enable_flag' = enable_flag
    BY DEF NewPoint, Shape
  <1>2. usedw' = IF enable_flag THEN usedw + 1 ELSE usedw
    BY PointLevels, Zenon
  <1>3. /\ (FrameInv => FrameInv') /\ (InFrame' <=> InFrame) /\ (Distance' <=> Distance)
        /\ (timer_flag' <=> timer_flag) /\ Rest' = Rest /\ StatusDue' = StatusDue
    BY TxUnchanged, Zenon DEF NewPoint, tx
  <1>4. ~Distance /\ ~(InFrame /\ timer_flag) /\ usedw < N
    BY <1>1 DEF Steady, InTime
  <1>5. enable_flag => usedw <= idx
    BY <1>1, Zenon DEF Steady, InTime
  <1>6. InTime'
    <2>1. enable_flag => quiet' = 0
      BY Zenon DEF NewPoint
    <2>2. QED
      BY <1>1, <1>2, <1>3, <1>4, <1>5, <2>1 DEF InTime
  <1>7. Budget'
    <2>1. Pending' => Pending
      BY <1>1, <1>2, <1>3, <1>4, <1>5 DEF Pending
    <2>2. ScanDue' <= ScanDue /\ ScanDue' \in Nat /\ ScanDue \in Nat
      BY <2>1 DEF ScanDue
    <2>3. laserw' = laserw
      BY Zenon DEF NewPoint, laserw
    <2>4. QED
      BY <1>3, <2>2, <2>3, Dues DEF Budget
  <1>8. QED
    BY <1>3, <1>6, <1>7, Zenon DEF Steady

LEMMA FallSteady ==
    ASSUME Shape, Steady, CycleFall
    PROVE  Steady'
  <1> USE Sizes, Levels
  <1>1. cs = "IDLE" /\ usedw # N /\ ~InFrame /\ ~Distance
    BY Quiescent, Zenon DEF CycleFall
  <1>2. /\ (FrameInv => FrameInv') /\ (InFrame' <=> InFrame) /\ (Distance' <=> Distance)
        /\ Rest' = Rest /\ StatusDue' = StatusDue
    BY TxUnchanged, Zenon DEF CycleFall, tx
  <1>3. usedw' = usedw /\ laserw' = laserw /\ ~cycle'
    BY Zenon DEF CycleFall, usedw, laserw
  <1>4. InTime'
    <2>1. usedw <= N
      BY Zenon DEF Steady, InTime
    <2>2. QED
      BY <2>1, <1>1, <1>2, <1>3 DEF InTime
  <1>5. Budget'
    <2>1. ~Pending'
      BY <1>1, <1>3, Zenon DEF Pending
    <2>2. ScanDue' = 0
      BY <2>1, Zenon DEF ScanDue
    <2>3. QED
      BY <1>2, <1>3, <2>2, Dues DEF Budget
  <1>6. QED
    BY <1>2, <1>4, <1>5, Zenon DEF Steady

LEMMA EnableSteady ==
    ASSUME Shape, Steady, SetUploadEn
    PROVE  Steady'
  <1> USE Sizes, Levels
  <1>1. /\ (FrameInv => FrameInv') /\ (InFrame' <=> InFrame) /\ (Distance' <=> Distance)
        /\ (timer_flag' <=> timer_flag) /\ Rest' = Rest /\ StatusDue' = StatusDue
    BY TxUnchanged, Zenon DEF SetUploadEn, tx
  <1>2. /\ usedw' = usedw /\ laserw' = laserw /\ cycle' = cycle /\ idx' = idx /\ quiet' = quiet
        /\ cs' = cs /\ tx_data_cnt' = tx_data_cnt
    BY Zenon DEF SetUploadEn, usedw, laserw, tx
  <1>3. enable_flag' => enable_flag
    BY Zenon DEF SetUploadEn
  <1>4. InTime'
    BY <1>1, <1>2, <1>3, Zenon DEF Steady, InTime
  <1>5. Budget'
    <2>1. Pending' => Pending
      BY <1>1, <1>2, <1>3, Zenon DEF Pending
    <2>2. ScanDue' <= ScanDue /\ ScanDue' \in Nat /\ ScanDue \in Nat
      BY <2>1 DEF ScanDue
    <2>3. QED
      BY <1>1, <1>2, <2>2, Dues DEF Budget
  <1>6. QED
    BY <1>1, <1>4, <1>5, Zenon DEF Steady

(* The timeout of pos_buffer never meets a distance frame. *)
LEMMA ClearSteady ==
    ASSUME Shape, Steady, ClearFifo
    PROVE  Steady'
  <1> USE Sizes, Levels
  <1>1. /\ (FrameInv => FrameInv') /\ (InFrame' <=> InFrame) /\ (Distance' <=> Distance)
        /\ (timer_flag' <=> timer_flag) /\ Rest' = Rest /\ StatusDue' = StatusDue
    BY TxUnchanged, Zenon DEF ClearFifo, tx
  <1>2. usedw' = 0
    BY ST!EmptySeq, Zenon DEF ClearFifo, usedw
  <1>3. /\ laserw' = laserw /\ cycle' = cycle /\ enable_flag' = enable_flag /\ idx' = idx
        /\ cs' = cs /\ tx_data_cnt' = tx_data_cnt
    BY Zenon DEF ClearFifo, scanSide, laserw, tx
  <1>4. quiet # 0
    BY DEF ClearFifo
  <1>5. usedw # N /\ ~Distance
    BY <1>4, Zenon DEF Steady, InTime
  <1>6. InTime'
    <2>1. idx \in Nat
      BY DEF Shape
    <2>2. InFrame /\ timer_flag => cs = "DATA" /\ tx_data_cnt >= 2 /\ idx = N
      BY <1>5, Zenon DEF Steady, InTime
    <2>3. QED
      BY <1>1, <1>2, <1>3, <1>5, <2>1, <2>2 DEF InTime
  <1>7. Budget'
    <2>1. Pending' => Pending
      <3>1. Pending' => cycle /\ enable_flag /\ idx < N /\ idx = 0
        BY <1>2, <1>3 DEF Pending
      <3>2. cycle /\ enable_flag => usedw <= idx
        BY Zenon DEF Steady, InTime
      <3>3. Pending' => usedw = idx
        BY <3>1, <3>2
      <3>4. QED
        BY <3>1, <3>3, Zenon DEF Pending
    <2>2. ScanDue' <= ScanDue /\ ScanDue' \in Nat /\ ScanDue \in Nat
      BY <2>1 DEF ScanDue
    <2>3. QED
      BY <1>1, <1>3, <2>2, Dues DEF Budget
  <1>8. QED
    BY <1>1, <1>6, <1>7, Zenon DEF Steady

LEMMA ReadSteady ==
    ASSUME Shape, Steady, ReadWord
    PROVE  Steady'
  <1> USE Sizes, Levels
  <1>1. /\ (FrameInv => FrameInv') /\ (InFrame' <=> InFrame) /\ (Distance' <=> Distance)
        /\ (timer_flag' <=> timer_flag) /\ Rest' = Rest /\ StatusDue' = StatusDue
    BY TxUnchanged, Zenon DEF ReadWord, tx
  <1>2. /\ usedw' = usedw /\ cycle' = cycle /\ enable_flag' = enable_flag /\ idx' = idx
        /\ quiet' = quiet /\ cs' = cs /\ tx_data_cnt' = tx_data_cnt
    BY Zenon DEF ReadWord, scanSide, usedw, tx
  <1>3. laserw' = laserw - 1
    BY ReadLevels, Zenon
  <1>4. InTime'
    BY <1>1, <1>2, Zenon DEF Steady, InTime
  <1>5. ScanDue' = ScanDue
    BY <1>1, <1>2, Zenon DEF Pending, ScanDue
  <1>6. Budget'
    BY <1>1, <1>3, <1>5, Dues DEF Budget
  <1>7. QED
    BY <1>1, <1>4, <1>6, Zenon DEF Steady

(* A step that sends what it takes from the words still to come keeps the   *)
(* budget.                                                                  *)
LEMMA BudgetStep ==
    ASSUME Shape, Steady,
           laserw' \in Int, Rest' \in Int, ScanDue' \in Int, StatusDue' = StatusDue,
           laserw' + Rest' + ScanDue' <= laserw + Rest + ScanDue
    PROVE  Budget'
  <1>1. PICK l, r, s, t, l1, r1, s1 :
           /\ l = laserw /\ r = Rest /\ s = ScanDue /\ t = StatusDue
           /\ l1 = laserw' /\ r1 = Rest' /\ s1 = ScanDue'
    BY Zenon
  <1>2. laserw \in Nat /\ Rest \in Nat /\ ScanDue \in {0, N + 3} /\ StatusDue \in {0, StatusLen + 3}
    BY Levels, Dues, Zenon
  <1>3. l \in Int /\ r \in Int /\ s \in Int /\ t \in Int
    BY <1>1, <1>2, Sizes
  <1>4. l1 \in Int /\ r1 \in Int /\ s1 \in Int /\ l1 + r1 + s1 <= l + r + s
    BY <1>1, Zenon
  <1>5. l + r + s + t <= LaserDepth
    BY <1>1, Zenon DEF Steady, Budget
  <1>6. l1 + r1 + s1 + t <= LaserDepth
    BY <1>3, <1>4, <1>5, Sizes
  <1>7. QED
    BY <1>1, <1>6, Zenon DEF Budget

(* The parts of a clock that do not depend on the state of the FSM, once a  *)
(* frame is under way.                                                      *)
LEMMA TxBusy ==
    ASSUME Shape, Steady, TxClock, cs # "IDLE"
    PROVE  /\ ready
           /\ timer_cnt' = timer_cnt /\ StatusDue' = StatusDue /\ (timer_flag' <=> timer_flag)
           /\ cycle' = cycle /\ enable_flag' = enable_flag /\ idx' = idx
           /\ usedw' = IF Reading /\ usedw # 0 THEN usedw - 1 ELSE usedw
           /\ laserw' = IF Valid THEN laserw + 1 ELSE laserw
           /\ quiet' = IF Reading /\ usedw # 0 THEN 0 ELSE quiet
  <1>1. ready
    BY CanSend, Zenon
  <1>2. timer_cnt' = timer_cnt
    BY Zenon DEF TxClock, Timer
  <1>3. StatusDue' = StatusDue /\ (timer_flag' <=> timer_flag)
    BY <1>2, Zenon DEF StatusDue, timer_flag
  <1>4. cycle' = cycle /\ enable_flag' = enable_flag /\ idx' = idx
    BY Zenon DEF TxClock, scanSide
  <1>5. quiet' = IF Reading /\ usedw # 0 THEN 0 ELSE quiet
    BY Levels, Zenon DEF TxClock
  <1>6. QED
    BY <1>1, <1>2, <1>3, <1>4, <1>5, TxLevels, Zenon

(* The first two words.  A status frame becomes a distance frame if the     *)
(* last point of a revolution arrives now.                                  *)
LEMMA HeadSteady ==
    ASSUME Shape, Steady, TxClock, cs \in {"HEAD", "DATA_LEN"}
    PROVE  Steady'
  <1> USE Sizes, Levels
  <1>1. cs # "IDLE" /\ InFrame /\ ~Reading /\ Valid
    BY DEF InFrame, Reading, Valid
  <1>2. /\ (timer_flag' <=> timer_flag) /\ StatusDue' = StatusDue
        /\ cycle' = cycle /\ enable_flag' = enable_flag /\ idx' = idx
        /\ usedw' = usedw /\ laserw' = laserw + 1 /\ quiet' = quiet
    BY <1>1, TxBusy, Zenon
  <1>3. tx_data_cnt = 0 /\ tx_data_cnt' = 0
    BY DEF TxClock, Steady, FrameInv
  <1>4. /\ cs = "HEAD" => cs' = "DATA_LEN"
        /\ cs = "DATA_LEN" => cs' = "DATA"
    BY DEF TxClock, NextState
  <1>5. /\ tx_command = "DISTANCE" => tx_data_len = N /\ usedw = N
        /\ tx_command # "DISTANCE" => tx_data_len = StatusLen
        /\ timer_flag => tx_command = "DISTANCE"
        /\ usedw <= N /\ (usedw = N => quiet = 0 /\ idx = N)
    BY <1>1, <1>3 DEF Steady, FrameInv, InTime, Distance
  <1>6. /\ usedw = N => tx_command' = "DISTANCE" /\ tx_data_len' = N
        /\ usedw # N => tx_command' = tx_command /\ tx_data_len' = tx_data_len /\ tx_command # "DISTANCE"
    <2>1. usedw = N => usedw >= N
      OBVIOUS
    <2>2. usedw # N => ~(usedw >= N)
      BY <1>5
    <2>3. cs # "CHECKSUM"
      OBVIOUS
    <2>4. Choose
      BY Zenon DEF TxClock
    <2>5. QED
      BY <1>5, <2>1, <2>2, <2>3, <2>4, Zenon DEF Choose
  <1>7. InFrame' /\ (Distance' <=> usedw = N)
    <2>1. InFrame'
      BY <1>4 DEF InFrame
    <2>2. QED
      BY <2>1, <1>6, Zenon DEF Distance
  <1>8. FrameInv'
    BY <1>3, <1>4, <1>5, <1>6 DEF FrameInv
  <1>9. InTime'
    <2>1. cycle /\ enable_flag => usedw <= idx
      BY Zenon DEF Steady, InTime
    <2>2. usedw = N => cycle
      BY Zenon DEF Steady, InTime
    <2>3. timer_flag => usedw = N
      BY <1>5, Zenon
    <2>4. InFrame' /\ timer_flag' => Distance' /\ tx_data_cnt' \in {0, 1} /\ usedw' = N - tx_data_cnt'
      BY <1>2, <1>3, <1>7, <2>3
    <2>5. Distance' => quiet' = 0 /\ usedw' >= N - tx_data_cnt' /\ idx' = N
      BY <1>2, <1>3, <1>5, <1>7
    <2>6. QED
      BY <1>2, <1>5, <2>1, <2>2, <2>4, <2>5, Zenon DEF InTime
  <1>10. Budget'
    <2>1. /\ cs = "HEAD" => Rest = 3 + tx_data_len /\ Rest' = 2 + tx_data_len'
          /\ cs = "DATA_LEN" => Rest = 2 + tx_data_len /\ Rest' = 1 + tx_data_len'
      BY <1>3, <1>4, <1>5, <1>6 DEF Rest
    <2>2. CASE tx_data_len' = tx_data_len /\ (Pending' => Pending)
      <3>1. ScanDue' <= ScanDue /\ ScanDue' \in Nat /\ ScanDue \in Nat
        BY <2>2 DEF ScanDue
      <3>2. tx_data_len \in Nat
        BY DEF Shape
      <3>3. Rest \in Int /\ Rest' = Rest - 1
        BY <2>1, <2>2, <3>2
      <3>4. laserw' + Rest' + ScanDue' <= laserw + Rest + ScanDue
        BY <1>2, <3>1, <3>3
      <3>5. QED
        BY <1>2, <3>1, <3>3, <3>4, BudgetStep
    <2>3. CASE usedw = N /\ tx_command # "DISTANCE"
      <3>1. Pending /\ ~Pending'
        <4>1. ~Distance /\ Distance'
          BY <1>7, <2>3, Zenon DEF Distance
        <4>2. ~(idx' < N)
          BY <1>2, <1>5, <2>3
        <4>3. QED
          BY <4>1, <4>2, <2>3, Zenon DEF Pending
      <3>2. ScanDue = N + 3 /\ ScanDue' = 0
        BY <3>1, Zenon DEF ScanDue
      <3>3. tx_data_len = StatusLen /\ tx_data_len' = N
        BY <1>5, <1>6, <2>3, Zenon
      <3>4. Rest \in Nat /\ Rest' \in Nat /\ Rest' <= Rest + N
        BY <2>1, <3>3
      <3>5. laserw' + Rest' + ScanDue' <= laserw + Rest + ScanDue
        BY <1>2, <3>2, <3>4
      <3>6. QED
        BY <1>2, <3>2, <3>4, <3>5, BudgetStep
    <2>4. ~(usedw = N /\ tx_command # "DISTANCE") => tx_data_len' = tx_data_len /\ (Pending' => Pending)
      <3>1. ~(usedw = N /\ tx_command # "DISTANCE") => (Distance' <=> Distance) /\ tx_data_len' = tx_data_len
        BY <1>1, <1>5, <1>6, <1>7, Zenon DEF Distance
      <3>2. QED
        BY <1>2, <3>1, Zenon DEF Pending
    <2>5. QED
      BY <2>2, <2>3, <2>4, Zenon
  <1>11. QED
    BY <1>8, <1>9, <1>10, Zenon DEF Steady

(* A point of a distance frame.  Where the status timer has just expired    *)
(* the frame turns into a status frame after its second point, one word     *)
(* before a status frame of the shortest length would end.                  *)
LEMMA PointSentSteady ==
    ASSUME Shape, Steady, TxClock, cs = "DATA", tx_command = "DISTANCE"
    PROVE  Steady'
  <1> USE Sizes, Levels
  <1>1. cs # "IDLE" /\ InFrame /\ Distance /\ Reading /\ Valid
    BY DEF InFrame, Distance, Reading, Valid
  <1>2. tx_data_cnt \in Nat /\ tx_data_len = N /\ tx_data_cnt < N
    BY DEF Shape, Steady, FrameInv
  <1>3. /\ usedw <= N /\ usedw >= N - tx_data_cnt /\ idx = N
        /\ timer_flag => tx_data_cnt \in {0, 1} /\ usedw = N - tx_data_cnt
    BY <1>1 DEF Steady, InTime
  <1>4. usedw # 0
    BY <1>2, <1>3
  <1>5. /\ ready /\ (timer_flag' <=> timer_flag) /\ StatusDue' = StatusDue
        /\ cycle' = cycle /\ enable_flag' = enable_flag /\ idx' = idx
        /\ usedw' = usedw - 1 /\ laserw' = laserw + 1 /\ quiet' = 0
    BY <1>1, <1>4, TxBusy, Zenon
  <1>6. tx_data_cnt' = tx_data_cnt + 1
    <2>1. tx_data_cnt' = (tx_data_cnt + 1) % CntMod
      BY <1>5, Zenon DEF TxClock
    <2>2. QED
      BY <1>2, <2>1
  <1>7. cs' = IF tx_data_cnt = N - 1 THEN "DLY" ELSE "DATA"
    BY <1>2 DEF TxClock, NextState
  <1>8. Choose
    BY Zenon DEF TxClock
  <1>9. ~Pending'
    <2>1. usedw' # N /\ ~(idx' < N)
      BY <1>3, <1>5
    <2>2. QED
      BY <2>1, Zenon DEF Pending
  <1>10. ScanDue' = 0
    BY <1>9, Zenon DEF ScanDue
  <1>11. ScanDue \in Nat
    BY DEF ScanDue
  <1>12. Rest = 1 + N - tx_data_cnt
    BY <1>2 DEF Rest
  <1>13. /\ cycle' /\ enable_flag' => usedw' <= idx'
         /\ usedw' <= N /\ usedw' # N
    BY <1>3, <1>5
  <1>14. CASE timer_flag /\ tx_data_cnt = 1
    <2>1. ~(usedw >= N)
      BY <1>3, <1>14
    <2>2. tx_command' = "STATUS" /\ tx_data_len' = StatusLen
      BY <1>8, <1>14, <2>1, Zenon DEF Choose
    <2>3. cs' = "DATA" /\ tx_data_cnt' = 2
      BY <1>6, <1>7, <1>14
    <2>4. InFrame' /\ ~Distance'
      BY <2>2, <2>3 DEF InFrame, Distance
    <2>5. FrameInv'
      BY <2>2, <2>3 DEF FrameInv
    <2>6. usedw' < N /\ idx' = N /\ tx_data_cnt' >= 2
      BY <1>3, <1>5, <2>3
    <2>7. InTime'
      BY <1>13, <2>3, <2>4, <2>6, Zenon DEF InTime
    <2>8. Rest' = 1 + StatusLen - 2
      BY <2>2, <2>3 DEF Rest
    <2>9. Rest' \in Int /\ laserw' + Rest' + ScanDue' <= laserw + Rest + ScanDue
      BY <1>5, <1>10, <1>11, <1>12, <1>14, <2>8
    <2>10. Budget'
      BY <1>5, <1>10, <2>9, BudgetStep
    <2>11. QED
      BY <2>5, <2>7, <2>10, Zenon DEF Steady
  <1>15. CASE ~(timer_flag /\ tx_data_cnt = 1)
    <2>1. tx_command' = "DISTANCE" /\ tx_data_len' = N
      <3>1. timer_flag => usedw >= N
        BY <1>2, <1>3, <1>15
      <3>2. cs # "CHECKSUM"
        OBVIOUS
      <3>3. QED
        BY <1>2, <1>8, <3>1, <3>2, Zenon DEF Choose
    <2>2. FrameInv'
      BY <1>2, <1>6, <1>7, <2>1 DEF FrameInv, InFrame
    <2>3. usedw' >= N - tx_data_cnt' /\ idx' = N
      BY <1>2, <1>3, <1>5, <1>6
    <2>4. timer_flag' => tx_data_cnt' \in {0, 1} /\ usedw' = N - tx_data_cnt' /\ cs' = "DATA"
      BY <1>2, <1>3, <1>5, <1>6, <1>7, <1>15
    <2>5. cs' = "DATA" => Distance'
      BY <2>1 DEF Distance, InFrame
    <2>6. InTime'
      BY <1>5, <1>13, <2>3, <2>4, <2>5, Zenon DEF InTime
    <2>7. Rest' = 1 + N - (tx_data_cnt + 1)
      BY <1>2, <1>6, <1>7, <2>1 DEF Rest
    <2>8. Rest' \in Int /\ laserw' + Rest' + ScanDue' <= laserw + Rest + ScanDue
      BY <1>2, <1>5, <1>10, <1>11, <1>12, <2>7
    <2>9. Budget'
      BY <1>5, <1>10, <2>8, BudgetStep
    <2>10. QED
      BY <2>2, <2>6, <2>9, Zenon DEF Steady
  <1>16. QED
    BY <1>14, <1>15, Zenon

(* A word of a status frame.  It may become a distance frame here, too; the *)
(* frame then has fewer points than the revolution, and the rest stays in   *)
(* the position FIFO.                                                       *)
LEMMA StatusSentSteady ==
    ASSUME Shape, Steady, TxClock, cs = "DATA", tx_command # "DISTANCE"
    PROVE  Steady'
  <1> USE Sizes, Levels
  <1>1. cs # "IDLE" /\ InFrame /\ ~Distance /\ ~Reading /\ Valid
    BY DEF InFrame, Distance, Reading, Valid
  <1>2. tx_data_cnt \in Nat /\ tx_data_len = StatusLen /\ tx_data_cnt < StatusLen
    BY <1>1 DEF Shape, Steady, FrameInv
  <1>3. /\ usedw <= N /\ (cycle /\ enable_flag => usedw <= idx)
        /\ usedw = N => quiet = 0 /\ idx = N /\ cycle
        /\ timer_flag => tx_data_cnt >= 2 /\ usedw < N /\ idx = N
    BY <1>1 DEF Steady, InTime
  <1>4. /\ ready /\ (timer_flag' <=> timer_flag) /\ StatusDue' = StatusDue
        /\ cycle' = cycle /\ enable_flag' = enable_flag /\ idx' = idx
        /\ usedw' = usedw /\ laserw' = laserw + 1 /\ quiet' = quiet
    BY <1>1, TxBusy, Zenon
  <1>5. tx_data_cnt' = tx_data_cnt + 1
    <2>1. tx_data_cnt' = (tx_data_cnt + 1) % CntMod
      BY <1>4, Zenon DEF TxClock
    <2>2. QED
      BY <1>2, <2>1
  <1>6. cs' = IF tx_data_cnt = StatusLen - 1 THEN "DLY" ELSE "DATA"
    BY <1>2 DEF TxClock, NextState
  <1>7. Choose /\ cs # "CHECKSUM"
    BY DEF TxClock
  <1>8. Rest = 1 + StatusLen - tx_data_cnt
    BY <1>2 DEF Rest
  <1>9. CASE usedw = N
    <2>1. tx_command' = "DISTANCE" /\ tx_data_len' = N
      <3>1. usedw >= N
        BY <1>9
      <3>2. QED
        BY <1>7, <3>1, Zenon DEF Choose
    <2>2. FrameInv'
      BY <1>2, <1>5, <1>6, <2>1 DEF FrameInv, InFrame
    <2>3. ~timer_flag'
      BY <1>3, <1>4, <1>9
    <2>4. Distance' => quiet' = 0 /\ usedw' >= N - tx_data_cnt' /\ idx' = N
      BY <1>2, <1>3, <1>4, <1>5, <1>9
    <2>5. InTime'
      BY <1>3, <1>4, <2>3, <2>4, Zenon DEF InTime
    <2>6. Pending
      BY <1>1, <1>9, Zenon DEF Pending
    <2>7. ScanDue = N + 3
      BY <2>6, Zenon DEF ScanDue
    <2>8. CASE tx_data_cnt = StatusLen - 1
      <3>1. cs' = "DLY"
        BY <1>6, <2>8, Zenon
      <3>2. Rest' = 1 /\ ScanDue' \in Nat /\ ScanDue' <= N + 3
        BY <3>1 DEF Rest, ScanDue
      <3>3. laserw' + Rest' + ScanDue' <= laserw + Rest + ScanDue
        BY <1>4, <1>8, <2>7, <2>8, <3>2
      <3>4. QED
        BY <1>4, <3>2, <3>3, <2>2, <2>5, BudgetStep DEF Steady
    <2>9. CASE tx_data_cnt # StatusLen - 1
      <3>1. cs' = "DATA"
        BY <1>6, <2>9, Zenon
      <3>2. Distance'
        BY <3>1, <2>1 DEF Distance, InFrame
      <3>3. ~(idx' < N)
        BY <1>3, <1>4, <1>9
      <3>4. ~Pending'
        BY <3>2, <3>3, Zenon DEF Pending
      <3>5. ScanDue' = 0
        BY <3>4, Zenon DEF ScanDue
      <3>6. Rest' = 1 + N - (tx_data_cnt + 1)
        BY <3>1, <2>1, <1>5 DEF Rest
      <3>7. Rest' \in Int /\ laserw' + Rest' + ScanDue' <= laserw + Rest + ScanDue
        BY <1>2, <1>4, <1>8, <2>7, <3>5, <3>6
      <3>8. QED
        BY <1>4, <3>5, <3>7, <2>2, <2>5, BudgetStep DEF Steady
    <2>10. QED
      BY <2>8, <2>9, Zenon
  <1>10. CASE usedw # N
    <2>1. tx_command' # "DISTANCE" /\ tx_data_len' = StatusLen
      <3>1. ~(usedw >= N)
        BY <1>3, <1>10
      <3>2. CASE timer_flag
        <4>1. tx_command' = "STATUS" /\ tx_data_len' = StatusLen
          BY <1>7, <3>1, <3>2, Zenon DEF Choose
        <4>2. QED
          BY <4>1
      <3>3. CASE ~timer_flag
        BY <1>2, <1>7, <3>1, <3>3, Zenon DEF Choose
      <3>4. QED
        BY <3>2, <3>3, Zenon
    <2>2. FrameInv'
      BY <1>2, <1>5, <1>6, <2>1 DEF FrameInv, InFrame
    <2>3. ~Distance'
      BY <2>1, Zenon DEF Distance
    <2>4. timer_flag' => tx_data_cnt' >= 2 /\ usedw' < N /\ idx' = N
      BY <1>2, <1>3, <1>4, <1>5
    <2>5. InFrame' => cs' = "DATA"
      BY <1>6 DEF InFrame
    <2>6. InTime'
      BY <1>3, <1>4, <1>10, <2>3, <2>4, <2>5, Zenon DEF InTime
    <2>7. ScanDue' = ScanDue /\ ScanDue \in Nat
      <3>1. Pending' <=> Pending
        BY <1>4, <1>1, <2>3, Zenon DEF Pending
      <3>2. QED
        BY <3>1 DEF ScanDue
    <2>8. Rest' = 1 + StatusLen - (tx_data_cnt + 1)
      BY <1>2, <1>5, <1>6, <2>1 DEF Rest
    <2>9. Rest' \in Int /\ laserw' + Rest' + ScanDue' <= laserw + Rest + ScanDue
      BY <1>2, <1>4, <1>8, <2>7, <2>8
    <2>10. Budget'
      BY <1>4, <2>7, <2>9, BudgetStep
    <2>11. QED
      BY <2>2, <2>6, <2>10, Zenon DEF Steady
  <1>11. QED
    BY <1>9, <1>10, Zenon

(* The end of a frame. *)
LEMMA TailSteady ==
    ASSUME Shape, Steady, TxClock, cs \in {"DLY", "CHECKSUM"}
    PROVE  Steady'
  <1> USE Sizes, Levels
  <1>1. cs # "IDLE" /\ ~InFrame /\ ~Distance /\ ~Reading /\ (Valid <=> cs = "CHECKSUM")
    BY DEF InFrame, Distance, Reading, Valid
  <1>2. /\ ready /\ StatusDue' = StatusDue
        /\ cycle' = cycle /\ enable_flag' = enable_flag /\ idx' = idx /\ usedw' = usedw /\ quiet' = quiet
        /\ laserw' = IF cs = "CHECKSUM" THEN laserw + 1 ELSE laserw
    BY <1>1, TxBusy, Zenon
  <1>3. cs' = IF cs = "DLY" THEN "CHECKSUM" ELSE "IDLE"
    BY <1>2 DEF TxClock, NextState
  <1>4. tx_command' = "DISTANCE" => tx_data_len' = N
    <2>1. tx_command = "DISTANCE" => tx_data_len = N
      BY Zenon DEF Steady, FrameInv
    <2>2. Choose
      BY Zenon DEF TxClock
    <2>3. QED
      BY <2>1, <2>2 DEF Choose
  <1>5. ~InFrame' /\ ~Distance'
    BY <1>3 DEF InFrame, Distance
  <1>6. FrameInv'
    BY <1>3, <1>4, <1>5 DEF FrameInv
  <1>7. InTime'
    BY <1>2, <1>5, Zenon DEF Steady, InTime
  <1>8. ScanDue' = ScanDue /\ ScanDue \in Nat
    <2>1. Pending' <=> Pending
      BY <1>1, <1>2, <1>5, Zenon DEF Pending
    <2>2. QED
      BY <2>1 DEF ScanDue
  <1>9. Rest = 1 /\ Rest' = IF cs = "DLY" THEN 1 ELSE 0
    BY <1>3 DEF Rest
  <1>10. Rest' \in Int /\ laserw' \in Int /\ laserw' + Rest' + ScanDue' <= laserw + Rest + ScanDue
    BY <1>2, <1>8, <1>9
  <1>11. Budget'
    BY <1>2, <1>8, <1>10, BudgetStep
  <1>12. QED
    BY <1>6, <1>7, <1>11, Zenon DEF Steady

(* The timer starts again only when the laser FIFO is empty. *)
LEMMA TimerDue ==
    ASSUME Shape, stalls = 0, TxClock, cs = "IDLE"
    PROVE  /\ StatusDue' \in {0, StatusLen + 3}
           /\ StatusDue' = 0 \/ StatusDue = StatusLen + 3 \/ laserw = 0
           /\ timer_flag => StatusDue = StatusLen + 3 /\ StatusDue' = 0 /\ ~timer_flag'
  <1> USE Sizes, Levels
  <1>1. timer_cnt \in Nat
    BY DEF Shape
  <1>2. StatusDue' \in {0, StatusLen + 3}
    BY Zenon DEF StatusDue
  <1>3. timer_cnt' = IF timer_cnt <= TimerMax THEN timer_cnt + 1 ELSE IF Second THEN 0 ELSE timer_cnt
    BY Zenon DEF TxClock, Timer
  <1>4. Second => laserw = 0
    BY DEF Second
  <1>5. CASE timer_cnt <= TimerAt
    <2>1. timer_cnt' = timer_cnt + 1 /\ StatusDue = StatusLen + 3
      BY <1>1, <1>3, <1>5 DEF StatusDue
    <2>2. timer_flag => timer_cnt' = TimerAt + 1
      BY <2>1, Zenon DEF timer_flag
    <2>3. timer_flag => ~(timer_cnt' <= TimerAt) /\ timer_cnt' # TimerAt
      BY <2>2
    <2>4. QED
      BY <1>2, <2>1, <2>3, Zenon DEF StatusDue, timer_flag
  <1>6. CASE ~(timer_cnt <= TimerAt)
    <2>1. ~timer_flag
      BY <1>6 DEF timer_flag
    <2>2. ~Second => ~(timer_cnt' <= TimerAt)
      BY <1>1, <1>3, <1>6
    <2>3. ~Second => StatusDue' = 0
      BY <2>2, Zenon DEF StatusDue
    <2>4. QED
      BY <1>2, <1>4, <2>1, <2>3, Zenon
  <1>7. QED
    BY <1>5, <1>6, Zenon

(* A frame begins, or none is due. *)
LEMMA IdleSteady ==
    ASSUME Shape, Steady, stalls = 0, TxClock, cs = "IDLE"
    PROVE  Steady'
  <1> USE Sizes, Levels
  <1>1. ~InFrame /\ ~Distance /\ ~Reading /\ ~Valid /\ cs # "CHECKSUM"
    BY DEF InFrame, Distance, Reading, Valid
  <1>2. usedw' = usedw /\ laserw' = laserw /\ quiet' = quiet
    BY <1>1, TxLevels, Zenon DEF TxClock
  <1>3. cycle' = cycle /\ enable_flag' = enable_flag /\ idx' = idx
    BY Zenon DEF TxClock, scanSide
  <1>4. tx_data_cnt' = 0 /\ Choose
    BY Zenon DEF TxClock
  <1>5. /\ usedw <= N /\ (cycle /\ enable_flag => usedw <= idx)
        /\ usedw = N => quiet = 0 /\ idx = N /\ cycle
    BY Zenon DEF Steady, InTime
  <1>6. usedw \in {N, 2 * N} <=> usedw = N
    BY <1>5
  <1>7. cs' = IF usedw = N \/ timer_flag THEN "HEAD" ELSE "IDLE"
    <2>1. Due <=> usedw = N \/ timer_flag
      BY <1>6, CanSend, Zenon DEF Due
    <2>2. cs' = IF Due THEN "HEAD" ELSE "IDLE"
      BY DEF TxClock, NextState
    <2>3. QED
      BY <2>1, <2>2, Zenon
  <1>8. PICK l, s, t, t1 :
          /\ l = laserw /\ s = ScanDue /\ t = StatusDue /\ t1 = StatusDue'
    BY Zenon
  <1>9. /\ l \in Nat /\ s \in Nat /\ t \in {0, StatusLen + 3} /\ s <= N + 3
        /\ l + s + t <= LaserDepth
    <2>1. Rest = 0 /\ ScanDue \in {0, N + 3} /\ StatusDue \in {0, StatusLen + 3}
      BY Dues, Zenon
    <2>2. laserw + 0 + ScanDue + StatusDue <= LaserDepth
      BY <2>1, Zenon DEF Steady, Budget
    <2>3. l + 0 + s + t <= LaserDepth /\ s \in {0, N + 3} /\ t \in {0, StatusLen + 3} /\ l \in Nat
      BY <1>8, <2>1, <2>2, Zenon
    <2>4. QED
      BY <2>3
  <1>10. /\ t1 \in {0, StatusLen + 3}
         /\ t1 = 0 \/ t = StatusLen + 3 \/ l = 0
         /\ timer_flag => t = StatusLen + 3 /\ t1 = 0
    BY <1>8, TimerDue, Zenon
  <1>11. CASE usedw = N
    <2>1. tx_command' = "DISTANCE" /\ tx_data_len' = N
      <3>1. usedw >= N
        BY <1>11
      <3>2. QED
        BY <1>4, <3>1, Zenon DEF Choose
    <2>2. cs' = "HEAD"
      BY <1>7, <1>11, Zenon
    <2>3. InFrame' /\ Distance'
      BY <2>1, <2>2 DEF InFrame, Distance
    <2>4. FrameInv'
      BY <1>4, <2>1, <2>2 DEF FrameInv
    <2>5. usedw' >= N - tx_data_cnt' /\ cs' # "DATA"
      BY <1>2, <1>4, <1>11, <2>2
    <2>6. InTime'
      BY <1>2, <1>3, <1>5, <1>11, <2>3, <2>5, Zenon DEF InTime
    <2>7. s = N + 3
      BY <1>1, <1>8, <1>11, Zenon DEF Pending, ScanDue
    <2>8. ScanDue' = 0
      <3>1. ~(idx' < N)
        BY <1>3, <1>5, <1>11
      <3>2. QED
        BY <2>3, <3>1, Zenon DEF Pending, ScanDue
    <2>9. Rest' = 3 + N
      BY <2>1, <2>2 DEF Rest
    <2>10. l + (3 + N) + 0 + t1 <= LaserDepth
      BY <1>9, <1>10, <2>7
    <2>11. Budget'
      BY <1>2, <1>8, <2>8, <2>9, <2>10, Zenon DEF Budget
    <2>12. QED
      BY <2>4, <2>6, <2>11, Zenon DEF Steady
  <1>12. CASE usedw # N
    <2>1. ~(usedw >= N)
      BY <1>5, <1>12
    <2>2. CASE timer_flag
      <3>1. tx_command' = "STATUS" /\ tx_data_len' = StatusLen
        BY <1>4, <2>1, <2>2, Zenon DEF Choose
      <3>2. cs' = "HEAD"
        BY <1>7, <2>2, Zenon
      <3>3. ~Distance' /\ ~timer_flag'
        BY <3>1, <2>2, TimerDue DEF Distance
      <3>4. FrameInv'
        BY <1>4, <3>1, <3>2 DEF FrameInv
      <3>5. InTime'
        BY <1>2, <1>3, <1>5, <1>12, <3>3, Zenon DEF InTime
      <3>6. ScanDue' = s
        BY <1>1, <1>2, <1>3, <1>8, <3>3, Zenon DEF Pending, ScanDue
      <3>7. Rest' = 3 + StatusLen
        BY <3>1, <3>2 DEF Rest
      <3>8. l + (3 + StatusLen) + s + t1 <= LaserDepth
        BY <1>9, <1>10, <2>2
      <3>9. Budget'
        BY <1>2, <1>8, <3>6, <3>7, <3>8, Zenon DEF Budget
      <3>10. QED
        BY <3>4, <3>5, <3>9, Zenon DEF Steady
    <2>3. CASE ~timer_flag
      <3>1. tx_command' = tx_command /\ tx_data_len' = tx_data_len
        BY <1>1, <1>4, <2>1, <2>3, Zenon DEF Choose
      <3>2. cs' = "IDLE"
        BY <1>7, <1>12, <2>3, Zenon
      <3>3. ~InFrame' /\ ~Distance'
        BY <3>2 DEF InFrame, Distance
      <3>4. FrameInv'
        <4>1. tx_command = "DISTANCE" => tx_data_len = N
          BY Zenon DEF Steady, FrameInv
        <4>2. QED
          BY <3>1, <3>2, <3>3, <4>1 DEF FrameInv
      <3>5. InTime'
        BY <1>2, <1>3, <1>5, <3>3, Zenon DEF InTime
      <3>6. ScanDue' = s
        BY <1>1, <1>2, <1>3, <1>8, <3>3, Zenon DEF Pending, ScanDue
      <3>7. Rest' = 0
        BY <3>2 DEF Rest
      <3>8. l + 0 + s + t1 <= LaserDepth
        BY <1>9, <1>10
      <3>9. Budget'
        BY <1>2, <1>8, <3>6, <3>7, <3>8, Zenon DEF Budget
      <3>10. QED
        BY <3>4, <3>5, <3>9, Zenon DEF Steady
    <2>4. QED
      BY <2>2, <2>3, Zenon
  <1>13. QED
    BY <1>11, <1>12, Zenon

-----------------------------------------------------------------------------
LEMMA UploadStart == Init => UploadInv
  <1> USE Sizes
  <1>1. ASSUME Init
        PROVE  UploadInv
    <2>1. pfifo = <<>> /\ lfifo = <<>>
      BY <1>1, Zenon DEF Init
    <2>2. pfifo \in Seq(Points) /\ lfifo \in Seq(Words) /\ usedw = 0 /\ laserw = 0
      BY <2>1, ST!EmptySeq, Zenon DEF usedw, laserw
    <2>3. Shape
      <3>1. cycle \in BOOLEAN /\ update_enable \in BOOLEAN /\ enable_flag \in BOOLEAN
        BY <1>1, Zenon DEF Init
      <3>2. idx \in 0..N /\ rev \in Revs /\ quiet \in Nat /\ stalls \in Nat
        BY <1>1 DEF Init, Revs
      <3>3. /\ cs \in {"IDLE", "HEAD", "DATA_LEN", "DATA", "DLY", "CHECKSUM", "OVER"}
            /\ tx_command \in Commands /\ tx_data_len \in Nat /\ tx_data_cnt \in Nat
            /\ timer_cnt \in Nat
        BY <1>1 DEF Init, Commands
      <3>4. QED
        BY <2>2, <3>1, <3>2, <3>3, Zenon DEF Shape
    <2>4. Room
      BY <1>1, <2>2 DEF Init, Room
    <2>5. cs = "IDLE" /\ tx_command = "none" /\ ~InFrame /\ ~Distance
      BY <1>1 DEF Init, InFrame, Distance
    <2>6. FrameInv
      BY <2>5 DEF FrameInv
    <2>7. InTime
      BY <1>1, <2>2, <2>5 DEF Init, InTime
    <2>8. Rest = 0
      BY <2>5 DEF Rest
    <2>9. ScanDue \in {0, N + 3} /\ StatusDue \in {0, StatusLen + 3}
      BY Zenon DEF ScanDue, StatusDue
    <2>10. PICK s, t : s = ScanDue /\ t = StatusDue
      BY Zenon
    <2>11. s \in {0, N + 3} /\ t \in {0, StatusLen + 3}
      BY <2>9, <2>10, Zenon
    <2>12. 0 + 0 + s + t <= LaserDepth
      BY <2>11
    <2>13. Budget
      BY <2>2, <2>8, <2>10, <2>12, Zenon DEF Budget
    <2>14. QED
      BY <2>3, <2>4, <2>6, <2>7, <2>13, Zenon DEF UploadInv, Steady
  <1>2. QED
    BY <1>1

LEMMA UploadStep == UploadInv /\ [Next]_vars => UploadInv'
  <1>1. ASSUME UploadInv, [Next]_vars
        PROVE  UploadInv'
    <2>1. Shape /\ Room /\ (stalls = 0 => Steady)
      BY <1>1, Zenon DEF UploadInv
    <2>2. Shape' /\ Room'
      BY <1>1, <2>1, ShapeStep, RoomStep, Zenon
    <2>3. ASSUME stalls' = 0
          PROVE  Steady'
      <3>1. stalls = 0
        BY <1>1, <2>1, <2>3, StallsStay, Zenon DEF Stalled
      <3>2. Shape /\ Room /\ Steady
        BY <2>1, <3>1, Zenon
      <3>3. CASE CycleRise
        BY <2>3, <3>2, <3>3, RiseSteady, Zenon
      <3>4. CASE NewPoint
        BY <3>2, <3>4, PointSteady, Zenon
      <3>5. CASE CycleFall
        BY <3>2, <3>5, FallSteady, Zenon
      <3>6. CASE SetUploadEn
        BY <3>2, <3>6, EnableSteady, Zenon
      <3>7. CASE ClearFifo
        BY <3>2, <3>7, ClearSteady, Zenon
      <3>8. CASE TxClock
        <4>1. cs \in {"IDLE", "HEAD", "DATA_LEN", "DATA", "DLY", "CHECKSUM"}
          BY <3>2 DEF Shape, Steady, FrameInv
        <4>2. CASE cs = "IDLE"
          BY <3>1, <3>2, <3>8, <4>2, IdleSteady, Zenon
        <4>3. CASE cs \in {"HEAD", "DATA_LEN"}
          BY <3>2, <3>8, <4>3, HeadSteady, Zenon
        <4>4. CASE cs = "DATA"
          BY <3>2, <3>8, <4>4, PointSentSteady, StatusSentSteady, Zenon
        <4>5. CASE cs \in {"DLY", "CHECKSUM"}
          BY <3>2, <3>8, <4>5, TailSteady, Zenon
        <4>6. QED
          BY <4>1, <4>2, <4>3, <4>4, <4>5, Zenon
      <3>9. CASE ReadWord
        BY <3>2, <3>9, ReadSteady, Zenon
      <3>10. CASE UNCHANGED vars
        <4>1. /\ UNCHANGED <<cs, tx_command, tx_data_len, tx_data_cnt, timer_cnt>>
              /\ UNCHANGED <<cycle, idx, enable_flag, quiet>>
              /\ usedw' = usedw /\ laserw' = laserw
          BY <3>10, Zenon DEF vars, scanSide, tx, usedw, laserw
        <4>2. /\ (FrameInv => FrameInv') /\ (InFrame' <=> InFrame) /\ (Distance' <=> Distance)
              /\ (timer_flag' <=> timer_flag) /\ Rest' = Rest /\ StatusDue' = StatusDue
          BY <4>1, TxUnchanged, Zenon
        <4>3. InTime => InTime'
          BY <4>1, <4>2, Zenon DEF InTime
        <4>4. Budget => Budget'
          BY <4>1, <4>2, Zenon DEF Budget, ScanDue, Pending
        <4>5. QED
          BY <3>2, <4>2, <4>3, <4>4, Zenon DEF Steady
      <3>11. QED
        BY <1>1, <3>3, <3>4, <3>5, <3>6, <3>7, <3>8, <3>9, <3>10, Zenon DEF Next
    <2>4. QED
      BY <2>2, <2>3, Zenon DEF UploadInv
  <1>2. QED
    BY <1>1

(* For any number of points, any depth of the laser FIFO that takes a scan  *)
(* and a status frame, and any number of status frames, switches of         *)
(* UPLOAD_EN and stalls: pos_buffer.v never puts more than two revolutions  *)
(* into the position FIFO, whatever an interrupted frame has left there;    *)
(* and as long as the firmware keeps up, update2nios.v finds in it every    *)
(* point that a distance frame still has to send.                           *)
THEOREM FifosInBounds == Spec => []FifoBounds
  <1>1. ASSUME UploadInv
        PROVE  FifoBounds
    <2>1. Shape /\ Room /\ (stalls = 0 => Steady)
      BY <1>1, Zenon DEF UploadInv
    <2>2. usedw <= 2 * N
      BY <2>1, Zenon DEF Room
    <2>3. ASSUME stalls = 0, Reading
          PROVE  pfifo # <<>> /\ usedw >= tx_data_len - tx_data_cnt
      <3>1. Shape /\ Steady
        BY <2>1, <2>3, Zenon
      <3>2. cs = "DATA" /\ tx_command = "DISTANCE"
        BY <2>3, Zenon DEF Reading
      <3>3. Distance
        BY <3>2 DEF Distance, InFrame
      <3>4. tx_data_len = N /\ tx_data_cnt < N /\ usedw >= N - tx_data_cnt /\ tx_data_cnt \in Nat
        BY <3>1, <3>2, <3>3 DEF Steady, FrameInv, InTime, Shape
      <3>5. usedw # 0
        BY <3>4, Sizes
      <3>6. QED
        BY <3>1, <3>4, <3>5, Levels, Zenon
    <2>4. QED
      BY <2>2, <2>3, Zenon DEF FifoBounds
  <1>2. UploadInv => FifoBounds
    BY <1>1
  <1>3. QED
    BY <1>2, UploadStart, UploadStep, PTL DEF Spec

(* update2nios.v drives laser_fifo_in_valid without a look at               *)
(* laser_fifo_in_ready, so a word the FIFO does not take is lost.  As long  *)
(* as the firmware reads a frame within a revolution this never happens.    *)
NoneRefused == stalls = 0 /\ Valid => ready

(* No word of update2nios.v is lost at the laser FIFO as long as the        *)
(* firmware keeps up, for any number of points and any laser FIFO that      *)
(* takes a scan and a status frame.                                         *)
THEOREM NoWordRefused == Spec => []NoneRefused
  <1>1. ASSUME UploadInv, stalls = 0, Valid
        PROVE  ready
    <2>1. Shape /\ Steady
      BY <1>1, Zenon DEF UploadInv
    <2>2. cs # "IDLE"
      BY <1>1 DEF Valid
    <2>3. QED
      BY <2>1, <2>2, CanSend, Zenon
  <1>2. UploadInv => NoneRefused
    BY <1>1, Zenon DEF NoneRefused
  <1>3. QED
    BY <1>2, UploadStart, UploadStep, PTL DEF Spec

-----------------------------------------------------------------------------
(* What the words say *)

(* The words under way: those in the queue, then those in the laser FIFO. *)
Stream == [p \in 0..(rear + laserw - 1) |-> IF p < rear THEN data[p] ELSE lfifo[p - rear + 1]]
streamw == rear + laserw

StatusTail == Word("tail", "STATUS", 1)
DistanceHead(w) == w.k = "head" /\ w.a = "DISTANCE"
NoEnd(S, i, j) == \A k \in i..j : ~EndsFrame(S[k])
WholeFrame(S, p) == \A i \in 0..(N - 1) : S[p + 2 + i] = Point(S[p + 2].a, i)

(* What holds of any part of the words: a head comes after a tail and       *)
(* before a length, and the first word after the head of a distance frame   *)
(* that ends a frame is its tail, with a whole revolution before it, unless *)
(* it is the tail of a status frame.                                        *)
HeadsFollowed(S, L) ==
    \A p \in 0..(L - 2) : S[p].k = "head" => S[p + 1].k = "len" /\ (S[p].a = "DISTANCE" => S[p + 1].a = N)
HeadsAfterTails(S, L) == \A p \in 0..(L - 2) : S[p + 1].k = "head" => S[p].k = "tail"
FramesWhole(S, L) ==
    \A q \in 0..(L - 1), p \in 0..(L - 1) :
        p < q /\ DistanceHead(S[p]) /\ NoEnd(S, p + 1, q - 1) /\ EndsFrame(S[q]) =>
            S[q] = StatusTail \/ (S[q].k = "tail" /\ q = p + N + 2 /\ WholeFrame(S, p))
HeadsKnown(S, L) == \A p \in 0..(L - 1) : S[p].k = "head" => S[p].a \in {"DISTANCE", "STATUS"}
Framed(S, L) ==
    HeadsFollowed(S, L) /\ HeadsAfterTails(S, L) /\ FramesWhole(S, L) /\ HeadsKnown(S, L)

(* The distance frame under way begins at p. *)
OpenAt(S, L, p) == DistanceHead(S[p]) /\ NoEnd(S, p + 1, L - 1)

(* Its points so far and those in the position FIFO are the revolution, or  *)
(* it has changed to a status frame.                                        *)
Sent == IF cs = "DATA_LEN" THEN 1 ELSE 2 + tx_data_cnt
OneRevolution(S, p) ==
    /\ tx_command = "DISTANCE" /\ tx_data_cnt + usedw = N
    /\ cs = "DATA" \/ tx_data_cnt = N
    /\ \A i \in 0..(tx_data_cnt - 1) : S[p + 2 + i] = Point(rev, i)
    /\ \A k \in 1..usedw : pfifo[k] = Point(rev, tx_data_cnt + k - 1)
Changed == tx_command = "STATUS" /\ tx_data_cnt >= 1 /\ usedw < N
OpenFrames(S, L) ==
    \A p \in 0..(L - 1) :
        OpenAt(S, L, p) =>
            /\ cs \in {"DATA_LEN", "DATA", "DLY", "CHECKSUM"} /\ p + Sent = L
            /\ cs # "DATA_LEN" => idx = N /\ (OneRevolution(S, p) \/ Changed)
LastWord(S, L) ==
    L > 0 =>
       /\ cs \in {"IDLE", "HEAD"} => S[L - 1].k = "tail"
       /\ cs = "DATA_LEN" => S[L - 1].k = "head" /\ (S[L - 1].a = "DISTANCE" => tx_command = "DISTANCE")
       /\ cs \in {"DATA", "DLY", "CHECKSUM"} => S[L - 1].k # "head"

(* A revolution in the position FIFO that is complete, or can be. *)
Collected ==
    usedw = N \/ (cycle /\ enable_flag /\ usedw = idx) =>
        \A k \in 1..usedw : pfifo[k] = Point(rev, k - 1)

Contents ==
    /\ cs # "IDLE" => tx_command # "none"
    /\ Collected
    /\ Framed(Stream, streamw) /\ OpenFrames(Stream, streamw) /\ LastWord(Stream, streamw)

(* The queue holds no word that ends a frame. *)
QueueInv ==
    /\ rear \in 0..(QueueDepth - 1) /\ data \in [0..(QueueDepth - 1) -> Words]
    /\ NoEnd(data, 0, rear - 1)

WholeInv == UploadInv /\ QueueInv /\ (stalls = 0 => Contents /\ WholeRevolution)

-----------------------------------------------------------------------------
(* The parts of a word. *)
LEMMA WordFields == \A k, a, b : Word(k, a, b).k = k /\ Word(k, a, b).a = a /\ Word(k, a, b).b = b
  BY DEF Word

(* A word of the laser FIFO ends a frame if it is a tail or a status word   *)
(* that looks like one; a head never does.                                  *)
LEMMA Endings ==
    ASSUME NEW w \in Words
    PROVE  /\ w.k = "tail" => EndsFrame(w)
           /\ w.k \in {"head", "len", "point", "blank"} => ~EndsFrame(w)
           /\ w.k = "head" => w.a \in Commands
  <1>1. \/ w \in Points \/ w = Blank
        \/ \E c \in Commands : w = Word("head", c, 0) \/ w = Word("tail", c, 1)
        \/ \E n \in {N, StatusLen} : w = Word("len", n, 0)
        \/ \E low \in {0, 1} : w = Word("status", 0, low)
    BY Zenon DEF Words
  <1>2. CASE w \in Points
    BY <1>2, SMT DEF Points, Point, Word, EndsFrame
  <1>3. CASE w = Blank
    BY <1>3, SMT DEF Blank, Word, EndsFrame
  <1>4. CASE \E c \in Commands : w = Word("head", c, 0) \/ w = Word("tail", c, 1)
    BY <1>4, SMT DEF Word, EndsFrame
  <1>5. CASE \E n \in {N, StatusLen} : w = Word("len", n, 0)
    BY <1>5, SMT DEF Word, EndsFrame
  <1>6. CASE \E low \in {0, 1} : w = Word("status", 0, low)
    BY <1>6, SMT DEF Word, EndsFrame
  <1>7. QED
    BY <1>1, <1>2, <1>3, <1>4, <1>5, <1>6, Zenon

(* The words without the first d of them. *)
Suffix(S, L, S2, L2, d) ==
    /\ L \in Nat /\ L2 \in Nat /\ d \in Nat /\ L = L2 + d
    /\ \A p \in 0..(L2 - 1) : S2[p] = S[p + d]

LEMMA NoEndSuffix ==
    ASSUME NEW S, NEW L, NEW S2, NEW L2, NEW d, Suffix(S, L, S2, L2, d),
           NEW i \in 0..L2, NEW j \in 0..L2, j <= L2 - 1 \/ i > j
    PROVE  NoEnd(S2, i, j) <=> NoEnd(S, i + d, j + d)
  <1>1. L2 \in Nat /\ d \in Nat
    BY Zenon DEF Suffix
  <1>2. \A k \in i..j : S2[k] = S[k + d] /\ k + d \in (i + d)..(j + d)
    <2> TAKE k \in i..j
    <2>1. k \in 0..(L2 - 1) /\ k + d \in (i + d)..(j + d)
      BY <1>1
    <2>2. QED
      BY <2>1, Zenon DEF Suffix
  <1>3. \A k \in (i + d)..(j + d) : k - d \in i..j /\ (k - d) + d = k
    BY <1>1
  <1>4. ASSUME NoEnd(S, i + d, j + d) PROVE NoEnd(S2, i, j)
    BY <1>2, <1>4, Zenon DEF NoEnd
  <1>5. ASSUME NoEnd(S2, i, j), NEW k \in (i + d)..(j + d) PROVE ~EndsFrame(S[k])
    <2>1. k - d \in i..j /\ S2[k - d] = S[(k - d) + d] /\ (k - d) + d = k
      BY <1>2, <1>3, Zenon
    <2>2. S2[k - d] = S[k]
      BY <2>1, Zenon
    <2>3. QED
      BY <1>5, <2>1, <2>2, Zenon DEF NoEnd
  <1>6. QED
    BY <1>4, <1>5, Zenon DEF NoEnd

LEMMA FramedSuffix ==
    ASSUME NEW S, NEW L, NEW S2, NEW L2, NEW d, Suffix(S, L, S2, L2, d), Framed(S, L)
    PROVE  Framed(S2, L2)
  <1>1. L \in Nat /\ L2 \in Nat /\ d \in Nat /\ L = L2 + d
    BY Zenon DEF Suffix
  <1>2. \A p \in 0..(L2 - 1) : S2[p] = S[p + d] /\ p + d \in 0..(L - 1)
    <2> TAKE p \in 0..(L2 - 1)
    <2>1. p + d \in 0..(L - 1)
      BY <1>1
    <2>2. QED
      BY <2>1, Zenon DEF Suffix
  <1>3. \A p \in 0..(L2 - 2) : S2[p] = S[p + d] /\ S2[p + 1] = S[p + d + 1] /\ p + d \in 0..(L - 2)
    <2> TAKE p \in 0..(L2 - 2)
    <2>1. p \in 0..(L2 - 1) /\ p + 1 \in 0..(L2 - 1) /\ (p + 1) + d = p + d + 1 /\ p + d \in 0..(L - 2)
      BY <1>1
    <2>2. S2[p + 1] = S[(p + 1) + d]
      BY <1>2, <2>1, Zenon
    <2>3. QED
      BY <1>2, <2>1, <2>2, Zenon
  <1>4. HeadsFollowed(S2, L2)
    BY <1>3, Zenon DEF Framed, HeadsFollowed
  <1>5. HeadsAfterTails(S2, L2)
    BY <1>3, Zenon DEF Framed, HeadsAfterTails
  <1>6. HeadsKnown(S2, L2)
    BY <1>2, Zenon DEF Framed, HeadsKnown
  <1>7. FramesWhole(S2, L2)
    <2> SUFFICES ASSUME NEW q \in 0..(L2 - 1), NEW p \in 0..(L2 - 1), p < q, DistanceHead(S2[p]),
                        NoEnd(S2, p + 1, q - 1), EndsFrame(S2[q])
                 PROVE  S2[q] = StatusTail \/ (S2[q].k = "tail" /\ q = p + N + 2 /\ WholeFrame(S2, p))
      BY Zenon DEF FramesWhole
    <2>1. p \in Nat /\ q \in Nat /\ q <= L2 - 1 /\ p + 1 \in 0..L2 /\ q - 1 \in 0..L2 /\ q - 1 <= L2 - 1
      BY <1>1
    <2>2. NoEnd(S, (p + 1) + d, (q - 1) + d)
      BY <2>1, NoEndSuffix, Zenon
    <2>3. (p + 1) + d = (p + d) + 1 /\ (q - 1) + d = (q + d) - 1 /\ p + d < q + d
      BY <1>1, <2>1
    <2>4. NoEnd(S, (p + d) + 1, (q + d) - 1)
      BY <2>2, <2>3, Zenon
    <2>5. DistanceHead(S[p + d]) /\ EndsFrame(S[q + d])
      BY <1>2, Zenon
    <2>6. \/ S[q + d] = StatusTail
          \/ S[q + d].k = "tail" /\ q + d = (p + d) + N + 2 /\ WholeFrame(S, p + d)
      <3>1. p + d \in 0..(L - 1) /\ q + d \in 0..(L - 1)
        BY <1>2, Zenon
      <3>2. QED
        BY <2>3, <2>4, <2>5, <3>1, Zenon DEF Framed, FramesWhole
    <2>7. ASSUME q + d = (p + d) + N + 2, WholeFrame(S, p + d)
          PROVE  q = p + N + 2 /\ WholeFrame(S2, p)
      <3>1. q = p + N + 2
        BY <1>1, <2>1, <2>7, Sizes
      <3>2. ASSUME NEW i \in 0..(N - 1) PROVE S2[p + 2 + i] = S[(p + d) + 2 + i]
        <4>1. p + 2 + i \in 0..(L2 - 1) /\ (p + 2 + i) + d = (p + d) + 2 + i
          BY <1>1, <2>1, <3>1, Sizes
        <4>2. S2[p + 2 + i] = S[(p + 2 + i) + d]
          BY <1>2, <4>1, Zenon
        <4>3. QED
          BY <4>1, <4>2, Zenon
      <3>3. S2[p + 2] = S[(p + d) + 2]
        <4>1. p + 2 \in 0..(L2 - 1) /\ (p + 2) + d = (p + d) + 2
          BY <1>1, <2>1, <3>1, Sizes
        <4>2. S2[p + 2] = S[(p + 2) + d]
          BY <1>2, <4>1, Zenon
        <4>3. QED
          BY <4>1, <4>2, Zenon
      <3>4. QED
        BY <2>7, <3>1, <3>2, <3>3, Zenon DEF WholeFrame
    <2>8. QED
      BY <1>2, <2>6, <2>7, Zenon
  <1>8. QED
    BY <1>4, <1>5, <1>6, <1>7, Zenon DEF Framed

(* One word more. *)
Longer(S, L, S2, M) == L \in Nat /\ M = L + 1 /\ \A p \in 0..(L - 1) : S2[p] = S[p]

LEMMA NoEndLonger ==
    ASSUME NEW S, NEW L, NEW S2, NEW M, Longer(S, L, S2, M), NEW i \in Nat, NEW j, j \in Int, j <= L - 1
    PROVE  NoEnd(S2, i, j) <=> NoEnd(S, i, j)
  <1>1. L \in Nat
    BY Zenon DEF Longer
  <1>2. \A k \in i..j : k \in 0..(L - 1)
    BY <1>1
  <1>3. \A k \in i..j : S2[k] = S[k]
    BY <1>2, Zenon DEF Longer
  <1>4. QED
    BY <1>3, Zenon DEF NoEnd

LEMMA FramedLonger ==
    ASSUME NEW S, NEW L, NEW S2, NEW M, Longer(S, L, S2, M), Framed(S, L),
           S2[L].k = "head" => S2[L].a \in {"DISTANCE", "STATUS"} /\ (L > 0 => S[L - 1].k = "tail"),
           L > 0 /\ S[L - 1].k = "head" => S2[L].k = "len" /\ (S[L - 1].a = "DISTANCE" => S2[L].a = N),
           \A p \in 0..(L - 1) : OpenAt(S, L, p) /\ EndsFrame(S2[L]) =>
               S2[L] = StatusTail \/ (S2[L].k = "tail" /\ L = p + N + 2 /\ WholeFrame(S2, p))
    PROVE  Framed(S2, M)
  <1>1. L \in Nat /\ M = L + 1 /\ \A p \in 0..(L - 1) : S2[p] = S[p]
    BY Zenon DEF Longer
  <1>2. ASSUME NEW p \in 0..(M - 2)
        PROVE  /\ S2[p] = S[p]
               /\ \/ p \in 0..(L - 2) /\ S2[p + 1] = S[p + 1]
                  \/ p = L - 1 /\ p + 1 = L /\ L > 0
    <2>0. L \in Nat /\ M = L + 1
      BY <1>1, Zenon
    <2>1. /\ p \in 0..(L - 1)
          /\ (p \in 0..(L - 2) /\ p + 1 \in 0..(L - 1)) \/ (p = L - 1 /\ p + 1 = L /\ L > 0)
      BY <2>0
    <2>2. QED
      BY <1>1, <2>1, Zenon
  <1>3. HeadsFollowed(S2, M)
    BY <1>2, Zenon DEF Framed, HeadsFollowed
  <1>4. HeadsAfterTails(S2, M)
    BY <1>2, Zenon DEF Framed, HeadsAfterTails
  <1>5. \A p \in 0..(M - 1) : p \in 0..(L - 1) \/ p = L
    BY <1>1
  <1>6. HeadsKnown(S2, M)
    BY <1>1, <1>5, Zenon DEF Framed, HeadsKnown
  <1>7. FramesWhole(S2, M)
    <2> SUFFICES ASSUME NEW q \in 0..(M - 1), NEW p \in 0..(M - 1), p < q, DistanceHead(S2[p]),
                        NoEnd(S2, p + 1, q - 1), EndsFrame(S2[q])
                 PROVE  S2[q] = StatusTail \/ (S2[q].k = "tail" /\ q = p + N + 2 /\ WholeFrame(S2, p))
      BY Zenon DEF FramesWhole
    <2>1. p \in 0..(L - 1) /\ p + 1 \in Nat /\ q - 1 \in Int /\ q - 1 <= L - 1
      BY <1>1
    <2>2. NoEnd(S, p + 1, q - 1) /\ DistanceHead(S[p])
      BY <1>1, <2>1, NoEndLonger, Zenon
    <2>3. CASE q = L
      <3>1. OpenAt(S, L, p)
        BY <2>2, <2>3, Zenon DEF OpenAt
      <3>2. QED
        BY <2>1, <2>3, <3>1, Zenon
    <2>4. CASE q \in 0..(L - 1)
      <3>1. S2[q] = S[q]
        BY <1>1, <2>4, Zenon
      <3>2. S[q] = StatusTail \/ (S[q].k = "tail" /\ q = p + N + 2 /\ WholeFrame(S, p))
        BY <2>1, <2>2, <2>4, <3>1, Zenon DEF Framed, FramesWhole
      <3>3. ASSUME q = p + N + 2, WholeFrame(S, p) PROVE WholeFrame(S2, p)
        <4>1. \A i \in 0..(N - 1) : p + 2 + i \in 0..(L - 1)
          BY <1>1, <2>1, <2>4, <3>3, Sizes
        <4>2. p + 2 \in 0..(L - 1)
          BY <1>1, <2>1, <2>4, <3>3, Sizes
        <4>3. QED
          BY <1>1, <3>3, <4>1, <4>2, Zenon DEF WholeFrame
      <3>4. QED
        BY <3>1, <3>2, <3>3, Zenon
    <2>5. QED
      BY <1>5, <2>3, <2>4, Zenon
  <1>8. QED
    BY <1>3, <1>4, <1>6, <1>7, Zenon DEF Framed

(* Fewer words. *)
LEMMA FramedPrefix ==
    ASSUME NEW S, NEW L \in Nat, NEW M \in Nat, M <= L, Framed(S, L)
    PROVE  Framed(S, M)
  <1>1. /\ \A p \in 0..(M - 2) : p \in 0..(L - 2)
        /\ \A p \in 0..(M - 1) : p \in 0..(L - 1)
    OBVIOUS
  <1>2. HeadsFollowed(S, M)
    BY <1>1, Zenon DEF Framed, HeadsFollowed
  <1>3. HeadsAfterTails(S, M)
    BY <1>1, Zenon DEF Framed, HeadsAfterTails
  <1>4. HeadsKnown(S, M)
    BY <1>1, Zenon DEF Framed, HeadsKnown
  <1>5. FramesWhole(S, M)
    BY <1>1, Zenon DEF Framed, FramesWhole
  <1>6. QED
    BY <1>2, <1>3, <1>4, <1>5, Zenon DEF Framed

(* What fpga2nios_parse makes of a queue with these words. *)
LEMMA ParsedWhole ==
    ASSUME NEW D, NEW r \in 1..QueueDepth, Framed(D, r), \A i \in 0..(r - 1) : D[i] \in Words,
           NoEnd(D, 0, r - 2), EndsFrame(D[r - 1])
    PROVE  Parse(D, r) \notin {"mixed", "wild"}
  <1> DEFINE heads == {i \in 0..(r - 1) : D[i].k = "head"}
             h == CHOOSE i \in heads : \A j \in heads : i <= j
             At(i) == queue_pop(D, h + i)
             n == At(1).a
             parsed ==
                IF heads = {} THEN "dropped"
                ELSE IF At(1).k # "len" THEN "wild"
                ELSE IF At(0).a = "STATUS"
                THEN IF \A i \in 1..StatusLen : At(1 + i).k = "status" THEN "status" ELSE "odd"
                ELSE IF At(2 + n).k # "tail" THEN "dropped"
                ELSE IF \A i \in 1..n : At(1 + i) = Point(At(2).a, i - 1) THEN "whole"
                ELSE IF D[r - 1] = Word("tail", "STATUS", 1) THEN "switched"
                ELSE "mixed"
  <1>1. Parse(D, r) = parsed
    BY Zenon DEF Parse
  <1>2. QueueDepth \in Nat /\ N + 3 < QueueDepth /\ r \in Nat /\ r >= 1
    BY UploadAssumption
  <1>3. ASSUME NEW i \in heads PROVE i = 0
    <2>1. i \in 0..(r - 1) /\ D[i].k = "head"
      BY Zenon
    <2>2. CASE i # 0
      <3>1. i - 1 \in 0..(r - 2) /\ (i - 1) + 1 = i
        BY <1>2, <2>1, <2>2
      <3>2. D[i - 1].k = "tail"
        BY <2>1, <3>1, Zenon DEF Framed, HeadsAfterTails
      <3>3. i - 1 \in 0..(r - 1)
        BY <1>2, <3>1
      <3>4. EndsFrame(D[i - 1])
        BY <3>2, <3>3, Endings, Zenon
      <3>5. QED
        BY <3>1, <3>4, Zenon DEF NoEnd
    <2>3. QED
      BY <2>2, Zenon
  <1>4. CASE heads = {}
    BY <1>1, <1>4, Zenon
  <1>5. CASE heads # {}
    <2>1. heads = {0}
      BY <1>3, <1>5, Zenon
    <2>2. h = 0
      <3>1. 0 <= 0
        OBVIOUS
      <3>2. 0 \in heads /\ \A j \in heads : 0 <= j
        BY <2>1, <3>1, Zenon
      <3>3. h \in heads
        BY <3>2, Zenon
      <3>4. QED
        BY <1>3, <3>3, Zenon
    <2>3. D[0].k = "head" /\ 0 \in 0..(r - 1)
      BY <2>1, Zenon
    <2>4. r >= 2
      <3>1. CASE r = 1
        <4>1. r - 1 = 0
          BY <3>1
        <4>2. D[0] \in Words
          BY <2>3, Zenon
        <4>3. ~EndsFrame(D[0])
          BY <2>3, <4>2, Endings, Zenon
        <4>4. QED
          BY <4>1, <4>3, Zenon
      <3>2. QED
        BY <1>2, <3>1
    <2>5. \A i \in 0..(N + 2) : At(i) = D[i]
      <3>1. \A i \in 0..(N + 2) : (0 + i) % QueueDepth = i
        BY <1>2, Sizes
      <3>2. QED
        BY <2>2, <3>1, Zenon DEF queue_pop
    <2>6. At(0) = D[0] /\ At(1) = D[1] /\ At(2) = D[2] /\ At(2 + N) = D[2 + N]
      <3>1. 0 \in 0..(N + 2) /\ 1 \in 0..(N + 2) /\ 2 \in 0..(N + 2) /\ 2 + N \in 0..(N + 2)
        BY Sizes
      <3>2. QED
        BY <2>5, <3>1, Zenon
    <2>7. D[1].k = "len" /\ (D[0].a = "DISTANCE" => D[1].a = N)
      <3>1. 0 \in 0..(r - 2) /\ 0 + 1 = 1
        BY <1>2, <2>4
      <3>2. QED
        BY <2>3, <3>1, Zenon DEF Framed, HeadsFollowed
    <2>8. D[0].a \in {"DISTANCE", "STATUS"}
      BY <2>3, Zenon DEF Framed, HeadsKnown
    <2>9. CASE D[0].a = "STATUS"
      BY <1>1, <1>5, <2>6, <2>7, <2>9, Zenon
    <2>10. CASE D[0].a = "DISTANCE"
      <3>1. n = N
        BY <2>6, <2>7, <2>10, Zenon
      <3>2. D[r - 1] = StatusTail \/ (r - 1 = 0 + N + 2 /\ WholeFrame(D, 0))
        <4>1. r - 1 \in 0..(r - 1) /\ 0 < r - 1 /\ (r - 1) - 1 = r - 2
          BY <1>2, <2>4
        <4>2. DistanceHead(D[0])
          BY <2>3, <2>10, Zenon DEF DistanceHead
        <4>3. NoEnd(D, 0 + 1, (r - 1) - 1)
          <5>1. \A k \in (0 + 1)..((r - 1) - 1) : k \in 0..(r - 2)
            BY <1>2
          <5>2. QED
            BY <5>1, Zenon DEF NoEnd
        <4>4. QED
          BY <2>3, <4>1, <4>2, <4>3, Zenon DEF Framed, FramesWhole
      <3>3. CASE D[r - 1] = StatusTail
        BY <1>1, <1>5, <2>6, <2>7, <2>10, <3>3, Zenon DEF StatusTail
      <3>4. CASE WholeFrame(D, 0)
        <4>1. ASSUME NEW i \in 1..N PROVE At(1 + i) = Point(At(2).a, i - 1)
          <5>1. 1 + i \in 0..(N + 2) /\ i - 1 \in 0..(N - 1) /\ 0 + 2 + (i - 1) = 1 + i /\ 0 + 2 = 2
            BY Sizes
          <5>2. D[1 + i] = Point(D[2].a, i - 1)
            BY <3>4, <5>1, Zenon DEF WholeFrame
          <5>3. QED
            BY <2>5, <2>6, <5>1, <5>2, Zenon
        <4>2. \A i \in 1..n : At(1 + i) = Point(At(2).a, i - 1)
          BY <3>1, <4>1, Zenon
        <4>3. QED
          BY <1>1, <1>5, <2>6, <2>7, <2>10, <4>2, Zenon
      <3>5. QED
        BY <3>2, <3>3, <3>4, Zenon
    <2>11. QED
      BY <2>8, <2>9, <2>10, Zenon
  <1>6. QED
    BY <1>4, <1>5, Zenon

(* The words under way, one by one. *)
StreamFacts ==
    /\ rear \in Nat /\ rear < QueueDepth /\ streamw = rear + laserw /\ streamw \in Nat
    /\ \A p \in 0..(rear - 1) : Stream[p] = data[p] /\ data[p] \in Words
    /\ \A p \in rear..(streamw - 1) : Stream[p] = lfifo[p - rear + 1] /\ Stream[p] \in Words
    /\ \A p \in 0..(streamw - 1) : Stream[p] \in Words

LEMMA StreamOf ==
    ASSUME Shape, QueueInv
    PROVE  StreamFacts
  <1>1. rear \in Nat /\ rear <= QueueDepth - 1 /\ QueueDepth \in Nat
    BY UploadAssumption DEF QueueInv
  <1>2. laserw \in Nat /\ lfifo \in Seq(Words)
    BY Levels, Zenon DEF Shape
  <1>3. streamw = rear + laserw /\ streamw \in Nat
    BY <1>1, <1>2 DEF streamw
  <1>4. ASSUME NEW p \in 0..(rear - 1) PROVE Stream[p] = data[p] /\ data[p] \in Words
    <2>1. p \in 0..(rear + laserw - 1) /\ p < rear /\ p \in 0..(QueueDepth - 1)
      BY <1>1, <1>2
    <2>2. QED
      BY <2>1, Zenon DEF Stream, QueueInv
  <1>5. ASSUME NEW p \in rear..(streamw - 1) PROVE Stream[p] = lfifo[p - rear + 1] /\ Stream[p] \in Words
    <2>1. p \in 0..(rear + laserw - 1) /\ ~(p < rear) /\ p - rear + 1 \in 1..laserw
      BY <1>1, <1>2, <1>3
    <2>2. Stream[p] = lfifo[p - rear + 1]
      BY <2>1, Zenon DEF Stream
    <2>3. lfifo[p - rear + 1] \in Words
      BY <1>2, <2>1, ST!ElementOfSeq, Zenon DEF laserw
    <2>4. QED
      BY <2>2, <2>3, Zenon
  <1>6. ASSUME NEW p \in 0..(streamw - 1) PROVE Stream[p] \in Words
    <2>1. p \in 0..(rear - 1) \/ p \in rear..(streamw - 1)
      BY <1>1, <1>3
    <2>2. QED
      BY <1>4, <1>5, <2>1, Zenon
  <1>7. rear < QueueDepth
    BY <1>1
  <1>8. QED
    BY <1>1, <1>3, <1>4, <1>5, <1>6, <1>7, Zenon DEF StreamFacts

LEMMA StreamIs ==
    /\ Shape /\ QueueInv => StreamFacts
    /\ Shape' /\ QueueInv' => StreamFacts'
  <1>1. Shape /\ QueueInv => StreamFacts
    BY StreamOf
  <1>2. QED
    BY <1>1, PTL

(* The firmware reads a word: what it has not read yet, or has kept, stays  *)
(* as it is, and what it parses is a part of it.                            *)
LEMMA ReadStream ==
    ASSUME Shape, QueueInv, ReadWord
    PROVE  /\ QueueInv'
           /\ \E d : Suffix(Stream, streamw, Stream', streamw', d)
           /\ Framed(Stream, streamw) => scan' \notin {"mixed", "wild"}
  <1> PICK w, at, d :
         /\ w = Head(lfifo)
         /\ at = IF queue_is_full THEN 0 ELSE rear
         /\ d = IF queue_is_full THEN rear ELSE 0
    BY Zenon
  <1>1. /\ data' = [data EXCEPT ![at] = w]
        /\ rear' = IF EndsFrame(w) THEN 0 ELSE at + 1
        /\ scan' = IF EndsFrame(w) THEN Parse(data', at + 1) ELSE "none"
        /\ lfifo' = Tail(lfifo) /\ lfifo # <<>>
    BY Zenon DEF ReadWord, read_fpga_data, queue_clear, queue_push, altera_avalon_fifo_read_fifo, fpga_is_has_data
  <1>2. QueueDepth \in Nat /\ N + 3 < QueueDepth /\ rear \in Nat /\ rear <= QueueDepth - 1
    BY UploadAssumption DEF QueueInv
  <1>3. lfifo \in Seq(Words) /\ laserw \in Nat /\ laserw # 0
    BY <1>1, Levels, Zenon DEF Shape
  <1>4. /\ w \in Words /\ w = lfifo[1] /\ laserw' = laserw - 1
        /\ \A k \in 1..(laserw - 1) : lfifo'[k] = lfifo[k + 1]
    <2>1. /\ Head(lfifo) \in Words /\ Head(lfifo) = lfifo[1] /\ Len(Tail(lfifo)) = Len(lfifo) - 1
          /\ \A k \in 1..Len(Tail(lfifo)) : Tail(lfifo)[k] = lfifo[k + 1]
      BY <1>1, <1>3, ST!HeadTailProperties, SMT
    <2>2. QED
      BY <1>1, <2>1, Zenon DEF laserw
  <1>5. at \in Nat /\ at <= QueueDepth - 1 /\ d \in Nat /\ at + d = rear
        /\ (queue_is_full \/ rear + 1 <= QueueDepth - 1) /\ (queue_is_full => at = 0) /\ (~queue_is_full => d = 0)
    BY <1>2 DEF queue_is_full
  <1>6. /\ \A p \in 0..(at - 1) : data'[p] = Stream[p + d] /\ ~EndsFrame(data'[p])
        /\ data'[at] = w /\ Stream[rear] = w
        /\ data' \in [0..(QueueDepth - 1) -> Words]
    <2>1. data \in [0..(QueueDepth - 1) -> Words] /\ at \in 0..(QueueDepth - 1)
      BY <1>5 DEF QueueInv
    <2>2. data' \in [0..(QueueDepth - 1) -> Words] /\ data'[at] = w
      BY <1>1, <1>4, <2>1, Zenon
    <2>3. ASSUME NEW p \in 0..(at - 1) PROVE data'[p] = Stream[p + d] /\ ~EndsFrame(data'[p])
      <3>1. d = 0 /\ p + d = p /\ p \in 0..(rear - 1) /\ p # at /\ p \in 0..(QueueDepth - 1)
        BY <1>2, <1>5
      <3>2. data'[p] = data[p]
        BY <1>1, <2>1, <3>1, Zenon
      <3>3. QED
        BY <3>1, <3>2, StreamIs, Zenon DEF StreamFacts, QueueInv, NoEnd
    <2>4. Stream[rear] = w
      <3>1. rear \in rear..(streamw - 1) /\ rear - rear + 1 = 1
        BY <1>2, <1>3, StreamIs DEF StreamFacts
      <3>2. QED
        BY <1>4, <3>1, StreamIs, Zenon DEF StreamFacts
    <2>5. QED
      BY <2>2, <2>3, <2>4, Zenon
  <1>7. QueueInv'
    <2>1. CASE EndsFrame(w)
      <3>1. rear' = 0 /\ \A k \in 0..(rear' - 1) : FALSE
        BY <1>1, <2>1
      <3>2. 0 \in 0..(QueueDepth - 1)
        BY <1>2
      <3>3. QED
        BY <1>6, <3>1, <3>2, Zenon DEF QueueInv, NoEnd
    <2>2. CASE ~EndsFrame(w)
      <3>1. rear' = at + 1 /\ at + 1 \in 0..(QueueDepth - 1)
        BY <1>1, <1>2, <1>5, <2>2, Sizes
      <3>2. \A k \in 0..(rear' - 1) : k \in 0..(at - 1) \/ k = at
        BY <1>5, <3>1
      <3>3. NoEnd(data', 0, rear' - 1)
        BY <1>6, <2>2, <3>2, Zenon DEF NoEnd
      <3>4. QED
        BY <1>6, <3>1, <3>3, Zenon DEF QueueInv
    <2>3. QED
      BY <2>1, <2>2, Zenon
  <1>8. Shape'
    <2>1. [Next]_vars
      BY Zenon DEF Next
    <2>2. QED
      BY <2>1, ShapeStep, Zenon
  <1>9. \E e : Suffix(Stream, streamw, Stream', streamw', e)
    <2>1. /\ streamw' = rear' + laserw' /\ streamw' \in Nat
          /\ \A p \in 0..(rear' - 1) : Stream'[p] = data'[p]
          /\ \A p \in rear'..(streamw' - 1) : Stream'[p] = lfifo'[p - rear' + 1]
      BY <1>7, <1>8, StreamIs, Zenon DEF StreamFacts
    <2>2. streamw = rear + laserw /\ streamw \in Nat
      BY StreamIs, Zenon DEF StreamFacts
    <2>3. CASE EndsFrame(w)
      <3>0. rear' = 0 /\ laserw' = laserw - 1
        BY <1>1, <1>4, <2>3, Zenon
      <3>1. rear' = 0 /\ streamw = streamw' + (rear + 1) /\ rear + 1 \in Nat
        BY <1>2, <1>3, <2>1, <2>2, <3>0
      <3>2. ASSUME NEW p \in 0..(streamw' - 1) PROVE Stream'[p] = Stream[p + (rear + 1)]
        <4>1. /\ p \in rear'..(streamw' - 1) /\ p - rear' + 1 \in 1..(laserw - 1) /\ p + (rear + 1) \in rear..(streamw - 1)
              /\ (p - rear' + 1) + 1 = (p + (rear + 1)) - rear + 1
          BY <1>2, <1>3, <1>4, <2>1, <2>2, <3>1
        <4>2. Stream'[p] = lfifo[(p - rear' + 1) + 1]
          BY <1>4, <2>1, <4>1, Zenon
        <4>3. Stream[p + (rear + 1)] = lfifo[(p + (rear + 1)) - rear + 1]
          BY <4>1, StreamIs, Zenon DEF StreamFacts
        <4>4. QED
          BY <4>1, <4>2, <4>3, Zenon
      <3>3. QED
        BY <2>1, <2>2, <3>1, <3>2, Zenon DEF Suffix
    <2>4. CASE ~EndsFrame(w)
      <3>1. rear' = at + 1 /\ streamw = streamw' + d
        BY <1>1, <1>2, <1>3, <1>4, <1>5, <2>1, <2>2, <2>4
      <3>2. ASSUME NEW p \in 0..(streamw' - 1) PROVE Stream'[p] = Stream[p + d]
        <4>1. CASE p \in 0..(at - 1)
          <5>1. p \in 0..(rear' - 1)
            BY <1>5, <3>1, <4>1
          <5>2. QED
            BY <1>6, <2>1, <4>1, <5>1, Zenon
        <4>2. CASE p = at
          <5>1. p \in 0..(rear' - 1) /\ p + d = rear
            BY <1>5, <3>1, <4>2
          <5>2. QED
            BY <1>6, <2>1, <4>2, <5>1, Zenon
        <4>3. CASE p > at
          <5>1. /\ p \in rear'..(streamw' - 1) /\ p - rear' + 1 \in 1..(laserw - 1) /\ p + d \in rear..(streamw - 1)
                /\ (p - rear' + 1) + 1 = (p + d) - rear + 1
            BY <1>2, <1>3, <1>4, <1>5, <2>1, <2>2, <3>1, <4>3
          <5>2. Stream'[p] = lfifo[(p - rear' + 1) + 1]
            BY <1>4, <2>1, <5>1, Zenon
          <5>3. Stream[p + d] = lfifo[(p + d) - rear + 1]
            BY <5>1, StreamIs, Zenon DEF StreamFacts
          <5>4. QED
            BY <5>1, <5>2, <5>3, Zenon
        <4>4. QED
          BY <1>5, <2>1, <4>1, <4>2, <4>3
      <3>3. QED
        BY <1>5, <2>1, <2>2, <3>1, <3>2, Zenon DEF Suffix
    <2>5. QED
      BY <2>3, <2>4, Zenon
  <1>10. ASSUME Framed(Stream, streamw), EndsFrame(w)
         PROVE  Parse(data', at + 1) \notin {"mixed", "wild"}
    <2>1. rear + 1 \in Nat /\ streamw \in Nat /\ rear + 1 <= streamw /\ at + 1 \in Nat
      BY <1>2, <1>3, <1>5, StreamIs DEF StreamFacts
    <2>2. Framed(Stream, rear + 1)
      BY <1>10, <2>1, FramedPrefix, Zenon
    <2>3. Suffix(Stream, rear + 1, data', at + 1, d)
      <3>1. rear + 1 = (at + 1) + d /\ at + 1 \in Nat
        BY <1>2, <1>5
      <3>2. ASSUME NEW p \in 0..((at + 1) - 1) PROVE data'[p] = Stream[p + d]
        <4>1. p \in 0..(at - 1) \/ (p = at /\ p + d = rear)
          BY <1>5
        <4>2. QED
          BY <1>6, <4>1, Zenon
      <3>3. QED
        BY <1>5, <2>1, <3>1, <3>2, Zenon DEF Suffix
    <2>4. Framed(data', at + 1)
      BY <2>2, <2>3, FramedSuffix, Zenon
    <2>5. /\ at + 1 \in 1..QueueDepth /\ (at + 1) - 1 = at
          /\ \A i \in 0..((at + 1) - 1) : i \in 0..(QueueDepth - 1)
          /\ \A k \in 0..((at + 1) - 2) : k \in 0..(at - 1)
      BY <1>2, <1>5
    <2>6. \A i \in 0..((at + 1) - 1) : data'[i] \in Words
      BY <1>6, <2>5, Zenon
    <2>7. NoEnd(data', 0, (at + 1) - 2)
      BY <1>6, <2>5, Zenon DEF NoEnd
    <2>8. EndsFrame(data'[(at + 1) - 1])
      BY <1>6, <1>10, <2>5, Zenon
    <2>9. QED
      BY <2>4, <2>5, <2>6, <2>7, <2>8, ParsedWhole, Zenon
  <1>11. Framed(Stream, streamw) => scan' \notin {"mixed", "wild"}
    BY <1>1, <1>10, Zenon
  <1>12. QED
    BY <1>7, <1>9, <1>11, Zenon

(* What the frame under way and its points depend on, besides the words. *)
Kept == UNCHANGED <<cs, tx_command, tx_data_cnt, pfifo, idx, rev>>

(* Words at the front may go. *)
LEMMA ShiftedFrames ==
    ASSUME Shape, NEW d, Suffix(Stream, streamw, Stream', streamw', d), Kept,
           Framed(Stream, streamw), OpenFrames(Stream, streamw), LastWord(Stream, streamw)
    PROVE  Framed(Stream, streamw)' /\ OpenFrames(Stream, streamw)' /\ LastWord(Stream, streamw)'
  <1> DEFINE S == Stream
             S2 == Stream'
  <1>1. PICK L, M : L = streamw /\ M = streamw'
    BY Zenon
  <1>2. L \in Nat /\ M \in Nat /\ d \in Nat /\ L = M + d
    BY <1>1, Zenon DEF Suffix
  <1>3. \A p \in 0..(M - 1) : S2[p] = S[p + d]
    BY <1>1, Zenon DEF Suffix
  <1>4. /\ cs' = cs /\ tx_command' = tx_command /\ tx_data_cnt' = tx_data_cnt /\ idx' = idx
        /\ rev' = rev /\ pfifo' = pfifo /\ usedw' = usedw /\ Sent' = Sent
    BY Zenon DEF Kept, usedw, Sent
  <1>5. tx_data_cnt \in Nat /\ Sent \in Nat /\ (cs # "DATA_LEN" => Sent = 2 + tx_data_cnt)
    BY DEF Shape, Sent
  <1>6. Framed(Stream, streamw)'
    <2>1. Framed(S2, M)
      BY <1>1, FramedSuffix, Zenon
    <2>2. QED
      BY <1>1, <2>1, Zenon
  <1>7. OpenFrames(Stream, streamw)'
    <2>1. SUFFICES ASSUME NEW p \in 0..(M - 1), OpenAt(S2, M, p)
                   PROVE  /\ cs \in {"DATA_LEN", "DATA", "DLY", "CHECKSUM"} /\ p + Sent = M
                          /\ cs # "DATA_LEN" => idx = N /\ (OneRevolution(Stream, p)' \/ Changed)
      BY <1>1, <1>4, Zenon DEF OpenFrames, Changed
    <2>2. p + d \in 0..(L - 1)
      BY <1>2
    <2>3. OpenAt(S, L, p + d)
      <3>1. p + 1 \in 0..M /\ M - 1 \in 0..M /\ M - 1 <= M - 1 /\ (p + 1) + d = (p + d) + 1 /\ (M - 1) + d = L - 1
        BY <1>2
      <3>2. NoEnd(S, (p + 1) + d, (M - 1) + d)
        BY <1>1, <2>1, <3>1, NoEndSuffix, Zenon DEF OpenAt
      <3>3. DistanceHead(S[p + d])
        BY <1>3, <2>1, Zenon DEF OpenAt
      <3>4. QED
        BY <3>1, <3>2, <3>3, Zenon DEF OpenAt
    <2>4. /\ cs \in {"DATA_LEN", "DATA", "DLY", "CHECKSUM"} /\ (p + d) + Sent = L
          /\ cs # "DATA_LEN" => idx = N /\ (OneRevolution(S, p + d) \/ Changed)
      BY <1>1, <2>2, <2>3, Zenon DEF OpenFrames
    <2>5. p + Sent = M
      BY <1>2, <1>5, <2>4
    <2>6. ASSUME cs # "DATA_LEN", OneRevolution(S, p + d)
          PROVE  OneRevolution(Stream, p)'
      <3>1. ASSUME NEW i \in 0..(tx_data_cnt - 1) PROVE S2[p + 2 + i] = Point(rev, i)
        <4>1. p + 2 + i \in 0..(M - 1) /\ (p + 2 + i) + d = (p + d) + 2 + i
          BY <1>2, <1>5, <2>5, <2>6
        <4>2. S[(p + d) + 2 + i] = Point(rev, i)
          BY <2>6, Zenon DEF OneRevolution
        <4>3. QED
          BY <1>3, <4>1, <4>2, Zenon
      <3>2. QED
        BY <1>4, <2>6, <3>1, Zenon DEF OneRevolution
    <2>7. QED
      BY <2>4, <2>5, <2>6, Zenon
  <1>8. LastWord(Stream, streamw)'
    <2>1. ASSUME M > 0 PROVE L > 0 /\ S2[M - 1] = S[L - 1]
      <3>1. M - 1 \in 0..(M - 1) /\ (M - 1) + d = L - 1 /\ L > 0
        BY <1>2, <2>1
      <3>2. QED
        BY <1>3, <3>1, Zenon
    <2>2. QED
      BY <1>1, <1>4, <2>1, Zenon DEF LastWord
  <1>9. QED
    BY <1>6, <1>7, <1>8, Zenon

(* The firmware reads a word. *)
LEMMA ReadContents ==
    ASSUME Shape, QueueInv, Contents, ReadWord
    PROVE  Contents' /\ WholeRevolution'
  <1>1. PICK d : Suffix(Stream, streamw, Stream', streamw', d)
    BY ReadStream, Zenon
  <1>2. Kept /\ cycle' = cycle /\ enable_flag' = enable_flag /\ usedw' = usedw
    BY Zenon DEF ReadWord, scanSide, tx, Kept, usedw
  <1>3. Framed(Stream, streamw)' /\ OpenFrames(Stream, streamw)' /\ LastWord(Stream, streamw)'
    BY <1>1, <1>2, ShiftedFrames, Zenon DEF Contents
  <1>4. Collected'
    BY <1>2, Zenon DEF Contents, Collected, Kept
  <1>5. cs' # "IDLE" => tx_command' # "none"
    BY <1>2, Zenon DEF Contents, Kept
  <1>6. scan' \notin {"mixed", "wild"}
    BY ReadStream, Zenon DEF Contents
  <1>7. QED
    BY <1>3, <1>4, <1>5, <1>6, Zenon DEF Contents, WholeRevolution

(* The words stay, and with them what they say as long as the frame under   *)
(* way does.                                                                *)
LEMMA SameStream ==
    ASSUME UNCHANGED <<rear, data, lfifo>>
    PROVE  Stream' = Stream /\ streamw' = streamw
  BY DEF Stream, streamw, laserw

LEMMA StreamKept ==
    ASSUME Shape, QueueInv, UNCHANGED <<rear, data, lfifo>>, Kept, Contents
    PROVE  Framed(Stream, streamw)' /\ OpenFrames(Stream, streamw)' /\ LastWord(Stream, streamw)'
  <1>1. Stream' = Stream /\ streamw' = streamw
    BY SameStream, Zenon
  <1>2. streamw \in Nat
    BY StreamIs, Zenon DEF StreamFacts
  <1>3. \A p \in 0..(streamw - 1) : p + 0 = p
    BY <1>2
  <1>4. streamw = streamw + 0 /\ 0 \in Nat
    BY <1>2
  <1>5. Suffix(Stream, streamw, Stream', streamw', 0)
    BY <1>1, <1>2, <1>3, <1>4, Zenon DEF Suffix
  <1>6. QED
    BY <1>5, ShiftedFrames, Zenon DEF Contents

(* Nothing is collected, and no point changes hands, while a distance frame *)
(* is under way: a step outside it may change points and revolution.        *)
LEMMA StreamOutside ==
    ASSUME UNCHANGED <<rear, data, lfifo, cs, tx_command, tx_data_cnt>>, Contents, idx # N \/ cs = "IDLE"
    PROVE  Framed(Stream, streamw)' /\ OpenFrames(Stream, streamw)' /\ LastWord(Stream, streamw)'
  <1>1. PICK S, L : S = Stream /\ L = streamw
    BY Zenon
  <1>2. Stream' = S /\ streamw' = L
    BY <1>1, SameStream, Zenon
  <1>3. Framed(S, L) /\ OpenFrames(S, L) /\ LastWord(S, L)
    BY <1>1, Zenon DEF Contents
  <1>4. cs' = cs /\ tx_command' = tx_command /\ Sent' = Sent
    BY Zenon DEF Sent
  <1>5. Framed(Stream, streamw)' /\ LastWord(Stream, streamw)'
    BY <1>2, <1>3, <1>4, Zenon DEF LastWord
  <1>6. \A p \in 0..(L - 1) : OpenAt(S, L, p) => cs = "DATA_LEN" /\ p + Sent = L
    BY <1>3, Zenon DEF OpenFrames
  <1>7. OpenFrames(Stream, streamw)'
    BY <1>2, <1>4, <1>6, Zenon DEF OpenFrames
  <1>8. QED
    BY <1>5, <1>7, Zenon

LEMMA RiseContents ==
    ASSUME Shape, Steady, Contents, CycleRise, stalls' = 0, stalls = 0
    PROVE  Contents'
  <1>1. /\ UNCHANGED <<rear, data, lfifo, cs, tx_command, tx_data_cnt, pfifo>>
        /\ ~Running /\ idx' = 0
    BY Zenon DEF CycleRise, tx, nios
  <1>2. cs = "IDLE" /\ usedw # N
    BY <1>1, Quiescent, Zenon
  <1>3. Framed(Stream, streamw)' /\ OpenFrames(Stream, streamw)' /\ LastWord(Stream, streamw)'
    BY <1>1, <1>2, StreamOutside, Zenon
  <1>4. Collected'
    <2>1. usedw' = usedw
      BY <1>1, Zenon DEF usedw
    <2>2. usedw' = N \/ (cycle' /\ enable_flag' /\ usedw' = idx') => usedw' = 0
      BY <1>1, <1>2, <2>1, Zenon
    <2>3. usedw' = 0 => \A k \in 1..usedw' : FALSE
      OBVIOUS
    <2>4. QED
      BY <2>2, <2>3, Zenon DEF Collected
  <1>5. QED
    BY <1>1, <1>2, <1>3, <1>4, Zenon DEF Contents

LEMMA FallContents ==
    ASSUME Shape, QueueInv, Steady, Contents, CycleFall
    PROVE  Contents'
  <1>1. UNCHANGED <<rear, data, lfifo>> /\ Kept /\ ~Running /\ ~cycle' /\ usedw' = usedw
    BY Zenon DEF CycleFall, tx, nios, Kept, usedw
  <1>2. cs = "IDLE" /\ usedw # N
    BY <1>1, Quiescent, Zenon
  <1>3. Collected'
    BY <1>1, <1>2, Zenon DEF Collected
  <1>4. QED
    BY <1>1, <1>3, StreamKept, Zenon DEF Contents, Kept

LEMMA EnableContents ==
    ASSUME Shape, QueueInv, Contents, SetUploadEn
    PROVE  Contents'
  <1>1. /\ UNCHANGED <<rear, data, lfifo>> /\ Kept /\ usedw' = usedw /\ cycle' = cycle
        /\ enable_flag' => enable_flag
    BY Zenon DEF SetUploadEn, tx, nios, Kept, usedw
  <1>2. Collected'
    BY <1>1, Zenon DEF Contents, Collected, Kept
  <1>3. QED
    BY <1>1, <1>2, StreamKept, Zenon DEF Contents, Kept

(* One word more at the end of a FIFO. *)
LEMMA Appended ==
    ASSUME NEW S, NEW s \in Seq(S), NEW e \in S
    PROVE  /\ \A j \in 1..Len(s) : Append(s, e)[j] = s[j]
           /\ Append(s, e)[Len(s) + 1] = e
  BY ST!AppendProperties, SMT

LEMMA PointContents ==
    ASSUME Shape, Steady, Contents, NewPoint
    PROVE  Contents'
  <1> USE Sizes, Levels
  <1>1. /\ UNCHANGED <<rear, data, lfifo, cs, tx_command, tx_data_cnt, rev, cycle, enable_flag>>
        /\ idx' = idx + 1 /\ idx < N /\ cycle
    BY Zenon DEF NewPoint, tx, nios
  <1>2. idx \in Nat /\ idx # N
    BY <1>1 DEF Shape
  <1>3. Framed(Stream, streamw)' /\ OpenFrames(Stream, streamw)' /\ LastWord(Stream, streamw)'
    BY <1>1, <1>2, StreamOutside, Zenon
  <1>4. Collected'
    <2>1. usedw <= N /\ (cycle /\ enable_flag => usedw <= idx) /\ (usedw = N => idx = N)
      BY Zenon DEF Steady, InTime
    <2>2. CASE ~enable_flag
      <3>1. usedw' = usedw /\ usedw # N
        BY <1>2, <2>1, <2>2, PointLevels, Zenon
      <3>2. QED
        BY <1>1, <2>2, <3>1, Zenon DEF Collected
    <2>3. CASE enable_flag
      <3>1. usedw' = usedw + 1 /\ pfifo' = Append(pfifo, Point(rev, idx))
        BY <2>3, PointLevels, Zenon DEF NewPoint
      <3>2. SUFFICES ASSUME usedw' = N \/ usedw' = idx', NEW k \in 1..usedw'
                     PROVE  pfifo'[k] = Point(rev', k - 1)
        BY Zenon DEF Collected
      <3>3. usedw = idx
        <4>1. usedw <= idx
          BY <1>1, <2>1, <2>3, Zenon
        <4>2. QED
          BY <1>1, <1>2, <3>1, <3>2, <4>1
      <3>4. \A j \in 1..usedw : pfifo[j] = Point(rev, j - 1)
        BY <1>1, <2>3, <3>3, Zenon DEF Contents, Collected
      <3>5. /\ \A j \in 1..usedw : pfifo'[j] = pfifo[j]
            /\ pfifo'[usedw + 1] = Point(rev, idx)
        <4>1. pfifo \in Seq(Points) /\ rev \in Revs /\ idx \in 0..N
          BY Zenon DEF Shape
        <4>2. Point(rev, idx) \in Points
          BY <4>1, SMT DEF Points
        <4>3. /\ \A j \in 1..Len(pfifo) : Append(pfifo, Point(rev, idx))[j] = pfifo[j]
              /\ Append(pfifo, Point(rev, idx))[Len(pfifo) + 1] = Point(rev, idx)
          BY <4>1, <4>2, Appended, Zenon
        <4>4. QED
          BY <3>1, <4>3, Zenon DEF usedw
      <3>6. k \in 1..usedw \/ (k = usedw + 1 /\ k - 1 = idx)
        BY <3>1, <3>3
      <3>7. QED
        BY <1>1, <3>4, <3>5, <3>6, Zenon
    <2>4. QED
      BY <2>2, <2>3, Zenon
  <1>5. QED
    BY <1>1, <1>3, <1>4, Zenon DEF Contents

LEMMA ClearContents ==
    ASSUME Shape, Steady, Contents, ClearFifo
    PROVE  Contents'
  <1> USE Sizes, Levels
  <1>1. /\ UNCHANGED <<rear, data, lfifo, cs, tx_command, tx_data_cnt, idx, rev, cycle, enable_flag>>
        /\ pfifo' = <<>> /\ quiet = QuietLimit
    BY Zenon DEF ClearFifo, scanSide, tx, nios
  <1>2. usedw' = 0 /\ quiet # 0 /\ \A k \in 1..0 : FALSE
    <2>1. Len(<<>>) = 0
      BY ST!EmptySeq, Zenon
    <2>2. QED
      BY <1>1, <2>1 DEF usedw
  <1>3. Collected'
    BY <1>2, Zenon DEF Collected
  <1>4. PICK S, L : S = Stream /\ L = streamw
    BY Zenon
  <1>5. Stream' = S /\ streamw' = L
    BY <1>1, <1>4, SameStream, Zenon
  <1>6. Framed(S, L) /\ OpenFrames(S, L) /\ LastWord(S, L)
    BY <1>4, Zenon DEF Contents
  <1>7. Framed(Stream, streamw)' /\ LastWord(Stream, streamw)'
    BY <1>1, <1>5, <1>6, Zenon DEF LastWord
  <1>8. ~(cs = "DATA" /\ tx_command = "DISTANCE")
    <2>1. cs = "DATA" /\ tx_command = "DISTANCE" => Distance
      BY DEF Distance, InFrame
    <2>2. QED
      BY <1>2, <2>1, Zenon DEF Steady, InTime
  <1>9. ASSUME NEW p, OneRevolution(S, p) PROVE OneRevolution(Stream, p)'
    <2>1. tx_data_cnt = N /\ N + 0 = N
      BY <1>8, <1>9 DEF OneRevolution
    <2>2. QED
      BY <1>1, <1>2, <1>5, <1>9, <2>1, Zenon DEF OneRevolution
  <1>10. Changed => Changed'
    <2>1. 0 < N
      OBVIOUS
    <2>2. QED
      BY <1>1, <1>2, <2>1, Zenon DEF Changed
  <1>11. Sent' = Sent
    BY <1>1, Zenon DEF Sent
  <1>12. OpenFrames(Stream, streamw)'
    BY <1>1, <1>5, <1>6, <1>9, <1>10, <1>11, Zenon DEF OpenFrames
  <1>13. QED
    BY <1>1, <1>3, <1>7, <1>12, Zenon DEF Contents

(* What one clock of update2nios leaves alone, and what it writes.          *)
LEMMA TxStream ==
    ASSUME Shape, QueueInv, Steady, TxClock
    PROVE  /\ UNCHANGED <<rear, data, idx, rev, cycle, enable_flag>>
           /\ ~Valid => lfifo' = lfifo
           /\ Valid => \E low \in LowHalves :
                          Longer(Stream, streamw, Stream', streamw') /\ Stream'[streamw] = TxWord(low)
           /\ ~Reading => pfifo' = pfifo /\ usedw' = usedw
  <1>1. UNCHANGED <<rear, data, idx, rev, cycle, enable_flag>>
    BY Zenon DEF TxClock, scanSide, nios
  <1>2. PICK low \in LowHalves : lfifo' = IF Valid /\ ready THEN Append(lfifo, TxWord(low)) ELSE lfifo
    BY Zenon DEF TxClock
  <1>3. ~Valid => lfifo' = lfifo
    BY <1>2, Zenon
  <1>4. ~Reading => pfifo' = pfifo /\ usedw' = usedw
    BY Zenon DEF TxClock, usedw
  <1>5. ASSUME Valid
        PROVE  Longer(Stream, streamw, Stream', streamw') /\ Stream'[streamw] = TxWord(low)
    <2>1. ready
      BY <1>5, CanSend DEF Valid
    <2>2. lfifo' = Append(lfifo, TxWord(low)) /\ laserw' = laserw + 1
      BY <1>2, <1>5, <2>1, TxLevels, Zenon
    <2>3. low \in {0, 1}
      BY <1>2 DEF LowHalves
    <2>4. TxWord(low) \in Words /\ lfifo \in Seq(Words)
      BY <2>3, TxWordType, Zenon DEF Shape
    <2>5. /\ \A j \in 1..Len(lfifo) : Append(lfifo, TxWord(low))[j] = lfifo[j]
          /\ Append(lfifo, TxWord(low))[Len(lfifo) + 1] = TxWord(low)
      BY <2>4, Appended, Zenon
    <2>6. (\A j \in 1..laserw : lfifo'[j] = lfifo[j]) /\ lfifo'[laserw + 1] = TxWord(low)
      BY <2>2, <2>5, Zenon DEF laserw
    <2>7. Shape' /\ QueueInv'
      <3>1. [Next]_vars
        BY Zenon DEF Next
      <3>2. Shape'
        BY <3>1, ShapeStep, Zenon
      <3>3. QED
        BY <1>1, <3>2, Zenon DEF QueueInv, NoEnd
    <2>8. /\ streamw = rear + laserw /\ streamw' = rear + (laserw + 1)
          /\ rear \in Nat /\ laserw \in Nat /\ streamw \in Nat
      <3>1. streamw = rear + laserw /\ streamw' = rear' + laserw' /\ streamw \in Nat
        BY <2>7, StreamIs, Zenon DEF StreamFacts
      <3>2. rear \in Nat
        BY DEF QueueInv
      <3>3. QED
        BY <1>1, <2>2, <3>1, <3>2, Levels, Zenon
    <2>9. ASSUME NEW p \in 0..(rear - 1) PROVE Stream'[p] = Stream[p]
      <3>1. Stream[p] = data[p] /\ (\A q \in 0..(rear' - 1) : Stream'[q] = data'[q])
        BY <2>7, StreamIs, Zenon DEF StreamFacts
      <3>2. QED
        BY <1>1, <3>1, Zenon
    <2>10. ASSUME NEW p \in rear..(streamw' - 1) PROVE Stream'[p] = lfifo'[p - rear + 1]
      <3>1. \A q \in rear'..(streamw' - 1) : Stream'[q] = lfifo'[q - rear' + 1]
        BY <2>7, StreamIs, Zenon DEF StreamFacts
      <3>2. QED
        BY <1>1, <3>1, Zenon
    <2>11. ASSUME NEW p \in rear..(streamw - 1) PROVE Stream'[p] = Stream[p]
      <3>1. p \in rear..(streamw' - 1) /\ p - rear + 1 \in 1..laserw
        BY <2>8
      <3>2. Stream[p] = lfifo[p - rear + 1]
        BY StreamIs, Zenon DEF StreamFacts
      <3>3. QED
        BY <2>6, <2>10, <3>1, <3>2, Zenon
    <2>12. \A p \in 0..(streamw - 1) : p \in 0..(rear - 1) \/ p \in rear..(streamw - 1)
      BY <2>8
    <2>13. Stream'[streamw] = TxWord(low)
      <3>1. streamw \in rear..(streamw' - 1) /\ streamw - rear + 1 = laserw + 1
        BY <2>8
      <3>2. QED
        BY <2>6, <2>10, <3>1, Zenon
    <2>14. streamw' = streamw + 1
      BY <2>8
    <2>15. QED
      BY <2>8, <2>9, <2>11, <2>12, <2>13, <2>14, Zenon DEF Longer
  <1>6. QED
    BY <1>1, <1>2, <1>3, <1>4, <1>5, Zenon

(* The command that update2nios goes on with. *)
LEMMA Chosen ==
    ASSUME Shape, TxClock
    PROVE  /\ usedw >= N => tx_command' = "DISTANCE"
           /\ ~(usedw >= N) /\ timer_flag => tx_command' = "STATUS"
           /\ ~(usedw >= N) => tx_command' \in {"STATUS", tx_command}
           /\ tx_command # "none" => tx_command' # "none"
  BY Zenon DEF TxClock, Choose

(* The distance frame under way goes on with a word that does not end it. *)
LEMMA OpenLonger ==
    ASSUME NEW S, NEW L, NEW S2, NEW M, Longer(S, L, S2, M), S2[L].k # "head",
           NEW p \in 0..(M - 1), OpenAt(S2, M, p)
    PROVE  p \in 0..(L - 1) /\ OpenAt(S, L, p) /\ ~EndsFrame(S2[L])
  <1>1. L \in Nat /\ M = L + 1 /\ \A q \in 0..(L - 1) : S2[q] = S[q]
    BY Zenon DEF Longer
  <1>2. p \in 0..(L - 1) \/ p = L
    BY <1>1
  <1>3. p # L
    BY Zenon DEF OpenAt, DistanceHead
  <1>4. /\ p + 1 \in Nat /\ L - 1 \in Int /\ L - 1 <= L - 1
        /\ \A q \in (p + 1)..(L - 1) : q \in (p + 1)..(M - 1)
        /\ L \in (p + 1)..(M - 1)
    BY <1>1, <1>2, <1>3
  <1>5. NoEnd(S2, p + 1, L - 1) /\ ~EndsFrame(S2[L])
    BY <1>4, Zenon DEF OpenAt, NoEnd
  <1>6. NoEnd(S, p + 1, L - 1)
    BY <1>4, <1>5, NoEndLonger, Zenon
  <1>7. QED
    BY <1>1, <1>2, <1>3, <1>5, <1>6, Zenon DEF OpenAt

(* The points collected are left alone. *)
LEMMA CollectedKept ==
    ASSUME Collected, UNCHANGED <<idx, rev, cycle, enable_flag>>, pfifo' = pfifo, usedw' = usedw
    PROVE  Collected'
  BY Zenon DEF Collected

(* No frame is under way. *)
LEMMA IdleContents ==
    ASSUME Shape, QueueInv, Steady, Contents, TxClock, cs = "IDLE"
    PROVE  Contents'
  <1>1. ~Valid /\ ~Reading
    BY DEF Valid, Reading
  <1>2. UNCHANGED <<rear, data, lfifo>>
    BY <1>1, TxStream, Zenon
  <1>3. PICK S, L : S = Stream /\ L = streamw
    BY Zenon
  <1>4. Stream' = S /\ streamw' = L
    BY <1>2, <1>3, SameStream, Zenon
  <1>5. Framed(S, L) /\ OpenFrames(S, L) /\ LastWord(S, L)
    BY <1>3, Zenon DEF Contents
  <1>6. cs' = IF Due THEN "HEAD" ELSE "IDLE"
    BY Zenon DEF TxClock, NextState
  <1>7. cs' # "IDLE" => tx_command' # "none"
    <2>1. Due => usedw >= N \/ timer_flag
      BY Sizes DEF Due
    <2>2. QED
      BY <1>6, <2>1, Chosen, Zenon
  <1>8. Collected'
    BY <1>1, TxStream, CollectedKept, Zenon DEF Contents
  <1>9. \A p \in 0..(L - 1) : ~OpenAt(S, L, p)
    BY <1>5, Zenon DEF OpenFrames
  <1>10. OpenFrames(Stream, streamw)'
    BY <1>4, <1>9, Zenon DEF OpenFrames
  <1>11. L > 0 => S[L - 1].k = "tail"
    BY <1>5, Zenon DEF LastWord
  <1>12. cs' \in {"IDLE", "HEAD"} /\ cs' # "DATA_LEN" /\ cs' \notin {"DATA", "DLY", "CHECKSUM"}
    BY <1>6
  <1>13. LastWord(Stream, streamw)'
    BY <1>4, <1>11, <1>12, Zenon DEF LastWord
  <1>14. QED
    BY <1>4, <1>5, <1>7, <1>8, <1>10, <1>13, Zenon DEF Contents

(* The head of a frame follows a tail. *)
LEMMA HeadContents ==
    ASSUME Shape, QueueInv, Steady, Contents, TxClock, cs = "HEAD"
    PROVE  Contents'
  <1> USE Sizes, Levels
  <1>1. Valid /\ ~Reading
    BY DEF Valid, Reading
  <1>2. PICK low \in LowHalves : Longer(Stream, streamw, Stream', streamw') /\ Stream'[streamw] = TxWord(low)
    BY <1>1, TxStream, Zenon
  <1>3. PICK S, L, S2, M : S = Stream /\ L = streamw /\ S2 = Stream' /\ M = streamw'
    BY Zenon
  <1>4. Longer(S, L, S2, M) /\ S2[L] = Word("head", tx_command, 0)
    BY <1>2, <1>3, Zenon DEF TxWord
  <1>5. L \in Nat /\ M = L + 1
    BY <1>4, Zenon DEF Longer
  <1>6. Framed(S, L) /\ OpenFrames(S, L) /\ LastWord(S, L)
    BY <1>3, Zenon DEF Contents
  <1>7. cs' = "DATA_LEN"
    BY Zenon DEF TxClock, NextState
  <1>8. tx_command \in {"DISTANCE", "STATUS"}
    BY DEF Contents, Shape, Commands
  <1>9. S2[L].k = "head" /\ S2[L].a = tx_command
    BY <1>4 DEF Word
  <1>10. \A p \in 0..(L - 1) : ~OpenAt(S, L, p)
    BY <1>6, Zenon DEF OpenFrames
  <1>11. L > 0 => S[L - 1].k = "tail"
    BY <1>6, Zenon DEF LastWord
  <1>12. Framed(S2, M)
    BY <1>4, <1>6, <1>8, <1>9, <1>10, <1>11, FramedLonger, Zenon
  <1>13. tx_command = "DISTANCE" => tx_command' = "DISTANCE"
    <2>1. ASSUME tx_command = "DISTANCE" PROVE usedw >= N
      <3>1. tx_data_cnt = 0
        BY Zenon DEF Steady, FrameInv
      <3>2. Distance
        BY <2>1 DEF Distance, InFrame
      <3>3. usedw >= N - tx_data_cnt
        BY <3>2, Zenon DEF Steady, InTime
      <3>4. QED
        BY <3>1, <3>3
    <2>2. QED
      BY <2>1, Chosen, Zenon
  <1>14. LastWord(S2, M)'
    <2>1. M - 1 = L /\ M > 0
      BY <1>5
    <2>2. QED
      BY <1>7, <1>9, <1>13, <2>1, Zenon DEF LastWord
  <1>15. ASSUME NEW p \in 0..(M - 1), OpenAt(S2, M, p)
         PROVE  p + 1 = M
    <2>1. p \in 0..(L - 1) \/ p + 1 = M
      BY <1>5
    <2>2. CASE p \in 0..(L - 1)
      <3>1. /\ p + 1 \in Nat /\ L - 1 \in Int /\ L - 1 <= L - 1
            /\ \A q \in (p + 1)..(L - 1) : q \in (p + 1)..(M - 1)
        BY <1>5, <2>2
      <3>2. NoEnd(S2, p + 1, L - 1) /\ DistanceHead(S2[p])
        BY <1>15, <3>1, Zenon DEF OpenAt, NoEnd
      <3>3. NoEnd(S, p + 1, L - 1)
        BY <1>4, <3>1, <3>2, NoEndLonger, Zenon
      <3>4. S2[p] = S[p]
        BY <1>4, <2>2, Zenon DEF Longer
      <3>5. QED
        BY <1>10, <2>2, <3>2, <3>3, <3>4, Zenon DEF OpenAt
    <2>3. QED
      BY <2>1, <2>2, Zenon
  <1>16. OpenFrames(S2, M)'
    <2>1. Sent' = 1
      BY <1>7, Zenon DEF Sent
    <2>2. QED
      BY <1>7, <1>15, <2>1, Zenon DEF OpenFrames
  <1>17. Collected'
    BY <1>1, TxStream, CollectedKept, Zenon DEF Contents
  <1>18. tx_command' # "none"
    BY Chosen, Zenon DEF Contents
  <1>19. QED
    BY <1>3, <1>12, <1>14, <1>16, <1>17, <1>18, Zenon DEF Contents

(* The length follows: from here on the points of a distance frame are a    *)
(* whole revolution.                                                        *)
LEMMA LengthContents ==
    ASSUME Shape, QueueInv, Steady, Contents, TxClock, cs = "DATA_LEN"
    PROVE  Contents'
  <1> USE Sizes, Levels
  <1>1. Valid /\ ~Reading
    BY DEF Valid, Reading
  <1>2. PICK low \in LowHalves : Longer(Stream, streamw, Stream', streamw') /\ Stream'[streamw] = TxWord(low)
    BY <1>1, TxStream, Zenon
  <1>3. PICK S, L, S2, M : S = Stream /\ L = streamw /\ S2 = Stream' /\ M = streamw'
    BY Zenon
  <1>4. Longer(S, L, S2, M) /\ S2[L] = Word("len", IF tx_command = "DISTANCE" THEN N ELSE StatusLen, 0)
    BY <1>2, <1>3, Zenon DEF TxWord
  <1>5. L \in Nat /\ M = L + 1
    BY <1>4, Zenon DEF Longer
  <1>6. Framed(S, L) /\ OpenFrames(S, L) /\ LastWord(S, L)
    BY <1>3, Zenon DEF Contents
  <1>7. cs' = "DATA" /\ tx_data_cnt' = tx_data_cnt /\ tx_data_cnt = 0
    BY Zenon DEF TxClock, NextState, Steady, FrameInv
  <1>8. S2[L].k = "len" /\ (tx_command = "DISTANCE" => S2[L].a = N)
    BY <1>4 DEF Word
  <1>9. ~EndsFrame(S2[L])
    BY <1>8 DEF EndsFrame
  <1>10. L > 0 => S[L - 1].k = "head" /\ (S[L - 1].a = "DISTANCE" => tx_command = "DISTANCE")
    BY <1>6, Zenon DEF LastWord
  <1>11. Framed(S2, M)
    BY <1>4, <1>6, <1>8, <1>9, <1>10, FramedLonger, Zenon
  <1>12. LastWord(S2, M)'
    <2>1. M - 1 = L
      BY <1>5
    <2>2. S2[L].k # "head"
      BY <1>8
    <2>3. QED
      BY <1>7, <2>1, <2>2, Zenon DEF LastWord
  <1>13. ASSUME NEW p \in 0..(M - 1), OpenAt(S2, M, p)
         PROVE  /\ p + Sent' = M /\ idx' = N
                /\ OneRevolution(S2, p)'
    <2>1. p \in 0..(L - 1) /\ OpenAt(S, L, p)
      BY <1>4, <1>8, <1>13, OpenLonger, Zenon
    <2>2. p + 1 = L
      BY <1>6, <2>1, Zenon DEF OpenFrames, Sent
    <2>3. L - 1 = p /\ L > 0 /\ p + (2 + 0) = M
      BY <1>5, <2>1, <2>2
    <2>4. S[p].a = "DISTANCE"
      BY <2>1, Zenon DEF OpenAt, DistanceHead
    <2>5. tx_command = "DISTANCE"
      BY <1>10, <2>3, <2>4, Zenon
    <2>6. Distance
      BY <2>5 DEF Distance, InFrame
    <2>7. idx = N /\ usedw >= N - tx_data_cnt /\ usedw <= N
      BY <2>6, Zenon DEF Steady, InTime
    <2>8. usedw = N
      BY <1>7, <2>7
    <2>9. usedw >= N
      BY <2>8
    <2>10. tx_command' = "DISTANCE"
      BY <2>9, Chosen, Zenon
    <2>11. pfifo' = pfifo /\ usedw' = usedw /\ rev' = rev /\ idx' = idx
      BY <1>1, TxStream, Zenon
    <2>12. tx_data_cnt' = 0 /\ Sent' = 2 + 0
      BY <1>7, Zenon DEF Sent
    <2>13. tx_data_cnt' + usedw' = N
      BY <2>8, <2>11, <2>12
    <2>14. \A i \in 0..(tx_data_cnt' - 1) : FALSE
      BY <2>12
    <2>15. \A k \in 1..usedw' : pfifo'[k] = Point(rev', tx_data_cnt' + k - 1)
      <3>1. \A k \in 1..usedw : pfifo[k] = Point(rev, k - 1)
        BY <2>8, Zenon DEF Contents, Collected
      <3>2. \A k \in 1..usedw : 0 + k - 1 = k - 1
        OBVIOUS
      <3>3. QED
        BY <2>11, <2>12, <3>1, <3>2, Zenon
    <2>16. OneRevolution(S2, p)'
      BY <1>7, <2>10, <2>13, <2>14, <2>15, Zenon DEF OneRevolution
    <2>17. QED
      BY <2>3, <2>7, <2>11, <2>12, <2>16, Zenon
  <1>14. OpenFrames(S2, M)'
    BY <1>7, <1>13, Zenon DEF OpenFrames
  <1>15. Collected'
    BY <1>1, TxStream, CollectedKept, Zenon DEF Contents
  <1>16. tx_command' # "none"
    BY Chosen, Zenon DEF Contents
  <1>17. QED
    BY <1>3, <1>11, <1>12, <1>14, <1>15, <1>16, Zenon DEF Contents

(* What a word of the points needs to carry on the frame under way. *)
LEMMA DataFramed ==
    ASSUME NEW S, NEW L, NEW S2, NEW M, Longer(S, L, S2, M), Framed(S, L), LastWord(S, L), cs = "DATA",
           S2[L].k # "head", \A p \in 0..(L - 1) : OpenAt(S, L, p) => ~EndsFrame(S2[L])
    PROVE  Framed(S2, M)
  <1>1. L > 0 => S[L - 1].k # "head"
    BY Zenon DEF LastWord
  <1>2. QED
    BY <1>1, FramedLonger, Zenon

(* Counting the words of the data. *)
LEMMA Counted ==
    ASSUME Shape, Steady, TxClock, cs = "DATA"
    PROVE  /\ ready /\ tx_data_cnt' = tx_data_cnt + 1 /\ tx_data_cnt' \in Nat /\ tx_data_cnt \in Nat
           /\ cs' = IF tx_data_cnt = tx_data_len - 1 THEN "DLY" ELSE "DATA"
           /\ Sent = 2 + tx_data_cnt /\ Sent' = Sent + 1
  <1> USE Sizes
  <1>1. ready
    BY CanSend
  <1>2. tx_data_cnt \in Nat /\ tx_data_cnt < tx_data_len /\ tx_data_len \in {N, StatusLen}
    BY DEF Shape, Steady, FrameInv, InFrame
  <1>3. (tx_data_cnt + 1) % CntMod = tx_data_cnt + 1
    BY <1>2
  <1>4. tx_data_cnt' = tx_data_cnt + 1
    BY <1>1, <1>3, Zenon DEF TxClock
  <1>5. cs' = IF tx_data_cnt = tx_data_len - 1 THEN "DLY" ELSE "DATA"
    BY Zenon DEF TxClock, NextState
  <1>6. Sent = 2 + tx_data_cnt /\ Sent' = 2 + tx_data_cnt'
    <2>1. cs' # "DATA_LEN"
      BY <1>5
    <2>2. QED
      BY <2>1, Zenon DEF Sent
  <1>7. Sent' = Sent + 1 /\ tx_data_cnt' \in Nat
    BY <1>2, <1>4, <1>6
  <1>8. QED
    BY <1>1, <1>2, <1>4, <1>5, <1>6, <1>7, Zenon

(* A status word: a distance frame that has changed does not end with it. *)
LEMMA StatusContents ==
    ASSUME Shape, QueueInv, Steady, Contents, TxClock, cs = "DATA", tx_command # "DISTANCE"
    PROVE  Contents'
  <1> USE Sizes, Levels
  <1>1. Valid /\ ~Reading
    BY DEF Valid, Reading
  <1>2. PICK low \in LowHalves : Longer(Stream, streamw, Stream', streamw') /\ Stream'[streamw] = TxWord(low)
    BY <1>1, TxStream, Zenon
  <1>3. PICK S, L, S2, M : S = Stream /\ L = streamw /\ S2 = Stream' /\ M = streamw'
    BY Zenon
  <1>4. Longer(S, L, S2, M) /\ S2[L] = Word("status", 0, low)
    BY <1>2, <1>3, Zenon DEF TxWord
  <1>5. L \in Nat /\ M = L + 1
    BY <1>4, Zenon DEF Longer
  <1>6. Framed(S, L) /\ OpenFrames(S, L) /\ LastWord(S, L)
    BY <1>3, Zenon DEF Contents
  <1>7. S2[L].k = "status" /\ S2[L].b = low
    BY <1>4 DEF Word
  <1>8. tx_data_cnt >= 1 => low = 0
    BY DEF Shape, LowHalves
  <1>9. tx_data_cnt >= 1 => ~EndsFrame(S2[L])
    BY <1>7, <1>8 DEF EndsFrame
  <1>10. \A p \in 0..(L - 1) : OpenAt(S, L, p) => Changed /\ idx = N /\ p + Sent = L
    BY <1>6, Zenon DEF OpenFrames, OneRevolution
  <1>11. S2[L].k # "head"
    BY <1>7
  <1>12. Framed(S2, M)
    BY <1>4, <1>6, <1>9, <1>10, <1>11, DataFramed, Zenon DEF Changed
  <1>13. cs' \in {"DATA", "DLY"}
    BY Counted
  <1>14. LastWord(S2, M)'
    <2>1. M - 1 = L
      BY <1>5
    <2>2. cs' \notin {"IDLE", "HEAD"} /\ cs' # "DATA_LEN"
      BY <1>13
    <2>3. QED
      BY <1>11, <2>1, <2>2, Zenon DEF LastWord
  <1>15. idx' = idx /\ usedw' = usedw
    BY <1>1, TxStream, Zenon
  <1>16. ASSUME NEW p \in 0..(M - 1), OpenAt(S2, M, p)
         PROVE  p + Sent' = M /\ idx' = N /\ Changed'
    <2>1. p \in 0..(L - 1) /\ OpenAt(S, L, p)
      BY <1>4, <1>11, <1>16, OpenLonger, Zenon
    <2>2. Changed /\ idx = N /\ p + Sent = L
      BY <1>10, <2>1, Zenon
    <2>3. ~(usedw >= N)
      <3>1. usedw < N
        BY <2>2, Zenon DEF Changed
      <3>2. QED
        BY <3>1
    <2>4. tx_command' = "STATUS"
      <3>1. tx_command = "STATUS"
        BY <2>2, Zenon DEF Changed
      <3>2. tx_command' \in {"STATUS", tx_command}
        BY <2>3, Chosen, Zenon
      <3>3. QED
        BY <3>1, <3>2
    <2>5. tx_data_cnt' >= 1
      BY Counted
    <2>6. p + Sent' = M
      <3>1. Sent \in Nat /\ Sent' = Sent + 1
        BY Counted
      <3>2. QED
        BY <1>5, <2>1, <2>2, <3>1
    <2>7. QED
      BY <1>15, <2>2, <2>4, <2>5, <2>6, Zenon DEF Changed
  <1>17. OpenFrames(S2, M)'
    <2>1. cs' \in {"DATA_LEN", "DATA", "DLY", "CHECKSUM"}
      BY <1>13
    <2>2. QED
      BY <1>16, <2>1, Zenon DEF OpenFrames
  <1>18. Collected'
    BY <1>1, TxStream, CollectedKept, Zenon DEF Contents
  <1>19. tx_command' # "none"
    BY Chosen, Zenon DEF Contents
  <1>20. QED
    BY <1>3, <1>12, <1>14, <1>17, <1>18, <1>19, Zenon DEF Contents

(* A point: it is the next of the revolution. *)
LEMMA PointTaken ==
    ASSUME Shape, Steady, TxClock, cs = "DATA", tx_command = "DISTANCE"
    PROVE  /\ idx = N /\ usedw >= 1 /\ usedw' = usedw - 1 /\ usedw' < N /\ tx_data_len = N
           /\ \A low : TxWord(low) = pfifo[1]
           /\ pfifo[1] \in Points
           /\ \A k \in 1..usedw' : pfifo'[k] = pfifo[k + 1]
  <1> USE Sizes, Levels
  <1>1. Distance /\ Reading
    BY DEF Distance, InFrame, Reading
  <1>2. /\ idx = N /\ usedw >= N - tx_data_cnt /\ usedw <= N
        /\ tx_data_len = N /\ tx_data_cnt < tx_data_len
    BY <1>1, Zenon DEF Steady, InTime, FrameInv
  <1>3. tx_data_cnt \in Nat
    BY DEF Shape
  <1>4. usedw >= 1 /\ usedw # 0 /\ usedw - 1 < N
    BY <1>2, <1>3
  <1>5. usedw' = usedw - 1
    BY <1>1, <1>4, TxLevels, Zenon
  <1>6. pfifo \in Seq(Points) /\ pfifo # <<>>
    BY <1>4, Zenon DEF Shape
  <1>7. pfifo' = Tail(pfifo)
    BY <1>1, <1>6, Zenon DEF TxClock
  <1>8. /\ Head(pfifo) = pfifo[1] /\ Head(pfifo) \in Points
        /\ \A k \in 1..Len(Tail(pfifo)) : Tail(pfifo)[k] = pfifo[k + 1]
    BY <1>6, ST!HeadTailProperties, SMT
  <1>9. \A k \in 1..usedw' : pfifo'[k] = pfifo[k + 1]
    BY <1>7, <1>8, Zenon DEF usedw
  <1>10. \A low : TxWord(low) = Head(pfifo)
    BY <1>6 DEF TxWord
  <1>11. QED
    BY <1>2, <1>4, <1>5, <1>8, <1>9, <1>10, Zenon

LEMMA PointSentContents ==
    ASSUME Shape, QueueInv, Steady, Contents, TxClock, cs = "DATA", tx_command = "DISTANCE"
    PROVE  Contents'
  <1> USE Sizes, Levels
  <1>1. Valid
    BY DEF Valid
  <1>2. PICK low \in LowHalves : Longer(Stream, streamw, Stream', streamw') /\ Stream'[streamw] = TxWord(low)
    BY <1>1, TxStream, Zenon
  <1>3. PICK S, L, S2, M : S = Stream /\ L = streamw /\ S2 = Stream' /\ M = streamw'
    BY Zenon
  <1>4. Longer(S, L, S2, M) /\ S2[L] = pfifo[1] /\ pfifo[1] \in Points
    BY <1>2, <1>3, PointTaken, Zenon
  <1>5. L \in Nat /\ M = L + 1
    BY <1>4, Zenon DEF Longer
  <1>6. Framed(S, L) /\ OpenFrames(S, L) /\ LastWord(S, L)
    BY <1>3, Zenon DEF Contents
  <1>7. S2[L].k = "point"
    BY <1>4, SMT DEF Points, Point, Word
  <1>8. S2[L].k # "head" /\ ~EndsFrame(S2[L])
    BY <1>7 DEF EndsFrame
  <1>9. Framed(S2, M)
    BY <1>4, <1>6, <1>8, DataFramed, Zenon
  <1>10. cs' \in {"DATA", "DLY"}
    BY Counted
  <1>11. LastWord(S2, M)'
    <2>1. M - 1 = L
      BY <1>5
    <2>2. cs' \notin {"IDLE", "HEAD"} /\ cs' # "DATA_LEN"
      BY <1>10
    <2>3. QED
      BY <1>8, <2>1, <2>2, Zenon DEF LastWord
  <1>12. idx' = N /\ rev' = rev /\ cycle' = cycle /\ enable_flag' = enable_flag
    BY PointTaken, TxStream, Zenon
  <1>13. ASSUME NEW p \in 0..(M - 1), OpenAt(S2, M, p)
         PROVE  p + Sent' = M /\ (OneRevolution(S2, p)' \/ Changed')
    <2>1. p \in 0..(L - 1) /\ OpenAt(S, L, p)
      BY <1>4, <1>8, <1>13, OpenLonger, Zenon
    <2>2. /\ p + Sent = L
          /\ tx_data_cnt + usedw = N
          /\ \A i \in 0..(tx_data_cnt - 1) : S[p + 2 + i] = Point(rev, i)
          /\ \A k \in 1..usedw : pfifo[k] = Point(rev, tx_data_cnt + k - 1)
      BY <1>6, <2>1, Zenon DEF OpenFrames, OneRevolution, Changed
    <2>3. /\ tx_data_cnt' = tx_data_cnt + 1 /\ tx_data_cnt \in Nat
          /\ Sent = 2 + tx_data_cnt /\ Sent' = Sent + 1
      BY Counted, Zenon
    <2>4. p + Sent' = M
      BY <1>5, <2>1, <2>2, <2>3
    <2>5. tx_data_cnt' + usedw' = N /\ usedw' < N /\ tx_data_cnt' >= 1
      BY <2>2, <2>3, PointTaken
    <2>6. CASE tx_command' = "STATUS"
      BY <2>4, <2>5, <2>6, Zenon DEF Changed
    <2>7. CASE tx_command' = "DISTANCE"
      <3>1. cs' = "DATA" \/ tx_data_cnt' = N
        <4>1. cs' = "DATA" \/ tx_data_cnt = tx_data_len - 1
          BY Counted
        <4>2. tx_data_cnt = tx_data_len - 1 => tx_data_cnt' = N
          BY <2>3, PointTaken
        <4>3. QED
          BY <4>1, <4>2, Zenon
      <3>2. pfifo[1] = Point(rev, tx_data_cnt)
        <4>1. 1 \in 1..usedw /\ tx_data_cnt + 1 - 1 = tx_data_cnt
          BY <2>3, PointTaken
        <4>2. pfifo[1] = Point(rev, tx_data_cnt + 1 - 1)
          BY <2>2, <4>1, Zenon
        <4>3. QED
          BY <4>1, <4>2, Zenon
      <3>3. ASSUME NEW i \in 0..(tx_data_cnt' - 1)
            PROVE  S2[p + 2 + i] = Point(rev, i)
        <4>1. \/ i \in 0..(tx_data_cnt - 1) /\ p + 2 + i \in 0..(L - 1)
              \/ i = tx_data_cnt /\ p + 2 + i = L
          BY <1>5, <2>1, <2>2, <2>3
        <4>2. \A q \in 0..(L - 1) : S2[q] = S[q]
          BY <1>4, Zenon DEF Longer
        <4>3. QED
          BY <1>4, <2>2, <3>2, <4>1, <4>2, Zenon
      <3>4. ASSUME NEW k \in 1..usedw'
            PROVE  pfifo'[k] = Point(rev, tx_data_cnt' + k - 1)
        <4>1. k + 1 \in 1..usedw /\ tx_data_cnt + (k + 1) - 1 = tx_data_cnt' + k - 1
          BY <2>3, PointTaken
        <4>2. pfifo[k + 1] = Point(rev, tx_data_cnt + (k + 1) - 1)
          BY <2>2, <4>1, Zenon
        <4>3. pfifo'[k] = pfifo[k + 1]
          BY PointTaken, Zenon
        <4>4. QED
          BY <4>1, <4>2, <4>3, Zenon
      <3>5. OneRevolution(S2, p)'
        BY <1>12, <2>5, <2>7, <3>1, <3>3, <3>4, Zenon DEF OneRevolution
      <3>6. QED
        BY <2>4, <3>5, Zenon
    <2>8. tx_command' \in {"STATUS", "DISTANCE"}
      BY Chosen
    <2>9. QED
      BY <2>6, <2>7, <2>8
  <1>14. OpenFrames(S2, M)'
    <2>1. cs' \in {"DATA_LEN", "DATA", "DLY", "CHECKSUM"}
      BY <1>10
    <2>2. QED
      BY <1>12, <1>13, <2>1, Zenon DEF OpenFrames
  <1>15. Collected'
    <2>1. usedw' < N
      BY PointTaken, Zenon
    <2>2. usedw' # N /\ usedw' # idx'
      BY <1>12, <2>1, PointTaken
    <2>3. QED
      BY <2>2, Zenon DEF Collected
  <1>16. tx_command' # "none"
    BY Chosen, Zenon DEF Contents
  <1>17. QED
    BY <1>3, <1>9, <1>11, <1>14, <1>15, <1>16, Zenon DEF Contents

(* The clock before the tail. *)
LEMMA DelayContents ==
    ASSUME Shape, QueueInv, Steady, Contents, TxClock, cs = "DLY"
    PROVE  Contents'
  <1> USE Sizes, Levels
  <1>1. ~Valid /\ ~Reading
    BY DEF Valid, Reading
  <1>2. UNCHANGED <<rear, data, lfifo, pfifo, idx, rev>> /\ usedw' = usedw
    BY <1>1, TxStream, Zenon
  <1>3. PICK S, L : S = Stream /\ L = streamw
    BY Zenon
  <1>4. Stream' = S /\ streamw' = L
    BY <1>2, <1>3, SameStream, Zenon
  <1>5. Framed(S, L) /\ OpenFrames(S, L) /\ LastWord(S, L)
    BY <1>3, Zenon DEF Contents
  <1>6. cs' = "CHECKSUM" /\ tx_data_cnt' = tx_data_cnt
    <2>1. ready
      BY CanSend
    <2>2. QED
      BY <2>1, Zenon DEF TxClock, NextState
  <1>7. Sent' = Sent
    BY <1>6, Zenon DEF Sent
  <1>8. tx_data_cnt \in Nat
    BY DEF Shape
  <1>9. ASSUME NEW p \in 0..(L - 1), OpenAt(S, L, p)
        PROVE  p + Sent = L /\ idx = N /\ (OneRevolution(S, p)' \/ Changed')
    <2>1. p + Sent = L /\ idx = N /\ (OneRevolution(S, p) \/ Changed)
      BY <1>5, <1>9, Zenon DEF OpenFrames
    <2>2. ~(usedw >= N) /\ usedw < N /\ tx_data_cnt >= 1
      <3>1. CASE OneRevolution(S, p)
        <4>1. tx_data_cnt = N /\ tx_data_cnt + usedw = N
          BY <3>1, Zenon DEF OneRevolution
        <4>2. QED
          BY <4>1
      <3>2. CASE Changed
        <4>1. usedw < N /\ tx_data_cnt >= 1
          BY <3>2, Zenon DEF Changed
        <4>2. QED
          BY <4>1
      <3>3. QED
        BY <2>1, <3>1, <3>2, Zenon
    <2>3. CASE tx_command' = "STATUS"
      BY <1>2, <1>6, <2>1, <2>2, <2>3, Zenon DEF Changed
    <2>4. CASE tx_command' = tx_command /\ tx_command # "STATUS"
      <3>1. OneRevolution(S, p)
        BY <2>1, <2>4, Zenon DEF Changed
      <3>2. OneRevolution(S, p)'
        BY <1>2, <1>6, <2>4, <3>1, Zenon DEF OneRevolution
      <3>3. QED
        BY <2>1, <3>2, Zenon
    <2>5. tx_command' \in {"STATUS", tx_command}
      BY <2>2, Chosen, Zenon
    <2>6. QED
      BY <2>3, <2>4, <2>5
  <1>10. OpenFrames(Stream, streamw)'
    <2>1. cs' \in {"DATA_LEN", "DATA", "DLY", "CHECKSUM"}
      BY <1>6
    <2>2. QED
      BY <1>2, <1>4, <1>7, <1>9, <2>1, Zenon DEF OpenFrames
  <1>11. LastWord(Stream, streamw)'
    <2>1. L > 0 => S[L - 1].k # "head"
      BY <1>5, Zenon DEF LastWord
    <2>2. cs' \notin {"IDLE", "HEAD"} /\ cs' # "DATA_LEN"
      BY <1>6
    <2>3. QED
      BY <1>4, <2>1, <2>2, Zenon DEF LastWord
  <1>12. Collected'
    BY <1>1, TxStream, CollectedKept, Zenon DEF Contents
  <1>13. tx_command' # "none"
    BY Chosen, Zenon DEF Contents
  <1>14. QED
    BY <1>4, <1>5, <1>10, <1>11, <1>12, <1>13, Zenon DEF Contents

(* The tail: behind a whole revolution, or it is that of a status frame. *)
LEMMA TailContents ==
    ASSUME Shape, QueueInv, Steady, Contents, TxClock, cs = "CHECKSUM"
    PROVE  Contents'
  <1> USE Sizes, Levels
  <1>1. Valid /\ ~Reading
    BY DEF Valid, Reading
  <1>2. PICK low \in LowHalves : Longer(Stream, streamw, Stream', streamw') /\ Stream'[streamw] = TxWord(low)
    BY <1>1, TxStream, Zenon
  <1>3. PICK S, L, S2, M : S = Stream /\ L = streamw /\ S2 = Stream' /\ M = streamw'
    BY Zenon
  <1>4. Longer(S, L, S2, M) /\ S2[L] = Word("tail", tx_command, 1)
    BY <1>2, <1>3, Zenon DEF TxWord
  <1>5. L \in Nat /\ M = L + 1 /\ \A q \in 0..(L - 1) : S2[q] = S[q]
    BY <1>4, Zenon DEF Longer
  <1>6. Framed(S, L) /\ OpenFrames(S, L) /\ LastWord(S, L)
    BY <1>3, Zenon DEF Contents
  <1>7. S2[L].k = "tail" /\ S2[L].b = 1
    BY <1>4 DEF Word
  <1>8. S2[L].k # "head" /\ EndsFrame(S2[L])
    BY <1>7 DEF EndsFrame
  <1>9. L > 0 => S[L - 1].k # "head"
    BY <1>6, Zenon DEF LastWord
  <1>10. cs' = "IDLE"
    <2>1. ready
      BY CanSend
    <2>2. QED
      BY <2>1, Zenon DEF TxClock, NextState
  <1>11. ASSUME NEW p \in 0..(L - 1), OpenAt(S, L, p)
         PROVE  S2[L] = StatusTail \/ (L = p + N + 2 /\ WholeFrame(S2, p))
    <2>1. p + Sent = L /\ (OneRevolution(S, p) \/ Changed)
      BY <1>6, <1>11, Zenon DEF OpenFrames
    <2>2. CASE Changed
      BY <1>4, <2>2, Zenon DEF Changed, StatusTail
    <2>3. CASE OneRevolution(S, p)
      <3>1. tx_data_cnt = N /\ \A i \in 0..(tx_data_cnt - 1) : S[p + 2 + i] = Point(rev, i)
        BY <2>3, Zenon DEF OneRevolution
      <3>2. Sent = 2 + tx_data_cnt
        BY Zenon DEF Sent
      <3>3. L = p + N + 2
        BY <2>1, <3>1, <3>2
      <3>4. ASSUME NEW i \in 0..(N - 1) PROVE S2[p + 2 + i] = Point(rev, i)
        <4>1. p + 2 + i \in 0..(L - 1)
          BY <3>3
        <4>2. QED
          BY <1>5, <3>1, <4>1, Zenon
      <3>5. 0 \in 0..(N - 1) /\ p + 2 + 0 = p + 2
        OBVIOUS
      <3>6. S2[p + 2] = Point(rev, 0)
        BY <3>4, <3>5, Zenon
      <3>7. S2[p + 2].a = rev
        BY <3>6 DEF Point, Word
      <3>8. WholeFrame(S2, p)
        BY <3>4, <3>7, Zenon DEF WholeFrame
      <3>9. QED
        BY <3>3, <3>8, Zenon
    <2>4. QED
      BY <2>1, <2>2, <2>3, Zenon
  <1>12. Framed(S2, M)
    BY <1>4, <1>6, <1>7, <1>8, <1>9, <1>11, FramedLonger, Zenon
  <1>13. OpenFrames(S2, M)'
    <2>1. \A p \in 0..(M - 1) : ~OpenAt(S2, M, p)
      BY <1>4, <1>8, OpenLonger, Zenon
    <2>2. QED
      BY <2>1, Zenon DEF OpenFrames
  <1>14. LastWord(S2, M)'
    <2>1. M - 1 = L
      BY <1>5
    <2>2. cs' \notin {"DATA", "DLY", "CHECKSUM"} /\ cs' # "DATA_LEN"
      BY <1>10
    <2>3. QED
      BY <1>7, <2>1, <2>2, Zenon DEF LastWord
  <1>15. Collected'
    BY <1>1, TxStream, CollectedKept, Zenon DEF Contents
  <1>16. QED
    BY <1>3, <1>10, <1>12, <1>13, <1>14, <1>15, Zenon DEF Contents

LEMMA TxContents ==
    ASSUME Shape, QueueInv, Steady, Contents, TxClock
    PROVE  Contents'
  <1>1. cs \in {"IDLE", "HEAD", "DATA_LEN", "DATA", "DLY", "CHECKSUM"}
    BY DEF Shape, Steady, FrameInv
  <1>2. CASE cs = "IDLE"
    BY <1>2, IdleContents, Zenon
  <1>3. CASE cs = "HEAD"
    BY <1>3, HeadContents, Zenon
  <1>4. CASE cs = "DATA_LEN"
    BY <1>4, LengthContents, Zenon
  <1>5. CASE cs = "DATA"
    BY <1>5, PointSentContents, StatusContents, Zenon
  <1>6. CASE cs = "DLY"
    BY <1>6, DelayContents, Zenon
  <1>7. CASE cs = "CHECKSUM"
    BY <1>7, TailContents, Zenon
  <1>8. QED
    BY <1>1, <1>2, <1>3, <1>4, <1>5, <1>6, <1>7, Zenon

-----------------------------------------------------------------------------
(* No word has been written. *)
LEMMA WholeStart == Init => WholeInv
  <1>1. ASSUME Init
        PROVE  WholeInv
    <2>1. UploadInv
      BY <1>1, UploadStart, Zenon
    <2>2. QueueInv
      <3>1. rear = 0 /\ QueueDepth \in Nat /\ N + 3 < QueueDepth /\ N \in Nat
        BY <1>1, UploadAssumption, SMT DEF Init, queue_init
      <3>2. rear \in 0..(QueueDepth - 1) /\ \A k \in 0..(rear - 1) : FALSE
        BY <3>1
      <3>3. data = [i \in 0..(QueueDepth - 1) |-> Blank]
        BY <1>1, Zenon DEF Init, queue_init
      <3>4. Blank \in Words
        BY Zenon DEF Words
      <3>5. data \in [0..(QueueDepth - 1) -> Words]
        BY <3>3, <3>4, Zenon
      <3>6. QED
        BY <3>2, <3>5, Zenon DEF QueueInv, NoEnd
    <2>3. streamw = 0
      <3>1. lfifo = <<>> /\ rear = 0
        BY <1>1, Zenon DEF Init, queue_init
      <3>2. laserw = 0
        BY <3>1, ST!EmptySeq, Zenon DEF laserw
      <3>3. QED
        BY <3>1, <3>2 DEF streamw
    <2>4. PICK S : S = Stream
      BY Zenon
    <2>5. /\ \A p \in 0..(0 - 1) : FALSE
          /\ \A p \in 0..(0 - 2) : FALSE
          /\ ~(0 > 0)
      OBVIOUS
    <2>6. Framed(S, 0) /\ OpenFrames(S, 0) /\ LastWord(S, 0)
      BY <2>5, Zenon DEF Framed, HeadsFollowed, HeadsAfterTails, FramesWhole, HeadsKnown, OpenFrames, LastWord
    <2>7. Collected
      <3>1. pfifo = <<>>
        BY <1>1, Zenon DEF Init
      <3>2. usedw = 0
        BY <3>1, ST!EmptySeq, Zenon DEF usedw
      <3>3. \A k \in 1..usedw : FALSE
        BY <3>2
      <3>4. QED
        BY <3>3, Zenon DEF Collected
    <2>8. cs = "IDLE" /\ scan \notin {"mixed", "wild"}
      BY <1>1 DEF Init
    <2>9. QED
      BY <2>1, <2>2, <2>3, <2>4, <2>6, <2>7, <2>8, Zenon DEF WholeInv, Contents, WholeRevolution
  <1>2. QED
    BY <1>1

LEMMA WholeStep == WholeInv /\ [Next]_vars => WholeInv'
  <1>1. ASSUME WholeInv, [Next]_vars
        PROVE  WholeInv'
    <2>1. Shape /\ QueueInv /\ UploadInv
      BY <1>1, Zenon DEF WholeInv, UploadInv
    <2>2. UploadInv'
      BY <1>1, <2>1, UploadStep, Zenon
    <2>3. CASE ReadWord
      <3>1. QueueInv'
        BY <2>1, <2>3, ReadStream, Zenon
      <3>2. stalls' = stalls
        BY <2>3, Zenon DEF ReadWord, scanSide
      <3>3. stalls = 0 => Contents' /\ WholeRevolution'
        BY <1>1, <2>1, <2>3, ReadContents, Zenon DEF WholeInv
      <3>4. QED
        BY <2>2, <3>1, <3>2, <3>3, Zenon DEF WholeInv
    <2>4. CASE ~ReadWord
      <3>1. UNCHANGED <<data, rear, scan>>
        BY <1>1, <2>4, Zenon DEF Next, CycleRise, NewPoint, CycleFall, SetUploadEn, ClearFifo, TxClock,
           vars, nios
      <3>2. QueueInv'
        BY <2>1, <3>1, Zenon DEF QueueInv, NoEnd
      <3>3. ASSUME stalls' = 0
            PROVE  Contents' /\ WholeRevolution'
        <4>1. stalls = 0
          BY <1>1, <2>1, <3>3, StallsStay, Zenon DEF Stalled
        <4>2. Steady /\ Contents /\ WholeRevolution
          BY <1>1, <2>1, <4>1, Zenon DEF WholeInv, UploadInv
        <4>3. WholeRevolution'
          BY <3>1, <4>1, <4>2, Zenon DEF WholeRevolution
        <4>4. CASE CycleRise
          BY <2>1, <3>3, <4>1, <4>2, <4>3, <4>4, RiseContents, Zenon
        <4>5. CASE NewPoint
          BY <2>1, <4>2, <4>3, <4>5, PointContents, Zenon
        <4>6. CASE CycleFall
          BY <2>1, <4>2, <4>3, <4>6, FallContents, Zenon
        <4>7. CASE SetUploadEn
          BY <2>1, <4>2, <4>3, <4>7, EnableContents, Zenon
        <4>8. CASE ClearFifo
          BY <2>1, <4>2, <4>3, <4>8, ClearContents, Zenon
        <4>9. CASE TxClock
          BY <2>1, <4>2, <4>3, <4>9, TxContents, Zenon
        <4>10. CASE UNCHANGED vars
          <5>1. /\ UNCHANGED <<rear, data, lfifo>> /\ Kept
                /\ cycle' = cycle /\ enable_flag' = enable_flag /\ usedw' = usedw
            BY <4>10, Zenon DEF vars, nios, tx, scanSide, Kept, usedw
          <5>2. Framed(Stream, streamw)' /\ OpenFrames(Stream, streamw)' /\ LastWord(Stream, streamw)'
            BY <2>1, <4>2, <5>1, StreamKept, Zenon
          <5>3. Collected' /\ (cs' # "IDLE" => tx_command' # "none")
            BY <4>2, <5>1, CollectedKept, Zenon DEF Contents, Kept
          <5>4. QED
            BY <4>3, <5>2, <5>3, Zenon DEF Contents
        <4>11. QED
          BY <1>1, <2>4, <4>4, <4>5, <4>6, <4>7, <4>8, <4>9, <4>10, Zenon DEF Next
      <3>4. QED
        BY <2>2, <3>2, <3>3, Zenon DEF WholeInv
    <2>5. QED
      BY <2>3, <2>4, Zenon
  <1>2. QED
    BY <1>1

(* For any number of points, any length of a status frame, any depths of    *)
(* laser FIFO and queue that take a scan, and any number of status frames   *)
(* and switches of UPLOAD_EN: as long as the firmware reads a frame within  *)
(* a revolution, what fpga2nios_parse publishes as a scan is one revolution *)
(* of pos_buffer.v, complete and in order, or the frame was changed to a    *)
(* status frame under way; and it never takes a length from another word.   *)
THEOREM ScansWhole == Spec => []WholeRevolution
  <1>1. WholeInv => WholeRevolution
    BY Zenon DEF WholeInv, WholeRevolution
  <1>2. QED
    BY <1>1, WholeStart, WholeStep, PTL DEF Spec

=============================================================================
