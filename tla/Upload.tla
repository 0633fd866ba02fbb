-------------------------------- MODULE Upload --------------------------------
(***************************************************************************)
(* The scans on their way from the fabric to the firmware:                 *)
(*   - hdl/pos_buffer.v collects the N points of a revolution in the       *)
(*     position FIFO, if the FIFO can take the whole of it;                *)
(*   - hdl/update2nios.v turns N buffered points into a frame              *)
(*     (head, length, points, tail) in the laser FIFO, and once a second   *)
(*     sends a frame of status words;                                      *)
(*   - the main loop reads the laser FIFO word by word and hands what it   *)
(*     has collected to fpga2nios_parse at every word that looks like a    *)
(*     tail.                                                               *)
(* The three run at very different speeds.  A frame takes N + 4 clocks of  *)
(* update2nios, a point arrives every few thousand clocks: at most one     *)
(* point falls into a frame, and a revolution neither begins nor ends      *)
(* while update2nios has something to do and can do it.  The firmware      *)
(* reads a frame within a revolution unless it is busy elsewhere (a stall):*)
(* it is away for several revolutions while a region is read from the      *)
(* EEPROM, and the laser FIFO fills up.                                    *)
(***************************************************************************)
EXTENDS Integers, Sequences

CONSTANTS
    N,              \* points of a revolution (811)
    StatusLen,      \* words of a status frame (5)
    LaserDepth,     \* words of the laser FIFO (2048)
    QueueDepth,     \* words of LaserDataQueue (2048)
    CntMod,         \* tx_data_cnt wraps here (65536)
    TimerAt,        \* timer_cnt at which a status frame is due (100)
    TimerMax,       \* timer_cnt goes back to 0 after this value (112,500,000)
    QuietLimit,     \* half revolutions without a change until aclr (100 ms)
    MaxStatus,      \* bound: status frames
    MaxToggles,     \* bound: changes of UPLOAD_EN
    MaxStalls       \* bound: revolutions that begin before the last frame is read

ASSUME UploadAssumption ==
    /\ {N, LaserDepth, QueueDepth, CntMod, TimerMax} \subseteq Nat
    /\ StatusLen \in 3..(N - 1) /\ 2 * N < CntMod
    /\ N + StatusLen + 6 <= LaserDepth /\ N + 3 < QueueDepth
    /\ TimerAt \in 1..TimerMax /\ QuietLimit \in Nat \ {0}
    /\ MaxStatus \in Nat /\ MaxToggles \in Nat /\ MaxStalls \in Nat

VARIABLES
    cycle,          \* cycle_enable: the beam is inside the measured sector
    idx, rev,       \* points of this revolution so far; its number modulo 3
    update_enable,  \* UPLOAD_EN
    enable_flag,    \* this revolution goes into the position FIFO
    pfifo,          \* the position FIFO
    quiet,          \* half revolutions since its fill level last changed
    cs, tx_command, tx_data_len, tx_data_cnt, timer_cnt,
    lfifo,          \* the laser FIFO
    arrived,        \* a point has arrived during the present frame
    data, rear,     \* LaserDataQueue: its array, and where the next word goes
    scan,           \* what the last word read made fpga2nios_parse publish
    status, toggles, stalls     \* counters for the bounds

scanSide == <<cycle, idx, rev, update_enable, enable_flag, toggles, stalls>>
tx == <<cs, tx_command, tx_data_len, tx_data_cnt, timer_cnt, status>>
nios == <<data, rear, scan>>
vars == <<scanSide, pfifo, quiet, tx, lfifo, arrived, nios>>

Revs == 0..2
Word(k, a, b) == [k |-> k, a |-> a, b |-> b]
Point(r, i) == Word("point", r, i)
Blank == Word("blank", 0, 0)    \* an empty position FIFO, an unused queue entry

(* LaserDataQueue before the first word. *)
queue_init == data = [i \in 0..(QueueDepth - 1) |-> Blank] /\ rear = 0

Init ==
    /\ cycle = FALSE /\ idx = N /\ rev = 0
    /\ update_enable = TRUE /\ enable_flag = FALSE
    /\ pfifo = <<>> /\ quiet = 0
    /\ cs = "IDLE" /\ tx_command = "none" /\ tx_data_len = 0 /\ tx_data_cnt = 0
    /\ timer_cnt = 0
    /\ lfifo = <<>> /\ arrived = FALSE
    /\ queue_init /\ scan = "none"
    /\ status = 0 /\ toggles = 0 /\ stalls = 0

-----------------------------------------------------------------------------
ready == Len(lfifo) < LaserDepth    \* laser_fifo_in_ready
usedw == Len(pfifo)                 \* fifo_usedw
timer_flag == timer_cnt = TimerAt
Due == (usedw \in {N, 2 * N} /\ ready) \/ timer_flag
Running == ready /\ (cs # "IDLE" \/ Due)   \* update2nios has work it can do

-----------------------------------------------------------------------------
(* pos_buffer.v *)

(* The fill level is watched in time; here, in half revolutions. *)
Waiting == update_enable => quiet < QuietLimit
Elapse == quiet' = IF update_enable /\ quiet < QuietLimit THEN quiet + 1 ELSE quiet

(* The next revolution begins, with the last frame unread: a stall. *)
Begin ==
    IF lfifo = <<>> THEN UNCHANGED stalls ELSE stalls < MaxStalls /\ stalls' = stalls + 1

(* Faulty variants, used to show that the properties can fail. *)
CycleRiseBelow ==
    /\ ~cycle /\ Waiting /\ ~Running
    /\ Begin
    /\ cycle' = TRUE /\ idx' = 0 /\ rev' = (rev + 1) % 3
    /\ enable_flag' = IF update_enable THEN usedw <= N ELSE enable_flag
    /\ Elapse
    /\ UNCHANGED <<update_enable, pfifo, tx, lfifo, arrived, nios, toggles>>

ClearFifoNoClear ==
    /\ update_enable /\ quiet = QuietLimit
    /\ quiet' = 0
    /\ UNCHANGED <<scanSide, pfifo, tx, lfifo, arrived, nios>>

(* cycle_enable rises.  A revolution is accepted only as a whole. *)
CycleRise ==
    /\ ~cycle /\ Waiting /\ ~Running
    /\ Begin
    /\ cycle' = TRUE /\ idx' = 0 /\ rev' = (rev + 1) % 3
    /\ enable_flag' = IF update_enable THEN usedw \in {0, N} ELSE enable_flag
    /\ Elapse
    /\ UNCHANGED <<update_enable, pfifo, tx, lfifo, arrived, nios, toggles>>

(* target_valid: the next point of the revolution. *)
NewPoint ==
    /\ cycle /\ idx < N
    /\ ~Running \/ ~arrived
    /\ idx' = idx + 1
    /\ IF enable_flag
       THEN pfifo' = Append(pfifo, Point(rev, idx)) /\ quiet' = 0
       ELSE UNCHANGED <<pfifo, quiet>>
    /\ arrived' = (arrived \/ Running)
    /\ UNCHANGED <<cycle, rev, update_enable, enable_flag, tx, lfifo, nios, toggles, stalls>>

(* cycle_enable falls.  With uploading switched off the flag goes with it. *)
CycleFall ==
    /\ cycle /\ idx = N /\ Waiting /\ ~Running
    /\ cycle' = FALSE
    /\ enable_flag' = (enable_flag /\ update_enable)
    /\ Elapse
    /\ UNCHANGED <<idx, rev, update_enable, pfifo, tx, lfifo, arrived, nios, toggles, stalls>>

(* The UPLOAD_EN command arrives.  A revolution under way is completed. *)
SetUploadEn ==
    /\ toggles < MaxToggles /\ toggles' = toggles + 1
    /\ update_enable' = ~update_enable
    /\ enable_flag' = (enable_flag /\ (cycle \/ update_enable'))
    /\ UNCHANGED <<cycle, idx, rev, pfifo, quiet, tx, lfifo, arrived, nios, stalls>>

(* aclr: the fill level has not changed for 100 ms. *)
ClearFifo ==
    /\ update_enable /\ quiet = QuietLimit
    /\ pfifo' = <<>> /\ quiet' = 0
    /\ UNCHANGED <<scanSide, tx, lfifo, arrived, nios>>

-----------------------------------------------------------------------------
(* update2nios.v *)
(* Faulty variants, used to show that the properties can fail. *)
NextStateLateExit ==
    CASE cs = "IDLE"     -> IF Due THEN "HEAD" ELSE "IDLE"
      [] cs = "HEAD"     -> "DATA_LEN"
      [] cs = "DATA_LEN" -> "DATA"
      [] cs = "DATA"     -> IF tx_data_cnt = tx_data_len THEN "DLY" ELSE "DATA"
      [] cs = "DLY"      -> IF ready THEN "CHECKSUM" ELSE "DLY"
      [] cs = "CHECKSUM" -> IF ready THEN "IDLE" ELSE "OVER"
      [] OTHER           -> "IDLE"

(* ns: the combinational next state. *)
NextState ==
    CASE cs = "IDLE"     -> IF Due THEN "HEAD" ELSE "IDLE"
      [] cs = "HEAD"     -> "DATA_LEN"
      [] cs = "DATA_LEN" -> "DATA"
      [] cs = "DATA"     -> IF tx_data_cnt = tx_data_len - 1 THEN "DLY" ELSE "DATA"
      [] cs = "DLY"      -> IF ready THEN "CHECKSUM" ELSE "DLY"
      [] cs = "CHECKSUM" -> IF ready THEN "IDLE" ELSE "OVER"
      [] OTHER           -> "IDLE"

(* The command and length registers follow the fill level and the timer at  *)
(* every clock, in the middle of a frame too.                               *)
Choose ==
    IF usedw >= N THEN tx_command' = "DISTANCE" /\ tx_data_len' = N
    ELSE IF timer_flag THEN tx_command' = "STATUS" /\ tx_data_len' = StatusLen
    ELSE IF cs = "CHECKSUM" THEN tx_command' = "STATUS" /\ tx_data_len' = 2
    ELSE UNCHANGED <<tx_command, tx_data_len>>

Reading == cs = "DATA" /\ tx_command = "DISTANCE"
Valid == cs \in {"HEAD", "DATA_LEN", "DATA", "CHECKSUM"}

(* The first status word is the motor's count: its low half may be 0xeeee.  *)
(* The other status words and the distances never get there.                *)
LowHalves == IF cs = "DATA" /\ tx_data_cnt = 0 /\ tx_command # "DISTANCE" THEN {0, 1} ELSE {0}

(* The word on laser_fifo_in_data. *)
TxWord(low) ==
    CASE cs = "HEAD"     -> Word("head", tx_command, 0)
      [] cs = "DATA_LEN" -> Word("len", IF tx_command = "DISTANCE" THEN N ELSE StatusLen, 0)
      [] cs = "CHECKSUM" -> Word("tail", tx_command, 1)
      [] OTHER           -> IF tx_command # "DISTANCE" THEN Word("status", 0, low)
                            ELSE IF pfifo = <<>> THEN Blank ELSE Head(pfifo)

(* The timer takes a second, many revolutions: what was in the laser FIFO   *)
(* has been read before the next status frame, unless the firmware stalls.  *)
Second == status < MaxStatus /\ (lfifo = <<>> \/ stalls > 0)
Timer ==
    timer_cnt' = IF cs # "IDLE" THEN timer_cnt
                 ELSE IF timer_cnt <= TimerMax THEN timer_cnt + 1
                 ELSE IF Second THEN 0 ELSE timer_cnt

(* One clock.  The position FIFO is read at every clock of DATA, whether    *)
(* the laser FIFO can take the word or not.                                 *)
TxClock ==
    /\ cs' = NextState
    /\ Choose
    /\ pfifo' = IF Reading /\ pfifo # <<>> THEN Tail(pfifo) ELSE pfifo
    /\ quiet' = IF Reading /\ pfifo # <<>> THEN 0 ELSE quiet
    /\ \E low \in LowHalves : lfifo' = IF Valid /\ ready THEN Append(lfifo, TxWord(low)) ELSE lfifo
    /\ tx_data_cnt' = IF cs = "IDLE" THEN 0
                      ELSE IF cs = "DATA" /\ ready THEN (tx_data_cnt + 1) % CntMod
                      ELSE tx_data_cnt
    /\ Timer
    /\ status' = IF cs = "IDLE" /\ timer_flag /\ status < MaxStatus THEN status + 1 ELSE status
    /\ arrived' = (arrived /\ cs # "IDLE")
    /\ UNCHANGED <<scanSide, nios>>

-----------------------------------------------------------------------------
(* The firmware *)

fpga_is_has_data == lfifo # <<>>
read_fpga_data == Head(lfifo)
altera_avalon_fifo_read_fifo == lfifo' = Tail(lfifo)

(* LaserDataQueue.  It is always cleared before it is read, so front is 0;  *)
(* queue_clear resets the indices and leaves the array.                     *)
queue_clear == 0
queue_is_full == rear = QueueDepth - 1
queue_push(w, at) == [data EXCEPT ![at] = w]
queue_pop(d, i) == d[i % QueueDepth]

(* fpga2nios_parse on the queue d with r words: what it publishes.  The     *)
(* words up to the first head are skipped; then as many words are popped as *)
(* the frame's length says, without a look at how many there are: beyond    *)
(* the last one the array still holds older frames.                         *)
Parse(d, r) ==
    LET heads == {i \in 0..(r - 1) : d[i].k = "head"}
        h == CHOOSE i \in heads : \A j \in heads : i <= j
        At(i) == queue_pop(d, h + i)
        n == At(1).a
    IN  IF heads = {} THEN "dropped"
        ELSE IF At(1).k # "len" THEN "wild"
        ELSE IF At(0).a = "STATUS"
        THEN IF \A i \in 1..StatusLen : At(1 + i).k = "status" THEN "status" ELSE "odd"
        ELSE IF At(2 + n).k # "tail" THEN "dropped"
        ELSE IF \A i \in 1..n : At(1 + i) = Point(At(2).a, i - 1) THEN "whole"
        ELSE IF d[r - 1] = Word("tail", "STATUS", 1) THEN "switched"
        ELSE "mixed"

(* (recv_data & 0xffff) == 0xeeee: the word ends the frame. *)
EndsFrame(w) == w.k \in {"tail", "status"} /\ w.b = 1

(* The main loop takes a word; a full queue is emptied first.  At the end   *)
(* of a frame: parse, and clear the queue's indices but not its array.      *)
(* (Without a head fpga2nios_parse pops one word too many, and the queue,   *)
(* full by its indices, is cleared before the next word.)                   *)
ReadWord ==
    /\ fpga_is_has_data
    /\ altera_avalon_fifo_read_fifo
    /\ LET w == read_fpga_data
           at == IF queue_is_full THEN queue_clear ELSE rear
       IN  /\ data' = queue_push(w, at)
           /\ rear' = IF EndsFrame(w) THEN queue_clear ELSE at + 1
           /\ scan' = IF EndsFrame(w) THEN Parse(data', at + 1) ELSE "none"
    /\ UNCHANGED <<scanSide, pfifo, quiet, tx, arrived>>

Next ==
    \/ CycleRise \/ NewPoint \/ CycleFall \/ SetUploadEn \/ ClearFifo
    \/ TxClock \/ ReadWord

Spec == Init /\ [][Next]_vars
           /\ WF_vars(CycleRise) /\ WF_vars(NewPoint) /\ WF_vars(CycleFall)
           /\ WF_vars(ClearFifo) /\ WF_vars(TxClock) /\ WF_vars(ReadWord)

-----------------------------------------------------------------------------
(* Counters, states and fill levels stay in their ranges. *)
TypeOK ==
    /\ idx \in 0..N /\ rev \in Revs /\ quiet \in 0..QuietLimit
    /\ cs \in {"IDLE", "HEAD", "DATA_LEN", "DATA", "DLY", "CHECKSUM", "OVER"}
    /\ tx_data_len \in {0, 2, StatusLen, N} /\ tx_data_cnt \in 0..(CntMod - 1)
    /\ Len(lfifo) <= LaserDepth /\ rear \in 0..(QueueDepth - 1)
    /\ scan \in {"none", "whole", "switched", "mixed", "status", "odd", "dropped", "wild"}

(* The position FIFO never holds more than two revolutions, so it cannot    *)
(* overflow, whatever an interrupted frame has left over in it.  And a      *)
(* distance frame under way still finds all its points in it: the 100 ms    *)
(* timeout of pos_buffer never empties it under update2nios, and no point   *)
(* is sent twice.                                                           *)
FifoBounds ==
    /\ usedw <= 2 * N
    /\ stalls = 0 /\ Reading => pfifo # <<>> /\ usedw >= tx_data_len - tx_data_cnt

(* What the firmware publishes as a scan is one revolution, complete and in *)
(* order, and no length is taken from a word that is none: whatever part of *)
(* a revolution a frame has left behind, and wherever a status word ends a  *)
(* frame early.  The one exception is a frame that begins in the clock in   *)
(* which the status timer expires: it changes from distance to status after *)
(* two points, ends there, and the parser takes the rest from the queue's   *)
(* array, the scan before ("switched").  The firmware reads a frame within  *)
(* a revolution: update2nios takes points out of the position FIFO also     *)
(* when the laser FIFO cannot take them, and then they are lost.            *)
WholeRevolution == stalls = 0 => scan \notin {"mixed", "wild"}

(* While uploading is enabled whole scans keep coming, however status       *)
(* frames, a switched-off upload or a left-over part of a revolution        *)
(* interfered.                                                              *)
ScansKeepComing == []<>(scan = "whole" \/ ~update_enable)
=============================================================================
