------------------------------- MODULE BspProof -------------------------------
(***************************************************************************)
(* The board support package.  The descriptors and the clock of the HAL    *)
(* for any size of the descriptor pool, any devices, any width of the tick *)
(* counter and any alarms; and the flash driver under the remote update,   *)
(* for any chip that the driver's tables describe rightly or not at all,   *)
(* any addresses, block counts and packets.                                *)
(***************************************************************************)
EXTENDS Hal, RemoteUpdate, TLAPS, WellFoundedInduction, FiniteSetTheorems

ST == INSTANCE SequenceTheorems

-----------------------------------------------------------------------------
(* The clock.                                                               *)

(* The fields of an alarm. *)
AlarmRecord == [on : BOOLEAN, time : 0..(Wrap - 1), rollover : BOOLEAN]

TickTypeOK ==
    /\ _alt_nticks \in 0..(Wrap - 1)
    /\ alarm \in [Alarms -> AlarmRecord]
    /\ left \in [Alarms -> 0..(Wrap - 1)]

(* What an alarm that is due in l ticks looks like when the counter is at   *)
(* n: its time is modulo the counter's range, and the roll-over flag tells  *)
(* whether the counter has still to go round before it.                     *)
DueIn(r, n, l) ==
    /\ l \in 1..(Wrap - 1)
    /\ IF n + l < Wrap THEN r.time = n + l /\ ~r.rollover
       ELSE r.time = n + l - Wrap /\ r.rollover

TickInv == TickTypeOK /\ \A a \in Alarms : alarm[a].on => DueIn(alarm[a], _alt_nticks, left[a])

(* A sum of two numbers in the counter's range wraps at most once. *)
LEMMA WrapOnce ==
    ASSUME NEW t \in 0..(2 * Wrap - 1)
    PROVE  t % Wrap = (IF t < Wrap THEN t ELSE t - Wrap)
  <1>1. Wrap \in Nat \ {0}
    BY AltTickAssumption, Zenon
  <1>2. QED
    BY <1>1

(* alt_alarm_start and the re-arming in alt_tick set an alarm for l ticks    *)
(* from n.                                                                  *)
LEMMA AtDueIn ==
    ASSUME NEW n \in 0..(Wrap - 1), NEW l \in 1..(Wrap - 1)
    PROVE  At(n + l, n) \in AlarmRecord /\ At(n + l, n).on /\ DueIn(At(n + l, n), n, l)
  <1>1. Wrap \in Nat \ {0}
    BY AltTickAssumption, Zenon
  <1> DEFINE t == (n + l) % Wrap
             b == t < n
  <1>2. t = (IF n + l < Wrap THEN n + l ELSE n + l - Wrap)
    BY <1>1, WrapOnce
  <1>3. t \in 0..(Wrap - 1) /\ b \in BOOLEAN /\ (b <=> ~(n + l < Wrap))
    BY <1>1, <1>2
  <1>4. At(n + l, n) = [on |-> TRUE, time |-> t, rollover |-> b]
    BY Zenon DEF At
  <1> HIDE DEF t, b
  <1>5. At(n + l, n) \in AlarmRecord
    <2>1. \A x \in 0..(Wrap - 1), y \in BOOLEAN :
             [on |-> TRUE, time |-> x, rollover |-> y] \in AlarmRecord
      BY DEF AlarmRecord
    <2>2. QED
      BY <1>3, <1>4, <2>1, Zenon
  <1>6. At(n + l, n).on /\ At(n + l, n).time = t /\ At(n + l, n).rollover = b
    <2> DEFINE r == [on |-> TRUE, time |-> t, rollover |-> b]
    <2>1. r.on /\ r.time = t
      OBVIOUS
    <2>2. r.rollover = b
      BY Zenon
    <2>3. QED
      BY <1>4, <2>1, <2>2, Zenon
  <1>7. DueIn(At(n + l, n), n, l)
    <2>1. CASE n + l < Wrap
      <3>1. t = n + l /\ ~b
        BY <1>2, <1>3, <2>1, Zenon
      <3>2. QED
        BY <1>6, <2>1, <3>1, Zenon DEF DueIn
    <2>2. CASE ~(n + l < Wrap)
      <3>1. t = n + l - Wrap /\ b
        BY <1>2, <1>3, <2>2, Zenon
      <3>2. QED
        BY <1>6, <2>2, <3>1, Zenon DEF DueIn
    <2>3. QED
      BY <2>1, <2>2, Zenon
  <1>8. QED
    BY <1>5, <1>6, <1>7, Zenon

(* The counter's next value. *)
LEMMA NowIs ==
    ASSUME TickTypeOK
    PROVE  now = (IF _alt_nticks = Wrap - 1 THEN 0 ELSE _alt_nticks + 1)
  <1>1. Wrap \in Nat \ {0}
    BY AltTickAssumption, Zenon
  <1>2. _alt_nticks \in 0..(Wrap - 1)
    BY Zenon DEF TickTypeOK
  <1>3. QED
    BY <1>1, <1>2, WrapOnce DEF now

(* The comparison in alt_tick finds exactly the alarms that have one tick    *)
(* left.                                                                    *)
LEMMA DueIsOne ==
    ASSUME TickInv, NEW a \in Alarms, alarm[a].on
    PROVE  /\ Due(a) <=> left[a] = 1
           /\ left[a] = 1 => alarm[a].time = now
  <1>1. Wrap \in Nat \ {0}
    BY AltTickAssumption, Zenon
  <1>2. _alt_nticks \in 0..(Wrap - 1)
    BY Zenon DEF TickInv, TickTypeOK
  <1>3. DueIn(alarm[a], _alt_nticks, left[a])
    BY Zenon DEF TickInv
  <1>4. now = (IF _alt_nticks = Wrap - 1 THEN 0 ELSE _alt_nticks + 1)
    BY NowIs DEF TickInv
  <1>5. QED
    BY <1>1, <1>2, <1>3, <1>4 DEF Due, Rolled, DueIn

(* A tick brings an alarm that is not due one tick closer. *)
LEMMA CloserByOne ==
    ASSUME TickInv, NEW a \in Alarms, ~Due(a)
    PROVE  LET r == [alarm[a] EXCEPT !.rollover = Rolled(a)]
           IN  /\ r \in AlarmRecord
               /\ r.on => DueIn(r, now, left[a] - 1)
  <1> DEFINE r == [alarm[a] EXCEPT !.rollover = Rolled(a)]
  <1>1. Wrap \in Nat \ {0}
    BY AltTickAssumption, Zenon
  <1>2. _alt_nticks \in 0..(Wrap - 1) /\ alarm[a] \in AlarmRecord
    BY Zenon DEF TickInv, TickTypeOK
  <1>3. now = (IF _alt_nticks = Wrap - 1 THEN 0 ELSE _alt_nticks + 1)
    BY NowIs DEF TickInv
  <1>4. r.on = alarm[a].on /\ r.time = alarm[a].time /\ r.rollover = Rolled(a)
    BY <1>2 DEF AlarmRecord
  <1>5. Rolled(a) \in BOOLEAN
    BY <1>2 DEF AlarmRecord, Rolled
  <1>6. r \in AlarmRecord
    BY <1>2, <1>5 DEF AlarmRecord
  <1>7. ASSUME alarm[a].on
        PROVE  DueIn(r, now, left[a] - 1)
    <2>1. DueIn(alarm[a], _alt_nticks, left[a]) /\ left[a] # 1
      BY <1>7, DueIsOne DEF TickInv
    <2>2. left[a] \in 2..(Wrap - 1)
      BY <1>1, <2>1 DEF DueIn
    <2>3. CASE _alt_nticks = Wrap - 1
      <3>1. alarm[a].time = left[a] - 1 /\ now = 0 /\ ~Rolled(a)
        BY <1>1, <1>2, <1>3, <2>1, <2>2, <2>3 DEF DueIn, Rolled
      <3>2. QED
        BY <1>1, <1>4, <2>2, <3>1 DEF DueIn
    <2>4. CASE _alt_nticks # Wrap - 1
      <3>1. now = _alt_nticks + 1 /\ now # 0 /\ now + (left[a] - 1) = _alt_nticks + left[a]
        BY <1>1, <1>2, <1>3, <2>2, <2>4
      <3>2. Rolled(a) = alarm[a].rollover
        BY <3>1, <1>2 DEF Rolled, AlarmRecord
      <3>3. left[a] - 1 \in 1..(Wrap - 1)
        BY <1>1, <2>2
      <3>4. CASE _alt_nticks + left[a] < Wrap
        <4>1. r.time = now + (left[a] - 1) /\ ~r.rollover
          BY <1>4, <2>1, <3>1, <3>2, <3>4, Zenon DEF DueIn
        <4>2. now + (left[a] - 1) < Wrap
          BY <3>1, <3>4
        <4>3. QED
          BY <3>3, <4>1, <4>2, Zenon DEF DueIn
      <3>5. CASE ~(_alt_nticks + left[a] < Wrap)
        <4>1. alarm[a].time = _alt_nticks + left[a] - Wrap /\ alarm[a].rollover
          BY <2>1, <3>5, Zenon DEF DueIn
        <4>2. ~(now + (left[a] - 1) < Wrap)
          BY <3>1, <3>5
        <4>3. r.time = now + (left[a] - 1) - Wrap
          <5>1. _alt_nticks + left[a] - Wrap = now + (left[a] - 1) - Wrap
            BY <1>1, <1>2, <2>2, <3>1
          <5>2. QED
            BY <1>4, <4>1, <5>1, Zenon
        <4>4. r.rollover
          BY <1>4, <3>2, <4>1, Zenon
        <4>5. QED
          BY <3>3, <4>2, <4>3, <4>4, Zenon DEF DueIn
      <3>6. QED
        BY <3>4, <3>5
    <2>5. QED
      BY <2>3, <2>4
  <1>8. QED
    BY <1>4, <1>6, <1>7

(* alt_tick: the due alarms are set again or put off, the others come one    *)
(* tick closer.                                                             *)
LEMMA TickKeeps ==
    ASSUME TickInv, alt_tick
    PROVE  TickInv'
  <1> PICK next_callback \in [Alarms -> Periods \cup {0}] :
        /\ alarm' = [a \in Alarms |->
              IF ~Due(a) THEN [alarm[a] EXCEPT !.rollover = Rolled(a)]
              ELSE IF next_callback[a] = 0 THEN Off
              ELSE At(alarm[a].time + next_callback[a], now)]
        /\ left' = [a \in Alarms |-> IF Due(a) THEN next_callback[a]
                                     ELSE IF left[a] > 0 THEN left[a] - 1 ELSE 0]
    BY Zenon DEF alt_tick
  <1>1. Wrap \in Nat \ {0}
    BY AltTickAssumption, Zenon
  <1>2. _alt_nticks \in 0..(Wrap - 1)
    BY Zenon DEF TickInv, TickTypeOK
  <1>3. _alt_nticks' = now /\ now \in 0..(Wrap - 1)
    BY <1>1, <1>2, NowIs DEF TickInv, alt_tick
  <1>4. ASSUME NEW a \in Alarms
        PROVE  /\ alarm'[a] \in AlarmRecord /\ left'[a] \in 0..(Wrap - 1)
               /\ alarm'[a].on => DueIn(alarm'[a], now, left'[a])
    <2>1. left[a] \in 0..(Wrap - 1)
      BY Zenon DEF TickInv, TickTypeOK
    <2>2. CASE ~Due(a)
      <3>1. alarm'[a] = [alarm[a] EXCEPT !.rollover = Rolled(a)]
        BY <2>2, Zenon
      <3>2. left'[a] = IF left[a] > 0 THEN left[a] - 1 ELSE 0
        BY <2>2, Zenon
      <3>3. left'[a] \in 0..(Wrap - 1)
        BY <1>1, <2>1, <3>2
      <3>4. alarm'[a] \in AlarmRecord /\ (alarm'[a].on => DueIn(alarm'[a], now, left[a] - 1))
        BY <2>2, <3>1, CloserByOne
      <3>5. DueIn(alarm'[a], now, left[a] - 1) => left'[a] = left[a] - 1
        BY <1>1, <2>1, <3>2 DEF DueIn
      <3>6. QED
        BY <3>3, <3>4, <3>5
    <2>3. CASE Due(a) /\ next_callback[a] = 0
      <3>1. alarm'[a] = Off /\ left'[a] = 0
        BY <2>3, Zenon
      <3>2. Off \in AlarmRecord /\ ~Off.on /\ 0 \in 0..(Wrap - 1)
        BY <1>1 DEF Off, AlarmRecord
      <3>3. QED
        BY <3>1, <3>2, Zenon
    <2>4. CASE Due(a) /\ next_callback[a] # 0
      <3>1. alarm'[a] = At(alarm[a].time + next_callback[a], now) /\ left'[a] = next_callback[a]
        BY <2>4, Zenon
      <3>2. next_callback[a] \in Periods
        BY <2>4, Zenon
      <3>3. next_callback[a] \in 1..(Wrap - 2)
        BY <3>2, AltTickAssumption, Zenon
      <3>4. next_callback[a] \in 1..(Wrap - 1)
        BY <1>1, <3>3
      <3>5. alarm[a].on
        BY <2>4 DEF Due
      <3>6. alarm[a].time = now
        BY <2>4, <3>5, DueIsOne
      <3>7. QED
        BY <1>1, <1>3, <3>1, <3>4, <3>6, AtDueIn
    <2>5. QED
      BY <2>2, <2>3, <2>4
  <1>5. alarm' \in [Alarms -> AlarmRecord] /\ left' \in [Alarms -> 0..(Wrap - 1)]
    <2>1. alarm' = [a \in Alarms |-> alarm'[a]] /\ left' = [a \in Alarms |-> left'[a]]
      BY Zenon
    <2>2. QED
      BY <1>4, <2>1, Zenon
  <1>6. QED
    BY <1>3, <1>4, <1>5, Zenon DEF TickInv, TickTypeOK, AlarmRecord

(* The counter is at 0 and no alarm is set. *)
LEMMA TickStart == TickInit => TickInv
  <1>1. Wrap \in Nat \ {0}
    BY AltTickAssumption, Zenon
  <1>2. QED
    BY <1>1 DEF TickInit, TickInv, TickTypeOK, AlarmRecord, Off

(* One step per operation of the clock. *)
LEMMA TickStep ==
    ASSUME TickInv, TickNext
    PROVE  TickInv'
  <1>1. Wrap \in Nat \ {0}
    BY AltTickAssumption, Zenon
  <1>2. CASE alt_avalon_timer_sc_irq
    BY <1>2, TickKeeps DEF alt_avalon_timer_sc_irq
  <1>3. CASE timer_initial
    BY <1>3 DEF timer_initial, TickInv, TickTypeOK, DueIn
  <1>4. ASSUME NEW a \in Alarms, alt_alarm_stop(a)
        PROVE  TickInv'
    <2>1. alarm' = [alarm EXCEPT ![a] = Off] /\ left' = [left EXCEPT ![a] = 0]
          /\ _alt_nticks' = _alt_nticks
      BY <1>4 DEF alt_alarm_stop
    <2>2. Off \in AlarmRecord /\ ~Off.on
      BY <1>1 DEF Off, AlarmRecord
    <2>3. TickTypeOK'
      BY <1>1, <2>1, <2>2 DEF TickInv, TickTypeOK, AlarmRecord
    <2>4. ASSUME NEW b \in Alarms, alarm'[b].on
          PROVE  DueIn(alarm'[b], _alt_nticks', left'[b])
      <3>1. b # a
        BY <2>1, <2>2, <2>4 DEF TickInv, TickTypeOK
      <3>2. alarm'[b] = alarm[b] /\ left'[b] = left[b]
        BY <2>1, <3>1 DEF TickInv, TickTypeOK
      <3>3. QED
        BY <2>1, <2>4, <3>2 DEF TickInv
    <2>5. QED
      BY <2>3, <2>4 DEF TickInv, DueIn
  <1>5. ASSUME NEW a \in Alarms, NEW n \in Periods, alt_alarm_start(a, n)
        PROVE  TickInv'
    <2>1. n \in 1..(Wrap - 2)
      BY AltTickAssumption, Zenon
    <2>2. _alt_nticks \in 0..(Wrap - 1)
      BY Zenon DEF TickInv, TickTypeOK
    <2> DEFINE r == At(_alt_nticks + (n + 1), _alt_nticks)
    <2>3. n + 1 \in 1..(Wrap - 1) /\ n + _alt_nticks + 1 = _alt_nticks + (n + 1)
      BY <1>1, <2>1, <2>2
    <2>4. r \in AlarmRecord /\ DueIn(r, _alt_nticks, n + 1)
      BY <2>2, <2>3, AtDueIn
    <2> HIDE DEF r
    <2>5. alarm' = [alarm EXCEPT ![a] = r] /\ left' = [left EXCEPT ![a] = n + 1]
          /\ _alt_nticks' = _alt_nticks
      BY <1>5, <2>3 DEF alt_alarm_start, r
    <2>6. TickTypeOK'
      BY <1>1, <2>3, <2>4, <2>5 DEF TickInv, TickTypeOK, AlarmRecord
    <2>7. ASSUME NEW b \in Alarms, alarm'[b].on
          PROVE  DueIn(alarm'[b], _alt_nticks', left'[b])
      <3>1. CASE b = a
        BY <2>4, <2>5, <3>1 DEF TickInv, TickTypeOK
      <3>2. CASE b # a
        <4>1. alarm'[b] = alarm[b] /\ left'[b] = left[b]
          BY <2>5, <3>2 DEF TickInv, TickTypeOK
        <4>2. QED
          BY <2>5, <2>7, <4>1 DEF TickInv
      <3>3. QED
        BY <3>1, <3>2
    <2>8. QED
      BY <2>6, <2>7 DEF TickInv, DueIn
  <1>6. QED
    BY <1>2, <1>3, <1>4, <1>5 DEF TickNext

(* What the clock does not touch. *)
LEMMA TickStutter == TickInv /\ UNCHANGED tickVars => TickInv'
  BY DEF tickVars, TickInv, TickTypeOK, DueIn, AlarmRecord

-----------------------------------------------------------------------------
(* The descriptors.                                                         *)

Locked(i) == "EXCL" \in flags[i]
Done(i) == dev[i] = Console /\ "DEV" \in flags[i]

(* How far the redirection of the standard streams is. *)
RedirectOK ==
    \/ redirect = <<1, 0, 2>>
    \/ redirect = <<0, 2>> /\ Done(1)
    \/ redirect = <<2>> /\ Done(1) /\ Done(0)
    \/ redirect = <<>> /\ Done(1) /\ Done(0) /\ Done(2)

(* Nothing is locked before main, and the redirection, which opens a further *)
(* descriptor each time, has taken the high water mark past the standard     *)
(* ones by then.                                                             *)
BeforeMain ==
    /\ redirect # <<>> => \A i \in Fd : ~Locked(i)
    /\ redirect # <<1, 0, 2>> => alt_max_fd >= 3

(* A locked descriptor that shares its device lies below the high water      *)
(* mark, where alt_fd_lock looks: the descriptor at the mark can be locked   *)
(* only alone, and no open is granted after that.                            *)
LockBelow ==
    \A i, j \in Open : i # j /\ dev[i] = dev[j] /\ Locked(j) => j < alt_max_fd

FdInv == FdTypeOK /\ RedirectOK /\ BeforeMain /\ LockBelow /\ LockUnique

(* The pool has room for the standard streams and one descriptor more. *)
LEMMA FdConstants ==
    /\ ALT_MAX_FD \in Nat /\ ALT_MAX_FD > 3
    /\ Console \in Devices /\ Null \in Devices /\ NoDev \notin Devices
  BY AltFdAssumption, Zenon

(* A non-empty set of numbers has a least one. *)
LEMMA LeastExists ==
    ASSUME NEW S, S \subseteq Nat, S # {}
    PROVE  \E x \in S : \A y \in S : x <= y
  <1> DEFINE R == OpToRel(<, Nat)
  <1>1. PICK x \in S : \A y \in S : ~(<<y, x>> \in R)
    BY NatLessThanWellFounded, WFMin
  <1>2. R = {ss \in Nat \X Nat : ss[1] < ss[2]}
    BY Zenon DEF OpToRel
  <1> HIDE DEF R
  <1>3. ASSUME NEW y \in S
        PROVE  x <= y
    <2>1. <<y, x>> \notin {ss \in Nat \X Nat : ss[1] < ss[2]}
      BY <1>1, <1>2
    <2>2. QED
      BY <2>1
  <1>4. QED
    BY <1>3

(* alt_get_fd finds a free descriptor, and never a standard one. *)
LEMMA GetFd ==
    ASSUME FdTypeOK, Free # {}
    PROVE  /\ alt_get_fd \in Free /\ alt_get_fd \in Fd /\ alt_get_fd >= 3
           /\ HighWater(alt_get_fd) \in Fd
           /\ HighWater(alt_get_fd) >= alt_get_fd /\ HighWater(alt_get_fd) >= alt_max_fd
  <1>1. Free \subseteq Nat
    BY FdConstants DEF Free, Fd
  <1>2. alt_get_fd \in Free
    BY <1>1, LeastExists DEF alt_get_fd
  <1>3. alt_get_fd \in Fd /\ alt_get_fd \notin Std
    BY <1>2 DEF Free, FdTypeOK, Open
  <1>4. alt_get_fd >= 3
    BY <1>3, FdConstants DEF Fd, Std
  <1>5. alt_max_fd \in -1..(ALT_MAX_FD - 1)
    BY DEF FdTypeOK
  <1>6. QED
    BY <1>2, <1>3, <1>4, <1>5, FdConstants DEF HighWater, Fd

(* What an open that is granted or refused does to the pool. *)
LEMMA OpenStep ==
    ASSUME FdInv, NEW d \in Devices, NEW at \in Fd, NEW new \in SUBSET Flag,
           "EXCL" \notin new, at <= HighWater(alt_get_fd), OpenAs(d, at, new)
    PROVE  /\ dev' \in [Fd -> Devices \cup {NoDev}] /\ flags' \in [Fd -> SUBSET Flag]
           /\ Std \subseteq Open' /\ alt_max_fd' \in Fd /\ alt_max_fd' >= 3
           /\ \A i \in Fd \ Open' : flags'[i] = {}
           /\ \A i \in Open' \ Std : i <= alt_max_fd'
           /\ LockBelow' /\ LockUnique'
  <1>1. dev \in [Fd -> Devices \cup {NoDev}] /\ flags \in [Fd -> SUBSET Flag]
        /\ Std \subseteq Open /\ alt_max_fd \in -1..(ALT_MAX_FD - 1)
    BY DEF FdInv, FdTypeOK
  <1>2. \A i \in Fd \ Open : flags[i] = {}
    BY DEF FdInv, FdTypeOK
  <1>3. \A i \in Open \ Std : i <= alt_max_fd
    BY DEF FdInv, FdTypeOK
  <1> DEFINE hw == HighWater(alt_get_fd)
  <1>4. alt_max_fd' = hw /\ hw \in Fd /\ hw >= 3 /\ hw >= alt_max_fd
    <2>1. Free # {} /\ FdTypeOK /\ alt_max_fd' = hw
      BY Zenon DEF OpenAs, FdInv
    <2>2. QED
      BY <2>1, <1>1, GetFd, FdConstants DEF Fd
  <1>5. \A i \in Open : i \in Fd /\ i <= hw
    BY <1>1, <1>3, <1>4, FdConstants DEF Open, Fd, Std
  <1>6. LockBelow /\ LockUnique
    BY DEF FdInv
  <1> HIDE DEF hw
  <1>7. CASE alt_file_locked(d, hw)
    <2>1. dev' = dev /\ flags' = flags
      BY <1>7 DEF OpenAs, hw
    <2>2. Open' = Open
      BY <2>1 DEF Open
    <2>3. LockBelow'
      <3> SUFFICES ASSUME NEW i \in Open, NEW j \in Open, i # j, dev[i] = dev[j], Locked(j)
                   PROVE  j < hw
        BY <1>4, <2>1, <2>2 DEF LockBelow, Locked
      <3>1. j < alt_max_fd
        BY <1>6 DEF LockBelow
      <3>2. QED
        BY <1>1, <1>4, <1>5, <3>1, FdConstants DEF Fd
    <2>4. LockUnique'
      BY <1>6, <2>1, <2>2 DEF LockUnique
    <2>5. QED
      BY <1>1, <1>2, <1>4, <1>5, <2>1, <2>2, <2>3, <2>4
  <1>8. CASE ~alt_file_locked(d, hw)
    <2>1. dev' = [dev EXCEPT ![at] = d] /\ flags' = [flags EXCEPT ![at] = new]
      BY <1>8 DEF OpenAs, hw
    <2>2. dev' \in [Fd -> Devices \cup {NoDev}] /\ flags' \in [Fd -> SUBSET Flag]
      BY <1>1, <2>1
    <2>3. Open' = Open \cup {at}
      BY <1>1, <2>1, FdConstants DEF Open
    <2>4. \A i \in Fd \ Open' : flags'[i] = {}
      BY <1>1, <1>2, <2>1, <2>3
    <2>5. \A i \in Open' \ Std : i <= alt_max_fd'
      BY <1>4, <1>5, <2>3 DEF hw
    <2>6. ASSUME NEW j \in Open', Locked(j)'
          PROVE  j # at /\ j \in Open /\ dev'[j] = dev[j] /\ Locked(j) /\ dev[j] # d
      <3>1. j # at
        BY <1>1, <2>1, <2>6 DEF Locked
      <3>2. j \in Open /\ j \in Fd /\ j <= hw
        BY <1>5, <2>3, <3>1
      <3>3. dev'[j] = dev[j] /\ Locked(j)
        BY <1>1, <2>1, <2>6, <3>1, <3>2 DEF Locked
      <3>4. dev[j] # d
        BY <1>8, <3>2, <3>3 DEF alt_file_locked, Locked
      <3>5. QED
        BY <3>1, <3>2, <3>3, <3>4
    <2>7. LockBelow'
      <3> SUFFICES ASSUME NEW i \in Open', NEW j \in Open', i # j, dev'[i] = dev'[j], Locked(j)'
                   PROVE  j < alt_max_fd'
        BY DEF LockBelow
      <3>1. j # at /\ j \in Open /\ dev'[j] = dev[j] /\ Locked(j) /\ dev[j] # d
        BY <2>6
      <3>2. i # at
        BY <1>1, <2>1, <3>1
      <3>3. i \in Open /\ dev'[i] = dev[i]
        BY <1>1, <2>1, <2>3, <3>2
      <3>4. j < alt_max_fd
        BY <1>6, <3>1, <3>3 DEF LockBelow
      <3>5. QED
        BY <1>1, <1>4, <1>5, <3>1, <3>4, FdConstants DEF Fd
    <2>8. LockUnique'
      <3> SUFFICES ASSUME NEW i \in Open', NEW j \in Open', dev'[i] = dev'[j],
                          Locked(i)', Locked(j)'
                   PROVE  i = j
        BY DEF LockUnique, Locked
      <3>1. QED
        BY <1>6, <2>6 DEF LockUnique, Locked
    <2>9. QED
      BY <1>1, <1>4, <2>2, <2>3, <2>4, <2>5, <2>7, <2>8
  <1>9. QED
    BY <1>7, <1>8

(* A standard stream is redirected; the console is not locked. *)
LEMMA RedirectStep ==
    ASSUME FdInv, alt_io_redirect
    PROVE  FdInv'
  <1>1. redirect # <<>> /\ OpenAs(Console, redirect[1], {"DEV"}) /\ redirect' = Tail(redirect)
    BY FdConstants DEF alt_io_redirect, alt_find_dev
  <1>2. RedirectOK /\ FdTypeOK /\ (\A i \in Fd : ~Locked(i))
    BY <1>1, Zenon DEF FdInv, BeforeMain
  <1>3. dev \in [Fd -> Devices \cup {NoDev}] /\ flags \in [Fd -> SUBSET Flag]
    BY <1>2, Zenon DEF FdTypeOK
  <1>4. 0 \in Fd /\ 1 \in Fd /\ 2 \in Fd
    BY FdConstants DEF Fd
  <1>5. redirect[1] \in Std /\ redirect[1] \in Fd
    BY <1>1, <1>2, <1>4 DEF RedirectOK, Std
  <1> PICK at \in Fd : at = redirect[1]
    BY <1>5
  <1>6. at <= HighWater(alt_get_fd)
    <2>1. HighWater(alt_get_fd) \in Fd /\ alt_get_fd >= 3 /\ HighWater(alt_get_fd) >= alt_get_fd
          /\ alt_get_fd \in Fd
      BY <1>1, <1>2, GetFd DEF OpenAs
    <2>2. QED
      BY <2>1, <1>5, FdConstants DEF Fd, Std
  <1>7. /\ dev' \in [Fd -> Devices \cup {NoDev}] /\ flags' \in [Fd -> SUBSET Flag]
        /\ Std \subseteq Open' /\ alt_max_fd' \in Fd /\ alt_max_fd' >= 3
        /\ \A i \in Fd \ Open' : flags'[i] = {}
        /\ \A i \in Open' \ Std : i <= alt_max_fd'
        /\ LockBelow' /\ LockUnique'
    <2>1. {"DEV"} \in SUBSET Flag /\ "EXCL" \notin {"DEV"}
      BY DEF Flag
    <2>2. at \in Fd /\ OpenAs(Console, at, {"DEV"})
      BY <1>1, <1>5
    <2>3. QED
      BY <1>6, <2>1, <2>2, OpenStep, FdConstants
  <1>8. dev' = [dev EXCEPT ![at] = Console] /\ flags' = [flags EXCEPT ![at] = {"DEV"}]
    <2>1. ~alt_file_locked(Console, HighWater(alt_get_fd))
      BY <1>2 DEF alt_file_locked, Locked
    <2>2. QED
      BY <1>1, <2>1 DEF OpenAs
  <1>9. Done(at)' /\ (\A i \in Fd : Done(i) => Done(i)') /\ (\A i \in Fd : ~Locked(i)')
    BY <1>2, <1>3, <1>8 DEF Done, Locked
  <1>10. RedirectOK'
    <2>1. CASE redirect = <<1, 0, 2>>
      <3>1. at = 1 /\ redirect' = <<0, 2>>
        BY <1>1, <2>1
      <3>2. QED
        BY <1>9, <3>1, Zenon DEF RedirectOK
    <2>2. CASE redirect = <<0, 2>> /\ Done(1)
      <3>1. at = 0 /\ redirect' = <<2>>
        BY <1>1, <2>2
      <3>2. QED
        BY <1>4, <1>9, <2>2, <3>1, Zenon DEF RedirectOK
    <2>3. CASE redirect = <<2>> /\ Done(1) /\ Done(0)
      <3>1. at = 2 /\ redirect' = <<>>
        BY <1>1, <2>3
      <3>2. QED
        BY <1>4, <1>9, <2>3, <3>1, Zenon DEF RedirectOK
    <2>4. QED
      BY <1>1, <1>2, <2>1, <2>2, <2>3 DEF RedirectOK
  <1>11. BeforeMain'
    BY <1>7, <1>9 DEF BeforeMain
  <1>12. redirect' = <<>> => \A i \in Std : dev'[i] = Console /\ "DEV" \in flags'[i]
    BY <1>10 DEF RedirectOK, Done, Std
  <1>13. alt_max_fd' \in -1..(ALT_MAX_FD - 1)
    BY <1>7, FdConstants DEF Fd
  <1>14. FdTypeOK'
    BY <1>7, <1>12, <1>13 DEF FdTypeOK
  <1>15. QED
    BY <1>7, <1>10, <1>11, <1>14 DEF FdInv

(* After the redirection the invariant rests on the standard streams being   *)
(* the console's and on the mark being above them.                           *)
LEMMA MainFacts ==
    ASSUME FdInv, redirect = <<>>
    PROVE  /\ dev \in [Fd -> Devices \cup {NoDev}] /\ flags \in [Fd -> SUBSET Flag]
           /\ Std \subseteq Open /\ alt_max_fd \in Fd /\ alt_max_fd >= 3
           /\ \A i \in Fd \ Open : flags[i] = {}
           /\ \A i \in Open \ Std : i <= alt_max_fd
           /\ \A i \in Std : Done(i)
           /\ LockBelow /\ LockUnique
  <1>1. redirect # <<1, 0, 2>>
    OBVIOUS
  <1>2. alt_max_fd >= 3
    BY <1>1 DEF FdInv, BeforeMain
  <1>3. alt_max_fd \in Fd
    BY <1>2, FdConstants DEF FdInv, FdTypeOK, Fd
  <1>4. QED
    BY <1>2, <1>3 DEF FdInv, FdTypeOK, Done

(* The same facts after a step of the program are the invariant again. *)
LEMMA MainKeeps ==
    ASSUME redirect' = <<>>,
           dev' \in [Fd -> Devices \cup {NoDev}] /\ flags' \in [Fd -> SUBSET Flag],
           Std \subseteq Open' /\ alt_max_fd' \in Fd /\ alt_max_fd' >= 3,
           \A i \in Fd \ Open' : flags'[i] = {},
           \A i \in Open' \ Std : i <= alt_max_fd',
           \A i \in Std : Done(i)',
           LockBelow' /\ LockUnique'
    PROVE  FdInv'
  <1>1. alt_max_fd' \in -1..(ALT_MAX_FD - 1)
    BY FdConstants DEF Fd
  <1>2. FdTypeOK'
    BY <1>1 DEF FdTypeOK, Done
  <1>3. RedirectOK' /\ BeforeMain'
    BY DEF RedirectOK, BeforeMain, Std
  <1>4. QED
    BY <1>2, <1>3 DEF FdInv

(* open. *)
LEMMA OpenKeeps ==
    ASSUME FdInv, NEW name \in Names, NEW nb \in BOOLEAN, ALT_OPEN(name, nb)
    PROVE  FdInv'
  <1> DEFINE new == {"DEV"} \cup (IF nb THEN {"NONBLOCK"} ELSE {})
  <1>1. redirect = <<>> /\ redirect' = <<>> /\ name \in Devices /\ OpenAs(name, alt_get_fd, new)
    BY FdConstants DEF ALT_OPEN, alt_find_dev, alt_find_file, OpenAs
  <1>2. new \in SUBSET Flag /\ "EXCL" \notin new /\ "DEV" \in new
    BY DEF Flag
  <1> HIDE DEF new
  <1>3. FdTypeOK /\ Free # {}
    BY <1>1 DEF OpenAs, FdInv
  <1>4. alt_get_fd \in Fd /\ alt_get_fd <= HighWater(alt_get_fd) /\ alt_get_fd >= 3
    BY <1>3, GetFd, FdConstants DEF Fd
  <1>5. /\ dev' \in [Fd -> Devices \cup {NoDev}] /\ flags' \in [Fd -> SUBSET Flag]
        /\ Std \subseteq Open' /\ alt_max_fd' \in Fd /\ alt_max_fd' >= 3
        /\ \A i \in Fd \ Open' : flags'[i] = {}
        /\ \A i \in Open' \ Std : i <= alt_max_fd'
        /\ LockBelow' /\ LockUnique'
    BY <1>1, <1>2, <1>4, OpenStep
  <1>6. ASSUME NEW i \in Std
        PROVE  Done(i)'
    <2>1. i # alt_get_fd /\ i \in Fd /\ Done(i)
      BY <1>1, <1>4, MainFacts, FdConstants DEF Std, Fd
    <2>2. dev'[i] = dev[i] /\ flags'[i] = flags[i]
      BY <1>1, <2>1, MainFacts DEF OpenAs
    <2>3. QED
      BY <2>1, <2>2 DEF Done
  <1>7. QED
    BY <1>1, <1>5, <1>6, MainKeeps

(* close: a descriptor less takes no lock's place. *)
LEMMA CloseKeeps ==
    ASSUME FdInv, NEW c \in Fd, ALT_CLOSE(c)
    PROVE  FdInv'
  <1>1. redirect = <<>> /\ redirect' = <<>> /\ alt_max_fd' = alt_max_fd
    BY DEF ALT_CLOSE
  <1>2. CASE c \in Std
    <2>1. dev' = dev /\ flags' = flags
      BY <1>2 DEF ALT_CLOSE, Release
    <2>2. QED
      BY <1>1, <2>1 DEF FdInv, FdTypeOK, RedirectOK, BeforeMain, LockBelow, LockUnique, Locked,
         Done, Open
  <1>3. CASE c \notin Std
    <2>1. dev' = [dev EXCEPT ![c] = NoDev] /\ flags' = [flags EXCEPT ![c] = {}]
      BY <1>3 DEF ALT_CLOSE, Release
    <2>2. dev' \in [Fd -> Devices \cup {NoDev}] /\ flags' \in [Fd -> SUBSET Flag]
      BY <1>1, <2>1, MainFacts
    <2>3. Open' = Open \ {c}
      BY <1>1, <2>1, MainFacts DEF Open
    <2>4. \A i \in Open' : i \in Open /\ dev'[i] = dev[i] /\ flags'[i] = flags[i]
      BY <1>1, <2>1, <2>3, MainFacts DEF Open
    <2>5. \A i \in Fd \ Open' : flags'[i] = {}
      BY <1>1, <2>1, <2>3, MainFacts
    <2>6. Std \subseteq Open' /\ \A i \in Std : Done(i)'
      BY <1>1, <1>3, <2>3, <2>4, MainFacts DEF Done
    <2>7. LockBelow' /\ LockUnique'
      BY <1>1, <2>4, MainFacts DEF LockBelow, LockUnique, Locked
    <2>8. QED
      BY <1>1, <2>2, <2>3, <2>5, <2>6, <2>7, MainFacts, MainKeeps
  <1>4. QED
    BY <1>2, <1>3

(* TIOCEXCL: a lock is granted only where no descriptor that alt_fd_lock     *)
(* looks at has the device, and a lock that it does not see would have to be *)
(* at the mark, which LockBelow excludes.                                    *)
LEMMA LockKeeps ==
    ASSUME FdInv, redirect = <<>>, NEW c \in Open, "DEV" \in flags[c], alt_fd_lock(c),
           UNCHANGED <<dev, alt_max_fd, redirect>>
    PROVE  FdInv'
  <1>1. c \in Fd
    BY DEF Open
  <1>2. CASE Others(c, alt_max_fd) # {}
    <2>1. flags' = flags
      BY <1>2 DEF alt_fd_lock
    <2>2. QED
      BY <2>1 DEF FdInv, FdTypeOK, RedirectOK, BeforeMain, LockBelow, LockUnique, Locked,
         Done, Open
  <1>3. CASE Others(c, alt_max_fd) = {}
    <2>1. flags' = [flags EXCEPT ![c] = @ \cup {"EXCL"}]
      BY <1>3 DEF alt_fd_lock
    <2>2. flags' \in [Fd -> SUBSET Flag]
      BY <1>1, <2>1, MainFacts DEF Flag
    <2>3. Open' = Open /\ dev' = dev
      BY DEF Open
    <2>4. \A i \in Fd : (i # c => flags'[i] = flags[i]) /\ ("DEV" \in flags[i] => "DEV" \in flags'[i])
      BY <1>1, <2>1, MainFacts
    <2>5. \A i \in Fd \ Open' : flags'[i] = {}
      BY <2>3, <2>4, MainFacts
    <2>6. \A i \in Std : Done(i)'
      BY <2>3, <2>4, MainFacts DEF Done, Open
    <2>7. ASSUME NEW j \in Open, j # c, dev[j] = dev[c]
          PROVE  j = alt_max_fd /\ ~Locked(j)
      <3>1. j \in Fd /\ ~(j < alt_max_fd)
        BY <1>3, <2>7 DEF Others, Open
      <3>2. j <= alt_max_fd
        BY <3>1, MainFacts, FdConstants DEF Std, Fd
      <3>3. j = alt_max_fd
        BY <3>1, <3>2, MainFacts, FdConstants DEF Fd
      <3>4. ~Locked(j)
        BY <2>7, <3>1, MainFacts DEF LockBelow
      <3>5. QED
        BY <3>3, <3>4
    <2>8. LockUnique'
      <3> SUFFICES ASSUME NEW i \in Open, NEW j \in Open, dev[i] = dev[j], Locked(i)', Locked(j)'
                   PROVE  i = j
        BY <2>3 DEF LockUnique, Locked
      <3>1. i \in Fd /\ j \in Fd
        BY DEF Open
      <3>2. CASE i # c /\ j # c
        BY <2>4, <3>1, <3>2, MainFacts DEF LockUnique, Locked
      <3>3. CASE i = c
        BY <2>4, <2>7, <3>1, <3>3 DEF Locked
      <3>4. CASE j = c
        BY <2>4, <2>7, <3>1, <3>4 DEF Locked
      <3>5. QED
        BY <3>2, <3>3, <3>4
    <2>9. LockBelow'
      <3> SUFFICES ASSUME NEW i \in Open, NEW j \in Open, i # j, dev[i] = dev[j], Locked(j)'
                   PROVE  j < alt_max_fd
        BY <2>3 DEF LockBelow, Locked
      <3>1. i \in Fd /\ j \in Fd
        BY DEF Open
      <3>2. CASE j = c
        <4>1. i = alt_max_fd
          BY <2>7, <3>2
        <4>2. c <= alt_max_fd
          BY <1>1, MainFacts, FdConstants DEF Std, Fd
        <4>3. QED
          BY <3>1, <3>2, <4>1, <4>2, FdConstants DEF Fd
      <3>3. CASE j # c
        BY <2>4, <3>1, <3>3, MainFacts DEF LockBelow, Locked
      <3>4. QED
        BY <3>2, <3>3
    <2>10. QED
      BY <2>2, <2>3, <2>5, <2>6, <2>8, <2>9, MainFacts, MainKeeps
  <1>4. QED
    BY <1>2, <1>3

(* TIOCNXCL and fcntl add no lock and leave the flag of a device alone. *)
LEMMA FlagsKeep ==
    ASSUME FdInv, redirect = <<>>, NEW c \in Open, NEW new \in SUBSET Flag,
           "EXCL" \in new => Locked(c), "DEV" \in flags[c] => "DEV" \in new,
           flags' = [flags EXCEPT ![c] = new], UNCHANGED <<dev, alt_max_fd, redirect>>
    PROVE  FdInv'
  <1>1. c \in Fd
    BY DEF Open
  <1>2. flags' \in [Fd -> SUBSET Flag] /\ Open' = Open
    BY <1>1, MainFacts DEF Open
  <1>3. \A i \in Fd : /\ Locked(i)' => Locked(i)
                      /\ i # c => flags'[i] = flags[i]
                      /\ "DEV" \in flags[i] => "DEV" \in flags'[i]
    BY <1>1, MainFacts DEF Locked
  <1>4. \A i \in Fd \ Open' : flags'[i] = {}
    BY <1>2, <1>3, MainFacts
  <1>5. \A i \in Std : Done(i)'
    BY <1>2, <1>3, MainFacts DEF Done, Open
  <1>6. \A i \in Open : i \in Fd
    BY DEF Open
  <1>7. LockBelow'
    BY <1>2, <1>3, <1>6, MainFacts DEF LockBelow
  <1>8. LockUnique'
    BY <1>2, <1>3, <1>6, MainFacts DEF LockUnique, Locked
  <1>9. QED
    BY <1>2, <1>4, <1>5, <1>7, <1>8, MainFacts, MainKeeps

(* The standard descriptors are on /dev/null and nothing is locked. *)
LEMMA FdStart == FdInit => FdInv
  <1> SUFFICES ASSUME FdInit
               PROVE  FdInv
    OBVIOUS
  <1>1. Open = Std
    <2>1. Std \subseteq Fd /\ Null # NoDev
      BY FdConstants DEF Fd, Std
    <2>2. \A i \in Fd : dev[i] = IF i \in Std THEN Null ELSE NoDev
      BY DEF FdInit
    <2>3. QED
      BY <2>1, <2>2, Zenon DEF Open
  <1>2. FdTypeOK
    BY <1>1, FdConstants DEF FdInit, FdTypeOK, Std
  <1>3. RedirectOK /\ BeforeMain
    BY DEF FdInit, RedirectOK, BeforeMain, Locked
  <1>4. \A i \in Open : flags[i] = {}
    BY DEF FdInit, Open
  <1>5. LockBelow /\ LockUnique
    BY <1>4 DEF LockBelow, LockUnique, Locked
  <1>6. QED
    BY <1>2, <1>3, <1>5 DEF FdInv

(* One step per call. *)
LEMMA FdStep ==
    ASSUME FdInv, FdNext
    PROVE  FdInv'
  <1>1. CASE alt_io_redirect
    BY <1>1, RedirectStep
  <1>2. ASSUME NEW name \in Names, NEW nb \in BOOLEAN, ALT_OPEN(name, nb)
        PROVE  FdInv'
    BY <1>2, OpenKeeps
  <1>3. ASSUME NEW i \in Fd, ALT_CLOSE(i)
        PROVE  FdInv'
    BY <1>3, CloseKeeps
  <1>4. ASSUME NEW i \in Fd, ALT_IOCTL(i)
        PROVE  FdInv'
    <2>1. redirect = <<>> /\ i \in Open /\ "DEV" \in flags[i] /\ UNCHANGED <<dev, alt_max_fd, redirect>>
      BY <1>4 DEF ALT_IOCTL
    <2>2. CASE alt_fd_lock(i)
      BY <2>1, <2>2, LockKeeps
    <2>3. CASE alt_fd_unlock(i)
      <3> DEFINE new == flags[i] \ {"EXCL"}
      <3>1. new \in SUBSET Flag /\ "EXCL" \notin new /\ ("DEV" \in flags[i] => "DEV" \in new)
        BY <2>1, MainFacts
      <3>2. flags' = [flags EXCEPT ![i] = new]
        BY <2>3 DEF alt_fd_unlock
      <3> HIDE DEF new
      <3>3. QED
        BY <2>1, <3>1, <3>2, FlagsKeep
    <2>4. QED
      BY <1>4, <2>2, <2>3 DEF ALT_IOCTL
  <1>5. ASSUME NEW i \in Fd, NEW nb \in BOOLEAN, ALT_FCNTL(i, nb)
        PROVE  FdInv'
    <2> DEFINE new == (flags[i] \ {"NONBLOCK"}) \cup (IF nb THEN {"NONBLOCK"} ELSE {})
    <2>1. redirect = <<>> /\ i \in Open /\ UNCHANGED <<dev, alt_max_fd, redirect>>
          /\ flags' = [flags EXCEPT ![i] = new]
      BY <1>5 DEF ALT_FCNTL
    <2>2. flags[i] \in SUBSET Flag
      BY <2>1, MainFacts
    <2>3. new \in SUBSET Flag /\ ("EXCL" \in new => Locked(i)) /\ ("DEV" \in flags[i] => "DEV" \in new)
      BY <2>2 DEF Locked, Flag
    <2> HIDE DEF new
    <2>4. QED
      BY <2>1, <2>3, FlagsKeep
  <1>6. QED
    BY <1>1, <1>2, <1>3, <1>4, <1>5 DEF FdNext

(* What the clock leaves alone. *)
LEMMA FdStutter == FdInv /\ UNCHANGED fdVars => FdInv'
  BY DEF fdVars, FdInv, FdTypeOK, RedirectOK, BeforeMain, LockBelow, LockUnique, Locked, Done, Open

-----------------------------------------------------------------------------
(* Both parts of the invariant hold in every state. *)
LEMMA Inductive == HalSpec => [](FdInv /\ TickInv)
  <1>1. HalInit => FdInv /\ TickInv
    BY FdStart, TickStart DEF HalInit
  <1>2. FdInv /\ TickInv /\ [HalNext]_halVars => FdInv' /\ TickInv'
    <2> SUFFICES ASSUME FdInv, TickInv, [HalNext]_halVars
                 PROVE  FdInv' /\ TickInv'
      OBVIOUS
    <2>1. CASE FdNext /\ UNCHANGED tickVars
      BY <2>1, FdStep, TickStutter
    <2>2. CASE TickNext /\ UNCHANGED fdVars
      BY <2>2, TickStep, FdStutter
    <2>3. CASE UNCHANGED halVars
      <3>1. UNCHANGED fdVars /\ UNCHANGED tickVars
        BY <2>3 DEF halVars
      <3>2. QED
        BY <3>1, FdStutter, TickStutter
    <2>4. QED
      BY <2>1, <2>2, <2>3 DEF HalNext
  <1>3. QED
    BY <1>1, <1>2, PTL DEF HalSpec

(* The pool stays consistent for any number of descriptors and devices: the  *)
(* standard streams always have a device and are the console's once they are *)
(* redirected, a free descriptor has no flags and none in use lies above     *)
(* alt_max_fd.                                                               *)
THEOREM PoolConsistent == HalSpec => []FdTypeOK
  <1>1. FdInv => FdTypeOK
    BY DEF FdInv
  <1>2. QED
    BY <1>1, Inductive, PTL

(* alt_fd_lock grants one lock for a device although its search stops before *)
(* the highest descriptor.                                                   *)
THEOREM OneLock == HalSpec => []LockUnique
  <1>1. FdInv => LockUnique
    BY DEF FdInv
  <1>2. QED
    BY <1>1, Inductive, PTL

(* alt_file_locked, which looks as far as the mark, sees every lock: a       *)
(* locked device gains no descriptor by any call.                            *)
THEOREM RefusedWhileLocked == HalSpec => LockedRefused
  <1> DEFINE Refused == \A d \in Devices :
                 (\E i \in Open : dev[i] = d /\ "EXCL" \in flags[i]) =>
                     {i \in Fd : dev'[i] = d} \subseteq {i \in Fd : dev[i] = d}
  <1>1. ASSUME FdInv, [HalNext]_halVars
        PROVE  [Refused]_fdVars
    <2> SUFFICES ASSUME NEW d \in Devices, NEW l \in Open, dev[l] = d, Locked(l),
                        NEW i \in Fd, dev'[i] = d, dev[i] # d
                 PROVE  FALSE
      BY DEF Locked
    <2>1. dev' # dev
      OBVIOUS
    <2>2. redirect = <<>>
      BY <1>1 DEF FdInv, BeforeMain, Open
    <2>3. PICK name \in Names, nb \in BOOLEAN : ALT_OPEN(name, nb)
      <3>1. FdNext
        BY <1>1, <2>1 DEF HalNext, halVars, fdVars
      <3>2. ~alt_io_redirect
        BY <2>2 DEF alt_io_redirect
      <3>3. \A j \in Fd, nb \in BOOLEAN : ~ALT_IOCTL(j) /\ ~ALT_FCNTL(j, nb)
        BY <2>1 DEF ALT_IOCTL, ALT_FCNTL
      <3>4. ASSUME NEW j \in Fd, ALT_CLOSE(j)
            PROVE  FALSE
        <4>1. dev' = [dev EXCEPT ![j] = NoDev]
          BY <2>1, <3>4 DEF ALT_CLOSE, Release
        <4>2. dev'[i] = NoDev \/ dev'[i] = dev[i]
          BY <4>1, <1>1, <2>2, MainFacts
        <4>3. QED
          BY <4>2, FdConstants
      <3>5. QED
        BY <3>1, <3>2, <3>3, <3>4 DEF FdNext
    <2>4. \E new : OpenAs(name, alt_get_fd, new)
      BY <2>3 DEF ALT_OPEN, alt_find_dev, alt_find_file, OpenAs
    <2>5. FdTypeOK /\ Free # {}
      BY <1>1, <2>4 DEF OpenAs, FdInv
    <2>6. ~alt_file_locked(name, HighWater(alt_get_fd)) /\ dev' = [dev EXCEPT ![alt_get_fd] = name]
      BY <2>1, <2>4 DEF OpenAs
    <2>7. name = d
      BY <1>1, <2>2, <2>6, MainFacts
    <2>8. l \in Fd /\ l <= HighWater(alt_get_fd)
      <3>1. l \in Fd /\ l <= alt_max_fd /\ alt_max_fd \in Fd
        BY <1>1, <2>2, MainFacts, FdConstants DEF Open, Std, Fd
      <3>2. QED
        BY <2>5, <3>1, GetFd, FdConstants DEF Fd
    <2>9. QED
      BY <2>6, <2>7, <2>8 DEF alt_file_locked, Locked
  <1>2. FdInv /\ [HalNext]_halVars => [Refused]_fdVars
    BY <1>1
  <1>3. QED
    BY <1>2, Inductive, PTL DEF HalSpec, LockedRefused

(* An alarm is called at its tick for any width of the counter, wherever it  *)
(* rolls over: the flag that alt_alarm_start and alt_tick keep is enough.    *)
THEOREM AlarmsOnTime == HalSpec => []OnTime
  <1>1. TickInv => OnTime
    BY DueIsOne DEF OnTime
  <1>2. QED
    BY <1>1, Inductive, PTL

-----------------------------------------------------------------------------
(* The flash driver and the chip.  The driver never reads back whether a    *)
(* command was taken, so everything hangs on the sequence: the invariant    *)
(* gives, for each point of a driver call, the commands still to send and   *)
(* the latches of the chip, and between the calls what has been done of the *)
(* request.                                                                 *)

(* Bytes of a packet. *)
Packet == 256

(* The device the calls go to, and the address bytes that it is sent. *)
fd == alt_flash_open_dev(devs)
Four == fd.four_bytes_mode
Found == devs # {}

(* What a watched byte becomes when the write in progress ends. *)
Soon(c) == IF busy # <<>> /\ c \in DOMAIN busy[1] THEN busy[1][c] ELSE mem[c]

Quiet == busy = <<>> /\ ~wel /\ select = <<>>
Armed == busy = <<>> /\ wel /\ select = <<>>
InMode == mode4 = Four

(* The byte a probe of the packet goes to; the bytes written and the blocks *)
(* erased so far.                                                           *)
Place(o) == (req.addr + o) % board.size
InChip == Found /\ req.addr < board.size
WrittenTo(n) == InChip => \A o \in Probes : o < n => <<req.data, o>> \in Soon(Place(o))
ErasedTo(i) == Found => \A c \in Watch : c < board.size /\ c < i * EPCS_BLOCK_SIZE => Soon(c) = {}
SoFar ==
    /\ req.op = "write" => WrittenTo(Packet - loop.len)
    /\ req.op = "erase" => ErasedTo(loop.at)

(* What the driver call has still to send, from the end.  *)
Leave(four) == IF four THEN epcs_exit_4_bytes_mode ELSE <<>>
Wait(four) == epcs_await_wip_released \o Leave(four)
SeFrom(at, four) == <<Addressed("se", at, 0, 0, four)>> \o Wait(four)
EraseFrom(at, four) == epcs_write_enable \o SeFrom(at, four)
ReadFrom(at, four) == <<Addressed("read", at, Packet, 0, four)>> \o Leave(four)
PollFrom(at, four) == epcs_await_wip_released \o ReadFrom(at, four)
DataFrom(at, n, f, four) == <<Addressed("data", at, n, f, four)>> \o Wait(four)
PpFrom(at, n, f, four) == <<Addressed("pp", at, n, f, four)>> \o DataFrom(at, n, f, four)
PageFrom(at, n, f, four) == epcs_write_enable \o PpFrom(at, n, f, four)
Entering(s) == epcs_write_enable \o (<<Bare("en4b")>> \o s)

(* The call has not sent its own commands yet. *)
Unsent(s) ==
    \/ Four /\ script = Entering(s) /\ Quiet /\ ~mode4
    \/ Four /\ script = <<Bare("en4b")>> \o s /\ Armed /\ ~mode4
    \/ script = s /\ Quiet /\ InMode

DataNext(at, n, f, four) ==
    /\ script = DataFrom(at, n, f, four) /\ InMode
    /\ busy = <<>> /\ wel /\ select = <<Addressed("pp", at, n, f, four)>>
PagingAt(at, n, f, four) ==
    /\ n > 0 /\ (at % page_size) + n <= page_size /\ WrittenTo(f)
    /\ \/ Unsent(PageFrom(at, n, f, four))
       \/ script = PpFrom(at, n, f, four) /\ Armed /\ InMode
       \/ DataNext(at, n, f, four)

Paging ==
    /\ req.op = "write" /\ InChip /\ reads
    /\ \E f \in 0..(Packet - 1) : PagingAt(req.addr + f, Packet - loop.len - f, f, Four)

SectorNext(at, four) == script = SeFrom(at, four) /\ Armed /\ InMode
ErasingAt(at, four) == Unsent(EraseFrom(at, four)) \/ SectorNext(at, four)
Erasing ==
    /\ req.op = "erase" /\ Found /\ loop.at > 0 /\ ErasedTo(loop.at - 1)
    /\ BlockAt(loop.at - 1) < board.size /\ ErasingAt(BlockAt(loop.at - 1), Four)

(* A program only adds to a byte, an erase leaves nothing. *)
Waiting ==
    /\ script = Wait(Four) /\ select = <<>> /\ InMode /\ SoFar
    /\ busy = <<>> => ~wel
    /\ busy # <<>> => wel /\ \A c \in DOMAIN busy[1] :
          IF req.op = "erase" THEN busy[1][c] = {} ELSE mem[c] \subseteq busy[1][c]
    /\ req.op = "erase" \/ (req.op = "write" /\ reads)

Reading ==
    /\ req.op \in {"write", "read"} /\ ~reads /\ loop.len = 0 /\ SoFar /\ InChip
    /\ Unsent(PollFrom(req.addr, Four)) \/ (script = ReadFrom(req.addr, Four) /\ Quiet /\ InMode)

ReadBack ==
    req.op # "erase" /\ ~reads /\ InChip => \A j \in Probes : image[j] = mem[Place(j)]

Leaving ==
    /\ Four /\ SoFar /\ ReadBack /\ mode4
    /\ \/ script = epcs_exit_4_bytes_mode /\ Quiet
       \/ script = <<Bare("dis4b")>> /\ Armed

Between == script = <<>> /\ Quiet /\ ~mode4 /\ SoFar /\ ReadBack

Handling == Between \/ (Found /\ (Paging \/ Erasing \/ Waiting \/ Reading \/ Leaving))

Request ==
    \/ /\ req.op = "write" /\ req.addr \in Addresses /\ loop.len \in 0..Packet /\ loop.at \in Nat
       /\ loop.len > 0 => reads /\ InChip /\ loop.at = req.addr + (Packet - loop.len)
    \/ req.op = "read" /\ req.addr \in Addresses /\ loop = Nothing
    \/ /\ req.op = "erase" /\ loop.at \in Nat /\ loop.len \in Nat /\ ~reads
       /\ req.count = loop.at + loop.len

ChipTypeOK ==
    /\ board \in Boards /\ DOMAIN mem = Watch
    /\ wel \in BOOLEAN /\ mode4 \in BOOLEAN /\ reads \in BOOLEAN /\ slow \in Nat
    /\ busy = <<>> \/ (busy = <<busy[1]>> /\ DOMAIN busy[1] \subseteq Watch)
    /\ devs \in {{}, alt_epcs_flash_query(board)}

FlashInv ==
    /\ ChipTypeOK
    /\ power = "run" =>
         IF req = Idle THEN script = <<>> /\ Quiet /\ ~mode4 ELSE Handling /\ Request
    /\ power = "run" /\ req # Idle /\ slow > 0 => req.op = "erase" /\ Soon(0) = {}
    /\ power = "copier" => devs = {} /\ select = <<>> /\ (wel /\ busy = <<>> => mem[0] = {})
    /\ power = "off" => Quiet /\ ~mode4
    /\ power # "run" => req = Idle /\ script = <<>> /\ devs = {}
    /\ answer # Idle => power = "run" /\ req = Idle
    /\ Confirmed

-----------------------------------------------------------------------------
(* The driver calls as sequences.                                           *)

Op == {"wren", "poll", "en4b", "dis4b", "se", "pp", "data", "read"}
Command == [op : Op] \cup [op : Op, at : Int, len : Int, from : Int, bytes : {3, 4}]

LEMMA Cons ==
    ASSUME NEW S, NEW c \in S, NEW s \in Seq(S)
    PROVE  /\ <<c>> \o s \in Seq(S) /\ <<c>> \o s # <<>>
           /\ Head(<<c>> \o s) = c /\ Tail(<<c>> \o s) = s
  <1> DEFINE t == <<c>> \o s
  <1>1. <<c>> \in Seq(S) /\ Len(<<c>>) = 1 /\ <<c>>[1] = c
    OBVIOUS
  <1>2. /\ t \in Seq(S) /\ Len(t) = Len(<<c>>) + Len(s)
        /\ \A i \in 1..(Len(<<c>>) + Len(s)) :
              t[i] = IF i <= Len(<<c>>) THEN <<c>>[i] ELSE s[i - Len(<<c>>)]
    BY <1>1, ST!ConcatProperties, Zenon
  <1>3. s \in [1..Len(s) -> S] /\ Len(s) \in Nat
    BY ST!LenProperties, Zenon
  <1> HIDE DEF t
  <1>4. t \in Seq(S) /\ Len(t) = 1 + Len(s) /\ t[1] = c /\ \A i \in 1..Len(s) : t[i + 1] = s[i]
    BY <1>1, <1>2, <1>3
  <1>5. t # <<>> /\ Head(t) = c
    BY <1>3, <1>4
  <1>6. Tail(t) \in Seq(S) /\ Len(Tail(t)) = Len(s) /\ \A i \in 1..Len(Tail(t)) : Tail(t)[i] = t[i + 1]
    <2>1. /\ Tail(t) \in Seq(S) /\ Len(Tail(t)) = Len(t) - 1
          /\ \A i \in 1..Len(Tail(t)) : Tail(t)[i] = t[i + 1]
      BY <1>4, <1>5, ST!HeadTailProperties, Zenon
    <2>2. QED
      BY <1>3, <1>4, <2>1
  <1>7. \A i \in 1..Len(s) : Tail(t)[i] = s[i]
    BY <1>4, <1>6
  <1>8. Tail(t) = s
    BY <1>6, <1>7, ST!SeqEqual, Zenon
  <1>9. QED
    BY <1>4, <1>5, <1>8 DEF t

(* The commands are records, told apart by their names. *)
LEMMA CommandTypes ==
    /\ \A op \in Op : Bare(op) \in Command /\ Bare(op).op = op
    /\ \A op \in Op, at, n, f \in Int : \A four :
          /\ Addressed(op, at, n, f, four) \in Command
          /\ Addressed(op, at, n, f, four).op = op
          /\ Addressed(op, at, n, f, four).at = at
          /\ Addressed(op, at, n, f, four).len = n
          /\ Addressed(op, at, n, f, four).from = f
          /\ Addressed(op, at, n, f, four).bytes = IF four THEN 4 ELSE 3
  BY DEF Bare, Addressed, Command, Op

Begins(s, c, t) == s \in Seq(Command) /\ s # <<>> /\ Head(s) = c /\ Tail(s) = t

LEMMA ConsBegins ==
    ASSUME NEW c \in Command, NEW s \in Seq(Command)
    PROVE  Begins(<<c>> \o s, c, s)
  BY Cons, Zenon DEF Begins

LEMMA LeaveShape ==
    /\ Leave(FALSE) = <<>>
    /\ Leave(TRUE) = epcs_exit_4_bytes_mode
    /\ Begins(epcs_exit_4_bytes_mode, Bare("wren"), <<Bare("dis4b")>>)
    /\ Begins(<<Bare("dis4b")>>, Bare("dis4b"), <<>>)
    /\ \A four \in BOOLEAN : Leave(four) \in Seq(Command)
  <1>1. <<>> \in Seq(Command) /\ <<Bare("dis4b")>> \in Seq(Command)
        /\ Bare("wren") \in Command /\ Bare("dis4b") \in Command
    BY DEF Bare, Addressed, Command, Op
  <1>2. Begins(epcs_exit_4_bytes_mode, Bare("wren"), <<Bare("dis4b")>>)
    BY <1>1, ConsBegins, Zenon DEF epcs_exit_4_bytes_mode, epcs_write_enable
  <1>3. <<Bare("dis4b")>> \o <<>> = <<Bare("dis4b")>>
    BY <1>1, ST!ConcatEmptySeq, Zenon
  <1>4. Begins(<<Bare("dis4b")>>, Bare("dis4b"), <<>>)
    BY <1>1, <1>3, ConsBegins, Zenon
  <1>5. Leave(FALSE) = <<>> /\ Leave(TRUE) = epcs_exit_4_bytes_mode
    BY Zenon DEF Leave
  <1>6. ASSUME NEW four \in BOOLEAN PROVE Leave(four) \in Seq(Command)
    BY <1>1, <1>2, <1>5 DEF Begins
  <1>7. QED
    BY <1>2, <1>4, <1>5, <1>6, Zenon

(* A wait, an erase, a read and a page, command by command. *)
LEMMA WaitShape ==
    ASSUME NEW four \in BOOLEAN
    PROVE  Begins(Wait(four), Bare("poll"), Leave(four)) /\ Wait(four) \in Seq(Command)
  <1>1. Bare("poll") \in Command
    BY DEF Bare, Addressed, Command, Op
  <1>2. Begins(Wait(four), Bare("poll"), Leave(four))
    BY <1>1, LeaveShape, ConsBegins, Zenon DEF Wait, epcs_await_wip_released
  <1>3. QED
    BY <1>2, Zenon DEF Begins

LEMMA EraseShape ==
    ASSUME NEW four \in BOOLEAN, NEW at \in Int
    PROVE  /\ Begins(EraseFrom(at, four), Bare("wren"), SeFrom(at, four))
           /\ Begins(SeFrom(at, four), Addressed("se", at, 0, 0, four), Wait(four))
  <1>1. Bare("wren") \in Command /\ Addressed("se", at, 0, 0, four) \in Command
    BY DEF Bare, Addressed, Command, Op
  <1>2. Begins(SeFrom(at, four), Addressed("se", at, 0, 0, four), Wait(four))
    BY <1>1, WaitShape, ConsBegins, Zenon DEF SeFrom
  <1>3. SeFrom(at, four) \in Seq(Command)
    BY <1>2, Zenon DEF Begins
  <1>4. QED
    BY <1>1, <1>2, <1>3, ConsBegins, Zenon DEF EraseFrom, epcs_write_enable

LEMMA ReadShape ==
    ASSUME NEW four \in BOOLEAN, NEW at \in Int
    PROVE  /\ Begins(PollFrom(at, four), Bare("poll"), ReadFrom(at, four))
           /\ Begins(ReadFrom(at, four), Addressed("read", at, Packet, 0, four), Leave(four))
  <1>1. Bare("poll") \in Command /\ Addressed("read", at, Packet, 0, four) \in Command
    BY DEF Bare, Addressed, Command, Op, Packet
  <1>2. Begins(ReadFrom(at, four), Addressed("read", at, Packet, 0, four), Leave(four))
    BY <1>1, LeaveShape, ConsBegins, Zenon DEF ReadFrom
  <1>3. ReadFrom(at, four) \in Seq(Command)
    BY <1>2, Zenon DEF Begins
  <1>4. QED
    BY <1>1, <1>2, <1>3, ConsBegins, Zenon DEF PollFrom, epcs_await_wip_released

LEMMA PageShape ==
    ASSUME NEW four \in BOOLEAN, NEW at \in Int, NEW n \in Int, NEW f \in Int
    PROVE  /\ Begins(PageFrom(at, n, f, four), Bare("wren"), PpFrom(at, n, f, four))
           /\ Begins(PpFrom(at, n, f, four), Addressed("pp", at, n, f, four), DataFrom(at, n, f, four))
           /\ Begins(DataFrom(at, n, f, four), Addressed("data", at, n, f, four), Wait(four))
  <1>1. /\ Bare("wren") \in Command /\ Addressed("pp", at, n, f, four) \in Command
        /\ Addressed("data", at, n, f, four) \in Command
    BY DEF Bare, Addressed, Command, Op
  <1>2. Begins(DataFrom(at, n, f, four), Addressed("data", at, n, f, four), Wait(four))
    BY <1>1, WaitShape, ConsBegins, Zenon DEF DataFrom
  <1>3. DataFrom(at, n, f, four) \in Seq(Command)
    BY <1>2, Zenon DEF Begins
  <1>4. Begins(PpFrom(at, n, f, four), Addressed("pp", at, n, f, four), DataFrom(at, n, f, four))
    BY <1>1, <1>3, ConsBegins, Zenon DEF PpFrom
  <1>5. PpFrom(at, n, f, four) \in Seq(Command)
    BY <1>4, Zenon DEF Begins
  <1>6. QED
    BY <1>1, <1>2, <1>4, <1>5, ConsBegins, Zenon DEF PageFrom, epcs_write_enable

LEMMA EnteringShape ==
    ASSUME NEW s \in Seq(Command)
    PROVE  /\ Begins(Entering(s), Bare("wren"), <<Bare("en4b")>> \o s)
           /\ Begins(<<Bare("en4b")>> \o s, Bare("en4b"), s)
  <1>1. Bare("wren") \in Command /\ Bare("en4b") \in Command
    BY DEF Bare, Addressed, Command, Op
  <1>2. Begins(<<Bare("en4b")>> \o s, Bare("en4b"), s)
    BY <1>1, ConsBegins, Zenon
  <1>3. <<Bare("en4b")>> \o s \in Seq(Command)
    BY <1>2, Zenon DEF Begins
  <1>4. QED
    BY <1>1, <1>2, <1>3, ConsBegins, Zenon DEF Entering, epcs_write_enable

(* The calls of the driver send these sequences, in four byte mode between   *)
(* its two switches.                                                        *)
Around(four, s) == IF four THEN Entering(s) ELSE s

LEMMA CatTyped ==
    ASSUME NEW a \in Seq(Command), NEW b \in Seq(Command)
    PROVE  a \o b \in Seq(Command)
  BY ST!ConcatProperties, Zenon

(* The regroupings of three and of four sequences. *)
Regroup3(a, b, c) == (a \o b) \o c = a \o (b \o c)
Regroup4(a, b, c, d) == ((a \o b) \o c) \o d = a \o (b \o (c \o d))

LEMMA Assoc3 ==
    ASSUME NEW a \in Seq(Command), NEW b \in Seq(Command), NEW c \in Seq(Command)
    PROVE  Regroup3(a, b, c)
  BY ST!ConcatAssociative DEF Regroup3

LEMMA Assoc4 ==
    ASSUME NEW a \in Seq(Command), NEW b \in Seq(Command), NEW c \in Seq(Command), NEW d \in Seq(Command)
    PROVE  Regroup4(a, b, c, d)
  <1>1. a \o b \in Seq(Command) /\ c \o d \in Seq(Command)
    BY CatTyped, Zenon
  <1>2. Regroup3(a \o b, c, d) /\ Regroup3(a, b, c \o d)
    BY <1>1, Assoc3, Zenon
  <1>3. QED
    BY <1>2, Zenon DEF Regroup3, Regroup4

LEMMA CommandSeqs ==
    /\ epcs_write_enable \in Seq(Command) /\ epcs_await_wip_released \in Seq(Command)
    /\ <<Bare("en4b")>> \in Seq(Command) /\ <<>> \in Seq(Command)
  BY DEF epcs_write_enable, epcs_await_wip_released, Bare, Command, Op

LEMMA ModeShape ==
    ASSUME NEW four \in BOOLEAN, NEW s \in Seq(Command)
    PROVE  In4Bytes(four, s) = Around(four, s \o Leave(four))
  <1>1. CASE four
    <2>1. Leave(four) \in Seq(Command) /\ Leave(four) = epcs_exit_4_bytes_mode
      BY <1>1, LeaveShape, Zenon DEF Leave
    <2>2. In4Bytes(four, s) = ((epcs_write_enable \o <<Bare("en4b")>>) \o s) \o Leave(four)
      BY <1>1, <2>1, Zenon DEF In4Bytes, epcs_enter_4_bytes_mode
    <2> DEFINE en4b == <<Bare("en4b")>>
    <2>3. en4b \in Seq(Command) /\ epcs_write_enable \in Seq(Command)
      BY CommandSeqs, Zenon
    <2> HIDE DEF en4b
    <2>4. Regroup4(epcs_write_enable, en4b, s, Leave(four))
      BY <2>1, <2>3, Assoc4, Zenon
    <2>5. QED
      BY <1>1, <2>2, <2>4, Zenon DEF Around, Entering, en4b, Regroup4
  <1>2. CASE ~four
    <2>1. s \o <<>> = s
      BY ST!ConcatEmptySeq, Zenon
    <2>2. QED
      BY <1>2, <2>1, Zenon DEF In4Bytes, Around, Leave
  <1>3. QED
    BY <1>1, <1>2, Zenon

LEMMA EraseCall ==
    ASSUME NEW four \in BOOLEAN, NEW at \in Int
    PROVE  epcs_sector_erase(at, four) = Around(four, EraseFrom(at, four))
  <1> DEFINE se == <<Addressed("se", at, 0, 0, four)>>
             s == (epcs_write_enable \o se) \o epcs_await_wip_released
  <1>1. se \in Seq(Command) /\ Leave(four) \in Seq(Command)
    <2>1. se \in Seq(Command)
      BY DEF Addressed, Command, Op
    <2>2. QED
      BY <2>1, LeaveShape, Zenon
  <1>2. s \in Seq(Command) /\ s \o Leave(four) = EraseFrom(at, four)
    <2> HIDE DEF se
    <2>1. s \in Seq(Command)
      BY <1>1, CommandSeqs, CatTyped, Zenon
    <2>2. Regroup4(epcs_write_enable, se, epcs_await_wip_released, Leave(four))
      BY <1>1, CommandSeqs, Assoc4, Zenon
    <2>3. QED
      BY <2>1, <2>2, Zenon DEF EraseFrom, SeFrom, Wait, se, Regroup4
  <1>3. epcs_sector_erase(at, four) = In4Bytes(four, s)
    BY Zenon DEF epcs_sector_erase
  <1> HIDE DEF s
  <1>4. QED
    BY <1>2, <1>3, ModeShape, Zenon

LEMMA ReadCall ==
    ASSUME NEW four \in BOOLEAN, NEW at \in Int
    PROVE  epcs_read_buffer(at, Packet, four) = Around(four, PollFrom(at, four))
  <1> DEFINE rd == <<Addressed("read", at, Packet, 0, four)>>
             s == epcs_await_wip_released \o rd
  <1>1. rd \in Seq(Command) /\ Leave(four) \in Seq(Command)
    <2>1. rd \in Seq(Command)
      BY DEF Addressed, Command, Op, Packet
    <2>2. QED
      BY <2>1, LeaveShape, Zenon
  <1>2. s \in Seq(Command) /\ s \o Leave(four) = PollFrom(at, four)
    <2> HIDE DEF rd
    <2>1. s \in Seq(Command)
      BY <1>1, CommandSeqs, CatTyped, Zenon
    <2>2. Regroup3(epcs_await_wip_released, rd, Leave(four))
      BY <1>1, CommandSeqs, Assoc3, Zenon
    <2>3. QED
      BY <2>1, <2>2, Zenon DEF PollFrom, ReadFrom, rd, Regroup3
  <1>3. epcs_read_buffer(at, Packet, four) = In4Bytes(four, s)
    BY Zenon DEF epcs_read_buffer
  <1> HIDE DEF s
  <1>4. QED
    BY <1>2, <1>3, ModeShape, Zenon

LEMMA PageCall ==
    ASSUME NEW four \in BOOLEAN, NEW at \in Int, NEW n \in Int, NEW f \in Int
    PROVE  epcs_write_buffer(at, n, f, four) = Around(four, PageFrom(at, n, f, four))
  <1> DEFINE pp == <<Addressed("pp", at, n, f, four)>>
             data == <<Addressed("data", at, n, f, four)>>
             two == <<Addressed("pp", at, n, f, four), Addressed("data", at, n, f, four)>>
             s == (epcs_write_enable \o two) \o epcs_await_wip_released
  <1>1. pp \in Seq(Command) /\ data \in Seq(Command) /\ two \in Seq(Command)
    BY DEF Addressed, Command, Op
  <1>2. two = pp \o data
    OBVIOUS
  <1>3. Leave(four) \in Seq(Command) /\ Wait(four) \in Seq(Command)
    BY LeaveShape, WaitShape, Zenon
  <1> HIDE DEF pp, data, two
  <1>4. s \in Seq(Command)
    BY <1>1, CommandSeqs, CatTyped, Zenon
  <1>5. Regroup4(epcs_write_enable, two, epcs_await_wip_released, Leave(four))
    BY <1>1, <1>3, CommandSeqs, Assoc4, Zenon
  <1>6. Regroup3(pp, data, Wait(four))
    BY <1>1, <1>3, Assoc3, Zenon
  <1>7. s \o Leave(four) = PageFrom(at, n, f, four)
    BY <1>2, <1>5, <1>6, Zenon DEF PageFrom, PpFrom, DataFrom, Wait, pp, data, Regroup3, Regroup4
  <1>8. epcs_write_buffer(at, n, f, four) = In4Bytes(four, s)
    BY Zenon DEF epcs_write_buffer, two
  <1> HIDE DEF s
  <1>9. QED
    BY <1>4, <1>7, <1>8, ModeShape, Zenon

-----------------------------------------------------------------------------
(* The chips of the driver's tables.                                        *)

Sizes(c) ==
    /\ c.size \in Nat \ {0} /\ c.size % 256 = 0 /\ c.size <= 1024 * 131072
    /\ c.four_bytes_mode \in BOOLEAN /\ (~c.four_bytes_mode => c.size <= 256 * 256 * 256)
    /\ c # NoFlash

LEMMA TableSizes ==
    ASSUME NEW c \in Signatures \cup DeviceIds \cup Densities
    PROVE  Sizes(c)
  <1>1. c # NoFlash
    BY SMT DEF Signatures, DeviceIds, Densities, Chip, NoFlash
  <1>2. c.size % 256 = 0
    BY SMT DEF Signatures, DeviceIds, Densities, Chip, Mbit
  <1>3. c.size \in Nat \ {0}
    BY SMT DEF Signatures, DeviceIds, Densities, Chip, Mbit
  <1>4. c.size <= 1024 * 131072
    BY SMT DEF Signatures, DeviceIds, Densities, Chip, Mbit
  <1>5. c.four_bytes_mode \in BOOLEAN
    <2>1. ASSUME c \in Signatures \cup DeviceIds PROVE c.four_bytes_mode = FALSE
      BY <2>1, SMT DEF Signatures, DeviceIds, Chip
    <2>2. ASSUME c \in Densities PROVE c.four_bytes_mode = FALSE \/ c.four_bytes_mode = TRUE
      BY <2>2, SMT DEF Densities, Chip
    <2>3. QED
      BY <2>1, <2>2, Zenon
  <1>6. ~c.four_bytes_mode => c.size <= 256 * 256 * 256
    BY SMT DEF Signatures, DeviceIds, Densities, Chip, Mbit
  <1>7. QED
    BY <1>1, <1>2, <1>3, <1>4, <1>5, <1>6, SMT DEF Sizes

LEMMA Queried ==
    ASSUME NEW b \in Boards, NEW c \in alt_epcs_flash_query(b)
    PROVE  c.size = b.size /\ Sizes(c)
  <1>1. c.size = b.size
    BY RemoteUpdateAssumption, SMT
  <1>2. c \in Signatures \cup DeviceIds \cup Densities
    BY SMT DEF alt_epcs_flash_query, Known
  <1>3. QED
    BY <1>1, <1>2, TableSizes, Zenon

-----------------------------------------------------------------------------
(* Arithmetic of pages and sectors.                                         *)

Once(x, s) == (x < s => x % s = x) /\ (x >= s => x % s = x - s)

LEMMA ModOnce ==
    ASSUME NEW s \in Nat \ {0}, NEW x \in Nat, x < 2 * s
    PROVE  Once(x, s)
  BY DEF Once

(* The bytes of a page write stay in their page, past the end of the chip too. *)
PageCut(s, a, f, n, o) ==
    /\ s \in Nat \ {0} /\ s % 256 = 0 /\ a \in 0..(s - 1) /\ f \in 0..255
    /\ n \in 1..256 /\ ((a + f) % 256) + n <= 256
    /\ o \in f..(f + n - 1) /\ o < 256
PageHit(s, a, f, o) ==
    LET at == (a + f) % s
        page == (at \div 256) * 256
    IN  /\ at \in Nat /\ (a + o) % s = at + (o - f)
        /\ (a + o) % s \in page..(page + 255)
        /\ (((a + o) % s) - at) % 256 = o - f

LEMMA InPage ==
    ASSUME NEW s, NEW a, NEW f, NEW n, NEW o, PageCut(s, a, f, n, o)
    PROVE  PageHit(s, a, f, o)
  <1>0. /\ s \in Nat \ {0} /\ s % 256 = 0 /\ a \in 0..(s - 1) /\ f \in 0..255
        /\ n \in 1..256 /\ ((a + f) % 256) + n <= 256
        /\ o \in f..(f + n - 1) /\ o < 256
    BY SMT DEF PageCut
  <1> DEFINE at == (a + f) % s
             to == (a + o) % s
             page == (at \div 256) * 256
  <1>1. s >= 256
    BY <1>0, SMT
  <1>2. at = (IF a + f < s THEN a + f ELSE a + f - s)
    <2>1. a + f \in Nat /\ a + f < 2 * s
      BY <1>0, <1>1, SMT
    <2>2. Once(a + f, s)
      BY <1>0, <2>1, ModOnce, Zenon
    <2>3. QED
      BY <1>0, <2>1, <2>2, SMT DEF Once
  <1>3. to = (IF a + o < s THEN a + o ELSE a + o - s)
    <2>1. a + o \in Nat /\ a + o < 2 * s
      BY <1>0, <1>1, SMT
    <2>2. Once(a + o, s)
      BY <1>0, <2>1, ModOnce, Zenon
    <2>3. QED
      BY <1>0, <2>1, <2>2, SMT DEF Once
  <1>4. PICK k \in Nat : s = 256 * k
    BY <1>0, SMT
  <1>5. a + f < s => a + o < s
    BY <1>0, <1>4, SMT
  <1>6. to = at + (o - f) /\ at \in Nat
    BY <1>0, <1>2, <1>3, <1>5, SMT
  <1>7. at % 256 = (a + f) % 256
    BY <1>0, <1>2, <1>4, SMT
  <1> HIDE DEF at, to
  <1>8. page = at - (at % 256) /\ at % 256 \in 0..255
    BY <1>0, <1>6, SMT
  <1>9. to \in page..(page + 255) /\ (to - at) % 256 = o - f
    BY <1>0, <1>6, <1>7, <1>8, SMT
  <1>10. QED
    BY <1>6, <1>9, SMT DEF at, to, PageHit

(* Three address bytes reach all of a chip that needs no more. *)
LEMMA Reaches ==
    ASSUME NEW s \in Nat \ {0}, s % 256 = 0, NEW k \in Nat \ {0}, k % 256 = 0, s <= k,
           NEW a \in 0..(s - 1), NEW f \in 0..255
    PROVE  ((a + f) % k) % s = (a + f) % s
  <1> DEFINE x == a + f
  <1>1. x \in Nat /\ x < 2 * k /\ (s = k \/ x < k)
    BY SMT
  <1> HIDE DEF x
  <1>2. x % k \in Nat /\ x % k < k
    BY <1>1, SMT
  <1> DEFINE y == x % k
  <1>3. CASE x < k
    <2>1. Once(x, k)
      BY <1>1, ModOnce, Zenon
    <2>2. y = x
      BY <1>1, <1>3, <2>1, SMT DEF Once
    <2>3. QED
      BY <2>2, Zenon DEF x, y
  <1>4. CASE s = k
    <2> HIDE DEF y
    <2>1. y \in Nat /\ y < 2 * s /\ y < s
      BY <1>2, <1>4, SMT DEF y
    <2>2. Once(y, s)
      BY <2>1, ModOnce, Zenon
    <2>3. y % s = y
      BY <2>1, <2>2, SMT DEF Once
    <2>4. y = x % s
      BY <1>4, Zenon DEF y
    <2>5. QED
      BY <2>3, <2>4, Zenon DEF x, y
  <1>5. QED
    BY <1>1, <1>3, <1>4, Zenon DEF x

Quotient(y, s, q) == y \div s = q

LEMMA DivUnique ==
    ASSUME NEW s \in Nat \ {0}, NEW y \in Nat, NEW q \in Nat, q * s <= y, y < q * s + s
    PROVE  Quotient(y, s, q)
  <1> DEFINE p == y \div s
  <1>1. p \in Nat /\ p * s <= y /\ y < p * s + s
    BY SMT
  <1> HIDE DEF p
  <1>2. p * s + s = (p + 1) * s /\ q * s + s = (q + 1) * s
    BY <1>1, SMT
  <1>3. \A i, j \in Nat : i < j => (i + 1) * s <= j * s
    BY SMT
  <1>4. ~(p < q)
    BY <1>1, <1>2, <1>3, SMT
  <1>5. ~(q < p)
    BY <1>1, <1>2, <1>3, SMT
  <1>6. QED
    BY <1>1, <1>4, <1>5, SMT DEF p, Quotient

LEMMA DivBounds ==
    ASSUME NEW s \in Nat \ {0}, NEW c \in Nat
    PROVE  c \div s \in Nat /\ (c \div s) * s <= c /\ c < (c \div s) * s + s
  BY SMT

(* A byte lies in the sector that holds the start of its block. *)
SameIn(c, y, s) == c \div s = y \div s
InBlock(u, m, s, c, i, y) == s = u * m /\ y = u * i /\ y <= c /\ c < y + u

LEMMA SameSector ==
    ASSUME NEW u \in Nat \ {0}, NEW m \in Nat \ {0}, NEW s, NEW c \in Nat, NEW i \in Nat,
           NEW y, InBlock(u, m, s, c, i, y)
    PROVE  SameIn(c, y, s)
  <1>0. s = u * m /\ y = u * i /\ y <= c /\ c < y + u
    BY Zenon DEF InBlock
  <1> DEFINE q == c \div s
             z == q * m
  <1>1. s \in Nat \ {0}
    BY <1>0, SMT
  <1>2. q \in Nat /\ q * s <= c /\ c < q * s + s
    BY <1>1, DivBounds, Zenon
  <1> HIDE DEF q
  <1>3. q * s = u * z /\ z \in Nat
    <2>1. \A a, b, d \in Nat : a * (b * d) = b * (a * d)
      BY SMT
    <2>4. \A a, b \in Nat : a * b \in Nat
      BY SMT
    <2>2. q * (u * m) = u * (q * m) /\ q * m \in Nat
      BY <1>2, <2>1, <2>4, Zenon
    <2>3. QED
      BY <1>0, <2>2, Zenon
  <1> HIDE DEF z
  <1>4. z <= i
    <2>1. u * z < u * (i + 1)
      BY <1>0, <1>2, <1>3, SMT
    <2>2. QED
      BY <1>3, <2>1, SMT
  <1>5. u * z <= u * i
    BY <1>3, <1>4, SMT
  <1>9. y = u * i /\ y <= c
    BY <1>0, Zenon
  <1>6. y \in Nat /\ q * s <= y /\ y < q * s + s
    <2>1. y \in Nat /\ u * z \in Nat
      BY <1>3, <1>9, SMT
    <2>2. u * z <= y
      BY <1>5, <1>9, Zenon
    <2>3. y < u * z + s
      BY <1>1, <1>2, <1>3, <1>9, <2>1, SMT
    <2>4. QED
      BY <1>3, <2>1, <2>2, <2>3, Zenon
  <1>7. Quotient(y, s, q)
    BY <1>1, <1>2, <1>6, DivUnique, Zenon
  <1>8. QED
    BY <1>7, Zenon DEF q, SameIn, Quotient

-----------------------------------------------------------------------------
(* The chip and the driver's idea of it.                                    *)

LEMMA BoardFacts ==
    ASSUME ChipTypeOK
    PROVE  /\ board.size \in Nat \ {0} /\ board.sector \in Nat \ {0}
           /\ board.sector % EPCS_BLOCK_SIZE = 0
           /\ Addresses \subseteq Nat /\ Probes \subseteq 0..255
  <1>1. board \in Boards
    BY Zenon DEF ChipTypeOK
  <1>2. QED
    BY <1>1, RemoteUpdateAssumption, SMT

LEMMA TheChip ==
    ASSUME ChipTypeOK, Found
    PROVE  fd.size = board.size /\ Sizes(fd) /\ fd # NoFlash
  <1>1. devs = alt_epcs_flash_query(board) /\ devs # {} /\ board \in Boards
    BY Zenon DEF ChipTypeOK, Found
  <1>2. fd \in devs
    BY <1>1, Zenon DEF fd, alt_flash_open_dev
  <1>3. fd.size = board.size /\ Sizes(fd)
    BY <1>1, <1>2, Queried, Zenon
  <1>4. QED
    BY <1>3, SMT DEF Sizes

LEMMA FourBoolean ==
    ASSUME ChipTypeOK
    PROVE  Four \in BOOLEAN
  <1>1. CASE Found
    BY <1>1, TheChip, SMT DEF Sizes, Four
  <1>2. CASE ~Found
    <2>1. fd = NoFlash
      BY <1>2, Zenon DEF Found, fd, alt_flash_open_dev
    <2>2. NoFlash.four_bytes_mode = FALSE
      BY SMT DEF NoFlash, Chip
    <2>3. QED
      BY <2>1, <2>2, Zenon DEF Four
  <1>3. QED
    BY <1>1, <1>2, Zenon

(* An address in the chip, or in the page past its end, is decoded as the   *)
(* driver means it.                                                         *)
LEMMA DecodedAt ==
    ASSUME ChipTypeOK, Found, InMode, NEW a \in 0..(board.size - 1), NEW f \in 0..255
    PROVE  Decoded(a + f) = (a + f) % board.size
  <1> DEFINE s == board.size
             k == 256 * 256 * 256
  <1>1. s \in Nat \ {0} /\ s % 256 = 0 /\ (~Four => s <= k)
    BY TheChip, SMT DEF Sizes, Four
  <1>2. k \in Nat \ {0} /\ k % 256 = 0
    BY SMT
  <1>3. CASE mode4
    BY <1>3, SMT DEF Decoded
  <1>4. CASE ~mode4
    <2>1. s <= k
      BY <1>1, <1>4, Zenon DEF InMode
    <2> HIDE DEF k
    <2>2. ((a + f) % k) % s = (a + f) % s
      BY <1>1, <1>2, <2>1, Reaches, SMT
    <2>3. Decoded(a + f) = ((a + f) % k) % s
      BY <1>4, SMT DEF Decoded, k
    <2>4. QED
      BY <2>2, <2>3, Zenon
  <1>5. QED
    BY <1>3, <1>4, FourBoolean, Zenon DEF InMode

LEMMA Watched ==
    ASSUME ChipTypeOK, req.addr \in Addresses, NEW o \in Probes
    PROVE  Place(o) \in Watch
  <1>1. board \in Boards
    BY Zenon DEF ChipTypeOK
  <1>2. QED
    BY <1>1, SMT DEF Place, Watch

(* What a page program adds to the bytes it names. *)
PageOf(c, t, f, n) ==
    /\ c = Addressed("pp", req.addr + f, n, f, Four) /\ t = Target(c, Decoded(c.at))
    /\ f \in 0..255 /\ n \in 1..256 /\ f + n <= 256 /\ ((req.addr + f) % 256) + n <= 256
Adds(t, f, n) ==
    /\ DOMAIN t \subseteq Watch
    /\ \A a \in DOMAIN t : mem[a] \subseteq t[a]
    /\ \A o \in Probes : o \in f..(f + n - 1) => Place(o) \in DOMAIN t /\ <<req.data, o>> \in t[Place(o)]

LEMMA PageTarget ==
    ASSUME ChipTypeOK, InChip, InMode, req.addr \in Addresses, NEW c, NEW t, NEW f, NEW n, PageOf(c, t, f, n)
    PROVE  Adds(t, f, n)
  <1> DEFINE at == (req.addr + f) % board.size
             page == (at \div page_size) * page_size
             k(a) == (a - at) % page_size
             D == {x \in Watch : x \in page..(page + page_size - 1) /\ k(x) < n}
  <1>0. /\ c = Addressed("pp", req.addr + f, n, f, Four) /\ t = Target(c, Decoded(c.at))
        /\ f \in 0..255 /\ n \in 1..256 /\ f + n <= 256 /\ ((req.addr + f) % 256) + n <= 256
    BY SMT DEF PageOf
  <1>1. c.op = "pp" /\ c.at = req.addr + f /\ c.len = n /\ c.from = f
    BY <1>0, SMT DEF Addressed
  <1>2. req.addr \in 0..(board.size - 1)
    BY BoardFacts, SMT DEF InChip
  <1>3. Decoded(c.at) = at
    <2>1. f \in 0..255 /\ Found
      BY <1>0, SMT DEF InChip
    <2>2. QED
      BY <1>1, <1>2, <2>1, DecodedAt, Zenon
  <1>4. t = [a \in D |-> mem[a] \cup {<<req.data, f + k(a)>>}]
    <2>1. t = Target(c, Decoded(c.at))
      BY <1>0, SMT
    <2>2. QED
      BY <1>1, <1>3, <2>1, Zenon DEF Target
  <1>5. DOMAIN t = D /\ \A a \in D : t[a] = mem[a] \cup {<<req.data, f + k(a)>>}
    <2> HIDE DEF D
    <2>1. QED
      BY <1>4, Zenon
  <1>6. D \subseteq Watch
    OBVIOUS
  <1>7. ASSUME NEW o \in Probes, o \in f..(f + n - 1)
        PROVE  Place(o) \in D /\ f + k(Place(o)) = o
    <2>1. board.size \in Nat \ {0} /\ board.size % 256 = 0 /\ o \in 0..255
      BY BoardFacts, TheChip, SMT DEF Sizes, InChip
    <2>2. PageCut(board.size, req.addr, f, n, o)
      BY <1>0, <1>2, <1>7, <2>1, SMT DEF PageCut
    <2>3. PageHit(board.size, req.addr, f, o)
      BY <2>2, InPage, Zenon
    <2>4. Place(o) \in page..(page + page_size - 1) /\ k(Place(o)) = o - f
      BY <2>1, <2>3, SMT DEF Place, PageHit, page_size
    <2>5. Place(o) \in Watch
      BY Watched, Zenon
    <2>6. o \in Int /\ f \in Int /\ o - f < n /\ f + (o - f) = o
      BY <1>0, <1>7, <2>1, SMT
    <2>7. Place(o) \in D
      <3> HIDE DEF page, k
      <3>1. QED
        BY <2>4, <2>5, <2>6, Zenon
    <2>8. f + k(Place(o)) = o
      <3> HIDE DEF k
      <3>1. QED
        BY <2>4, <2>6, Zenon
    <2>9. QED
      BY <2>7, <2>8, Zenon
  <1> HIDE DEF D, at, k
  <1>8. QED
    BY <1>5, <1>6, <1>7, SMT DEF Adds

LEMMA WatchNat ==
    ASSUME NEW x \in Watch
    PROVE  x \in Nat
  <1>1. CASE x \in {a + j : a \in Addresses, j \in Probes}
    BY <1>1, RemoteUpdateAssumption, SMT
  <1>2. CASE x \in {(a + j) % b.size : a \in Addresses, j \in Probes, b \in Boards}
    <2>1. PICK a \in Addresses, j \in Probes, b \in Boards : x = (a + j) % b.size
      BY <1>2, SMT
    <2>2. a \in Nat /\ j \in Nat /\ b.size \in Nat \ {0}
      BY RemoteUpdateAssumption, SMT
    <2>3. \A u \in Nat, s \in Nat \ {0} : u % s \in Nat
      BY SMT
    <2>4. a + j \in Nat
      BY <2>2, SMT
    <2>5. QED
      BY <2>1, <2>2, <2>3, <2>4, Zenon
  <1>3. QED
    BY <1>1, <1>2, SMT DEF Watch

(* A block within the chip begins where the driver says. *)
LEMMA BlockStart ==
    ASSUME ChipTypeOK, Found, InMode, NEW i \in Nat, BlockAt(i) < board.size
    PROVE  Decoded(BlockAt(i)) = BlockAt(i) /\ BlockAt(i) \in 0..(board.size - 1)
  <1>1. BlockAt(i) \in 0..(board.size - 1) /\ board.size \in Nat \ {0}
    BY BoardFacts, SMT DEF BlockAt, EPCS_BLOCK_SIZE
  <1> DEFINE a == BlockAt(i)
  <1> HIDE DEF a
  <1>2. a \in 0..(board.size - 1) /\ a + 0 = a /\ 0 \in 0..255
    BY <1>1, SMT DEF a
  <1>3. Decoded(a + 0) = (a + 0) % board.size
    BY <1>2, DecodedAt, Zenon
  <1>4. a % board.size = a
    BY <1>1, <1>2, SMT
  <1>5. QED
    BY <1>1, <1>2, <1>3, <1>4, Zenon DEF a

(* A sector erase completes the block it is meant for. *)
SectorOf(c, t, i) == c = Addressed("se", BlockAt(i), 0, 0, Four) /\ t = Target(c, Decoded(c.at))
Clears(t, i) ==
    /\ DOMAIN t \subseteq Watch
    /\ \A a \in DOMAIN t : t[a] = {}
    /\ \A x \in Watch : x < board.size /\ x < (i + 1) * EPCS_BLOCK_SIZE /\ x \notin DOMAIN t => mem[x] = {}

LEMMA EraseTarget ==
    ASSUME ChipTypeOK, Found, InMode, NEW i \in Nat, BlockAt(i) < board.size, ErasedTo(i), busy = <<>>,
           NEW c, NEW t, SectorOf(c, t, i)
    PROVE  Clears(t, i)
  <1> DEFINE at == BlockAt(i)
             D == {x \in Watch : x < board.size /\ x \div board.sector = at \div board.sector}
  <1>0. c = Addressed("se", at, 0, 0, Four) /\ t = Target(c, Decoded(c.at))
    BY Zenon DEF SectorOf
  <1>1. c.op = "se" /\ c.at = at
    <2> HIDE DEF at
    <2>1. QED
      BY <1>0, SMT DEF Addressed
  <1>2. Decoded(c.at) = at
    BY <1>1, BlockStart, Zenon
  <1>3. t = [a \in D |-> {}]
    BY <1>0, <1>1, <1>2, Zenon DEF Target
  <1> HIDE DEF D
  <1>4. DOMAIN t = D /\ \A a \in D : t[a] = {}
    BY <1>3, Zenon
  <1>5. ASSUME NEW x \in Watch, x < board.size, x < (i + 1) * EPCS_BLOCK_SIZE, x \notin D
        PROVE  mem[x] = {}
    <2>1. CASE x < i * EPCS_BLOCK_SIZE
      <3>1. Soon(x) = {}
        BY <1>5, <2>1, Zenon DEF ErasedTo
      <3>2. QED
        BY <3>1, Zenon DEF Soon
    <2>2. CASE ~(x < i * EPCS_BLOCK_SIZE)
      <3>1. x \in Nat /\ board.size \in Nat /\ board.size <= 1024 * 131072 /\ board.sector \in Nat \ {0}
        BY WatchNat, BoardFacts, TheChip, SMT DEF Sizes
      <3>2. i < 65536
        BY <1>5, <2>2, <3>1, SMT DEF EPCS_BLOCK_SIZE
      <3>3. i % 65536 = i
        BY <3>2, SMT
      <3> DEFINE u == EPCS_BLOCK_SIZE
      <3>8. at = i * u
        BY <3>3, SMT DEF BlockAt
      <3>9. at = u * i /\ at <= x /\ x < at + u
        <4> HIDE DEF at
        <4>1. u \in Nat \ {0} /\ x < (i + 1) * u /\ ~(x < i * u)
          BY <1>5, <2>2, SMT DEF EPCS_BLOCK_SIZE
        <4> HIDE DEF u
        <4>2. QED
          BY <3>1, <3>8, <4>1, SMT
      <3>5. EPCS_BLOCK_SIZE \in Nat \ {0}
        BY SMT DEF EPCS_BLOCK_SIZE
      <3> HIDE DEF at, u
      <3> DEFINE b == board.sector
                 m == b \div EPCS_BLOCK_SIZE
      <3>10. b \in Nat \ {0} /\ b % EPCS_BLOCK_SIZE = 0
        BY BoardFacts, Zenon
      <3> HIDE DEF b
      <3>4. m \in Nat \ {0} /\ b = EPCS_BLOCK_SIZE * m
        BY <3>10, SMT DEF EPCS_BLOCK_SIZE
      <3> HIDE DEF m
      <3>6. x \div board.sector = at \div board.sector
        <4>1. x \in Nat
          BY <3>1, SMT
        <4>2. at = EPCS_BLOCK_SIZE * i /\ at <= x /\ x < at + EPCS_BLOCK_SIZE
          BY <3>9, Zenon DEF u
        <4>3. InBlock(EPCS_BLOCK_SIZE, m, b, x, i, at)
          BY <3>4, <4>2, Zenon DEF InBlock
        <4>4. SameIn(x, at, b)
          BY <3>4, <3>5, <4>1, <4>3, SameSector, Zenon
        <4>5. QED
          BY <4>4, Zenon DEF b, SameIn
      <3>7. QED
        BY <1>5, <3>6, Zenon DEF D
    <2>3. QED
      BY <2>1, <2>2, Zenon
  <1>6. D \subseteq Watch
    BY Zenon DEF D
  <1>7. QED
    BY <1>4, <1>5, <1>6, Zenon DEF Clears

-----------------------------------------------------------------------------
(* The firmware sends a command.                                            *)

Kept == UNCHANGED <<board, power, devs, req, loop, reads, answer>>
Still == UNCHANGED <<mem, busy, image, slow>>

(* The command at hand decides which step it is. *)
LEMMA SpiOps ==
    ASSUME Spi, NEW c, NEW t, Begins(script, c, t)
    PROVE  /\ script' = t /\ Kept
           /\ c.op = "wren" => WriteEnable
           /\ c.op \in {"en4b", "dis4b"} => FourByteMode
           /\ c.op = "se" => SectorErase
           /\ c.op = "pp" => PageProgram
           /\ c.op = "data" => PageData
           /\ c.op = "poll" => PollDone
           /\ c.op = "read" => Read
  <1>1. Head(script) = c /\ Tail(script) = t
    BY Zenon DEF Begins
  <1>2. Sent
    BY Zenon DEF Spi, WriteEnable, FourByteMode, SectorErase, PageProgram, PageData, PollDone, Read
  <1>3. script' = t /\ Kept
    BY <1>1, <1>2, SMT DEF Sent, Kept, reqVars
  <1>4. /\ WriteEnable => c.op = "wren"
        /\ FourByteMode => c.op \in {"en4b", "dis4b"}
        /\ SectorErase => c.op = "se"
        /\ PageProgram => c.op = "pp"
        /\ PageData => c.op = "data"
        /\ PollDone => c.op = "poll"
        /\ Read => c.op = "read"
    BY <1>1, SMT DEF WriteEnable, FourByteMode, SectorErase, PageProgram, PageData, PollDone, Read, Sends
  <1>5. \/ WriteEnable \/ FourByteMode \/ SectorErase \/ PageProgram \/ PageData \/ PollDone \/ Read
    BY Zenon DEF Spi
  <1> HIDE DEF WriteEnable, FourByteMode, SectorErase, PageProgram, PageData, PollDone, Read
  <1>6. QED
    BY <1>3, <1>4, <1>5, SMT

LEMMA SameDevice ==
    ASSUME Kept
    PROVE  Four' = Four /\ Found' = Found /\ InChip' = InChip /\ \A o : Place(o)' = Place(o)
  BY Zenon DEF Kept, Four, fd, Found, InChip, Place

LEMMA SameData ==
    ASSUME Kept, \A c : Soon(c)' = Soon(c)
    PROVE  /\ \A n : WrittenTo(n)' <=> WrittenTo(n)
           /\ \A i : ErasedTo(i)' <=> ErasedTo(i)
           /\ SoFar' <=> SoFar
  <1>1. /\ InChip' = InChip /\ Found' = Found /\ (\A o : Place(o)' = Place(o))
        /\ board' = board /\ req' = req /\ loop' = loop
    BY SameDevice, Zenon DEF Kept
  <1>2. ASSUME NEW n PROVE WrittenTo(n)' <=> WrittenTo(n)
    BY <1>1, Zenon DEF WrittenTo
  <1>3. ASSUME NEW i PROVE ErasedTo(i)' <=> ErasedTo(i)
    BY <1>1, Zenon DEF ErasedTo
  <1>4. QED
    BY <1>1, <1>2, <1>3, Zenon DEF SoFar

LEMMA StillSoon ==
    ASSUME mem' = mem, busy' = busy
    PROVE  \A c : Soon(c)' = Soon(c)
  BY Zenon DEF Soon

LEMMA TargetDomain ==
    ASSUME NEW c, NEW at
    PROVE  DOMAIN Target(c, at) \subseteq Watch
  <1> DEFINE page == (at \div page_size) * page_size
             k(a) == (a - at) % page_size
             D == {x \in Watch : x < board.size /\ x \div board.sector = at \div board.sector}
             E == {x \in Watch : x \in page..(page + page_size - 1) /\ k(x) < c.len}
  <1>1. D \subseteq Watch /\ E \subseteq Watch
    OBVIOUS
  <1>2. Target(c, at) = IF c.op = "se" THEN [a \in D |-> {}]
                        ELSE [a \in E |-> mem[a] \cup {<<req.data, c.from + k(a)>>}]
    BY Zenon DEF Target
  <1> HIDE DEF D, E
  <1>3. DOMAIN Target(c, at) = D \/ DOMAIN Target(c, at) = E
    BY <1>2, Zenon
  <1>4. QED
    BY <1>1, <1>3, Zenon

LEMMA SpiTyped ==
    ASSUME ChipTypeOK, Spi
    PROVE  ChipTypeOK'
  <1>1. /\ board' = board /\ mem' = mem /\ devs' = devs /\ reads' = reads
    BY SMT DEF Spi, WriteEnable, FourByteMode, SectorErase, PageProgram, PageData, PollDone, Read, Sent,
       reqVars, chipVars
  <1>2. slow' = slow \/ slow' = slow + 1
    BY Zenon DEF Spi, WriteEnable, FourByteMode, SectorErase, PageProgram, PageData, PollDone, Read
  <1>3. wel' \in BOOLEAN /\ mode4' \in BOOLEAN
    BY Zenon DEF ChipTypeOK, Spi, WriteEnable, FourByteMode, SectorErase, PageProgram, PageData, PollDone, Read,
       chipVars
  <1>4. busy' = busy \/ \E c, at : busy' = <<Target(c, at)>>
    BY Zenon DEF Spi, WriteEnable, FourByteMode, SectorErase, PageProgram, PageData, PollDone, Read, chipVars
  <1>5. busy' = <<>> \/ (busy' = <<busy'[1]>> /\ DOMAIN busy'[1] \subseteq Watch)
    <2>1. CASE busy' = busy
      BY <2>1, Zenon DEF ChipTypeOK
    <2>2. CASE \E c, at : busy' = <<Target(c, at)>>
      <3>1. PICK c, at : busy' = <<Target(c, at)>>
        BY <2>2, Zenon
      <3> DEFINE t == Target(c, at)
      <3>2. DOMAIN t \subseteq Watch
        BY TargetDomain, Zenon
      <3> HIDE DEF t
      <3>3. busy'[1] = t /\ busy' = <<t>>
        BY <3>1, SMT DEF t
      <3>4. QED
        BY <3>2, <3>3, Zenon
    <2>3. QED
      BY <1>4, <2>1, <2>2, Zenon
  <1>6. slow' \in Nat
    BY <1>2, SMT DEF ChipTypeOK
  <1>7. QED
    BY <1>1, <1>3, <1>5, <1>6, Zenon DEF ChipTypeOK

(* What a switch of the latch, and one of the mode, do to an idle chip. *)
LEMMA Enables ==
    ASSUME WriteEnable, busy = <<>>
    PROVE  wel' /\ mode4' = mode4 /\ select' = select /\ Still
  <1>1. wel'
    BY Zenon DEF WriteEnable
  <1>2. mode4' = mode4 /\ select' = select /\ Still
    BY SMT DEF WriteEnable, Still
  <1>3. QED
    BY <1>1, <1>2, Zenon

LEMMA Switches ==
    ASSUME FourByteMode, busy = <<>>, wel
    PROVE  ~wel' /\ (mode4' <=> Head(script).op = "en4b") /\ select' = select /\ Still
  <1>1. ~wel' /\ (mode4' <=> Head(script).op = "en4b")
    BY Zenon DEF FourByteMode
  <1>2. select' = select /\ Still
    BY SMT DEF FourByteMode, Still
  <1>3. QED
    BY <1>1, <1>2, Zenon

(* The way into four byte mode. *)
LEMMA UnsentStep ==
    ASSUME ChipTypeOK, NEW s \in Seq(Command), Unsent(s), ~(script = s /\ Quiet /\ InMode), Spi
    PROVE  Unsent(s)' /\ Kept /\ Still
  <1>1. CASE Four /\ script = Entering(s) /\ Quiet /\ ~mode4
    <2>1. Begins(script, Bare("wren"), <<Bare("en4b")>> \o s) /\ Bare("wren").op = "wren"
      BY <1>1, EnteringShape, CommandTypes, Zenon DEF Op
    <2>2. script' = <<Bare("en4b")>> \o s /\ Kept /\ WriteEnable
      BY <2>1, SpiOps, Zenon
    <2>3. wel' /\ mode4' = mode4 /\ select' = select /\ Still
      BY <1>1, <2>2, Enables, Zenon DEF Quiet
    <2>4. Armed'
      BY <1>1, <2>3, Zenon DEF Armed, Quiet, Still
    <2>5. Four' = Four
      BY <2>2, SameDevice, Zenon
    <2>6. QED
      BY <1>1, <2>2, <2>3, <2>4, <2>5, Zenon DEF Unsent
  <1>2. CASE Four /\ script = <<Bare("en4b")>> \o s /\ Armed /\ ~mode4
    <2>1. Begins(script, Bare("en4b"), s) /\ Bare("en4b").op = "en4b"
      BY <1>2, EnteringShape, CommandTypes, Zenon DEF Op
    <2>2. script' = s /\ Kept /\ FourByteMode
      BY <2>1, SpiOps, Zenon
    <2>3. ~wel' /\ mode4' /\ select' = select /\ Still
      BY <1>2, <2>1, <2>2, Switches, Zenon DEF Armed, Begins
    <2>4. Quiet'
      BY <1>2, <2>3, Zenon DEF Armed, Quiet, Still
    <2>5. Four' = Four /\ Four = TRUE /\ mode4' = TRUE
      <3>1. Four' = Four
        BY <2>2, SameDevice, Zenon
      <3>2. Four \in BOOLEAN /\ mode4' \in BOOLEAN
        BY FourBoolean, SpiTyped, Zenon DEF ChipTypeOK
      <3>3. QED
        BY <1>2, <2>3, <3>1, <3>2, Zenon
    <2>6. QED
      BY <2>2, <2>3, <2>4, <2>5, Zenon DEF Unsent, InMode
  <1>3. QED
    BY <1>1, <1>2, Zenon DEF Unsent

Is(x, y) == x = y

(* The request as a page write finds it. *)
PageCase(at, n, f) ==
    /\ f \in 0..(Packet - 1) /\ Is(at, req.addr + f) /\ Is(n, Packet - loop.len - f)
    /\ n > 0 /\ (at % page_size) + n <= page_size
PageBounds(at, n, f) ==
    /\ at \in Int /\ n \in 1..256 /\ f \in 0..255
    /\ f + n <= 256 /\ f + n = Packet - loop.len /\ ((req.addr + f) % 256) + n <= 256

LEMMA WriteFacts ==
    ASSUME ChipTypeOK, Request, req.op = "write", NEW f, NEW at, NEW n, PageCase(at, n, f)
    PROVE  req.addr \in Addresses /\ PageBounds(at, n, f)
  <1>1. req.addr \in Addresses /\ loop.len \in 0..Packet
    BY SMT DEF Request
  <1>2. req.addr \in Nat
    BY <1>1, BoardFacts, SMT
  <1>3. QED
    <2>1. f \in 0..255 /\ at = req.addr + f /\ n = 256 - loop.len - f /\ n > 0
      BY SMT DEF PageCase, Is, Packet
    <2>0. at = req.addr + f /\ (at % page_size) + n <= page_size
      BY Zenon DEF PageCase, Is
    <2>2. at \in Int /\ n \in 1..256 /\ f + n <= 256 /\ f + n = 256 - loop.len
      <3>1. req.addr \in Nat /\ loop.len \in 0..256
        BY <1>1, <1>2, SMT DEF Packet
      <3> DEFINE a == req.addr
                 l == loop.len
      <3>2. a \in Nat /\ l \in 0..256 /\ f \in 0..255 /\ at = a + f /\ n = 256 - l - f /\ n > 0
        BY <2>1, <3>1, Zenon
      <3> HIDE DEF a, l
      <3>3. at \in Int /\ n \in 1..256 /\ f + n <= 256 /\ f + n = 256 - l
        BY <3>2, SMT
      <3>4. QED
        BY <3>3, Zenon DEF l
    <2>3. ((req.addr + f) % page_size) + n <= page_size
      BY <2>0, Zenon
    <2>4. f + n = Packet - loop.len
      BY <2>2, Zenon DEF Packet
    <2>5. ((req.addr + f) % 256) + n <= 256
      BY <2>3, Zenon DEF page_size
    <2>6. QED
      BY <1>1, <2>1, <2>2, <2>4, <2>5, Zenon DEF PageBounds

PagingCase(at, n, f, four) ==
    /\ f \in 0..(Packet - 1) /\ Is(at, req.addr + f) /\ Is(n, Packet - loop.len - f) /\ Is(four, Four)
    /\ PagingAt(at, n, f, four)

LEMMA PagingKept ==
    ASSUME Paging, Kept, NEW f, NEW at, NEW n, NEW four, PagingCase(at, n, f, four), PagingAt(at, n, f, four)'
    PROVE  Paging'
  <1>1. req' = req /\ loop' = loop /\ reads' = reads /\ InChip' = InChip /\ Four' = Four
    BY SameDevice, Zenon DEF Kept
  <1>2. f \in 0..(Packet - 1) /\ PagingAt(req.addr + f, Packet - loop.len - f, f, Four)'
    BY <1>1, Zenon DEF PagingCase, Is
  <1>3. QED
    BY <1>1, <1>2, Zenon DEF Paging

LEMMA PagingEarly ==
    ASSUME ChipTypeOK, Request, Found, Paging, Spi, NEW f, NEW at, NEW n, NEW four, PagingCase(at, n, f, four),
           ~DataNext(at, n, f, four)
    PROVE  Paging' /\ slow' = slow
  <1>1. /\ f \in 0..(Packet - 1) /\ Is(at, req.addr + f) /\ Is(n, Packet - loop.len - f) /\ Is(four, Four)
        /\ PagingAt(at, n, f, four) /\ n > 0 /\ (at % page_size) + n <= page_size /\ WrittenTo(f)
        /\ req.op = "write"
    BY Zenon DEF PagingCase, PagingAt, Paging
  <1>2. at \in Int /\ n \in Int /\ f \in Int
    <2>1. PageCase(at, n, f)
      BY <1>1, Zenon DEF PageCase
    <2>2. PageBounds(at, n, f)
      BY <1>1, <2>1, WriteFacts, Zenon
    <2>3. QED
      BY <2>2, SMT DEF PageBounds
  <1>3. four \in BOOLEAN /\ Four = four
    BY <1>1, FourBoolean, Zenon DEF Is
  <1>4. /\ Begins(PageFrom(at, n, f, four), Bare("wren"), PpFrom(at, n, f, four))
        /\ Begins(PpFrom(at, n, f, four), Addressed("pp", at, n, f, four), DataFrom(at, n, f, four))
    BY <1>2, <1>3, PageShape, Zenon
  <1> DEFINE s == PageFrom(at, n, f, four)
  <1>5. s \in Seq(Command)
    BY <1>4, Zenon DEF Begins
  <1>6. CASE Unsent(s) /\ ~(script = s /\ Quiet /\ InMode)
    <2> HIDE DEF s
    <2>1. Unsent(s)' /\ Kept /\ Still
      BY <1>5, <1>6, UnsentStep, Zenon
    <2>2. WrittenTo(f)'
      <3>1. mem' = mem /\ busy' = busy
        BY <2>1, Zenon DEF Still
      <3>2. QED
        BY <1>1, <2>1, <3>1, StillSoon, SameData, Zenon
    <2>3. PagingAt(at, n, f, four)'
      BY <1>1, <2>1, <2>2, Zenon DEF PagingAt, s
    <2>4. QED
      BY <2>1, <2>3, PagingKept, Zenon DEF Still
  <1>7. CASE script = s /\ Quiet /\ InMode
    <2>1. Bare("wren").op = "wren"
      BY CommandTypes, Zenon DEF Op
    <2>2. script' = PpFrom(at, n, f, four) /\ Kept /\ WriteEnable
      BY <1>4, <1>7, <2>1, SpiOps, Zenon
    <2>3. wel' /\ mode4' = mode4 /\ select' = select /\ Still
      BY <1>7, <2>2, Enables, Zenon DEF Quiet
    <2>4. Armed' /\ InMode'
      BY <1>7, <2>2, <2>3, SameDevice, Zenon DEF Armed, Quiet, InMode, Still
    <2>5. WrittenTo(f)'
      <3>1. mem' = mem /\ busy' = busy
        BY <2>3, Zenon DEF Still
      <3>2. QED
        BY <1>1, <2>2, <3>1, StillSoon, SameData, Zenon
    <2>6. PagingAt(at, n, f, four)'
      BY <1>1, <2>2, <2>4, <2>5, Zenon DEF PagingAt
    <2>7. QED
      BY <2>2, <2>3, <2>6, PagingKept, Zenon DEF Still
  <1>8. CASE script = PpFrom(at, n, f, four) /\ Armed /\ InMode
    <2> DEFINE c == Addressed("pp", at, n, f, four)
    <2>1. c.op = "pp"
      BY SMT DEF Addressed
    <2>2. script' = DataFrom(at, n, f, four) /\ Kept /\ PageProgram /\ Head(script) = c
      <3> HIDE DEF c
      <3>1. Begins(script, c, DataFrom(at, n, f, four))
        BY <1>4, <1>8, Zenon DEF c
      <3>2. QED
        BY <2>1, <3>1, SpiOps, Zenon DEF Begins
    <2>3. select' = <<c>> /\ mem' = mem /\ busy' = busy /\ wel' = wel /\ mode4' = mode4 /\ slow' = slow
      <3> HIDE DEF c
      <3>1. QED
        BY <2>2, SMT DEF PageProgram
    <2>4. InMode'
      BY <1>8, <2>2, <2>3, SameDevice, Zenon DEF InMode
    <2>5. WrittenTo(f)'
      BY <1>1, <2>2, <2>3, StillSoon, SameData, Zenon
    <2>6. PagingAt(at, n, f, four)'
      BY <1>1, <1>8, <2>2, <2>3, <2>4, <2>5, Zenon DEF PagingAt, DataNext, Armed
    <2>7. QED
      BY <2>2, <2>3, <2>6, PagingKept, Zenon
  <1>9. QED
    BY <1>1, <1>6, <1>7, <1>8, Zenon DEF PagingAt

LEMMA PagingLast ==
    ASSUME ChipTypeOK, Request, Found, Paging, Spi, NEW f, NEW at, NEW n, NEW four, PagingCase(at, n, f, four),
           DataNext(at, n, f, four)
    PROVE  Waiting' /\ slow' = slow
  <1>1. /\ f \in 0..(Packet - 1) /\ Is(at, req.addr + f) /\ Is(n, Packet - loop.len - f) /\ Is(four, Four)
        /\ n > 0 /\ (at % page_size) + n <= page_size /\ WrittenTo(f)
        /\ req.op = "write" /\ InChip /\ reads
    BY Zenon DEF PagingCase, PagingAt, Paging
  <1>2. req.addr \in Addresses /\ PageBounds(at, n, f)
    <2>1. PageCase(at, n, f)
      BY <1>1, Zenon DEF PageCase
    <2>2. QED
      BY <1>1, <2>1, WriteFacts, Zenon
  <1>3. at \in Int /\ n \in Int /\ f \in Int
    BY <1>2, SMT DEF PageBounds
  <1>4. four \in BOOLEAN /\ Four = four
    BY <1>1, FourBoolean, Zenon DEF Is
  <1>5. /\ script = DataFrom(at, n, f, four) /\ InMode /\ busy = <<>> /\ wel
        /\ select = <<Addressed("pp", at, n, f, four)>>
    BY Zenon DEF DataNext
  <1> DEFINE d == Addressed("data", at, n, f, four)
             p == Addressed("pp", at, n, f, four)
  <1>6. Begins(script, d, Wait(four)) /\ d.op = "data"
    <2>1. d.op = "data"
      BY SMT DEF Addressed
    <2>2. QED
      BY <1>3, <1>4, <1>5, <2>1, PageShape, Zenon
  <1>7. p.bytes = (IF four THEN 4 ELSE 3) /\ p.at = at
    BY SMT DEF Addressed
  <1> HIDE DEF d, p
  <1>8. script' = Wait(four) /\ Kept /\ PageData
    BY <1>6, SpiOps, Zenon
  <1> DEFINE t == Target(p, Decoded(p.at))
  <1>9. Adds(t, f, n)
    <2>1. PageOf(p, t, f, n)
      BY <1>1, <1>2, <1>4, Zenon DEF PageOf, PageBounds, Is, p
    <2> HIDE DEF t
    <2>2. QED
      BY <1>1, <1>2, <1>5, <2>1, PageTarget, Zenon
  <1>10. select # <<>> /\ select[1] = p /\ Takes(select[1])
    <2>1. select = <<p>>
      BY <1>5, Zenon DEF p
    <2>2. select # <<>> /\ select[1] = p
      BY <2>1, SMT
    <2>3. mode4 = four
      BY <1>4, <1>5, Zenon DEF InMode
    <2>4. QED
      BY <1>5, <1>7, <2>2, <2>3, Zenon DEF Takes
  <1> HIDE DEF t
  <1>11. /\ busy' = <<t>> /\ select' = <<>>
         /\ mem' = mem /\ wel' = wel /\ mode4' = mode4 /\ slow' = slow
    <2>1. busy' = <<Target(select[1], Decoded(select[1].at))>>
      BY <1>5, <1>8, <1>10, Zenon DEF PageData
    <2>2. select' = <<>> /\ mem' = mem /\ wel' = wel /\ mode4' = mode4 /\ slow' = slow
      BY <1>8, SMT DEF PageData
    <2>3. QED
      BY <1>10, <2>1, <2>2, Zenon DEF t
  <1>12. busy' # <<>> /\ busy'[1] = t
    BY <1>11, SMT
  <1>13. InMode' /\ req' = req /\ loop' = loop /\ reads' = reads /\ InChip' /\ \A o : Place(o)' = Place(o)
    BY <1>1, <1>5, <1>8, <1>11, SameDevice, Zenon DEF InMode, Kept
  <1>14. ASSUME NEW o \in Probes, o < Packet - loop.len PROVE <<req.data, o>> \in Soon(Place(o))'
    <2>1. <<req.data, o>> \in Soon(Place(o)) \/ (Place(o) \in DOMAIN t /\ <<req.data, o>> \in t[Place(o)])
      <3>1. CASE o < f
        BY <1>1, <3>1, Zenon DEF WrittenTo
      <3>2. CASE ~(o < f)
        <4>1. o \in f..(f + n - 1)
          <5>1. o \in 0..255 /\ f + n = Packet - loop.len /\ f \in Int /\ n \in Int
            BY <1>2, BoardFacts, SMT DEF PageBounds
          <5> DEFINE l == Packet - loop.len
          <5>2. f + n = l /\ o < l
            BY <1>14, <5>1, Zenon
          <5> HIDE DEF l
          <5>3. QED
            BY <3>2, <5>1, <5>2, SMT
        <4>2. QED
          BY <1>9, <4>1, Zenon DEF Adds
      <3>3. QED
        BY <3>1, <3>2, Zenon
    <2>2. Soon(Place(o)) = mem[Place(o)]
      BY <1>5, Zenon DEF Soon
    <2>3. Soon(Place(o))' = IF Place(o) \in DOMAIN t THEN t[Place(o)] ELSE mem[Place(o)]
      <3>1. Soon(Place(o))' = IF Place(o)' \in DOMAIN t THEN t[Place(o)'] ELSE mem[Place(o)']
        BY <1>11, <1>12, Zenon DEF Soon
      <3>2. QED
        BY <1>13, <3>1, Zenon
    <2>4. Place(o) \in DOMAIN t => mem[Place(o)] \subseteq t[Place(o)]
      BY <1>9, Zenon DEF Adds
    <2>5. QED
      BY <2>1, <2>2, <2>3, <2>4, Zenon
  <1>15. SoFar'
    <2>1. WrittenTo(Packet - loop.len)'
      BY <1>13, <1>14, Zenon DEF WrittenTo
    <2>2. req'.op = "write"
      BY <1>1, <1>13, Zenon
    <2>3. "write" # "erase"
      OBVIOUS
    <2>4. QED
      BY <2>1, <2>2, <2>3, Zenon DEF SoFar
  <1>16. \A c \in DOMAIN busy'[1] : mem'[c] \subseteq busy'[1][c]
    BY <1>9, <1>11, <1>12, Zenon DEF Adds
  <1>17. req'.op = "write" /\ req'.op # "erase" /\ reads' /\ Four' = four /\ wel'
    <2>1. "write" # "erase"
      OBVIOUS
    <2>2. QED
      BY <1>1, <1>4, <1>5, <1>8, <1>11, <1>13, <2>1, SameDevice, Zenon
  <1>18. QED
    BY <1>8, <1>11, <1>12, <1>13, <1>15, <1>16, <1>17, Zenon DEF Waiting

(* The block of an erase and what is on the wire. *)
ErasingCase(at, i, four) ==
    Is(i, loop.at - 1) /\ Is(at, BlockAt(i)) /\ Is(four, Four) /\ ErasingAt(at, four)

LEMMA EraseFacts ==
    ASSUME ChipTypeOK, Request, Erasing, NEW at, NEW i, NEW four, ErasingCase(at, i, four)
    PROVE  /\ i \in Nat /\ i + 1 = loop.at /\ at \in Int /\ at < board.size /\ ErasedTo(i)
           /\ four \in BOOLEAN /\ Four = four /\ req.op = "erase" /\ Found
  <1>1. /\ i = loop.at - 1 /\ at = BlockAt(i) /\ loop.at > 0 /\ ErasedTo(loop.at - 1)
        /\ BlockAt(loop.at - 1) < board.size /\ req.op = "erase" /\ Found
    BY Zenon DEF ErasingCase, Is, Erasing
  <1>2. at < board.size /\ ErasedTo(i)
    BY <1>1, Zenon
  <1>3. loop.at \in Nat
    BY <1>1, SMT DEF Request
  <1>4. i = loop.at - 1 /\ loop.at > 0
    BY <1>1, Zenon
  <1>5. i \in Nat /\ i + 1 = loop.at
    <2> DEFINE l == loop.at
    <2> HIDE DEF l
    <2>1. l \in Nat /\ l > 0 /\ i = l - 1
      BY <1>3, <1>4, Zenon DEF l
    <2>2. i \in Nat /\ i + 1 = l
      BY <2>1, SMT
    <2>3. QED
      BY <2>2, Zenon DEF l
  <1>6. BlockAt(i) \in Int
    BY <1>5, SMT DEF BlockAt, EPCS_BLOCK_SIZE
  <1>7. at \in Int
    BY <1>1, <1>6, Zenon
  <1>8. four \in BOOLEAN /\ Four = four
    BY FourBoolean, Zenon DEF Is, ErasingCase
  <1>9. QED
    BY <1>1, <1>2, <1>5, <1>7, <1>8, Zenon

LEMMA ErasingKept ==
    ASSUME Erasing, Kept, \A c : Soon(c)' = Soon(c), NEW at, NEW i, NEW four, ErasingCase(at, i, four),
           ErasingAt(at, four)'
    PROVE  Erasing'
  <1>1. req' = req /\ loop' = loop /\ reads' = reads /\ board' = board /\ Four' = Four /\ Found' = Found
    BY SameDevice, Zenon DEF Kept
  <1>2. ErasedTo(loop.at - 1)'
    <2>1. \A k : ErasedTo(k)' <=> ErasedTo(k)
      BY SameData, Zenon
    <2>2. QED
      BY <1>1, <2>1, Zenon DEF Erasing, ErasedTo
  <1>3. ErasingAt(BlockAt(loop.at - 1), Four)'
    BY <1>1, Zenon DEF ErasingCase, Is
  <1>4. QED
    BY <1>1, <1>2, <1>3, Zenon DEF Erasing

LEMMA ErasingEarly ==
    ASSUME ChipTypeOK, Request, Erasing, Spi, NEW at, NEW i, NEW four, ErasingCase(at, i, four),
           ~SectorNext(at, four)
    PROVE  Erasing' /\ Kept /\ slow' = slow /\ Soon(0)' = Soon(0)
  <1>1. /\ i \in Nat /\ at \in Int /\ four \in BOOLEAN /\ Four = four
        /\ ErasingAt(at, four)
    BY EraseFacts, Zenon DEF ErasingCase
  <1>2. Begins(EraseFrom(at, four), Bare("wren"), SeFrom(at, four))
    BY <1>1, EraseShape, Zenon
  <1> DEFINE s == EraseFrom(at, four)
  <1>3. s \in Seq(Command)
    BY <1>2, Zenon DEF Begins
  <1>4. CASE ~(script = s /\ Quiet /\ InMode)
    <2>1. Unsent(s)
      BY <1>1, Zenon DEF ErasingAt
    <2> HIDE DEF s
    <2>2. Unsent(s)' /\ Kept /\ Still
      BY <1>3, <1>4, <2>1, UnsentStep, EraseFacts, Zenon
    <2>3. \A c : Soon(c)' = Soon(c)
      <3>1. mem' = mem /\ busy' = busy
        BY <2>2, Zenon DEF Still
      <3>2. QED
        BY <3>1, StillSoon, Zenon
    <2>4. ErasingAt(at, four)'
      BY <2>2, Zenon DEF ErasingAt, s
    <2>5. QED
      BY <2>2, <2>3, <2>4, ErasingKept, Zenon DEF Still
  <1>5. CASE script = s /\ Quiet /\ InMode
    <2>1. Bare("wren").op = "wren"
      BY CommandTypes, Zenon DEF Op
    <2>2. script' = SeFrom(at, four) /\ Kept /\ WriteEnable
      BY <1>2, <1>5, <2>1, SpiOps, Zenon
    <2>3. wel' /\ mode4' = mode4 /\ select' = select /\ Still
      BY <1>5, <2>2, Enables, Zenon DEF Quiet
    <2>4. Armed' /\ InMode'
      BY <1>5, <2>2, <2>3, SameDevice, Zenon DEF Armed, Quiet, InMode, Still
    <2>5. \A c : Soon(c)' = Soon(c)
      <3>1. mem' = mem /\ busy' = busy
        BY <2>3, Zenon DEF Still
      <3>2. QED
        BY <3>1, StillSoon, Zenon
    <2>6. ErasingAt(at, four)'
      BY <2>2, <2>4, Zenon DEF ErasingAt, SectorNext
    <2>7. QED
      BY <2>2, <2>3, <2>5, <2>6, ErasingKept, Zenon DEF Still
  <1>6. QED
    BY <1>4, <1>5, Zenon

(* The program begins in a watched byte, and every erase clears it. *)
LEMMA FirstByte ==
    ASSUME ChipTypeOK
    PROVE  0 \in Watch /\ 0 < board.size
  <1>1. 0 \in Addresses /\ 0 \in Probes /\ board.size \in Nat \ {0}
    BY RemoteUpdateAssumption, BoardFacts, Zenon
  <1>2. 0 + 0 \in Watch
    BY <1>1, SMT DEF Watch
  <1>3. QED
    BY <1>1, <1>2, SMT

LEMMA ErasingLast ==
    ASSUME ChipTypeOK, Request, Erasing, Spi, NEW at, NEW i, NEW four, ErasingCase(at, i, four),
           SectorNext(at, four)
    PROVE  Waiting' /\ Kept /\ Soon(0)' = {}
  <1>1. /\ i \in Nat /\ i + 1 = loop.at /\ at \in Int /\ at < board.size /\ ErasedTo(i)
        /\ four \in BOOLEAN /\ Four = four /\ req.op = "erase" /\ Found
    BY EraseFacts, Zenon
  <1>2. at = BlockAt(i)
    BY Zenon DEF ErasingCase, Is
  <1>3. script = SeFrom(at, four) /\ busy = <<>> /\ wel /\ select = <<>> /\ InMode
    BY Zenon DEF SectorNext, Armed
  <1> DEFINE c == Addressed("se", at, 0, 0, four)
             t == Target(c, Decoded(c.at))
  <1>4. Begins(script, c, Wait(four))
    BY <1>1, <1>3, EraseShape, Zenon
  <1>5. c.op = "se" /\ c.bytes = (IF four THEN 4 ELSE 3)
    BY SMT DEF Addressed
  <1>6. Clears(t, i)
    <2>1. SectorOf(c, t, i)
      BY <1>1, <1>2, Zenon DEF SectorOf
    <2>2. BlockAt(i) < board.size
      BY <1>1, <1>2, Zenon
    <2> HIDE DEF t, c
    <2>3. QED
      BY <1>1, <1>3, <2>1, <2>2, EraseTarget, Zenon
  <1> HIDE DEF c
  <1>7. script' = Wait(four) /\ Kept /\ SectorErase /\ Head(script) = c
    BY <1>4, <1>5, SpiOps, Zenon DEF Begins
  <1>8. Takes(c)
    BY <1>1, <1>3, <1>5, Zenon DEF Takes, InMode
  <1> HIDE DEF t
  <1>9. /\ busy' = <<t>> /\ select' = <<>>
        /\ mem' = mem /\ wel' = wel /\ mode4' = mode4
    <2>1. busy' = <<Target(Head(script), Decoded(Head(script).at))>>
      BY <1>3, <1>7, <1>8, Zenon DEF SectorErase
    <2>2. select' = select /\ mem' = mem /\ wel' = wel /\ mode4' = mode4
      BY <1>7, SMT DEF SectorErase
    <2>3. QED
      BY <1>3, <1>7, <2>1, <2>2, Zenon DEF t
  <1>10. busy' # <<>> /\ busy'[1] = t
    BY <1>9, SMT
  <1>11. /\ InMode' /\ req' = req /\ loop' = loop /\ Found' /\ board' = board /\ Four' = four
    BY <1>1, <1>3, <1>7, <1>9, SameDevice, Zenon DEF InMode, Kept
  <1>12. ASSUME NEW x \in Watch, x < board.size, x < loop.at * EPCS_BLOCK_SIZE PROVE Soon(x)' = {}
    <2>1. x < (i + 1) * EPCS_BLOCK_SIZE
      BY <1>1, <1>12, Zenon
    <2>2. x \notin DOMAIN t => mem[x] = {}
      BY <1>6, <1>12, <2>1, Zenon DEF Clears
    <2>3. x \in DOMAIN t => t[x] = {}
      BY <1>6, Zenon DEF Clears
    <2>4. QED
      BY <1>9, <1>10, <2>2, <2>3, Zenon DEF Soon
  <1>13. ErasedTo(loop.at)'
    BY <1>11, <1>12, Zenon DEF ErasedTo
  <1>14. SoFar'
    <2>1. "write" # "erase"
      OBVIOUS
    <2>2. QED
      BY <1>1, <1>11, <1>13, <2>1, Zenon DEF SoFar
  <1>15. Soon(0)' = {}
    <2>1. i \in Nat /\ (i + 1) * EPCS_BLOCK_SIZE > 0
      BY <1>1, SMT DEF EPCS_BLOCK_SIZE
    <2>2. 0 < loop.at * EPCS_BLOCK_SIZE
      <3>1. 0 < (i + 1) * EPCS_BLOCK_SIZE
        BY <2>1, SMT DEF EPCS_BLOCK_SIZE
      <3>2. QED
        BY <1>1, <3>1, Zenon
    <2>3. QED
      BY <1>12, <2>2, FirstByte, Zenon
  <1>16. \A x \in DOMAIN busy'[1] : busy'[1][x] = {}
    BY <1>6, <1>10, Zenon DEF Clears
  <1>17. req'.op = "erase" /\ wel'
    BY <1>1, <1>3, <1>9, <1>11, Zenon
  <1>18. QED
    BY <1>7, <1>9, <1>10, <1>11, <1>14, <1>15, <1>16, <1>17, Zenon DEF Waiting

(* The end of a wait. *)
LEMMA WaitingStep ==
    ASSUME ChipTypeOK, Found, Waiting, Spi
    PROVE  (Leaving' \/ Between') /\ Kept /\ Still
  <1>1. PICK four \in BOOLEAN : four = Four
    BY FourBoolean, Zenon
  <1>2. Begins(script, Bare("poll"), Leave(four)) /\ Bare("poll").op = "poll"
    <2>1. script = Wait(four)
      BY <1>1, Zenon DEF Waiting
    <2>2. QED
      BY <2>1, WaitShape, CommandTypes, Zenon DEF Op
  <1>3. script' = Leave(four) /\ Kept /\ PollDone
    BY <1>2, SpiOps, Zenon
  <1>4. busy = <<>> /\ UNCHANGED <<mem, busy, wel, mode4, select, image, slow>>
    BY <1>3, SMT DEF PollDone, chipVars
  <1>5. Still /\ Quiet' /\ mode4' = mode4
    <2>1. ~wel /\ select = <<>>
      BY <1>4, Zenon DEF Waiting
    <2>2. Still /\ busy' = <<>> /\ wel' = wel /\ select' = <<>> /\ mode4' = mode4
      BY <1>4, <2>1, SMT DEF Still
    <2>3. QED
      BY <2>1, <2>2, Zenon DEF Quiet
  <1>6. SoFar'
    <2>1. mem' = mem /\ busy' = busy
      BY <1>5, Zenon DEF Still
    <2>2. QED
      BY <1>3, <2>1, StillSoon, SameData, Zenon DEF Waiting
  <1>7. ReadBack'
    <2>1. req.op = "erase" \/ reads
      BY Zenon DEF Waiting
    <2>2. QED
      BY <1>3, <2>1, Zenon DEF Kept, ReadBack
  <1>8. Four' = four /\ mode4' = four
    BY <1>1, <1>3, <1>5, SameDevice, Zenon DEF Waiting, InMode
  <1>9. CASE four
    <2>1. script' = epcs_exit_4_bytes_mode
      BY <1>3, <1>9, Zenon DEF Leave
    <2>2. QED
      BY <1>3, <1>5, <1>6, <1>7, <1>8, <1>9, <2>1, Zenon DEF Leaving
  <1>10. CASE ~four
    <2>1. script' = <<>>
      BY <1>3, <1>10, Zenon DEF Leave
    <2>2. four = FALSE
      BY <1>10, Zenon
    <2>3. ~mode4'
      BY <1>8, <2>2, Zenon
    <2>4. QED
      BY <1>3, <1>5, <1>6, <1>7, <2>1, <2>3, Zenon DEF Between
  <1>11. QED
    BY <1>9, <1>10, Zenon

(* The read back. *)
LEMMA ReadingEarly ==
    ASSUME ChipTypeOK, Request, Found, Reading, Spi, NEW at, NEW four, Is(at, req.addr), Is(four, Four),
           ~(script = ReadFrom(at, four) /\ Quiet /\ InMode)
    PROVE  Reading' /\ Kept /\ Still
  <1>1. four \in BOOLEAN /\ Four = four /\ at = req.addr /\ at \in Int
    <2>1. four \in BOOLEAN /\ Four = four /\ at = req.addr /\ req.op \in {"write", "read"}
      BY FourBoolean, Zenon DEF Is, Reading
    <2>2. req.addr \in Addresses
      BY <2>1, SMT DEF Request
    <2>3. QED
      BY <2>1, <2>2, BoardFacts, SMT
  <1>2. Begins(PollFrom(at, four), Bare("poll"), ReadFrom(at, four)) /\ Bare("poll").op = "poll"
    BY <1>1, ReadShape, CommandTypes, Zenon DEF Op
  <1> DEFINE s == PollFrom(at, four)
  <1>3. s \in Seq(Command)
    BY <1>2, Zenon DEF Begins
  <1>4. Unsent(s)
    BY <1>1, Zenon DEF Reading
  <1>5. ASSUME Kept, Still,
               Unsent(s)' \/ (script' = ReadFrom(at, four) /\ Quiet' /\ InMode')
        PROVE  Reading' /\ Kept /\ Still
    <2>1. mem' = mem /\ busy' = busy
      BY <1>5, Zenon DEF Still
    <2>2. SoFar'
      BY <1>5, <2>1, StillSoon, SameData, Zenon DEF Reading
    <2>3. req' = req /\ loop' = loop /\ reads' = reads /\ InChip' = InChip /\ Four' = four
      BY <1>1, <1>5, SameDevice, Zenon DEF Kept
    <2> HIDE DEF s
    <2>4. Unsent(PollFrom(req.addr, Four))' \/ (script' = ReadFrom(req'.addr, Four') /\ Quiet' /\ InMode')
      BY <1>1, <1>5, <2>3, Zenon DEF s
    <2>5. QED
      BY <1>5, <2>2, <2>3, <2>4, Zenon DEF Reading
  <1>6. CASE ~(script = s /\ Quiet /\ InMode)
    <2> HIDE DEF s
    <2>1. Unsent(s)' /\ Kept /\ Still
      BY <1>3, <1>4, <1>6, UnsentStep, Zenon
    <2>2. QED
      BY <1>5, <2>1, Zenon
  <1>7. CASE script = s /\ Quiet /\ InMode
    <2>1. script' = ReadFrom(at, four) /\ Kept /\ PollDone
      BY <1>2, <1>7, SpiOps, Zenon
    <2>2. UNCHANGED <<mem, busy, wel, mode4, select, image, slow>>
      BY <2>1, SMT DEF PollDone, chipVars
    <2>3. Still /\ wel' = wel /\ mode4' = mode4 /\ select' = select /\ busy' = busy
      BY <2>2, SMT DEF Still
    <2>4. Quiet' /\ InMode'
      BY <1>7, <2>1, <2>3, SameDevice, Zenon DEF Quiet, InMode
    <2> HIDE DEF s
    <2>5. QED
      BY <1>5, <2>1, <2>3, <2>4, Zenon
  <1>8. QED
    BY <1>6, <1>7, Zenon

LEMMA ReadingLast ==
    ASSUME ChipTypeOK, Request, Found, Reading, Spi, NEW at, NEW four, Is(at, req.addr), Is(four, Four),
           script = ReadFrom(at, four) /\ Quiet /\ InMode
    PROVE  (Leaving' \/ Between') /\ Kept /\ slow' = slow
  <1>1. four \in BOOLEAN /\ Four = four /\ at = req.addr /\ req.addr \in Addresses /\ at \in Nat
    <2>1. four \in BOOLEAN /\ Four = four /\ at = req.addr /\ req.op \in {"write", "read"}
      BY FourBoolean, Zenon DEF Is, Reading
    <2>2. req.addr \in Addresses
      BY <2>1, SMT DEF Request
    <2>3. QED
      BY <2>1, <2>2, BoardFacts, SMT
  <1> DEFINE c == Addressed("read", at, Packet, 0, four)
  <1>2. c.op = "read" /\ c.at = at /\ c.bytes = (IF four THEN 4 ELSE 3)
    BY SMT DEF Addressed
  <1>3. Begins(script, c, Leave(four))
    <2>1. at \in Int
      BY <1>1, SMT
    <2>2. QED
      BY <1>1, <2>1, ReadShape, Zenon
  <1> HIDE DEF c
  <1>4. script' = Leave(four) /\ Kept /\ Read /\ Head(script) = c
    BY <1>2, <1>3, SpiOps, Zenon DEF Begins
  <1>5. UNCHANGED <<mem, busy, wel, mode4, select, slow>>
    BY <1>4, SMT DEF Read, chipVars
  <1>6. mem' = mem /\ busy' = busy /\ wel' = wel /\ mode4' = mode4 /\ select' = select /\ slow' = slow
    BY <1>5, SMT
  <1>7. Takes(c)
    BY <1>1, <1>2, Zenon DEF Takes, Quiet, InMode
  <1>8. Decoded(at) = at
    <2>1. at + 0 = at /\ 0 \in 0..255 /\ at \in 0..(board.size - 1) /\ at % board.size = at
      <3>1. at < board.size
        BY <1>1, Zenon DEF Reading, InChip
      <3>2. QED
        BY <1>1, <3>1, BoardFacts, SMT
    <2>2. Decoded(at + 0) = (at + 0) % board.size
      BY <2>1, DecodedAt, Zenon
    <2>3. QED
      BY <2>1, <2>2, Zenon
  <1>9. image' = [j \in Probes |-> mem[(at + j) % board.size]]
    BY <1>2, <1>4, <1>7, <1>8, Zenon DEF Read
  <1>10. /\ req' = req /\ reads' = reads /\ InChip' = InChip /\ Four' = four /\ (\A o : Place(o)' = Place(o))
         /\ mode4' = four
    BY <1>1, <1>4, <1>6, SameDevice, Zenon DEF Kept, InMode
  <1>11. ReadBack'
    <2>1. ASSUME NEW j \in Probes PROVE image'[j] = mem'[Place(j)']
      <3>1. image'[j] = mem[(at + j) % board.size]
        BY <1>9, Zenon
      <3>2. Place(j) = (at + j) % board.size
        BY <1>1, Zenon DEF Place
      <3>3. QED
        BY <1>6, <1>10, <3>1, <3>2, Zenon
    <2>2. QED
      BY <2>1, Zenon DEF ReadBack
  <1>12. SoFar'
    BY <1>4, <1>6, StillSoon, SameData, Zenon DEF Reading
  <1>13. Quiet'
    BY <1>6, Zenon DEF Quiet
  <1>14. CASE four
    <2>1. script' = epcs_exit_4_bytes_mode
      BY <1>4, <1>14, Zenon DEF Leave
    <2>2. QED
      BY <1>4, <1>6, <1>10, <1>11, <1>12, <1>13, <1>14, <2>1, Zenon DEF Leaving
  <1>15. CASE ~four
    <2>1. script' = <<>>
      BY <1>4, <1>15, Zenon DEF Leave
    <2>2. four = FALSE
      BY <1>1, <1>15, Zenon
    <2>3. ~mode4'
      BY <1>10, <2>2, Zenon
    <2>4. QED
      BY <1>4, <1>6, <1>11, <1>12, <1>13, <2>1, <2>3, Zenon DEF Between
  <1>16. QED
    BY <1>14, <1>15, Zenon

(* The way out of four byte mode. *)
LEMMA LeavingStep ==
    ASSUME ChipTypeOK, Found, Leaving, Spi
    PROVE  (Leaving' \/ Between') /\ Kept /\ Still
  <1>1. ASSUME Kept, Still PROVE SoFar' /\ ReadBack' /\ Four'
    <2>1. mem' = mem /\ busy' = busy /\ image' = image
      BY <1>1, Zenon DEF Still
    <2>2. SoFar'
      BY <1>1, <2>1, StillSoon, SameData, Zenon DEF Leaving
    <2>3. req' = req /\ reads' = reads /\ InChip' = InChip /\ Four' = Four /\ \A o : Place(o)' = Place(o)
      BY <1>1, SameDevice, Zenon DEF Kept
    <2>4. ReadBack'
      BY <2>1, <2>3, Zenon DEF Leaving, ReadBack
    <2>5. QED
      BY <2>2, <2>3, <2>4, Zenon DEF Leaving
  <1>2. CASE script = epcs_exit_4_bytes_mode /\ Quiet
    <2>1. Begins(script, Bare("wren"), <<Bare("dis4b")>>) /\ Bare("wren").op = "wren"
      BY <1>2, LeaveShape, CommandTypes, Zenon DEF Op
    <2>2. script' = <<Bare("dis4b")>> /\ Kept /\ WriteEnable
      BY <2>1, SpiOps, Zenon
    <2>3. wel' /\ mode4' = mode4 /\ select' = select /\ Still
      BY <1>2, <2>2, Enables, Zenon DEF Quiet
    <2>4. Armed' /\ mode4'
      BY <1>2, <2>3, Zenon DEF Armed, Quiet, Still, Leaving
    <2>5. QED
      BY <1>1, <2>2, <2>3, <2>4, Zenon DEF Leaving
  <1>3. CASE script = <<Bare("dis4b")>> /\ Armed
    <2>1. Begins(script, Bare("dis4b"), <<>>) /\ Bare("dis4b").op = "dis4b"
      BY <1>3, LeaveShape, CommandTypes, Zenon DEF Op
    <2>2. script' = <<>> /\ Kept /\ FourByteMode
      BY <2>1, SpiOps, Zenon
    <2>3. ~wel' /\ (mode4' <=> Head(script).op = "en4b") /\ select' = select /\ Still
      BY <1>3, <2>2, Switches, Zenon DEF Armed
    <2>4. Head(script).op = "dis4b" /\ "dis4b" # "en4b"
      <3>1. "dis4b" # "en4b"
        OBVIOUS
      <3>2. QED
        BY <2>1, <3>1, Zenon DEF Begins
    <2>5. Quiet' /\ ~mode4'
      BY <1>3, <2>3, <2>4, Zenon DEF Armed, Quiet, Still
    <2>6. QED
      BY <1>1, <2>2, <2>3, <2>5, Zenon DEF Between
  <1>4. QED
    BY <1>2, <1>3, Zenon DEF Leaving

(* Every command leaves the request in hand as the invariant wants it. *)
Slowly == slow > 0 => req.op = "erase" /\ Soon(0) = {}

LEMMA SpiBusy ==
    ASSUME FlashInv, Spi
    PROVE  /\ power = "run" /\ req # Idle /\ script # <<>> /\ ChipTypeOK /\ Request /\ Slowly
           /\ Found /\ (Paging \/ Erasing \/ Waiting \/ Reading \/ Leaving)
           /\ answer = Idle
  <1>1. power = "run" /\ script # <<>>
    BY Zenon DEF Spi, WriteEnable, FourByteMode, SectorErase, PageProgram, PageData, PollDone, Read, Sends
  <1>2. req # Idle /\ Handling /\ Request /\ ChipTypeOK
    BY <1>1, Zenon DEF FlashInv
  <1>3. Slowly /\ answer = Idle
    BY <1>1, <1>2, Zenon DEF FlashInv, Slowly
  <1>4. ~Between
    BY <1>1, Zenon DEF Between
  <1>5. QED
    BY <1>1, <1>2, <1>3, <1>4, Zenon DEF Handling

LEMMA StillSlowly ==
    ASSUME Slowly, Kept, Still
    PROVE  Slowly'
  BY Zenon DEF Slowly, Kept, Still, Soon

LEMMA SpiHandling ==
    ASSUME FlashInv, Spi
    PROVE  Handling' /\ Kept /\ Slowly'
  <1>1. /\ ChipTypeOK /\ Request /\ Slowly /\ Found
        /\ (Paging \/ Erasing \/ Waiting \/ Reading \/ Leaving)
    BY SpiBusy, Zenon
  <1>2. Kept
    BY Zenon DEF Kept, Spi, WriteEnable, FourByteMode, SectorErase, PageProgram, PageData, PollDone, Read, Sent,
       reqVars
  <1>3. Found'
    BY <1>1, <1>2, SameDevice, Zenon
  <1>4. CASE Paging
    <2>1. PICK f \in 0..(Packet - 1) : PagingAt(req.addr + f, Packet - loop.len - f, f, Four)
      BY <1>4, Zenon DEF Paging
    <2>2. PICK at, n, four : at = req.addr + f /\ n = Packet - loop.len - f /\ four = Four
      OBVIOUS
    <2>3. PagingCase(at, n, f, four)
      BY <2>1, <2>2, Zenon DEF PagingCase, Is
    <2>4. (Paging' \/ Waiting') /\ slow' = slow
      BY <1>1, <1>4, <2>3, PagingEarly, PagingLast, Zenon
    <2>5. ~(slow > 0)
      <3>1. "write" # "erase"
        OBVIOUS
      <3>2. QED
        BY <1>1, <1>4, <3>1, Zenon DEF Paging, Slowly
    <2>6. QED
      BY <1>2, <1>3, <2>4, <2>5, Zenon DEF Handling, Slowly
  <1>5. CASE Erasing
    <2>1. PICK at, i, four : i = loop.at - 1 /\ at = BlockAt(i) /\ four = Four
      OBVIOUS
    <2>2. ErasingCase(at, i, four)
      <3>1. Is(i, loop.at - 1) /\ Is(at, BlockAt(i)) /\ Is(four, Four)
        BY <2>1, Zenon DEF Is
      <3>2. at = BlockAt(loop.at - 1)
        BY <2>1, Zenon
      <3>3. QED
        BY <1>5, <2>1, <3>1, <3>2, Zenon DEF ErasingCase, Erasing
    <2>3. CASE SectorNext(at, four)
      <3>1. Waiting' /\ Soon(0)' = {}
        BY <1>1, <1>5, <2>2, <2>3, ErasingLast, Zenon
      <3>2. req' = req /\ req.op = "erase"
        BY <1>2, <1>5, Zenon DEF Kept, Erasing
      <3>3. QED
        BY <1>2, <1>3, <3>1, <3>2, Zenon DEF Handling, Slowly
    <2>4. CASE ~SectorNext(at, four)
      <3>1. Erasing' /\ slow' = slow /\ Soon(0)' = Soon(0)
        BY <1>1, <1>5, <2>2, <2>4, ErasingEarly, Zenon
      <3>2. QED
        BY <1>1, <1>2, <1>3, <3>1, Zenon DEF Handling, Slowly, Kept
    <2>5. QED
      BY <2>3, <2>4, Zenon
  <1>6. CASE Waiting
    <2>1. (Leaving' \/ Between') /\ Still
      BY <1>1, <1>6, WaitingStep, Zenon
    <2>2. QED
      BY <1>1, <1>2, <1>3, <2>1, StillSlowly, Zenon DEF Handling
  <1>7. CASE Reading
    <2>1. PICK at, four : at = req.addr /\ four = Four
      OBVIOUS
    <2>2. Is(at, req.addr) /\ Is(four, Four)
      BY <2>1, Zenon DEF Is
    <2>3. CASE script = ReadFrom(at, four) /\ Quiet /\ InMode
      <3>1. (Leaving' \/ Between') /\ slow' = slow
        BY <1>1, <1>7, <2>2, <2>3, ReadingLast, Zenon
      <3>2. ~(slow > 0)
        <4>1. req.op # "erase"
          BY <1>7, SMT DEF Reading
        <4>2. QED
          BY <1>1, <4>1, Zenon DEF Slowly
      <3>3. QED
        BY <1>2, <1>3, <3>1, <3>2, Zenon DEF Handling, Slowly
    <2>4. CASE ~(script = ReadFrom(at, four) /\ Quiet /\ InMode)
      <3>1. Reading' /\ Still
        BY <1>1, <1>7, <2>2, <2>4, ReadingEarly, Zenon
      <3>2. QED
        BY <1>1, <1>2, <1>3, <3>1, StillSlowly, Zenon DEF Handling
    <2>5. QED
      BY <2>3, <2>4, Zenon
  <1>8. CASE Leaving
    <2>1. (Leaving' \/ Between') /\ Still
      BY <1>1, <1>8, LeavingStep, Zenon
    <2>2. QED
      BY <1>1, <1>2, <1>3, <2>1, StillSlowly, Zenon DEF Handling
  <1>9. QED
    BY <1>1, <1>4, <1>5, <1>6, <1>7, <1>8, Zenon

LEMMA SpiInv ==
    ASSUME FlashInv, Spi
    PROVE  FlashInv'
  <1>1. Handling' /\ Kept /\ Slowly' /\ ChipTypeOK'
    BY SpiHandling, SpiBusy, SpiTyped, Zenon
  <1>2. power = "run" /\ req # Idle /\ Request /\ answer = Idle
    BY SpiBusy, Zenon
  <1>3. power' = power /\ req' = req /\ loop' = loop /\ reads' = reads /\ answer' = answer /\ InChip' = InChip
    BY <1>1, SameDevice, Zenon DEF Kept
  <1>4. Request'
    BY <1>2, <1>3, Zenon DEF Request
  <1>5. power' = "run" /\ power' # "copier" /\ power' # "off"
    BY <1>2, <1>3, SMT
  <1>6. Confirmed'
    BY <1>2, <1>3, Zenon DEF Confirmed
  <1>7. QED
    BY <1>1, <1>2, <1>3, <1>4, <1>5, <1>6, Zenon DEF FlashInv, Slowly

-----------------------------------------------------------------------------
(* The calls of the driver.                                                 *)

LEMMA UnsentSends ==
    ASSUME NEW s \in Seq(Command), s # <<>>, Unsent(s)
    PROVE  script # <<>>
  <1>1. Begins(Entering(s), Bare("wren"), <<Bare("en4b")>> \o s) /\ Begins(<<Bare("en4b")>> \o s, Bare("en4b"), s)
    BY EnteringShape, Zenon
  <1>2. Entering(s) # <<>> /\ <<Bare("en4b")>> \o s # <<>>
    BY <1>1, Zenon DEF Begins
  <1>3. QED
    BY <1>2, Zenon DEF Unsent

LEMMA CallsBetween ==
    ASSUME FlashInv, Calls
    PROVE  Between /\ Request /\ ChipTypeOK /\ Slowly /\ answer = Idle /\ power = "run" /\ req # Idle
  <1>1. power = "run" /\ req # Idle /\ script = <<>>
    BY Zenon DEF Calls
  <1>2. Handling /\ Request /\ ChipTypeOK
    BY <1>1, Zenon DEF FlashInv
  <1>3. Slowly /\ answer = Idle
    BY <1>1, <1>2, Zenon DEF FlashInv, Slowly
  <1>4. PICK four \in BOOLEAN : four = Four
    BY <1>2, FourBoolean, Zenon
  <1>5. ~Paging
    <2> SUFFICES ASSUME Paging PROVE FALSE
      OBVIOUS
    <2>1. PICK f \in 0..(Packet - 1) : PagingAt(req.addr + f, Packet - loop.len - f, f, Four)
      BY Zenon DEF Paging
    <2>2. PICK at, n : at = req.addr + f /\ n = Packet - loop.len - f
      OBVIOUS
    <2>3. PagingAt(at, n, f, four) /\ req.op = "write"
      BY <1>4, <2>1, <2>2, Zenon DEF Paging
    <2>4. PageCase(at, n, f)
      BY <2>2, <2>3, Zenon DEF PageCase, PagingAt, Is
    <2>5. PageBounds(at, n, f)
      BY <1>2, <2>3, <2>4, WriteFacts, Zenon
    <2>6. at \in Int /\ n \in Int /\ f \in Int
      BY <2>5, SMT DEF PageBounds
    <2>7. /\ Begins(PageFrom(at, n, f, four), Bare("wren"), PpFrom(at, n, f, four))
          /\ Begins(PpFrom(at, n, f, four), Addressed("pp", at, n, f, four), DataFrom(at, n, f, four))
          /\ Begins(DataFrom(at, n, f, four), Addressed("data", at, n, f, four), Wait(four))
      BY <2>6, PageShape, Zenon
    <2> DEFINE s == PageFrom(at, n, f, four)
    <2>8. s \in Seq(Command) /\ s # <<>>
      BY <2>7, Zenon DEF Begins
    <2>9. PpFrom(at, n, f, four) # <<>> /\ DataFrom(at, n, f, four) # <<>>
      BY <2>7, Zenon DEF Begins
    <2>10. Unsent(s)
      BY <1>1, <2>3, <2>9, Zenon DEF PagingAt, DataNext
    <2> HIDE DEF s
    <2>11. QED
      BY <1>1, <2>8, <2>10, UnsentSends, Zenon
  <1>6. ~Erasing
    <2> SUFFICES ASSUME Erasing PROVE FALSE
      OBVIOUS
    <2>1. PICK at, i : i = loop.at - 1 /\ at = BlockAt(i)
      OBVIOUS
    <2>2. ErasingCase(at, i, four)
      <3>1. Is(i, loop.at - 1) /\ Is(at, BlockAt(i)) /\ Is(four, Four)
        BY <1>4, <2>1, Zenon DEF Is
      <3>2. at = BlockAt(loop.at - 1)
        BY <2>1, Zenon
      <3>3. QED
        BY <1>4, <3>1, <3>2, Zenon DEF ErasingCase, Erasing
    <2>3. at \in Int
      BY <1>2, <2>2, EraseFacts, Zenon
    <2>4. /\ Begins(EraseFrom(at, four), Bare("wren"), SeFrom(at, four))
          /\ Begins(SeFrom(at, four), Addressed("se", at, 0, 0, four), Wait(four))
      BY <2>3, EraseShape, Zenon
    <2> DEFINE s == EraseFrom(at, four)
    <2>5. s \in Seq(Command) /\ s # <<>> /\ SeFrom(at, four) # <<>>
      BY <2>4, Zenon DEF Begins
    <2>6. Unsent(s)
      BY <1>1, <2>2, <2>5, Zenon DEF ErasingCase, ErasingAt, SectorNext
    <2> HIDE DEF s
    <2>7. QED
      BY <1>1, <2>5, <2>6, UnsentSends, Zenon
  <1>7. ~Waiting
    <2>1. Wait(four) # <<>>
      BY WaitShape, Zenon DEF Begins
    <2>2. QED
      BY <1>1, <1>4, <2>1, Zenon DEF Waiting
  <1>8. ~Reading
    <2> SUFFICES ASSUME Reading PROVE FALSE
      OBVIOUS
    <2>1. PICK at : at = req.addr
      OBVIOUS
    <2>2. at \in Int
      <3>1. req.op \in {"write", "read"}
        BY Zenon DEF Reading
      <3>2. req.addr \in Addresses
        BY <1>2, <3>1, SMT DEF Request
      <3>3. QED
        BY <1>2, <2>1, <3>2, BoardFacts, SMT
    <2>3. /\ Begins(PollFrom(at, four), Bare("poll"), ReadFrom(at, four))
          /\ Begins(ReadFrom(at, four), Addressed("read", at, Packet, 0, four), Leave(four))
      BY <2>2, ReadShape, Zenon
    <2> DEFINE s == PollFrom(at, four)
    <2>4. s \in Seq(Command) /\ s # <<>> /\ ReadFrom(at, four) # <<>>
      BY <2>3, Zenon DEF Begins
    <2>5. Unsent(s)
      BY <1>1, <1>4, <2>1, <2>4, Zenon DEF Reading
    <2> HIDE DEF s
    <2>6. QED
      BY <1>1, <2>4, <2>5, UnsentSends, Zenon
  <1>9. ~Leaving
    <2>1. epcs_exit_4_bytes_mode # <<>> /\ <<Bare("dis4b")>> # <<>>
      BY LeaveShape, Zenon DEF Begins
    <2>2. QED
      BY <1>1, <2>1, Zenon DEF Leaving
  <1>10. QED
    BY <1>1, <1>2, <1>3, <1>5, <1>6, <1>7, <1>8, <1>9, Zenon DEF Handling

(* The chip is where a call finds it, and the call has just been prepared. *)
ChipKept == UNCHANGED <<mem, busy, wel, mode4, select>>
Called == UNCHANGED <<board, power, devs, req, image, slow, answer>> /\ ChipKept

LEMMA UnsentFirst ==
    ASSUME ChipTypeOK, Between, Called, NEW s, NEW four, Is(four, Four), script' = Around(four, s)
    PROVE  Unsent(s)'
  <1>1. Quiet' /\ ~mode4' /\ mode4' \in BOOLEAN
    <2>1. Quiet /\ ~mode4
      BY Zenon DEF Between
    <2>2. busy' = busy /\ wel' = wel /\ select' = select /\ mode4' = mode4
      BY Zenon DEF Called, ChipKept
    <2>3. QED
      BY <2>1, <2>2, Zenon DEF Quiet, ChipTypeOK
  <1>2. Four' = four /\ four \in BOOLEAN
    <2>1. Four' = Four
      BY Zenon DEF Called, Four, fd
    <2>2. QED
      BY <2>1, FourBoolean, Zenon DEF Is
  <1>3. CASE four
    BY <1>1, <1>2, <1>3, Zenon DEF Unsent, Around
  <1>4. CASE ~four
    <2>1. mode4' = FALSE /\ four = FALSE
      BY <1>1, <1>2, <1>4, Zenon
    <2>2. script' = s
      BY <1>4, Zenon DEF Around
    <2>3. QED
      BY <1>1, <1>2, <2>1, <2>2, Zenon DEF Unsent, InMode
  <1>5. QED
    BY <1>3, <1>4, Zenon

LEMMA CalledSame ==
    ASSUME Called
    PROVE  /\ Four' = Four /\ Found' = Found /\ InChip' = InChip /\ (\A o : Place(o)' = Place(o))
           /\ \A c : Soon(c)' = Soon(c)
           /\ \A n : WrittenTo(n)' <=> WrittenTo(n)
           /\ \A i : ErasedTo(i)' <=> ErasedTo(i)
           /\ Slowly' <=> Slowly
  <1>1. /\ Four' = Four /\ Found' = Found /\ InChip' = InChip /\ (\A o : Place(o)' = Place(o))
        /\ board' = board /\ req' = req /\ slow' = slow /\ mem' = mem /\ busy' = busy
    BY Zenon DEF Called, ChipKept, Four, fd, Found, InChip, Place
  <1>2. \A c : Soon(c)' = Soon(c)
    BY <1>1, Zenon DEF Soon
  <1>3. ASSUME NEW n PROVE WrittenTo(n)' <=> WrittenTo(n)
    BY <1>1, <1>2, Zenon DEF WrittenTo
  <1>4. ASSUME NEW i PROVE ErasedTo(i)' <=> ErasedTo(i)
    BY <1>1, <1>2, Zenon DEF ErasedTo
  <1>5. Slowly' <=> Slowly
    BY <1>1, <1>2, Zenon DEF Slowly
  <1>6. QED
    BY <1>1, <1>2, <1>3, <1>4, <1>5, Zenon

LEMMA CalledInv ==
    ASSUME FlashInv, Calls, Called, reads' \in BOOLEAN, Handling', Request'
    PROVE  FlashInv'
  <1>1. ChipTypeOK /\ Slowly /\ answer = Idle /\ power = "run" /\ req # Idle
    BY CallsBetween, Zenon
  <1>2. /\ power' = power /\ req' = req /\ answer' = answer /\ board' = board /\ mem' = mem /\ wel' = wel
        /\ mode4' = mode4 /\ slow' = slow /\ busy' = busy /\ devs' = devs
    BY Zenon DEF Called, ChipKept
  <1>3. ChipTypeOK'
    BY <1>1, <1>2, Zenon DEF ChipTypeOK
  <1>4. power' = "run" /\ power' # "copier" /\ power' # "off"
    BY <1>1, <1>2, SMT
  <1>5. Slowly' /\ Confirmed'
    BY <1>1, <1>2, CalledSame, Zenon DEF Confirmed
  <1>6. QED
    BY <1>1, <1>2, <1>3, <1>4, <1>5, Zenon DEF FlashInv, Slowly

(* Where a page write is cut. *)
CutAt(at, len) ==
    LET n == length_of_current_write(at, len)
    IN  /\ n \in 1..len /\ (at % page_size) + n <= page_size /\ next_page_start(at) \in Nat
        /\ n < len => next_page_start(at) = at + n

LEMMA PageCuts ==
    ASSUME NEW at \in Nat, NEW len \in Nat \ {0}
    PROVE  CutAt(at, len)
  <1> DEFINE q == at \div page_size
             m == at % page_size
  <1>1. q \in Nat /\ m \in 0..255 /\ at = q * 256 + m /\ page_size = 256
    BY SMT DEF page_size
  <1>2. next_page_start(at) = (q + 1) * page_size
    BY Zenon DEF next_page_start
  <1> HIDE DEF q, m
  <1>3. next_page_start(at) = at + (256 - m)
    BY <1>1, <1>2, SMT
  <1> DEFINE n == length_of_current_write(at, len)
             e == next_page_start(at)
  <1>4. n = IF len < e - at THEN len ELSE e - at
    BY Zenon DEF length_of_current_write
  <1> HIDE DEF n, e
  <1>5. e = at + (256 - m)
    BY <1>3, Zenon DEF e
  <1>6. n \in 1..len /\ m + n <= 256 /\ e \in Nat /\ (n < len => e = at + n)
    BY <1>1, <1>4, <1>5, SMT
  <1>7. (at % page_size) + n <= page_size
    BY <1>1, <1>6, Zenon DEF m
  <1>8. QED
    BY <1>6, <1>7, Zenon DEF CutAt, n, e

LEMMA WritePageInv ==
    ASSUME FlashInv, WritePage
    PROVE  FlashInv'
  <1>1. /\ Between /\ Request /\ ChipTypeOK /\ Calls /\ req.op = "write" /\ loop.len > 0
    BY CallsBetween, Zenon DEF WritePage
  <1>2. /\ req.addr \in Addresses /\ loop.len \in 0..Packet /\ reads /\ InChip /\ loop.at = req.addr + (Packet - loop.len)
    BY <1>1, SMT DEF Request
  <1>3. Called /\ reads' = reads
    BY SMT DEF WritePage, Called, ChipKept, chipVars
  <1>4. PICK at, l, f, a, four : at = loop.at /\ l = loop.len /\ f = Packet - l /\ a = req.addr /\ four = Four
    OBVIOUS
  <1>5. PICK n, e : n = length_of_current_write(at, l) /\ e = next_page_start(at)
    OBVIOUS
  <1>6. a \in Nat /\ l \in 1..256 /\ f \in 0..255 /\ at = a + f /\ at \in Nat
    <2>1. a \in Nat
      BY <1>1, <1>2, <1>4, BoardFacts, SMT
    <2>2. l \in 0..256 /\ l > 0
      BY <1>1, <1>2, <1>4, Zenon DEF Packet
    <2>3. f = 256 - l
      BY <1>4, Zenon DEF Packet
    <2>4. at = a + f
      BY <1>2, <1>4, Zenon
    <2>5. QED
      BY <2>1, <2>2, <2>3, <2>4, SMT
  <1>7. n \in 1..l /\ (at % page_size) + n <= page_size /\ e \in Nat /\ (n < l => e = at + n)
    <2>1. l \in Nat \ {0}
      BY <1>6, SMT
    <2>2. CutAt(at, l)
      BY <1>6, <2>1, PageCuts, Zenon
    <2>3. QED
      BY <1>5, <2>2, Zenon DEF CutAt
  <1>8. script' = Around(four, PageFrom(at, n, f, four)) /\ loop'.at = e /\ loop'.len = l - n
    <2>1. four \in BOOLEAN /\ at \in Int /\ n \in Int /\ f \in Int
      BY <1>1, <1>4, <1>6, <1>7, FourBoolean, SMT
    <2>2. script' = epcs_write_buffer(at, n, f, four) /\ loop' = Loop(e, l - n)
      BY <1>4, <1>5, Zenon DEF WritePage, Four, fd, Packet
    <2>3. Loop(e, l - n).at = e /\ Loop(e, l - n).len = l - n
      BY SMT DEF Loop
    <2>4. QED
      BY <2>1, <2>2, <2>3, PageCall, Zenon
  <1>9. Unsent(PageFrom(at, n, f, four))'
    <2>1. Is(four, Four)
      BY <1>4, Zenon DEF Is
    <2>2. QED
      BY <1>1, <1>3, <1>8, <2>1, UnsentFirst, Zenon
  <1>10. /\ req' = req /\ InChip' = InChip /\ Four' = four /\ board' = board /\ Found' = Found
         /\ WrittenTo(f)'
    <2>1. WrittenTo(f)
      BY <1>1, <1>4, Zenon DEF Between, SoFar
    <2>2. QED
      BY <1>3, <1>4, <2>1, CalledSame, Zenon DEF Called
  <1>11. PagingAt(at, n, f, four)'
    <2>1. n > 0
      BY <1>6, <1>7, SMT
    <2>2. QED
      BY <1>7, <1>9, <1>10, <2>1, Zenon DEF PagingAt
  <1>12. req'.addr + f = at /\ Packet - loop'.len - f = n /\ f \in 0..(Packet - 1)
    <2>1. f = 256 - l /\ n \in Int /\ l \in Int
      BY <1>4, <1>6, <1>7, SMT DEF Packet
    <2>2. 256 - (l - n) - f = n
      BY <2>1, SMT
    <2>3. req'.addr + f = at
      BY <1>4, <1>6, <1>10, Zenon
    <2>4. f \in 0..(Packet - 1)
      BY <1>6, SMT DEF Packet
    <2>5. Packet - loop'.len - f = n
      BY <1>8, <2>2, Zenon DEF Packet
    <2>6. QED
      BY <2>3, <2>4, <2>5, Zenon
  <1>13. Paging'
    <2>1. PagingAt(req.addr + f, Packet - loop.len - f, f, Four)'
      BY <1>10, <1>11, <1>12, Zenon
    <2>2. QED
      BY <1>1, <1>2, <1>3, <1>10, <1>12, <2>1, Zenon DEF Paging
  <1>14. Handling'
    BY <1>2, <1>10, <1>13, Zenon DEF Handling, InChip
  <1>15. Request'
    <2>1. loop'.len \in 0..Packet /\ loop'.at \in Nat
      <3>1. l - n \in 0..256
        BY <1>6, <1>7, SMT
      <3>2. QED
        BY <1>7, <1>8, <3>1, Zenon DEF Packet
    <2>2. loop'.len > 0 => loop'.at = req'.addr + (Packet - loop'.len)
      <3>1. n \in Int /\ l \in Int /\ f = 256 - l /\ at = a + f /\ a \in Nat
        BY <1>4, <1>6, <1>7, SMT DEF Packet
      <3>2. l - n > 0 => e = a + (256 - (l - n))
        BY <1>7, <3>1, SMT
      <3>3. req'.addr = a
        BY <1>4, <1>10, Zenon
      <3>4. QED
        BY <1>8, <3>2, <3>3, Zenon DEF Packet
    <2>3. req'.op = "write" /\ req'.addr \in Addresses /\ reads' /\ InChip'
      BY <1>1, <1>2, <1>3, <1>10, Zenon
    <2>4. QED
      BY <2>1, <2>2, <2>3, Zenon DEF Request
  <1>16. QED
    BY <1>1, <1>3, <1>14, <1>15, CalledInv, Zenon DEF ChipTypeOK

(* A call that is refused leaves nothing to send. *)
LEMMA NothingSent ==
    ASSUME Between, Called, script' = <<>>, SoFar', ReadBack'
    PROVE  Between'
  <1>1. busy' = busy /\ wel' = wel /\ select' = select /\ mode4' = mode4
    BY Zenon DEF Called, ChipKept
  <1>2. QED
    BY <1>1, Zenon DEF Between, Quiet

(* An address outside of the chip leaves the blocks as they are. *)
LEMMA RefusedBlock ==
    ASSUME ChipTypeOK, Found, NEW i \in Nat, BlockAt(i) \notin 0..(board.size - 1), ErasedTo(i)
    PROVE  ErasedTo(i + 1)
  <1>1. board.size \in Nat /\ board.size <= 1024 * 131072
    BY TheChip, SMT DEF Sizes
  <1>2. ASSUME NEW c \in Watch, c < board.size, c < (i + 1) * EPCS_BLOCK_SIZE
        PROVE  c < i * EPCS_BLOCK_SIZE
    <2> DEFINE z == board.size
    <2>0. c \in Nat
      BY WatchNat, Zenon
    <2>1. c \in Nat /\ z \in Nat /\ z <= 1024 * 131072 /\ c < z
      BY <1>1, <1>2, <2>0, SMT
    <2> HIDE DEF z
    <2>2. CASE i < 65536
      <3>1. BlockAt(i) = i * EPCS_BLOCK_SIZE /\ BlockAt(i) \in Nat
        BY <2>2, SMT DEF BlockAt, EPCS_BLOCK_SIZE
      <3>2. BlockAt(i) \notin 0..(z - 1)
        BY Zenon DEF z
      <3>3. BlockAt(i) >= z
        BY <2>1, <3>1, <3>2, SMT
      <3>4. QED
        BY <2>1, <3>1, <3>3, SMT DEF EPCS_BLOCK_SIZE
    <2>3. CASE i >= 65536
      BY <2>1, <2>3, SMT DEF EPCS_BLOCK_SIZE
    <2>4. QED
      BY <2>2, <2>3, SMT
  <1>3. QED
    BY <1>2, Zenon DEF ErasedTo

LEMMA EraseBlockInv ==
    ASSUME FlashInv, EraseBlock
    PROVE  FlashInv'
  <1>1. /\ Between /\ Request /\ ChipTypeOK /\ Calls /\ req.op = "erase" /\ loop.len > 0
    BY CallsBetween, Zenon DEF EraseBlock
  <1>2. loop.at \in Nat /\ loop.len \in Nat /\ ~reads /\ req.count = loop.at + loop.len
    BY <1>1, SMT DEF Request
  <1>3. Called /\ reads' = reads
    BY SMT DEF EraseBlock, Called, ChipKept, chipVars
  <1>4. PICK i, l, at, four : i = loop.at /\ l = loop.len /\ at = BlockAt(i) /\ four = Four
    OBVIOUS
  <1>5. i \in Nat /\ l \in Nat /\ l > 0
    BY <1>1, <1>2, <1>4, Zenon
  <1>6. four \in BOOLEAN /\ at \in Int /\ Is(four, Four)
    <2>1. BlockAt(i) \in Int
      BY <1>5, SMT DEF BlockAt, EPCS_BLOCK_SIZE
    <2>2. QED
      BY <1>1, <1>4, <2>1, FourBoolean, Zenon DEF Is
  <1>7. script' = image_erase(devs, i) /\ loop'.at = i + 1 /\ loop'.len = l - 1
    <2>1. script' = image_erase(devs, i) /\ loop' = Loop(i + 1, l - 1)
      BY <1>4, Zenon DEF EraseBlock
    <2>2. Loop(i + 1, l - 1).at = i + 1 /\ Loop(i + 1, l - 1).len = l - 1
      BY SMT DEF Loop
    <2>3. QED
      BY <2>1, <2>2, Zenon
  <1>8. req' = req /\ board' = board /\ Found' = Found /\ Four' = four /\ \A k : ErasedTo(k)' <=> ErasedTo(k)
    BY <1>3, <1>4, CalledSame, Zenon DEF Called
  <1>9. Request'
    <2>1. i + 1 \in Nat /\ l - 1 \in Nat /\ i + l = (i + 1) + (l - 1)
      BY <1>5, SMT
    <2>2. /\ req'.op = "erase" /\ loop'.at \in Nat /\ loop'.len \in Nat /\ ~reads'
          /\ req'.count = loop'.at + loop'.len
      BY <1>1, <1>2, <1>3, <1>4, <1>7, <1>8, <2>1, Zenon
    <2>3. QED
      BY <2>2, Zenon DEF Request
  <1>10. ErasedTo(i) /\ ErasedTo(i)'
    BY <1>1, <1>4, <1>8, Zenon DEF Between, SoFar
  <1>11. ASSUME ErasedTo(i + 1), script' = <<>> PROVE Between'
    <2>1. ErasedTo(i + 1)'
      BY <1>8, <1>11, Zenon
    <2>2. ErasedTo(loop.at)'
      BY <1>7, <2>1, Zenon
    <2>3. req'.op = "erase" /\ "erase" # "write"
      <3>1. "erase" # "write"
        OBVIOUS
      <3>2. QED
        BY <1>1, <1>8, <3>1, Zenon
    <2>4. SoFar' /\ ReadBack'
      BY <2>2, <2>3, Zenon DEF SoFar, ReadBack
    <2>5. QED
      BY <1>1, <1>3, <1>11, <2>4, NothingSent, Zenon
  <1>12. CASE ~Found
    <2>1. fd = NoFlash
      BY <1>12, Zenon DEF Found, fd, alt_flash_open_dev
    <2>2. script' = <<>>
      BY <1>7, <2>1, Zenon DEF image_erase, fd
    <2>3. ErasedTo(i + 1)
      BY <1>12, Zenon DEF ErasedTo
    <2>4. Handling'
      BY <1>11, <2>2, <2>3, Zenon DEF Handling
    <2>5. QED
      BY <1>1, <1>3, <1>9, <2>4, CalledInv, Zenon DEF ChipTypeOK
  <1>13. CASE Found
    <2>1. fd # NoFlash /\ fd.size = board.size
      BY <1>1, <1>13, TheChip, Zenon
    <2>2. script' = IF at \in 0..(board.size - 1) THEN epcs_sector_erase(at, four) ELSE <<>>
      BY <1>4, <1>7, <2>1, Zenon
      DEF image_erase, fd, Four, alt_erase_flash_block, alt_epcs_flash_erase_block, alt_epcs_test_address
    <2>3. CASE at \notin 0..(board.size - 1)
      <3>1. script' = <<>>
        BY <2>2, <2>3, Zenon
      <3>2. ErasedTo(i + 1)
        BY <1>1, <1>4, <1>5, <1>10, <1>13, <2>3, RefusedBlock, Zenon
      <3>3. Handling'
        BY <1>11, <3>1, <3>2, Zenon DEF Handling
      <3>4. QED
        BY <1>1, <1>3, <1>9, <3>3, CalledInv, Zenon DEF ChipTypeOK
    <2>4. CASE at \in 0..(board.size - 1)
      <3>1. script' = Around(four, EraseFrom(at, four))
        BY <1>6, <2>2, <2>4, EraseCall, Zenon
      <3>2. Unsent(EraseFrom(at, four))'
        BY <1>1, <1>3, <1>6, <3>1, UnsentFirst, Zenon
      <3>3. loop'.at - 1 = i /\ loop'.at > 0
        <4>1. (i + 1) - 1 = i /\ i + 1 > 0
          BY <1>5, SMT
        <4>2. QED
          BY <1>7, <4>1, Zenon
      <3>4. BlockAt(loop.at - 1)' = at /\ at < board.size
        <4>1. at < board.size
          BY <1>1, <2>4, BoardFacts, SMT
        <4>2. QED
          BY <1>4, <3>3, <4>1, Zenon
      <3>5. ErasingAt(BlockAt(loop.at - 1), Four)'
        <4>1. ErasingAt(at, four)'
          BY <3>2, Zenon DEF ErasingAt
        <4>2. QED
          BY <1>8, <3>4, <4>1, Zenon
      <3>6. ErasedTo(loop.at - 1)'
        BY <1>10, <3>3, Zenon
      <3>7. req'.op = "erase" /\ Found' /\ (BlockAt(loop.at - 1) < board.size)'
        BY <1>1, <1>8, <1>13, <3>4, Zenon
      <3>8. Erasing'
        BY <3>3, <3>5, <3>6, <3>7, Zenon DEF Erasing
      <3>9. Handling'
        BY <3>7, <3>8, Zenon DEF Handling
      <3>10. QED
        BY <1>1, <1>3, <1>9, <3>9, CalledInv, Zenon DEF ChipTypeOK
    <2>5. QED
      BY <2>3, <2>4, Zenon
  <1>14. QED
    BY <1>12, <1>13, Zenon

LEMMA ReadImageInv ==
    ASSUME FlashInv, ReadImage
    PROVE  FlashInv'
  <1>1. /\ Between /\ Request /\ ChipTypeOK /\ Calls /\ loop.len = 0 /\ reads
    BY CallsBetween, Zenon DEF ReadImage
  <1>2. req.op \in {"write", "read"} /\ req.addr \in Addresses /\ req.op # "erase"
    BY <1>1, SMT DEF Request
  <1>3. Called /\ loop' = loop /\ ~reads' /\ reads' \in BOOLEAN
    <2>1. Called /\ loop' = loop
      BY SMT DEF ReadImage, Called, ChipKept, chipVars
    <2>2. ~reads' /\ reads' \in BOOLEAN
      BY Zenon DEF ReadImage
    <2>3. QED
      BY <2>1, <2>2, Zenon
  <1>4. PICK a, four : a = req.addr /\ four = Four
    OBVIOUS
  <1>5. four \in BOOLEAN /\ a \in Nat /\ a \in Int /\ Is(four, Four)
    <2>1. a \in Nat
      BY <1>1, <1>2, <1>4, BoardFacts, SMT
    <2>2. a \in Int
      BY <2>1, SMT
    <2>3. QED
      BY <1>1, <1>4, <2>1, <2>2, FourBoolean, Zenon DEF Is
  <1>6. /\ req' = req /\ board' = board /\ Found' = Found /\ Four' = four /\ InChip' = InChip
        /\ \A k : WrittenTo(k)' <=> WrittenTo(k)
    BY <1>3, <1>4, CalledSame, Zenon DEF Called
  <1>7. Request'
    <2>1. ~(loop.len > 0)
      BY <1>1, SMT
    <2>2. QED
      BY <1>1, <1>2, <1>3, <1>6, <2>1, Zenon DEF Request
  <1>8. SoFar'
    BY <1>1, <1>2, <1>3, <1>6, Zenon DEF Between, SoFar
  <1>9. ASSUME ~InChip, script' = <<>> PROVE FlashInv'
    <2>1. ReadBack'
      BY <1>6, <1>9, Zenon DEF ReadBack
    <2>2. Handling'
      BY <1>1, <1>3, <1>8, <1>9, <2>1, NothingSent, Zenon DEF Handling
    <2>3. QED
      BY <1>1, <1>3, <1>7, <2>2, CalledInv, Zenon
  <1>10. CASE ~Found
    <2>1. fd = NoFlash
      BY <1>10, Zenon DEF Found, fd, alt_flash_open_dev
    <2>2. script' = <<>>
      BY <2>1, Zenon DEF ReadImage, image_read, fd
    <2>3. QED
      BY <1>9, <1>10, <2>2, Zenon DEF InChip
  <1>11. CASE Found
    <2>1. fd # NoFlash /\ fd.size = board.size
      BY <1>1, <1>11, TheChip, Zenon
    <2>2. script' = IF a \in 0..(board.size - 1) THEN epcs_read_buffer(a, Packet, four) ELSE <<>>
      BY <1>4, <2>1, Zenon
      DEF ReadImage, image_read, fd, Four, alt_read_flash, alt_epcs_flash_read, alt_epcs_test_address, Packet
    <2>3. CASE a \notin 0..(board.size - 1)
      <3>1. script' = <<>>
        BY <2>2, <2>3, Zenon
      <3>2. ~(req.addr < board.size)
        BY <1>1, <1>4, <1>5, <2>3, BoardFacts, SMT
      <3>3. QED
        BY <1>9, <3>1, <3>2, Zenon DEF InChip
    <2>4. CASE a \in 0..(board.size - 1)
      <3>1. script' = Around(four, PollFrom(a, four))
        BY <1>5, <2>2, <2>4, ReadCall, Zenon
      <3>2. Unsent(PollFrom(a, four))'
        BY <1>1, <1>3, <1>5, <3>1, UnsentFirst, Zenon
      <3>3. Unsent(PollFrom(req.addr, Four))'
        BY <1>4, <1>6, <3>2, Zenon
      <3>4. InChip'
        <4>1. req.addr < board.size
          BY <1>1, <1>4, <2>4, BoardFacts, SMT
        <4>2. QED
          BY <1>6, <1>11, <4>1, Zenon DEF InChip
      <3>5. Reading'
        BY <1>1, <1>2, <1>3, <1>6, <1>8, <3>3, <3>4, Zenon DEF Reading
      <3>6. Handling'
        BY <1>6, <1>11, <3>5, Zenon DEF Handling
      <3>7. QED
        BY <1>1, <1>3, <1>7, <3>6, CalledInv, Zenon
    <2>5. QED
      BY <2>3, <2>4, Zenon
  <1>12. QED
    BY <1>10, <1>11, Zenon

-----------------------------------------------------------------------------
(* The requests of the PC, and their answers.                               *)

LEMMA ReadyIdle ==
    ASSUME FlashInv, Ready
    PROVE  ChipTypeOK /\ power = "run" /\ script = <<>> /\ Quiet /\ ~mode4
  BY Zenon DEF FlashInv, Ready

AcceptedAs(r, pages, back, data) == Accept(r, pages, back, data) /\ back \in BOOLEAN

(* What a request is accepted with, whatever it asks for. *)
LEMMA AcceptFrame ==
    ASSUME FlashInv, NEW r, NEW pages, NEW back, NEW data, AcceptedAs(r, pages, back, data)
    PROVE  /\ ChipTypeOK /\ req' = r /\ loop' = pages /\ reads' = back
           /\ board' = board /\ devs' = devs /\ mem' = mem /\ busy' = busy
           /\ (SoFar' /\ ReadBack' /\ Request' /\ r # Idle => FlashInv')
  <1>1. ChipTypeOK /\ power = "run" /\ script = <<>> /\ Quiet /\ ~mode4
    BY ReadyIdle, Zenon DEF AcceptedAs, Accept
  <1>2. UNCHANGED <<board, mem, busy, wel, mode4, select, power, devs, script>>
    BY SMT DEF AcceptedAs, Accept, chipVars
  <1>3. req' = r /\ loop' = pages /\ reads' = back /\ slow' = 0 /\ answer' = Idle /\ back \in BOOLEAN
    BY Zenon DEF AcceptedAs, Accept
  <1>4. /\ board' = board /\ mem' = mem /\ busy' = busy /\ wel' = wel /\ mode4' = mode4 /\ select' = select
        /\ power' = power /\ devs' = devs /\ script' = script
    BY <1>2, Zenon
  <1>5. slow' \in Nat /\ ~(slow' > 0)
    BY <1>3, SMT
  <1>6. ChipTypeOK'
    BY <1>1, <1>3, <1>4, <1>5, Zenon DEF ChipTypeOK
  <1>7. power' = "run" /\ power' # "copier" /\ power' # "off"
    BY <1>1, <1>4, SMT
  <1>8. Quiet' /\ ~mode4' /\ script' = <<>>
    BY <1>1, <1>4, Zenon DEF Quiet
  <1>9. Confirmed'
    BY <1>3, Zenon DEF Confirmed
  <1>10. ASSUME SoFar', ReadBack', Request', r # Idle PROVE FlashInv'
    <2>1. Handling'
      BY <1>8, <1>10, Zenon DEF Handling, Between
    <2>2. req' # Idle
      BY <1>3, <1>10, Zenon
    <2>3. QED
      BY <1>3, <1>5, <1>6, <1>7, <1>9, <1>10, <2>1, <2>2, Zenon DEF FlashInv
  <1>11. QED
    BY <1>1, <1>3, <1>4, <1>10, Zenon

LEMMA RequestWriteInv ==
    ASSUME FlashInv, NEW a \in Addresses, NEW d \in Data, RequestWrite(a, d)
    PROVE  FlashInv'
  <1> DEFINE r == [op |-> "write", addr |-> a, data |-> d]
             pages == image_write(devs, a)
             data == [j \in Probes |-> {<<d, j>>}]
  <1>1. AcceptedAs(r, pages, TRUE, data)
    BY Zenon DEF RequestWrite, AcceptedAs
  <1>2. r.op = "write" /\ r.addr = a /\ r # Idle /\ "write" # "erase"
    BY SMT DEF Idle
  <1> HIDE DEF r, data, pages
  <1>3. /\ ChipTypeOK /\ req' = r /\ loop' = pages /\ reads' = TRUE
        /\ board' = board /\ devs' = devs /\ mem' = mem /\ busy' = busy
        /\ (SoFar' /\ ReadBack' /\ Request' /\ r # Idle => FlashInv')
    BY <1>1, AcceptFrame, Zenon
  <1>4. Found' = Found /\ (InChip' <=> Found /\ a < board.size)
    BY <1>2, <1>3, Zenon DEF Found, InChip
  <1>5. a \in Nat /\ board.size \in Nat \ {0}
    BY <1>3, BoardFacts, SMT
  <1>6. (a \div EPCS_BLOCK_SIZE) * EPCS_BLOCK_SIZE + (a % EPCS_BLOCK_SIZE) = a
    BY <1>5, SMT DEF EPCS_BLOCK_SIZE
  <1>7. pages = IF fd = NoFlash THEN Nothing
                ELSE IF a \in 0..(fd.size - 1) THEN Loop(a, Packet) ELSE Nothing
    BY <1>6, Zenon DEF pages, image_write, fd, alt_write_flash_block, alt_epcs_flash_write_block,
       alt_epcs_test_address, Packet
  <1>8. Nothing.len = 0 /\ Nothing.at = 0 /\ Loop(a, Packet).len = 256 /\ Loop(a, Packet).at = a
    BY SMT DEF Nothing, Loop, Packet
  <1>9. InChip' => pages = Loop(a, Packet)
    <2>1. ASSUME Found, a < board.size PROVE pages = Loop(a, Packet)
      <3>1. fd # NoFlash /\ fd.size = board.size
        BY <1>3, <2>1, TheChip, Zenon
      <3>2. a \in 0..(board.size - 1)
        BY <1>5, <2>1, SMT
      <3>3. QED
        BY <1>7, <3>1, <3>2, Zenon
    <2>2. QED
      BY <1>4, <2>1, Zenon
  <1>10. pages = Loop(a, Packet) => InChip'
    <2>1. ASSUME pages = Loop(a, Packet) PROVE Found /\ a < board.size
      <3>1. pages # Nothing
        BY <1>8, <2>1, SMT
      <3>2. fd # NoFlash /\ a \in 0..(fd.size - 1)
        BY <1>7, <3>1, Zenon
      <3>3. Found
        BY <3>2, Zenon DEF Found, fd, alt_flash_open_dev
      <3>4. fd.size = board.size
        BY <1>3, <3>3, TheChip, Zenon
      <3>5. a \in 0..(board.size - 1)
        BY <3>2, <3>4, Zenon
      <3>6. QED
        BY <1>5, <3>3, <3>5, SMT
    <2>2. QED
      BY <1>4, <2>1, Zenon
  <1>11. pages = Nothing \/ pages = Loop(a, Packet)
    BY <1>7, Zenon
  <1>12. SoFar'
    <2>1. ASSUME InChip', NEW o \in Probes, o < Packet - loop'.len PROVE FALSE
      <3>1. loop'.len = 256
        BY <1>3, <1>8, <1>9, <2>1, Zenon
      <3>2. o \in Nat
        BY <1>3, BoardFacts, SMT
      <3>3. Packet - loop'.len = 0
        BY <3>1, SMT DEF Packet
      <3>4. o < 0
        BY <2>1, <3>3, Zenon
      <3>5. QED
        BY <3>2, <3>4, SMT
    <2>2. WrittenTo(Packet - loop.len)'
      BY <2>1, Zenon DEF WrittenTo
    <2>3. QED
      BY <1>2, <1>3, <2>2, Zenon DEF SoFar
  <1>13. ReadBack'
    BY <1>3, Zenon DEF ReadBack
  <1>14. Request'
    <2>1. loop'.len \in 0..Packet /\ loop'.at \in Nat
      <3>1. CASE pages = Nothing
        BY <1>3, <1>8, <3>1, SMT DEF Packet
      <3>2. CASE pages = Loop(a, Packet)
        BY <1>3, <1>5, <1>8, <3>2, SMT DEF Packet
      <3>3. QED
        BY <1>11, <3>1, <3>2, Zenon
    <2>2. loop'.len > 0 => reads' /\ InChip' /\ loop'.at = req'.addr + (Packet - loop'.len)
      <3>1. ASSUME loop'.len > 0 PROVE pages = Loop(a, Packet)
        <4>1. pages # Nothing
          BY <1>3, <1>8, <3>1, SMT
        <4>2. QED
          BY <1>11, <4>1, Zenon
      <3>2. ASSUME pages = Loop(a, Packet) PROVE loop'.at = req'.addr + (Packet - loop'.len)
        <4>1. loop'.at = a /\ loop'.len = 256 /\ req'.addr = a
          BY <1>2, <1>3, <1>8, <3>2, Zenon
        <4>2. a + (Packet - 256) = a
          BY <1>5, SMT DEF Packet
        <4>3. QED
          BY <4>1, <4>2, Zenon
      <3>3. QED
        BY <1>3, <1>10, <3>1, <3>2, Zenon
    <2>3. req'.op = "write" /\ req'.addr \in Addresses
      BY <1>2, <1>3, Zenon
    <2>4. QED
      BY <2>1, <2>2, <2>3, Zenon DEF Request
  <1>15. QED
    BY <1>2, <1>3, <1>12, <1>13, <1>14, Zenon

LEMMA RequestReadInv ==
    ASSUME FlashInv, NEW a \in Addresses, RequestRead(a)
    PROVE  FlashInv'
  <1> DEFINE r == [op |-> "read", addr |-> a]
  <1>1. AcceptedAs(r, Nothing, TRUE, image)
    BY Zenon DEF RequestRead, AcceptedAs
  <1>2. r.op = "read" /\ r.addr = a /\ r # Idle /\ "read" # "write" /\ "read" # "erase"
    BY SMT DEF Idle
  <1> HIDE DEF r
  <1>3. /\ req' = r /\ loop' = Nothing /\ reads' = TRUE
        /\ (SoFar' /\ ReadBack' /\ Request' /\ r # Idle => FlashInv')
    BY <1>1, AcceptFrame, Zenon
  <1>4. SoFar' /\ ReadBack'
    BY <1>2, <1>3, Zenon DEF SoFar, ReadBack
  <1>5. Request'
    BY <1>2, <1>3, Zenon DEF Request
  <1>6. QED
    BY <1>2, <1>3, <1>4, <1>5, Zenon

LEMMA RequestEraseInv ==
    ASSUME FlashInv, NEW n \in Counts, RequestErase(n)
    PROVE  FlashInv'
  <1> DEFINE r == [op |-> "erase", count |-> n]
  <1>1. AcceptedAs(r, Loop(0, n), FALSE, image)
    BY Zenon DEF RequestErase, AcceptedAs
  <1>2. r.op = "erase" /\ r.count = n /\ r # Idle /\ "erase" # "write"
    BY SMT DEF Idle
  <1>3. Loop(0, n).at = 0 /\ Loop(0, n).len = n /\ n \in Nat /\ 0 + n = n /\ 0 \in Nat
    BY RemoteUpdateAssumption, SMT DEF Loop
  <1> HIDE DEF r
  <1>4. /\ req' = r /\ loop' = Loop(0, n) /\ reads' = FALSE
        /\ (SoFar' /\ ReadBack' /\ Request' /\ r # Idle => FlashInv')
    BY <1>1, AcceptFrame, Zenon
  <1>5. ErasedTo(loop.at)'
    <2>1. 0 * EPCS_BLOCK_SIZE = 0
      BY SMT DEF EPCS_BLOCK_SIZE
    <2>2. loop'.at * EPCS_BLOCK_SIZE = 0
      BY <1>3, <1>4, <2>1, Zenon
    <2>3. ASSUME NEW c \in Watch, c < 0 PROVE FALSE
      BY <2>3, WatchNat, SMT
    <2>4. QED
      BY <2>2, <2>3, Zenon DEF ErasedTo
  <1>6. SoFar' /\ ReadBack'
    BY <1>2, <1>4, <1>5, Zenon DEF SoFar, ReadBack
  <1>7. Request'
    <2>1. req'.op = "erase" /\ loop'.at \in Nat /\ loop'.len \in Nat /\ ~reads' /\ req'.count = loop'.at + loop'.len
      BY <1>2, <1>3, <1>4, Zenon
    <2>2. QED
      BY <2>1, Zenon DEF Request
  <1>8. QED
    BY <1>2, <1>4, <1>6, <1>7, Zenon

LEMMA FinishInv ==
    ASSUME FlashInv, Finish
    PROVE  FlashInv'
  <1>1. /\ Between /\ Request /\ ChipTypeOK /\ power = "run" /\ loop.len = 0 /\ ~reads
    BY CallsBetween, Zenon DEF Finish
  <1>2. UNCHANGED <<board, mem, busy, wel, mode4, select, power, devs, reads, script, slow>>
    BY SMT DEF Finish, chipVars
  <1>3. /\ board' = board /\ mem' = mem /\ busy' = busy /\ wel' = wel /\ mode4' = mode4 /\ select' = select
        /\ power' = power /\ devs' = devs /\ script' = script /\ reads' = reads /\ slow' = slow
    BY <1>2, Zenon
  <1>4. answer' = [request |-> req, data |-> image] /\ req' = Idle
    BY Zenon DEF Finish
  <1>5. answer'.request = req /\ answer'.data = image
    BY <1>4, SMT
  <1>6. ChipTypeOK'
    BY <1>1, <1>3, Zenon DEF ChipTypeOK
  <1>7. script' = <<>> /\ Quiet' /\ ~mode4'
    BY <1>1, <1>3, Zenon DEF Between, Quiet
  <1>8. power' = "run" /\ power' # "copier" /\ power' # "off"
    BY <1>1, <1>3, SMT
  <1>9. ASSUME Found, req.op = "erase", NEW c \in Watch, c < board.size, c < req.count * EPCS_BLOCK_SIZE
        PROVE  mem[c] = {}
    <2>1. loop.at \in Nat /\ req.count = loop.at + loop.len
      BY <1>1, <1>9, SMT DEF Request
    <2>2. req.count = loop.at
      BY <1>1, <2>1, SMT
    <2>3. Soon(c) = {}
      BY <1>1, <1>9, <2>2, Zenon DEF Between, SoFar, ErasedTo
    <2>4. QED
      BY <1>1, <2>3, Zenon DEF Between, Quiet, Soon
  <1>10. ASSUME Found, req.op # "erase", req.addr < board.size, NEW j \in Probes
         PROVE  /\ image[j] = mem[(req.addr + j) % board.size]
                /\ req.op = "write" => <<req.data, j>> \in image[j]
    <2>1. image[j] = mem[Place(j)]
      BY <1>1, <1>10, Zenon DEF Between, ReadBack, InChip
    <2>2. ASSUME req.op = "write" PROVE <<req.data, j>> \in image[j]
      <3>1. j < Packet - loop.len
        BY <1>1, BoardFacts, SMT DEF Packet
      <3>2. <<req.data, j>> \in Soon(Place(j))
        BY <1>1, <1>10, <2>2, <3>1, Zenon DEF Between, SoFar, WrittenTo, InChip
      <3>3. QED
        BY <1>1, <2>1, <3>2, Zenon DEF Between, Quiet, Soon
    <2>3. QED
      BY <2>1, <2>2, Zenon DEF Place
  <1>11. Confirmed'
    BY <1>3, <1>5, <1>9, <1>10, Zenon DEF Confirmed, Found
  <1>12. QED
    BY <1>4, <1>6, <1>7, <1>8, <1>11, Zenon DEF FlashInv

-----------------------------------------------------------------------------
(* The chip and the restarts.                                               *)

LEMMA OutsideRun ==
    ASSUME FlashInv, power # "run"
    PROVE  ChipTypeOK /\ req = Idle /\ script = <<>> /\ devs = {} /\ answer = Idle
  BY Zenon DEF FlashInv

LEMMA DoneSoon ==
    ASSUME ChipTypeOK, ChipDone
    PROVE  \A c \in Watch : Soon(c)' = Soon(c)
  <1>1. busy # <<>> /\ mem' = Overwrite(busy[1]) /\ busy' = <<>>
    BY Zenon DEF ChipDone
  <1>2. ASSUME NEW c \in Watch PROVE Soon(c)' = Soon(c)
    <2>1. mem'[c] = IF c \in DOMAIN busy[1] THEN busy[1][c] ELSE mem[c]
      BY <1>1, Zenon DEF Overwrite
    <2>2. QED
      BY <1>1, <2>1, Zenon DEF Soon
  <1>3. QED
    BY <1>2, Zenon

LEMMA DoneHandling ==
    ASSUME ChipTypeOK, Request, Found, Waiting, ChipDone
    PROVE  Waiting'
  <1>1. /\ busy' = <<>> /\ ~wel' /\ select' = select /\ script' = script /\ mode4' = mode4 /\ board' = board
        /\ devs' = devs /\ req' = req /\ loop' = loop /\ reads' = reads
    <2>1. busy' = <<>> /\ ~wel'
      BY Zenon DEF ChipDone
    <2>2. UNCHANGED <<board, mode4, select, devs, req, loop, reads, script>>
      BY SMT DEF ChipDone, reqVars
    <2>3. QED
      BY <2>1, <2>2, Zenon
  <1>2. Four' = Four /\ Found' = Found /\ InChip' = InChip /\ \A o : Place(o)' = Place(o)
    BY <1>1, Zenon DEF Four, fd, Found, InChip, Place
  <1>3. \A c \in Watch : Soon(c)' = Soon(c)
    BY DoneSoon, Zenon
  <1>4. SoFar'
    <2>1. ASSUME req.op = "write" PROVE WrittenTo(Packet - loop.len)'
      <3>1. req.addr \in Addresses
        BY <2>1, SMT DEF Request
      <3>2. \A o \in Probes : Place(o) \in Watch
        BY <3>1, Watched, Zenon
      <3>3. WrittenTo(Packet - loop.len)
        BY <2>1, Zenon DEF Waiting, SoFar
      <3>4. \A o \in Probes : Soon(Place(o))' = Soon(Place(o))
        <4>1. ASSUME NEW o \in Probes PROVE Soon(Place(o))' = Soon(Place(o))
          <5>1. PICK x \in Watch : x = Place(o)
            BY <3>2, Zenon
          <5>2. Soon(x)' = Soon(x) /\ Place(o)' = x
            BY <1>2, <1>3, <5>1, Zenon
          <5>3. QED
            BY <5>1, <5>2, Zenon
        <4>2. QED
          BY <4>1, Zenon
      <3>5. QED
        BY <1>1, <1>2, <3>3, <3>4, Zenon DEF WrittenTo
    <2>2. ASSUME req.op = "erase" PROVE ErasedTo(loop.at)'
      <3>1. ErasedTo(loop.at)
        BY <2>2, Zenon DEF Waiting, SoFar
      <3>2. QED
        BY <1>1, <1>2, <1>3, <3>1, Zenon DEF ErasedTo
    <2>3. QED
      BY <1>1, <2>1, <2>2, Zenon DEF SoFar
  <1>5. QED
    BY <1>1, <1>2, <1>4, Zenon DEF Waiting, InMode

(* A write is in progress only while the driver waits for it. *)
LEMMA BusyWaits ==
    ASSUME FlashInv, power = "run", busy # <<>>
    PROVE  req # Idle /\ Found /\ Waiting /\ Request
  <1>1. req # Idle /\ Handling /\ Request
    BY Zenon DEF FlashInv, Quiet
  <1>2. ~Between /\ ~Reading /\ ~Leaving
    BY Zenon DEF Between, Reading, Leaving, Unsent, Quiet, Armed
  <1>3. ~Erasing /\ ~Paging
    BY Zenon DEF Erasing, ErasingAt, SectorNext, Paging, PagingAt, DataNext, Unsent, Quiet, Armed
  <1>4. QED
    BY <1>1, <1>2, <1>3, Zenon DEF Handling

LEMMA ChipDoneInv ==
    ASSUME FlashInv, ChipDone
    PROVE  FlashInv'
  <1>1. /\ busy # <<>> /\ busy' = <<>> /\ wel' = FALSE /\ mem' = Overwrite(busy[1])
    BY Zenon DEF ChipDone
  <1>2. UNCHANGED <<board, mode4, select, power, devs, req, loop, reads, script, slow, answer>>
    BY SMT DEF ChipDone, reqVars
  <1>3. /\ board' = board /\ mode4' = mode4 /\ select' = select /\ power' = power /\ devs' = devs /\ req' = req
        /\ loop' = loop /\ reads' = reads /\ script' = script /\ slow' = slow /\ answer' = answer
    BY <1>2, Zenon
  <1>4. ChipTypeOK /\ ChipTypeOK'
    <2>1. ChipTypeOK
      BY Zenon DEF FlashInv
    <2>2. DOMAIN mem' = Watch
      BY <1>1, Zenon DEF Overwrite
    <2>3. QED
      BY <1>1, <1>3, <2>1, <2>2, Zenon DEF ChipTypeOK
  <1>5. answer = Idle
    <2>1. power = "run" => req # Idle
      BY <1>1, BusyWaits, Zenon
    <2>2. QED
      BY <2>1, Zenon DEF FlashInv
  <1>6. Confirmed'
    BY <1>3, <1>5, Zenon DEF Confirmed
  <1>7. CASE power = "run"
    <2>1. req # Idle /\ Found /\ Waiting /\ Request
      BY <1>1, <1>7, BusyWaits, Zenon
    <2>2. Waiting'
      BY <1>4, <2>1, DoneHandling, Zenon
    <2>3. Handling'
      BY <1>3, <2>1, <2>2, Zenon DEF Handling, Found
    <2>4. Request'
      BY <1>3, <2>1, Zenon DEF Request, InChip, Found
    <2>5. slow' > 0 => req'.op = "erase" /\ Soon(0)' = {}
      <3>1. Soon(0)' = Soon(0)
        BY <1>4, DoneSoon, FirstByte, Zenon
      <3>2. slow > 0 => req.op = "erase" /\ Soon(0) = {}
        BY <1>7, <2>1, Zenon DEF FlashInv
      <3>3. QED
        BY <1>3, <3>1, <3>2, Zenon
    <2>6. power' = "run" /\ power' # "copier" /\ power' # "off"
      BY <1>3, <1>7, SMT
    <2>7. QED
      BY <1>3, <1>4, <1>5, <1>6, <2>1, <2>3, <2>4, <2>5, <2>6, Zenon DEF FlashInv
  <1>8. CASE power # "run"
    <2>1. req = Idle /\ script = <<>> /\ devs = {}
      BY <1>8, OutsideRun, Zenon
    <2>2. power = "copier" => select = <<>>
      BY Zenon DEF FlashInv
    <2>3. power # "off"
      BY <1>1, Zenon DEF FlashInv, Quiet
    <2>4. QED
      BY <1>1, <1>3, <1>4, <1>5, <1>6, <1>8, <2>1, <2>2, <2>3, Zenon DEF FlashInv
  <1>9. QED
    BY <1>7, <1>8, Zenon

LEMMA ForgetFrame ==
    ASSUME NEW p, Forget(p), ChipTypeOK
    PROVE  /\ power' = p /\ devs' = {} /\ req' = Idle /\ script' = <<>> /\ select' = <<>> /\ answer' = Idle
           /\ board' = board /\ reads' = FALSE /\ slow' \in Nat
           /\ Confirmed'
  <1>1. slow' \in Nat
    BY SMT DEF Forget
  <1>2. QED
    BY <1>1, Zenon DEF Forget, Confirmed

LEMMA WatchdogInv ==
    ASSUME FlashInv, Watchdog
    PROVE  FlashInv'
  <1>1. ChipTypeOK /\ power = "run" /\ slow >= Patience
    BY Zenon DEF FlashInv, Watchdog
  <1>2. slow > 0
    BY <1>1, RemoteUpdateAssumption, SMT DEF ChipTypeOK
  <1>3. /\ power' = "copier" /\ devs' = {} /\ req' = Idle /\ script' = <<>> /\ select' = <<>> /\ answer' = Idle
        /\ board' = board /\ reads' = FALSE /\ slow' \in Nat /\ Confirmed'
    BY <1>1, ForgetFrame, Zenon DEF Watchdog
  <1>4. mem' = mem /\ busy' = busy /\ wel' = wel /\ mode4' = mode4
    BY SMT DEF Watchdog
  <1>5. ChipTypeOK'
    BY <1>1, <1>3, <1>4, Zenon DEF ChipTypeOK
  <1>6. wel /\ busy = <<>> => mem[0] = {}
    <2>1. CASE req = Idle
      BY <1>1, <2>1, Zenon DEF FlashInv, Quiet
    <2>2. CASE req # Idle
      <3>1. Soon(0) = {}
        BY <1>1, <1>2, <2>2, Zenon DEF FlashInv
      <3>2. QED
        BY <3>1, Zenon DEF Soon
    <2>3. QED
      BY <2>1, <2>2, Zenon
  <1>7. power' # "run" /\ power' # "off"
    BY <1>3, SMT
  <1>8. QED
    BY <1>3, <1>4, <1>5, <1>6, <1>7, Zenon DEF FlashInv

LEMMA PowerCutInv ==
    ASSUME FlashInv, PowerCut
    PROVE  FlashInv'
  <1>1. ChipTypeOK
    BY Zenon DEF FlashInv
  <1>2. /\ power' = "off" /\ devs' = {} /\ req' = Idle /\ script' = <<>> /\ select' = <<>> /\ answer' = Idle
        /\ board' = board /\ reads' = FALSE /\ slow' \in Nat /\ Confirmed'
    BY <1>1, ForgetFrame, Zenon DEF PowerCut
  <1>3. busy' = <<>> /\ wel' = FALSE /\ mode4' = FALSE /\ DOMAIN mem' = Watch
    BY Zenon DEF PowerCut, Overwrite
  <1>4. ChipTypeOK' /\ Quiet' /\ ~mode4'
    BY <1>1, <1>2, <1>3, Zenon DEF ChipTypeOK, Quiet
  <1>5. power' # "run" /\ power' # "copier"
    BY <1>2, SMT
  <1>6. QED
    BY <1>2, <1>4, <1>5, Zenon DEF FlashInv

LEMMA PowerUpInv ==
    ASSUME FlashInv, PowerUp
    PROVE  FlashInv'
  <1>1. power = "off" /\ power # "run" /\ power' = "copier" /\ power' # "run" /\ power' # "off"
    BY SMT DEF PowerUp
  <1>2. ChipTypeOK /\ req = Idle /\ script = <<>> /\ devs = {} /\ answer = Idle /\ Quiet
    BY <1>1, OutsideRun, Zenon DEF FlashInv
  <1>3. UNCHANGED <<board, mem, busy, wel, mode4, select, devs, req, loop, reads, script, slow, answer>>
    BY SMT DEF PowerUp, chipVars, reqVars
  <1>4. ChipTypeOK' /\ Confirmed' /\ Quiet'
    BY <1>2, <1>3, Zenon DEF ChipTypeOK, Confirmed, Quiet
  <1>5. QED
    BY <1>1, <1>2, <1>3, <1>4, Zenon DEF FlashInv, Quiet

LEMMA BootInv ==
    ASSUME FlashInv, Boot
    PROVE  FlashInv'
  <1>1. power = "copier" /\ power # "run" /\ power' = "run" /\ power' # "copier" /\ power' # "off"
    BY SMT DEF Boot
  <1>2. /\ ChipTypeOK /\ req = Idle /\ script = <<>> /\ devs = {} /\ answer = Idle /\ select = <<>>
        /\ (wel /\ busy = <<>> => mem[0] = {})
    BY <1>1, OutsideRun, Zenon DEF FlashInv
  <1>3. Whole /\ busy = <<>> /\ ~mode4 /\ devs' = devs \cup alt_epcs_flash_query(board)
    BY Zenon DEF Boot, alt_dev_llist_insert
  <1>4. mem[0] # {}
    <2>1. Cardinality(mem[0]) = 1
      BY <1>2, <1>3, FirstByte, Zenon DEF Whole
    <2>2. Cardinality({}) = 0
      BY FS_EmptySet, Zenon
    <2>3. QED
      BY <2>1, <2>2, SMT
  <1>5. Quiet
    BY <1>2, <1>3, <1>4, Zenon DEF Quiet
  <1>6. UNCHANGED <<board, mem, busy, wel, mode4, select, req, loop, reads, script, slow, answer>>
    BY SMT DEF Boot, chipVars, reqVars
  <1>7. devs' = alt_epcs_flash_query(board')
    BY <1>2, <1>3, <1>6, Zenon
  <1>8. ChipTypeOK' /\ Confirmed' /\ Quiet'
    BY <1>2, <1>5, <1>6, <1>7, Zenon DEF ChipTypeOK, Confirmed, Quiet
  <1>9. QED
    BY <1>1, <1>2, <1>3, <1>6, <1>8, Zenon DEF FlashInv

LEMMA BootFailsInv ==
    ASSUME FlashInv, BootFails
    PROVE  FlashInv'
  <1>1. power = "copier" /\ power # "run" /\ power' # "run" /\ power' # "copier" /\ power' # "off"
    BY SMT DEF BootFails
  <1>2. ChipTypeOK /\ req = Idle /\ script = <<>> /\ devs = {} /\ answer = Idle
    BY <1>1, OutsideRun, Zenon
  <1>3. UNCHANGED <<board, mem, busy, wel, mode4, select, devs, req, loop, reads, script, slow, answer>>
    BY SMT DEF BootFails, chipVars, reqVars
  <1>4. ChipTypeOK' /\ Confirmed'
    BY <1>2, <1>3, Zenon DEF ChipTypeOK, Confirmed
  <1>5. QED
    BY <1>1, <1>2, <1>3, <1>4, Zenon DEF FlashInv

-----------------------------------------------------------------------------
(* The invariant, and what it says of the commands and of the answers.      *)

LEMMA FlashStart ==
    ASSUME Init
    PROVE  FlashInv
  <1>1. /\ board \in Boards /\ DOMAIN mem = Watch /\ busy = <<>> /\ wel = FALSE /\ mode4 = FALSE
        /\ select = <<>> /\ devs = {} /\ req = Idle /\ reads = FALSE /\ script = <<>> /\ answer = Idle
    BY Zenon DEF Init
  <1>2. slow \in Nat /\ power = "off" /\ power # "run" /\ power # "copier"
    BY SMT DEF Init
  <1>3. ChipTypeOK /\ Confirmed /\ Quiet
    BY <1>1, <1>2, Zenon DEF ChipTypeOK, Confirmed, Quiet
  <1>4. QED
    BY <1>1, <1>2, <1>3, Zenon DEF FlashInv

LEMMA FlashStutters ==
    ASSUME FlashInv, UNCHANGED vars
    PROVE  FlashInv'
  <1>1. UNCHANGED <<board, mem, busy, wel, mode4, select, power, devs, req, loop, reads, script, image, slow, answer>>
    BY SMT DEF vars, chipVars, reqVars
  <1>2. /\ board' = board /\ mem' = mem /\ busy' = busy /\ wel' = wel /\ mode4' = mode4 /\ select' = select
        /\ power' = power /\ devs' = devs /\ req' = req /\ loop' = loop /\ reads' = reads /\ script' = script
        /\ image' = image /\ slow' = slow /\ answer' = answer
    BY <1>1, Zenon
  <1>3. Four' = Four /\ Found' = Found /\ InChip' = InChip /\ \A o : Place(o)' = Place(o)
    BY <1>2, Zenon DEF Four, fd, Found, InChip, Place
  <1>4. \A c : Soon(c)' = Soon(c)
    BY <1>2, Zenon DEF Soon
  <1>5. /\ ChipTypeOK' <=> ChipTypeOK
        /\ Quiet' <=> Quiet
        /\ Armed' <=> Armed
        /\ InMode' <=> InMode
        /\ Request' <=> Request
        /\ Confirmed' <=> Confirmed
        /\ ReadBack' <=> ReadBack
    <2>1. (ChipTypeOK' <=> ChipTypeOK) /\ (Quiet' <=> Quiet) /\ (Armed' <=> Armed)
      BY <1>2, Zenon DEF ChipTypeOK, Quiet, Armed
    <2>2. (InMode' <=> InMode) /\ (Request' <=> Request)
      BY <1>2, <1>3, Zenon DEF InMode, Request
    <2>3. (Confirmed' <=> Confirmed) /\ (ReadBack' <=> ReadBack)
      BY <1>2, <1>3, Zenon DEF Confirmed, ReadBack
    <2>4. QED
      BY <2>1, <2>2, <2>3, Zenon
  <1>6. ASSUME NEW n PROVE WrittenTo(n)' <=> WrittenTo(n)
    BY <1>2, <1>3, <1>4, Zenon DEF WrittenTo
  <1>7. ASSUME NEW i PROVE ErasedTo(i)' <=> ErasedTo(i)
    BY <1>2, <1>3, <1>4, Zenon DEF ErasedTo
  <1>8. SoFar' <=> SoFar
    BY <1>2, <1>6, <1>7, Zenon DEF SoFar
  <1>9. ASSUME NEW s PROVE Unsent(s)' <=> Unsent(s)
    BY <1>2, <1>3, <1>5, Zenon DEF Unsent
  <1>10. ASSUME NEW at, NEW n, NEW f, NEW four PROVE PagingAt(at, n, f, four)' <=> PagingAt(at, n, f, four)
    <2>1. DataNext(at, n, f, four)' <=> DataNext(at, n, f, four)
      BY <1>2, <1>5, Zenon DEF DataNext
    <2>2. Unsent(PageFrom(at, n, f, four))' <=> Unsent(PageFrom(at, n, f, four))
      BY <1>9, Zenon
    <2>3. QED
      BY <1>2, <1>5, <1>6, <2>1, <2>2, Zenon DEF PagingAt
  <1>11. Paging' <=> Paging
    BY <1>2, <1>3, <1>10, Zenon DEF Paging
  <1>12. ASSUME NEW at, NEW four PROVE ErasingAt(at, four)' <=> ErasingAt(at, four)
    <2>1. SectorNext(at, four)' <=> SectorNext(at, four)
      BY <1>2, <1>5, Zenon DEF SectorNext
    <2>2. Unsent(EraseFrom(at, four))' <=> Unsent(EraseFrom(at, four))
      BY <1>9, Zenon
    <2>3. QED
      BY <2>1, <2>2, Zenon DEF ErasingAt
  <1>13. Erasing' <=> Erasing
    BY <1>2, <1>3, <1>7, <1>12, Zenon DEF Erasing
  <1>14. Waiting' <=> Waiting
    BY <1>2, <1>3, <1>5, <1>8, Zenon DEF Waiting
  <1>15. Reading' <=> Reading
    BY <1>2, <1>3, <1>5, <1>8, <1>9, Zenon DEF Reading
  <1>16. Leaving' <=> Leaving
    BY <1>2, <1>3, <1>5, <1>8, Zenon DEF Leaving
  <1>17. Between' <=> Between
    BY <1>2, <1>5, <1>8, Zenon DEF Between
  <1>18. Handling' <=> Handling
    BY <1>3, <1>11, <1>13, <1>14, <1>15, <1>16, <1>17, Zenon DEF Handling
  <1>19. QED
    BY <1>2, <1>4, <1>5, <1>18, Zenon DEF FlashInv

LEMMA FlashStep ==
    ASSUME FlashInv, [Next]_vars
    PROVE  FlashInv'
  <1>1. CASE ChipDone
    BY <1>1, ChipDoneInv, Zenon
  <1>2. CASE Firmware
    BY <1>2, SpiInv, WritePageInv, EraseBlockInv, ReadImageInv, Zenon DEF Firmware
  <1>3. CASE Finish
    BY <1>3, FinishInv, Zenon
  <1>4. CASE Watchdog \/ PowerCut \/ PowerUp \/ Boot \/ BootFails
    BY <1>4, WatchdogInv, PowerCutInv, PowerUpInv, BootInv, BootFailsInv, Zenon
  <1>5. ASSUME NEW a \in Addresses, NEW d \in Data, RequestWrite(a, d) PROVE FlashInv'
    BY <1>5, RequestWriteInv, Zenon
  <1>6. ASSUME NEW a \in Addresses, RequestRead(a) PROVE FlashInv'
    BY <1>6, RequestReadInv, Zenon
  <1>7. ASSUME NEW n \in Counts, RequestErase(n) PROVE FlashInv'
    BY <1>7, RequestEraseInv, Zenon
  <1>8. CASE UNCHANGED vars
    BY <1>8, FlashStutters, Zenon
  <1>9. QED
    BY <1>1, <1>2, <1>3, <1>4, <1>5, <1>6, <1>7, <1>8, Zenon DEF Next

Heard(c) ==
    /\ c.op # "poll" => busy = <<>>
    /\ c.op \in {"pp", "se", "data", "read"} =>
          Takes(c) /\ (c.op # "read" => wel) /\ (c.op = "data" => select # <<>>)

(* A command that carries no address needs an idle chip at most. *)
LEMMA BareHeard ==
    ASSUME NEW c, NEW t, Begins(script, c, t), c.op \in {"wren", "en4b", "dis4b", "poll"},
           busy = <<>> \/ c.op = "poll"
    PROVE  Heard(Head(script))
  <1>1. c.op \notin {"pp", "se", "data", "read"}
    BY SMT
  <1>2. QED
    BY <1>1, Zenon DEF Heard, Begins

LEMMA AddressedHeard ==
    ASSUME NEW c, NEW t, NEW four, Begins(script, c, t), Is(four, Four), InMode,
           c.bytes = (IF four THEN 4 ELSE 3), busy = <<>>, wel \/ c.op = "read", c.op = "data" => select # <<>>
    PROVE  Heard(Head(script))
  <1>1. mode4 = four /\ Head(script) = c
    BY Zenon DEF InMode, Is, Begins
  <1>2. QED
    BY <1>1, Zenon DEF Heard, Takes

LEMMA UnsentHeard ==
    ASSUME NEW s, NEW c, NEW t, Begins(s, c, t), c.op \in {"wren", "poll"}, Unsent(s)
    PROVE  Heard(Head(script))
  <1>1. s \in Seq(Command)
    BY Zenon DEF Begins
  <1>2. Bare("wren").op = "wren" /\ Bare("en4b").op = "en4b"
    BY CommandTypes, Zenon DEF Op
  <1>3. CASE script = Entering(s) /\ Quiet
    <2>1. Begins(script, Bare("wren"), <<Bare("en4b")>> \o s)
      BY <1>1, <1>3, EnteringShape, Zenon
    <2>2. QED
      BY <1>2, <1>3, <2>1, BareHeard, Zenon DEF Quiet
  <1>4. CASE script = <<Bare("en4b")>> \o s /\ Armed
    <2>1. Begins(script, Bare("en4b"), s)
      BY <1>1, <1>4, EnteringShape, Zenon
    <2>2. QED
      BY <1>2, <1>4, <2>1, BareHeard, Zenon DEF Armed
  <1>5. CASE script = s /\ Quiet
    BY <1>5, BareHeard, Zenon DEF Quiet
  <1>6. QED
    BY <1>3, <1>4, <1>5, Zenon DEF Unsent

LEMMA AllHeard ==
    ASSUME FlashInv, power = "run", script # <<>>
    PROVE  Heard(Head(script))
  <1>1. req # Idle /\ Handling /\ Request /\ ChipTypeOK /\ ~Between
    BY Zenon DEF FlashInv, Between
  <1>2. PICK four \in BOOLEAN : four = Four
    BY <1>1, FourBoolean, Zenon
  <1>3. Is(four, Four)
    BY <1>2, Zenon DEF Is
  <1>4. /\ Bare("wren").op = "wren" /\ Bare("poll").op = "poll" /\ Bare("dis4b").op = "dis4b"
    BY CommandTypes, Zenon DEF Op
  <1>5. CASE Paging
    <2>1. PICK f \in 0..(Packet - 1) : PagingAt(req.addr + f, Packet - loop.len - f, f, Four)
      BY <1>5, Zenon DEF Paging
    <2>2. PICK at, n : at = req.addr + f /\ n = Packet - loop.len - f
      OBVIOUS
    <2>3. PagingAt(at, n, f, four) /\ req.op = "write"
      BY <1>2, <1>5, <2>1, <2>2, Zenon DEF Paging
    <2>4. PageCase(at, n, f)
      BY <2>2, <2>3, Zenon DEF PageCase, PagingAt, Is
    <2>5. PageBounds(at, n, f)
      BY <1>1, <2>3, <2>4, WriteFacts, Zenon
    <2>6. at \in Int /\ n \in Int /\ f \in Int
      BY <2>5, SMT DEF PageBounds
    <2> DEFINE p == Addressed("pp", at, n, f, four)
               d == Addressed("data", at, n, f, four)
    <2>7. /\ p.bytes = (IF four THEN 4 ELSE 3) /\ d.bytes = (IF four THEN 4 ELSE 3)
          /\ p.op = "pp" /\ d.op = "data" /\ p.op # "data"
      BY SMT DEF Addressed
    <2>8. /\ Begins(PageFrom(at, n, f, four), Bare("wren"), PpFrom(at, n, f, four))
          /\ Begins(PpFrom(at, n, f, four), p, DataFrom(at, n, f, four))
          /\ Begins(DataFrom(at, n, f, four), d, Wait(four))
      BY <2>6, PageShape, Zenon
    <2>9. <<p>> # <<>>
      OBVIOUS
    <2>10. CASE Unsent(PageFrom(at, n, f, four))
      BY <1>4, <2>8, <2>10, UnsentHeard, Zenon
    <2>11. CASE script = PpFrom(at, n, f, four) /\ Armed /\ InMode
      <3> HIDE DEF p
      <3>1. QED
        BY <1>3, <2>7, <2>8, <2>11, AddressedHeard, Zenon DEF Armed
    <2>12. CASE DataNext(at, n, f, four)
      <3>1. select # <<>>
        BY <2>9, <2>12, Zenon DEF DataNext
      <3> HIDE DEF d
      <3>2. QED
        BY <1>3, <2>7, <2>8, <2>12, <3>1, AddressedHeard, Zenon DEF DataNext
    <2>13. QED
      BY <2>3, <2>10, <2>11, <2>12, Zenon DEF PagingAt
  <1>6. CASE Erasing
    <2>1. PICK at, i : i = loop.at - 1 /\ at = BlockAt(i)
      OBVIOUS
    <2>2. ErasingCase(at, i, four)
      <3>1. Is(i, loop.at - 1) /\ Is(at, BlockAt(i))
        BY <2>1, Zenon DEF Is
      <3>2. at = BlockAt(loop.at - 1)
        BY <2>1, Zenon
      <3>3. QED
        BY <1>2, <1>3, <1>6, <3>1, <3>2, Zenon DEF ErasingCase, Erasing
    <2>3. at \in Int
      BY <1>1, <1>6, <2>2, EraseFacts, Zenon
    <2> DEFINE e == Addressed("se", at, 0, 0, four)
    <2>4. e.bytes = (IF four THEN 4 ELSE 3) /\ e.op = "se" /\ e.op # "data"
      BY SMT DEF Addressed
    <2>5. /\ Begins(EraseFrom(at, four), Bare("wren"), SeFrom(at, four))
          /\ Begins(SeFrom(at, four), e, Wait(four))
      BY <2>3, EraseShape, Zenon
    <2>6. CASE Unsent(EraseFrom(at, four))
      BY <1>4, <2>5, <2>6, UnsentHeard, Zenon
    <2>7. CASE SectorNext(at, four)
      <3> HIDE DEF e
      <3>1. QED
        BY <1>3, <2>4, <2>5, <2>7, AddressedHeard, Zenon DEF SectorNext, Armed
    <2>8. QED
      BY <2>2, <2>6, <2>7, Zenon DEF ErasingCase, ErasingAt
  <1>7. CASE Waiting
    <2>1. Begins(script, Bare("poll"), Leave(four))
      BY <1>2, <1>7, WaitShape, Zenon DEF Waiting
    <2>2. QED
      BY <1>4, <2>1, BareHeard, Zenon
  <1>8. CASE Reading
    <2>1. PICK at : at = req.addr
      OBVIOUS
    <2>2. at \in Int
      <3>1. req.addr \in Addresses
        BY <1>1, <1>8, SMT DEF Reading, Request
      <3>2. QED
        BY <1>1, <2>1, <3>1, BoardFacts, SMT
    <2> DEFINE r == Addressed("read", at, Packet, 0, four)
    <2>3. r.bytes = (IF four THEN 4 ELSE 3) /\ r.op = "read" /\ r.op # "data"
      BY SMT DEF Addressed
    <2>4. /\ Begins(PollFrom(at, four), Bare("poll"), ReadFrom(at, four))
          /\ Begins(ReadFrom(at, four), r, Leave(four))
      BY <2>2, ReadShape, Zenon
    <2>5. CASE Unsent(PollFrom(at, four))
      BY <1>4, <2>4, <2>5, UnsentHeard, Zenon
    <2>6. CASE script = ReadFrom(at, four) /\ Quiet /\ InMode
      <3> HIDE DEF r
      <3>1. QED
        BY <1>3, <2>3, <2>4, <2>6, AddressedHeard, Zenon DEF Quiet
    <2>7. QED
      BY <1>2, <1>8, <2>1, <2>5, <2>6, Zenon DEF Reading
  <1>9. CASE Leaving
    <2>1. CASE script = epcs_exit_4_bytes_mode /\ Quiet
      BY <1>4, <2>1, LeaveShape, BareHeard, Zenon DEF Quiet
    <2>2. CASE script = <<Bare("dis4b")>> /\ Armed
      BY <1>4, <2>2, LeaveShape, BareHeard, Zenon DEF Armed
    <2>3. QED
      BY <1>9, <2>1, <2>2, Zenon DEF Leaving
  <1>10. QED
    BY <1>1, <1>5, <1>6, <1>7, <1>8, <1>9, Zenon DEF Handling

(* What the driver calls send is what the chip then expects. *)
LEMMA InvHears ==
    ASSUME FlashInv
    PROVE  NoneIgnored
  <1>1. power = "run" /\ script # <<>> => Heard(Head(script))
    BY AllHeard, Zenon
  <1>2. power = "run" /\ req = Idle => busy = <<>> /\ ~mode4 /\ ~wel
    BY Zenon DEF FlashInv, Quiet
  <1>3. QED
    BY <1>1, <1>2, Zenon DEF NoneIgnored, Heard

(* The invariant holds of the chip, the driver and the restarts together.   *)
THEOREM FlashConsistent == Spec => []FlashInv
  <1>1. Init => FlashInv
    BY FlashStart
  <1>2. FlashInv /\ [Next]_vars => FlashInv'
    BY FlashStep
  <1>3. QED
    BY <1>1, <1>2, PTL DEF Spec

(* The flash driver (alt_epcs_flash_* and epcs_commands.c) sends no command  *)
(* that the chip ignores: whatever page cuts, erases, refusals, restarts     *)
(* and power cuts come between, each finds the chip ready, write enabled     *)
(* where it must be, and in the address mode it is sent for; and between     *)
(* requests the chip is idle in three byte mode, as the boot copier needs.   *)
THEOREM NoCommandIgnored == Spec => []NoneIgnored
  <1>1. FlashInv => NoneIgnored
    BY InvHears
  <1>2. QED
    BY <1>1, FlashConsistent, PTL

(* A request of the remote update (pc2dev, image_write, image_read and       *)
(* image_erase) is finished only when it is done: what is replied to a write *)
(* or a read is what the flash holds, a written packet is in it, and the     *)
(* blocks that an erase counts are erased.                                   *)
THEOREM AnswersConfirmed == Spec => []Confirmed
  <1>1. FlashInv => Confirmed
    BY Zenon DEF FlashInv
  <1>2. QED
    BY <1>1, FlashConsistent, PTL

-----------------------------------------------------------------------------
(* The driver and the chip implement the byte store.  What is still to      *)
(* change is in three places: the write in progress, the commands of the    *)
(* call, and the rest of the loop.  They never disagree about a byte.       *)

Writes(s) == {s[i] : i \in {j \in DOMAIN s : s[j].op \in {"data", "se"}}}

(* What the request, or the write in progress that survives it, makes of a byte. *)
Goal(x) ==
    IF req.op = "write" THEN mem[x] \cup {<<req.data, (x - req.addr) % board.size>>}
    ELSE IF req.op = "erase" THEN {} ELSE busy[1][x]

Aimed(c) == Target(c, c.at % board.size)
InBusy(x) == busy # <<>> /\ x \in DOMAIN busy[1]
InCall(x) == \E c \in Writing : x \in DOMAIN Aimed(c)
InRest(x) == x \in DOMAIN Rest
Covered(x) == InBusy(x) \/ InCall(x) \/ InRest(x)
Changes(x) == Covered(x) /\ Goal(x) # mem[x]

Flow == \A x : InBusy(x) => busy[1][x] = Goal(x)
CallFlow == \A c \in Writing : DOMAIN Aimed(c) \subseteq Watch /\ \A x \in DOMAIN Aimed(c) : Aimed(c)[x] = Goal(x)
Staged == ChipTypeOK /\ Flow /\ CallFlow

LEMMA WritesCons ==
    ASSUME NEW s, NEW c, NEW t, Begins(s, c, t)
    PROVE  /\ c.op \in {"data", "se"} => Writes(s) = {c} \cup Writes(t)
           /\ c.op \notin {"data", "se"} => Writes(s) = Writes(t)
  <1> DEFINE W(x) == x.op \in {"data", "se"}
  <1>1. s \in Seq(Command) /\ s # <<>> /\ Head(s) = c /\ Tail(s) = t
    BY Zenon DEF Begins
  <1>2. /\ t \in Seq(Command) /\ Len(t) = Len(s) - 1 /\ \A i \in 1..Len(t) : t[i] = s[i + 1]
    BY <1>1, ST!HeadTailProperties, Zenon
  <1>3. Len(s) \in Nat /\ Len(s) > 0 /\ s[1] = c /\ DOMAIN s = 1..Len(s) /\ DOMAIN t = 1..Len(t)
    BY <1>1, <1>2, SMT
  <1>4. \A x \in Writes(s) : (x = c /\ W(c)) \/ x \in Writes(t)
    <2>1. ASSUME NEW i \in DOMAIN s, W(s[i]) PROVE (s[i] = c /\ W(c)) \/ s[i] \in Writes(t)
      <3>1. CASE i = 1
        BY <1>3, <2>1, <3>1, SMT
      <3>2. CASE i # 1
        <4>1. i - 1 \in 1..Len(t) /\ (i - 1) + 1 = i
          BY <1>2, <1>3, <3>2, SMT
        <4>2. t[i - 1] = s[i] /\ i - 1 \in DOMAIN t
          BY <1>2, <1>3, <4>1, Zenon
        <4>3. QED
          BY <2>1, <4>2, Zenon DEF Writes
      <3>3. QED
        BY <3>1, <3>2, Zenon
    <2>2. QED
      BY <2>1, Zenon DEF Writes
  <1>5. \A x \in Writes(t) : x \in Writes(s)
    <2>1. ASSUME NEW i \in DOMAIN t, W(t[i]) PROVE t[i] \in Writes(s)
      <3>1. i + 1 \in DOMAIN s /\ t[i] = s[i + 1]
        BY <1>2, <1>3, SMT
      <3>2. QED
        BY <2>1, <3>1, Zenon DEF Writes
    <2>2. QED
      BY <2>1, Zenon DEF Writes
  <1>6. W(c) => c \in Writes(s)
    <2>1. 1 \in DOMAIN s
      BY <1>3, SMT
    <2>2. QED
      BY <1>3, <2>1, Zenon DEF Writes
  <1>7. QED
    BY <1>4, <1>5, <1>6, Zenon

LEMMA WritesNothing == Writes(<<>>) = {}
  BY SMT DEF Writes

LEMMA BareWrites ==
    ASSUME NEW s, NEW c, NEW t, Begins(s, c, t), c.op \in {"wren", "poll", "en4b", "dis4b", "read", "pp"}
    PROVE  Writes(s) = Writes(t) /\ Head(s).op \notin {"data", "se"}
  <1>1. c.op \notin {"data", "se"}
    BY SMT
  <1>2. QED
    BY <1>1, WritesCons, Zenon DEF Begins

(* The writes of each sequence of commands. *)
LEMMA WaitWrites ==
    ASSUME NEW four \in BOOLEAN
    PROVE  Writes(Leave(four)) = {} /\ Writes(Wait(four)) = {} /\ Writes(<<Bare("dis4b")>>) = {}
  <1>1. Bare("wren").op = "wren" /\ Bare("dis4b").op = "dis4b" /\ Bare("poll").op = "poll"
    BY CommandTypes, Zenon DEF Op
  <1>2. Writes(<<Bare("dis4b")>>) = {}
    BY <1>1, LeaveShape, BareWrites, WritesNothing, Zenon
  <1>3. Writes(epcs_exit_4_bytes_mode) = {}
    BY <1>1, <1>2, LeaveShape, BareWrites, Zenon
  <1>4. Writes(Leave(four)) = {}
    BY <1>3, WritesNothing, LeaveShape, Zenon
  <1>5. Writes(Wait(four)) = {}
    BY <1>1, <1>4, WaitShape, BareWrites, Zenon
  <1>6. QED
    BY <1>2, <1>4, <1>5, Zenon

LEMMA EraseWrites ==
    ASSUME NEW four \in BOOLEAN, NEW at \in Int
    PROVE  /\ Writes(SeFrom(at, four)) = {Addressed("se", at, 0, 0, four)}
           /\ Writes(EraseFrom(at, four)) = {Addressed("se", at, 0, 0, four)}
  <1> DEFINE c == Addressed("se", at, 0, 0, four)
  <1>1. Bare("wren").op = "wren" /\ c.op = "se"
    BY SMT DEF Bare, Addressed
  <1> HIDE DEF c
  <1>2. Writes(SeFrom(at, four)) = {c}
    <2>1. Begins(SeFrom(at, four), c, Wait(four))
      BY EraseShape, Zenon DEF c
    <2>2. Writes(SeFrom(at, four)) = {c} \cup Writes(Wait(four))
      BY <1>1, <2>1, WritesCons, SMT
    <2>3. QED
      BY <2>2, WaitWrites, Zenon
  <1>3. Writes(EraseFrom(at, four)) = Writes(SeFrom(at, four))
    BY <1>1, EraseShape, BareWrites, Zenon
  <1>4. QED
    BY <1>2, <1>3, Zenon DEF c

LEMMA ReadWrites ==
    ASSUME NEW four \in BOOLEAN, NEW at \in Int
    PROVE  Writes(ReadFrom(at, four)) = {} /\ Writes(PollFrom(at, four)) = {}
  <1> DEFINE c == Addressed("read", at, Packet, 0, four)
  <1>1. Bare("poll").op = "poll" /\ c.op = "read"
    BY SMT DEF Bare, Addressed
  <1> HIDE DEF c
  <1>2. Begins(ReadFrom(at, four), c, Leave(four))
    BY ReadShape, Zenon DEF c
  <1>3. Writes(ReadFrom(at, four)) = {}
    BY <1>1, <1>2, BareWrites, WaitWrites, Zenon
  <1>4. QED
    BY <1>1, <1>3, ReadShape, BareWrites, Zenon

LEMMA PageWrites ==
    ASSUME NEW four \in BOOLEAN, NEW at \in Int, NEW n \in Int, NEW f \in Int
    PROVE  /\ Writes(DataFrom(at, n, f, four)) = {Addressed("data", at, n, f, four)}
           /\ Writes(PpFrom(at, n, f, four)) = {Addressed("data", at, n, f, four)}
           /\ Writes(PageFrom(at, n, f, four)) = {Addressed("data", at, n, f, four)}
  <1> DEFINE p == Addressed("pp", at, n, f, four)
             c == Addressed("data", at, n, f, four)
  <1>1. Bare("wren").op = "wren" /\ p.op = "pp" /\ c.op = "data"
    BY SMT DEF Bare, Addressed
  <1> HIDE DEF p, c
  <1>2. /\ Begins(PageFrom(at, n, f, four), Bare("wren"), PpFrom(at, n, f, four))
        /\ Begins(PpFrom(at, n, f, four), p, DataFrom(at, n, f, four))
        /\ Begins(DataFrom(at, n, f, four), c, Wait(four))
    BY PageShape, Zenon DEF p, c
  <1>3. Writes(DataFrom(at, n, f, four)) = {c}
    <2>1. Writes(DataFrom(at, n, f, four)) = {c} \cup Writes(Wait(four))
      BY <1>1, <1>2, WritesCons, SMT
    <2>2. QED
      BY <2>1, WaitWrites, Zenon
  <1>4. Writes(PpFrom(at, n, f, four)) = {c}
    BY <1>1, <1>2, <1>3, BareWrites, Zenon
  <1>5. Writes(PageFrom(at, n, f, four)) = {c}
    BY <1>1, <1>2, <1>4, BareWrites, Zenon
  <1>6. QED
    BY <1>3, <1>4, <1>5, Zenon DEF c

(* Before the call's own commands there is only the way into four byte mode. *)
OpeningOf(s) == s \in Seq(Command) /\ s # <<>> /\ Head(s).op \notin {"data", "se"}

LEMMA UnsentWrites ==
    ASSUME NEW s, Unsent(s), OpeningOf(s)
    PROVE  Writing = Writes(s) /\ OpeningOf(script) /\ busy = <<>>
  <1>1. s \in Seq(Command) /\ Writing = Writes(script)
    BY Zenon DEF OpeningOf, Writing, Writes
  <1>2. Bare("wren").op = "wren" /\ Bare("en4b").op = "en4b"
    BY CommandTypes, Zenon DEF Op
  <1> DEFINE e == <<Bare("en4b")>> \o s
  <1> HIDE DEF e
  <1>3. Begins(Entering(s), Bare("wren"), e) /\ Begins(e, Bare("en4b"), s)
    BY <1>1, EnteringShape, Zenon DEF e
  <1>4. Writes(e) = Writes(s) /\ OpeningOf(e)
    BY <1>2, <1>3, BareWrites, Zenon DEF Begins, OpeningOf
  <1>5. Writes(Entering(s)) = Writes(s) /\ OpeningOf(Entering(s))
    BY <1>2, <1>3, <1>4, BareWrites, Zenon DEF Begins, OpeningOf
  <1>6. busy = <<>>
    BY Zenon DEF Unsent, Quiet, Armed
  <1>7. script = Entering(s) \/ script = e \/ script = s
    BY Zenon DEF Unsent, e
  <1>8. QED
    BY <1>1, <1>4, <1>5, <1>6, <1>7, Zenon

(* The bytes that a call has still to write: none, or those of its page or  *)
(* sector.                                                                  *)
PageAhead(at, n, f, four) ==
    /\ PageCase(at, n, f) /\ PageBounds(at, n, f) /\ Is(four, Four) /\ busy = <<>>
    /\ req.op = "write" /\ req.addr \in Addresses /\ InChip
    /\ Writing = {Addressed("data", at, n, f, four)}
    /\ Head(script).op \in {"data", "se"} => DataNext(at, n, f, four)
SectorAhead(at, i, four) ==
    /\ i \in Nat /\ Is(at, BlockAt(i)) /\ Is(four, Four) /\ busy = <<>>
    /\ req.op = "erase" /\ Found /\ BlockAt(i) < board.size
    /\ Writing = {Addressed("se", at, 0, 0, four)}
    /\ Head(script).op \in {"data", "se"} => SectorNext(at, four)
NoneAhead == Writing = {} /\ (script = <<>> \/ Head(script).op \notin {"data", "se"})

LEMMA PagingAhead ==
    ASSUME FlashInv, req # Idle, power = "run", Paging
    PROVE  script \in Seq(Command) /\ \E at, n, f, four : PageAhead(at, n, f, four)
  <1>1. Request /\ ChipTypeOK /\ InChip /\ req.op = "write"
    BY Zenon DEF FlashInv, Paging
  <1>2. PICK four \in BOOLEAN : four = Four
    BY <1>1, FourBoolean, Zenon
  <1>3. PICK f \in 0..(Packet - 1) : PagingAt(req.addr + f, Packet - loop.len - f, f, Four)
    BY Zenon DEF Paging
  <1>4. PICK at, n : at = req.addr + f /\ n = Packet - loop.len - f
    OBVIOUS
  <1>5. PagingAt(at, n, f, four)
    BY <1>2, <1>3, <1>4, Zenon
  <1>6. PageCase(at, n, f)
    BY <1>4, <1>5, Zenon DEF PageCase, PagingAt, Is
  <1>7. PageBounds(at, n, f) /\ req.addr \in Addresses
    BY <1>1, <1>6, WriteFacts, Zenon
  <1>8. at \in Int /\ n \in Int /\ f \in Int
    BY <1>7, SMT DEF PageBounds
  <1> DEFINE p == Addressed("pp", at, n, f, four)
             d == Addressed("data", at, n, f, four)
  <1>9. p.op \notin {"data", "se"} /\ Bare("wren").op \notin {"data", "se"}
    BY SMT DEF Addressed, Bare
  <1>10. /\ Writes(DataFrom(at, n, f, four)) = {d} /\ Writes(PpFrom(at, n, f, four)) = {d}
         /\ Writes(PageFrom(at, n, f, four)) = {d}
    BY <1>8, PageWrites, SMT
  <1> HIDE DEF p
  <1>11. OpeningOf(PageFrom(at, n, f, four)) /\ OpeningOf(PpFrom(at, n, f, four))
    <2>1. /\ Begins(PageFrom(at, n, f, four), Bare("wren"), PpFrom(at, n, f, four))
          /\ Begins(PpFrom(at, n, f, four), p, DataFrom(at, n, f, four))
      BY <1>8, PageShape, SMT DEF p
    <2>2. QED
      BY <1>9, <2>1, Zenon DEF OpeningOf, Begins
  <1>12. Begins(DataFrom(at, n, f, four), d, Wait(four))
    BY <1>8, PageShape, Zenon
  <1> HIDE DEF d
  <1>13. Writing = Writes(script)
    BY Zenon DEF Writing, Writes
  <1>14. /\ script \in Seq(Command) /\ Writing = {d} /\ busy = <<>>
         /\ Head(script).op \in {"data", "se"} => DataNext(at, n, f, four)
    <2>1. CASE Unsent(PageFrom(at, n, f, four))
      BY <1>10, <1>11, <2>1, UnsentWrites, Zenon DEF OpeningOf, d
    <2>2. CASE script = PpFrom(at, n, f, four) /\ Armed
      BY <1>10, <1>11, <1>13, <2>2, Zenon DEF OpeningOf, d, Armed
    <2>3. CASE DataNext(at, n, f, four)
      BY <1>10, <1>12, <1>13, <2>3, Zenon DEF DataNext, Begins, d
    <2>4. QED
      BY <1>5, <2>1, <2>2, <2>3, Zenon DEF PagingAt
  <1>15. Is(four, Four)
    BY <1>2, Zenon DEF Is
  <1>16. PageAhead(at, n, f, four)
    BY <1>1, <1>6, <1>7, <1>14, <1>15, Zenon DEF PageAhead, d
  <1>17. QED
    BY <1>14, <1>16, Zenon

LEMMA ErasingAhead ==
    ASSUME FlashInv, req # Idle, power = "run", Erasing
    PROVE  script \in Seq(Command) /\ \E at, i, four : SectorAhead(at, i, four)
  <1>1. Request /\ ChipTypeOK /\ BlockAt(loop.at - 1) < board.size
    BY Zenon DEF FlashInv, Erasing
  <1>2. PICK four \in BOOLEAN : four = Four
    BY <1>1, FourBoolean, Zenon
  <1>3. PICK at, i : i = loop.at - 1 /\ at = BlockAt(i)
    OBVIOUS
  <1>4. ErasingCase(at, i, four)
    <2>1. Is(i, loop.at - 1) /\ Is(at, BlockAt(i)) /\ Is(four, Four)
      BY <1>2, <1>3, Zenon DEF Is
    <2>2. at = BlockAt(loop.at - 1)
      BY <1>3, Zenon
    <2>3. QED
      BY <1>2, <2>1, <2>2, Zenon DEF ErasingCase, Erasing
  <1>5. i \in Nat /\ at \in Int /\ req.op = "erase" /\ Found
    BY <1>1, <1>4, EraseFacts, Zenon
  <1> DEFINE e == Addressed("se", at, 0, 0, four)
  <1>6. /\ Writes(SeFrom(at, four)) = {e} /\ Writes(EraseFrom(at, four)) = {e}
        /\ Begins(EraseFrom(at, four), Bare("wren"), SeFrom(at, four))
        /\ Begins(SeFrom(at, four), e, Wait(four))
    BY <1>5, EraseWrites, EraseShape, Zenon
  <1> HIDE DEF e
  <1>7. Bare("wren").op \notin {"data", "se"}
    BY SMT DEF Bare
  <1>8. OpeningOf(EraseFrom(at, four)) /\ Writing = Writes(script)
    BY <1>6, <1>7, Zenon DEF OpeningOf, Begins, Writing, Writes
  <1>9. /\ script \in Seq(Command) /\ Writing = {e} /\ busy = <<>>
        /\ Head(script).op \in {"data", "se"} => SectorNext(at, four)
    <2>1. CASE Unsent(EraseFrom(at, four))
      BY <1>6, <1>8, <2>1, UnsentWrites, Zenon DEF OpeningOf
    <2>2. CASE SectorNext(at, four)
      BY <1>6, <1>8, <2>2, Zenon DEF SectorNext, Begins, Armed
    <2>3. QED
      BY <1>4, <2>1, <2>2, Zenon DEF ErasingCase, ErasingAt
  <1>10. SectorAhead(at, i, four)
    <2>1. Is(at, BlockAt(i)) /\ Is(four, Four) /\ BlockAt(i) < board.size
      BY <1>1, <1>2, <1>3, Zenon DEF Is
    <2>2. QED
      BY <1>5, <1>9, <2>1, Zenon DEF SectorAhead, e
  <1>11. QED
    BY <1>9, <1>10, Zenon

LEMMA Ahead ==
    ASSUME FlashInv
    PROVE  /\ script \in Seq(Command)
           /\ \/ NoneAhead
              \/ \E at, n, f, four : PageAhead(at, n, f, four)
              \/ \E at, i, four : SectorAhead(at, i, four)
           /\ busy # <<>> => NoneAhead
  <1>1. ChipTypeOK /\ Writing = Writes(script)
    BY Zenon DEF FlashInv, Writing, Writes
  <1>2. PICK four \in BOOLEAN : four = Four
    BY <1>1, FourBoolean, Zenon
  <1>3. ASSUME script = <<>> PROVE script \in Seq(Command) /\ NoneAhead
    BY <1>1, <1>3, CommandSeqs, WritesNothing, Zenon DEF NoneAhead
  <1>4. ASSUME power = "run", req # Idle, Paging
        PROVE  busy = <<>> /\ script \in Seq(Command) /\ \E at, n, f, four_1 : PageAhead(at, n, f, four_1)
    BY <1>4, PagingAhead, Zenon DEF PageAhead
  <1>5. ASSUME power = "run", req # Idle, Erasing
        PROVE  busy = <<>> /\ script \in Seq(Command) /\ \E at, i, four_1 : SectorAhead(at, i, four_1)
    BY <1>5, ErasingAhead, Zenon DEF SectorAhead
  <1>6. /\ Bare("wren").op \notin {"data", "se"} /\ Bare("poll").op \notin {"data", "se"}
        /\ Bare("dis4b").op \notin {"data", "se"}
    BY SMT DEF Bare
  <1>7. ASSUME Waiting PROVE script \in Seq(Command) /\ NoneAhead
    <2>1. Begins(script, Bare("poll"), Leave(four)) /\ Writes(script) = {}
      BY <1>2, <1>7, WaitShape, WaitWrites, Zenon DEF Waiting
    <2>2. QED
      BY <1>1, <1>6, <2>1, Zenon DEF Begins, NoneAhead
  <1>8. ASSUME power = "run", req # Idle, Reading PROVE script \in Seq(Command) /\ NoneAhead
    <2>1. PICK at : at = req.addr
      OBVIOUS
    <2>2. at \in Int
      <3>1. req.addr \in Addresses
        BY <1>8, SMT DEF FlashInv, Reading, Request
      <3>2. QED
        BY <1>1, <2>1, <3>1, BoardFacts, SMT
    <2> DEFINE r == Addressed("read", at, Packet, 0, four)
    <2>3. r.op \notin {"data", "se"}
      BY SMT DEF Addressed
    <2> HIDE DEF r
    <2>4. /\ Begins(PollFrom(at, four), Bare("poll"), ReadFrom(at, four))
          /\ Begins(ReadFrom(at, four), r, Leave(four))
          /\ Writes(ReadFrom(at, four)) = {} /\ Writes(PollFrom(at, four)) = {}
      BY <2>2, ReadShape, ReadWrites, Zenon DEF r
    <2>5. CASE Unsent(PollFrom(at, four))
      <3>1. OpeningOf(PollFrom(at, four))
        BY <1>6, <2>4, Zenon DEF Begins, OpeningOf
      <3>2. QED
        BY <2>4, <2>5, <3>1, UnsentWrites, Zenon DEF OpeningOf, NoneAhead
    <2>6. CASE script = ReadFrom(at, four)
      BY <1>1, <2>3, <2>4, <2>6, Zenon DEF Begins, NoneAhead
    <2>7. QED
      BY <1>2, <1>8, <2>1, <2>5, <2>6, Zenon DEF Reading
  <1>9. ASSUME Leaving PROVE script \in Seq(Command) /\ NoneAhead
    <2>1. script = Leave(TRUE) \/ script = <<Bare("dis4b")>>
      BY <1>9, LeaveShape, Zenon DEF Leaving
    <2>2. Writes(Leave(TRUE)) = {} /\ Writes(<<Bare("dis4b")>>) = {}
      BY WaitWrites, Zenon
    <2>3. Begins(Leave(TRUE), Bare("wren"), <<Bare("dis4b")>>) /\ Begins(<<Bare("dis4b")>>, Bare("dis4b"), <<>>)
      BY LeaveShape, Zenon
    <2>4. QED
      BY <1>1, <1>6, <2>1, <2>2, <2>3, Zenon DEF Begins, NoneAhead
  <1>10. CASE power = "run" /\ req # Idle
    <2>1. Between \/ Paging \/ Erasing \/ Waiting \/ Reading \/ Leaving
      BY <1>10, Zenon DEF FlashInv, Handling
    <2>2. QED
      BY <1>3, <1>4, <1>5, <1>7, <1>8, <1>9, <1>10, <2>1, Zenon DEF Between
  <1>11. CASE ~(power = "run" /\ req # Idle)
    <2>1. script = <<>>
      BY <1>11, Zenon DEF FlashInv
    <2>2. QED
      BY <1>3, <2>1, Zenon
  <1>12. QED
    BY <1>10, <1>11, Zenon

LEMMA ModNegative ==
    ASSUME NEW s \in Nat \ {0}, NEW y \in Int, -s <= y, y < 0
    PROVE  Is(y % s, y + s)
  <1> DEFINE d == y \div s
             r == y % s
  <1>1. r \in 0..(s - 1) /\ d \in Int
    BY SMT
  <1>2. y = s * d + r
    BY SMT
  <1> HIDE DEF d, r
  <1>3. ~(d >= 0)
    <2>1. d >= 0 => s * d >= 0
      BY <1>1, SMT
    <2>2. QED
      BY <1>1, <1>2, <2>1, SMT
  <1>4. ~(d <= -2)
    <2>1. d <= -2 => s * d <= s * (-2)
      BY <1>1, SMT
    <2>2. QED
      BY <1>1, <1>2, <2>1, SMT
  <1>5. d = -1
    BY <1>1, <1>3, <1>4, SMT
  <1>6. QED
    BY <1>1, <1>2, <1>5, SMT DEF Is, r

(* The bytes that a page write reaches are those of its part of the packet. *)
PageSame(s, a, f, n, x) ==
    LET at == (a + f) % s
        page == (at \div 256) * 256
    IN  /\ (x \in page..(page + 255) /\ (x - at) % 256 < n) <=> (x < s /\ (x - a) % s \in f..(f + n - 1))
        /\ x < s /\ (x - a) % s \in f..(f + n - 1) => f + ((x - at) % 256) = (x - a) % s

LEMMA PageBytes ==
    ASSUME NEW s \in Nat \ {0}, s % 256 = 0, NEW a \in 0..(s - 1), NEW f \in 0..255, NEW n \in 1..256,
           f + n <= 256, ((a + f) % 256) + n <= 256, NEW x \in Nat
    PROVE  PageSame(s, a, f, n, x)
  <1> DEFINE at == (a + f) % s
             page == (at \div 256) * 256
             o == (x - a) % s
             k == (x - at) % 256
  <1>1. PICK q \in Nat : s = 256 * q
    BY SMT
  <1>2. s >= 256
    BY <1>1, SMT
  <1>3. at = (IF a + f < s THEN a + f ELSE a + f - s)
    <2>1. a + f \in Nat /\ a + f < 2 * s
      BY <1>2, SMT
    <2>2. Once(a + f, s)
      BY <2>1, ModOnce, Zenon
    <2>3. QED
      BY <2>1, <2>2, SMT DEF Once
  <1>4. at \in 0..(s - 1) /\ at % 256 = (a + f) % 256
    BY <1>1, <1>2, <1>3, SMT
  <1> HIDE DEF at
  <1>5. page = at - (at % 256) /\ at % 256 \in 0..255 /\ page \in 0..(s - 256)
    BY <1>1, <1>4, SMT
  <1>6. k \in 0..255
    BY <1>4, SMT
  <1>7. x < s => o = (IF x >= a THEN x - a ELSE x - a + s)
    <2>1. ASSUME x < s, x >= a PROVE o = x - a
      BY <2>1, SMT
    <2>2. ASSUME x < s, x < a PROVE o = x - a + s
      <3>1. x - a \in Int /\ -s <= x - a /\ x - a < 0
        BY <2>2, SMT
      <3>2. Is(o, (x - a) + s)
        BY <3>1, ModNegative, Zenon
      <3>3. QED
        BY <3>2, SMT DEF Is
    <2>3. QED
      BY <2>1, <2>2, SMT
  <1> HIDE DEF page, o
  <1>8. ASSUME x \in page..(page + 255), k < n
        PROVE  x = at + k
    <2>1. x >= at
      BY <1>4, <1>5, <1>8, SMT
    <2>2. QED
      BY <1>4, <1>5, <1>8, <2>1, SMT
  <1>9. ASSUME x \in page..(page + 255), k < n
        PROVE  x < s /\ o \in f..(f + n - 1) /\ f + k = o
    <2>1. x = at + k
      BY <1>8, <1>9
    <2> HIDE DEF k
    <2>2. x < s
      BY <1>4, <1>5, <1>9, SMT
    <2>3. o = f + k
      BY <1>1, <1>2, <1>3, <1>4, <1>5, <1>6, <1>7, <1>9, <2>1, <2>2, SMT
    <2>4. QED
      BY <1>6, <1>9, <2>2, <2>3, SMT
  <1>10. ASSUME x < s, o \in f..(f + n - 1)
         PROVE  x \in page..(page + 255) /\ k < n
    <2>1. x = at + (o - f)
      BY <1>1, <1>2, <1>3, <1>4, <1>5, <1>7, <1>10, SMT
    <2>2. o - f \in 0..(n - 1)
      BY <1>10, SMT
    <2>3. k = o - f
      BY <2>1, <2>2, <1>4, <1>10, SMT
    <2> HIDE DEF k
    <2>4. QED
      BY <1>4, <1>5, <2>1, <2>2, <2>3, SMT
  <1>11. QED
    BY <1>9, <1>10, Zenon DEF PageSame, at, page, o

PartOfPacket(f, n) ==
    {x \in Watch : x < board.size /\ (x - req.addr) % board.size \in f..(f + n - 1)}

PageMeant(c, f, n) ==
    /\ c.op # "se" /\ c.at = req.addr + f /\ c.len = n /\ c.from = f
    /\ f \in 0..255 /\ n \in 1..256 /\ f + n <= 256 /\ ((req.addr + f) % 256) + n <= 256

LEMMA PageMeans ==
    ASSUME NEW at, NEW n, NEW f, NEW four, NEW op, op \in {"pp", "data"},
           PageBounds(at, n, f), Is(at, req.addr + f)
    PROVE  PageMeant(Addressed(op, at, n, f, four), f, n)
  <1>1. at = req.addr + f
    BY Zenon DEF Is
  <1> DEFINE c == Addressed(op, at, n, f, four)
  <1>2. c.op # "se" /\ c.at = at /\ c.len = n /\ c.from = f
    BY SMT DEF Addressed
  <1> HIDE DEF c
  <1>3. f \in 0..255 /\ n \in 1..256 /\ f + n <= 256 /\ ((req.addr + f) % 256) + n <= 256
    BY SMT DEF PageBounds
  <1>4. PageMeant(c, f, n)
    BY <1>1, <1>2, <1>3, Zenon DEF PageMeant
  <1>5. QED
    BY <1>4, Zenon DEF c

LEMMA PageAimed ==
    ASSUME ChipTypeOK, InChip, req.addr \in Addresses, req.op = "write", NEW c, NEW f, NEW n, PageMeant(c, f, n)
    PROVE  /\ DOMAIN Aimed(c) = PartOfPacket(f, n)
           /\ \A x \in DOMAIN Aimed(c) : Aimed(c)[x] = Goal(x)
  <1> DEFINE s == board.size
             a == req.addr
             t == (a + f) % s
             page == (t \div page_size) * page_size
             k(x) == (x - t) % page_size
             D == {x \in Watch : x \in page..(page + page_size - 1) /\ k(x) < n}
             E == {x \in Watch : x < s /\ (x - a) % s \in f..(f + n - 1)}
  <1>2. c.op # "se" /\ c.at = a + f /\ c.len = n /\ c.from = f
    BY Zenon DEF PageMeant
  <1>3. Aimed(c) = [x \in D |-> mem[x] \cup {<<req.data, f + k(x)>>}]
    BY <1>2, Zenon DEF Aimed, Target
  <1>4. f \in 0..255 /\ n \in 1..256 /\ f + n <= 256 /\ ((a + f) % 256) + n <= 256
    BY Zenon DEF PageMeant
  <1>5. s \in Nat \ {0} /\ s % 256 = 0 /\ a \in 0..(s - 1)
    <2>1. Found
      BY Zenon DEF InChip
    <2>2. QED
      BY <2>1, BoardFacts, TheChip, SMT DEF Sizes, InChip
  <1>6. ASSUME NEW x \in Watch PROVE PageSame(s, a, f, n, x)
    <2>1. x \in Nat
      BY WatchNat, Zenon
    <2> HIDE DEF s, a
    <2>2. QED
      BY <1>4, <1>5, <2>1, PageBytes, Zenon
  <1>7. ASSUME NEW x \in Watch PROVE /\ x \in D <=> x \in E
                                     /\ x \in E => f + k(x) = (x - a) % s
    <2>1. PageSame(s, a, f, n, x)
      BY <1>6
    <2>2. page + page_size - 1 = page + 255 /\ page_size = 256
      <3>1. page \in Int
        BY <1>4, <1>5, SMT DEF page_size
      <3>2. QED
        BY <3>1, SMT DEF page_size
    <2>3. /\ (x \in page..(page + 255) /\ k(x) < n) <=> (x < s /\ (x - a) % s \in f..(f + n - 1))
          /\ x < s /\ (x - a) % s \in f..(f + n - 1) => f + k(x) = (x - a) % s
      BY <2>1, <2>2, Zenon DEF PageSame
    <2> HIDE DEF page, k, s, a
    <2>4. QED
      BY <2>2, <2>3, Zenon
  <1>8. D = E
    BY <1>7, Zenon
  <1> HIDE DEF D, k
  <1>9. DOMAIN Aimed(c) = E /\ \A x \in E : Aimed(c)[x] = mem[x] \cup {<<req.data, f + k(x)>>}
    BY <1>3, <1>8, Zenon
  <1>10. \A x \in E : x \in Watch
    OBVIOUS
  <1>11. ASSUME NEW x \in E PROVE Aimed(c)[x] = Goal(x)
    <2>1. f + k(x) = (x - a) % s
      BY <1>7, <1>10, Zenon
    <2>2. QED
      BY <1>9, <2>1, Zenon DEF Goal
  <1>12. QED
    BY <1>9, <1>11, Zenon DEF PartOfPacket

SectorBytes(at) == {x \in Watch : x < board.size /\ x \div board.sector = at \div board.sector}

LEMMA SectorAimed ==
    ASSUME ChipTypeOK, NEW at, NEW i \in Nat, NEW four, Is(at, BlockAt(i)), BlockAt(i) < board.size, req.op = "erase",
           NEW c, Is(c, Addressed("se", at, 0, 0, four))
    PROVE  /\ DOMAIN Aimed(c) = SectorBytes(at)
           /\ \A x \in DOMAIN Aimed(c) : Aimed(c)[x] = Goal(x)
  <1>1. c.op = "se" /\ c.at = at
    BY SMT DEF Is, Addressed
  <1>2. at \in 0..(board.size - 1)
    <2>1. BlockAt(i) \in Nat
      BY SMT DEF BlockAt, EPCS_BLOCK_SIZE
    <2>2. at \in Nat /\ at < board.size
      BY <2>1, Zenon DEF Is
    <2>3. QED
      BY <2>2, BoardFacts, SMT
  <1>3. at % board.size = at
    BY <1>2, BoardFacts, SMT
  <1>4. Aimed(c) = [x \in SectorBytes(at) |-> {}]
    BY <1>1, <1>3, Zenon DEF Aimed, Target, SectorBytes
  <1>5. req.op # "write"
    BY SMT
  <1>6. QED
    BY <1>4, <1>5, Zenon DEF Goal

(* The rest of the loop. *)
RestOfPacket == {x \in Watch : x < board.size /\ (x - req.addr) % board.size \in (256 - loop.len)..255}
RestOfBlocks ==
    {x \in Watch : x < board.size /\ \E at \in BlocksLeft : x \div board.sector = at \div board.sector}

LEMMA RestIs ==
    /\ req.op = "write" => DOMAIN Rest = RestOfPacket /\ \A x \in RestOfPacket : Rest[x] = Goal(x)
    /\ req.op = "erase" => DOMAIN Rest = RestOfBlocks /\ \A x \in RestOfBlocks : Rest[x] = Goal(x)
    /\ req.op \notin {"write", "erase"} => DOMAIN Rest = {}
  <1>1. ASSUME req.op = "write" PROVE DOMAIN Rest = RestOfPacket /\ \A x \in RestOfPacket : Rest[x] = Goal(x)
    <2>1. Rest = [x \in RestOfPacket |-> mem[x] \cup {<<req.data, (x - req.addr) % board.size>>}]
      BY <1>1, Zenon DEF Rest, RestOfPacket
    <2>2. QED
      BY <1>1, <2>1, Zenon DEF Goal
  <1>2. ASSUME req.op = "erase" PROVE DOMAIN Rest = RestOfBlocks /\ \A x \in RestOfBlocks : Rest[x] = Goal(x)
    <2>1. req.op # "write"
      BY <1>2, SMT
    <2>2. Rest = [x \in RestOfBlocks |-> {}]
      BY <1>2, <2>1, Zenon DEF Rest, RestOfBlocks
    <2>3. QED
      BY <1>2, <2>1, <2>2, Zenon DEF Goal
  <1>3. ASSUME req.op \notin {"write", "erase"} PROVE DOMAIN Rest = {}
    <2>1. Rest = <<>>
      BY <1>3, Zenon DEF Rest
    <2>2. QED
      BY <2>1, SMT
  <1>4. QED
    BY <1>1, <1>2, <1>3, Zenon

LEMMA RestIsNext ==
    /\ req'.op = "write" => DOMAIN Rest' = RestOfPacket'
    /\ req'.op = "erase" => DOMAIN Rest' = RestOfBlocks'
    /\ req'.op \notin {"write", "erase"} => DOMAIN Rest' = {}
  <1>1. (req.op = "write" => DOMAIN Rest = RestOfPacket)'
    BY RestIs, PTL
  <1>2. (req.op = "erase" => DOMAIN Rest = RestOfBlocks)'
    BY RestIs, PTL
  <1>3. (req.op \notin {"write", "erase"} => DOMAIN Rest = {})'
    BY RestIs, PTL
  <1>4. QED
    BY <1>1, <1>2, <1>3, Zenon

LEMMA RestFlows ==
    ASSUME NEW x, InRest(x)
    PROVE  x \in Watch /\ Rest[x] = Goal(x)
  <1>1. RestOfPacket \subseteq Watch /\ RestOfBlocks \subseteq Watch
    BY Zenon DEF RestOfPacket, RestOfBlocks
  <1>2. QED
    BY <1>1, RestIs, Zenon DEF InRest

(* The stages agree, so what is pending is one function. *)
LEMMA PendingIs ==
    ASSUME Staged
    PROVE  Pending = [x \in {y \in Watch : Changes(y)} |-> Goal(x)]
  <1> DEFINE stages == {busy[i] : i \in DOMAIN busy} \cup {Target(c, c.at % board.size) : c \in Writing} \cup {Rest}
             target(a) == {f[a] : f \in {g \in stages : a \in DOMAIN g}}
  <1>1. ASSUME NEW g PROVE g \in {busy[i] : i \in DOMAIN busy} <=> (busy # <<>> /\ g = busy[1])
    <2>1. CASE busy = <<>>
      BY <2>1, SMT
    <2>2. CASE busy # <<>>
      <3>1. PICK b : busy = <<b>>
        BY <2>2, Zenon DEF Staged, ChipTypeOK
      <3>2. QED
        BY <2>2, <3>1, SMT
    <2>3. QED
      BY <2>1, <2>2, Zenon
  <1>2. ASSUME NEW g PROVE g \in stages <=> \/ busy # <<>> /\ g = busy[1]
                                            \/ \E c \in Writing : g = Aimed(c)
                                            \/ g = Rest
    BY <1>1, Zenon DEF Aimed
  <1> HIDE DEF stages
  <1>3. ASSUME NEW g \in stages, NEW x \in DOMAIN g PROVE g[x] = Goal(x)
    <2>1. CASE busy # <<>> /\ g = busy[1]
      BY <1>3, <2>1, Zenon DEF Staged, Flow, InBusy
    <2>2. CASE \E c \in Writing : g = Aimed(c)
      BY <1>3, <2>2, Zenon DEF Staged, CallFlow
    <2>3. CASE g = Rest
      BY <1>3, <2>3, RestFlows, Zenon DEF InRest
    <2>4. QED
      BY <1>2, <1>3, <2>1, <2>2, <2>3, Zenon
  <1>4. ASSUME NEW x PROVE Covered(x) <=> \E g \in stages : x \in DOMAIN g
    BY <1>2, Zenon DEF Covered, InBusy, InCall, InRest
  <1>5. ASSUME NEW x, NEW v PROVE v \in target(x) <=> Covered(x) /\ v = Goal(x)
    BY <1>3, <1>4, Zenon
  <1> HIDE DEF target
  <1>6. {x \in Watch : \E v \in target(x) : v # mem[x]} = {y \in Watch : Changes(y)}
    BY <1>5, Zenon DEF Changes
  <1>7. ASSUME NEW x, Changes(x) PROVE (CHOOSE v \in target(x) : v # mem[x]) = Goal(x)
    <2>1. Goal(x) \in target(x) /\ Goal(x) # mem[x]
      BY <1>5, <1>7, Zenon DEF Changes
    <2>2. (CHOOSE v \in target(x) : v # mem[x]) \in target(x)
      BY <2>1, Zenon
    <2>3. QED
      BY <1>5, <2>2, Zenon
  <1>8. Pending = [a \in {x \in Watch : \E v \in target(x) : v # mem[x]} |-> CHOOSE v \in target(a) : v # mem[a]]
    BY Zenon DEF Pending, target, stages
  <1>9. QED
    BY <1>6, <1>7, <1>8, SMT

PendingForm == Pending = [x \in {y \in Watch : Changes(y)} |-> Goal(x)]

LEMMA PendingNow == Staged => PendingForm
  BY PendingIs, Zenon DEF PendingForm

LEMMA PendingNext == Staged' => PendingForm'
  BY PendingNow, PTL

LEMMA SamePending ==
    ASSUME Staged, Staged',
           \A x \in Watch : (Changes(x)' <=> Changes(x)) /\ (Changes(x) => Goal(x)' = Goal(x))
    PROVE  Pending' = Pending
  <1>1. Pending = [x \in {y \in Watch : Changes(y)} |-> Goal(x)]
    BY PendingNow, Zenon DEF PendingForm
  <1>2. Pending' = [x \in {y \in Watch : Changes(y)'} |-> Goal(x)']
    BY PendingNext, SMT DEF PendingForm
  <1>3. {y \in Watch : Changes(y)'} = {y \in Watch : Changes(y)}
    BY Zenon
  <1>4. QED
    BY <1>1, <1>2, <1>3, SMT

(* Nothing is pending when no byte is to change. *)
LEMMA NothingPending == Staged /\ (\A x \in Watch : ~Changes(x)) => Pending = <<>>
  <1> SUFFICES ASSUME Staged, \A x \in Watch : ~Changes(x) PROVE Pending = <<>>
    OBVIOUS
  <1>1. Pending = [x \in {y \in Watch : Changes(y)} |-> Goal(x)]
    BY PendingNow, Zenon DEF PendingForm
  <1>2. {y \in Watch : Changes(y)} = {}
    BY Zenon
  <1>3. Pending = [x \in {} |-> Goal(x)]
    BY <1>1, <1>2, Zenon
  <1>4. QED
    BY <1>3, SMT

LEMMA NothingPendingNext == (Staged /\ (\A x \in Watch : ~Changes(x)) => Pending = <<>>)'
  BY NothingPending, PTL

StoreInv == FlashInv /\ Flow

(* What a call has still to write agrees with the request. *)
LEMMA InvStaged == StoreInv => Staged
  <1> SUFFICES ASSUME FlashInv, Flow PROVE Staged
    BY Zenon DEF StoreInv
  <1>1. ChipTypeOK
    BY Zenon DEF FlashInv
  <1>2. ASSUME NEW c \in Writing
        PROVE  DOMAIN Aimed(c) \subseteq Watch /\ \A x \in DOMAIN Aimed(c) : Aimed(c)[x] = Goal(x)
    <2>1. CASE NoneAhead
      BY <1>2, <2>1, Zenon DEF NoneAhead
    <2>2. ASSUME NEW at, NEW n, NEW f, NEW four, PageAhead(at, n, f, four)
          PROVE  DOMAIN Aimed(c) \subseteq Watch /\ \A x \in DOMAIN Aimed(c) : Aimed(c)[x] = Goal(x)
      <3>1. c = Addressed("data", at, n, f, four)
        BY <1>2, <2>2, Zenon DEF PageAhead
      <3>2. InChip /\ req.addr \in Addresses /\ req.op = "write"
        BY <2>2, Zenon DEF PageAhead
      <3>6. PageMeant(c, f, n)
        <4>1. "data" \in {"pp", "data"} /\ PageBounds(at, n, f) /\ Is(at, req.addr + f)
          BY <2>2, Zenon DEF PageAhead, PageCase
        <4>2. QED
          BY <3>1, <4>1, PageMeans, Zenon
      <3>3. DOMAIN Aimed(c) = PartOfPacket(f, n) /\ \A x \in DOMAIN Aimed(c) : Aimed(c)[x] = Goal(x)
        BY <1>1, <3>2, <3>6, PageAimed, Zenon
      <3>4. PartOfPacket(f, n) \subseteq Watch
        BY Zenon DEF PartOfPacket
      <3>5. QED
        BY <3>3, <3>4, Zenon
    <2>3. ASSUME NEW at, NEW i, NEW four, SectorAhead(at, i, four)
          PROVE  DOMAIN Aimed(c) \subseteq Watch /\ \A x \in DOMAIN Aimed(c) : Aimed(c)[x] = Goal(x)
      <3>1. c = Addressed("se", at, 0, 0, four)
        BY <1>2, <2>3, Zenon DEF SectorAhead
      <3>2. /\ i \in Nat /\ Is(at, BlockAt(i)) /\ BlockAt(i) < board.size /\ req.op = "erase"
            /\ Is(c, Addressed("se", at, 0, 0, four))
        BY <2>3, <3>1, Zenon DEF SectorAhead, Is
      <3>3. DOMAIN Aimed(c) = SectorBytes(at) /\ \A x \in DOMAIN Aimed(c) : Aimed(c)[x] = Goal(x)
        BY <1>1, <3>2, SectorAimed, Zenon
      <3>4. SectorBytes(at) \subseteq Watch
        BY Zenon DEF SectorBytes
      <3>5. QED
        BY <3>3, <3>4, Zenon
    <2>4. QED
      BY <2>1, <2>2, <2>3, Ahead, Zenon
  <1>3. QED
    BY <1>1, <1>2, Zenon DEF Staged, CallFlow

LEMMA InvStagedNext == (StoreInv => Staged)'
  BY InvStaged, PTL

(* A step that the byte store does not see. *)
Unseen == mem' = mem /\ Pending' = Pending /\ board' = board /\ power' = power

LEMMA UnseenStutters ==
    ASSUME Unseen
    PROVE  UNCHANGED Flash!svars
  <1>1. mem' = mem /\ Pending' = Pending /\ board'.size = board.size /\ board'.sector = board.sector
        /\ (power = "run")' = (power = "run")
    BY Zenon DEF Unseen
  <1>2. QED
    BY <1>1, Zenon DEF Flash!svars

LEMMA Moved ==
    ASSUME StoreInv, FlashInv', Flow', mem' = mem, board' = board, power' = power,
           \A x \in Watch : (Covered(x)' <=> Covered(x)) /\ (Covered(x) => Goal(x)' = Goal(x))
    PROVE  Unseen
  <1>1. Staged /\ Staged'
    BY InvStaged, InvStagedNext, Zenon DEF StoreInv
  <1>2. \A x \in Watch : (Changes(x)' <=> Changes(x)) /\ (Changes(x) => Goal(x)' = Goal(x))
    BY Zenon DEF Changes
  <1>3. QED
    BY <1>1, <1>2, SamePending, Zenon DEF Unseen

(* A command that writes nothing, and every step that does not touch the    *)
(* request and the chip.                                                    *)
LEMMA SameStages ==
    ASSUME mem' = mem, busy' = busy, board' = board, devs' = devs, req' = req, loop' = loop, Writing' = Writing
    PROVE  (Flow' <=> Flow) /\ \A x : (Covered(x)' <=> Covered(x)) /\ Goal(x)' = Goal(x)
  <1>1. \A x : Goal(x)' = Goal(x)
    BY Zenon DEF Goal
  <1>2. \A x : InBusy(x)' <=> InBusy(x)
    BY Zenon DEF InBusy
  <1>3. \A c : Aimed(c)' = Aimed(c)
    BY Zenon DEF Aimed, Target
  <1>4. \A x : InCall(x)' <=> InCall(x)
    BY <1>3, Zenon DEF InCall
  <1>5. Rest' = Rest
    BY Zenon DEF Rest, BlocksLeft
  <1>6. QED
    BY <1>1, <1>2, <1>4, <1>5, Zenon DEF Covered, InRest, Flow

(* The command that starts a write: its bytes are then the chip's business. *)
LEMMA Started ==
    ASSUME StoreInv, FlashInv', Kept, mem' = mem, busy = <<>>, Writing' = {}, req.op \in {"write", "erase"},
           NEW c, Writing = {c}, NEW t, busy' = <<t>>, DOMAIN t = DOMAIN Aimed(c),
           \A x \in DOMAIN t : t[x] = Goal(x)
    PROVE  Flow' /\ Unseen
  <1>1. board' = board /\ devs' = devs /\ req' = req /\ loop' = loop /\ power' = power
    BY Zenon DEF Kept
  <1>2. busy' # <<>> /\ busy'[1] = t
    BY SMT
  <1>3. \A x : Goal(x)' = Goal(x)
    BY <1>1, Zenon DEF Goal
  <1>4. Flow'
    BY <1>2, <1>3, Zenon DEF Flow, InBusy
  <1>5. Rest' = Rest
    BY <1>1, Zenon DEF Rest, BlocksLeft
  <1>6. ASSUME NEW x PROVE Covered(x)' <=> Covered(x)
    <2>1. (InBusy(x)' <=> x \in DOMAIN t) /\ ~InBusy(x)
      BY <1>2, Zenon DEF InBusy
    <2>2. ~InCall(x)' /\ (InCall(x) <=> x \in DOMAIN t)
      BY Zenon DEF InCall
    <2>3. QED
      BY <1>5, <2>1, <2>2, Zenon DEF Covered, InRest
  <1>7. QED
    BY <1>1, <1>3, <1>4, <1>6, Moved, Zenon

Stored == Flow' /\ [Flash!Next]_(Flash!svars)

LEMMA UnseenStored ==
    ASSUME Flow', Unseen
    PROVE  Stored
  BY UnseenStutters, Zenon DEF Stored

LEMMA PageStarts ==
    ASSUME StoreInv, FlashInv', Spi, Head(script).op \in {"data", "se"},
           NEW at, NEW n, NEW f, NEW four, PageAhead(at, n, f, four)
    PROVE  Flow' /\ Unseen
  <1>1. /\ PageCase(at, n, f) /\ PageBounds(at, n, f) /\ Is(four, Four) /\ busy = <<>>
        /\ req.op = "write" /\ req.addr \in Addresses /\ InChip /\ Found
        /\ Writing = {Addressed("data", at, n, f, four)} /\ DataNext(at, n, f, four)
        /\ ChipTypeOK
    BY Zenon DEF PageAhead, StoreInv, FlashInv, InChip
  <1>2. at \in Int /\ n \in Int /\ f \in Int /\ f \in 0..255
    BY <1>1, SMT DEF PageBounds
  <1>3. four \in BOOLEAN /\ Four = four
    BY <1>1, FourBoolean, Zenon DEF Is
  <1>4. /\ script = DataFrom(at, n, f, four) /\ InMode /\ wel
        /\ select = <<Addressed("pp", at, n, f, four)>>
    BY <1>1, Zenon DEF DataNext
  <1> DEFINE d == Addressed("data", at, n, f, four)
             p == Addressed("pp", at, n, f, four)
  <1>5. PageMeant(d, f, n) /\ PageMeant(p, f, n)
    <2>1. "data" \in {"pp", "data"} /\ "pp" \in {"pp", "data"} /\ Is(at, req.addr + f)
      BY <1>1, Zenon DEF PageCase
    <2>2. QED
      BY <1>1, <2>1, PageMeans, Zenon
  <1>6. d.op = "data" /\ p.bytes = (IF four THEN 4 ELSE 3) /\ p.at = at
    BY SMT DEF Addressed
  <1>7. Begins(DataFrom(at, n, f, four), d, Wait(four))
    BY <1>2, <1>3, PageShape, SMT
  <1> HIDE DEF d, p
  <1>8. /\ DOMAIN Aimed(d) = PartOfPacket(f, n)
        /\ DOMAIN Aimed(p) = PartOfPacket(f, n) /\ \A x \in DOMAIN Aimed(p) : Aimed(p)[x] = Goal(x)
    BY <1>1, <1>5, PageAimed, Zenon
  <1>9. script' = Wait(four) /\ Kept /\ PageData
    BY <1>4, <1>6, <1>7, SpiOps, Zenon
  <1>10. select # <<>> /\ select[1] = p /\ Takes(select[1])
    <2>1. select = <<p>>
      BY <1>4, Zenon DEF p
    <2>2. select # <<>> /\ select[1] = p
      BY <2>1, SMT
    <2>3. mode4 = four
      BY <1>3, <1>4, Zenon DEF InMode
    <2>4. QED
      BY <1>1, <1>6, <2>2, <2>3, Zenon DEF Takes
  <1>11. Target(p, Decoded(p.at)) = Aimed(p)
    <2>1. req.addr \in 0..(board.size - 1)
      BY <1>1, BoardFacts, SMT DEF InChip
    <2>2. Decoded(req.addr + f) = (req.addr + f) % board.size
      BY <1>1, <1>2, <1>4, <2>1, DecodedAt, Zenon
    <2>3. p.at = req.addr + f
      BY <1>5, Zenon DEF PageMeant
    <2>4. QED
      BY <2>2, <2>3, Zenon DEF Aimed
  <1>12. busy' = <<Aimed(p)>> /\ mem' = mem
    <2>1. busy' = <<Target(select[1], Decoded(select[1].at))>>
      BY <1>4, <1>9, <1>10, Zenon DEF PageData
    <2>2. mem' = mem
      BY <1>9, SMT DEF PageData
    <2>3. QED
      BY <1>10, <1>11, <2>1, <2>2, Zenon
  <1>13. Writing' = {}
    <2>1. Writing' = Writes(script')
      BY SMT DEF Writing, Writes
    <2>2. QED
      BY <1>3, <1>9, <2>1, WaitWrites, Zenon
  <1>14. Writing = {d} /\ req.op \in {"write", "erase"}
    BY <1>1, Zenon DEF d
  <1>15. PICK t : t = Aimed(p)
    OBVIOUS
  <1>16. busy' = <<t>> /\ DOMAIN t = DOMAIN Aimed(d) /\ \A x \in DOMAIN t : t[x] = Goal(x)
    BY <1>8, <1>12, <1>15, Zenon
  <1>17. QED
    BY <1>1, <1>9, <1>12, <1>13, <1>14, <1>16, Started, Zenon

LEMMA SectorStarts ==
    ASSUME StoreInv, FlashInv', Spi, Head(script).op \in {"data", "se"},
           NEW at, NEW i, NEW four, SectorAhead(at, i, four)
    PROVE  Flow' /\ Unseen
  <1>1. /\ i \in Nat /\ Is(at, BlockAt(i)) /\ Is(four, Four) /\ busy = <<>>
        /\ req.op = "erase" /\ Found /\ BlockAt(i) < board.size
        /\ Writing = {Addressed("se", at, 0, 0, four)} /\ SectorNext(at, four)
        /\ ChipTypeOK
    BY Zenon DEF SectorAhead, StoreInv, FlashInv
  <1>2. at \in Int /\ at = BlockAt(i)
    <2>1. BlockAt(i) \in Int
      BY <1>1, SMT DEF BlockAt, EPCS_BLOCK_SIZE
    <2>2. QED
      BY <1>1, <2>1, Zenon DEF Is
  <1>3. four \in BOOLEAN /\ Four = four
    BY <1>1, FourBoolean, Zenon DEF Is
  <1>4. script = SeFrom(at, four) /\ InMode /\ wel
    BY <1>1, Zenon DEF SectorNext, Armed
  <1> DEFINE c == Addressed("se", at, 0, 0, four)
  <1>5. c.op = "se" /\ c.bytes = (IF four THEN 4 ELSE 3) /\ c.at = at
    BY SMT DEF Addressed
  <1>6. Begins(SeFrom(at, four), c, Wait(four))
    BY <1>2, <1>3, EraseShape, Zenon
  <1>7. Is(c, Addressed("se", at, 0, 0, four)) /\ Writing = {c}
    BY <1>1, Zenon DEF Is
  <1> HIDE DEF c
  <1>8. \A x \in DOMAIN Aimed(c) : Aimed(c)[x] = Goal(x)
    <2>1. i \in Nat /\ Is(at, BlockAt(i)) /\ BlockAt(i) < board.size /\ req.op = "erase" /\ ChipTypeOK
      BY <1>1, Zenon
    <2>2. Is(c, Addressed("se", at, 0, 0, four))
      BY <1>7, Zenon
    <2>3. QED
      BY <2>1, <2>2, SectorAimed, Zenon
  <1>9. script' = Wait(four) /\ Kept /\ SectorErase /\ Head(script) = c
    BY <1>4, <1>5, <1>6, SpiOps, Zenon DEF Begins
  <1>10. Takes(c)
    BY <1>1, <1>3, <1>4, <1>5, Zenon DEF Takes, InMode
  <1>11. Target(c, Decoded(c.at)) = Aimed(c)
    <2>1. Decoded(BlockAt(i)) = BlockAt(i) /\ BlockAt(i) \in 0..(board.size - 1)
      BY <1>1, <1>4, BlockStart, Zenon
    <2>2. at \in 0..(board.size - 1)
      BY <1>2, <2>1, Zenon
    <2>3. at % board.size = at
      BY <1>1, <2>2, BoardFacts, SMT
    <2>4. QED
      BY <1>2, <1>5, <2>1, <2>3, Zenon DEF Aimed
  <1>12. busy' = <<Aimed(c)>> /\ mem' = mem
    <2>1. busy' = <<Target(Head(script), Decoded(Head(script).at))>>
      BY <1>4, <1>9, <1>10, Zenon DEF SectorErase
    <2>2. mem' = mem
      BY <1>9, SMT DEF SectorErase
    <2>3. QED
      BY <1>9, <1>11, <2>1, <2>2, Zenon
  <1>13. Writing' = {}
    <2>1. Writing' = Writes(script')
      BY SMT DEF Writing, Writes
    <2>2. QED
      BY <1>3, <1>9, <2>1, WaitWrites, Zenon
  <1>14. req.op \in {"write", "erase"}
    BY <1>1, Zenon
  <1>15. PICK t : t = Aimed(c)
    OBVIOUS
  <1>16. busy' = <<t>> /\ DOMAIN t = DOMAIN Aimed(c) /\ \A x \in DOMAIN t : t[x] = Goal(x)
    BY <1>8, <1>12, <1>15, Zenon
  <1>17. QED
    BY <1>1, <1>7, <1>9, <1>12, <1>13, <1>14, <1>16, Started, Zenon

LEMMA SpiStored ==
    ASSUME StoreInv, FlashInv', Spi
    PROVE  Stored
  <1>1. script \in Seq(Command) /\ FlashInv
    BY Ahead, Zenon DEF StoreInv
  <1>2. script # <<>>
    BY Zenon DEF Spi, WriteEnable, FourByteMode, SectorErase, PageProgram, PageData, PollDone, Read, Sends
  <1>3. CASE Head(script).op \in {"data", "se"}
    <2>1. ~NoneAhead
      BY <1>2, <1>3, Zenon DEF NoneAhead
    <2>2. QED
      BY <1>1, <1>3, <2>1, Ahead, PageStarts, SectorStarts, UnseenStored, Zenon
  <1>4. CASE Head(script).op \notin {"data", "se"}
    <2>1. PICK c, t : c = Head(script) /\ t = Tail(script)
      OBVIOUS
    <2>2. Begins(script, c, t)
      BY <1>1, <1>2, <2>1, Zenon DEF Begins
    <2>3. script' = t /\ Kept
      BY <2>2, SpiOps, Zenon
    <2>4. Writing' = Writing
      <3>1. Writing' = Writes(script') /\ Writing = Writes(script)
        BY SMT DEF Writing, Writes
      <3>2. Writes(script) = Writes(t)
        BY <1>4, <2>1, <2>2, WritesCons, Zenon
      <3>3. QED
        BY <2>3, <3>1, <3>2, Zenon
    <2>5. mem' = mem /\ busy' = busy
      <3>1. Head(script).op # "data" /\ Head(script).op # "se"
        BY <1>4, Zenon
      <3>2. WriteEnable \/ FourByteMode \/ PageProgram \/ PollDone \/ Read
        BY <3>1, Zenon DEF Spi, SectorErase, PageData, Sends
      <3>3. QED
        BY <3>2, SMT DEF WriteEnable, FourByteMode, PageProgram, PollDone, Read, chipVars
    <2>6. board' = board /\ devs' = devs /\ req' = req /\ loop' = loop /\ power' = power
      BY <2>3, Zenon DEF Kept
    <2>7. Flow' /\ \A x : (Covered(x)' <=> Covered(x)) /\ Goal(x)' = Goal(x)
      BY <2>4, <2>5, <2>6, SameStages, Zenon DEF StoreInv
    <2>8. Unseen
      BY <2>5, <2>6, <2>7, Moved, Zenon
    <2>9. QED
      BY <2>7, <2>8, UnseenStored, Zenon
  <1>5. QED
    BY <1>3, <1>4, Zenon

(* A call of the driver takes its bytes from the rest of the loop. *)
LEMMA CallStored ==
    ASSUME StoreInv, Calls, Called, FlashInv', \A x \in Watch : (InCall(x)' \/ InRest(x)') <=> InRest(x)
    PROVE  Stored
  <1>1. Between
    BY CallsBetween, Zenon DEF StoreInv
  <1>2. busy = <<>> /\ script = <<>>
    BY <1>1, Zenon DEF Between, Quiet
  <1>3. /\ mem' = mem /\ busy' = busy /\ board' = board /\ req' = req /\ power' = power
    BY Zenon DEF Called, ChipKept
  <1>4. \A x : Goal(x)' = Goal(x)
    BY <1>3, Zenon DEF Goal
  <1>5. \A x : ~InBusy(x) /\ ~InBusy(x)'
    BY <1>2, <1>3, Zenon DEF InBusy
  <1>6. Flow'
    BY <1>5, Zenon DEF Flow
  <1>7. \A x : ~InCall(x)
    <2>1. Writing = {}
      <3>1. Writing = Writes(script)
        BY Zenon DEF Writing, Writes
      <3>2. QED
        BY <1>2, <3>1, WritesNothing, Zenon
    <2>2. QED
      BY <2>1, Zenon DEF InCall
  <1>8. \A x \in Watch : Covered(x)' <=> Covered(x)
    BY <1>5, <1>7, Zenon DEF Covered
  <1>9. Unseen
    BY <1>3, <1>4, <1>6, <1>8, Moved, Zenon
  <1>10. QED
    BY <1>6, <1>9, UnseenStored, Zenon

LEMMA AroundWrites ==
    ASSUME NEW four \in BOOLEAN, NEW s \in Seq(Command)
    PROVE  Writes(Around(four, s)) = Writes(s)
  <1>1. Bare("wren").op = "wren" /\ Bare("en4b").op = "en4b"
    BY CommandTypes, Zenon DEF Op
  <1> DEFINE e == <<Bare("en4b")>> \o s
  <1> HIDE DEF e
  <1>2. Begins(Entering(s), Bare("wren"), e) /\ Begins(e, Bare("en4b"), s)
    BY EnteringShape, Zenon DEF e
  <1>3. Writes(Entering(s)) = Writes(e) /\ Writes(e) = Writes(s)
    BY <1>1, <1>2, BareWrites, Zenon
  <1>4. QED
    BY <1>3, Zenon DEF Around

LEMMA CallAims ==
    ASSUME Called
    PROVE  Writing' = Writes(script') /\ \A c : Aimed(c)' = Aimed(c)
  <1>1. mem' = mem /\ board' = board /\ req' = req
    BY Zenon DEF Called, ChipKept
  <1>2. \A c : Aimed(c)' = Aimed(c)
    BY <1>1, Zenon DEF Aimed, Target
  <1>3. Writing' = Writes(script')
    BY SMT DEF Writing, Writes
  <1>4. QED
    BY <1>2, <1>3, Zenon

LEMMA WritePageStored ==
    ASSUME StoreInv, FlashInv', WritePage
    PROVE  Stored
  <1>1. /\ Request /\ ChipTypeOK /\ Calls /\ req.op = "write" /\ loop.len > 0
    BY CallsBetween, Zenon DEF WritePage, StoreInv
  <1>2. /\ req.addr \in Addresses /\ loop.len \in 0..Packet /\ InChip /\ loop.at = req.addr + (Packet - loop.len)
    BY <1>1, SMT DEF Request
  <1>3. Called
    BY SMT DEF WritePage, Called, ChipKept, chipVars
  <1>4. PICK at, l, f, a, four : at = loop.at /\ l = loop.len /\ f = Packet - l /\ a = req.addr /\ four = Four
    OBVIOUS
  <1>5. PICK n, e : n = length_of_current_write(at, l) /\ e = next_page_start(at)
    OBVIOUS
  <1>6. a \in Nat /\ l \in 1..256 /\ f \in 0..255 /\ at = a + f /\ at \in Nat /\ f = 256 - l
    <2>1. a \in Nat
      BY <1>1, <1>2, <1>4, BoardFacts, SMT
    <2>2. l \in 0..256 /\ l > 0
      BY <1>1, <1>2, <1>4, Zenon DEF Packet
    <2>3. f = 256 - l
      BY <1>4, Zenon DEF Packet
    <2>4. at = a + f
      BY <1>2, <1>4, Zenon
    <2>5. QED
      BY <2>1, <2>2, <2>3, <2>4, SMT
  <1>7. n \in 1..l /\ (at % page_size) + n <= page_size
    <2>1. l \in Nat \ {0}
      BY <1>6, SMT
    <2>2. CutAt(at, l)
      BY <1>6, <2>1, PageCuts, Zenon
    <2>3. QED
      BY <1>5, <2>2, Zenon DEF CutAt
  <1>8. four \in BOOLEAN /\ at \in Int /\ n \in Int /\ f \in Int
    BY <1>1, <1>4, <1>6, <1>7, FourBoolean, SMT
  <1>9. script' = Around(four, PageFrom(at, n, f, four)) /\ loop'.len = l - n
    <2>1. script' = epcs_write_buffer(at, n, f, four) /\ loop' = Loop(e, l - n)
      BY <1>4, <1>5, Zenon DEF WritePage, Four, fd, Packet
    <2>2. Loop(e, l - n).len = l - n
      BY SMT DEF Loop
    <2>3. QED
      BY <1>8, <2>1, <2>2, PageCall, Zenon
  <1> DEFINE d == Addressed("data", at, n, f, four)
  <1>10. Writes(script') = {d}
    <2>1. Writes(PageFrom(at, n, f, four)) = {d} /\ PageFrom(at, n, f, four) \in Seq(Command)
      BY <1>8, PageWrites, PageShape, SMT DEF Begins
    <2> HIDE DEF d
    <2>2. QED
      BY <1>8, <1>9, <2>1, AroundWrites, Zenon
  <1>11. PageMeant(d, f, n)
    <2>1. d.op # "se" /\ d.at = at /\ d.len = n /\ d.from = f
      BY SMT DEF Addressed
    <2> HIDE DEF d
    <2>2. f \in 0..255 /\ n \in 1..256 /\ f + n <= 256
      BY <1>6, <1>7, SMT
    <2>3. at = req.addr + f
      BY <1>4, <1>6, Zenon
    <2>4. ((req.addr + f) % 256) + n <= 256
      <3>1. ((req.addr + f) % page_size) + n <= page_size
        BY <1>7, <2>3, Zenon
      <3>2. QED
        BY <3>1, Zenon DEF page_size
    <2>5. QED
      BY <2>1, <2>2, <2>3, <2>4, Zenon DEF PageMeant
  <1> HIDE DEF d
  <1>12. DOMAIN Aimed(d) = PartOfPacket(f, n)
    BY <1>1, <1>2, <1>11, PageAimed, Zenon
  <1>13. ASSUME NEW x PROVE InCall(x)' <=> x \in PartOfPacket(f, n)
    <2>1. Writing' = {d} /\ Aimed(d)' = Aimed(d)
      BY <1>3, <1>10, CallAims, Zenon
    <2>2. QED
      BY <1>12, <2>1, Zenon DEF InCall
  <1>14. ASSUME NEW x \in Watch PROVE (InCall(x)' \/ InRest(x)') <=> InRest(x)
    <2> DEFINE k == (x - a) % board.size
    <2>1. x \in Nat /\ board.size \in Nat \ {0}
      BY <1>1, WatchNat, BoardFacts, Zenon
    <2>2. k \in Int
      BY <1>6, <2>1, SMT
    <2>3. InRest(x) <=> x < board.size /\ k \in (256 - l)..255
      BY <1>1, <1>4, <1>14, RestIs, Zenon DEF InRest, RestOfPacket
    <2>4. InRest(x)' <=> x < board.size /\ k \in (256 - (l - n))..255
      <3>1. /\ req' = req /\ board' = board
        BY <1>3, Zenon DEF Called
      <3>2. InRest(x)' <=> x \in RestOfPacket'
        <4>1. req'.op = "write"
          BY <1>1, <3>1, Zenon
        <4>2. DOMAIN Rest' = RestOfPacket'
          BY <4>1, RestIsNext, Zenon
        <4>3. QED
          BY <4>2, Zenon DEF InRest
      <3>3. RestOfPacket' = {y \in Watch : y < board.size /\ (y - a) % board.size \in (256 - (l - n))..255}
        BY <1>4, <1>9, <3>1, SMT DEF RestOfPacket
      <3>4. QED
        BY <1>14, <3>2, <3>3, Zenon
    <2>5. InCall(x)' <=> x < board.size /\ k \in f..(f + n - 1)
      BY <1>4, <1>13, <1>14, Zenon DEF PartOfPacket
    <2> HIDE DEF k
    <2>6. k \in (256 - l)..255 <=> k \in f..(f + n - 1) \/ k \in (256 - (l - n))..255
      BY <1>6, <1>7, <2>2, SMT
    <2>7. QED
      BY <2>3, <2>4, <2>5, <2>6, Zenon
  <1>15. QED
    BY <1>1, <1>3, <1>14, CallStored, Zenon

(* The blocks of an erase: the next one and the rest. *)
LEMMA BlocksSplit ==
    ASSUME NEW i \in Nat, NEW l \in Nat \ {0}, NEW B, NEW y
    PROVE  y \in {BlockAt(j) : j \in i..(i + l - 1)} \cap B
             <=> \/ y = BlockAt(i) /\ y \in B
                 \/ y \in {BlockAt(j) : j \in (i + 1)..((i + 1) + (l - 1) - 1)} \cap B
  <1>1. \A j : j \in i..(i + l - 1) <=> j = i \/ j \in (i + 1)..((i + 1) + (l - 1) - 1)
    BY SMT
  <1> DEFINE J == i..(i + l - 1)
             K == (i + 1)..((i + 1) + (l - 1) - 1)
  <1> HIDE DEF J, K
  <1>2. \A j : j \in J <=> j = i \/ j \in K
    BY <1>1, Zenon DEF J, K
  <1>3. y \in {BlockAt(j) : j \in J} \cap B <=> (y = BlockAt(i) /\ y \in B) \/ y \in {BlockAt(j) : j \in K} \cap B
    BY <1>2, Zenon
  <1>4. QED
    BY <1>3, Zenon DEF J, K

LEMMA EraseBlockStored ==
    ASSUME StoreInv, FlashInv', EraseBlock
    PROVE  Stored
  <1>1. /\ Request /\ ChipTypeOK /\ Calls /\ req.op = "erase" /\ loop.len > 0
    BY CallsBetween, Zenon DEF EraseBlock, StoreInv
  <1>2. loop.at \in Nat /\ loop.len \in Nat
    BY <1>1, SMT DEF Request
  <1>3. Called
    BY SMT DEF EraseBlock, Called, ChipKept, chipVars
  <1>4. PICK i, l, at, four : i = loop.at /\ l = loop.len /\ at = BlockAt(i) /\ four = Four
    OBVIOUS
  <1>5. i \in Nat /\ l \in Nat \ {0}
    BY <1>1, <1>2, <1>4, SMT
  <1>6. four \in BOOLEAN /\ at \in Int /\ at \in Nat
    <2>1. BlockAt(i) \in Int /\ BlockAt(i) \in Nat
      BY <1>5, SMT DEF BlockAt, EPCS_BLOCK_SIZE
    <2>2. QED
      BY <1>1, <1>4, <2>1, FourBoolean, Zenon
  <1>7. script' = image_erase(devs, i) /\ loop'.at = i + 1 /\ loop'.len = l - 1
    <2>1. script' = image_erase(devs, i) /\ loop' = Loop(i + 1, l - 1)
      BY <1>4, Zenon DEF EraseBlock
    <2>2. Loop(i + 1, l - 1).at = i + 1 /\ Loop(i + 1, l - 1).len = l - 1
      BY SMT DEF Loop
    <2>3. QED
      BY <2>1, <2>2, Zenon
  <1>8. req' = req /\ board' = board /\ devs' = devs
    BY <1>3, Zenon DEF Called
  <1> DEFINE B == 0..(fd.size - 1)
  <1>9. at \in B => Found /\ at < board.size
    <2>1. CASE ~Found
      <3>1. fd = NoFlash
        BY <2>1, Zenon DEF Found, fd, alt_flash_open_dev
      <3>2. NoFlash.size = 0
        BY SMT DEF NoFlash, Chip, Mbit
      <3>3. fd.size = 0
        BY <3>1, <3>2, Zenon
      <3>4. PICK z : z = fd.size
        OBVIOUS
      <3>5. at \notin 0..(z - 1)
        BY <1>6, <3>3, <3>4, SMT
      <3>6. QED
        BY <3>4, <3>5, Zenon
    <2>2. CASE Found
      <3>1. fd.size = board.size
        BY <1>1, <2>2, TheChip, Zenon
      <3>2. QED
        BY <1>1, <2>2, <3>1, BoardFacts, SMT
    <2>3. QED
      BY <2>1, <2>2, Zenon
  <1>10. script' = IF at \in B THEN Around(four, EraseFrom(at, four)) ELSE <<>>
    <2>1. CASE ~Found
      <3>1. fd = NoFlash
        BY <2>1, Zenon DEF Found, fd, alt_flash_open_dev
      <3>2. script' = <<>>
        BY <1>7, <3>1, Zenon DEF image_erase, fd
      <3>3. QED
        BY <1>9, <2>1, <3>2, Zenon
    <2>2. CASE Found
      <3>1. fd # NoFlash
        BY <1>1, <2>2, TheChip, Zenon
      <3>2. script' = IF at \in B THEN epcs_sector_erase(at, four) ELSE <<>>
        BY <1>4, <1>7, <3>1, Zenon
        DEF image_erase, fd, Four, alt_erase_flash_block, alt_epcs_flash_erase_block, alt_epcs_test_address
      <3>3. QED
        BY <1>6, <3>2, EraseCall, Zenon
    <2>3. QED
      BY <2>1, <2>2, Zenon
  <1> HIDE DEF B
  <1>11. ASSUME NEW x PROVE InCall(x)' <=> at \in B /\ x \in SectorBytes(at)
    <2>1. CASE at \notin B
      <3>1. script' = <<>>
        BY <1>10, <2>1, Zenon
      <3>2. Writing' = {}
        BY <1>3, <3>1, CallAims, WritesNothing, Zenon
      <3>3. QED
        BY <2>1, <3>2, Zenon DEF InCall
    <2>2. CASE at \in B
      <3>1. PICK c : c = Addressed("se", at, 0, 0, four)
        OBVIOUS
      <3>2. Writes(EraseFrom(at, four)) = {c} /\ EraseFrom(at, four) \in Seq(Command)
        BY <1>6, <3>1, EraseWrites, EraseShape, Zenon DEF Begins
      <3>3. script' = Around(four, EraseFrom(at, four))
        BY <1>10, <2>2, Zenon
      <3>4. Writing' = {c} /\ Aimed(c)' = Aimed(c)
        BY <1>3, <1>6, <3>2, <3>3, AroundWrites, CallAims, Zenon
      <3>5. DOMAIN Aimed(c) = SectorBytes(at)
        <4>1. Is(at, BlockAt(i)) /\ BlockAt(i) < board.size /\ Is(c, Addressed("se", at, 0, 0, four))
          BY <1>4, <1>9, <2>2, <3>1, Zenon DEF Is
        <4>2. ChipTypeOK /\ i \in Nat /\ req.op = "erase"
          BY <1>1, <1>5, Zenon
        <4>3. QED
          BY <4>1, <4>2, SectorAimed, Zenon
      <3>6. QED
        BY <2>2, <3>4, <3>5, Zenon DEF InCall
    <2>3. QED
      BY <2>1, <2>2, Zenon
  <1>12. BlocksLeft = {BlockAt(j) : j \in i..(i + l - 1)} \cap B
    BY <1>4, Zenon DEF BlocksLeft, B, fd
  <1>13. BlocksLeft' = {BlockAt(j) : j \in (i + 1)..((i + 1) + (l - 1) - 1)} \cap B
    BY <1>7, <1>8, SMT DEF BlocksLeft, B, fd
  <1>14. \A y : y \in BlocksLeft <=> (y = at /\ at \in B) \/ y \in BlocksLeft'
    <2>1. PICK P, Q : /\ P = {BlockAt(j) : j \in i..(i + l - 1)} \cap B
                      /\ Q = {BlockAt(j) : j \in (i + 1)..((i + 1) + (l - 1) - 1)} \cap B
      OBVIOUS
    <2>2. ASSUME NEW y PROVE y \in P <=> (y = BlockAt(i) /\ y \in B) \/ y \in Q
      BY <1>5, <2>1, BlocksSplit, Zenon
    <2>3. BlocksLeft = P /\ BlocksLeft' = Q
      BY <1>12, <1>13, <2>1, Zenon
    <2>4. QED
      BY <1>4, <2>2, <2>3, Zenon
  <1>15. ASSUME NEW x \in Watch PROVE (InCall(x)' \/ InRest(x)') <=> InRest(x)
    <2> DEFINE S(y) == x \div board.sector = y \div board.sector
    <2>1. InRest(x) <=> x < board.size /\ \E y \in BlocksLeft : S(y)
      BY <1>1, <1>15, RestIs, Zenon DEF InRest, RestOfBlocks
    <2>2. InRest(x)' <=> x < board.size /\ \E y \in BlocksLeft' : S(y)
      <3>1. req'.op = "erase"
        BY <1>1, <1>8, Zenon
      <3>2. DOMAIN Rest' = RestOfBlocks'
        BY <3>1, RestIsNext, Zenon
      <3>3. RestOfBlocks' = {z \in Watch : z < board.size /\ \E y \in BlocksLeft' : z \div board.sector = y \div board.sector}
        BY <1>8, Zenon DEF RestOfBlocks
      <3>4. QED
        BY <1>15, <3>2, <3>3, Zenon DEF InRest
    <2>3. x \in SectorBytes(at) <=> x < board.size /\ S(at)
      BY <1>15, Zenon DEF SectorBytes
    <2> HIDE DEF S
    <2>4. QED
      BY <1>11, <1>14, <2>1, <2>2, <2>3, Zenon
  <1>16. QED
    BY <1>1, <1>3, <1>15, CallStored, Zenon

LEMMA ReadImageStored ==
    ASSUME StoreInv, FlashInv', ReadImage
    PROVE  Stored
  <1>1. Request /\ ChipTypeOK /\ Calls /\ loop.len = 0 /\ reads
    BY CallsBetween, Zenon DEF ReadImage, StoreInv
  <1>2. Called /\ loop' = loop
    BY SMT DEF ReadImage, Called, ChipKept, chipVars
  <1>3. req.addr \in Addresses
    BY <1>1, SMT DEF Request
  <1>4. PICK a, four : a = req.addr /\ four = Four
    OBVIOUS
  <1>5. four \in BOOLEAN /\ a \in Int
    BY <1>1, <1>3, <1>4, BoardFacts, FourBoolean, SMT
  <1>6. script' = <<>> \/ script' = Around(four, PollFrom(a, four))
    <2>1. script' = <<>> \/ script' = epcs_read_buffer(a, Packet, four)
      BY <1>4, Zenon
      DEF ReadImage, image_read, fd, Four, alt_read_flash, alt_epcs_flash_read, alt_epcs_test_address, Packet
    <2>2. QED
      BY <1>5, <2>1, ReadCall, Zenon
  <1>7. Writing' = {}
    <2>1. Writes(PollFrom(a, four)) = {} /\ PollFrom(a, four) \in Seq(Command)
      BY <1>5, ReadWrites, ReadShape, Zenon DEF Begins
    <2>2. QED
      BY <1>2, <1>5, <1>6, <2>1, AroundWrites, WritesNothing, CallAims, Zenon
  <1>8. Rest' = Rest
    BY <1>2, Zenon DEF Called, ChipKept, Rest, BlocksLeft
  <1>9. \A x \in Watch : (InCall(x)' \/ InRest(x)') <=> InRest(x)
    BY <1>7, <1>8, Zenon DEF InCall, InRest
  <1>10. QED
    BY <1>1, <1>2, <1>9, CallStored, Zenon

(* Nothing is on its way. *)
Spent == busy = <<>> /\ script = <<>> /\ DOMAIN Rest = {}

LEMMA SpentFree == Spent => Flow /\ \A x : ~Covered(x)
  <1> SUFFICES ASSUME Spent PROVE Flow /\ \A x : ~Covered(x)
    OBVIOUS
  <1>1. Writing = {}
    <2>1. Writing = Writes(script)
      BY Zenon DEF Writing, Writes
    <2>2. QED
      BY <2>1, WritesNothing, Zenon DEF Spent
  <1>2. \A x : ~InBusy(x) /\ ~InCall(x) /\ ~InRest(x)
    BY <1>1, Zenon DEF InBusy, InCall, InRest, Spent
  <1>3. QED
    BY <1>2, Zenon DEF Flow, Covered

LEMMA SpentFreeNext == (Spent => Flow /\ \A x : ~Covered(x))'
  BY SpentFree, PTL

LEMMA SpentIdle ==
    ASSUME StoreInv, Spent
    PROVE  Pending = <<>>
  BY SpentFree, InvStaged, NothingPending, Zenon DEF Changes

LEMMA SpentStored ==
    ASSUME StoreInv, FlashInv', Spent, Spent', mem' = mem, board' = board, power' = power
    PROVE  Stored
  <1>1. Flow' /\ \A x : ~Covered(x) /\ ~Covered(x)'
    BY SpentFree, SpentFreeNext, Zenon
  <1>2. Unseen
    BY <1>1, Moved, Zenon
  <1>3. QED
    BY <1>1, <1>2, UnseenStored, Zenon

(* The rest of the loop is empty without a request, at the loop's end, and  *)
(* for an erase without a device.                                           *)
LEMMA IdleRest == req = Idle => DOMAIN Rest = {}
  <1> SUFFICES ASSUME req = Idle PROVE DOMAIN Rest = {}
    OBVIOUS
  <1>1. req.op \notin {"write", "erase"}
    BY SMT DEF Idle
  <1>2. QED
    BY <1>1, RestIs, Zenon

LEMMA IdleRestNext == (req = Idle => DOMAIN Rest = {})'
  BY IdleRest, PTL

LEMMA EndRest == Request /\ loop.len = 0 => DOMAIN Rest = {}
  <1> SUFFICES ASSUME Request, loop.len = 0 PROVE DOMAIN Rest = {}
    OBVIOUS
  <1>1. CASE req.op = "write"
    <2>1. \A k : k \notin (256 - loop.len)..255
      <3>1. PICK l : l = loop.len
        OBVIOUS
      <3>2. \A k : k \notin (256 - l)..255
        BY <3>1, SMT
      <3>3. QED
        BY <3>1, <3>2, Zenon
    <2>2. RestOfPacket = {}
      BY <2>1, Zenon DEF RestOfPacket
    <2>3. QED
      BY <1>1, <2>2, RestIs, Zenon
  <1>2. CASE req.op = "erase"
    <2>1. loop.at \in Nat
      BY <1>2, SMT DEF Request
    <2>2. \A j : j \notin loop.at..(loop.at + loop.len - 1)
      <3>1. PICK l, i : l = loop.len /\ i = loop.at
        OBVIOUS
      <3>2. \A j : j \notin i..(i + l - 1)
        BY <2>1, <3>1, SMT
      <3>3. QED
        BY <3>1, <3>2, Zenon
    <2>3. RestOfBlocks = {}
      BY <2>2, Zenon DEF RestOfBlocks, BlocksLeft
    <2>4. QED
      BY <1>2, <2>3, RestIs, Zenon
  <1>3. CASE req.op \notin {"write", "erase"}
    BY <1>3, RestIs, Zenon
  <1>4. QED
    BY <1>1, <1>2, <1>3, Zenon

LEMMA EndRestNext == (Request /\ loop.len = 0 => DOMAIN Rest = {})'
  BY EndRest, PTL

LEMMA BareRest == req.op = "erase" /\ ~Found => DOMAIN Rest = {}
  <1> SUFFICES ASSUME req.op = "erase", ~Found PROVE DOMAIN Rest = {}
    OBVIOUS
  <1>1. alt_flash_open_dev(devs) = NoFlash
    BY Zenon DEF Found, alt_flash_open_dev
  <1>2. NoFlash.size = 0
    BY SMT DEF NoFlash, Chip, Mbit
  <1>3. alt_flash_open_dev(devs).size = 0
    BY <1>1, <1>2, Zenon
  <1>4. PICK z : z = alt_flash_open_dev(devs).size
    OBVIOUS
  <1>5. \A j : j \notin 0..(z - 1)
    BY <1>3, <1>4, SMT
  <1>6. BlocksLeft = {}
    BY <1>4, <1>5, Zenon DEF BlocksLeft
  <1>7. RestOfBlocks = {}
    BY <1>6, Zenon DEF RestOfBlocks
  <1>8. QED
    BY <1>7, RestIs, Zenon

LEMMA BareRestNext == (req.op = "erase" /\ ~Found => DOMAIN Rest = {})'
  BY BareRest, PTL

LEMMA FinishStored ==
    ASSUME StoreInv, FlashInv', Finish
    PROVE  Stored
  <1>1. Between /\ Request /\ loop.len = 0
    BY CallsBetween, Zenon DEF Finish, StoreInv
  <1>2. busy = <<>> /\ script = <<>>
    BY <1>1, Zenon DEF Between, Quiet
  <1>3. UNCHANGED <<board, mem, busy, power, script>>
    BY SMT DEF Finish, chipVars
  <1>4. board' = board /\ mem' = mem /\ busy' = busy /\ power' = power /\ script' = script
    BY <1>3, Zenon
  <1>5. req' = Idle
    BY Zenon DEF Finish
  <1>6. Spent
    BY <1>1, <1>2, EndRest, Zenon DEF Spent
  <1>7. Spent'
    <2>1. DOMAIN Rest' = {}
      BY <1>5, IdleRestNext, Zenon
    <2>2. QED
      BY <1>2, <1>4, <2>1, Zenon DEF Spent
  <1>8. QED
    BY <1>4, <1>6, <1>7, SpentStored, Zenon

(* A request begins when the one before it is complete. *)
LEMMA AcceptedFresh ==
    ASSUME StoreInv, NEW r, NEW pages, NEW back, NEW data, AcceptedAs(r, pages, back, data)
    PROVE  /\ Spent /\ Pending = <<>> /\ power = "run" /\ ChipTypeOK
           /\ req' = r /\ loop' = pages
           /\ board' = board /\ devs' = devs /\ mem' = mem /\ power' = power
           /\ busy' = <<>> /\ script' = <<>>
  <1>1. ChipTypeOK /\ power = "run" /\ script = <<>> /\ busy = <<>> /\ req = Idle
    BY ReadyIdle, Zenon DEF AcceptedAs, Accept, StoreInv, Quiet, Ready
  <1>2. UNCHANGED <<board, mem, busy, power, devs, script>>
    BY SMT DEF AcceptedAs, Accept, chipVars
  <1>3. req' = r /\ loop' = pages
    BY Zenon DEF AcceptedAs, Accept
  <1>4. Spent
    BY <1>1, IdleRest, Zenon DEF Spent
  <1>5. QED
    BY <1>1, <1>2, <1>3, <1>4, SpentIdle, Zenon

LEMMA RequestReadStored ==
    ASSUME StoreInv, FlashInv', NEW a \in Addresses, RequestRead(a)
    PROVE  Stored
  <1> DEFINE r == [op |-> "read", addr |-> a]
  <1>1. AcceptedAs(r, Nothing, TRUE, image)
    BY Zenon DEF RequestRead, AcceptedAs
  <1>2. r.op \notin {"write", "erase"}
    BY SMT
  <1> HIDE DEF r
  <1>3. /\ Spent /\ req' = r /\ board' = board /\ mem' = mem /\ power' = power /\ busy' = <<>> /\ script' = <<>>
    BY <1>1, AcceptedFresh, Zenon
  <1>4. Spent'
    BY <1>2, <1>3, RestIsNext, Zenon DEF Spent
  <1>5. QED
    BY <1>3, <1>4, SpentStored, Zenon

(* What a request asks for is the byte store's list of what is to do. *)
Asked(T) ==
    /\ DOMAIN T \subseteq Watch
    /\ \A x \in Watch : InRest(x)' <=> x \in DOMAIN T
    /\ \A x \in DOMAIN T : Goal(x)' = T[x]

LEMMA BeginStored ==
    ASSUME FlashInv', mem' = mem, busy' = <<>>, script' = <<>>, NEW T, Asked(T)
    PROVE  Flow' /\ Flash!ToDo(T)
  <1>1. \A x : ~InBusy(x)' /\ ~InCall(x)'
    <2>1. Writing' = Writes(script')
      BY SMT DEF Writing, Writes
    <2>2. Writing' = {}
      BY <2>1, WritesNothing, Zenon
    <2>3. QED
      BY <2>2, Zenon DEF InBusy, InCall
  <1>2. Flow'
    BY <1>1, Zenon DEF Flow
  <1>3. Staged'
    BY <1>2, InvStagedNext, Zenon DEF StoreInv
  <1>4. Pending' = [x \in {y \in Watch : Changes(y)'} |-> Goal(x)']
    BY <1>3, PendingNext, SMT DEF PendingForm
  <1>5. ASSUME NEW y \in Watch PROVE Changes(y)' <=> y \in DOMAIN T /\ T[y] # mem[y]
    <2>1. Covered(y)' <=> y \in DOMAIN T
      BY <1>1, Zenon DEF Covered, Asked
    <2>2. y \in DOMAIN T => Goal(y)' = T[y]
      BY Zenon DEF Asked
    <2>3. QED
      BY <2>1, <2>2, Zenon DEF Changes
  <1>6. {y \in Watch : Changes(y)'} = {b \in DOMAIN T : T[b] # mem[b]}
    BY <1>5, Zenon DEF Asked
  <1>7. \A x \in {b \in DOMAIN T : T[b] # mem[b]} : Goal(x)' = T[x]
    BY Zenon DEF Asked
  <1>8. Pending' = [c \in {b \in DOMAIN T : T[b] # mem[b]} |-> T[c]]
    BY <1>4, <1>6, <1>7, SMT
  <1>9. QED
    BY <1>2, <1>8, Zenon DEF Flash!ToDo

LEMMA Begun ==
    ASSUME power = "run", Pending = <<>>, mem' = mem, board' = board, power' = power, Flow',
           \/ \E a \in Addresses, d \in Data : Flash!Write(a, d)
           \/ \E n \in Counts : Flash!Erase(n)
    PROVE  Stored
  <1>1. UNCHANGED <<mem, board.size, board.sector, power = "run">>
    BY Zenon
  <1>2. Flash!Begin
    BY <1>1, Zenon DEF Flash!Begin
  <1>3. QED
    BY <1>2, Zenon DEF Stored, Flash!Next

LEMMA RequestWriteStored ==
    ASSUME StoreInv, FlashInv', NEW a \in Addresses, NEW d \in Data, RequestWrite(a, d)
    PROVE  Stored
  <1> DEFINE r == [op |-> "write", addr |-> a, data |-> d]
             pages == image_write(devs, a)
             data == [j \in Probes |-> {<<d, j>>}]
  <1>1. AcceptedAs(r, pages, TRUE, data)
    BY Zenon DEF RequestWrite, AcceptedAs
  <1>2. r.op = "write" /\ r.addr = a /\ r.data = d /\ r # Idle
    BY SMT DEF Idle
  <1> HIDE DEF r, pages, data
  <1>3. /\ Spent /\ Pending = <<>> /\ power = "run" /\ ChipTypeOK
        /\ req' = r /\ loop' = pages
        /\ board' = board /\ devs' = devs /\ mem' = mem /\ power' = power
        /\ busy' = <<>> /\ script' = <<>>
    BY <1>1, AcceptedFresh, Zenon
  <1>4. Request'
    BY <1>2, <1>3, Zenon DEF FlashInv
  <1>5. a \in Nat /\ board.size \in Nat \ {0} /\ DOMAIN mem = Watch
    BY <1>3, BoardFacts, SMT DEF ChipTypeOK
  <1>6. (a \div EPCS_BLOCK_SIZE) * EPCS_BLOCK_SIZE + (a % EPCS_BLOCK_SIZE) = a
    BY <1>5, SMT DEF EPCS_BLOCK_SIZE
  <1>7. pages = Nothing \/ pages = Loop(a, Packet)
    BY <1>6, Zenon DEF pages, image_write, alt_write_flash_block, alt_epcs_flash_write_block, Packet
  <1>8. CASE pages = Nothing
    <2>1. loop'.len = 0
      BY <1>3, <1>8, SMT DEF Nothing, Loop
    <2>2. Spent'
      BY <1>3, <1>4, <2>1, EndRestNext, Zenon DEF Spent
    <2>3. QED
      BY <1>3, <2>2, SpentStored, Zenon
  <1>9. CASE pages = Loop(a, Packet)
    <2> DEFINE k(c) == (c - a) % board.size
               P == {b \in DOMAIN mem : b < board.size /\ k(b) < 256}
               T == [c \in P |-> mem[c] \cup {<<d, k(c)>>}]
    <2>1. loop'.len = 256
      BY <1>3, <1>9, SMT DEF Loop, Packet
    <2>2. ASSUME NEW x \in Watch PROVE InRest(x)' <=> x \in P
      <3>1. x \in Nat
        BY WatchNat, Zenon
      <3>2. k(x) \in Nat
        BY <1>5, <3>1, SMT
      <3>3. DOMAIN Rest' = RestOfPacket'
        BY <1>2, <1>3, RestIsNext, Zenon
      <3>4. x \in RestOfPacket' <=> x < board.size /\ k(x) \in (256 - 256)..255
        <4>1. PICK u, z : u = req'.addr /\ z = loop'.len
          OBVIOUS
        <4>2. RestOfPacket' = {y \in Watch : y < board.size /\ (y - u) % board.size \in (256 - z)..255}
          <5>1. RestOfPacket' = {y \in Watch : y < board'.size /\ (y - u) % board'.size \in (256 - z)..255}
            BY <4>1, SMT DEF RestOfPacket
          <5>2. QED
            BY <1>3, <5>1, Zenon
        <4>3. u = a /\ z = 256
          BY <1>2, <1>3, <2>1, <4>1, Zenon
        <4>4. QED
          BY <2>2, <4>2, <4>3, Zenon
      <3> HIDE DEF k
      <3>5. k(x) \in (256 - 256)..255 <=> k(x) < 256
        BY <3>2, SMT
      <3>6. QED
        BY <1>5, <2>2, <3>3, <3>4, <3>5, Zenon DEF InRest
    <2>3. ASSUME NEW x \in P PROVE Goal(x)' = mem[x] \cup {<<d, k(x)>>}
      BY <1>2, <1>3, Zenon DEF Goal
    <2>4. P \subseteq Watch
      BY <1>5, Zenon
    <2>5. Asked(T)
      <3> HIDE DEF P, k
      <3>1. DOMAIN T = P /\ \A x \in P : T[x] = mem[x] \cup {<<d, k(x)>>}
        BY Zenon
      <3> HIDE DEF T
      <3>2. QED
        BY <2>2, <2>3, <2>4, <3>1, Zenon DEF Asked
    <2>6. Flow' /\ Flash!ToDo(T)
      <3> HIDE DEF T
      <3>1. QED
        BY <1>3, <2>5, BeginStored, Zenon
    <2>7. Flash!Write(a, d)
      BY <2>6, Zenon DEF Flash!Write, Flash!Watched
    <2>8. QED
      BY <1>3, <2>6, <2>7, Begun, Zenon
  <1>10. QED
    BY <1>7, <1>8, <1>9, Zenon

(* The sectors that hold blocks 0..n-1 are those that begin before block n. *)
FirstBlocks(n, s) == {BlockAt(i) : i \in 0..(0 + n - 1)} \cap 0..(s - 1)

OfDriver(z) == z \in Nat /\ z <= 1024 * 131072
InBlocks(s, m) == s = EPCS_BLOCK_SIZE * m

LEMMA BlocksReach ==
    ASSUME NEW z, OfDriver(z), NEW m \in Nat, NEW s \in Nat \ {0}, InBlocks(s, m),
           NEW n \in Nat, NEW x \in Nat, x < z
    PROVE  (\E y \in FirstBlocks(n, z) : SameIn(x, y, s)) <=> (x \div s) * s < n * EPCS_BLOCK_SIZE
  <1>0. PICK u \in Nat \ {0} : u = EPCS_BLOCK_SIZE
    BY SMT DEF EPCS_BLOCK_SIZE
  <1>7. z \in Nat
    BY SMT DEF OfDriver
  <1> DEFINE q == x \div s
             b == q * s
  <1>1. q \in Nat /\ b <= x /\ x < b + s
    BY DivBounds, Zenon
  <1> HIDE DEF q
  <1>2. b \in Nat
    BY <1>1, SMT
  <1>3. ASSUME NEW y \in FirstBlocks(n, z), SameIn(x, y, s) PROVE b < n * u
    <2>1. PICK i \in 0..(0 + n - 1) : y = BlockAt(i)
      BY <1>3, Zenon DEF FirstBlocks
    <2>2. y \in Nat
      <3>1. y \in 0..(z - 1)
        BY <1>3, Zenon DEF FirstBlocks
      <3>2. QED
        BY <1>7, <3>1, SMT
    <2>3. (y \div s) * s <= y
      BY <2>2, DivBounds, Zenon
    <2>4. y \div s = q
      BY <1>3, Zenon DEF SameIn, q
    <2>5. b <= y
      BY <2>3, <2>4, Zenon
    <2>6. i \in Nat /\ i + 1 <= n
      BY SMT
    <2>7. y <= i * u
      BY <1>0, <2>1, <2>6, SMT DEF BlockAt, EPCS_BLOCK_SIZE
    <2> HIDE DEF b
    <2>8. i * u + u <= n * u
      <3>1. (i + 1) * u <= n * u /\ (i + 1) * u = i * u + u /\ i * u \in Nat /\ n * u \in Nat
        BY <1>0, <2>6, SMT
      <3>2. QED
        BY <3>1, Zenon
    <2>9. i * u \in Nat /\ n * u \in Nat
      BY <1>0, <2>6, SMT
    <2>10. PICK v, w : v = i * u /\ w = n * u
      OBVIOUS
    <2>11. v \in Nat /\ w \in Nat /\ y <= v /\ v + u <= w
      BY <2>7, <2>8, <2>9, <2>10, Zenon
    <2>12. b < w
      BY <1>0, <1>2, <2>2, <2>5, <2>11, SMT
    <2>13. QED
      BY <2>10, <2>12, Zenon
  <1>4. ASSUME b < n * u PROVE \E y \in FirstBlocks(n, z) : SameIn(x, y, s)
    <2> DEFINE i == q * m
    <2>1. i \in Nat /\ b = i * u
      <3>1. \A e, f, g \in Nat : e * (f * g) = f * (e * g)
        BY SMT
      <3>2. s = u * m /\ u \in Nat /\ q \in Nat /\ m \in Nat
        BY <1>0, <1>1, Zenon DEF InBlocks
      <3>3. q * (u * m) = u * (q * m)
        BY <3>1, <3>2, Zenon
      <3>4. i \in Nat
        BY <1>1, SMT
      <3> HIDE DEF i
      <3>5. u * i = i * u
        BY <1>0, <3>4, SMT
      <3>6. b = u * i
        BY <3>2, <3>3, Zenon DEF i
      <3>7. QED
        BY <3>4, <3>5, <3>6, Zenon
    <2> HIDE DEF i
    <2>2. b < z
      <3> HIDE DEF b
      <3>1. QED
        BY <1>1, <1>2, <1>7, SMT
    <2> HIDE DEF b
    <2>3. i < n
      <3>1. i * u < n * u
        BY <1>4, <2>1, Zenon
      <3>2. n <= i => n * u <= i * u
        BY <1>0, <2>1, SMT
      <3>3. i * u \in Nat /\ n * u \in Nat
        BY <1>0, <2>1, SMT
      <3>4. QED
        BY <2>1, <3>1, <3>2, <3>3, SMT
    <2>4. i < 65536
      BY <1>0, <1>2, <2>1, <2>2, SMT DEF OfDriver, EPCS_BLOCK_SIZE
    <2>5. i \in 0..(0 + n - 1)
      BY <2>1, <2>3, SMT
    <2>6. b \in 0..(z - 1)
      BY <1>2, <1>7, <2>2, SMT
    <2>7. BlockAt(i) = b
      BY <1>0, <2>1, <2>4, SMT DEF BlockAt, EPCS_BLOCK_SIZE
    <2>8. b \in FirstBlocks(n, z)
      BY <2>5, <2>6, <2>7, Zenon DEF FirstBlocks
    <2>9. Quotient(b, s, q)
      <3>1. q * s <= b /\ b < q * s + s
        <4>1. b = q * s
          BY Zenon DEF b
        <4>2. PICK v : v = q * s
          OBVIOUS
        <4>3. v <= b /\ b < v + s
          BY <1>2, <4>1, <4>2, SMT
        <4>4. QED
          BY <4>2, <4>3, Zenon
      <3>2. QED
        BY <1>1, <1>2, <3>1, DivUnique, Zenon
    <2>10. SameIn(x, b, s)
      BY <2>9, Zenon DEF Quotient, SameIn, q
    <2>11. QED
      BY <2>8, <2>10, Zenon
  <1>5. b < n * u <=> b < n * EPCS_BLOCK_SIZE
    BY <1>0, Zenon
  <1>6. QED
    BY <1>3, <1>4, <1>5, Zenon DEF q

LEMMA RequestEraseStored ==
    ASSUME StoreInv, FlashInv', NEW n \in Counts, RequestErase(n)
    PROVE  Stored
  <1> DEFINE r == [op |-> "erase", count |-> n]
  <1>1. AcceptedAs(r, Loop(0, n), FALSE, image)
    BY Zenon DEF RequestErase, AcceptedAs
  <1>2. r.op = "erase" /\ r.op # "write"
    BY SMT
  <1> HIDE DEF r
  <1>3. /\ Spent /\ Pending = <<>> /\ power = "run" /\ ChipTypeOK
        /\ req' = r /\ loop' = Loop(0, n)
        /\ board' = board /\ devs' = devs /\ mem' = mem /\ power' = power
        /\ busy' = <<>> /\ script' = <<>>
    BY <1>1, AcceptedFresh, Zenon
  <1>4. loop'.at = 0 /\ loop'.len = n /\ n \in Nat
    <2>1. Loop(0, n).at = 0 /\ Loop(0, n).len = n /\ n \in Nat
      BY RemoteUpdateAssumption, SMT DEF Loop
    <2>2. QED
      BY <1>3, <2>1, Zenon
  <1>5. CASE ~Found
    <2>1. Spent'
      BY <1>2, <1>3, <1>5, BareRestNext, Zenon DEF Spent, Found
    <2>2. QED
      BY <1>3, <2>1, SpentStored, Zenon
  <1>6. CASE Found
    <2> DEFINE P == {b \in DOMAIN mem : b < board.size /\ (b \div board.sector) * board.sector < n * EPCS_BLOCK_SIZE}
               T == [c \in P |-> {}]
    <2>1. fd.size = board.size /\ Sizes(fd)
      BY <1>3, <1>6, TheChip, Zenon
    <2>2. PICK z, s : z = board.size /\ s = board.sector
      OBVIOUS
    <2>3. OfDriver(z) /\ s \in Nat \ {0} /\ s % EPCS_BLOCK_SIZE = 0
      <3>1. s \in Nat \ {0} /\ s % EPCS_BLOCK_SIZE = 0
        BY <1>3, <2>2, BoardFacts, Zenon
      <3>2. OfDriver(fd.size)
        BY <2>1, SMT DEF Sizes, OfDriver
      <3>3. z = fd.size
        BY <2>1, <2>2, Zenon
      <3>4. QED
        BY <3>1, <3>2, <3>3, Zenon
    <2>4. PICK m \in Nat : InBlocks(s, m)
      <3>1. \E m \in Nat : s = EPCS_BLOCK_SIZE * m
        BY <2>3, SMT DEF EPCS_BLOCK_SIZE
      <3>2. QED
        BY <3>1, Zenon DEF InBlocks
    <2>5. BlocksLeft' = FirstBlocks(n, z)
      <3>1. BlocksLeft' = {BlockAt(j) : j \in 0..(0 + n - 1)} \cap 0..(fd.size - 1)
        BY <1>3, <1>4, SMT DEF BlocksLeft, fd
      <3>2. QED
        BY <2>1, <2>2, <3>1, Zenon DEF FirstBlocks
    <2>6. ASSUME NEW x \in Watch PROVE InRest(x)' <=> x \in P
      <3>1. DOMAIN Rest' = RestOfBlocks'
        BY <1>2, <1>3, RestIsNext, Zenon
      <3>2. RestOfBlocks' = {u \in Watch : u < z /\ \E y \in BlocksLeft' : u \div s = y \div s}
        BY <1>3, <2>2, Zenon DEF RestOfBlocks
      <3>3. InRest(x)' <=> x < z /\ \E y \in FirstBlocks(n, z) : SameIn(x, y, s)
        BY <2>5, <2>6, <3>1, <3>2, Zenon DEF InRest, SameIn
      <3>4. x < z => ((\E y \in FirstBlocks(n, z) : SameIn(x, y, s)) <=> (x \div s) * s < n * EPCS_BLOCK_SIZE)
        <4>1. x \in Nat
          BY WatchNat, Zenon
        <4>2. QED
          BY <1>4, <2>3, <2>4, <4>1, BlocksReach, Zenon
      <3>5. x \in P <=> x < z /\ (x \div s) * s < n * EPCS_BLOCK_SIZE
        BY <1>3, <2>2, <2>6, Zenon DEF ChipTypeOK
      <3>6. QED
        BY <3>3, <3>4, <3>5, Zenon
    <2>7. ASSUME NEW x \in P PROVE Goal(x)' = {}
      BY <1>2, <1>3, Zenon DEF Goal
    <2>8. P \subseteq Watch
      BY <1>3, Zenon DEF ChipTypeOK
    <2>9. Asked(T)
      <3> HIDE DEF P
      <3>1. DOMAIN T = P /\ \A x \in P : T[x] = {}
        BY Zenon
      <3> HIDE DEF T
      <3>2. QED
        BY <2>6, <2>7, <2>8, <3>1, Zenon DEF Asked
    <2>10. Flow' /\ Flash!ToDo(T)
      <3> HIDE DEF T
      <3>1. QED
        BY <1>3, <2>9, BeginStored, Zenon
    <2>11. Flash!Erase(n)
      BY <2>10, Zenon DEF Flash!Erase, Flash!Watched
    <2>12. QED
      BY <1>3, <2>10, <2>11, Begun, Zenon
  <1>7. QED
    BY <1>5, <1>6, Zenon

(* The chip ends its write: the bytes of it that were to change have. *)
LEMMA DoneChanges ==
    ASSUME StoreInv, FlashInv', ChipDone, NEW y \in Watch
    PROVE  /\ Changes(y)' <=> Changes(y) /\ ~InBusy(y)
           /\ Changes(y)' => Goal(y)' = Goal(y)
           /\ mem'[y] = IF InBusy(y) THEN Goal(y) ELSE mem[y]
  <1>1. busy # <<>> /\ busy' = <<>> /\ mem' = Overwrite(busy[1])
    BY Zenon DEF ChipDone
  <1>2. UNCHANGED <<board, devs, req, loop, script>>
    BY SMT DEF ChipDone, reqVars
  <1>3. board' = board /\ devs' = devs /\ req' = req /\ loop' = loop /\ script' = script
    BY <1>2, Zenon
  <1>4. mem'[y] = IF InBusy(y) THEN Goal(y) ELSE mem[y]
    <2>1. mem'[y] = IF y \in DOMAIN busy[1] THEN busy[1][y] ELSE mem[y]
      BY <1>1, Zenon DEF Overwrite
    <2>2. InBusy(y) <=> y \in DOMAIN busy[1]
      BY <1>1, Zenon DEF InBusy
    <2>3. InBusy(y) => busy[1][y] = Goal(y)
      BY Zenon DEF StoreInv, Flow
    <2>4. QED
      BY <2>1, <2>2, <2>3, Zenon
  <1>5. ~InCall(y) /\ ~InCall(y)' /\ ~InBusy(y)'
    <2>1. Writing = {}
      BY <1>1, Ahead, Zenon DEF StoreInv, NoneAhead
    <2>2. Writing' = Writing
      BY <1>3, Zenon DEF Writing
    <2>3. QED
      BY <1>1, <2>1, <2>2, Zenon DEF InCall, InBusy
  <1>6. CASE req.op \in {"write", "erase"}
    <2>1. InRest(y)' <=> InRest(y)
      <3>1. RestOfPacket' = RestOfPacket
        BY <1>3, Zenon DEF RestOfPacket
      <3>2. RestOfBlocks' = RestOfBlocks
        BY <1>3, Zenon DEF RestOfBlocks, BlocksLeft
      <3>3. QED
        BY <1>3, <1>6, <3>1, <3>2, RestIs, RestIsNext, Zenon DEF InRest
    <2>2. CASE InBusy(y)
      <3>1. mem'[y] = Goal(y)
        BY <1>4, <2>2, Zenon
      <3>2. Goal(y)' = mem'[y]
        <4>1. CASE req.op = "write"
          BY <1>3, <3>1, <4>1, Zenon DEF Goal
        <4>2. CASE req.op = "erase"
          <5>1. req.op # "write"
            BY <4>2, SMT
          <5>2. QED
            BY <1>3, <3>1, <4>2, <5>1, Zenon DEF Goal
        <4>3. QED
          BY <1>6, <4>1, <4>2, Zenon
      <3>3. QED
        BY <1>4, <2>2, <3>2, Zenon DEF Changes
    <2>3. CASE ~InBusy(y)
      <3>1. mem'[y] = mem[y]
        BY <1>4, <2>3, Zenon
      <3>2. Goal(y)' = Goal(y)
        BY <1>3, <1>6, <3>1, Zenon DEF Goal
      <3>3. QED
        BY <1>4, <1>5, <2>1, <2>3, <3>1, <3>2, Zenon DEF Changes, Covered
    <2>4. QED
      BY <2>2, <2>3, Zenon
  <1>7. CASE req.op \notin {"write", "erase"}
    <2>1. ~InRest(y) /\ ~InRest(y)'
      BY <1>3, <1>7, RestIs, RestIsNext, Zenon DEF InRest
    <2>2. ~Changes(y)' /\ (Changes(y) => InBusy(y))
      BY <1>5, <2>1, Zenon DEF Changes, Covered
    <2>3. QED
      BY <1>4, <2>2, Zenon
  <1>8. QED
    BY <1>6, <1>7, Zenon

LEMMA ChipDoneStored ==
    ASSUME StoreInv, FlashInv', ChipDone
    PROVE  Stored
  <1>1. busy # <<>> /\ busy' = <<>> /\ mem' = Overwrite(busy[1]) /\ DOMAIN mem = Watch
    BY Zenon DEF ChipDone, StoreInv, FlashInv, ChipTypeOK
  <1>2. UNCHANGED <<board, power>>
    BY SMT DEF ChipDone
  <1>3. Flow'
    BY <1>1, Zenon DEF Flow, InBusy
  <1>4. Staged /\ Staged'
    BY <1>3, InvStaged, InvStagedNext, Zenon DEF StoreInv
  <1>5. Pending = [x \in {y \in Watch : Changes(y)} |-> Goal(x)]
    BY <1>4, PendingNow, Zenon DEF PendingForm
  <1>6. Pending' = [x \in {y \in Watch : Changes(y)'} |-> Goal(x)']
    BY <1>4, PendingNext, SMT DEF PendingForm
  <1>7. PICK T, U : T = Pending /\ U = Pending'
    OBVIOUS
  <1>8. /\ DOMAIN T \subseteq Watch
        /\ \A y \in Watch : y \in DOMAIN T <=> Changes(y)
        /\ \A y \in DOMAIN T : T[y] = Goal(y)
    BY <1>5, <1>7, Zenon
  <1>9. U = [x \in {y \in Watch : Changes(y)'} |-> Goal(x)']
    BY <1>6, <1>7, Zenon
  <1>10. {y \in Watch : Changes(y)'} = {y \in DOMAIN T : ~InBusy(y)}
    BY <1>8, DoneChanges, Zenon
  <1>11. ASSUME NEW x \in {y \in DOMAIN T : ~InBusy(y)} PROVE Goal(x)' = T[x]
    <2>1. x \in Watch /\ Changes(x)' /\ T[x] = Goal(x)
      BY <1>8, <1>10, Zenon
    <2>2. QED
      BY <2>1, DoneChanges, Zenon
  <1>12. U = [x \in {y \in DOMAIN T : ~InBusy(y)} |-> T[x]]
    BY <1>9, <1>10, <1>11, SMT
  <1>13. DOMAIN U = {y \in DOMAIN T : ~InBusy(y)}
    BY <1>12, Zenon
  <1>14. PICK done : done = Watch \cap (DOMAIN T \ DOMAIN U)
    OBVIOUS
  <1>15. \A y \in Watch : y \in done <=> y \in DOMAIN T /\ InBusy(y)
    BY <1>13, <1>14, Zenon
  <1>16. DOMAIN T \ done = {y \in DOMAIN T : ~InBusy(y)}
    BY <1>8, <1>15, Zenon
  <1>17. U = [c \in DOMAIN T \ done |-> T[c]]
    BY <1>12, <1>16, SMT
  <1>18. ASSUME NEW c \in Watch PROVE mem'[c] = IF c \in done THEN T[c] ELSE mem[c]
    <2>1. mem'[c] = IF InBusy(c) THEN Goal(c) ELSE mem[c]
      BY <1>18, DoneChanges, Zenon
    <2>2. CASE c \in done
      BY <1>8, <1>15, <2>1, <2>2, Zenon
    <2>3. CASE c \notin done
      <3>1. InBusy(c) => Goal(c) = mem[c]
        BY <1>8, <1>15, <1>18, <2>3, Zenon DEF Changes, Covered
      <3>2. QED
        BY <2>1, <2>3, <3>1, Zenon
    <2>4. QED
      BY <2>2, <2>3, Zenon
  <1>19. mem' = [c \in Watch |-> IF c \in done THEN T[c] ELSE mem[c]]
    <2>1. mem' = [c \in Watch |-> mem'[c]]
      BY <1>1, Zenon DEF Overwrite
    <2>2. QED
      BY <1>18, <2>1, SMT
  <1>20. UNCHANGED <<board.size, board.sector, power = "run">>
    BY <1>2, Zenon
  <1>21. Flash!Apply
    <2> DEFINE E == DOMAIN mem \cap (DOMAIN Pending \ DOMAIN Pending')
    <2>1. DOMAIN mem = Watch
      BY <1>1, Zenon
    <2>2. E = done
      BY <1>7, <1>14, <2>1, Zenon
    <2> HIDE DEF E
    <2>3. Pending' = [c \in DOMAIN Pending \ E |-> Pending[c]]
      BY <1>7, <1>17, <2>2, Zenon
    <2>4. mem' = [c \in DOMAIN mem |-> IF c \in E THEN Pending[c] ELSE mem[c]]
      BY <1>7, <1>19, <2>1, <2>2, Zenon
    <2>5. QED
      BY <1>20, <2>3, <2>4, Zenon DEF E, Flash!Apply, Flash!Watched, Flash!Restrict
  <1>22. QED
    BY <1>3, <1>21, Zenon DEF Stored, Flash!Next

(* Without a request only the write in progress is left. *)
LEMMA IdleFlow == req = Idle /\ script = <<>> => Flow /\ \A x : (Covered(x) <=> InBusy(x)) /\ Goal(x) = busy[1][x]
  <1> SUFFICES ASSUME req = Idle, script = <<>>
               PROVE  Flow /\ \A x : (Covered(x) <=> InBusy(x)) /\ Goal(x) = busy[1][x]
    OBVIOUS
  <1>1. req.op # "write" /\ req.op # "erase"
    BY SMT DEF Idle
  <1>2. \A x : Goal(x) = busy[1][x]
    BY <1>1, Zenon DEF Goal
  <1>3. \A x : ~InRest(x)
    BY IdleRest, Zenon DEF InRest
  <1>4. Writing = {}
    <2>1. Writing = Writes(script)
      BY Zenon DEF Writing, Writes
    <2>2. QED
      BY <2>1, WritesNothing, Zenon
  <1>5. QED
    BY <1>2, <1>3, <1>4, Zenon DEF Flow, Covered, InCall

LEMMA IdleFlowNext ==
    (req = Idle /\ script = <<>> => Flow /\ \A x : (Covered(x) <=> InBusy(x)) /\ Goal(x) = busy[1][x])'
  BY IdleFlow, PTL

(* A restart: of the write in progress the chip keeps all, or the cut of    *)
(* the power leaves some of its bytes changed.                              *)
Lost(y) ==
    /\ InBusy(y)' => InBusy(y) /\ busy'[1][y] = busy[1][y] /\ mem'[y] = mem[y]
    /\ mem'[y] = mem[y] \/ (InBusy(y) /\ mem'[y] = busy[1][y])

LEMMA Interrupted ==
    ASSUME StoreInv, FlashInv', power' # "run", board' = board, req' = Idle, script' = <<>>,
           \A y \in Watch : Lost(y)
    PROVE  Stored
  <1>1. Flow' /\ \A x : (Covered(x)' <=> InBusy(x)') /\ Goal(x)' = busy'[1][x]
    BY IdleFlowNext, SMT
  <1>2. Staged /\ Staged'
    BY <1>1, InvStaged, InvStagedNext, Zenon DEF StoreInv
  <1>3. Pending = [x \in {y \in Watch : Changes(y)} |-> Goal(x)]
    BY <1>2, PendingNow, Zenon DEF PendingForm
  <1>4. Pending' = [x \in {y \in Watch : Changes(y)'} |-> Goal(x)']
    BY <1>2, PendingNext, SMT DEF PendingForm
  <1>5. PICK T, U : T = Pending /\ U = Pending'
    OBVIOUS
  <1>6. /\ \A y \in Watch : y \in DOMAIN T <=> Changes(y)
        /\ \A y \in DOMAIN T : y \in Watch /\ T[y] = Goal(y)
    BY <1>3, <1>5, Zenon
  <1>7. U = [x \in {y \in Watch : Changes(y)'} |-> Goal(x)']
    BY <1>4, <1>5, Zenon
  <1>8. DOMAIN U = {y \in Watch : Changes(y)'}
    BY <1>7, Zenon
  <1>9. ASSUME NEW y \in Watch, Changes(y)' PROVE y \in DOMAIN T /\ Goal(y)' = T[y]
    <2>1. InBusy(y)' /\ Goal(y)' = busy'[1][y] /\ Goal(y)' # mem'[y]
      BY <1>1, <1>9, Zenon DEF Changes
    <2>2. InBusy(y) /\ busy'[1][y] = busy[1][y] /\ mem'[y] = mem[y]
      BY <1>9, <2>1, Zenon DEF Lost
    <2>3. busy[1][y] = Goal(y)
      BY <2>2, Zenon DEF StoreInv, Flow
    <2>4. Changes(y) /\ Goal(y)' = Goal(y)
      BY <2>1, <2>2, <2>3, Zenon DEF Changes, Covered
    <2>5. QED
      BY <1>6, <1>9, <2>4, Zenon
  <1>10. DOMAIN U \subseteq DOMAIN T
    BY <1>8, <1>9, Zenon
  <1>11. U = [x \in {y \in Watch : Changes(y)'} |-> T[x]]
    BY <1>7, <1>9, SMT
  <1>12. U = [x \in DOMAIN U |-> T[x]]
    BY <1>8, <1>11, Zenon
  <1>13. ASSUME NEW c \in Watch PROVE mem'[c] \in {mem[c]} \cup {T[b] : b \in DOMAIN T \cap {c}}
    <2>1. CASE mem'[c] = mem[c]
      BY <2>1, Zenon
    <2>2. CASE mem'[c] # mem[c]
      <3>1. InBusy(c) /\ mem'[c] = busy[1][c]
        BY <1>13, <2>2, Zenon DEF Lost
      <3>2. busy[1][c] = Goal(c)
        BY <3>1, Zenon DEF StoreInv, Flow
      <3>3. Changes(c)
        BY <2>2, <3>1, <3>2, Zenon DEF Changes, Covered
      <3>4. c \in DOMAIN T /\ T[c] = mem'[c]
        BY <1>6, <1>13, <3>1, <3>2, <3>3, Zenon
      <3>5. QED
        BY <3>4, Zenon
    <2>3. QED
      BY <2>1, <2>2, Zenon
  <1>14. Flash!Interrupt
    <2>1. DOMAIN mem = Watch
      BY Zenon DEF StoreInv, FlashInv, ChipTypeOK
    <2>2. ~((power = "run")')
      BY Zenon
    <2>3. DOMAIN Pending' \subseteq DOMAIN Pending /\ Pending' = [c \in DOMAIN Pending' |-> Pending[c]]
      BY <1>5, <1>10, <1>12, Zenon
    <2>4. \A c \in DOMAIN mem : mem'[c] \in {mem[c]} \cup {Pending[b] : b \in DOMAIN Pending \cap {c}}
      BY <1>5, <1>13, <2>1, Zenon
    <2>5. UNCHANGED <<board.size, board.sector>>
      BY Zenon
    <2>6. QED
      BY <2>2, <2>3, <2>4, <2>5, Zenon DEF Flash!Interrupt, Flash!Watched, Flash!Restrict
  <1>15. QED
    BY <1>1, <1>14, Zenon DEF Stored, Flash!Next

LEMMA WatchdogStored ==
    ASSUME StoreInv, FlashInv', Watchdog
    PROVE  Stored
  <1>1. /\ power' = "copier" /\ req' = Idle /\ script' = <<>> /\ board' = board
    BY ForgetFrame, Zenon DEF Watchdog, StoreInv, FlashInv
  <1>2. mem' = mem /\ busy' = busy
    BY SMT DEF Watchdog
  <1>3. \A y \in Watch : Lost(y)
    BY <1>2, Zenon DEF Lost, InBusy
  <1>4. power' # "run"
    BY <1>1, SMT
  <1>5. QED
    BY <1>1, <1>3, <1>4, Interrupted, Zenon

LEMMA PowerCutStored ==
    ASSUME StoreInv, FlashInv', PowerCut
    PROVE  Stored
  <1>1. /\ power' = "off" /\ req' = Idle /\ script' = <<>> /\ board' = board
    BY ForgetFrame, Zenon DEF PowerCut, StoreInv, FlashInv
  <1>2. busy' = <<>>
    BY Zenon DEF PowerCut
  <1>3. PICK C \in SUBSET (IF busy = <<>> THEN {} ELSE DOMAIN busy[1]) : mem' = Overwrite([a \in C |-> busy[1][a]])
    BY Zenon DEF PowerCut
  <1>4. ASSUME NEW y \in Watch PROVE Lost(y)
    <2>1. mem'[y] = IF y \in C THEN busy[1][y] ELSE mem[y]
      BY <1>3, Zenon DEF Overwrite
    <2>2. y \in C => InBusy(y)
      BY Zenon DEF InBusy
    <2>3. ~InBusy(y)'
      BY <1>2, Zenon DEF InBusy
    <2>4. QED
      BY <2>1, <2>2, <2>3, Zenon DEF Lost
  <1>5. power' # "run"
    BY <1>1, SMT
  <1>6. QED
    BY <1>1, <1>4, <1>5, Interrupted, Zenon

(* The rest of a restart moves no byte. *)
LEMMA IdleStored ==
    ASSUME StoreInv, FlashInv', UNCHANGED <<board, mem, busy, req, script>>, req = Idle, script = <<>>
    PROVE  Flow' /\ Pending' = Pending
  <1>1. board' = board /\ mem' = mem /\ busy' = busy /\ req' = req /\ script' = script
    BY Zenon
  <1>2. Flow' /\ \A x : (Covered(x)' <=> InBusy(x)') /\ Goal(x)' = busy'[1][x]
    BY <1>1, IdleFlowNext, SMT
  <1>3. \A x : (Covered(x) <=> InBusy(x)) /\ Goal(x) = busy[1][x]
    BY IdleFlow, Zenon
  <1>4. \A x : InBusy(x)' <=> InBusy(x)
    BY <1>1, Zenon DEF InBusy
  <1>5. \A x \in Watch : (Changes(x)' <=> Changes(x)) /\ Goal(x)' = Goal(x)
    BY <1>1, <1>2, <1>3, <1>4, Zenon DEF Changes
  <1>6. Staged /\ Staged'
    BY <1>2, InvStaged, InvStagedNext, Zenon DEF StoreInv
  <1>7. QED
    BY <1>2, <1>5, <1>6, SamePending, Zenon

LEMMA StartStored ==
    ASSUME StoreInv, FlashInv', PowerUp \/ BootFails
    PROVE  Stored
  <1>1. power # "run" /\ power' # "run"
    BY SMT DEF PowerUp, BootFails
  <1>2. req = Idle /\ script = <<>>
    BY <1>1, OutsideRun, Zenon DEF StoreInv
  <1>3. UNCHANGED <<board, mem, busy, req, script>>
    BY SMT DEF PowerUp, BootFails, chipVars, reqVars
  <1>4. Flow' /\ Pending' = Pending
    BY <1>2, <1>3, IdleStored, Zenon
  <1>5. (power = "run")' = (power = "run")
    BY <1>1, Zenon
  <1>6. UNCHANGED Flash!svars
    BY <1>3, <1>4, <1>5, Zenon DEF Flash!svars
  <1>7. QED
    BY <1>4, <1>6, Zenon DEF Stored

LEMMA BootStored ==
    ASSUME StoreInv, FlashInv', Boot
    PROVE  Stored
  <1>1. power # "run" /\ power' = "run" /\ busy = <<>>
    BY SMT DEF Boot
  <1>2. req = Idle /\ script = <<>>
    BY <1>1, OutsideRun, Zenon DEF StoreInv
  <1>3. UNCHANGED <<board, mem, busy, req, script>>
    BY SMT DEF Boot, chipVars, reqVars
  <1>4. Flow' /\ Pending' = Pending
    BY <1>2, <1>3, IdleStored, Zenon
  <1>5. Pending = <<>>
    <2>1. Spent
      BY <1>1, <1>2, IdleRest, Zenon DEF Spent
    <2>2. QED
      BY <2>1, SpentIdle, Zenon
  <1>6. UNCHANGED <<mem, Pending, board.size, board.sector>>
    BY <1>3, <1>4, Zenon
  <1>7. Flash!Restart
    BY <1>1, <1>5, <1>6, Zenon DEF Flash!Restart
  <1>8. QED
    BY <1>4, <1>7, Zenon DEF Stored, Flash!Next

LEMMA StutterStored ==
    ASSUME StoreInv, FlashInv', UNCHANGED vars
    PROVE  Stored
  <1>1. UNCHANGED <<board, mem, busy, power, devs, req, loop, script>>
    BY SMT DEF vars, chipVars, reqVars
  <1>2. /\ mem' = mem /\ busy' = busy /\ board' = board /\ devs' = devs /\ req' = req /\ loop' = loop
        /\ script' = script /\ power' = power
    BY <1>1, Zenon
  <1>3. Writing' = Writing
    BY <1>2, Zenon DEF Writing
  <1>4. Flow' /\ \A x : (Covered(x)' <=> Covered(x)) /\ Goal(x)' = Goal(x)
    BY <1>2, <1>3, SameStages, Zenon DEF StoreInv
  <1>5. Unseen
    BY <1>2, <1>4, Moved, Zenon
  <1>6. QED
    BY <1>4, <1>5, UnseenStored, Zenon

LEMMA StoreStep ==
    ASSUME StoreInv, [Next]_vars
    PROVE  StoreInv' /\ [Flash!Next]_(Flash!svars)
  <1>1. FlashInv'
    BY FlashStep, Zenon DEF StoreInv
  <1>2. Stored
    <2>1. CASE ChipDone \/ Finish
      BY <1>1, <2>1, ChipDoneStored, FinishStored, Zenon
    <2>2. CASE Firmware
      BY <1>1, <2>2, SpiStored, WritePageStored, EraseBlockStored, ReadImageStored, Zenon DEF Firmware
    <2>3. CASE Watchdog \/ PowerCut \/ PowerUp \/ Boot \/ BootFails
      BY <1>1, <2>3, WatchdogStored, PowerCutStored, StartStored, BootStored, Zenon
    <2>4. ASSUME NEW a \in Addresses, NEW d \in Data, RequestWrite(a, d) PROVE Stored
      BY <1>1, <2>4, RequestWriteStored, Zenon
    <2>5. ASSUME NEW a \in Addresses, RequestRead(a) PROVE Stored
      BY <1>1, <2>5, RequestReadStored, Zenon
    <2>6. ASSUME NEW n \in Counts, RequestErase(n) PROVE Stored
      BY <1>1, <2>6, RequestEraseStored, Zenon
    <2>7. CASE UNCHANGED vars
      BY <1>1, <2>7, StutterStored, Zenon
    <2>8. QED
      BY <2>1, <2>2, <2>3, <2>4, <2>5, <2>6, <2>7, Zenon DEF Next
  <1>3. QED
    BY <1>1, <1>2, Zenon DEF Stored, StoreInv

LEMMA StoreStart ==
    ASSUME Init
    PROVE  StoreInv /\ Flash!Init
  <1>1. req = Idle /\ script = <<>> /\ busy = <<>>
    BY Zenon DEF Init
  <1>2. power # "run"
    BY SMT DEF Init
  <1>3. StoreInv
    BY <1>1, FlashStart, IdleFlow, Zenon DEF StoreInv
  <1>4. Pending = <<>>
    <2>1. Spent
      BY <1>1, IdleRest, Zenon DEF Spent
    <2>2. QED
      BY <1>3, <2>1, SpentIdle, Zenon
  <1>5. QED
    BY <1>2, <1>3, <1>4, Zenon DEF Flash!Init

(* The flash driver and the chip together (alt_epcs_flash_*, epcs_commands.c *)
(* and the handlers of pc2dev) implement the byte store: whatever the page   *)
(* cuts, the address modes, the polling and the restarts do, a request       *)
(* changes the bytes it names and no others, each to what it asks for, and   *)
(* all of them before the next request begins unless the sensor restarts.    *)
THEOREM FlashImplementsStore == Spec => ImplementsStore
  <1>1. Init => StoreInv /\ Flash!Init
    BY StoreStart
  <1>2. StoreInv /\ [Next]_vars => StoreInv' /\ [Flash!Next]_(Flash!svars)
    BY StoreStep
  <1>3. QED
    BY <1>1, <1>2, PTL DEF Spec, ImplementsStore, Flash!Spec

=============================================================================
