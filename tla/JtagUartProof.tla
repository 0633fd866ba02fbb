----------------------------- MODULE JtagUartProof -----------------------------
(***************************************************************************)
(* The console for rings and hardware FIFOs of any size: no wakeup is      *)
(* lost, and each direction is a lossless first-in first-out channel, for  *)
(* every interleaving of program, interrupt routine, host and watchdog.    *)
(***************************************************************************)
EXTENDS JtagUart, TLAPS, SequenceTheorems

RingType == [buf : [Slot -> Char], in : Slot, out : Slot]

(* How many characters a ring holds, and which slot is k behind out. *)
Used(r) == (r.in - r.out) % BUF_LEN
After(r, k) == IF r.out + k < BUF_LEN THEN r.out + k ELSE r.out + k - BUF_LEN
Ring(r) == [i \in 1..Used(r) |-> r.buf[(r.out + i - 1) % BUF_LEN]]

-----------------------------------------------------------------------------
(* The invariant.                                                           *)
WriteCall ==
    [at : {"copy", "memcpy", "kick", "wait"}, count : Nat, nonblock : BOOLEAN, out : Slot, n : Nat]
ReadCall ==
    [at : {"fetch", "take", "await", "reenable"}, space : Nat, got : Nat, nonblock : BOOLEAN,
     in : Slot, n : Nat]

(* A call in progress, and what it may still copy: the space it saw between *)
(* in and out cannot have shrunk since, as the interrupt routine only makes *)
(* more of it.                                                              *)
CallOK ==
    /\ call.at \in {"none", "drain", "copy", "memcpy", "kick", "wait",
                    "fetch", "take", "await", "reenable"}
    /\ call.at \in {"copy", "memcpy", "kick", "wait"} =>
          call \in WriteCall /\ wnext + call.count <= MaxTx + 1
    /\ call.at = "memcpy" =>
          call.n \in 1..call.count /\ tx.in + call.n <= BUF_LEN /\ Used(tx) + call.n < BUF_LEN
    /\ call.at \in {"fetch", "take", "await", "reenable"} => call \in ReadCall
    /\ call.at = "take" => call.n \in 1..call.space /\ call.n <= Used(rx)

(* The space the interrupt routine counts is there: only the host takes     *)
(* characters meanwhile.                                                    *)
IsrOK ==
    /\ isr.at \in {"off", "control", "rx", "tx"}
    /\ isr.at \in {"rx", "tx"} =>
          /\ isr \in [at : {"rx", "tx"}, wi : BOOLEAN, space : 0..Depth, avail : BOOLEAN]
          /\ isr.space + Len(hwTx) <= Depth

StateOK ==
    /\ tx \in RingType /\ rx \in RingType
    /\ hwTx \in Seq(Char) /\ Len(hwTx) <= Depth
    /\ hwRx \in Seq(Char) /\ Len(hwRx) <= Depth
    /\ re \in BOOLEAN /\ we \in BOOLEAN /\ attached \in BOOLEAN /\ up \in BOOLEAN
    /\ host_inactive \in 0..(INT_MAX - 2) /\ timeout \in 2..(INT_MAX - 1)
    /\ wnext \in 1..(MaxTx + 1) /\ rnext \in 1..(MaxRx + 1)
    /\ taken \in [tx : Nat, rx : Nat]

(* Between the watchdog and the boot nothing is on its way. *)
DownEmpty == ~up => TxQueue = <<>> /\ RxQueue = <<>> /\ taken = [tx |-> 0, rx |-> 0]
                    /\ tx.in = tx.out

IInv == StateOK /\ CallOK /\ IsrOK /\ DownEmpty /\ Wakeup

-----------------------------------------------------------------------------
(* The rings.                                                               *)

(* The sizes of the buffers. *)
LEMMA Sizes ==
    /\ BUF_LEN \in Nat /\ BUF_LEN >= 2 /\ Depth \in Nat /\ Depth >= 1
    /\ MaxTx \in Nat /\ MaxTx >= 1 /\ MaxRx \in Nat /\ MaxRx >= 1
  <1>1. /\ BUF_LEN \in Nat \ {0, 1} /\ Depth \in Nat \ {0}
        /\ MaxTx \in Nat \ {0} /\ MaxRx \in Nat \ {0}
    BY JtagUartAssumption, Zenon
  <1>2. QED
    BY <1>1

(* An index that is one round too high wraps once. *)
LEMMA WrapOnce ==
    ASSUME NEW t \in 0..(2 * BUF_LEN - 1)
    PROVE  t % BUF_LEN = (IF t < BUF_LEN THEN t ELSE t - BUF_LEN)
  <1>1. BUF_LEN \in Nat \ {0}
    BY Sizes
  <1>2. QED
    BY <1>1

(* What a ring holds, by its indices. *)
LEMMA UsedIs ==
    ASSUME NEW r \in RingType
    PROVE  /\ r.in \in Slot /\ r.out \in Slot /\ r.buf \in [Slot -> Char]
           /\ Used(r) = (IF r.in >= r.out THEN r.in - r.out ELSE r.in - r.out + BUF_LEN)
           /\ Used(r) \in 0..(BUF_LEN - 1)
           /\ Used(r) = 0 <=> r.in = r.out
  <1>1. r.in \in Slot /\ r.out \in Slot /\ r.buf \in [Slot -> Char]
    BY DEF RingType
  <1>2. BUF_LEN \in Nat \ {0}
    BY Sizes
  <1> DEFINE i == r.in
             o == r.out
  <1>3. i \in 0..(BUF_LEN - 1) /\ o \in 0..(BUF_LEN - 1)
    BY <1>1 DEF Slot
  <1>4. Used(r) = (i - o) % BUF_LEN
    BY DEF Used
  <1> HIDE DEF i, o
  <1>5. (i - o) % BUF_LEN = (IF i >= o THEN i - o ELSE i - o + BUF_LEN)
    BY <1>2, <1>3
  <1>6. /\ Used(r) = (IF i >= o THEN i - o ELSE i - o + BUF_LEN)
        /\ Used(r) \in 0..(BUF_LEN - 1)
        /\ Used(r) = 0 <=> i = o
    BY <1>2, <1>3, <1>4, <1>5
  <1>7. QED
    BY <1>1, <1>6 DEF i, o

(* The contents of a ring as a sequence. *)
LEMMA RingIs ==
    ASSUME NEW r \in RingType
    PROVE  /\ Ring(r) \in Seq(Char) /\ Len(Ring(r)) = Used(r)
           /\ \A k \in 0..(Used(r) - 1) :
                 After(r, k) \in Slot /\ Ring(r)[k + 1] = r.buf[After(r, k)]
  <1>1. r.out \in Slot /\ r.buf \in [Slot -> Char] /\ Used(r) \in 0..(BUF_LEN - 1)
    BY UsedIs
  <1>2. ASSUME NEW i \in 1..Used(r)
        PROVE  /\ r.buf[(r.out + i - 1) % BUF_LEN] \in Char
               /\ (r.out + i - 1) % BUF_LEN = After(r, i - 1) /\ After(r, i - 1) \in Slot
    <2>1. r.out + i - 1 \in 0..(2 * BUF_LEN - 1) /\ r.out + (i - 1) = r.out + i - 1
      BY <1>1, Sizes DEF Slot
    <2>2. (r.out + i - 1) % BUF_LEN = After(r, i - 1)
      <3> PICK t \in 0..(2 * BUF_LEN - 1) : t = r.out + i - 1 /\ t = r.out + (i - 1)
        BY <2>1
      <3>1. t % BUF_LEN = IF t < BUF_LEN THEN t ELSE t - BUF_LEN
        BY WrapOnce
      <3>2. QED
        BY <1>1, <3>1, Sizes DEF After, Slot
    <2>3. After(r, i - 1) \in Slot
      BY <1>1, <2>1, Sizes DEF After, Slot
    <2>4. QED
      BY <1>1, <2>2, <2>3
  <1>3. Ring(r) \in [1..Used(r) -> Char]
    BY <1>2 DEF Ring
  <1>4. Used(r) \in Nat
    BY <1>1, Sizes
  <1>5. Ring(r) \in Seq(Char) /\ Len(Ring(r)) = Used(r)
    BY <1>3, <1>4
  <1>6. ASSUME NEW k \in 0..(Used(r) - 1)
        PROVE  After(r, k) \in Slot /\ Ring(r)[k + 1] = r.buf[After(r, k)]
    <2>1. k + 1 \in 1..Used(r) /\ k + 1 - 1 = k
      BY <1>4
    <2>2. After(r, k) \in Slot /\ (r.out + (k + 1) - 1) % BUF_LEN = After(r, k)
      BY <1>2, <2>1
    <2>3. QED
      BY <2>1, <2>2 DEF Ring
  <1>7. QED
    BY <1>5, <1>6

(* Moving out by n takes the first n characters. *)
LEMMA RingDrop ==
    ASSUME NEW r \in RingType, NEW n \in 1..Used(r)
    PROVE  LET s == [r EXCEPT !.out = (@ + n) % BUF_LEN]
           IN  /\ s \in RingType /\ Used(s) = Used(r) - n
               /\ \A i \in 1..Used(s) : Ring(s)[i] = Ring(r)[i + n]
  <1> DEFINE s == [r EXCEPT !.out = (@ + n) % BUF_LEN]
  <1>1. /\ r.in \in Slot /\ r.out \in Slot /\ r.buf \in [Slot -> Char]
        /\ Used(r) = (IF r.in >= r.out THEN r.in - r.out ELSE r.in - r.out + BUF_LEN)
        /\ Used(r) \in 0..(BUF_LEN - 1)
    BY UsedIs
  <1>2. r.out + n \in 0..(2 * BUF_LEN - 1)
    BY <1>1, Sizes DEF Slot
  <1>3. (r.out + n) % BUF_LEN = After(r, n) /\ After(r, n) \in Slot
    <2>1. (r.out + n) % BUF_LEN = After(r, n)
      <3> PICK t \in 0..(2 * BUF_LEN - 1) : t = r.out + n
        BY <1>2
      <3>1. t % BUF_LEN = IF t < BUF_LEN THEN t ELSE t - BUF_LEN
        BY WrapOnce
      <3>2. QED
        BY <1>1, <3>1, Sizes DEF After, Slot
    <2>2. After(r, n) \in Slot
      BY <1>1, <1>2, Sizes DEF After, Slot
    <2>3. QED
      BY <2>1, <2>2, Zenon DEF After
  <1>4. s = [r EXCEPT !.out = After(r, n)]
    BY <1>3
  <1>5. s \in RingType /\ s.in = r.in /\ s.out = After(r, n) /\ s.buf = r.buf
    BY <1>3, <1>4 DEF RingType
  <1> HIDE DEF s
  <1>6. Used(s) = Used(r) - n
    <2>1. Used(s) = (IF r.in >= After(r, n) THEN r.in - After(r, n) ELSE r.in - After(r, n) + BUF_LEN)
      BY <1>5, UsedIs
    <2>2. QED
      BY <1>1, <2>1, Sizes DEF After, Slot
  <1>7. ASSUME NEW i \in 1..Used(s)
        PROVE  Ring(s)[i] = Ring(r)[i + n]
    <2>1. i - 1 \in 0..(Used(s) - 1) /\ i + n - 1 \in 0..(Used(r) - 1)
      BY <1>1, <1>6
    <2>2. After(s, i - 1) = After(r, i + n - 1)
      <3> DEFINE o == r.out
                 p == s.out
      <3>1. p = (IF o + n < BUF_LEN THEN o + n ELSE o + n - BUF_LEN)
        BY <1>5 DEF After
      <3>2. o \in 0..(BUF_LEN - 1) /\ n \in 1..(BUF_LEN - 1) /\ i + n \in 2..(BUF_LEN - 1)
            /\ i \in 1..(BUF_LEN - 1)
        BY <1>1, <1>6, Sizes DEF Slot
      <3> HIDE DEF o, p
      <3>3. (IF p + (i - 1) < BUF_LEN THEN p + (i - 1) ELSE p + (i - 1) - BUF_LEN) =
            (IF o + (i + n - 1) < BUF_LEN THEN o + (i + n - 1) ELSE o + (i + n - 1) - BUF_LEN)
        BY <3>1, <3>2, Sizes
      <3>4. QED
        BY <3>3 DEF After, o, p
    <2>3. Ring(s)[i - 1 + 1] = s.buf[After(s, i - 1)]
      BY <1>5, <2>1, RingIs
    <2>4. Ring(r)[i + n - 1 + 1] = r.buf[After(r, i + n - 1)]
      BY <2>1, RingIs
    <2>5. i - 1 + 1 = i /\ i + n - 1 + 1 = i + n
      BY <1>1, <1>6
    <2>6. QED
      BY <1>5, <2>2, <2>3, <2>4, <2>5
  <1>8. QED
    BY <1>5, <1>6, <1>7 DEF s

(* Writing n characters in one piece from in on adds them at the end, if    *)
(* there is room.                                                           *)
LEMMA RingFill ==
    ASSUME NEW r \in RingType, NEW s \in RingType, NEW n \in Nat, n >= 1,
           r.in + n <= BUF_LEN, Used(r) + n < BUF_LEN,
           s.in = (r.in + n) % BUF_LEN, s.out = r.out,
           \A i \in Slot : i < r.in \/ i >= r.in + n => s.buf[i] = r.buf[i]
    PROVE  /\ Used(s) = Used(r) + n
           /\ \A i \in 1..Used(r) : Ring(s)[i] = Ring(r)[i]
           /\ \A i \in 1..n : Ring(s)[Used(r) + i] = s.buf[r.in + i - 1]
  <1>1. /\ r.in \in Slot /\ r.out \in Slot
        /\ Used(r) = (IF r.in >= r.out THEN r.in - r.out ELSE r.in - r.out + BUF_LEN)
        /\ Used(r) \in 0..(BUF_LEN - 1)
    BY UsedIs
  <1>2. s.in = (IF r.in + n < BUF_LEN THEN r.in + n ELSE r.in + n - BUF_LEN)
    BY <1>1, WrapOnce, Sizes DEF Slot
  <1>3. Used(s) = (IF s.in >= s.out THEN s.in - s.out ELSE s.in - s.out + BUF_LEN)
    BY UsedIs
  <1>4. Used(s) = Used(r) + n
    BY <1>1, <1>2, <1>3, Sizes DEF Slot
  <1>5. ASSUME NEW k \in 0..(Used(s) - 1)
        PROVE  /\ After(s, k) = After(r, k) /\ After(r, k) \in Slot
               /\ Ring(s)[k + 1] = s.buf[After(r, k)]
    <2>1. After(s, k) = After(r, k)
      BY DEF After
    <2>2. QED
      BY <2>1, RingIs
  <1>6. ASSUME NEW i \in 1..Used(r)
        PROVE  Ring(s)[i] = Ring(r)[i]
    <2>1. i - 1 \in 0..(Used(r) - 1) /\ i - 1 \in 0..(Used(s) - 1) /\ i - 1 + 1 = i
      BY <1>1, <1>4
    <2>2. After(r, i - 1) \in Slot /\ Ring(s)[i] = s.buf[After(r, i - 1)]
      BY <1>5, <2>1
    <2>3. After(r, i - 1) < r.in \/ After(r, i - 1) >= r.in + n
      BY <1>1, <2>1, Sizes DEF After, Slot
    <2>4. Ring(r)[i] = r.buf[After(r, i - 1)]
      BY <2>1, RingIs
    <2>5. QED
      BY <2>2, <2>3, <2>4
  <1>7. ASSUME NEW i \in 1..n
        PROVE  Ring(s)[Used(r) + i] = s.buf[r.in + i - 1]
    <2>1. Used(r) + i - 1 \in 0..(Used(s) - 1) /\ Used(r) + i - 1 + 1 = Used(r) + i
      BY <1>1, <1>4
    <2>2. Ring(s)[Used(r) + i] = s.buf[After(r, Used(r) + i - 1)]
      BY <1>5, <2>1
    <2>3. After(r, Used(r) + i - 1) = r.in + i - 1
      BY <1>1, Sizes DEF After, Slot
    <2>4. QED
      BY <2>2, <2>3
  <1>8. QED
    BY <1>4, <1>6, <1>7

(* The interrupt routine puts one character into a ring that has room. *)
LEMMA RingPut ==
    ASSUME NEW r \in RingType, NEW c \in Char, RoomFor(r)
    PROVE  /\ Put(r, c) \in RingType /\ Put(r, c).in # Put(r, c).out
           /\ Used(Put(r, c)) = Used(r) + 1
           /\ \A i \in 1..Used(r) : Ring(Put(r, c))[i] = Ring(r)[i]
           /\ Ring(Put(r, c))[Used(r) + 1] = c
  <1> DEFINE s == Put(r, c)
             at == (r.in + 1) % BUF_LEN
  <1>1. /\ r.in \in Slot /\ r.out \in Slot /\ r.buf \in [Slot -> Char]
        /\ Used(r) = (IF r.in >= r.out THEN r.in - r.out ELSE r.in - r.out + BUF_LEN)
        /\ Used(r) \in 0..(BUF_LEN - 1)
    BY UsedIs
  <1>2. at = (IF r.in + 1 < BUF_LEN THEN r.in + 1 ELSE r.in + 1 - BUF_LEN)
    <2> PICK t \in 0..(2 * BUF_LEN - 1) : t = r.in + 1
      BY <1>1, Sizes DEF Slot
    <2>1. t % BUF_LEN = IF t < BUF_LEN THEN t ELSE t - BUF_LEN
      BY WrapOnce
    <2>2. QED
      BY <1>1, <2>1, Sizes DEF Slot
  <1>3. at # r.out
    BY DEF RoomFor
  <1> HIDE DEF at
  <1>4. at \in Slot /\ r.in + 1 <= BUF_LEN /\ Used(r) + 1 < BUF_LEN
    BY <1>1, <1>2, <1>3, Sizes DEF Slot
  <1>5. s = [r EXCEPT !.buf = [r.buf EXCEPT ![r.in] = c], !.in = at]
    BY DEF Put, at, RingType
  <1>6. [r.buf EXCEPT ![r.in] = c] \in [Slot -> Char]
    BY <1>1
  <1>7. /\ s \in RingType /\ s.in = at /\ s.out = r.out
        /\ s.buf = [r.buf EXCEPT ![r.in] = c]
    BY <1>4, <1>5, <1>6 DEF RingType
  <1>8. s.in = (r.in + 1) % BUF_LEN
    BY <1>7 DEF at
  <1> HIDE DEF s
  <1>9. \A i \in Slot : i < r.in \/ i >= r.in + 1 => s.buf[i] = r.buf[i]
    BY <1>1, <1>7, Sizes DEF Slot
  <1>10. /\ Used(s) = Used(r) + 1
         /\ \A i \in 1..Used(r) : Ring(s)[i] = Ring(r)[i]
         /\ \A i \in 1..1 : Ring(s)[Used(r) + i] = s.buf[r.in + i - 1]
    <2>1. 1 \in Nat /\ 1 >= 1
      OBVIOUS
    <2>2. QED
      BY <2>1, <1>4, <1>7, <1>8, <1>9, RingFill, Zenon
  <1>11. Ring(s)[Used(r) + 1] = c
    <2>1. r.in + 1 - 1 = r.in
      BY <1>1, Sizes DEF Slot
    <2>2. s.buf[r.in] = c
      BY <1>1, <1>7
    <2>3. QED
      BY <1>10, <2>1, <2>2
  <1>12. QED
    BY <1>3, <1>7, <1>10, <1>11 DEF s

-----------------------------------------------------------------------------
(* Two buffers in a row.                                                    *)

(* What concatenation does. *)
LEMMA Concat ==
    ASSUME NEW a \in Seq(Char), NEW b \in Seq(Char)
    PROVE  /\ a \o b \in Seq(Char) /\ Len(a) \in Nat /\ Len(b) \in Nat
           /\ Len(a \o b) = Len(a) + Len(b)
           /\ \A i \in 1..(Len(a) + Len(b)) :
                 (a \o b)[i] = IF i <= Len(a) THEN a[i] ELSE b[i - Len(a)]
  BY ConcatProperties

(* Taking n characters from the first buffer takes them from the channel. *)
LEMMA TakeFront ==
    ASSUME NEW a \in Seq(Char), NEW b \in Seq(Char), NEW a2 \in Seq(Char), NEW n \in 1..Len(a),
           Len(a2) = Len(a) - n, \A i \in 1..Len(a2) : a2[i] = a[i + n]
    PROVE  a2 \o b = SubSeq(a \o b, n + 1, Len(a \o b))
  <1> DEFINE q == a \o b
             t == SubSeq(q, n + 1, Len(q))
             m == Len(a) + Len(b)
  <1>1. /\ q \in Seq(Char) /\ Len(a) \in Nat /\ Len(b) \in Nat /\ Len(q) = m
        /\ \A i \in 1..m : q[i] = IF i <= Len(a) THEN a[i] ELSE b[i - Len(a)]
    BY Concat
  <1>2. /\ a2 \o b \in Seq(Char) /\ Len(a2 \o b) = Len(a2) + Len(b)
        /\ \A i \in 1..(Len(a2) + Len(b)) :
              (a2 \o b)[i] = IF i <= Len(a2) THEN a2[i] ELSE b[i - Len(a2)]
    BY Concat
  <1> HIDE DEF q
  <1>3. /\ t \in Seq(Char) /\ Len(t) = m - n
        /\ \A i \in 1..(m - n) : t[i] = q[n + i]
    <2>1. \A i \in (n + 1)..m : q[i] \in Char
      BY <1>1, ElementOfSeq
    <2>2. /\ SubSeq(q, n + 1, m) \in Seq(Char)
          /\ Len(SubSeq(q, n + 1, m)) = (IF n + 1 <= m THEN m - (n + 1) + 1 ELSE 0)
          /\ \A i \in 1..(m - (n + 1) + 1) : SubSeq(q, n + 1, m)[i] = q[n + 1 + i - 1]
      BY <1>1, <2>1, SubSeqProperties
    <2>3. QED
      BY <1>1, <2>2
  <1> HIDE DEF t
  <1>4. Len(t) = Len(a2 \o b)
    BY <1>1, <1>2, <1>3
  <1>5. ASSUME NEW i \in 1..Len(t)
        PROVE  t[i] = (a2 \o b)[i]
    <2>1. i \in 1..(m - n) /\ n + i \in 1..m /\ i \in 1..(Len(a2) + Len(b))
      BY <1>1, <1>3
    <2>2. CASE i <= Len(a2)
      BY <1>1, <1>2, <1>3, <2>1, <2>2
    <2>3. CASE ~(i <= Len(a2))
      BY <1>1, <1>2, <1>3, <2>1, <2>3
    <2>4. QED
      BY <2>2, <2>3
  <1>6. QED
    BY <1>2, <1>3, <1>4, <1>5, SeqEqual DEF t, q

(* The first character of b has moved to the end of a. *)
Moved(a, b, a2, b2) ==
    /\ Len(a2) = Len(a) + 1 /\ Len(b) = Len(b2) + 1
    /\ \A i \in 1..Len(a) : a2[i] = a[i]
    /\ a2[Len(a) + 1] = b[1]
    /\ \A i \in 1..Len(b2) : b2[i] = b[i + 1]

(* Moving a character from the second buffer to the first changes nothing. *)
LEMMA MoveOver ==
    ASSUME NEW a \in Seq(Char), NEW b \in Seq(Char), NEW a2 \in Seq(Char), NEW b2 \in Seq(Char),
           Moved(a, b, a2, b2)
    PROVE  a2 \o b2 = a \o b
  <1> USE DEF Moved
  <1>1. /\ a \o b \in Seq(Char) /\ Len(a) \in Nat /\ Len(b) \in Nat /\ Len(a \o b) = Len(a) + Len(b)
        /\ \A i \in 1..(Len(a) + Len(b)) :
              (a \o b)[i] = IF i <= Len(a) THEN a[i] ELSE b[i - Len(a)]
    BY Concat
  <1>2. /\ a2 \o b2 \in Seq(Char) /\ Len(b2) \in Nat /\ Len(a2 \o b2) = Len(a2) + Len(b2)
        /\ \A i \in 1..(Len(a2) + Len(b2)) :
              (a2 \o b2)[i] = IF i <= Len(a2) THEN a2[i] ELSE b2[i - Len(a2)]
    BY Concat
  <1>3. Len(a2 \o b2) = Len(a \o b)
    BY <1>1, <1>2
  <1>4. ASSUME NEW i \in 1..Len(a2 \o b2)
        PROVE  (a2 \o b2)[i] = (a \o b)[i]
    <2>1. i \in 1..(Len(a) + Len(b)) /\ i \in 1..(Len(a2) + Len(b2))
      BY <1>1, <1>2, <1>3
    <2>2. CASE i <= Len(a)
      BY <1>1, <1>2, <2>1, <2>2
    <2>3. CASE i = Len(a) + 1
      BY <1>1, <1>2, <2>1, <2>3
    <2>4. CASE i > Len(a) + 1
      <3> DEFINE k == i - Len(a2)
      <3>1. k \in 1..Len(b2) /\ k + 1 = i - Len(a) /\ ~(i <= Len(a)) /\ ~(i <= Len(a2))
        BY <1>1, <1>2, <2>1, <2>4
      <3>2. (a2 \o b2)[i] = b2[k] /\ (a \o b)[i] = b[i - Len(a)]
        BY <1>1, <1>2, <2>1, <3>1
      <3> HIDE DEF k
      <3>3. b2[k] = b[k + 1]
        BY <3>1
      <3>4. QED
        BY <3>1, <3>2, <3>3
    <2>5. QED
      BY <1>1, <2>2, <2>3, <2>4
  <1>5. QED
    BY <1>1, <1>2, <1>3, <1>4, SeqEqual

(* Adding to the end of the second buffer adds to the end of the channel. *)
LEMMA AddBack ==
    ASSUME NEW a \in Seq(Char), NEW b \in Seq(Char), NEW b2 \in Seq(Char),
           Len(b2) > Len(b), \A i \in 1..Len(b) : b2[i] = b[i]
    PROVE  /\ Len(a \o b2) > Len(a \o b) /\ SubSeq(a \o b2, 1, Len(a \o b)) = a \o b
           /\ \A i \in 1..Len(a \o b2) : (a \o b2)[i] \in Char
  <1> DEFINE q == a \o b
             q2 == a \o b2
             t == SubSeq(q2, 1, Len(q))
  <1>1. /\ q \in Seq(Char) /\ Len(a) \in Nat /\ Len(b) \in Nat /\ Len(q) = Len(a) + Len(b)
        /\ \A i \in 1..(Len(a) + Len(b)) :
              q[i] = IF i <= Len(a) THEN a[i] ELSE b[i - Len(a)]
    BY Concat
  <1>2. /\ q2 \in Seq(Char) /\ Len(b2) \in Nat /\ Len(q2) = Len(a) + Len(b2)
        /\ \A i \in 1..(Len(a) + Len(b2)) :
              q2[i] = IF i <= Len(a) THEN a[i] ELSE b2[i - Len(a)]
    BY Concat
  <1> HIDE DEF q, q2
  <1>3. \A i \in 1..Len(q2) : q2[i] \in Char
    BY <1>2, ElementOfSeq
  <1>4. Len(q2) > Len(q)
    BY <1>1, <1>2
  <1>5. /\ t \in Seq(Char) /\ Len(t) = Len(q)
        /\ \A i \in 1..Len(q) : t[i] = q2[i]
    <2>1. Len(q) \in Nat /\ \A i \in 1..Len(q) : q2[i] \in Char
      BY <1>1, <1>2, <1>3
    <2>2. /\ SubSeq(q2, 1, Len(q)) \in Seq(Char)
          /\ Len(SubSeq(q2, 1, Len(q))) = (IF 1 <= Len(q) THEN Len(q) - 1 + 1 ELSE 0)
          /\ \A i \in 1..(Len(q) - 1 + 1) : SubSeq(q2, 1, Len(q))[i] = q2[1 + i - 1]
      BY <2>1, SubSeqProperties
    <2>3. QED
      BY <2>1, <2>2
  <1> HIDE DEF t
  <1>6. ASSUME NEW i \in 1..Len(t)
        PROVE  t[i] = q[i]
    <2>1. i \in 1..(Len(a) + Len(b)) /\ i \in 1..(Len(a) + Len(b2)) /\ t[i] = q2[i]
      BY <1>1, <1>2, <1>5
    <2>2. CASE i <= Len(a)
      BY <1>1, <1>2, <2>1, <2>2
    <2>3. CASE ~(i <= Len(a))
      <3> DEFINE k == i - Len(a)
      <3>1. k \in 1..Len(b)
        BY <1>1, <2>1, <2>3
      <3>2. q2[i] = b2[k] /\ q[i] = b[k]
        BY <1>1, <1>2, <2>1, <2>3
      <3> HIDE DEF k
      <3>3. b2[k] = b[k]
        BY <3>1
      <3>4. QED
        BY <2>1, <3>2, <3>3
    <2>4. QED
      BY <2>2, <2>3
  <1>7. t = q
    BY <1>1, <1>5, <1>6, SeqEqual
  <1>8. QED
    BY <1>3, <1>4, <1>7 DEF t, q, q2

-----------------------------------------------------------------------------
(* Steps that move no character.                                            *)
moving == <<tx, rx, hwTx, hwRx, taken, up>>

(* The channels as two buffers in a row, before and after a step. *)
LEMMA Queues ==
    /\ TxQueue = hwTx \o Ring(tx) /\ RxQueue = Ring(rx) \o hwRx
    /\ TxQueue' = hwTx' \o Ring(tx') /\ RxQueue' = Ring(rx') \o hwRx'
  BY DEF TxQueue, RxQueue, Ring, Used

(* A step that moves nothing is one that the channels do not see. *)
LEMMA QuietChannels ==
    ASSUME UNCHANGED moving
    PROVE  /\ TxQueue' = TxQueue /\ RxQueue' = RxQueue /\ taken' = taken /\ up' = up
           /\ DownEmpty => DownEmpty'
  <1>1. tx' = tx /\ rx' = rx /\ hwTx' = hwTx /\ hwRx' = hwRx /\ taken' = taken /\ up' = up
    BY DEF moving
  <1>2. TxQueue' = TxQueue /\ RxQueue' = RxQueue
    BY <1>1 DEF TxQueue, RxQueue
  <1>3. QED
    BY <1>1, <1>2 DEF DownEmpty

(* The call is where it was. *)
LEMMA CallSame ==
    ASSUME CallOK, UNCHANGED <<call, wnext, tx, rx>>
    PROVE  CallOK'
  BY DEF CallOK, Used

(* The interrupt routine is where it was, with no less space. *)
LEMMA IsrSame ==
    ASSUME IsrOK, UNCHANGED <<isr, hwTx>>
    PROVE  IsrOK'
  BY DEF IsrOK

(* The host comes or goes, and the alarm counts its absence. *)
LEMMA HostQuiet ==
    ASSUME StateOK, CallOK, IsrOK, Wakeup, HostChange \/ altera_avalon_jtag_uart_timeout
    PROVE  StateOK' /\ CallOK' /\ IsrOK' /\ Wakeup' /\ UNCHANGED moving
  <1>1. UNCHANGED <<tx, rx, hwTx, hwRx, taken, up, call, wnext, isr, re, we, timeout, rnext>>
    BY DEF HostChange, altera_avalon_jtag_uart_timeout
  <1>2. CallOK' /\ IsrOK'
    BY <1>1, CallSame, IsrSame
  <1>3. Wakeup'
    BY <1>1 DEF Wakeup
  <1>4. attached' \in BOOLEAN
    BY Zenon DEF HostChange, altera_avalon_jtag_uart_timeout, StateOK
  <1>5. host_inactive' \in 0..(INT_MAX - 2)
    <2>1. host_inactive \in 0..(INT_MAX - 2) /\ INT_MAX \in Nat /\ DEFAULT_TIMEOUT \in 2..(INT_MAX - 1)
      BY JtagUartAssumption, Zenon DEF StateOK
    <2>2. CASE HostChange
      BY <2>1, <2>2 DEF HostChange
    <2>3. CASE altera_avalon_jtag_uart_timeout
      <3>1. host_inactive' = IF attached THEN 0
                        ELSE IF host_inactive < INT_MAX - 2 THEN host_inactive + 1 ELSE host_inactive
        BY <2>3, Zenon DEF altera_avalon_jtag_uart_timeout
      <3>2. QED
        BY <2>1, <3>1
    <2>4. QED
      BY <2>2, <2>3
  <1>6. StateOK'
    BY <1>1, <1>4, <1>5 DEF StateOK
  <1>7. QED
    BY <1>1, <1>2, <1>3, <1>6 DEF moving

(* The interrupt routine looks, and turns interrupts off.  It turns off the  *)
(* transmit interrupt only with the ring empty and the receive interrupt     *)
(* only with the ring full.                                                  *)
LEMMA IsrQuiet ==
    ASSUME StateOK, CallOK, IsrOK, Wakeup, IsrEnter \/ IsrControl \/ IsrReadEnd \/ IsrWriteEnd
    PROVE  StateOK' /\ CallOK' /\ IsrOK' /\ Wakeup' /\ UNCHANGED moving
  <1>1. UNCHANGED <<tx, rx, hwTx, hwRx, taken, up, call, wnext, rnext, attached, host_inactive, timeout>>
    BY DEF IsrEnter, IsrControl, IsrReadEnd, IsrWriteEnd, UnchangedByIsr
  <1>2. CallOK'
    BY <1>1, CallSame
  <1>3. CASE IsrEnter
    <2>1. re' = re /\ we' = we /\ isr' = [at |-> "control"]
      BY <1>3 DEF IsrEnter
    <2>2. StateOK' /\ Wakeup'
      BY <1>1, <2>1 DEF StateOK, Wakeup
    <2>3. IsrOK'
      BY <2>1 DEF IsrOK
    <2>4. QED
      BY <1>1, <1>2, <2>2, <2>3 DEF moving
  <1>4. CASE IsrControl
    <2>1. re' = re /\ we' = we
      BY <1>4 DEF IsrControl
    <2>2. StateOK' /\ Wakeup'
      BY <1>1, <2>1 DEF StateOK, Wakeup
    <2>3. IsrOK'
      <3>1. ri \in BOOLEAN /\ wi \in BOOLEAN
        BY DEF StateOK, ri, wi
      <3>2. Len(hwTx) \in Nat /\ Len(hwTx) <= Depth /\ hwTx' = hwTx
        BY <1>1, LenProperties DEF StateOK
      <3>3. CASE ~ri /\ ~wi
        BY <1>4, <3>3 DEF IsrControl, IsrOK, NoIsr
      <3>4. CASE ri \/ wi
        <4> DEFINE at == IF ri THEN "rx" ELSE "tx"
                   sp == IF wi THEN Depth - Len(hwTx) ELSE 0
        <4>1. isr' = [at |-> at, wi |-> wi, space |-> sp, avail |-> ri]
          BY <1>4, <3>4 DEF IsrControl
        <4>2. at \in {"rx", "tx"} /\ sp \in 0..Depth /\ sp + Len(hwTx) <= Depth
          BY <3>2, Sizes
        <4> HIDE DEF at, sp
        <4>3. \A x, y \in BOOLEAN : [at |-> at, wi |-> x, space |-> sp, avail |-> y] \in
                 [at : {"rx", "tx"}, wi : BOOLEAN, space : 0..Depth, avail : BOOLEAN]
          BY <4>2
        <4>4. isr' \in [at : {"rx", "tx"}, wi : BOOLEAN, space : 0..Depth, avail : BOOLEAN]
          BY <3>1, <4>1, <4>3, Zenon
        <4>5. isr'.at = at /\ isr'.space = sp
          BY <4>1, Zenon
        <4>6. QED
          BY <3>2, <4>2, <4>4, <4>5 DEF IsrOK
      <3>5. QED
        BY <3>3, <3>4
    <2>4. QED
      BY <1>1, <1>2, <2>2, <2>3 DEF moving
  <1>5. CASE IsrReadEnd
    <2>1. we' = we /\ isr.at = "rx" /\ up
      BY <1>5 DEF IsrReadEnd, Isr
    <2>2. re' \in BOOLEAN /\ (~re' => ~re \/ ~RoomFor(rx))
      BY <1>5, Zenon DEF IsrReadEnd, StateOK
    <2>3. StateOK'
      BY <1>1, <2>1, <2>2 DEF StateOK
    <2>4. ~RoomFor(rx) => rx.in # rx.out
      <3>1. rx.in \in Slot /\ rx.out \in Slot
        BY DEF StateOK, RingType
      <3>2. BUF_LEN \in Nat \ {0} /\ BUF_LEN >= 2
        BY Sizes
      <3>3. (rx.in + 1) % BUF_LEN # rx.in
        BY <3>1, <3>2 DEF Slot
      <3>4. QED
        BY <3>3 DEF RoomFor
    <2>5. Wakeup'
      BY <1>1, <2>1, <2>2, <2>4 DEF Wakeup
    <2>6. IsrOK'
      <3>1. isr \in [at : {"rx", "tx"}, wi : BOOLEAN, space : 0..Depth, avail : BOOLEAN]
            /\ isr.space + Len(hwTx) <= Depth
        BY <2>1 DEF IsrOK
      <3>2. CASE isr.wi
        <4>1. isr' = [isr EXCEPT !.at = "tx", !.avail = FALSE]
          BY <1>5, <3>2 DEF IsrReadEnd
        <4>2. isr' \in [at : {"rx", "tx"}, wi : BOOLEAN, space : 0..Depth, avail : BOOLEAN]
              /\ isr'.at = "tx" /\ isr'.space = isr.space
          BY <3>1, <4>1
        <4>3. QED
          BY <1>1, <3>1, <4>2 DEF IsrOK
      <3>3. CASE ~isr.wi
        BY <1>5, <3>3 DEF IsrReadEnd, IsrOK
      <3>4. QED
        BY <3>2, <3>3
    <2>7. QED
      BY <1>1, <1>2, <2>3, <2>5, <2>6 DEF moving
  <1>6. CASE IsrWriteEnd
    <2>1. re' = re /\ isr' = [at |-> "control"]
      BY <1>6 DEF IsrWriteEnd
    <2>2. we' \in BOOLEAN /\ (we' \/ ~we \/ tx.in = tx.out)
      BY <1>6, Zenon DEF IsrWriteEnd, StateOK
    <2>3. StateOK' /\ Wakeup'
      BY <1>1, <2>1, <2>2 DEF StateOK, Wakeup
    <2>4. IsrOK'
      BY <2>1 DEF IsrOK
    <2>5. QED
      BY <1>1, <1>2, <2>3, <2>4 DEF moving
  <1>7. QED
    BY <1>3, <1>4, <1>5, <1>6

(* What write and read find in one piece is there. *)
LEMMA Pieces ==
    ASSUME NEW r \in RingType
    PROVE  /\ Fit(r.in, r.out) \in Nat /\ r.in + Fit(r.in, r.out) <= BUF_LEN
           /\ Used(r) + Fit(r.in, r.out) < BUF_LEN
           /\ Filled(r.in, r.out) \in Nat /\ Filled(r.in, r.out) <= Used(r)
           /\ Filled(r.in, r.out) = 0 <=> r.in = r.out
  <1>1. /\ r.in \in Slot /\ r.out \in Slot
        /\ Used(r) = (IF r.in >= r.out THEN r.in - r.out ELSE r.in - r.out + BUF_LEN)
    BY UsedIs
  <1>2. QED
    BY <1>1, Sizes DEF Fit, Filled, Slot

(* A call begins. *)
LEMMA BeginQuiet ==
    ASSUME StateOK, CallOK, IsrOK, Wakeup,
           \/ \E n \in 1..MaxCount, nb \in BOOLEAN : Write(n, nb) \/ Read(n, nb)
           \/ \E nb \in BOOLEAN : Close(nb)
    PROVE  StateOK' /\ CallOK' /\ IsrOK' /\ Wakeup' /\ UNCHANGED moving
  <1>1. PICK c : Begin(c)
    BY DEF Write, Read, Close
  <1>2. /\ UNCHANGED <<tx, rx, hwTx, hwRx, taken, up, wnext, rnext, attached, host_inactive, timeout,
                       isr, re, we>>
        /\ call.at = "none"
    BY <1>1 DEF Begin, UnchangedByMain, Main
  <1>3. StateOK' /\ IsrOK'
    BY <1>2, IsrSame DEF StateOK
  <1>4. MaxCount \in Nat /\ wnext \in Nat /\ 0 \in Slot
    <2>1. MaxCount \in Nat
      BY JtagUartAssumption, Zenon
    <2>2. QED
      BY <2>1, Sizes DEF StateOK, Slot
  <1>5. CallOK' /\ call'.at \in {"copy", "fetch", "drain"}
    <2>1. ASSUME NEW n \in 1..MaxCount, NEW nb \in BOOLEAN, Write(n, nb)
          PROVE  CallOK' /\ call'.at \in {"copy", "fetch", "drain"}
      <3>1. call' = [at |-> "copy", count |-> n, nonblock |-> nb, out |-> 0, n |-> 0]
            /\ wnext + n - 1 <= MaxTx
        BY <2>1 DEF Write, Begin
      <3>2. call'.at = "copy" /\ call' \in WriteCall /\ call'.count = n
        BY <1>4, <3>1 DEF WriteCall
      <3>3. wnext' + call'.count <= MaxTx + 1
        BY <1>2, <1>4, <3>1, <3>2, Sizes
      <3>4. QED
        BY <3>2, <3>3 DEF CallOK
    <2>2. ASSUME NEW n \in 1..MaxCount, NEW nb \in BOOLEAN, Read(n, nb)
          PROVE  CallOK' /\ call'.at \in {"copy", "fetch", "drain"}
      <3>1. call' = [at |-> "fetch", space |-> n, got |-> 0, nonblock |-> nb, in |-> 0, n |-> 0]
        BY <2>2 DEF Read, Begin
      <3>2. call'.at = "fetch" /\ call' \in ReadCall
        BY <1>4, <3>1 DEF ReadCall
      <3>3. QED
        BY <3>2 DEF CallOK
    <2>3. ASSUME NEW nb \in BOOLEAN, Close(nb)
          PROVE  CallOK' /\ call'.at \in {"copy", "fetch", "drain"}
      <3>1. call' = [at |-> "drain", nonblock |-> nb]
        BY <2>3 DEF Close, Begin
      <3>2. call'.at = "drain"
        BY <3>1
      <3>3. QED
        BY <3>2 DEF CallOK
    <2>4. QED
      BY <2>1, <2>2, <2>3
  <1>6. Wakeup'
    BY <1>2, <1>5 DEF Wakeup
  <1>7. QED
    BY <1>2, <1>3, <1>5, <1>6 DEF moving

(* ioctl. *)
LEMMA IoctlQuiet ==
    ASSUME StateOK, CallOK, IsrOK, Wakeup, NEW t \in Timeouts, Ioctl(t)
    PROVE  StateOK' /\ CallOK' /\ IsrOK' /\ Wakeup' /\ UNCHANGED moving
  <1>1. UNCHANGED <<tx, rx, hwTx, hwRx, taken, up, wnext, rnext, attached, host_inactive,
                    isr, re, we, call>>
    BY DEF Ioctl, UnchangedByMain
  <1>2. timeout' \in 2..(INT_MAX - 1)
    <2>1. INT_MAX \in Nat /\ DEFAULT_TIMEOUT \in 2..(INT_MAX - 1) /\ t \in Nat
      BY JtagUartAssumption, Zenon
    <2>2. timeout' = IF t >= 2 /\ t < INT_MAX THEN t ELSE INT_MAX - 1
      BY DEF Ioctl
    <2>3. QED
      BY <2>1, <2>2
  <1>3. StateOK' /\ CallOK' /\ IsrOK' /\ Wakeup'
    BY <1>1, <1>2, CallSame, IsrSame DEF StateOK, Wakeup
  <1>4. QED
    BY <1>1, <1>3 DEF moving

(* What a step of a write that copies nothing does. *)
LEMMA WriteQuiet ==
    ASSUME StateOK, CallOK, IsrOK, Wakeup, WriteSpace \/ WriteKick \/ WriteWait
    PROVE  StateOK' /\ CallOK' /\ IsrOK' /\ Wakeup' /\ UNCHANGED moving
  <1>1. UNCHANGED <<tx, rx, hwTx, hwRx, taken, up, wnext, rnext, attached, host_inactive, timeout,
                    isr, re>>
    BY DEF WriteSpace, WriteKick, WriteWait, UnchangedByMain
  <1>2. call \in WriteCall /\ wnext + call.count <= MaxTx + 1 /\ tx \in RingType
    BY DEF WriteSpace, WriteKick, WriteWait, Main, CallOK, StateOK
  <1>3. IsrOK'
    BY <1>1, IsrSame
  <1>4. tx.in \in Slot /\ tx.out \in Slot /\ 0 \in Slot
    BY <1>2, Sizes DEF RingType, Slot
  <1>5. Used(tx)' = Used(tx)
    BY <1>1 DEF Used
  <1>6. CASE WriteSpace
    <2> DEFINE n == Fit(tx.in, tx.out)
    <2>1. we' = we /\ call.at = "copy"
      BY <1>6 DEF WriteSpace, Main
    <2>2. n \in Nat /\ tx.in + n <= BUF_LEN /\ Used(tx) + n < BUF_LEN /\ Used(tx) \in Nat
      BY <1>2, Pieces, UsedIs, Sizes
    <2>3. CASE call.count = 0 \/ n = 0
      <3> DEFINE o == IF call.count = 0 THEN 0 ELSE tx.out
      <3>1. call' = [call EXCEPT !.at = "kick", !.out = o] /\ o \in Slot
        BY <1>4, <1>6, <2>3 DEF WriteSpace
      <3> HIDE DEF o
      <3>2. call' \in WriteCall /\ call'.at = "kick" /\ call'.count = call.count
        BY <1>2, <3>1 DEF WriteCall
      <3>3. CallOK' /\ Wakeup'
        BY <1>1, <1>2, <2>1, <3>2 DEF CallOK, Wakeup
      <3>4. QED
        BY <1>1, <1>3, <2>1, <3>3 DEF StateOK, moving
    <2>4. CASE ~(call.count = 0 \/ n = 0)
      <3> DEFINE m == Least(n, call.count)
      <3>1. call' = [call EXCEPT !.at = "memcpy", !.n = m]
        BY <1>6, <2>4 DEF WriteSpace
      <3>2. call.count \in Nat
        BY <1>2 DEF WriteCall
      <3>3. m \in Nat /\ m \in 1..call.count /\ m <= n
        BY <2>2, <2>4, <3>2 DEF Least
      <3> HIDE DEF m, n
      <3>4. call' \in WriteCall /\ call'.at = "memcpy" /\ call'.count = call.count /\ call'.n = m
        BY <1>2, <3>1, <3>3 DEF WriteCall
      <3>5. tx.in + m <= BUF_LEN /\ Used(tx) + m < BUF_LEN
        BY <1>4, <2>2, <3>3, Sizes DEF Slot
      <3>6. CallOK' /\ Wakeup'
        BY <1>1, <1>2, <1>5, <2>1, <3>3, <3>4, <3>5 DEF CallOK, Wakeup
      <3>7. QED
        BY <1>1, <1>3, <2>1, <3>6 DEF StateOK, moving
    <2>5. QED
      BY <2>3, <2>4
  <1>7. CASE WriteKick
    <2>1. we' = TRUE /\ call.at = "kick"
      BY <1>7 DEF WriteKick, Main
    <2>2. CallOK' /\ call'.at \in {"none", "wait"}
      <3>1. CASE call.count = 0 \/ call.nonblock
        BY <1>7, <3>1 DEF WriteKick, Return, NoCall, CallOK
      <3>2. CASE ~(call.count = 0 \/ call.nonblock)
        <4>1. call' = [call EXCEPT !.at = "wait"]
          BY <1>7, <3>2 DEF WriteKick, Goto
        <4>2. call' \in WriteCall /\ call'.at = "wait" /\ call'.count = call.count
          BY <1>2, <4>1 DEF WriteCall
        <4>3. QED
          BY <1>1, <1>2, <4>2 DEF CallOK
      <3>3. QED
        BY <3>1, <3>2
    <2>3. Wakeup'
      <3>1. up /\ ~re => rx.in # rx.out
        BY <2>1 DEF Wakeup
      <3>2. QED
        BY <1>1, <2>1, <3>1 DEF Wakeup
    <2>4. QED
      BY <1>1, <1>3, <2>1, <2>2, <2>3 DEF StateOK, moving
  <1>8. CASE WriteWait
    <2>1. we' = we /\ call.at = "wait"
      BY <1>8 DEF WriteWait, Main
    <2>2. CallOK'
      <3>1. CASE host_inactive > 0
        BY <1>8, <3>1 DEF WriteWait, NoCall, CallOK
      <3>2. CASE ~(host_inactive > 0)
        <4>1. call' = [call EXCEPT !.at = "copy", !.out = 0]
          BY <1>8, <3>2 DEF WriteWait
        <4>2. call' \in WriteCall /\ call'.at = "copy" /\ call'.count = call.count
          BY <1>2, <1>4, <4>1 DEF WriteCall
        <4>3. QED
          BY <1>1, <1>2, <4>2 DEF CallOK
      <3>3. QED
        BY <3>1, <3>2
    <2>3. Wakeup'
      <3>1. up => (~re => rx.in # rx.out) /\ (tx.in # tx.out => we)
        BY <2>1 DEF Wakeup
      <3>2. QED
        BY <1>1, <2>1, <3>1 DEF Wakeup
    <2>4. QED
      BY <1>1, <1>3, <2>1, <2>2, <2>3 DEF StateOK, moving
  <1>9. QED
    BY <1>6, <1>7, <1>8

(* What a step of a read that takes nothing does, and the end of close. *)
LEMMA ReadQuiet ==
    ASSUME StateOK, CallOK, IsrOK, Wakeup, ReadFilled \/ ReadWait \/ ReadReturn \/ CloseWait
    PROVE  StateOK' /\ CallOK' /\ IsrOK' /\ Wakeup' /\ UNCHANGED moving
  <1>1. UNCHANGED <<tx, rx, hwTx, hwRx, taken, up, wnext, rnext, attached, host_inactive, timeout,
                    isr, we>>
    BY DEF ReadFilled, ReadWait, ReadReturn, CloseWait, UnchangedByMain
  <1>2. IsrOK'
    BY <1>1, IsrSame
  <1>3. call.at \in {"fetch", "await", "reenable"} => call \in ReadCall
    BY DEF CallOK
  <1>4. rx \in RingType /\ rx.in \in Slot
    BY DEF StateOK, RingType
  <1>5. up => (tx.in # tx.out /\ call.at \notin {"copy", "memcpy", "kick"} => we)
    BY DEF Wakeup
  <1>6. CASE ReadFilled
    <2> DEFINE n == Filled(rx.in, rx.out)
    <2>1. re' = re /\ call.at = "fetch" /\ call \in ReadCall
      BY <1>3, <1>6 DEF ReadFilled, Main
    <2>2. n \in Nat /\ n <= Used(rx) /\ (n = 0 <=> rx.in = rx.out) /\ Used(rx) \in Nat
      BY <1>4, Pieces, UsedIs, Sizes
    <2>3. call.space \in Nat /\ call.got \in Nat
      BY <2>1 DEF ReadCall
    <2>4. CASE call.space = 0 \/ n = 0
      <3> DEFINE at == IF call.got > 0 \/ call.nonblock THEN "reenable" ELSE "await"
      <3>1. call' = [call EXCEPT !.at = at, !.in = rx.in] /\ at \in {"reenable", "await"}
            /\ (call.got > 0 => at = "reenable")
        BY <1>6, <2>4 DEF ReadFilled
      <3> HIDE DEF at
      <3>2. call' \in ReadCall /\ call'.at = at /\ call'.got = call.got
        BY <1>4, <2>1, <3>1 DEF ReadCall
      <3>3. CallOK' /\ Wakeup'
        BY <1>1, <2>1, <3>1, <3>2 DEF CallOK, Wakeup
      <3>4. QED
        BY <1>1, <1>2, <2>1, <3>3 DEF StateOK, moving
    <2>5. CASE ~(call.space = 0 \/ n = 0)
      <3> DEFINE m == Least(n, call.space)
      <3>1. call' = [call EXCEPT !.at = "take", !.n = m]
        BY <1>6, <2>5 DEF ReadFilled
      <3>2. m \in Nat /\ m \in 1..call.space /\ m <= Used(rx) /\ rx.in # rx.out
        BY <2>2, <2>3, <2>5 DEF Least
      <3> HIDE DEF m, n
      <3>3. call' \in ReadCall /\ call'.at = "take" /\ call'.space = call.space /\ call'.n = m
        BY <2>1, <3>1, <3>2 DEF ReadCall
      <3>4. Used(rx)' = Used(rx)
        BY <1>1 DEF Used
      <3>5. CallOK' /\ Wakeup'
        BY <1>1, <1>5, <2>1, <3>2, <3>3, <3>4 DEF CallOK, Wakeup
      <3>6. QED
        BY <1>1, <1>2, <2>1, <3>5 DEF StateOK, moving
    <2>6. QED
      BY <2>4, <2>5
  <1>7. CASE ReadWait
    <2> DEFINE at == IF call.in = rx.in THEN "reenable" ELSE "fetch"
    <2>1. re' = re /\ call.at = "await" /\ call \in ReadCall
      BY <1>3, <1>7 DEF ReadWait, Main
    <2>2. call' = [call EXCEPT !.at = at] /\ at \in {"reenable", "fetch"}
      BY <1>7 DEF ReadWait, Goto
    <2> HIDE DEF at
    <2>3. call' \in ReadCall /\ call'.at = at
      BY <2>1, <2>2 DEF ReadCall
    <2>4. CallOK' /\ Wakeup'
      BY <1>1, <1>5, <2>1, <2>2, <2>3 DEF CallOK, Wakeup
    <2>5. QED
      BY <1>1, <1>2, <2>1, <2>4 DEF StateOK, moving
  <1>8. CASE ReadReturn
    <2>1. call' = [at |-> "none"] /\ call.at = "reenable" /\ call \in ReadCall
      BY <1>3, <1>8 DEF ReadReturn, Main, Return, NoCall
    <2>2. re' = (re \/ call.got > 0) /\ re \in BOOLEAN
      BY <1>8 DEF ReadReturn, StateOK
    <2>3. CallOK' /\ re' \in BOOLEAN
      BY <2>1, <2>2 DEF CallOK
    <2>4. up => (~re' => rx.in # rx.out)
      BY <2>1, <2>2 DEF Wakeup
    <2>5. Wakeup'
      BY <1>1, <1>5, <2>1, <2>4 DEF Wakeup
    <2>6. QED
      BY <1>1, <1>2, <2>3, <2>5 DEF StateOK, moving
  <1>9. CASE CloseWait
    <2>1. call' = [at |-> "none"] /\ call.at = "drain" /\ re' = re
      BY <1>9 DEF CloseWait, Main, Return, NoCall
    <2>2. CallOK' /\ Wakeup'
      BY <1>1, <1>5, <2>1 DEF CallOK, Wakeup
    <2>3. QED
      BY <1>1, <1>2, <2>1, <2>2 DEF StateOK, moving
  <1>10. QED
    BY <1>6, <1>7, <1>8, <1>9

-----------------------------------------------------------------------------
(* Steps that move characters.                                              *)
TxStep == [Tx!Next]_<<TxQueue, taken.tx, up>>
RxStep == [Rx!Next]_<<RxQueue, taken.rx, up>>

(* The rings and FIFOs as sequences. *)
LEMMA Buffers ==
    ASSUME StateOK
    PROVE  /\ tx \in RingType /\ rx \in RingType
           /\ Ring(tx) \in Seq(Char) /\ Len(Ring(tx)) = Used(tx) /\ Used(tx) \in Nat
           /\ Ring(rx) \in Seq(Char) /\ Len(Ring(rx)) = Used(rx) /\ Used(rx) \in Nat
           /\ hwTx \in Seq(Char) /\ Len(hwTx) \in Nat /\ hwRx \in Seq(Char) /\ Len(hwRx) \in Nat
  <1>1. tx \in RingType /\ rx \in RingType /\ hwTx \in Seq(Char) /\ hwRx \in Seq(Char)
    BY DEF StateOK
  <1>2. Used(tx) \in 0..(BUF_LEN - 1) /\ Used(rx) \in 0..(BUF_LEN - 1)
    BY <1>1, UsedIs
  <1>3. QED
    BY <1>1, <1>2, RingIs, LenProperties, Sizes

(* The host takes a character from the hardware. *)
LEMMA HostTakeStep ==
    ASSUME IInv, HostTake
    PROVE  IInv' /\ TxStep /\ RxStep
  <1> USE DEF IInv
  <1>1. /\ up /\ hwTx # <<>> /\ hwTx' = Tail(hwTx) /\ taken' = [taken EXCEPT !.tx = @ + 1]
        /\ UNCHANGED <<tx, rx, hwRx, re, we, host_inactive, timeout, isr, call, attached, wnext, rnext, up>>
    BY DEF HostTake
  <1>2. /\ hwTx' \in Seq(Char) /\ Len(hwTx') = Len(hwTx) - 1 /\ Len(hwTx) \in Nat \ {0}
        /\ \A i \in 1..Len(hwTx') : hwTx'[i] = hwTx[i + 1]
    BY <1>1, Buffers, HeadTailProperties, EmptySeq
  <1>3. taken \in [tx : Nat, rx : Nat]
    BY DEF StateOK
  <1>4. taken' \in [tx : Nat, rx : Nat] /\ taken'.tx = taken.tx + 1 /\ taken'.rx = taken.rx
    BY <1>1, <1>3
  <1>5. StateOK'
    <2>1. Len(hwTx') <= Depth
      BY <1>2, Sizes DEF StateOK
    <2>2. QED
      BY <1>1, <1>2, <1>4, <2>1 DEF StateOK
  <1>6. CallOK'
    BY <1>1, CallSame
  <1>7. IsrOK'
    <2>1. isr.at \in {"rx", "tx"} => isr.space \in Nat /\ isr.space + Len(hwTx) <= Depth
      BY Sizes DEF IsrOK
    <2>2. isr.at \in {"rx", "tx"} => isr.space + Len(hwTx') <= Depth
      BY <1>2, <2>1, Sizes
    <2>3. QED
      BY <1>1, <2>2 DEF IsrOK
  <1>8. Wakeup' /\ DownEmpty'
    BY <1>1 DEF Wakeup, DownEmpty
  <1>9. TxStep
    <2>1. TxQueue' = SubSeq(TxQueue, 1 + 1, Len(TxQueue))
      <3>1. Ring(tx) \in Seq(Char) /\ hwTx \in Seq(Char) /\ 1 \in 1..Len(hwTx)
        BY <1>2, Buffers
      <3>2. hwTx' \o Ring(tx) = SubSeq(hwTx \o Ring(tx), 1 + 1, Len(hwTx \o Ring(tx)))
        BY <1>2, <3>1, TakeFront
      <3>3. QED
        BY <1>1, <3>2, Queues
    <2>2. Len(TxQueue) \in Nat /\ Len(TxQueue) >= 1
      BY <1>2, Buffers, Concat, Queues
    <2>3. taken'.tx - taken.tx = 1
      BY <1>3, <1>4
    <2>4. Tx!Take
      BY <1>1, <2>1, <2>2, <2>3 DEF Tx!Take
    <2>5. QED
      BY <2>4 DEF TxStep, Tx!Next
  <1>10. RxStep
    BY <1>1, <1>4, Queues DEF RxStep
  <1>11. QED
    BY <1>5, <1>6, <1>7, <1>8, <1>9, <1>10

(* The host sends a character to the hardware. *)
LEMMA HostSendStep ==
    ASSUME IInv, HostSend
    PROVE  IInv' /\ TxStep /\ RxStep
  <1> USE DEF IInv
  <1>1. /\ up /\ rnext <= MaxRx /\ Len(hwRx) < Depth /\ hwRx' = Append(hwRx, rnext) /\ rnext' = rnext + 1
        /\ UNCHANGED <<tx, rx, hwTx, re, we, host_inactive, timeout, isr, call, attached, wnext, taken, up>>
    BY DEF HostSend
  <1>2. rnext \in Char /\ rnext' \in 1..(MaxRx + 1)
    BY <1>1, Sizes DEF StateOK, Char
  <1>3. /\ hwRx' \in Seq(Char) /\ Len(hwRx') = Len(hwRx) + 1
        /\ \A i \in 1..Len(hwRx) : hwRx'[i] = hwRx[i]
    BY <1>1, <1>2, Buffers, AppendProperties
  <1>4. Len(hwRx) \in Nat
    BY Buffers
  <1>5. StateOK'
    <2>1. Len(hwRx') <= Depth
      BY <1>1, <1>3, <1>4, Sizes
    <2>2. QED
      BY <1>1, <1>2, <1>3, <2>1 DEF StateOK
  <1>6. CallOK' /\ IsrOK'
    BY <1>1, CallSame, IsrSame
  <1>7. Wakeup' /\ DownEmpty'
    BY <1>1 DEF Wakeup, DownEmpty
  <1>8. TxStep
    BY <1>1, Queues DEF TxStep
  <1>9. RxStep
    <2>1. /\ Len(Ring(rx) \o hwRx') > Len(Ring(rx) \o hwRx)
          /\ SubSeq(Ring(rx) \o hwRx', 1, Len(Ring(rx) \o hwRx)) = Ring(rx) \o hwRx
          /\ \A i \in 1..Len(Ring(rx) \o hwRx') : (Ring(rx) \o hwRx')[i] \in Char
      <3>1. Len(hwRx') > Len(hwRx)
        BY <1>3, <1>4
      <3>2. QED
        BY <1>3, <3>1, Buffers, AddBack
    <2>2. RxQueue = Ring(rx) \o hwRx /\ RxQueue' = Ring(rx) \o hwRx'
      BY <1>1, Queues
    <2>3. Rx!Put
      BY <1>1, <2>1, <2>2 DEF Rx!Put
    <2>4. QED
      BY <2>3 DEF RxStep, Rx!Next
  <1>10. QED
    BY <1>5, <1>6, <1>7, <1>8, <1>9

(* The interrupt routine moves a character from the hardware to the ring:    *)
(* the channel does not change.                                              *)
LEMMA IsrReadStep ==
    ASSUME IInv, IsrRead
    PROVE  IInv' /\ TxStep /\ RxStep
  <1> USE DEF IInv
  <1>1. /\ up /\ isr.at = "rx" /\ RoomFor(rx) /\ hwRx # <<>>
        /\ rx' = Put(rx, Head(hwRx)) /\ hwRx' = Tail(hwRx)
        /\ isr' = [isr EXCEPT !.avail = Tail(hwRx) # <<>>]
        /\ UNCHANGED <<tx, hwTx, re, we, attached, rnext, host_inactive, timeout, call, wnext, taken, up>>
    BY DEF IsrRead, Isr, UnchangedByIsr
  <1> DEFINE c == Head(hwRx)
  <1>2. /\ c \in Char /\ hwRx' \in Seq(Char) /\ Len(hwRx') = Len(hwRx) - 1 /\ Len(hwRx) \in Nat \ {0}
        /\ \A i \in 1..Len(hwRx') : hwRx'[i] = hwRx[i + 1]
    BY <1>1, Buffers, HeadTailProperties, EmptySeq
  <1>3. c = hwRx[1]
    BY <1>2, Buffers
  <1>4. rx \in RingType /\ rx' = Put(rx, c)
    BY <1>1, Buffers
  <1> HIDE DEF c
  <1>5. /\ rx' \in RingType /\ rx'.in # rx'.out
        /\ Used(rx') = Used(rx) + 1
        /\ \A i \in 1..Used(rx) : Ring(rx')[i] = Ring(rx)[i]
        /\ Ring(rx')[Used(rx) + 1] = c
    BY <1>1, <1>2, <1>4, RingPut
  <1>6. StateOK'
    <2>1. Len(hwRx') <= Depth
      BY <1>2, Sizes DEF StateOK
    <2>2. QED
      BY <1>1, <1>2, <1>5, <2>1 DEF StateOK
  <1>7. CallOK'
    <2>1. Used(tx)' = Used(tx) /\ Used(rx)' = Used(rx) + 1
      BY <1>1, <1>5 DEF Used
    <2>2. call.at = "take" => call.n <= Used(rx)'
      <3>1. call.at = "take" => call.n \in Nat /\ call.n <= Used(rx)
        BY DEF CallOK, ReadCall
      <3>2. QED
        BY <2>1, <3>1, Buffers
    <2>3. QED
      BY <1>1, <2>1, <2>2 DEF CallOK
  <1>8. IsrOK'
    <2>1. isr \in [at : {"rx", "tx"}, wi : BOOLEAN, space : 0..Depth, avail : BOOLEAN]
          /\ isr.space + Len(hwTx) <= Depth
      BY <1>1 DEF IsrOK
    <2>2. isr' \in [at : {"rx", "tx"}, wi : BOOLEAN, space : 0..Depth, avail : BOOLEAN]
          /\ isr'.space = isr.space /\ isr'.at = isr.at
      BY <1>1, <2>1
    <2>3. QED
      BY <1>1, <2>1, <2>2 DEF IsrOK
  <1>9. Wakeup' /\ DownEmpty'
    BY <1>1, <1>5 DEF Wakeup, DownEmpty
  <1>10. TxStep
    BY <1>1, Queues DEF TxStep
  <1>11. RxStep
    <2>1. Ring(rx') \in Seq(Char) /\ Len(Ring(rx')) = Used(rx) + 1
      BY <1>5, RingIs
    <2>2. Ring(rx') \o hwRx' = Ring(rx) \o hwRx
      <3>1. Ring(rx) \in Seq(Char) /\ Ring(rx') \in Seq(Char) /\ hwRx \in Seq(Char) /\ hwRx' \in Seq(Char)
        BY <1>2, <2>1, Buffers
      <3>2. Len(Ring(rx')) = Len(Ring(rx)) + 1 /\ Len(hwRx) = Len(hwRx') + 1
        BY <1>2, <2>1, Buffers
      <3>3. /\ \A i \in 1..Len(Ring(rx)) : Ring(rx')[i] = Ring(rx)[i]
            /\ Ring(rx')[Len(Ring(rx)) + 1] = hwRx[1]
            /\ \A i \in 1..Len(hwRx') : hwRx'[i] = hwRx[i + 1]
        BY <1>2, <1>3, <1>5, <2>1, Buffers
      <3>4. Moved(Ring(rx), hwRx, Ring(rx'), hwRx')
        BY <3>2, <3>3, Zenon DEF Moved
      <3>5. \A a, b, a2, b2 \in Seq(Char) : Moved(a, b, a2, b2) => a2 \o b2 = a \o b
        BY MoveOver, Zenon
      <3>6. \A a2, b2 \in Seq(Char) : Moved(Ring(rx), hwRx, a2, b2) => a2 \o b2 = Ring(rx) \o hwRx
        BY <3>1, <3>5, Zenon
      <3>7. QED
        BY <3>1, <3>4, <3>6, Zenon
    <2>3. RxQueue' = RxQueue
      BY <2>2, Queues
    <2>4. QED
      BY <1>1, <2>3 DEF RxStep
  <1>12. QED
    BY <1>6, <1>7, <1>8, <1>9, <1>10, <1>11

(* The interrupt routine moves a character from the ring to the hardware. *)
LEMMA IsrWriteStep ==
    ASSUME IInv, IsrWrite
    PROVE  IInv' /\ TxStep /\ RxStep
  <1> USE DEF IInv
  <1>1. /\ up /\ isr.at = "tx" /\ isr.space > 0 /\ tx.in # tx.out
        /\ hwTx' = Append(hwTx, tx.buf[tx.out])
        /\ tx' = [tx EXCEPT !.out = (@ + 1) % BUF_LEN]
        /\ isr' = [isr EXCEPT !.space = @ - 1]
        /\ UNCHANGED <<rx, hwRx, re, we, attached, rnext, host_inactive, timeout, call, wnext, taken, up>>
    BY DEF IsrWrite, Isr, UnchangedByIsr
  <1> DEFINE c == tx.buf[tx.out]
  <1>2. tx \in RingType /\ c \in Char /\ Used(tx) \in Nat /\ Used(tx) >= 1
    BY <1>1, Buffers, UsedIs
  <1>3. 1 \in 1..Used(tx)
    BY <1>2
  <1>4. /\ tx' \in RingType /\ Used(tx') = Used(tx) - 1
        /\ \A i \in 1..Used(tx') : Ring(tx')[i] = Ring(tx)[i + 1]
    BY <1>1, <1>2, <1>3, RingDrop
  <1>5. c = Ring(tx)[1]
    <2>1. 0 \in 0..(Used(tx) - 1) /\ After(tx, 0) = tx.out
      BY <1>2, UsedIs, Sizes DEF After, Slot
    <2>2. Ring(tx)[0 + 1] = tx.buf[After(tx, 0)]
      BY <1>2, <2>1, RingIs
    <2>3. QED
      BY <2>1, <2>2
  <1>6. hwTx' = Append(hwTx, c)
    BY <1>1
  <1> HIDE DEF c
  <1>7. /\ hwTx' \in Seq(Char) /\ Len(hwTx') = Len(hwTx) + 1 /\ Len(hwTx) \in Nat
        /\ \A i \in 1..Len(hwTx) : hwTx'[i] = hwTx[i]
        /\ hwTx'[Len(hwTx) + 1] = c
    BY <1>2, <1>6, Buffers, AppendProperties
  <1>8. IsrOK' /\ Len(hwTx') <= Depth
    <2>1. isr \in [at : {"rx", "tx"}, wi : BOOLEAN, space : 0..Depth, avail : BOOLEAN]
          /\ isr.space + Len(hwTx) <= Depth
      BY <1>1 DEF IsrOK
    <2>2. isr.space - 1 \in 0..Depth /\ isr.space \in Nat
      BY <1>1, <2>1, Sizes
    <2>3. isr' \in [at : {"rx", "tx"}, wi : BOOLEAN, space : 0..Depth, avail : BOOLEAN]
          /\ isr'.space = isr.space - 1 /\ isr'.at = "tx"
      BY <1>1, <2>1, <2>2
    <2>4. isr'.space + Len(hwTx') <= Depth /\ Len(hwTx') <= Depth
      BY <1>1, <1>7, <2>1, <2>2, <2>3, Sizes
    <2>5. QED
      BY <2>3, <2>4 DEF IsrOK
  <1>9. StateOK'
    BY <1>1, <1>4, <1>7, <1>8 DEF StateOK
  <1>10. CallOK'
    <2>1. Used(tx)' = Used(tx) - 1 /\ Used(rx)' = Used(rx) /\ tx'.in = tx.in
      BY <1>1, <1>2, <1>4 DEF Used, RingType
    <2>2. call.at = "memcpy" => Used(tx)' + call.n < BUF_LEN
      <3>1. call.at = "memcpy" => call.n \in Nat /\ Used(tx) + call.n < BUF_LEN
        BY DEF CallOK, WriteCall
      <3>2. QED
        BY <1>2, <2>1, <3>1, Sizes
    <2>3. QED
      BY <1>1, <2>1, <2>2 DEF CallOK
  <1>11. Wakeup' /\ DownEmpty'
    BY <1>1 DEF Wakeup, DownEmpty
  <1>12. RxStep
    BY <1>1, Queues DEF RxStep
  <1>13. TxStep
    <2>1. Ring(tx') \in Seq(Char) /\ Len(Ring(tx')) = Used(tx) - 1
      BY <1>4, RingIs
    <2>2. hwTx' \o Ring(tx') = hwTx \o Ring(tx)
      <3>1. hwTx \in Seq(Char) /\ hwTx' \in Seq(Char) /\ Ring(tx) \in Seq(Char) /\ Ring(tx') \in Seq(Char)
        BY <1>7, <2>1, Buffers
      <3>2. Len(hwTx') = Len(hwTx) + 1 /\ Len(Ring(tx)) = Len(Ring(tx')) + 1
        BY <1>7, <1>2, <2>1, Buffers
      <3>3. /\ \A i \in 1..Len(hwTx) : hwTx'[i] = hwTx[i]
            /\ hwTx'[Len(hwTx) + 1] = Ring(tx)[1]
            /\ \A i \in 1..Len(Ring(tx')) : Ring(tx')[i] = Ring(tx)[i + 1]
        BY <1>4, <1>5, <1>7, <2>1, Buffers
      <3>4. Moved(hwTx, Ring(tx), hwTx', Ring(tx'))
        BY <3>2, <3>3, Zenon DEF Moved
      <3>5. \A a, b, a2, b2 \in Seq(Char) : Moved(a, b, a2, b2) => a2 \o b2 = a \o b
        BY MoveOver, Zenon
      <3>6. \A a2, b2 \in Seq(Char) : Moved(hwTx, Ring(tx), a2, b2) => a2 \o b2 = hwTx \o Ring(tx)
        BY <3>1, <3>5, Zenon
      <3>7. QED
        BY <3>1, <3>4, <3>6, Zenon
    <2>3. TxQueue' = TxQueue
      BY <2>2, Queues
    <2>4. QED
      BY <1>1, <2>3 DEF TxStep
  <1>14. QED
    BY <1>8, <1>9, <1>10, <1>11, <1>12, <1>13

(* write copies characters into the ring in one piece. *)
LEMMA WriteCopyStep ==
    ASSUME IInv, WriteCopy
    PROVE  IInv' /\ TxStep /\ RxStep
  <1> USE DEF IInv
  <1> DEFINE n == call.n
             buf == [i \in Slot |-> IF i \in tx.in..(tx.in + n - 1) THEN wnext + i - tx.in ELSE tx.buf[i]]
             at == (tx.in + n) % BUF_LEN
  <1>1. /\ up /\ call.at = "memcpy" /\ tx' = [tx EXCEPT !.in = at, !.buf = buf]
        /\ wnext' = wnext + n
        /\ call' = [call EXCEPT !.at = "copy", !.count = @ - n, !.n = 0]
        /\ UNCHANGED <<rx, re, we, timeout, taken, hwTx, hwRx, attached, rnext, host_inactive, isr, up>>
    BY DEF WriteCopy, Main, UnchangedByMain
  <1>2. /\ call \in WriteCall /\ call.count \in Nat /\ n \in 1..call.count /\ n \in Nat /\ n >= 1
        /\ wnext + call.count <= MaxTx + 1
        /\ tx.in + n <= BUF_LEN /\ Used(tx) + n < BUF_LEN
    <2>1. call \in WriteCall /\ n \in 1..call.count /\ wnext + call.count <= MaxTx + 1
          /\ tx.in + n <= BUF_LEN /\ Used(tx) + n < BUF_LEN
      BY <1>1 DEF CallOK
    <2>2. call.count \in Nat
      BY <2>1 DEF WriteCall
    <2>3. QED
      BY <2>1, <2>2
  <1>3. wnext \in 1..(MaxTx + 1)
    BY DEF StateOK
  <1>4. tx \in RingType /\ tx.in \in Slot /\ tx.out \in Slot /\ tx.buf \in [Slot -> Char]
    BY Buffers DEF RingType
  <1> HIDE DEF n
  <1>5. at \in Slot
    <2>1. BUF_LEN \in Nat \ {0} /\ tx.in \in Nat
      BY <1>4, Sizes DEF Slot
    <2>2. QED
      BY <1>2, <2>1 DEF Slot
  <1>6. buf \in [Slot -> Char]
    <2>1. ASSUME NEW i \in Slot, i \in tx.in..(tx.in + n - 1)
          PROVE  wnext + i - tx.in \in Char
      <3>1. wnext + i - tx.in \in 1..MaxTx
        <4> DEFINE j == tx.in
                   k == call.count
        <4>1. j \in Nat /\ i \in j..(j + n - 1) /\ k \in Nat /\ n \in 1..k /\ wnext + k <= MaxTx + 1
          BY <1>2, <1>4, <2>1 DEF Slot
        <4> HIDE DEF j, k
        <4>2. wnext + i - j \in 1..MaxTx
          BY <1>3, <4>1, Sizes
        <4>3. QED
          BY <4>2 DEF j
      <3>2. QED
        BY <3>1, Sizes DEF Char
    <2>2. QED
      BY <1>4, <2>1
  <1>7. \A i \in Slot : i < tx.in \/ i >= tx.in + n => buf[i] = tx.buf[i]
    BY <1>2, <1>4, Sizes DEF Slot
  <1> HIDE DEF buf
  <1>8. tx' \in RingType /\ tx'.in = at /\ tx'.out = tx.out /\ tx'.buf = buf
    BY <1>1, <1>4, <1>5, <1>6 DEF RingType
  <1>9. tx'.in = (tx.in + n) % BUF_LEN
    BY <1>8
  <1> HIDE DEF at
  <1>10. /\ Used(tx') = Used(tx) + n
         /\ \A i \in 1..Used(tx) : Ring(tx')[i] = Ring(tx)[i]
    <2>1. \A i \in Slot : i < tx.in \/ i >= tx.in + n => tx'.buf[i] = tx.buf[i]
      BY <1>7, <1>8
    <2>2. n \in Nat /\ n >= 1 /\ tx.in + n <= BUF_LEN /\ Used(tx) + n < BUF_LEN
      BY <1>2
    <2>3. tx \in RingType /\ tx' \in RingType /\ tx'.out = tx.out
      BY <1>4, <1>8
    <2>4. QED
      BY <1>9, <2>1, <2>2, <2>3, RingFill, Zenon
  <1>11. StateOK'
    <2>1. wnext' \in 1..(MaxTx + 1)
      BY <1>1, <1>2, <1>3, Sizes
    <2>2. QED
      BY <1>1, <1>8, <2>1 DEF StateOK
  <1>12. CallOK' /\ call'.at = "copy"
    <2>1. call.count - n \in Nat
      BY <1>2
    <2>2. call' \in WriteCall /\ call'.at = "copy" /\ call'.count = call.count - n
      BY <1>1, <1>2, <2>1 DEF WriteCall
    <2>3. wnext' + call'.count <= MaxTx + 1
      BY <1>1, <1>2, <1>3, <2>2, Sizes
    <2>4. QED
      BY <2>2, <2>3 DEF CallOK
  <1>13. IsrOK'
    BY <1>1, IsrSame
  <1>14. Wakeup' /\ DownEmpty'
    <2>1. ~re => rx.in # rx.out
      BY <1>1 DEF Wakeup
    <2>2. QED
      BY <1>1, <1>12, <2>1 DEF Wakeup, DownEmpty
  <1>15. RxStep
    BY <1>1, Queues DEF RxStep
  <1>16. TxStep
    <2>1. Ring(tx') \in Seq(Char) /\ Len(Ring(tx')) = Used(tx) + n
      BY <1>8, <1>10, RingIs
    <2>2. Ring(tx) \in Seq(Char) /\ Len(Ring(tx)) = Used(tx) /\ Used(tx) \in Nat /\ hwTx \in Seq(Char)
      BY Buffers
    <2>3. Len(Ring(tx')) > Len(Ring(tx)) /\ \A i \in 1..Len(Ring(tx)) : Ring(tx')[i] = Ring(tx)[i]
      BY <1>2, <1>10, <2>1, <2>2
    <2>4. /\ Len(hwTx \o Ring(tx')) > Len(hwTx \o Ring(tx))
          /\ SubSeq(hwTx \o Ring(tx'), 1, Len(hwTx \o Ring(tx))) = hwTx \o Ring(tx)
          /\ \A i \in 1..Len(hwTx \o Ring(tx')) : (hwTx \o Ring(tx'))[i] \in Char
      BY <2>1, <2>2, <2>3, AddBack
    <2>5. TxQueue = hwTx \o Ring(tx) /\ TxQueue' = hwTx \o Ring(tx')
      BY <1>1, Queues
    <2>6. Tx!Put
      BY <1>1, <2>4, <2>5 DEF Tx!Put
    <2>7. QED
      BY <2>6 DEF TxStep, Tx!Next
  <1>17. QED
    BY <1>11, <1>12, <1>13, <1>14, <1>15, <1>16

(* read takes characters from the ring. *)
LEMMA ReadTakeStep ==
    ASSUME IInv, ReadTake
    PROVE  IInv' /\ TxStep /\ RxStep
  <1> USE DEF IInv
  <1> DEFINE n == call.n
  <1>1. /\ up /\ call.at = "take" /\ rx' = [rx EXCEPT !.out = (@ + n) % BUF_LEN]
        /\ call' = [call EXCEPT !.at = "fetch", !.space = @ - n, !.got = @ + n, !.n = 0]
        /\ taken' = [taken EXCEPT !.rx = @ + n]
        /\ UNCHANGED <<tx, re, we, timeout, wnext, hwTx, hwRx, attached, rnext, host_inactive, isr, up>>
    BY DEF ReadTake, Main, UnchangedByMain
  <1>2. /\ call \in ReadCall /\ call.space \in Nat /\ call.got \in Nat /\ n \in Nat /\ n >= 1
        /\ n <= call.space /\ n \in 1..Used(rx)
    <2>1. call \in ReadCall /\ n \in 1..call.space /\ n <= Used(rx)
      BY <1>1 DEF CallOK
    <2>2. call.space \in Nat /\ call.got \in Nat
      BY <2>1 DEF ReadCall
    <2>3. Used(rx) \in Nat
      BY Buffers
    <2>4. QED
      BY <2>1, <2>2, <2>3
  <1>3. rx \in RingType /\ taken \in [tx : Nat, rx : Nat]
    BY DEF StateOK
  <1> HIDE DEF n
  <1>4. /\ rx' \in RingType /\ Used(rx') = Used(rx) - n
        /\ \A i \in 1..Used(rx') : Ring(rx')[i] = Ring(rx)[i + n]
    BY <1>1, <1>2, <1>3, RingDrop
  <1>5. taken' \in [tx : Nat, rx : Nat] /\ taken'.rx = taken.rx + n /\ taken'.tx = taken.tx
    BY <1>1, <1>2, <1>3
  <1>6. StateOK'
    BY <1>1, <1>4, <1>5 DEF StateOK
  <1>7. CallOK' /\ call'.at = "fetch" /\ call'.got > 0
    <2>1. call.space - n \in Nat /\ call.got + n \in Nat /\ call.got + n > 0
      BY <1>2
    <2>2. call' \in ReadCall /\ call'.at = "fetch" /\ call'.got = call.got + n
      BY <1>1, <1>2, <2>1 DEF ReadCall
    <2>3. QED
      BY <2>1, <2>2 DEF CallOK
  <1>8. IsrOK'
    BY <1>1, IsrSame
  <1>9. Wakeup' /\ DownEmpty'
    BY <1>1, <1>7 DEF Wakeup, DownEmpty
  <1>10. TxStep
    BY <1>1, <1>5, Queues DEF TxStep
  <1>11. RxStep
    <2>1. Ring(rx') \in Seq(Char) /\ Len(Ring(rx')) = Used(rx) - n
      BY <1>4, RingIs
    <2>2. Ring(rx) \in Seq(Char) /\ Len(Ring(rx)) = Used(rx) /\ hwRx \in Seq(Char)
      BY Buffers
    <2>3. /\ n \in 1..Len(Ring(rx)) /\ Len(Ring(rx')) = Len(Ring(rx)) - n
          /\ \A i \in 1..Len(Ring(rx')) : Ring(rx')[i] = Ring(rx)[i + n]
      BY <1>2, <1>4, <2>1, <2>2
    <2>4. Ring(rx') \o hwRx = SubSeq(Ring(rx) \o hwRx, n + 1, Len(Ring(rx) \o hwRx))
      BY <2>1, <2>2, <2>3, TakeFront
    <2>5. RxQueue = Ring(rx) \o hwRx /\ RxQueue' = Ring(rx') \o hwRx
      BY <1>1, Queues
    <2>6. taken'.rx - taken.rx = n /\ n \in 1..Len(RxQueue)
      <3>1. Len(RxQueue) = Used(rx) + Len(hwRx) /\ Len(hwRx) \in Nat /\ Used(rx) \in Nat
        BY <2>2, <2>5, Concat, Buffers
      <3>2. QED
        BY <1>2, <1>3, <1>5, <3>1
    <2>7. Rx!Take
      BY <1>1, <2>4, <2>5, <2>6 DEF Rx!Take
    <2>8. QED
      BY <2>7 DEF RxStep, Rx!Next
  <1>12. QED
    BY <1>6, <1>7, <1>8, <1>9, <1>10, <1>11

(* Nothing is in an empty ring. *)
LEMMA EmptyRing == Empty \in RingType /\ Empty.in = Empty.out /\ Ring(Empty) = <<>>
  <1>1. 0 \in Slot /\ 1 \in Char
    BY Sizes DEF Slot, Char
  <1>2. [i \in Slot |-> 1] \in [Slot -> Char]
    BY <1>1
  <1>3. Empty \in RingType /\ Empty.in = 0 /\ Empty.out = 0
    BY <1>1, <1>2 DEF Empty, RingType
  <1>4. Used(Empty) = 0
    BY <1>3, UsedIs
  <1>5. Ring(Empty) \in Seq(Char) /\ Len(Ring(Empty)) = 0
    BY <1>3, <1>4, RingIs
  <1>6. QED
    BY <1>3, <1>5, EmptySeq

(* The watchdog restarts the system with everything empty. *)
LEMMA WatchdogStep ==
    ASSUME IInv, Watchdog
    PROVE  IInv' /\ TxStep /\ RxStep
  <1> USE DEF IInv
  <1>1. /\ up /\ up' = FALSE /\ tx' = Empty /\ rx' = Empty /\ hwTx' = <<>> /\ hwRx' = <<>>
        /\ re' = FALSE /\ we' = FALSE /\ isr' = [at |-> "off"] /\ call' = [at |-> "none"]
        /\ host_inactive' = 0 /\ timeout' = DEFAULT_TIMEOUT /\ wnext' = 1 /\ rnext' = 1
        /\ taken' = [tx |-> 0, rx |-> 0] /\ attached' = attached
    BY DEF Watchdog, NoIsr, NoCall
  <1>2. DEFAULT_TIMEOUT \in 2..(INT_MAX - 1) /\ INT_MAX \in Nat
    BY JtagUartAssumption, Zenon
  <1>3. <<>> \in Seq(Char) /\ Len(<<>>) = 0
    BY EmptySeq
  <1>4. TxQueue' = <<>> /\ RxQueue' = <<>>
    <2>1. <<>> \o <<>> = <<>>
      BY <1>3, ConcatEmptySeq
    <2>2. QED
      BY <1>1, <2>1, EmptyRing, Queues
  <1>5. StateOK'
    <2>1. tx' \in RingType /\ rx' \in RingType /\ taken' \in [tx : Nat, rx : Nat]
      BY <1>1, EmptyRing
    <2>2. hwTx' \in Seq(Char) /\ Len(hwTx') <= Depth /\ hwRx' \in Seq(Char) /\ Len(hwRx') <= Depth
      BY <1>1, <1>3, Sizes
    <2>3. /\ host_inactive' \in 0..(INT_MAX - 2) /\ timeout' \in 2..(INT_MAX - 1)
          /\ wnext' \in 1..(MaxTx + 1) /\ rnext' \in 1..(MaxRx + 1)
      BY <1>1, <1>2, Sizes
    <2>4. QED
      BY <1>1, <2>1, <2>2, <2>3 DEF StateOK
  <1>6. CallOK' /\ IsrOK' /\ Wakeup'
    BY <1>1 DEF CallOK, IsrOK, Wakeup
  <1>7. DownEmpty'
    BY <1>1, <1>4, EmptyRing DEF DownEmpty
  <1>8. taken'.tx = 0 /\ taken'.rx = 0
    BY <1>1
  <1>9. TxStep /\ RxStep
    BY <1>1, <1>4, <1>8 DEF TxStep, RxStep, Tx!Next, Rx!Next, Tx!Restart, Rx!Restart
  <1>10. QED
    BY <1>5, <1>6, <1>7, <1>9

(* The system boots. *)
LEMMA BootStep ==
    ASSUME IInv, Boot
    PROVE  IInv' /\ TxStep /\ RxStep
  <1> USE DEF IInv
  <1>1. /\ ~up /\ up' = TRUE /\ re' = TRUE
        /\ UNCHANGED <<tx, rx, hwTx, hwRx, attached, rnext, we, host_inactive, timeout, isr, call,
                       wnext, taken>>
    BY DEF Boot, hw
  <1>2. TxQueue = <<>> /\ RxQueue = <<>> /\ taken = [tx |-> 0, rx |-> 0] /\ tx.in = tx.out
    BY <1>1 DEF DownEmpty
  <1>3. TxQueue' = <<>> /\ RxQueue' = <<>> /\ taken'.tx = 0 /\ taken'.rx = 0
    BY <1>1, <1>2, Queues
  <1>4. StateOK'
    BY <1>1 DEF StateOK
  <1>5. CallOK' /\ IsrOK'
    BY <1>1, CallSame, IsrSame
  <1>6. Wakeup' /\ DownEmpty'
    BY <1>1, <1>2 DEF Wakeup, DownEmpty
  <1>7. TxStep /\ RxStep
    BY <1>1, <1>3 DEF TxStep, RxStep, Tx!Next, Rx!Next, Tx!Restart, Rx!Restart
  <1>8. QED
    BY <1>4, <1>5, <1>6, <1>7

-----------------------------------------------------------------------------
(* After altera_avalon_jtag_uart_init everything is empty. *)
LEMMA Start == Init => IInv /\ Tx!Init /\ Rx!Init
  <1> SUFFICES ASSUME Init
               PROVE  IInv /\ Tx!Init /\ Rx!Init
    OBVIOUS
  <1>1. DEFAULT_TIMEOUT \in 2..(INT_MAX - 1) /\ INT_MAX \in Nat
    BY JtagUartAssumption, Zenon
  <1>2. <<>> \in Seq(Char) /\ Len(<<>>) = 0
    BY EmptySeq
  <1>3. TxQueue = <<>> /\ RxQueue = <<>>
    <2>1. <<>> \o <<>> = <<>>
      BY <1>2, ConcatEmptySeq
    <2>2. QED
      BY <2>1, EmptyRing, Queues DEF Init
  <1>4. StateOK
    <2>1. tx \in RingType /\ rx \in RingType /\ taken \in [tx : Nat, rx : Nat]
      BY EmptyRing DEF Init
    <2>2. hwTx \in Seq(Char) /\ Len(hwTx) <= Depth /\ hwRx \in Seq(Char) /\ Len(hwRx) <= Depth
      BY <1>2, Sizes DEF Init
    <2>3. /\ host_inactive \in 0..(INT_MAX - 2) /\ timeout \in 2..(INT_MAX - 1)
          /\ wnext \in 1..(MaxTx + 1) /\ rnext \in 1..(MaxRx + 1)
      BY <1>1, Sizes DEF Init
    <2>4. QED
      BY <2>1, <2>2, <2>3 DEF Init, StateOK
  <1>5. CallOK /\ IsrOK
    BY DEF Init, CallOK, IsrOK, NoCall, NoIsr
  <1>6. Wakeup /\ DownEmpty
    BY EmptyRing DEF Init, Wakeup, DownEmpty
  <1>7. Tx!Init /\ Rx!Init
    BY <1>3 DEF Init, Tx!Init, Rx!Init
  <1>8. QED
    BY <1>4, <1>5, <1>6, <1>7 DEF IInv

(* Every step keeps the invariant and is a step of both channels, or one    *)
(* that they do not see.                                                    *)
LEMMA EveryStep ==
    ASSUME IInv, [Next]_vars
    PROVE  IInv' /\ TxStep /\ RxStep
  <1>1. ASSUME StateOK', CallOK', IsrOK', Wakeup', UNCHANGED moving
        PROVE  IInv' /\ TxStep /\ RxStep
    <2>1. TxQueue' = TxQueue /\ RxQueue' = RxQueue /\ taken' = taken /\ up' = up /\ DownEmpty'
      BY <1>1, QuietChannels DEF IInv
    <2>2. QED
      BY <1>1, <2>1 DEF IInv, TxStep, RxStep
  <1>2. StateOK /\ CallOK /\ IsrOK /\ Wakeup
    BY DEF IInv
  <1>3. CASE HostChange \/ altera_avalon_jtag_uart_timeout
    BY <1>1, <1>2, <1>3, HostQuiet
  <1>4. CASE IsrEnter \/ IsrControl \/ IsrReadEnd \/ IsrWriteEnd
    BY <1>1, <1>2, <1>4, IsrQuiet
  <1>5. CASE \/ \E n \in 1..MaxCount, nb \in BOOLEAN : Write(n, nb) \/ Read(n, nb)
             \/ \E nb \in BOOLEAN : Close(nb)
    BY <1>1, <1>2, <1>5, BeginQuiet
  <1>6. CASE \E t \in Timeouts : Ioctl(t)
    BY <1>1, <1>2, <1>6, IoctlQuiet
  <1>7. CASE WriteSpace \/ WriteKick \/ WriteWait
    BY <1>1, <1>2, <1>7, WriteQuiet
  <1>8. CASE ReadFilled \/ ReadWait \/ ReadReturn \/ CloseWait
    BY <1>1, <1>2, <1>8, ReadQuiet
  <1>9. CASE UNCHANGED vars
    <2>1. UNCHANGED <<tx, rx, hwTx, hwRx, taken, up, call, wnext, isr, re, we, timeout, rnext, attached,
                      host_inactive>>
      BY <1>9 DEF vars, hw
    <2>2. CallOK' /\ IsrOK'
      BY <1>2, <2>1, CallSame, IsrSame
    <2>3. StateOK' /\ Wakeup'
      BY <1>2, <2>1 DEF StateOK, Wakeup
    <2>4. QED
      BY <1>1, <2>1, <2>2, <2>3 DEF moving
  <1>10. CASE HostTake
    BY <1>10, HostTakeStep
  <1>11. CASE HostSend
    BY <1>11, HostSendStep
  <1>12. CASE IsrRead
    BY <1>12, IsrReadStep
  <1>13. CASE IsrWrite
    BY <1>13, IsrWriteStep
  <1>14. CASE WriteCopy
    BY <1>14, WriteCopyStep
  <1>15. CASE ReadTake
    BY <1>15, ReadTakeStep
  <1>16. CASE Watchdog
    BY <1>16, WatchdogStep
  <1>17. CASE Boot
    BY <1>17, BootStep
  <1>18. QED
    BY <1>3, <1>4, <1>5, <1>6, <1>7, <1>8, <1>9, <1>10, <1>11, <1>12, <1>13, <1>14, <1>15, <1>16, <1>17,
       Zenon DEF Next, Interrupt, Step

(* The invariant holds in every state. *)
LEMMA Inductive == Spec => []IInv
  <1>1. Init => IInv
    BY Start
  <1>2. IInv /\ [Next]_vars => IInv'
    BY EveryStep
  <1>3. QED
    BY <1>1, <1>2, PTL DEF Spec

(* Indices, FIFOs and counters stay in their ranges for buffers of any size; *)
(* the interrupt routine never overfills the hardware's FIFO.                *)
THEOREM TypeCorrect == Spec => []TypeOK
  <1>1. IInv => TypeOK
    <2> SUFFICES ASSUME IInv
                 PROVE  TypeOK
      OBVIOUS
    <2>1. \A r \in {tx, rx} : r.in \in Slot /\ r.out \in Slot /\ r.buf \in [Slot -> Char]
      BY DEF IInv, StateOK, RingType
    <2>2. QED
      BY <2>1 DEF IInv, StateOK, IsrOK, TypeOK
  <1>2. QED
    BY <1>1, Inductive, PTL

(* The driver loses no wakeup, although program and interrupt routine share  *)
(* the rings without a lock.                                                 *)
THEOREM NoLostWakeup == Spec => []Wakeup
  <1>1. IInv => Wakeup
    BY DEF IInv
  <1>2. QED
    BY <1>1, Inductive, PTL

(* The driver implements two lossless first-in first-out channels: no        *)
(* character is lost, repeated or overtaken between write and the host, or   *)
(* between the host and read, until the watchdog restarts the system.        *)
THEOREM DriverImplementsChannels == Spec => Lossless
  <1>1. Init => Tx!Init /\ Rx!Init
    BY Start
  <1>2. IInv /\ [Next]_vars => TxStep /\ RxStep
    BY EveryStep
  <1>3. QED
    BY <1>1, <1>2, Inductive, PTL DEF Spec, Lossless, Tx!Spec, Rx!Spec, TxStep, RxStep
=============================================================================
