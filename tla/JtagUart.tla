------------------------------- MODULE JtagUart -------------------------------
(***************************************************************************)
(* The console: the interrupt driven JTAG UART driver, its write, read,    *)
(* close and ioctl against its interrupt routine and against the host,     *)
(* which may be absent, and the one second alarm that notices that it is.  *)
(* The main program and the interrupt routine share the two ring buffers   *)
(* without a lock and irq_enable under alt_irq_disable_all.                *)
(***************************************************************************)
EXTENDS Integers, Sequences

CONSTANTS
    BUF_LEN,    \* ALTERA_AVALON_JTAG_UART_BUF_LEN
    Depth,      \* characters in each FIFO of the hardware
    MaxTx, MaxRx,   \* bounds: characters the program and the host send after a restart
    MaxCount,   \* bound: characters in one call
    Timeouts,   \* arguments of TIOCSTIMEOUT
    INT_MAX,    \* of the seconds counted
    DEFAULT_TIMEOUT

ASSUME JtagUartAssumption ==
    /\ BUF_LEN \in Nat \ {0, 1} /\ Depth \in Nat \ {0} /\ MaxTx \in Nat \ {0} /\ MaxRx \in Nat \ {0}
    /\ MaxCount \in Nat \ {0} /\ Timeouts \subseteq Nat /\ INT_MAX \in Nat
    /\ DEFAULT_TIMEOUT \in 2..(INT_MAX - 1)

VARIABLES
    tx, rx,         \* [buf, in, out] of the two directions
    hwTx, hwRx,     \* the FIFOs of the hardware
    re, we,         \* irq_enable
    host_inactive, timeout,
    isr,            \* the interrupt routine
    call,           \* the call of the main program
    attached,       \* a host reads, and accesses the UART every second (the AC bit)
    wnext, rnext,   \* the next characters of the program and of the host
    taken,          \* how many the host and the program have received
    up

hw == <<hwTx, hwRx, attached, rnext>>
vars == <<tx, rx, hw, re, we, host_inactive, timeout, isr, call, wnext, taken, up>>

(* Characters are numbered in the order in which they are sent. *)
Char == 1..(IF MaxTx > MaxRx THEN MaxTx ELSE MaxRx)
Slot == 0..(BUF_LEN - 1)
Empty == [buf |-> [i \in Slot |-> 1], in |-> 0, out |-> 0]
NoCall == [at |-> "none"]
NoIsr == [at |-> "off"]

(* altera_avalon_jtag_uart_init: read interrupts on, the alarm running. *)
Init ==
    /\ tx = Empty /\ rx = Empty /\ hwTx = <<>> /\ hwRx = <<>> /\ re = TRUE /\ we = FALSE
    /\ host_inactive = 0 /\ timeout = DEFAULT_TIMEOUT
    /\ isr = NoIsr /\ call = NoCall /\ attached = FALSE /\ wnext = 1 /\ rnext = 1
    /\ taken = [tx |-> 0, rx |-> 0] /\ up = TRUE

-----------------------------------------------------------------------------
(* The host. *)
HostTake ==
    /\ up /\ attached /\ hwTx # <<>> /\ hwTx' = Tail(hwTx) /\ taken' = [taken EXCEPT !.tx = @ + 1]
    /\ UNCHANGED <<tx, rx, hwRx, re, we, host_inactive, timeout, isr, call, attached, wnext, rnext, up>>

HostSend ==
    /\ up /\ attached /\ rnext <= MaxRx /\ Len(hwRx) < Depth /\ hwRx' = Append(hwRx, rnext)
    /\ rnext' = rnext + 1
    /\ UNCHANGED <<tx, rx, hwTx, re, we, host_inactive, timeout, isr, call, attached, wnext, taken, up>>

HostChange ==
    /\ up /\ attached' = ~attached
    /\ UNCHANGED <<tx, rx, hwTx, hwRx, rnext, re, we, host_inactive, timeout, isr, call, wnext, taken, up>>

-----------------------------------------------------------------------------
(* The interrupt routine.  Its main program is stopped; the host is not.    *)
ri == re /\ hwRx # <<>>
wi == we /\ Len(hwTx) < Depth
Isr(at) == up /\ isr.at = at
UnchangedByIsr == UNCHANGED <<attached, rnext, host_inactive, timeout, call, wnext, taken, up>>

IsrEnterRead ==
    /\ Isr("off") /\ ri
    /\ isr' = [at |-> "control"] /\ UnchangedByIsr
    /\ UNCHANGED <<tx, rx, hwTx, hwRx, re, we>>

IsrEnter ==
    /\ Isr("off") /\ (ri \/ wi)
    /\ isr' = [at |-> "control"] /\ UnchangedByIsr
    /\ UNCHANGED <<tx, rx, hwTx, hwRx, re, we>>

(* One read of the control register decides what this turn does. *)
IsrControl ==
    /\ Isr("control")
    /\ isr' = IF ~ri /\ ~wi THEN NoIsr
              ELSE [at |-> IF ri THEN "rx" ELSE "tx", wi |-> wi,
                    space |-> IF wi THEN Depth - Len(hwTx) ELSE 0, avail |-> ri]
    /\ UnchangedByIsr /\ UNCHANGED <<tx, rx, hwTx, hwRx, re, we>>

(* A character is taken only when the ring has room for it. *)
RoomFor(r) == (r.in + 1) % BUF_LEN # r.out
Put(r, c) == [r EXCEPT !.buf[r.in] = c, !.in = (@ + 1) % BUF_LEN]

IsrRead ==
    /\ Isr("rx") /\ RoomFor(rx) /\ hwRx # <<>>
    /\ rx' = Put(rx, Head(hwRx)) /\ hwRx' = Tail(hwRx)
    /\ isr' = [isr EXCEPT !.avail = Tail(hwRx) # <<>>]
    /\ UnchangedByIsr /\ UNCHANGED <<tx, hwTx, re, we>>

(* With characters left the ring is full: no more read interrupts. *)
IsrReadEnd ==
    LET full == ~RoomFor(rx) IN
    /\ Isr("rx") /\ (full \/ hwRx = <<>>)
    /\ re' = (re /\ ~(full /\ isr.avail))
    /\ isr' = IF isr.wi THEN [isr EXCEPT !.at = "tx", !.avail = FALSE] ELSE [at |-> "control"]
    /\ UnchangedByIsr /\ UNCHANGED <<tx, rx, hwTx, hwRx, we>>

IsrWrite ==
    /\ Isr("tx") /\ isr.space > 0 /\ tx.in # tx.out
    /\ hwTx' = Append(hwTx, tx.buf[tx.out])
    /\ tx' = [tx EXCEPT !.out = (@ + 1) % BUF_LEN]
    /\ isr' = [isr EXCEPT !.space = @ - 1]
    /\ UnchangedByIsr /\ UNCHANGED <<rx, hwRx, re, we>>

(* With space left the ring is empty: no more write interrupts. *)
IsrWriteEnd ==
    /\ Isr("tx") /\ (isr.space = 0 \/ tx.in = tx.out)
    /\ we' = (we /\ isr.space = 0) /\ isr' = [at |-> "control"]
    /\ UnchangedByIsr /\ UNCHANGED <<tx, rx, hwTx, hwRx, re>>

Interrupt == IsrEnter \/ IsrControl \/ IsrRead \/ IsrReadEnd \/ IsrWrite \/ IsrWriteEnd

(* The alarm's callback, every second as long as alt_tick runs: after       *)
(* timer_initial has taken the clock's interrupt it never comes again.      *)
altera_avalon_jtag_uart_timeout ==
    /\ up /\ isr.at = "off"
    /\ host_inactive' = IF attached THEN 0
                        ELSE IF host_inactive < INT_MAX - 2 THEN host_inactive + 1 ELSE host_inactive
    /\ UNCHANGED <<tx, rx, hwTx, hwRx, attached, rnext, re, we, timeout, isr, call, wnext, taken, up>>

-----------------------------------------------------------------------------
(* The main program. *)
Main(at) == up /\ isr.at = "off" /\ call.at = at
Waited == host_inactive >= timeout
UnchangedByMain ==
    UNCHANGED <<hwTx, hwRx, attached, rnext, host_inactive, isr, up>>

Begin(c) == Main("none") /\ call' = c /\ UnchangedByMain /\ UNCHANGED <<tx, rx, re, we, timeout, wnext, taken>>
Return == call' = NoCall
Goto(at) == call' = [call EXCEPT !.at = at]

Write(n, nb) ==
    /\ wnext + n - 1 <= MaxTx
    /\ Begin([at |-> "copy", count |-> n, nonblock |-> nb, out |-> 0, n |-> 0])
Read(n, nb) == Begin([at |-> "fetch", space |-> n, got |-> 0, nonblock |-> nb, in |-> 0, n |-> 0])
Close(nb) == Begin([at |-> "drain", nonblock |-> nb])

FitWhole(in, out) == IF in < out THEN out - in ELSE BUF_LEN - in

(* The free space that can be filled in one piece.  The interrupt routine   *)
(* moves tx_out meanwhile, so out is read once.                             *)
Fit(in, out) ==
    IF in < out THEN out - 1 - in
    ELSE IF out > 0 THEN BUF_LEN - in ELSE BUF_LEN - 1 - in

Least(a, b) == IF a < b THEN a ELSE b

WriteSpace ==
    LET n == Fit(tx.in, tx.out) IN
    /\ Main("copy") /\ UnchangedByMain /\ UNCHANGED <<tx, rx, re, we, timeout, wnext, taken>>
    /\ IF call.count = 0 \/ n = 0
         THEN call' = [call EXCEPT !.at = "kick", !.out = IF call.count = 0 THEN 0 ELSE tx.out]
         ELSE call' = [call EXCEPT !.at = "memcpy", !.n = Least(n, call.count)]

WriteCopy ==
    /\ Main("memcpy")
    /\ tx' = [tx EXCEPT !.in = (@ + call.n) % BUF_LEN,
                        !.buf = [i \in Slot |-> IF i \in tx.in..(tx.in + call.n - 1)
                                                  THEN wnext + i - tx.in ELSE tx.buf[i]]]
    /\ wnext' = wnext + call.n
    /\ call' = [call EXCEPT !.at = "copy", !.count = @ - call.n, !.n = 0]
    /\ UnchangedByMain /\ UNCHANGED <<rx, re, we, timeout, taken>>

(* The transmit interrupt is enabled after every round, data left or not. *)
WriteKickFull ==
    /\ Main("kick") /\ we' = (we \/ call.count > 0)
    /\ IF call.count = 0 \/ call.nonblock THEN Return ELSE Goto("wait")
    /\ UnchangedByMain /\ UNCHANGED <<tx, rx, re, timeout, wnext, taken>>

WriteKick ==
    /\ Main("kick") /\ we' = TRUE
    /\ IF call.count = 0 \/ call.nonblock THEN Return ELSE Goto("wait")
    /\ UnchangedByMain /\ UNCHANGED <<tx, rx, re, timeout, wnext, taken>>

WriteWait ==
    /\ Main("wait") /\ (call.out # tx.out \/ Waited)
    /\ call' = IF host_inactive > 0 THEN NoCall ELSE [call EXCEPT !.at = "copy", !.out = 0]
    /\ UnchangedByMain /\ UNCHANGED <<tx, rx, re, we, timeout, wnext, taken>>

(* What can be read in one piece. *)
Filled(in, out) == IF in >= out THEN in - out ELSE BUF_LEN - out

ReadFilled ==
    LET n == Filled(rx.in, rx.out) IN
    /\ Main("fetch") /\ UnchangedByMain /\ UNCHANGED <<tx, rx, re, we, timeout, wnext, taken>>
    /\ call' = IF call.space = 0 \/ n = 0
                 THEN [call EXCEPT !.at = IF call.got > 0 \/ call.nonblock THEN "reenable" ELSE "await",
                                   !.in = rx.in]
                 ELSE [call EXCEPT !.at = "take", !.n = Least(n, call.space)]

ReadTake ==
    /\ Main("take") /\ rx' = [rx EXCEPT !.out = (@ + call.n) % BUF_LEN]
    /\ call' = [call EXCEPT !.at = "fetch", !.space = @ - call.n, !.got = @ + call.n, !.n = 0]
    /\ taken' = [taken EXCEPT !.rx = @ + call.n]
    /\ UnchangedByMain /\ UNCHANGED <<tx, re, we, timeout, wnext>>

ReadWaitTimeout ==
    /\ Main("await") /\ Waited
    /\ Goto(IF call.in = rx.in THEN "reenable" ELSE "fetch")
    /\ UnchangedByMain /\ UNCHANGED <<tx, rx, re, we, timeout, wnext, taken>>

ReadWait ==
    /\ Main("await") /\ (call.in # rx.in \/ Waited)
    /\ Goto(IF call.in = rx.in THEN "reenable" ELSE "fetch")
    /\ UnchangedByMain /\ UNCHANGED <<tx, rx, re, we, timeout, wnext, taken>>

(* Something was read: there is room, so read interrupts again. *)
ReadReturn ==
    /\ Main("reenable") /\ re' = (re \/ call.got > 0) /\ Return
    /\ UnchangedByMain /\ UNCHANGED <<tx, rx, we, timeout, wnext, taken>>

CloseWait ==
    /\ Main("drain") /\ (tx.in = tx.out \/ Waited \/ call.nonblock)
    /\ Return /\ UnchangedByMain /\ UNCHANGED <<tx, rx, re, we, timeout, wnext, taken>>

(* TIOCSTIMEOUT: less than two seconds means for ever. *)
Ioctl(t) ==
    /\ Main("none") /\ timeout # INT_MAX
    /\ timeout' = IF t >= 2 /\ t < INT_MAX THEN t ELSE INT_MAX - 1
    /\ UnchangedByMain /\ UNCHANGED <<tx, rx, re, we, call, wnext, taken>>

Step ==
    \/ WriteSpace \/ WriteCopy \/ WriteKick \/ WriteWait
    \/ ReadFilled \/ ReadTake \/ ReadWait \/ ReadReturn \/ CloseWait

-----------------------------------------------------------------------------
TxQueue == hwTx \o [i \in 1..((tx.in - tx.out) % BUF_LEN) |-> tx.buf[(tx.out + i - 1) % BUF_LEN]]
RxQueue == [i \in 1..((rx.in - rx.out) % BUF_LEN) |-> rx.buf[(rx.out + i - 1) % BUF_LEN]] \o hwRx

(* Five seconds in a call: nobody takes the output, or nothing comes in.    *)
Stuck ==
    \/ (call.at \in {"wait", "drain"} /\ ~attached)
    \/ (call.at = "await" /\ RxQueue = <<>>)

Watchdog ==
    /\ up /\ Stuck
    /\ up' = FALSE /\ tx' = Empty /\ rx' = Empty /\ hwTx' = <<>> /\ hwRx' = <<>>
    /\ re' = FALSE /\ we' = FALSE /\ isr' = NoIsr /\ call' = NoCall
    /\ host_inactive' = 0 /\ timeout' = DEFAULT_TIMEOUT /\ wnext' = 1 /\ rnext' = 1
    /\ taken' = [tx |-> 0, rx |-> 0]
    /\ UNCHANGED attached

Boot ==
    /\ ~up /\ up' = TRUE /\ re' = TRUE
    /\ UNCHANGED <<tx, rx, hw, we, host_inactive, timeout, isr, call, wnext, taken>>

Next ==
    \/ HostTake \/ HostSend \/ HostChange
    \/ Interrupt \/ altera_avalon_jtag_uart_timeout
    \/ \E n \in 1..MaxCount, nb \in BOOLEAN : Write(n, nb) \/ Read(n, nb)
    \/ \E nb \in BOOLEAN : Close(nb)
    \/ \E t \in Timeouts : Ioctl(t)
    \/ Step \/ Watchdog \/ Boot

(* Interrupts are taken, the program runs on, an attached host reads, and   *)
(* the watchdog counts.                                                     *)
Fairness ==
    WF_vars(Interrupt \/ Boot) /\ SF_vars(Step) /\ WF_vars(HostTake) /\ SF_vars(Watchdog)

Spec == Init /\ [][Next]_vars /\ Fairness

-----------------------------------------------------------------------------
(* Indices, FIFOs and counters stay in their ranges: host_inactive, which   *)
(* the alarm counts for ever, stops short of the value that means for ever. *)
TypeOK ==
    /\ \A r \in {tx, rx} : r.in \in Slot /\ r.out \in Slot /\ r.buf \in [Slot -> Char]
    /\ Len(hwTx) <= Depth /\ Len(hwRx) <= Depth
    /\ {re, we, attached, up} \subseteq BOOLEAN
    /\ host_inactive \in 0..(INT_MAX - 2) /\ timeout \in 2..(INT_MAX - 1)
    /\ isr.at \in {"off", "control", "rx", "tx"} /\ wnext \in 1..(MaxTx + 1) /\ rnext \in 1..(MaxRx + 1)

(* No lost wakeup.  While the main program is not on its way to enable the  *)
(* transmit interrupt, it is enabled if the ring holds anything; and read   *)
(* interrupts are off only while the ring holds something whose reading     *)
(* will enable them.                                                        *)
Wakeup ==
    up =>
    /\ tx.in # tx.out /\ call.at \notin {"copy", "memcpy", "kick"} => we
    /\ ~re => rx.in # rx.out \/ (call.at \in {"fetch", "reenable"} /\ call.got > 0)

Tx == INSTANCE Channel WITH q <- TxQueue, received <- taken.tx
Rx == INSTANCE Channel WITH q <- RxQueue, received <- taken.rx

(* Both directions are lossless first-in first-out channels, whatever the   *)
(* interleaving of program, interrupt routine and host.                     *)
Lossless == Tx!Spec /\ Rx!Spec

(* A character that write accepted reaches a host that stays. *)
Delivered ==
    <>[]attached => \A c \in Char :
        (TxQueue # <<>> /\ Head(TxQueue) = c) ~> (TxQueue = <<>> \/ Head(TxQueue) # c)

(* Every call ends.  A write ends because the host reads, because the alarm *)
(* notices that it does not, or by the watchdog, but never waits for an     *)
(* interrupt that does not come while the host is there; a read that waits  *)
(* gets a character that has arrived.                                       *)
CallEnds == (call # NoCall) ~> (call = NoCall)

=============================================================================
