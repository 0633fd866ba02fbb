-------------------------------- MODULE AltTick --------------------------------
(***************************************************************************)
(* The system clock of the HAL: alt_tick, the alarms it drives, and the    *)
(* tick counter that rolls over.  LED_TIMER is the system clock until      *)
(* timer_initial gives its interrupt to the firmware's own routine.        *)
(***************************************************************************)
EXTENDS Integers

CONSTANTS
    Width,      \* bits of _alt_nticks
    Alarms,     \* alarms a program starts; the UART driver has one
    Periods     \* ticks asked for, by alt_alarm_start or by a callback

Wrap == 2^Width

(* That Wrap is a positive number is said for the provers, which have no    *)
(* theory of powers.                                                        *)
ASSUME AltTickAssumption ==
    Width \in Nat /\ Wrap \in Nat \ {0} /\ Periods \subseteq 1..(Wrap - 2)

VARIABLES
    _alt_nticks,
    alarm,      \* [on, time, rollover] of each alarm
    handler,    \* the interrupt routine of LED_TIMER
    left        \* ticks until each alarm is due (history)

tickVars == <<_alt_nticks, alarm, handler, left>>

Off == [on |-> FALSE, time |-> 0, rollover |-> FALSE]

TickInit ==
    /\ _alt_nticks = 0 /\ alarm = [a \in Alarms |-> Off] /\ left = [a \in Alarms |-> 0]
    /\ handler = "alt_avalon_timer_sc_irq"

(* The time and the flag that tells a time after the roll-over. *)
AtNoRollover(t, from) == [on |-> TRUE, time |-> t % Wrap, rollover |-> FALSE]
At(t, from) == [on |-> TRUE, time |-> t % Wrap, rollover |-> t % Wrap < from]

alt_alarm_start(a, n) ==
    /\ ~alarm[a].on
    /\ alarm' = [alarm EXCEPT ![a] = At(n + _alt_nticks + 1, _alt_nticks)]
    /\ left' = [left EXCEPT ![a] = n + 1]
    /\ UNCHANGED <<_alt_nticks, handler>>

alt_alarm_stop(a) ==
    /\ alarm[a].on
    /\ alarm' = [alarm EXCEPT ![a] = Off] /\ left' = [left EXCEPT ![a] = 0]
    /\ UNCHANGED <<_alt_nticks, handler>>

(* At the next tick. *)
now == (_alt_nticks + 1) % Wrap
Rolled(a) == alarm[a].rollover /\ now # 0
Due(a) == alarm[a].on /\ alarm[a].time <= now /\ ~Rolled(a)

(* Every due alarm is called and says when it wants to be called again.     *)
alt_tick ==
    /\ _alt_nticks' = now
    /\ \E next_callback \in [Alarms -> Periods \cup {0}] :
        /\ alarm' = [a \in Alarms |->
              IF ~Due(a) THEN [alarm[a] EXCEPT !.rollover = Rolled(a)]
              ELSE IF next_callback[a] = 0 THEN Off
              ELSE At(alarm[a].time + next_callback[a], now)]
        /\ left' = [a \in Alarms |-> IF Due(a) THEN next_callback[a]
                                     ELSE IF left[a] > 0 THEN left[a] - 1 ELSE 0]

(* The interrupt of LED_TIMER, with alt_tick under alt_irq_disable_all. *)
alt_avalon_timer_sc_irq ==
    /\ handler = "alt_avalon_timer_sc_irq" /\ alt_tick
    /\ UNCHANGED handler

(* There is one routine for each interrupt: the last one registered. *)
alt_iic_isr_register(isr) == handler' = isr

(* From here on alt_tick is not called any more. *)
timer_initial ==
    /\ alt_iic_isr_register("timer_isr_interrupt") /\ UNCHANGED <<_alt_nticks, alarm, left>>

TickNext ==
    \/ alt_avalon_timer_sc_irq \/ timer_initial
    \/ \E a \in Alarms : alt_alarm_stop(a) \/ \E n \in Periods : alt_alarm_start(a, n)

-----------------------------------------------------------------------------
(* An alarm is called at the tick it was set for, neither early nor a       *)
(* roll-over late, wherever the counter rolls over in between.              *)
OnTime == \A a \in Alarms : alarm[a].on => (Due(a) <=> left[a] = 1)

=============================================================================
