------------------------------ MODULE FlashStore ------------------------------
(***************************************************************************)
(* What the remote update promises of the flash, byte by byte: a request   *)
(* changes the bytes it names and no others, each once and to what the     *)
(* request asks for, and it is complete before the next one begins, unless *)
(* the sensor restarts in the middle.                                      *)
(*                                                                         *)
(* A byte of the flash is the set of the bytes programmed into it since it *)
(* was erased: {} is 0xff, and programming only clears bits.               *)
(***************************************************************************)
EXTENDS Integers

CONSTANTS Data,     \* the packets
          Starts,   \* where they go
          Counts,   \* how many blocks are erased
          Packet,   \* bytes in a packet
          Block     \* bytes the firmware takes a block to have

VARIABLES mem,      \* the bytes that are watched, by address
          todo,     \* the bytes still to change and what they become
          size, sector,     \* of the chip
          running   \* the firmware runs

svars == <<mem, todo, size, sector, running>>

Watched == DOMAIN mem

Init == todo = <<>> /\ ~running

ToDo(target) == todo' = [c \in {b \in DOMAIN target : target[b] # mem[b]} |-> target[c]]

(* A packet at a, running on from address 0 past the end of the chip. *)
Write(a, d) ==
    LET at(c) == (c - a) % size
    IN  ToDo([c \in {b \in Watched : b < size /\ at(b) < Packet} |-> mem[c] \cup {<<d, at(c)>>}])

(* Blocks 0..n-1, in whole sectors of the chip. *)
Erase(n) ==
    ToDo([c \in {b \in Watched : b < size /\ (b \div sector) * sector < n * Block} |-> {}])

Begin ==
    /\ running /\ todo = <<>>
    /\ (\E a \in Starts, d \in Data : Write(a, d)) \/ (\E n \in Counts : Erase(n))
    /\ UNCHANGED <<mem, size, sector, running>>

Restrict(C) == [c \in C |-> todo[c]]

Apply ==
    LET done == Watched \cap (DOMAIN todo \ DOMAIN todo') IN
    /\ todo' = Restrict(DOMAIN todo \ done)
    /\ mem' = [c \in Watched |-> IF c \in done THEN todo[c] ELSE mem[c]]
    /\ UNCHANGED <<size, sector, running>>

(* A restart loses what is still to do, of a byte being changed possibly.   *)
Interrupt ==
    /\ ~running'
    /\ DOMAIN todo' \subseteq DOMAIN todo /\ todo' = Restrict(DOMAIN todo')
    /\ \A c \in Watched : mem'[c] \in {mem[c]} \cup {todo[b] : b \in DOMAIN todo \cap {c}}
    /\ UNCHANGED <<size, sector>>

Restart == ~running /\ running' /\ todo = <<>> /\ UNCHANGED <<mem, todo, size, sector>>

Next == Begin \/ Apply \/ Interrupt \/ Restart

Spec == Init /\ [][Next]_svars

=============================================================================
