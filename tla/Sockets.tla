-------------------------------- MODULE Sockets --------------------------------
(***************************************************************************)
(* The TCP and UDP service of the sensor: the main loop over the sockets   *)
(* of the W5500 (tim561_run), the reports the loop sends (scans, greeting, *)
(* region), and the driver's send, which busy-waits on the chip.  The chip *)
(* and the clients are the environment: they change a socket's state       *)
(* between any two register accesses of the firmware.                      *)
(*                                                                         *)
(* Data are counted in pieces: a piece is what one call of send hands to   *)
(* the chip, 1460 bytes at most.                                           *)
(***************************************************************************)
EXTENDS Integers, Sequences, FiniteSets

CONSTANTS
    Polled,     \* the TCP sockets, in the order in which the loop polls them
    Reported,   \* those that the reports go to, in order (SOCKET0, SOCKET1)
    Memory,     \* bytes of transmit memory of each socket (txsize * 1024)
    Gap,        \* passes between two scans: 66 ms against 5 ms for a pass
    MaxFaulty   \* bound: clients that stall or vanish at the same time

Tcp == {Polled[i] : i \in 1..Len(Polled)}
Piece == 1460

ASSUME SocketsAssumption ==
    /\ Polled \in Seq(Nat) /\ Reported \in Seq(Tcp) /\ Polled # <<>>
    /\ \A i, j \in 1..Len(Polled) : Polled[i] = Polled[j] => i = j
    /\ 0 \in Tcp /\ Polled[1] = 0
    /\ Memory \in [Tcp -> Nat] /\ \A s \in Tcp : Memory[s] >= Piece
    /\ Gap \in Nat /\ MaxFaulty \in Nat

VARIABLES
    sr,         \* Sn_SR of the TCP sockets
    udp,        \* SOCKET7 is open
    peer,       \* the client of a socket: none, ok, stall (window closed), gone
    rx, tx,     \* a request waits; pieces in the transmit memory
    datagram,   \* a broadcast waits in SOCKET7
    ok,         \* SEND_OK of the piece being sent
    pc, n,      \* where the loop is; which socket it polls
    job, wait,  \* the sockets still to send to; where send is
    isTcpEstablished, isPowerUp, change_region_flag,
    served,     \* connections the loop has seen established (history)
    calm        \* passes until the next scan, switch change or broadcast

chip == <<sr, udp, peer, rx, tx, datagram, ok>>
flags == <<isTcpEstablished, isPowerUp, change_region_flag>>
vars == <<chip, pc, n, job, wait, flags, served, calm>>

Status == {"CLOSED", "INIT", "LISTEN", "SYNRECV", "ESTABLISHED", "CLOSE_WAIT"}
Connected == {"ESTABLISHED", "CLOSE_WAIT"}
AllClosed == [s \in Tcp |-> "CLOSED"]
NoPeers == [s \in Tcp |-> "none"]

(* Every socket forgotten: Reset_W5500, set_default, set_network. *)
ResetW5500 ==
    /\ sr' = AllClosed /\ udp' = FALSE /\ peer' = NoPeers /\ served' = {}
    /\ rx' = [s \in Tcp |-> FALSE] /\ tx' = [s \in Tcp |-> 0] /\ datagram' = FALSE

Init ==
    /\ sr = AllClosed /\ udp = FALSE /\ peer = NoPeers /\ served = {}
    /\ rx = [s \in Tcp |-> FALSE] /\ tx = [s \in Tcp |-> 0] /\ datagram = FALSE
    /\ ok = FALSE /\ pc = "poll" /\ n = 1 /\ job = <<>> /\ wait = "free"
    /\ isTcpEstablished = FALSE /\ isPowerUp = TRUE /\ change_region_flag = TRUE
    /\ calm = 0

-----------------------------------------------------------------------------
(* The chip and the clients. *)
SetPeer(s, p) ==
    /\ peer' = [peer EXCEPT ![s] = p]
    /\ UNCHANGED <<sr, udp, rx, tx, datagram, ok, pc, n, job, wait, flags, served, calm>>

SetStatus(s, st) ==
    /\ sr' = [sr EXCEPT ![s] = st]
    /\ UNCHANGED <<udp, peer, rx, tx, datagram, ok, pc, n, job, wait, flags, served, calm>>

(* What a socket is after CLOSE, an abort or a retransmission timeout. *)
Closed(s, st) ==
    /\ sr' = [sr EXCEPT ![s] = st]
    /\ peer' = [peer EXCEPT ![s] = "none"] /\ served' = served \ {s}
    /\ rx' = [rx EXCEPT ![s] = FALSE] /\ tx' = [tx EXCEPT ![s] = 0]

Syn(s) ==
    /\ sr[s] = "LISTEN"
    /\ sr' = [sr EXCEPT ![s] = "SYNRECV"] /\ peer' = [peer EXCEPT ![s] = "ok"]
    /\ UNCHANGED <<udp, rx, tx, datagram, ok, pc, n, job, wait, flags, served, calm>>

Establish(s) == sr[s] = "SYNRECV" /\ peer[s] = "ok" /\ SetStatus(s, "ESTABLISHED")
Fin(s) == sr[s] = "ESTABLISHED" /\ peer[s] = "ok" /\ SetStatus(s, "CLOSE_WAIT")
Spare(s) == Cardinality({t \in Tcp \ {s} : peer[t] \in {"stall", "gone"}}) < MaxFaulty
Stall(s) == sr[s] \in Connected /\ peer[s] = "ok" /\ Spare(s) /\ SetPeer(s, "stall")
Resume(s) == peer[s] = "stall" /\ SetPeer(s, "ok")
Vanish(s) == peer[s] \in {"ok", "stall"} /\ Spare(s) /\ SetPeer(s, "gone")

Request(s) ==
    /\ sr[s] = "ESTABLISHED" /\ peer[s] = "ok" /\ ~rx[s]
    /\ rx' = [rx EXCEPT ![s] = TRUE]
    /\ UNCHANGED <<sr, udp, peer, tx, datagram, ok, pc, n, job, wait, flags, served, calm>>

Broadcast ==
    /\ udp /\ ~datagram /\ calm = 0 /\ datagram' = TRUE
    /\ UNCHANGED <<sr, udp, peer, rx, tx, ok, pc, n, job, wait, flags, served, calm>>

Acked(s) ==
    /\ tx[s] > 0 /\ peer[s] = "ok"
    /\ tx' = [tx EXCEPT ![s] = @ - 1]
    /\ UNCHANGED <<sr, udp, peer, rx, datagram, ok, pc, n, job, wait, flags, served, calm>>

(* A client resets its connection; the chip gives up a client that does not *)
(* answer (RTR 0.5 s, RCR 3).  Without keepalive it must have data to send. *)
Abort(s) ==
    /\ sr[s] \in Connected /\ peer[s] \in {"ok", "stall"} /\ Closed(s, "CLOSED")
    /\ UNCHANGED <<udp, datagram, ok, pc, n, job, wait, flags, calm>>

Timeout(s) ==
    /\ peer[s] = "gone" /\ (tx[s] > 0 \/ sr[s] = "SYNRECV") /\ Closed(s, "CLOSED")
    /\ UNCHANGED <<udp, datagram, ok, pc, n, job, wait, flags, calm>>

(* The SEND command completes.  One without data may or may not complete. *)
SendOk ==
    /\ job # <<>> /\ wait \in {"ok", "empty"} /\ ~ok
    /\ sr[Head(job)] \in Connected /\ peer[Head(job)] # "stall"
    /\ ok' = TRUE
    /\ UNCHANGED <<sr, udp, peer, rx, tx, datagram, pc, n, job, wait, flags, served, calm>>

-----------------------------------------------------------------------------
(* send(): the do-while on the free memory, SEND, the wait for SEND_OK.  A  *)
(* socket that is not connected gets an empty SEND and is closed.           *)
getSn_TX_FSR(s) == Memory[s] - tx[s] * Piece

(* The piece is copied behind what the transmit memory already holds. *)
send_data_processing(s) == tx' = [tx EXCEPT ![s] = @ + 1]

(* Faulty variants, used to show that the properties can fail. *)
SendLostWithMemoryFull ==
    /\ job # <<>> /\ ~ok
    /\ \/ wait \in {"ok", "empty"} /\ sr[Head(job)] \notin Connected
       \/ wait = "free" /\ getSn_TX_FSR(Head(job)) < Piece
    /\ wait' = "close"
    /\ UNCHANGED <<chip, pc, n, job, flags, served, calm>>

PollCloseWaitIgnored(s) ==
    /\ sr[s] = "CLOSE_WAIT"
    /\ UNCHANGED <<sr, udp, peer, rx, tx, datagram, flags, job, served, calm>>

ScanToFirst ==
    /\ job = <<>> /\ pc = "frame" /\ calm = 0
    /\ job' = <<Reported[1], Reported[1]>> /\ calm' = Gap + 1 /\ pc' = "hello"
    /\ UNCHANGED <<chip, n, wait, flags, served>>

GreetWithRegion ==
    /\ job = <<>> /\ pc = "hello" /\ pc' = "region"
    /\ IF isTcpEstablished /\ isPowerUp /\ change_region_flag
       THEN isPowerUp' = FALSE /\ job' = Reported /\ calm' = Gap + 1
       ELSE UNCHANGED <<isPowerUp, job, calm>>
    /\ UNCHANGED <<chip, n, wait, isTcpEstablished, change_region_flag, served>>

WatchdogNever == FALSE /\ UNCHANGED vars

SendPiece ==
    /\ job # <<>> /\ wait = "free"
    /\ LET s == Head(job)
       IN  IF sr[s] \in Connected
           THEN /\ getSn_TX_FSR(s) >= Piece
                /\ send_data_processing(s) /\ wait' = "ok"
           ELSE wait' = "empty" /\ UNCHANGED tx
    /\ UNCHANGED <<sr, udp, peer, rx, datagram, ok, pc, n, job, flags, served, calm>>

SendDone ==
    /\ job # <<>> /\ wait \in {"ok", "empty"} /\ ok
    /\ ok' = FALSE /\ wait' = "free" /\ job' = Tail(job)
    /\ UNCHANGED <<sr, udp, peer, rx, tx, datagram, pc, n, flags, served, calm>>

SendLost ==
    /\ job # <<>> /\ wait \in {"ok", "empty"} /\ ~ok
    /\ sr[Head(job)] \notin Connected
    /\ wait' = "close"
    /\ UNCHANGED <<chip, pc, n, job, flags, served, calm>>

SendClose ==
    /\ job # <<>> /\ wait = "close"
    /\ Closed(Head(job), "CLOSED") /\ ok' = FALSE
    /\ wait' = "free" /\ job' = Tail(job)
    /\ UNCHANGED <<udp, datagram, pc, n, flags, calm>>

-----------------------------------------------------------------------------
(* tim561_run: one socket after the other. *)
PollInit(s) ==
    /\ sr[s] = "INIT"
    /\ sr' = [sr EXCEPT ![s] = "LISTEN"]
    /\ UNCHANGED <<udp, peer, rx, tx, datagram, flags, job, served, calm>>

(* All that has come in is read at once. *)
recv(s) == rx' = [rx EXCEPT ![s] = FALSE]

(* recv, pc2dev_parse and its reply; only SOCKET0 sets the flag. *)
PollEstablished(s) ==
    /\ sr[s] = "ESTABLISHED"
    /\ served' = served \cup {s}
    /\ recv(s)
    /\ job' = IF rx[s] THEN <<s>> ELSE <<>>
    /\ isTcpEstablished' = (s = 0 \/ isTcpEstablished)
    /\ UNCHANGED <<sr, udp, peer, tx, datagram, isPowerUp, change_region_flag, calm>>

PollCloseWait(s) ==
    /\ sr[s] = "CLOSE_WAIT" /\ Closed(s, "CLOSED")
    /\ UNCHANGED <<udp, datagram, flags, job, calm>>

(* socket(): what may still be open is closed, then OPEN. *)
socket(s) == Closed(s, "INIT") /\ UNCHANGED <<udp, datagram>>

(* Open the socket again.  If SOCKET0 has had a client, the chip is reset. *)
PollClosed(s) ==
    /\ sr[s] = "CLOSED"
    /\ IF s = 0 /\ isTcpEstablished
       THEN ResetW5500
       ELSE socket(s)
    /\ isTcpEstablished' = (isTcpEstablished /\ s \notin {0, 1})
    /\ UNCHANGED <<isPowerUp, change_region_flag, job, calm>>

PollIdle(s) ==
    /\ sr[s] \in {"LISTEN", "SYNRECV"}
    /\ UNCHANGED <<sr, udp, peer, rx, tx, datagram, flags, job, served, calm>>

Poll ==
    /\ job = <<>> /\ pc = "poll"
    /\ LET s == Polled[n]
       IN  \/ PollInit(s) \/ PollEstablished(s) \/ PollCloseWait(s)
           \/ PollClosed(s) \/ PollIdle(s)
    /\ IF n = Len(Polled) THEN n' = 1 /\ pc' = "udp" ELSE n' = n + 1 /\ pc' = pc
    /\ UNCHANGED <<ok, wait>>

recvfrom == datagram' = (datagram /\ ~udp)

(* The answer is a broadcast that nobody acknowledges: the wait in sendto   *)
(* ends with SEND_OK or with TIMEOUT, and leaves nothing behind.            *)
sendto == UNCHANGED <<tx, ok>>

(* SOCKET7: a broadcast is answered and has the region reported again. *)
PollUdp ==
    /\ job = <<>> /\ pc = "udp" /\ pc' = "frame"
    /\ udp' = TRUE /\ recvfrom /\ sendto
    /\ change_region_flag' = (change_region_flag \/ (udp /\ datagram))
    /\ isPowerUp' = (isPowerUp \/ (udp /\ datagram))
    /\ UNCHANGED <<sr, peer, rx, n, job, wait, isTcpEstablished, served, calm>>

(* The rest of a pass.  A scan goes out in pieces, then the alarm report:   *)
(* Reported twice stands for all of them.                                   *)
Scan ==
    /\ job = <<>> /\ pc = "frame" /\ calm = 0
    /\ job' = Reported \o Reported /\ calm' = Gap + 1 /\ pc' = "hello"
    /\ UNCHANGED <<chip, n, wait, flags, served>>

NoScan ==
    /\ job = <<>> /\ pc = "frame" /\ pc' = "hello"
    /\ UNCHANGED <<chip, n, job, wait, flags, served, calm>>

Greet ==
    /\ job = <<>> /\ pc = "hello" /\ pc' = "region"
    /\ IF isTcpEstablished /\ isPowerUp
       THEN isPowerUp' = FALSE /\ job' = Reported /\ calm' = Gap + 1
       ELSE UNCHANGED <<isPowerUp, job, calm>>
    /\ UNCHANGED <<chip, n, wait, isTcpEstablished, change_region_flag, served>>

(* The switch is read, a changed region is loaded and reported. *)
ReportRegion ==
    /\ job = <<>> /\ pc = "region" /\ pc' = "feed"
    /\ \/ (change_region_flag \/ calm = 0) /\ job' = Reported /\ calm' = Gap + 1
       \/ ~change_region_flag /\ UNCHANGED <<job, calm>>
    /\ change_region_flag' = FALSE
    /\ UNCHANGED <<chip, n, wait, isTcpEstablished, isPowerUp, served>>

Feed ==
    /\ job = <<>> /\ pc = "feed" /\ pc' = "poll"
    /\ calm' = IF calm > 0 THEN calm - 1 ELSE 0
    /\ UNCHANGED <<chip, n, job, wait, flags, served>>

(* The watchdog has not been fed for 5 s: send has been waiting, for memory *)
(* or for SEND_OK, and the whole firmware starts again.                     *)
Waiting ==
    /\ job # <<>> /\ sr[Head(job)] \in Connected
    /\ \/ wait = "free" /\ getSn_TX_FSR(Head(job)) < Piece
       \/ wait \in {"ok", "empty"} /\ ~ok

Watchdog ==
    /\ Waiting
    /\ ResetW5500 /\ ok' = FALSE
    /\ pc' = "poll" /\ n' = 1 /\ job' = <<>> /\ wait' = "free"
    /\ isTcpEstablished' = FALSE /\ isPowerUp' = TRUE /\ change_region_flag' = TRUE
    /\ UNCHANGED calm

Loop ==
    \/ SendPiece \/ SendDone \/ SendLost \/ SendClose
    \/ Poll \/ PollUdp \/ NoScan \/ Scan \/ Greet \/ ReportRegion \/ Feed

Client(s) ==
    \/ Syn(s) \/ Establish(s) \/ Fin(s) \/ Stall(s) \/ Resume(s) \/ Vanish(s)
    \/ Request(s) \/ Acked(s) \/ Abort(s) \/ Timeout(s)

Next == Loop \/ SendOk \/ Watchdog \/ Broadcast \/ \E s \in Tcp : Client(s)

(* The loop always runs on; the watchdog and the chip's retransmission      *)
(* timer run out; scans keep coming while uploading is on.                  *)
Spec == Init /\ [][Next]_vars
           /\ WF_vars(Loop) /\ WF_vars(Watchdog) /\ SF_vars(Scan)
           /\ \A s \in Tcp : WF_vars(Timeout(s))

-----------------------------------------------------------------------------
(* Every variable is of its type; the transmit memory never overflows. *)
TypeOK ==
    /\ sr \in [Tcp -> Status] /\ udp \in BOOLEAN
    /\ peer \in [Tcp -> {"none", "ok", "stall", "gone"}]
    /\ rx \in [Tcp -> BOOLEAN] /\ tx \in [Tcp -> Nat] /\ datagram \in BOOLEAN
    /\ \A s \in Tcp : tx[s] * Piece <= Memory[s]
    /\ ok \in BOOLEAN /\ pc \in {"poll", "udp", "frame", "hello", "region", "feed"}
    /\ n \in 1..Len(Polled) /\ job \in Seq(Tcp)
    /\ wait \in {"free", "ok", "empty", "close"}
    /\ flags \in BOOLEAN \X BOOLEAN \X BOOLEAN
    /\ served \subseteq Tcp /\ calm \in 0..(Gap + 1)

(* A connection the loop has served and whose client is alive is never      *)
(* closed by itself, by whatever send closes in passing: it ends with its   *)
(* client, or with every other one when the chip is reset.                  *)
NeverAlone ==
    [][\A s \in served :
          peer[s] = "ok" /\ sr[s] = "ESTABLISHED" /\ sr'[s] \notin Connected
          => Abort(s) \/ (sr' = AllClosed /\ ~isTcpEstablished')]_vars

(* The loop comes round for ever: no client can hold it in send, because    *)
(* the chip times out or the watchdog does.                                 *)
LoopAlive == []<>(pc = "feed")

(* Every socket becomes available again and again, although every report    *)
(* closes the sockets 0 and 1 while they listen.                            *)
Available == \A s \in Tcp : []<>(sr[s] \in {"LISTEN", "SYNRECV", "ESTABLISHED"})

(* A client of the sockets 0 and 1 that has vanished without a word gives   *)
(* its socket back: the scans sent to it make the chip notice.              *)
VanishedFreed ==
    \A i \in 1..Len(Reported) : peer[Reported[i]] = "gone" ~> peer[Reported[i]] # "gone"

(* A client that stays on SOCKET0 is greeted after a start or a broadcast,  *)
(* although every reopening of SOCKET1 takes the flag down again.           *)
Greeted == <>[](sr[0] = "ESTABLISHED") => []<>~isPowerUp
=============================================================================
