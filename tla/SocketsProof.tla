----------------------------- MODULE SocketsProof -----------------------------
(***************************************************************************)
(* For any list of polled and of reported sockets, any transmit memory and *)
(* any number of faulty clients: the state stays of its type (so the       *)
(* transmit memory is never overrun), and no connection that the loop has  *)
(* served is closed alone.                                                 *)
(*                                                                         *)
(* send closes whatever socket it finds unconnected, and it acts on what   *)
(* it read a moment ago.  That it cannot hit a connection that has come up *)
(* in between rests on three facts about the loop: what it has served is   *)
(* still connected on the chip (ServedUp), send waits only with a piece in *)
(* hand (InHand), and between the decision to close and the close nothing  *)
(* is served (Doomed).                                                     *)
(***************************************************************************)
EXTENDS Sockets, SequenceTheorems, TLAPS

ServedUp == \A s \in served : sr[s] \in Connected
InHand == wait # "free" => job # <<>>
Doomed == wait = "close" => Head(job) \notin served
IInv == TypeOK /\ ServedUp /\ InHand /\ Doomed

-----------------------------------------------------------------------------
(* The socket that send works on is one of the sockets; so is the one that  *)
(* the loop polls.                                                          *)
LEMMA HeadTcp ==
    ASSUME TypeOK, job # <<>>
    PROVE  Head(job) \in Tcp /\ Tail(job) \in Seq(Tcp)
  BY HeadTailProperties DEF TypeOK

LEMMA PolledTcp ==
    ASSUME TypeOK
    PROVE  Polled[n] \in Tcp
  BY DEF TypeOK, Tcp

LEMMA ReportedSeq == Reported \in Seq(Tcp) /\ Reported \o Reported \in Seq(Tcp)
  BY SocketsAssumption, ConcatProperties

(* One socket closed or opened again, or all of them: the tables stay typed,*)
(* and what is still served is still connected.                             *)
LEMMA ClosedInv ==
    ASSUME TypeOK, ServedUp, NEW s \in Tcp, NEW st \in Status, Closed(s, st)
    PROVE  /\ sr' \in [Tcp -> Status] /\ served' \subseteq served
           /\ peer' \in [Tcp -> {"none", "ok", "stall", "gone"}]
           /\ rx' \in [Tcp -> BOOLEAN] /\ tx' \in [Tcp -> Nat]
           /\ \A t \in Tcp : tx'[t] * Piece <= Memory[t]
           /\ ServedUp'
           /\ \A t \in Tcp \ {s} : sr'[t] = sr[t]
  <1>1. /\ sr' \in [Tcp -> Status] /\ served' \subseteq served
        /\ peer' \in [Tcp -> {"none", "ok", "stall", "gone"}]
        /\ \A t \in Tcp \ {s} : sr'[t] = sr[t]
    BY DEF TypeOK, Closed, Status
  <1>2. rx' \in [Tcp -> BOOLEAN]
    BY DEF TypeOK, Closed
  <1>3. tx' \in [Tcp -> Nat]
    BY DEF TypeOK, Closed
  <1>4. \A t \in Tcp : tx'[t] * Piece <= Memory[t]
    <2> SUFFICES ASSUME NEW t \in Tcp PROVE tx'[t] * Piece <= Memory[t]
      OBVIOUS
    <2>1. tx'[t] = IF t = s THEN 0 ELSE tx[t]
      BY DEF TypeOK, Closed
    <2>2. tx[t] * Piece <= Memory[t] /\ 0 <= Memory[t]
      BY SocketsAssumption DEF TypeOK, Piece
    <2>3. QED
      BY <2>1, <2>2 DEF Piece
  <1>5. ServedUp'
    BY <1>1 DEF ServedUp, Closed, TypeOK
  <1>6. QED
    BY <1>1, <1>2, <1>3, <1>4, <1>5

LEMMA ResetInv ==
    ASSUME ResetW5500
    PROVE  /\ sr' \in [Tcp -> Status] /\ served' = {} /\ udp' \in BOOLEAN
           /\ peer' \in [Tcp -> {"none", "ok", "stall", "gone"}]
           /\ rx' \in [Tcp -> BOOLEAN] /\ tx' \in [Tcp -> Nat] /\ datagram' \in BOOLEAN
           /\ \A t \in Tcp : tx'[t] * Piece <= Memory[t]
           /\ ServedUp'
  <1>1. /\ sr' \in [Tcp -> Status] /\ served' = {} /\ udp' \in BOOLEAN
        /\ peer' \in [Tcp -> {"none", "ok", "stall", "gone"}]
        /\ rx' \in [Tcp -> BOOLEAN] /\ tx' \in [Tcp -> Nat] /\ datagram' \in BOOLEAN
    BY DEF ResetW5500, AllClosed, NoPeers, Status
  <1>2. \A t \in Tcp : tx'[t] * Piece <= Memory[t]
    BY SocketsAssumption DEF ResetW5500, Piece
  <1>3. ServedUp'
    BY <1>1 DEF ServedUp
  <1>4. QED
    BY <1>1, <1>2, <1>3

LEMMA InitInv ==
    ASSUME Init
    PROVE  IInv
  <1>1. /\ sr \in [Tcp -> Status] /\ udp \in BOOLEAN
        /\ peer \in [Tcp -> {"none", "ok", "stall", "gone"}]
        /\ rx \in [Tcp -> BOOLEAN] /\ tx \in [Tcp -> Nat] /\ datagram \in BOOLEAN
    BY DEF Init, AllClosed, NoPeers, Status
  <1>2. \A s \in Tcp : tx[s] * Piece <= Memory[s]
    BY SocketsAssumption DEF Init, Piece
  <1>3. /\ ok \in BOOLEAN /\ pc \in {"poll", "udp", "frame", "hello", "region", "feed"}
        /\ wait \in {"free", "ok", "empty", "close"}
        /\ flags \in BOOLEAN \X BOOLEAN \X BOOLEAN
        /\ served \subseteq Tcp
    BY DEF Init, flags
  <1>4. Len(Polled) >= 1 /\ Len(Polled) \in Nat
    BY SocketsAssumption, EmptySeq, LenProperties
  <1>5. n \in 1..Len(Polled) /\ calm \in 0..(Gap + 1) /\ job \in Seq(Tcp)
    BY <1>4, SocketsAssumption, EmptySeq DEF Init
  <1>6. TypeOK
    BY <1>1, <1>2, <1>3, <1>5 DEF TypeOK
  <1>7. ServedUp /\ InHand /\ Doomed
    BY DEF Init, ServedUp, InHand, Doomed
  <1>8. QED
    BY <1>6, <1>7 DEF IInv

-----------------------------------------------------------------------------
(* send. *)
LEMMA SendStep ==
    ASSUME IInv, SendPiece \/ SendDone \/ SendLost \/ SendClose \/ SendOk
    PROVE  IInv'
  <1> USE DEF IInv
  <1>0. TypeOK /\ ServedUp /\ InHand /\ Doomed
    OBVIOUS
  <1>1. CASE SendPiece
    <2>1. PICK s \in Tcp : s = Head(job)
      BY <1>1, HeadTcp DEF SendPiece
    <2>2. tx' \in [Tcp -> Nat] /\ \A t \in Tcp : tx'[t] * Piece <= Memory[t]
      <3>1. CASE sr[s] \in Connected
        <4>1. tx' = [tx EXCEPT ![s] = @ + 1] /\ Memory[s] - tx[s] * Piece >= Piece
          BY <1>1, <2>1, <3>1 DEF SendPiece, send_data_processing, getSn_TX_FSR
        <4>2. tx' \in [Tcp -> Nat]
          BY <4>1 DEF TypeOK
        <4>3. ASSUME NEW t \in Tcp PROVE tx'[t] * Piece <= Memory[t]
          <5>1. tx'[t] = IF t = s THEN tx[s] + 1 ELSE tx[t]
            BY <4>1 DEF TypeOK
          <5>2. tx[t] * Piece <= Memory[t] /\ tx[t] \in Nat /\ Memory[t] \in Nat
            BY SocketsAssumption DEF TypeOK
          <5>3. QED
            BY <4>1, <5>1, <5>2 DEF Piece
        <4>4. QED
          BY <4>2, <4>3
      <3>2. CASE sr[s] \notin Connected
        BY <1>1, <2>1, <3>2 DEF SendPiece, TypeOK
      <3>3. QED
        BY <3>1, <3>2
    <2>3. wait' \in {"ok", "empty"}
      BY <1>1 DEF SendPiece
    <2>4. /\ UNCHANGED <<sr, udp, peer, rx, datagram, ok, pc, n, job, flags, served, calm>>
          /\ job # <<>>
      BY <1>1 DEF SendPiece
    <2>5. TypeOK'
      BY <2>2, <2>3, <2>4 DEF TypeOK
    <2>6. (ServedUp /\ InHand /\ Doomed)'
      BY <2>3, <2>4 DEF ServedUp, InHand, Doomed
    <2>7. QED
      BY <2>5, <2>6
  <1>2. CASE SendDone
    <2>1. job' \in Seq(Tcp) /\ wait' = "free" /\ ok' = FALSE
      BY <1>2, HeadTcp DEF SendDone
    <2>2. UNCHANGED <<sr, udp, peer, rx, tx, datagram, pc, n, flags, served, calm>>
      BY <1>2 DEF SendDone
    <2>3. TypeOK'
      BY <2>1, <2>2 DEF TypeOK
    <2>4. QED
      BY <2>1, <2>2, <2>3 DEF ServedUp, InHand, Doomed
  <1>3. CASE SendLost
    <2>1. /\ wait' = "close" /\ job # <<>> /\ sr[Head(job)] \notin Connected
          /\ UNCHANGED <<chip, pc, n, job, flags, served, calm>>
      BY <1>3 DEF SendLost
    <2>2. TypeOK'
      BY <2>1 DEF TypeOK, chip
    <2>3. Head(job) \notin served
      BY <2>1 DEF ServedUp
    <2>4. QED
      BY <2>1, <2>2, <2>3 DEF ServedUp, InHand, Doomed, chip
  <1>4. CASE SendClose
    <2>1. PICK s \in Tcp : s = Head(job)
      BY <1>4, HeadTcp DEF SendClose
    <2>2. Closed(s, "CLOSED") /\ "CLOSED" \in Status
      BY <1>4, <2>1 DEF SendClose, Status
    <2>3. /\ sr' \in [Tcp -> Status] /\ served' \subseteq served
          /\ peer' \in [Tcp -> {"none", "ok", "stall", "gone"}]
          /\ rx' \in [Tcp -> BOOLEAN] /\ tx' \in [Tcp -> Nat]
          /\ \A t \in Tcp : tx'[t] * Piece <= Memory[t]
          /\ ServedUp'
      BY <2>2, ClosedInv
    <2>4. job' \in Seq(Tcp) /\ wait' = "free" /\ ok' = FALSE
      BY <1>4, HeadTcp DEF SendClose
    <2>5. UNCHANGED <<udp, datagram, pc, n, flags, calm>>
      BY <1>4 DEF SendClose
    <2>6. TypeOK'
      BY <2>3, <2>4, <2>5 DEF TypeOK
    <2>7. QED
      BY <2>3, <2>4, <2>6 DEF InHand, Doomed
  <1>5. CASE SendOk
    <2>1. /\ ok' = TRUE
          /\ UNCHANGED <<sr, udp, peer, rx, tx, datagram, pc, n, job, wait, flags, served, calm>>
      BY <1>5 DEF SendOk
    <2>2. TypeOK'
      BY <2>1 DEF TypeOK
    <2>3. QED
      BY <2>1, <2>2 DEF ServedUp, InHand, Doomed
  <1>6. QED
    BY <1>1, <1>2, <1>3, <1>4, <1>5

-----------------------------------------------------------------------------
(* The loop: it is not inside send, so what it serves cannot be doomed. *)
LEMMA PollStep ==
    ASSUME IInv, Poll
    PROVE  IInv'
  <1>0. TypeOK /\ ServedUp /\ InHand /\ Doomed
    BY DEF IInv
  <1>1. wait = "free" /\ wait' = "free" /\ UNCHANGED ok
    BY <1>0 DEF Poll, InHand
  <1>2. PICK s \in Tcp : s = Polled[n]
    BY <1>0, PolledTcp
  <1>3. n' \in 1..Len(Polled) /\ pc' \in {"poll", "udp"}
    BY <1>0, SocketsAssumption, LenProperties DEF Poll, TypeOK
  <1>4. /\ sr' \in [Tcp -> Status] /\ udp' \in BOOLEAN
        /\ peer' \in [Tcp -> {"none", "ok", "stall", "gone"}]
        /\ rx' \in [Tcp -> BOOLEAN] /\ tx' \in [Tcp -> Nat] /\ datagram' \in BOOLEAN
        /\ \A t \in Tcp : tx'[t] * Piece <= Memory[t]
        /\ job' \in Seq(Tcp) /\ flags' \in BOOLEAN \X BOOLEAN \X BOOLEAN
        /\ served' \subseteq Tcp /\ calm' = calm
        /\ ServedUp'
    <2>1. CASE PollInit(s)
      <3>1. sr[s] = "INIT" /\ sr' = [sr EXCEPT ![s] = "LISTEN"]
        BY <2>1 DEF PollInit
      <3>2. UNCHANGED <<udp, peer, rx, tx, datagram, flags, job, served, calm>>
        BY <2>1 DEF PollInit
      <3>3. sr' \in [Tcp -> Status]
        BY <1>0, <3>1 DEF TypeOK, Status
      <3>4. ServedUp'
        BY <1>0, <3>1, <3>2 DEF ServedUp, TypeOK, Connected
      <3>5. QED
        BY <1>0, <3>2, <3>3, <3>4 DEF TypeOK
    <2>2. CASE PollEstablished(s)
      <3>1. /\ sr[s] = "ESTABLISHED" /\ served' = served \cup {s}
            /\ rx' = [rx EXCEPT ![s] = FALSE]
            /\ UNCHANGED <<sr, udp, peer, tx, datagram, isPowerUp, change_region_flag, calm>>
        BY <2>2 DEF PollEstablished, recv
      <3>2. job' \in Seq(Tcp)
        <4>1. job' = <<s>> \/ job' = <<>>
          BY <2>2 DEF PollEstablished
        <4>2. <<s>> \in Seq(Tcp) /\ <<>> \in Seq(Tcp)
          OBVIOUS
        <4>3. QED
          BY <4>1, <4>2
      <3>3. isTcpEstablished' \in BOOLEAN
        BY <2>2 DEF PollEstablished
      <3>4. flags' \in BOOLEAN \X BOOLEAN \X BOOLEAN
        BY <1>0, <3>1, <3>3 DEF TypeOK, flags
      <3>5. rx' \in [Tcp -> BOOLEAN]
        BY <1>0, <3>1 DEF TypeOK
      <3>6. ServedUp'
        BY <1>0, <3>1 DEF ServedUp, Connected
      <3>7. QED
        BY <1>0, <3>1, <3>2, <3>4, <3>5, <3>6 DEF TypeOK
    <2>3. CASE PollCloseWait(s)
      <3>1. /\ Closed(s, "CLOSED") /\ "CLOSED" \in Status
            /\ UNCHANGED <<udp, datagram, flags, job, calm>>
        BY <2>3 DEF PollCloseWait, Status
      <3>2. /\ sr' \in [Tcp -> Status] /\ served' \subseteq served
            /\ peer' \in [Tcp -> {"none", "ok", "stall", "gone"}]
            /\ rx' \in [Tcp -> BOOLEAN] /\ tx' \in [Tcp -> Nat]
            /\ \A t \in Tcp : tx'[t] * Piece <= Memory[t]
            /\ ServedUp'
        BY <1>0, <3>1, ClosedInv
      <3>3. QED
        BY <1>0, <3>1, <3>2 DEF TypeOK
    <2>4. CASE PollClosed(s)
      <3>1. UNCHANGED <<isPowerUp, change_region_flag, job, calm>> /\ isTcpEstablished' \in BOOLEAN
        BY <2>4 DEF PollClosed
      <3>2. flags' \in BOOLEAN \X BOOLEAN \X BOOLEAN
        BY <1>0, <3>1 DEF TypeOK, flags
      <3>3. CASE ResetW5500
        BY <1>0, <3>1, <3>2, <3>3, ResetInv DEF TypeOK
      <3>4. CASE socket(s)
        <4>1. Closed(s, "INIT") /\ "INIT" \in Status /\ UNCHANGED <<udp, datagram>>
          BY <3>4 DEF socket, Status
        <4>2. /\ sr' \in [Tcp -> Status] /\ served' \subseteq served
              /\ peer' \in [Tcp -> {"none", "ok", "stall", "gone"}]
              /\ rx' \in [Tcp -> BOOLEAN] /\ tx' \in [Tcp -> Nat]
              /\ \A t \in Tcp : tx'[t] * Piece <= Memory[t]
              /\ ServedUp'
          BY <1>0, <4>1, ClosedInv
        <4>3. QED
          BY <1>0, <3>1, <3>2, <4>1, <4>2 DEF TypeOK
      <3>5. QED
        BY <2>4, <3>3, <3>4 DEF PollClosed
    <2>5. CASE PollIdle(s)
      <3>1. UNCHANGED <<sr, udp, peer, rx, tx, datagram, flags, job, served, calm>>
        BY <2>5 DEF PollIdle
      <3>2. QED
        BY <1>0, <3>1 DEF TypeOK, ServedUp
    <2>6. QED
      BY <1>2, <2>1, <2>2, <2>3, <2>4, <2>5 DEF Poll
  <1>5. TypeOK'
    BY <1>0, <1>1, <1>3, <1>4 DEF TypeOK
  <1>6. QED
    BY <1>1, <1>4, <1>5 DEF IInv, InHand, Doomed

(* The rest of a pass changes no connection, and starts reports only when   *)
(* send is at rest.                                                         *)
LEMMA PassStep ==
    ASSUME IInv, PollUdp \/ Scan \/ NoScan \/ Greet \/ ReportRegion \/ Feed
    PROVE  IInv'
  <1>0. TypeOK /\ ServedUp /\ InHand /\ Doomed
    BY DEF IInv
  <1>1. /\ UNCHANGED <<sr, peer, rx, tx, ok, n, wait, served>> /\ job = <<>>
        /\ pc' \in {"frame", "hello", "region", "feed", "poll"}
    BY DEF PollUdp, Scan, NoScan, Greet, ReportRegion, Feed, sendto, chip
  <1>2. udp' \in BOOLEAN /\ datagram' \in BOOLEAN
    <2>1. CASE PollUdp
      BY <1>0, <2>1 DEF PollUdp, recvfrom, TypeOK
    <2>2. CASE ~PollUdp
      <3>1. UNCHANGED <<udp, datagram>>
        BY <2>2 DEF Scan, NoScan, Greet, ReportRegion, Feed, chip
      <3>2. QED
        BY <1>0, <3>1 DEF TypeOK
    <2>3. QED
      BY <2>1, <2>2
  <1>3. job' = job \/ job' = Reported \/ job' = Reported \o Reported
    BY DEF PollUdp, Scan, NoScan, Greet, ReportRegion, Feed
  <1>4. job' \in Seq(Tcp)
    BY <1>0, <1>3, ReportedSeq DEF TypeOK
  <1>5. calm' = calm \/ calm' = Gap + 1 \/ calm' = IF calm > 0 THEN calm - 1 ELSE 0
    BY DEF PollUdp, Scan, NoScan, Greet, ReportRegion, Feed
  <1>6. calm' \in 0..(Gap + 1)
    BY <1>0, <1>5, SocketsAssumption DEF TypeOK
  <1>7. flags' \in BOOLEAN \X BOOLEAN \X BOOLEAN
    <2>0. isTcpEstablished \in BOOLEAN /\ isPowerUp \in BOOLEAN /\ change_region_flag \in BOOLEAN
      BY <1>0 DEF TypeOK, flags
    <2>1. isTcpEstablished' = isTcpEstablished
      BY DEF PollUdp, Scan, NoScan, Greet, ReportRegion, Feed, flags
    <2>2. \/ isPowerUp' = isPowerUp \/ isPowerUp' = FALSE
          \/ isPowerUp' = (isPowerUp \/ (udp /\ datagram))
      BY DEF PollUdp, Scan, NoScan, Greet, ReportRegion, Feed, flags
    <2>3. \/ change_region_flag' = change_region_flag \/ change_region_flag' = FALSE
          \/ change_region_flag' = (change_region_flag \/ (udp /\ datagram))
      BY DEF PollUdp, Scan, NoScan, Greet, ReportRegion, Feed, flags
    <2>4. isPowerUp' \in BOOLEAN /\ change_region_flag' \in BOOLEAN
      BY <2>0, <2>2, <2>3
    <2>5. QED
      BY <2>0, <2>1, <2>4 DEF flags
  <1>8. TypeOK'
    BY <1>0, <1>1, <1>2, <1>4, <1>6, <1>7 DEF TypeOK
  <1>9. wait = "free"
    BY <1>0, <1>1 DEF InHand
  <1>10. QED
    BY <1>0, <1>1, <1>8, <1>9 DEF IInv, ServedUp, InHand, Doomed

LEMMA WatchdogStep ==
    ASSUME IInv, Watchdog
    PROVE  IInv'
  <1>0. TypeOK
    BY DEF IInv
  <1>1. /\ ResetW5500 /\ ok' = FALSE /\ pc' = "poll" /\ n' = 1 /\ job' = <<>> /\ wait' = "free"
        /\ isTcpEstablished' = FALSE /\ isPowerUp' = TRUE /\ change_region_flag' = TRUE
        /\ calm' = calm
    BY DEF Watchdog
  <1>2. flags' \in BOOLEAN \X BOOLEAN \X BOOLEAN
    BY <1>1 DEF flags
  <1>3. n' \in 1..Len(Polled)
    BY <1>0, <1>1 DEF TypeOK
  <1>4. job' \in Seq(Tcp) /\ calm' \in 0..(Gap + 1)
    BY <1>0, <1>1 DEF TypeOK
  <1>5. /\ sr' \in [Tcp -> Status] /\ served' = {} /\ udp' \in BOOLEAN
        /\ peer' \in [Tcp -> {"none", "ok", "stall", "gone"}]
        /\ rx' \in [Tcp -> BOOLEAN] /\ tx' \in [Tcp -> Nat] /\ datagram' \in BOOLEAN
        /\ \A t \in Tcp : tx'[t] * Piece <= Memory[t]
        /\ ServedUp'
    BY <1>1, ResetInv
  <1>6. TypeOK'
    BY <1>1, <1>2, <1>3, <1>4, <1>5 DEF TypeOK
  <1>7. QED
    BY <1>1, <1>5, <1>6 DEF IInv, InHand, Doomed

-----------------------------------------------------------------------------
(* The chip and the clients may act while send waits: they never serve, and *)
(* end only connections that are struck from served in the same step.       *)
LEMMA ClientStep ==
    ASSUME IInv, NEW s \in Tcp, Client(s)
    PROVE  IInv'
  <1>0. TypeOK /\ ServedUp /\ InHand /\ Doomed
    BY DEF IInv
  <1>1. UNCHANGED <<udp, datagram, ok, pc, n, job, wait, flags, calm>>
    BY DEF Client, Syn, Establish, Fin, Stall, Resume, Vanish, Request, Acked, Abort,
           Timeout, SetPeer, SetStatus
  <1>2. /\ sr' \in [Tcp -> Status] /\ served' \subseteq served
        /\ peer' \in [Tcp -> {"none", "ok", "stall", "gone"}]
        /\ rx' \in [Tcp -> BOOLEAN] /\ tx' \in [Tcp -> Nat]
        /\ \A t \in Tcp : tx'[t] * Piece <= Memory[t]
        /\ ServedUp'
    <2>1. CASE Syn(s) \/ Establish(s) \/ Fin(s)
      <3>1. PICK st \in {"SYNRECV", "ESTABLISHED", "CLOSE_WAIT"} :
                /\ sr' = [sr EXCEPT ![s] = st]
                /\ sr[s] \in Connected => st \in Connected
        BY <2>1 DEF Syn, Establish, Fin, SetStatus, Connected
      <3>2. peer' \in [Tcp -> {"none", "ok", "stall", "gone"}] /\ UNCHANGED <<rx, tx, served>>
        BY <1>0, <2>1 DEF Syn, Establish, Fin, SetStatus, TypeOK
      <3>3. sr' \in [Tcp -> Status]
        BY <1>0, <3>1 DEF TypeOK, Status
      <3>4. ServedUp'
        BY <1>0, <3>1, <3>2 DEF ServedUp, TypeOK
      <3>5. QED
        BY <1>0, <3>2, <3>3, <3>4 DEF TypeOK
    <2>2. CASE Stall(s) \/ Resume(s) \/ Vanish(s)
      <3>1. UNCHANGED <<sr, rx, tx, served>>
        BY <2>2 DEF Stall, Resume, Vanish, SetPeer
      <3>2. peer' \in [Tcp -> {"none", "ok", "stall", "gone"}]
        BY <1>0, <2>2 DEF Stall, Resume, Vanish, SetPeer, TypeOK
      <3>3. QED
        BY <1>0, <3>1, <3>2 DEF TypeOK, ServedUp
    <2>3. CASE Request(s)
      <3>1. UNCHANGED <<sr, peer, tx, served>> /\ rx' = [rx EXCEPT ![s] = TRUE]
        BY <2>3 DEF Request
      <3>2. QED
        BY <1>0, <3>1 DEF TypeOK, ServedUp
    <2>4. CASE Acked(s)
      <3>1. /\ UNCHANGED <<sr, peer, rx, served>> /\ tx[s] > 0
            /\ tx' = [tx EXCEPT ![s] = @ - 1]
        BY <2>4 DEF Acked
      <3>2. tx' \in [Tcp -> Nat]
        BY <1>0, <3>1 DEF TypeOK
      <3>3. ASSUME NEW t \in Tcp PROVE tx'[t] * Piece <= Memory[t]
        <4>1. tx'[t] \in {tx[t], tx[t] - 1}
          BY <1>0, <3>1 DEF TypeOK
        <4>2. tx[t] * Piece <= Memory[t] /\ tx[t] \in Nat /\ Memory[t] \in Nat
          BY <1>0, SocketsAssumption DEF TypeOK
        <4>3. QED
          BY <4>1, <4>2 DEF Piece
      <3>4. QED
        BY <1>0, <3>1, <3>2, <3>3 DEF TypeOK, ServedUp
    <2>5. CASE Abort(s) \/ Timeout(s)
      <3>1. Closed(s, "CLOSED") /\ "CLOSED" \in Status
        BY <2>5 DEF Abort, Timeout, Status
      <3>2. QED
        BY <1>0, <3>1, ClosedInv
    <2>6. QED
      BY <2>1, <2>2, <2>3, <2>4, <2>5 DEF Client
  <1>3. TypeOK'
    BY <1>0, <1>1, <1>2 DEF TypeOK
  <1>4. QED
    BY <1>0, <1>1, <1>2, <1>3 DEF IInv, InHand, Doomed

LEMMA InvStep ==
    ASSUME IInv, [Next]_vars
    PROVE  IInv'
  <1>1. CASE Broadcast \/ UNCHANGED vars
    <2>1. /\ datagram' \in BOOLEAN
          /\ UNCHANGED <<sr, udp, peer, rx, tx, ok, pc, n, job, wait, flags, served, calm>>
      BY <1>1 DEF IInv, Broadcast, vars, chip, TypeOK
    <2>2. TypeOK'
      BY <2>1 DEF IInv, TypeOK
    <2>3. QED
      BY <2>1, <2>2 DEF IInv, ServedUp, InHand, Doomed
  <1>2. QED
    BY <1>1, SendStep, PollStep, PassStep, WatchdogStep, ClientStep DEF Next, Loop

-----------------------------------------------------------------------------
(* Whatever takes a served, living connection down is its own client's      *)
(* reset or a reset of the whole chip.                                      *)
LEMMA NotAlone ==
    ASSUME IInv, Next, NEW s \in served,
           peer[s] = "ok", sr[s] = "ESTABLISHED", sr'[s] \notin Connected
    PROVE  Abort(s) \/ (sr' = AllClosed /\ ~isTcpEstablished')
  <1>0. TypeOK /\ ServedUp /\ InHand /\ Doomed /\ s \in Tcp /\ sr' # sr
    BY DEF IInv, TypeOK, Connected
  <1>1. ~(SendPiece \/ SendDone \/ SendLost \/ SendOk \/ Broadcast)
    BY <1>0 DEF SendPiece, SendDone, SendLost, SendOk, Broadcast, chip
  <1>2. ~(PollUdp \/ Scan \/ NoScan \/ Greet \/ ReportRegion \/ Feed)
    BY <1>0 DEF PollUdp, Scan, NoScan, Greet, ReportRegion, Feed, chip
  <1>3. ASSUME NEW t \in Tcp, NEW st, Closed(t, st)
        PROVE  t = s
    BY <1>0, <1>3 DEF Closed, TypeOK, Connected
  <1>4. ~SendClose
    <2>1. SUFFICES ASSUME SendClose PROVE FALSE
      OBVIOUS
    <2>2. Closed(Head(job), "CLOSED") /\ Head(job) \in Tcp /\ Head(job) \notin served
      BY <1>0, <2>1, HeadTcp DEF SendClose, Doomed
    <2>3. QED
      BY <1>3, <2>2
  <1>5. CASE Poll
    <2>1. PICK t \in Tcp : t = Polled[n]
      BY <1>0, PolledTcp
    <2>2. ~(PollEstablished(t) \/ PollIdle(t))
      BY <1>0 DEF PollEstablished, PollIdle
    <2>3. ~PollInit(t)
      BY <1>0 DEF PollInit, TypeOK, Connected
    <2>4. ~PollCloseWait(t)
      BY <1>3 DEF PollCloseWait
    <2>5. PollClosed(t)
      BY <1>5, <2>1, <2>2, <2>3, <2>4 DEF Poll
    <2>6. ~socket(t)
      BY <1>3, <2>5 DEF socket, PollClosed
    <2>7. t = 0 /\ ResetW5500
      BY <2>5, <2>6 DEF PollClosed
    <2>8. ~isTcpEstablished'
      BY <2>5, <2>7 DEF PollClosed
    <2>9. QED
      BY <2>7, <2>8 DEF ResetW5500
  <1>6. CASE Watchdog
    BY <1>6 DEF Watchdog, ResetW5500
  <1>7. ASSUME NEW t \in Tcp, Client(t)
        PROVE  Abort(s)
    <2>1. ~(Stall(t) \/ Resume(t) \/ Vanish(t) \/ Request(t) \/ Acked(t))
      BY <1>0 DEF Stall, Resume, Vanish, Request, Acked, SetPeer
    <2>2. ~(Syn(t) \/ Establish(t) \/ Fin(t))
      BY <1>0 DEF Syn, Establish, Fin, SetStatus, TypeOK, Connected
    <2>3. CASE Abort(t)
      <3>1. t = s
        BY <1>3, <2>3 DEF Abort
      <3>2. QED
        BY <2>3, <3>1
    <2>4. CASE Timeout(t)
      <3>1. t = s /\ peer[t] = "gone"
        BY <1>3, <2>4 DEF Timeout
      <3>2. QED
        BY <3>1
    <2>5. QED
      BY <1>7, <2>1, <2>2, <2>3, <2>4 DEF Client
  <1>8. QED
    BY <1>1, <1>2, <1>4, <1>5, <1>6, <1>7 DEF Next, Loop

-----------------------------------------------------------------------------
(* The whole inductive invariant: the types, the bound of the transmit      *)
(* memory that getSn_TX_FSR guards, and the facts that make send's close    *)
(* harmless.                                                                *)
THEOREM Invariant == Spec => []IInv
  <1>1. Init => IInv
    BY InitInv
  <1>2. IInv /\ [Next]_vars => IInv'
    BY InvStep
  <1>3. QED
    BY <1>1, <1>2, PTL DEF Spec

(* Whatever the clients, the chip and the loop do in between, the close at  *)
(* the end of send, socket() and the poll never take down a connection that *)
(* the loop has served and whose client is alive.                           *)
THEOREM NoneClosedAlone == Spec => NeverAlone
  <1> DEFINE Blameless ==
        \A s \in served :
          peer[s] = "ok" /\ sr[s] = "ESTABLISHED" /\ sr'[s] \notin Connected
          => Abort(s) \/ (sr' = AllClosed /\ ~isTcpEstablished')
  <1>1. IInv /\ [Next]_vars => [Blameless]_vars
    BY NotAlone
  <1>2. QED
    BY <1>1, Invariant, PTL DEF Spec, NeverAlone

=============================================================================
