----------------------------- MODULE MCPcProtocol -----------------------------
(* The real tables of parameters and requests, two layers, and values at the *)
(* borders of every range.                                                   *)
EXTENDS PcProtocol

MCImage == [Default EXCEPT !["valid_num_threshold"] = 8, !["signal_thresold"] = Bit15 + 100]
MCOften == {<<"laser_enable", ENABLE>>}
MCTried ==
    [p \in Param |->
       CASE p = "apd_vol_base" -> {100, 521, Bit15 + 100, 3 * Bit15, 4 * Bit15 + 300}
         [] p = "signal_thresold" -> {0, 500, 1024, 1025, Bit15 + 7}
         [] p \in {"laser_enable", "motor_enable"} -> {0, ENABLE, DISABLE}
         [] p \in {q \in Param : 1023 \in Range[q] /\ 9000 \in Range[q]} -> {0, 1}
         [] OTHER ->
              LET near == {v \in (0..20) \cup (38..62) \cup (99..102) \cup (127..130) \cup
                                 (239..242) \cup (499..502) \cup (1022..1026) \cup (7999..8002) :
                             (v \in Range[p]) # (v + 1 \in Range[p])}
              IN  near \cup {v + 1 : v \in near}]
=============================================================================
