---------------------------- MODULE MCRemoteUpdate ----------------------------
(* The board's 4 MB chip, one with sectors of 256 KB, one that needs four    *)
(* byte addresses, and one that the driver does not know; a packet across    *)
(* two pages, two blocks, the end of the 4 MB chip, and past 16 MB.          *)
EXTENDS RemoteUpdate
Fitted(res, rdid, mbits, sector) ==
    [res |-> res, rdid |-> rdid, size |-> mbits * Mbit, sector |-> sector]
MCBoards ==
    {Fitted(\h15, \hC22016, 32, 65536), Fitted(\hff, \h202018, 128, 262144),
     Fitted(\hff, \h20BA19, 256, 65536), Fitted(\hff, \h014017, 64, 65536)}
=============================================================================
