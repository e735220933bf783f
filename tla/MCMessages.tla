----------------------------- MODULE MCMessages -----------------------------
(* GPS every epoch, GLONASS every second one, GPS again every third one; a   *)
(* week of one day of six ticks.  Three satellites, two of one pattern.       *)
EXTENDS Messages

CONSTANTS gps, glo, p1, p2, p3

MCSystems == {gps, glo}
MCObsMsgs == <<[sys |-> gps, tint |-> 0], [sys |-> glo, tint |-> 2], [sys |-> gps, tint |-> 3]>>
Obs(n, nsig) == [n |-> n, nsig |-> nsig]
MCEpochs  == [Systems -> {Obs(0, 0), Obs(1, 1), Obs(2, 2)}]
MCDaily   == {glo}
MCPtn     == [p \in QzsPrns |-> IF p = p3 THEN 2 ELSE 1]
MCOffset  == [p \in QzsPrns |-> IF p = p2 THEN 1 ELSE 0]
=============================================================================
