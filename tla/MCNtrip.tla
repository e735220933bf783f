------------------------------ MODULE MCNtrip ------------------------------
(* Sizes of chunks have binary digits.  Two slots; two clients of a caster,  *)
(* three of a TCP server; two of them send data, without end.                *)
EXTENDS Ntrip
CONSTANTS p1, p2, p3
Strict  == {"v1strict", "v2chunk"}
Hex     == {"hex"}      \* payload that can be taken for the size of a chunk
MCPeers == {p1, p2, p3}
Servers == {"tcpsvr", "ntripcas"}
MCComers == [k \in Servers |-> IF k = "tcpsvr" THEN {p1, p2, p3} ELSE {p1, p2}]
MCData  == [p \in MCPeers |-> IF p = p3 THEN 0 ELSE 1]
Ours(a, v) == [mp |-> "ours", auth |-> a, ver |-> v]
MCAsks  == [p \in MCPeers |-> IF p = p1 THEN {Ours(TRUE, 2), Ours(FALSE, 1)} ELSE {Ours(TRUE, 1)}]
=============================================================================
