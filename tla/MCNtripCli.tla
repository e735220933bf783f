------------------------------ MODULE MCNtripCli ------------------------------
(* NtripCli on small instances; sizes have binary digits.                   *)
EXTENDS NtripCli

ChunkOnly == {"v2chunk"}
Plain     == {"other"}
=============================================================================
