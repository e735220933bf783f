------------------------------- MODULE MCApps -------------------------------
(* Three consoles; two outputs, the second one relayed back.                *)
EXTENDS Apps

AllCommands == {"start", "stop", "restart", "show", "exit", "shutdown"}
=============================================================================
