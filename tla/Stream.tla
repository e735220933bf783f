------------------------------- MODULE Stream -------------------------------
(***************************************************************************)
(* The generic stream (stropen, strclose, strread, strwrite and strstat of  *)
(* src/src/stream/mrtk_stream.c) under calls from several threads.  The     *)
(* server's thread writes its solution and log streams without the server's *)
(* lock, while rtksvropenstr and rtksvrclosestr open and close them.        *)
(***************************************************************************)
EXTENDS Integers

CONSTANTS Types,    \* types of streams
          Movers,   \* threads inside strread or strwrite
          Askers,   \* threads inside strstat
          MaxPort   \* bound: ports are numbered modulo it

Threads == Movers \cup Askers
Null    == 0
Ports   == 1 .. MaxPort

ASSUME StreamAssumption == /\ MaxPort \in Nat \ {0} /\ Movers \cap Askers = {}
                           /\ "none" \notin Types \cup Threads /\ "closer" \notin Threads

VARIABLES type, port,  \* of stream_t; the mode is set and cleared with the type
          kind,        \* the type a port was opened as, "none": freed
          lock,        \* who holds stream->lock
          at,          \* of a call: "out", "test", "lock", "in"
          caller,      \* of stropen and strclose: "idle", "typed", "cleared", "locked"
          renewed      \* calls between whose test and lock stropen began

strVars == <<type, port, kind, lock, at, caller, renewed>>

StrInit == /\ type = "none" /\ port = Null /\ kind = [p \in Ports |-> "none"]
           /\ lock = "none" /\ at = [u \in Threads |-> "out"]
           /\ caller = "idle" /\ renewed = {}

\* stropen, without the lock, on a closed stream: the type, the port cleared,
\* the port opened, which may fail
OpenType == /\ caller = "idle" /\ type = "none"
            /\ \E t \in Types : type' = t
            /\ caller' = "typed"
            /\ renewed' = renewed \cup {u \in Movers : at[u] = "lock"}
            /\ UNCHANGED <<port, kind, lock, at>>
OpenClear == /\ caller = "typed"
             /\ port' = Null /\ caller' = "cleared"
             /\ UNCHANGED <<type, kind, lock, at, renewed>>
OpenPort == /\ caller = "cleared"
            /\ \/ \E p \in Ports : /\ kind[p] = "none"
                                   /\ port' = p /\ kind' = [kind EXCEPT ![p] = type]
               \/ UNCHANGED <<port, kind>>
            /\ caller' = "idle"
            /\ UNCHANGED <<type, lock, at, renewed>>

\* mutant: the lock is not taken
CloseLock_NoLock ==
    /\ caller = "idle" /\ type # "none"
    /\ caller' = "locked"
    /\ UNCHANGED <<type, port, kind, lock, at, renewed>>

CloseLock == /\ caller = "idle" /\ type # "none" /\ lock = "none"
             /\ lock' = "closer" /\ caller' = "locked"
             /\ UNCHANGED <<type, port, kind, at, renewed>>

\* strclose, with the lock
ClosePort == /\ caller = "locked"
             /\ kind' = IF port = Null THEN kind ELSE [kind EXCEPT ![port] = "none"]
             /\ type' = "none" /\ port' = Null /\ lock' = "none" /\ caller' = "idle"
             /\ UNCHANGED <<at, renewed>>

-----------------------------------------------------------------------------
\* strread and strwrite test the mode and the port before they take the lock
Call(u) == /\ at[u] = "out"
           /\ at' = [at EXCEPT ![u] = IF u \in Askers THEN "lock" ELSE "test"]
           /\ UNCHANGED <<type, port, kind, lock, caller, renewed>>
Test(u) == /\ at[u] = "test"
           /\ at' = [at EXCEPT ![u] = IF type = "none" \/ port = Null THEN "out" ELSE "lock"]
           /\ UNCHANGED <<type, port, kind, lock, caller, renewed>>

\* with the lock: nothing to do on a stream without a type; strstat tests the
\* port here
Enter(u) == /\ at[u] = "lock" /\ lock = "none"
            /\ IF type = "none" \/ (u \in Askers /\ port = Null)
               THEN at' = [at EXCEPT ![u] = "out"] /\ renewed' = renewed \ {u} /\ UNCHANGED lock
               ELSE at' = [at EXCEPT ![u] = "in"] /\ lock' = u /\ UNCHANGED renewed
            /\ UNCHANGED <<type, port, kind, caller>>
Leave(u) == /\ at[u] = "in"
            /\ at' = [at EXCEPT ![u] = "out"] /\ lock' = "none" /\ renewed' = renewed \ {u}
            /\ UNCHANGED <<type, port, kind, caller>>

StrNext == \/ OpenType \/ OpenClear \/ OpenPort \/ CloseLock \/ ClosePort
           \/ \E u \in Threads : Call(u) \/ Test(u) \/ Enter(u) \/ Leave(u)

StrSpec == StrInit /\ [][StrNext]_strVars

-----------------------------------------------------------------------------
\* A port is used only while it is open, by the functions of its own type, and
\* no port at all only by a call across which the stream was closed and opened.
PortInUse == \A u \in Threads : at[u] = "in" =>
                IF port = Null THEN u \in renewed ELSE kind[port] = type

\* Whatever the threads do, no port is left without a stream that will close it.
NoPortLost == \A p \in Ports : kind[p] # "none" => p = port

PortInv == PortInUse /\ NoPortLost
=============================================================================
