------------------------------- MODULE Ntrip -------------------------------
(***************************************************************************)
(* The two ends of NTRIP in src/src/stream/mrtk_stream.c: the client stream, *)
(* and the TCP server with the caster that is built on it.                   *)
(***************************************************************************)
EXTENDS NtripCli, NtripCas

VARIABLE end    \* the end this behaviour is about

ntripVars == <<vars, casVars, end>>

NtripInit ==
    /\ end \in {"client", "server"} /\ Init /\ CasInit
    /\ IF end = "client" THEN kind = CHOOSE k \in SvrKinds : TRUE
       ELSE caster = CHOOSE c \in Casters : TRUE

NtripNext ==
    /\ \/ end = "client" /\ Next /\ UNCHANGED casVars
       \/ end = "server" /\ CasNext /\ UNCHANGED vars
    /\ UNCHANGED end

OfClient(A) == end = "client" /\ A /\ UNCHANGED <<casVars, end>>
OfServer(A) == end = "server" /\ A /\ UNCHANGED <<vars, end>>

\* The server thread reads its streams in every cycle, a connection comes up when it is
\* tried again and again, a caster answers, and who has not left takes what has come
\* for him.
NtripSpec ==
    /\ NtripInit /\ [][NtripNext]_ntripVars
    /\ WF_ntripVars(OfClient(Read)) /\ WF_ntripVars(OfClient(Answer \/ Reject))
    /\ SF_ntripVars(OfClient(Request)) /\ SF_ntripVars(OfClient(Response))
    /\ SF_ntripVars(OfServer(CallRead /\ UNCHANGED con)) /\ WF_ntripVars(OfServer(Steps))
    /\ \A p \in Peers : WF_ntripVars(OfServer(Take(p) /\ UNCHANGED con))

-----------------------------------------------------------------------------
\* A client with automatic version gets back to a caster of version 1, and notices when
\* a caster closes the connection (FallsBack and NoticesClose of NtripCli).
ClientServed == FallsBack /\ NoticesClose
=============================================================================
