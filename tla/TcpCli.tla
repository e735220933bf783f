-------------------------------- MODULE TcpCli --------------------------------
(***************************************************************************)
(* The TCP client stream (tcpcli_t of src/src/stream/mrtk_stream.c): what   *)
(* strread and strwrite do to the connection, and the close of the stream.  *)
(*                                                                         *)
(* Sockets are file descriptors of the process: the system gives the lowest *)
(* free one, to this stream or to another part of the program, and close    *)
(* frees whatever is at the number it is given.                             *)
(* Times are counted since the event they are compared with, up to the      *)
(* limit that matters.                                                      *)
(***************************************************************************)
EXTENDS Integers, FiniteSets, FiniteSetsExt

CONSTANTS
    NFd,       \* file descriptors 0 .. NFd (bound); 0 is standard input
    ToInact,   \* tcpcli->toinact, 0: none
    TiRecon,   \* ticonnect and tcpcli->tirecon
    Faults     \* "socket", "setsock", "dns", "refused" (connect fails at once)

ASSUME TcpAssumption ==
    /\ NFd \in Nat /\ ToInact \in Nat /\ TiRecon \in Nat \ {0}
    /\ Faults \subseteq {"socket", "setsock", "dns", "refused"}

Fds == 0 .. NFd

VARIABLES
    tcpPc,    \* the call under way: "idle", "wait", "connect", "active", "io"; "closed"
    svrState, \* svr.state: -1 error, 0 close, 1 wait, 2 connect
    sock,     \* svr.sock
    tcon,     \* svr.tcon
    tdis,     \* time since svr.tdis
    tact,     \* time since svr.tact
    owner,    \* who has a descriptor: "free", "std", "tcp", "other"
    gap,      \* time since a connection or a lookup failed (history)
    peer      \* the far end: "down", "up", "silent"

tcpVars == <<tcpPc, svrState, sock, tcon, tdis, tact, owner, gap, peer>>

TcpTypeOK ==
    /\ tcpPc \in {"idle", "wait", "connect", "active", "io", "closed"}
    /\ svrState \in -1 .. 2 /\ sock \in Fds
    /\ tcon \in {0, TiRecon} /\ tdis \in 0 .. TiRecon /\ gap \in 0 .. TiRecon
    /\ tact \in 0 .. ToInact + 1
    /\ owner \in [Fds -> {"free", "std", "tcp", "other"}]
    /\ peer \in {"down", "up", "silent"}

\* opentcpcli: everything zero, the socket too
TcpInit ==
    /\ tcpPc = "idle" /\ svrState = 0 /\ sock = 0 /\ tcon = 0
    /\ tdis = TiRecon /\ tact = 0 /\ gap = TiRecon
    /\ owner = [f \in Fds |-> IF f = 0 THEN "std" ELSE "free"]
    /\ peer = "down"

FreeFds  == {f \in Fds : owner[f] = "free"}
Closed(f) == [owner EXCEPT ![f] = "free"]

-----------------------------------------------------------------------------
(* A call of strread or strwrite.                                          *)

TcpCall ==
    /\ tcpPc = "idle" /\ svrState >= 0
    /\ tcpPc' = CASE svrState = 0 -> "wait" [] svrState = 1 -> "connect" [] OTHER -> "active"
    /\ UNCHANGED <<svrState, sock, tcon, tdis, tact, owner, gap, peer>>

\* gentcp
GenSocket ==
    /\ tcpPc = "wait" /\ FreeFds # {}
    /\ sock' = Min(FreeFds) /\ owner' = [owner EXCEPT ![Min(FreeFds)] = "tcp"]
    /\ svrState' = 1 /\ tact' = 0 /\ tcpPc' = "connect"
    /\ UNCHANGED <<tcon, tdis, gap, peer>>

\* mutant: the socket of a name that is not found is not closed
GenNoHost_Keeps ==
    /\ tcpPc = "wait" /\ "dns" \in Faults /\ FreeFds # {}
    /\ sock' = Min(FreeFds) /\ owner' = [owner EXCEPT ![Min(FreeFds)] = "tcp"]
    /\ svrState' = 0 /\ tcon' = TiRecon /\ tdis' = 0 /\ gap' = 0 /\ tcpPc' = "idle"
    /\ UNCHANGED <<tact, peer>>

\* gethostbyname fails: the socket is closed again, the interval starts
GenNoHost ==
    /\ tcpPc = "wait" /\ "dns" \in Faults /\ FreeFds # {}
    /\ sock' = Min(FreeFds)
    /\ svrState' = 0 /\ tcon' = TiRecon /\ tdis' = 0 /\ gap' = 0 /\ tcpPc' = "idle"
    /\ UNCHANGED <<tact, owner, peer>>

\* socket or setsock fails: the stream is in error for good
GenFails ==
    /\ tcpPc = "wait" /\ svrState' = -1 /\ tcpPc' = "idle"
    /\ \/ ("socket" \in Faults \/ FreeFds = {}) /\ UNCHANGED sock
       \/ "setsock" \in Faults /\ FreeFds # {} /\ sock' = Min(FreeFds)
    /\ UNCHANGED <<tcon, tdis, tact, owner, gap, peer>>

\* mutant: a stream that has been connected waits for ever
ConnectDue_First == tcon = 0

\* consock: an attempt is due
ConnectDue == tcon = 0 \/ tdis >= tcon

ConnectWait ==
    /\ tcpPc = "connect" /\ (~ConnectDue \/ peer = "silent")
    /\ tcpPc' = "idle"
    /\ UNCHANGED <<svrState, sock, tcon, tdis, tact, owner, gap, peer>>

\* mutant: the interval is not waited for
Connected_AtOnce ==
    /\ tcpPc = "connect" /\ peer # "silent"
    /\ svrState' = 2 /\ tact' = 0 /\ tcpPc' = "active"
    /\ UNCHANGED <<sock, tcon, tdis, owner, gap, peer>>

\* connect_nb returns 1: a connection, or a refusal that came in meanwhile
\* (SO_ERROR is not read; the next recv meets it)
Connected ==
    /\ tcpPc = "connect" /\ ConnectDue /\ peer # "silent"
    /\ svrState' = 2 /\ tact' = 0 /\ tcpPc' = "active"
    /\ UNCHANGED <<sock, tcon, tdis, owner, gap, peer>>

\* connect fails at once: tcon and tdis keep their values
ConnectFails ==
    /\ tcpPc = "connect" /\ ConnectDue /\ "refused" \in Faults /\ peer = "down"
    /\ owner' = Closed(sock) /\ svrState' = 0 /\ tcpPc' = "idle"
    /\ UNCHANGED <<sock, tcon, tdis, tact, gap, peer>>

\* discontcp(..., tirecon)
Discon ==
    /\ owner' = Closed(sock)
    /\ svrState' = 0 /\ tcon' = TiRecon /\ tdis' = 0 /\ gap' = 0 /\ tcpPc' = "idle"
    /\ UNCHANGED <<sock, tact, peer>>

Inactive ==
    /\ tcpPc = "active"
    /\ IF ToInact > 0 /\ tact > ToInact
       THEN Discon
       ELSE tcpPc' = "io" /\ UNCHANGED <<svrState, sock, tcon, tdis, tact, owner, gap, peer>>

\* recv_nb or send_nb: something, nothing, or an error
Transfer ==
    /\ tcpPc = "io"
    /\ \/ /\ peer = "up" /\ tact' = 0 /\ tcpPc' = "idle"
          /\ UNCHANGED <<svrState, sock, tcon, tdis, owner, gap, peer>>
       \/ tcpPc' = "idle" /\ UNCHANGED <<svrState, sock, tcon, tdis, tact, owner, gap, peer>>
       \/ peer = "down" /\ Discon

\* closetcpcli: whatever is at sock is closed, connected or not
TcpClose ==
    /\ tcpPc = "idle" /\ tcpPc' = "closed"
    /\ owner' = Closed(sock)
    /\ UNCHANGED <<svrState, sock, tcon, tdis, tact, gap, peer>>

-----------------------------------------------------------------------------
(* The environment.                                                        *)

\* another stream, a file or a console opens and closes descriptors
OtherOpens ==
    /\ FreeFds # {} /\ owner' = [owner EXCEPT ![Min(FreeFds)] = "other"]
    /\ UNCHANGED <<tcpPc, svrState, sock, tcon, tdis, tact, gap, peer>>
OtherCloses ==
    /\ \E f \in Fds : owner[f] = "other" /\ owner' = Closed(f)
    /\ UNCHANGED <<tcpPc, svrState, sock, tcon, tdis, tact, gap, peer>>

PeerChanges ==
    /\ peer' \in {"down", "up", "silent"}
    /\ UNCHANGED <<tcpPc, svrState, sock, tcon, tdis, tact, owner, gap>>

Later(t, max) == IF t < max THEN t + 1 ELSE t
TcpTick ==
    /\ tcpPc \in {"idle", "closed"}
    /\ tdis' = Later(tdis, TiRecon) /\ gap' = Later(gap, TiRecon)
    /\ tact' = Later(tact, ToInact + 1)
    /\ UNCHANGED <<tcpPc, svrState, sock, tcon, owner, peer>>

TcpStep == GenSocket \/ GenNoHost \/ GenFails \/ ConnectWait \/ Connected \/ ConnectFails
           \/ Inactive \/ Transfer

TcpNext == TcpCall \/ TcpStep \/ TcpClose \/ OtherOpens \/ OtherCloses \/ PeerChanges \/ TcpTick

TcpSpec == TcpInit /\ [][TcpNext]_tcpVars

-----------------------------------------------------------------------------
(* Properties.                                                             *)

\* The stream holds a descriptor exactly while it is waiting or connected, and
\* it is the one in sock: a reconnection leaks none.
SockOwned ==
    tcpPc # "closed" =>
        {f \in Fds : owner[f] = "tcp"} = IF svrState \in {1, 2} THEN {sock} ELSE {}
TcpInv == TcpTypeOK /\ SockOwned

\* "reconnect interval (ms)": after a connection was lost or dropped, or the name was
\* not found, no attempt is made before the interval has passed.
AttemptsSpaced == [][Connected \/ ConnectFails => gap >= TiRecon]_tcpVars

\* "inactive timeout (ms)": a connection whose far end stays silent is dropped.
SilentIsDropped == <>[](peer = "silent") => []<>(svrState # 2 \/ tcpPc = "closed")

\* A stream that is not in error keeps trying: it connects when the far end
\* stays up.
Reconnects == <>[](peer = "up") => []<>(svrState \in {-1, 2} \/ tcpPc = "closed")

\* Both: the client neither holds on to a dead connection nor gives a live peer up.
FollowsPeer == SilentIsDropped /\ Reconnects
=============================================================================
