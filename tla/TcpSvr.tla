------------------------------- MODULE TcpSvr -------------------------------
(***************************************************************************)
(* The TCP server stream (tcpsvr_t, src/src/stream/mrtk_stream.c): a         *)
(* listening socket, MAXCLI client slots, and the calls of strread and       *)
(* strwrite that serve them one after the other.  The NTRIP caster (module   *)
(* NtripCas) is built on the same slots; kind says which of the two a        *)
(* stream is.  A call is one thread's, as each stream has a lock; between    *)
(* two slots of its loops the clients go on.                                 *)
(*                                                                         *)
(* What a client sends is a sequence of tokens: the lines of its request and *)
(* "data".  What is written is counted in units (a chunk of at most 4096     *)
(* bytes), and a client has room for Room units it has not taken yet.        *)
(***************************************************************************)
EXTENDS Integers, Sequences, FiniteSets

CONSTANTS
    MaxCli,    \* MAXCLI
    Peers,     \* clients
    None,      \* no client
    SvrKinds,     \* the kinds of stream, "tcpsvr" and "ntripcas"
    Comers,    \* for each kind, the clients that come
    Asks,      \* the requests a client makes: [mp, auth, ver]
    NData,     \* data tokens of a client that wait to be received (bound)
    Room,      \* what a client and its connection hold
    MaxWrite   \* units of one write (bound)

ASSUME TcpSvrAssumption ==
    /\ {MaxCli, Room, MaxWrite} \subseteq Nat \ {0} /\ NData \in [Peers -> Nat]
    /\ MaxWrite <= Room /\ None \notin Peers
    /\ Comers \in [SvrKinds -> SUBSET Peers]
    /\ SvrKinds \subseteq {"tcpsvr", "ntripcas"}
    /\ Asks \in [Peers -> SUBSET [mp : {"ours", "other", "table"}, auth : BOOLEAN, ver : {1, 2}]]

VARIABLES
    kind,    \* stream->type
    svr,     \* svr.state; -1: the stream is not open
    cli,     \* the client whose socket cli[i] holds, None: cli[i].state = 0
    step,    \* the call under way: "idle", "accept", "request", "data"
    call,    \* "read" or "write"
    at,      \* the slot its loop has come to
    size,    \* units of the write under way
    done,    \* those the client of slot at has got
    net,     \* a client's connection: "out", "waiting" (to be accepted), "slot"
    fin,     \* it has closed its side
    ask,     \* what it asks for
    up,      \* what it has sent and the server has not received
    unread,  \* units it has not taken
    rx       \* what it got: the answer, how many of the last units written it has not
             \* got (-1: it got none yet), whether one was left out, how they were coded

owner   == <<kind, svr, cli, step, call, at, size, done>>
clients == <<net, fin, ask, up, unread, rx>>

Slots     == 0 .. MaxCli - 1
ReqTokens == {"ours", "other", "table", "ver", "agent", "auth", "data"}
NoAsk     == [mp |-> "table", auth |-> FALSE, ver |-> 1]
NoRx      == [rsp |-> "none", behind |-> -1, holed |-> FALSE, codes |-> {}]

SlotsTyped ==
    /\ kind \in SvrKinds /\ svr \in -1 .. 2 /\ cli \in [Slots -> Peers \cup {None}]
    /\ step \in {"idle", "accept", "request", "data"} /\ call \in {"read", "write"} /\ at \in Slots
    /\ size \in 0 .. MaxWrite /\ done \in 0 .. MaxWrite
    /\ net \in [Peers -> {"out", "waiting", "slot"}] /\ fin \in [Peers -> BOOLEAN]
    /\ \A p \in Peers : ask[p] \in Asks[p] \cup {NoAsk}
    /\ up \in [Peers -> Seq(ReqTokens)]
    /\ unread \in [Peers -> 0 .. Room]
    /\ rx \in [Peers -> [rsp : {"none", "ok1", "ok2", "refused"}, behind : -1 .. MaxWrite + 1,
                         holed : BOOLEAN, codes : SUBSET {"raw", "chunk", "term"}]]

\* opentcpsvr: listening, no clients
OpenSvr == svr = 1 /\ cli = [i \in Slots |-> None]

InitSvr ==
    /\ kind \in SvrKinds /\ OpenSvr
    /\ step = "idle" /\ call = "read" /\ at = 0 /\ size = 0 /\ done = 0
    /\ net = [p \in Peers |-> "out"] /\ fin = [p \in Peers |-> FALSE]
    /\ ask = [p \in Peers |-> NoAsk]
    /\ up = [p \in Peers |-> <<>>]
    /\ unread = [p \in Peers |-> 0] /\ rx = [p \in Peers |-> NoRx]

-----------------------------------------------------------------------------
(* Slots.                                                                  *)

\* discontcp and closesocket: the connection of the clients in ps ends
HangUp(ps) ==
    /\ net'    = [p \in Peers |-> IF p \in ps THEN "out" ELSE net[p]]
    /\ fin'    = [p \in Peers |-> IF p \in ps THEN FALSE ELSE fin[p]]
    /\ up'     = [p \in Peers |-> IF p \in ps THEN <<>> ELSE up[p]]
    /\ unread' = [p \in Peers |-> IF p \in ps THEN 0 ELSE unread[p]]
    /\ ask'    = [p \in Peers |-> IF p \in ps THEN NoAsk ELSE ask[p]]

\* what a client has got is forgotten, but for its coding
Forgotten(ps, r) ==
    [p \in Peers |-> IF p \in ps THEN [r[p] EXCEPT !.behind = -1, !.holed = FALSE] ELSE r[p]]

\* updatetcpsvr, for the slots c
Updated(c) == IF svr <= 0 THEN svr ELSE IF \A i \in Slots : c[i] = None THEN 1 ELSE 2

Free     == {i \in Slots : cli[i] = None}
Waiting  == {p \in Peers : net[p] = "waiting"}

\* Where a call goes on when waittcpsvr returns, the server's state being s: a TCP
\* server with no client has nothing to do, a caster skips the requests.
Accepted(s) ==
    /\ at' = 0
    /\ step' = CASE kind = "ntripcas" /\ s = 2 -> "request"
               [] kind = "ntripcas" /\ s # 2 -> "data"
               [] kind = "tcpsvr" /\ s = 2   -> "data"
               [] kind = "tcpsvr" /\ s # 2   -> "idle"

\* The loop over the slots goes on; the one over requests is followed by that over data.
EndOfLoop == IF step = "request" THEN "data" ELSE "idle"
NextSlot ==
    IF at + 1 < MaxCli THEN at' = at + 1 /\ UNCHANGED step ELSE at' = 0 /\ step' = EndOfLoop

Lesser(a, b) == IF a < b THEN a ELSE b

\* strread and strwrite
CallRead ==
    /\ step = "idle" /\ svr >= 0 /\ step' = "accept" /\ call' = "read" /\ size' = 0
    /\ UNCHANGED <<kind, svr, cli, at, done, clients>>

CallWrite ==
    /\ step = "idle" /\ svr >= 0 /\ step' = "accept" /\ call' = "write"
    /\ size' \in 1 .. MaxWrite
    /\ rx' = [p \in Peers |->
                [rx[p] EXCEPT !.behind = IF @ < 0 THEN @ ELSE Lesser(@ + size', MaxWrite + 1)]]
    /\ UNCHANGED <<kind, svr, cli, at, done, net, fin, ask, up, unread>>

\* mutant: clients beyond the slots count as accepted
AcceptEnd_Spins ==
    /\ step = "accept" /\ (svr <= 0 \/ Free = {} \/ Waiting = {})
    /\ svr' = Updated(cli)
    /\ IF Free = {} /\ svr > 0 /\ Waiting # {} THEN UNCHANGED <<at, step>> ELSE Accepted(svr')
    /\ UNCHANGED <<kind, cli, call, size, done, clients>>

\* accsock has no free slot or nobody to accept, or the server had failed before
AcceptEnd ==
    /\ step = "accept" /\ (svr <= 0 \/ Free = {} \/ Waiting = {})
    /\ svr' = Updated(cli) /\ Accepted(svr')
    /\ UNCHANGED <<kind, cli, call, size, done, clients>>

FirstFree == CHOOSE i \in Free : \A j \in Free : i <= j

\* accsock takes a client into the first free slot, and is called again
Accept(p) ==
    /\ step = "accept" /\ svr > 0 /\ Free # {} /\ net[p] = "waiting"
    /\ cli' = [cli EXCEPT ![FirstFree] = p] /\ net' = [net EXCEPT ![p] = "slot"]
    /\ UNCHANGED <<kind, svr, step, call, at, size, done, fin, ask, up, unread, rx>>

\* the options of the new socket cannot be set: it is closed
AcceptLost(p) ==
    /\ step = "accept" /\ svr > 0 /\ Free # {} /\ net[p] = "waiting"
    /\ HangUp({p}) /\ svr' = Updated(cli) /\ Accepted(svr')
    /\ UNCHANGED <<kind, cli, call, size, done, rx>>

\* accept fails: the listening socket is closed, and nothing opens another one
AcceptFails ==
    /\ step = "accept" /\ svr > 0 /\ Free # {}
    /\ svr' = 0 /\ HangUp(Waiting) /\ Accepted(0)
    /\ UNCHANGED <<kind, cli, call, size, done, rx>>

-----------------------------------------------------------------------------
(* send_nb and recv_nb at slot at.                                         *)

Here == cli[at]

\* recv_nb: some of what has arrived, the end of the connection, or nothing
Receives(k)  == up[Here] # <<>> /\ k \in 1 .. Len(up[Here])
FarEnd        == up[Here] = <<>> /\ fin[Here]
Silent       == up[Here] = <<>> /\ ~fin[Here]
Taken(k)     == up' = [up EXCEPT ![Here] = SubSeq(@, k + 1, Len(@))]

\* send_nb of n units: all of them, when there is room
\* (when there is some, but not enough, send waits) ...
Sends(n) == ~fin[Here] /\ unread[Here] + n <= Room
            /\ unread' = [unread EXCEPT ![Here] = @ + n]
\* ... not one, because select finds the socket not writable ...
Full == ~fin[Here] /\ unread[Here] = Room
\* ... or, with the other end closed, an error or nothing that anybody will read
Dead == fin[Here]

-----------------------------------------------------------------------------
(* readtcpsvr and writetcpsvr.                                             *)

AtClient == kind = "tcpsvr" /\ step = "data" /\ Here # None
SkipSlot == kind = "tcpsvr" /\ step = "data" /\ Here = None /\ NextSlot
            /\ UNCHANGED <<kind, svr, cli, call, size, done, clients>>

\* discontcp and updatetcpsvr
Drop ==
    /\ cli' = [cli EXCEPT ![at] = None] /\ svr' = Updated(cli') /\ HangUp({Here})
    /\ NextSlot /\ UNCHANGED <<kind, call, size, done, rx>>

\* The data of the first client that has some is returned.
TcpRead ==
    /\ AtClient /\ call = "read"
    /\ \E k \in 1 .. Len(up[Here]) : Receives(k) /\ Taken(k)
    /\ at' = 0 /\ step' = "idle"
    /\ UNCHANGED <<kind, svr, cli, call, size, done, net, fin, ask, unread, rx>>

TcpReadEnd == AtClient /\ call = "read" /\ FarEnd /\ Drop

TcpReadNone == AtClient /\ call = "read" /\ Silent /\ NextSlot
               /\ UNCHANGED <<kind, svr, cli, call, size, done, clients>>

TcpWrite ==
    /\ AtClient /\ call = "write" /\ Sends(size) /\ NextSlot
    /\ UNCHANGED <<kind, svr, cli, call, size, done, net, fin, ask, up, rx>>

\* A client with no room loses the units and stays; one that is gone is dropped when
\* send says so.
TcpWriteNone == AtClient /\ call = "write" /\ (Full \/ Dead) /\ NextSlot
                /\ UNCHANGED <<kind, svr, cli, call, size, done, clients>>

TcpWriteEnd == AtClient /\ call = "write" /\ Dead /\ Drop

-----------------------------------------------------------------------------
(* The clients.                                                            *)

\* The lines of a request the server looks for, in the order clients send them
\* (reqntrip_c).
RequestOf(a) ==
    <<a.mp>> \o (IF a.ver = 2 THEN <<"ver">> ELSE <<>>) \o <<"agent">>
    \o (IF a.auth THEN <<"auth">> ELSE <<>>)

\* A client comes and sends its request, or nothing yet: a TCP client sends data only, as
\* much and as long as it likes.
Connect(p) ==
    /\ p \in Comers[kind] /\ net[p] = "out" /\ svr > 0 /\ net' = [net EXCEPT ![p] = "waiting"]
    /\ \/ UNCHANGED <<ask, up>>
       \/ kind = "ntripcas" /\ \E a \in Asks[p] : ask' = [ask EXCEPT ![p] = a] /\ up' = [up EXCEPT ![p] = RequestOf(a)]
    /\ rx' = [rx EXCEPT ![p] = NoRx]
    /\ UNCHANGED <<owner, fin, unread>>

SendData(p) ==
    /\ net[p] # "out" /\ ~fin[p] /\ Len(SelectSeq(up[p], LAMBDA t : t = "data")) < NData[p]
    /\ up' = [up EXCEPT ![p] = Append(@, "data")]
    /\ UNCHANGED <<owner, net, fin, ask, unread, rx>>

Take(p) ==
    /\ unread[p] > 0 /\ unread' = [unread EXCEPT ![p] = @ - 1]
    /\ UNCHANGED <<owner, net, fin, ask, up, rx>>

\* It closes; what it has sent may be lost with the connection.
Leave(p) ==
    /\ net[p] # "out" /\ ~fin[p] /\ fin' = [fin EXCEPT ![p] = TRUE]
    /\ unread' = [unread EXCEPT ![p] = 0]
    /\ \E rest \in {up[p], <<>>} : up' = [up EXCEPT ![p] = rest]
    /\ UNCHANGED <<owner, net, ask, rx>>
=============================================================================
