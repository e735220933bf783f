------------------------------ MODULE NtripCas ------------------------------
(***************************************************************************)
(* The NTRIP caster stream (ntripc_t, src/src/stream/mrtk_stream.c): a TCP   *)
(* server whose clients are served after a request that names the mountpoint *)
(* and, if there is a password, proves to know it.  con[i] stands beside     *)
(* slot i of the server.                                                    *)
(***************************************************************************)
EXTENDS TcpSvr

CONSTANTS
    Passwd,    \* TRUE: the caster has a password
    Watched    \* clients Attended speaks of; as all are alike one will do
ASSUME CasterAssumption == Passwd \in BOOLEAN /\ Watched \subseteq Peers

VARIABLE con      \* con[i].state, .ver and .buff[0 .. nb-1]

casVars == <<owner, clients, con>>

NoCon == [state |-> 0, ver |-> 1, buff |-> <<>>]

CasTypeOK == SlotsTyped /\ con \in [Slots -> [state : 0 .. 1, ver : 1 .. 2, buff : Seq(ReqTokens)]]

\* openntripc
CasInit == InitSvr /\ con = [i \in Slots |-> NoCon]

-----------------------------------------------------------------------------
(* Connections.                                                            *)

\* the end of a chunked stream, to those who have room for it
Terminated(is, r) ==
    [p \in Peers |-> IF \E i \in is : cli[i] = p /\ con[i].state = 1 /\ con[i].ver = 2
                        /\ ~fin[p] /\ unread[p] < Room
                     THEN [r[p] EXCEPT !.codes = @ \cup {"term"}] ELSE r[p]]

\* mutant: the request stays in the buffer
DisconCli_Buff(r) ==
    /\ cli' = [cli EXCEPT ![at] = None] /\ HangUp({Here})
    /\ rx' = Forgotten({Here}, Terminated({at}, r))
    /\ con' = [con EXCEPT ![at].state = 0, ![at].ver = 1]

\* discon_ntripc, after the answer r was sent; the server's state is left for later
DisconCli(r) ==
    /\ cli' = [cli EXCEPT ![at] = None] /\ HangUp({Here})
    /\ rx' = Forgotten({Here}, Terminated({at}, r))
    /\ con' = [con EXCEPT ![at] = NoCon]

Has(b, t) == \E i \in DOMAIN b : b[i] = t

\* The line with GET, and the agent behind it.
Gets(b) == {i \in DOMAIN b : b[i] \in {"ours", "other", "table"}
                             /\ \E j \in DOMAIN b : j > i /\ b[j] = "agent"}
AskedVer(b)  == IF Has(b, "ver") THEN 2 ELSE 1

\* rsp_ntripc: a complete request for the caster's mountpoint
Granted(b)   == Gets(b) # {} /\ b[CHOOSE i \in Gets(b) : TRUE] = "ours" /\ (Passwd => Has(b, "auth"))

AtRequest == kind = "ntripcas" /\ step = "request"

SkipRequest ==
    /\ AtRequest /\ (Here = None \/ con[at].state = 1) /\ NextSlot
    /\ UNCHANGED <<kind, svr, cli, call, size, done, clients, con>>

\* wait_ntripc, and rsp_ntripc of what has come: the request is accepted ...
RequestOk ==
    /\ AtRequest /\ Here # None /\ con[at].state = 0
    /\ \E k \in 1 .. Len(up[Here]) :
         LET b == con[at].buff \o SubSeq(up[Here], 1, k) IN
         /\ Receives(k) /\ Taken(k) /\ Granted(b)
         /\ con' = [con EXCEPT ![at] = [state |-> 1, ver |-> AskedVer(b), buff |-> b]]
         /\ rx' = [rx EXCEPT ![Here].rsp = IF AskedVer(b) = 2 THEN "ok2" ELSE "ok1"]
    /\ NextSlot
    /\ UNCHANGED <<kind, svr, cli, call, size, done, net, fin, ask, unread>>

\* ... or refused, as is one that has not come in one piece, without an answer if the
\* part that came is no request
RequestBad ==
    /\ AtRequest /\ Here # None /\ con[at].state = 0
    /\ \E k \in 1 .. Len(up[Here]) :
         LET b == con[at].buff \o SubSeq(up[Here], 1, k) IN
         /\ Receives(k) /\ ~Granted(b)
         /\ DisconCli([rx EXCEPT ![Here].rsp = IF Gets(b) = {} THEN @ ELSE "refused"])
    /\ NextSlot /\ UNCHANGED <<kind, svr, call, size, done>>

RequestEnd ==
    /\ AtRequest /\ Here # None /\ con[at].state = 0 /\ FarEnd /\ DisconCli(rx) /\ NextSlot
    /\ UNCHANGED <<kind, svr, call, size, done>>

RequestNone ==
    /\ AtRequest /\ Here # None /\ con[at].state = 0 /\ Silent /\ NextSlot
    /\ UNCHANGED <<kind, svr, cli, call, size, done, clients, con>>

-----------------------------------------------------------------------------
(* readntripc and writentripc.                                             *)

AtCon == kind = "ntripcas" /\ step = "data" /\ con[at].state = 1

SkipCon ==
    /\ kind = "ntripcas" /\ step = "data" /\ con[at].state = 0 /\ NextSlot
    /\ UNCHANGED <<kind, svr, cli, call, size, done, clients, con>>

ConRead ==
    /\ AtCon /\ call = "read"
    /\ \E k \in 1 .. Len(up[Here]) : Receives(k) /\ Taken(k)
    /\ at' = 0 /\ step' = "idle"
    /\ UNCHANGED <<kind, svr, cli, call, size, done, net, fin, ask, unread, rx, con>>

\* mutant: an end of the connection in good order is taken for silence
ConReadEnd_Errno ==
    /\ AtCon /\ call = "read" /\ FarEnd /\ NextSlot
    /\ UNCHANGED <<kind, svr, cli, call, size, done, clients, con>>

ConReadEnd ==
    /\ AtCon /\ call = "read" /\ FarEnd /\ DisconCli(rx) /\ NextSlot
    /\ UNCHANGED <<kind, svr, call, size, done>>

ConReadNone ==
    /\ AtCon /\ call = "read" /\ Silent /\ NextSlot
    /\ UNCHANGED <<kind, svr, cli, call, size, done, clients, con>>

\* what the client gets of a write, from its u-th unit on
Gains(u, n, code) ==
    rx' = [rx EXCEPT ![Here].behind = size - u - n + 1, ![Here].codes = @ \cup {code},
                     ![Here].holed = @ \/ rx[Here].behind > size - u + 1]

\* version 1: the data as they are
WriteRaw ==
    /\ AtCon /\ call = "write" /\ con[at].ver = 1
    /\ Sends(size) /\ Gains(1, size, "raw") /\ NextSlot
    /\ UNCHANGED <<kind, svr, cli, call, size, done, net, fin, ask, up, con>>

\* version 2: chunk by chunk
WriteChunk ==
    /\ AtCon /\ call = "write" /\ con[at].ver = 2
    /\ Sends(1) /\ Gains(done + 1, 1, "chunk")
    /\ IF done + 1 < size THEN done' = done + 1 /\ UNCHANGED <<at, step>> ELSE done' = 0 /\ NextSlot
    /\ UNCHANGED <<kind, svr, cli, call, size, net, fin, ask, up, con>>

\* a client with no room is dropped, like one that is gone
WriteFails ==
    /\ AtCon /\ call = "write" /\ (Full \/ Dead) /\ DisconCli(rx)
    /\ done' = 0 /\ NextSlot /\ UNCHANGED <<kind, svr, call, size>>

\* the end of the other side has not been noticed yet
WriteVoid ==
    /\ AtCon /\ call = "write" /\ Dead
    /\ IF con[at].ver = 2 /\ done + 1 < size THEN done' = done + 1 /\ UNCHANGED <<at, step>>
       ELSE done' = 0 /\ NextSlot
    /\ UNCHANGED <<kind, svr, cli, call, size, clients, con>>

-----------------------------------------------------------------------------
\* closetcpsvr, closentripc
CasClose ==
    /\ step = "idle" /\ svr >= 0 /\ svr' = -1 /\ cli' = [i \in Slots |-> None]
    /\ HangUp(Peers) /\ rx' = Forgotten(Peers, Terminated(Slots, rx)) /\ con' = [i \in Slots |-> NoCon]
    /\ UNCHANGED <<kind, step, call, at, size, done>>

\* opentcpsvr, openntripc
CasOpen ==
    /\ svr = -1 /\ svr' = 1 /\ UNCHANGED <<kind, cli, step, call, at, size, done, clients, con>>

Calls == (CallRead \/ CallWrite) /\ UNCHANGED con
Accepts == /\ AcceptEnd \/ AcceptFails \/ \E p \in Peers : Accept(p) \/ AcceptLost(p)
           /\ UNCHANGED con
TcpSteps == /\ SkipSlot \/ TcpRead \/ TcpReadEnd \/ TcpReadNone
               \/ TcpWrite \/ TcpWriteNone \/ TcpWriteEnd
            /\ UNCHANGED con
CasSteps == SkipRequest \/ RequestOk \/ RequestBad \/ RequestEnd \/ RequestNone
            \/ SkipCon \/ ConRead \/ ConReadEnd \/ ConReadNone
            \/ WriteRaw \/ WriteChunk \/ WriteFails \/ WriteVoid
Steps == Accepts \/ TcpSteps \/ CasSteps
Client(p) == (Connect(p) \/ SendData(p) \/ Take(p) \/ Leave(p)) /\ UNCHANGED con

CasNext == Calls \/ Steps \/ CasClose \/ CasOpen \/ \E p \in Peers : Client(p)

-----------------------------------------------------------------------------
(* Properties.                                                             *)

Entitled(a) == a.mp = "ours" /\ (Passwd => a.auth)

\* con[i] and cli[i] describe the same client: a connection in state 1 is that of the
\* client in the slot, who asked for what he is given, in a version he speaks, and a slot
\* that is free or new starts with nothing of the one before.
SlotsAgree ==
    \A i \in Slots :
      IF con[i].state = 1
      THEN /\ cli[i] # None /\ Entitled(ask[cli[i]]) /\ con[i].ver <= ask[cli[i]].ver
           /\ rx[cli[i]].rsp = (IF con[i].ver = 2 THEN "ok2" ELSE "ok1")
      ELSE con[i] = NoCon

\* Who is not entitled gets no data, and the data are coded as the answer has announced.
RightCoding ==
    kind = "ntripcas" =>
      \A p \in Peers : /\ rx[p].codes # {} /\ net[p] = "slot" => Entitled(ask[p])
                       /\ rx[p].codes \subseteq CASE rx[p].rsp = "ok1" -> {"raw"}
                                                  [] rx[p].rsp = "ok2" -> {"chunk", "term"}
                                                  [] OTHER -> {}

\* A client of the caster that falls behind is dropped: nobody gets data with a hole.
\* (A client of the TCP server stays and misses them.)
NoHoles == kind = "ntripcas" => \A p \in Peers : ~rx[p].holed

CasterInv == CasTypeOK /\ SlotsAgree /\ RightCoding /\ NoHoles

\* The slot of a client.  Where the server has failed, nobody looks at the clients of a
\* TCP server any more, nor at a caster's who have not been accepted by then.
In(p)        == \E i \in Slots : cli[i] = p
Abandoned(p) == svr = 0 /\ \A i \in Slots : cli[i] = p => con[i].state = 0

\* A read comes to the client's slot, or clients in the slots before it have data.
Reached(p) == call = "read" /\ step = "data" /\ cli[at] = p
Busy(p)    == \E i, j \in Slots : i < j /\ cli[j] = p /\ cli[i] # None /\ up[cli[i]] # <<>>

\* As long as nobody connects anew, whoever sends from a slot is read (as part of a request,
\* by the caster), and whoever leaves does not keep his slot, also when the server accepts
\* nobody any more: unless the slots before his have data again and again, for reads that
\* never get as far as his (readtcpsvr and readntripc return the data of the first slot).
Attended ==
    \A p \in Watched :
      \/ []<>Busy(p) /\ <>[]~Reached(p)
      \/ In(p) /\ (up[p] # <<>> \/ fin[p])
           ~> (up[p] = <<>> /\ ~fin[p]) \/ Abandoned(p) \/ Waiting # {}

\* A call returns when clients take what is sent to them or leave.
CallsReturn == step # "idle" ~> step = "idle"
=============================================================================
