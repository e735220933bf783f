------------------------------- MODULE NtripCli -------------------------------
(***************************************************************************)
(* The NTRIP client stream (ntrip_t with type 1, src/src/stream/             *)
(* mrtk_stream.c) above a TCP client (module TcpCli): the request, the       *)
(* choice between protocol version 2 and 1, the answer, and the data that    *)
(* follows it, raw or in chunks.                                            *)
(*                                                                         *)
(* A header is a few tokens, one per line the client looks for: "icy", "st" *)
(* (the HTTP status line, v its code), "chunk" (Transfer-Encoding: chunked), *)
(* "tbl" (the content is a source table), "end" (the empty line).  All that *)
(* follows is bytes of ChunkDec.                                            *)
(***************************************************************************)
EXTENDS Integers, FiniteSets, ChunkDec

CONSTANTS
    Ver,       \* ntrip->ver: 0 automatic, 1, 2
    Casters,   \* the casters at the address, see Answer
    Writing,   \* TRUE: positions are sent to the caster, too
    MaxRsp,    \* NTRIP_MAXRSP
    Raw,       \* size of raw[] in readntrip
    NOut,      \* the largest buffer a read is called with (bound)
    NPay,      \* payload of a connection (bound)
    Kinds      \* kinds of payload bytes

ASSUME NtripAssumption ==
    /\ Ver \in 0 .. 2 /\ Writing \in BOOLEAN
    /\ Casters \subseteq {"v1", "v1strict", "v2raw", "v2chunk", "flood"}
    /\ {MaxRsp, Raw, NOut, NPay} \subseteq Nat \ {0} /\ Raw < MaxRsp /\ Kinds \subseteq {"hex", "nl", "other"}

VARIABLES
    pc,       \* the read under way: "idle", "request", "response", "body"
    state,    \* ntrip->state
    link,     \* tcp->svr.state = 2
    buff,     \* ntrip->buff[0 .. nb-1]
    verNeg, v2Tried, chunked,
    dec,      \* ntrip->cdec
    calm,     \* no more errors: one caster stays, serves and does not hang up
    caster,   \* the caster at the address
    peer,     \* the caster's side of the connection is open
    asked,    \* version of the request it has not answered, 0: none
    talk,     \* what it sends: "none", "header", "raw", "chunk"
    wire,     \* what it has sent and the client has not received
    sent,     \* payload bytes sent on this connection
    got,      \* payload bytes the reads of this connection returned
    http      \* an answer in HTTP was seen (history)

client == <<pc, state, buff, verNeg, v2Tried, chunked, dec, got, http>>
far    == <<calm, caster, peer, asked, talk, wire, sent>>
vars   == <<client, link, far>>

Token(t, v) == [t |-> t, v |-> v, id |-> 0]
Byte(k, i)  == [t |-> k, v |-> IF k = "hex" THEN 1 ELSE 0, id |-> i]
Tokens      == [t : {"icy", "st", "chunk", "tbl", "end", "hex", "nl", "other"},
                v : Nat, id : 0 .. NPay]

TypeOK ==
    /\ pc \in {"idle", "request", "response", "body"} /\ state \in 0 .. 2
    /\ link \in BOOLEAN /\ peer \in BOOLEAN /\ chunked \in BOOLEAN /\ http \in BOOLEAN
    /\ verNeg \in 0 .. 2 /\ v2Tried \in 0 .. 2 /\ asked \in 0 .. 2
    /\ buff \in Seq(Tokens) /\ wire \in Seq(Tokens) /\ Len(buff) < MaxRsp
    /\ dec \in Decoders
    /\ calm \in BOOLEAN /\ caster \in Casters /\ talk \in {"none", "header", "raw", "chunk"}
    /\ sent \in 0 .. NPay /\ got \in Seq(0 .. NPay)

\* openntrip
Init ==
    /\ pc = "idle" /\ state = 0 /\ link = FALSE /\ buff = <<>>
    /\ verNeg = 0 /\ v2Tried = 0 /\ chunked = FALSE /\ dec = ChunkDecInit
    /\ calm = FALSE /\ caster \in Casters /\ peer = FALSE /\ asked = 0 /\ talk = "none"
    /\ wire = <<>> /\ sent = 0 /\ got = <<>> /\ http = FALSE

First(s, k) == SubSeq(s, 1, k)
After(s, k) == SubSeq(s, k + 1, Len(s))

\* discontcp
Discon ==
    /\ link' = FALSE /\ peer' = FALSE /\ asked' = 0 /\ talk' = "none" /\ wire' = <<>>
    /\ UNCHANGED <<calm, caster, sent>>

-----------------------------------------------------------------------------
(* The client.                                                             *)

\* mutant: the fallback is forgotten
UseV2_Always == Ver \in {0, 2}

UseV2 == Ver = 2 \/ (Ver = 0 /\ (v2Tried = 0 \/ verNeg = 2))

\* waitntrip is entered
Call ==
    /\ pc = "idle"
    /\ state' = IF link THEN state ELSE 0
    /\ v2Tried' = IF ~link /\ Ver = 0 /\ v2Tried # 0 /\ verNeg = 0 /\ buff = <<>>
                  THEN 2 ELSE v2Tried
    /\ pc' = CASE state' = 0 -> "request" [] state' = 1 -> "response" [] state' = 2 -> "body"
    /\ UNCHANGED <<link, buff, verNeg, chunked, dec, got, http, far>>

\* reqntrip_c on a connection that has come up; writetcpcli takes all or nothing
Request ==
    /\ pc = "request"
    /\ link' = TRUE /\ peer' = TRUE /\ asked' = IF UseV2 THEN 2 ELSE 1
    /\ talk' = "none" /\ wire' = <<>> /\ sent' = 0 /\ got' = <<>>
    /\ state' = 1 /\ v2Tried' = IF Ver = 0 /\ v2Tried = 0 THEN 1 ELSE v2Tried
    /\ pc' = "response"
    /\ UNCHANGED <<buff, verNeg, chunked, dec, calm, caster, http>>

\* no connection yet, or the request was not taken
RequestFails ==
    /\ pc = "request" /\ pc' = "idle"
    /\ UNCHANGED <<link, state, buff, verNeg, v2Tried, chunked, dec, got, http, far>>

\* the lines of an answer
Lines(b, t) == {i \in DOMAIN b : b[i].t = t}
HeaderEnd(b) == IF Lines(b, "end") = {} THEN 0
                ELSE CHOOSE e \in Lines(b, "end") : \A i \in Lines(b, "end") : e <= i
Header(b)    == First(b, HeaderEnd(b))
Status(b)    == IF b[1].t = "st" THEN b[1].v ELSE 0

\* rspntrip_c: "ICY 200 OK" anywhere in the buffer
Icy(b) ==
    /\ Lines(b, "icy") # {}
    /\ buff' = After(b, CHOOSE i \in Lines(b, "icy") : \A j \in Lines(b, "icy") : i <= j)
    /\ state' = 2 /\ verNeg' = 1 /\ chunked' = FALSE
    /\ v2Tried' = IF Ver = 0 THEN 1 ELSE v2Tried
    /\ pc' = "body" /\ UNCHANGED <<dec, got, http>>

\* a complete HTTP header with status 200
HttpOk(b) ==
    /\ Lines(b, "icy") = {} /\ HeaderEnd(b) > 0
    /\ Status(b) = 200 /\ Lines(Header(b), "tbl") = {}
    /\ state' = 2 /\ verNeg' = 2 /\ http' = TRUE /\ buff' = After(b, HeaderEnd(b))
    /\ IF Lines(Header(b), "chunk") # {} THEN chunked' = TRUE /\ dec' = ChunkDecInit
                                         ELSE UNCHANGED <<chunked, dec>>
    /\ pc' = "body" /\ UNCHANGED <<v2Tried, got>>

\* an error, or the source table although a mountpoint was asked for
HttpRefused(b) ==
    /\ Lines(b, "icy") = {} /\ HeaderEnd(b) > 0
    /\ Status(b) # 200 \/ Lines(Header(b), "tbl") # {}
    /\ http' = TRUE /\ buff' = <<>> /\ state' = 0 /\ pc' = "idle"
    /\ UNCHANGED <<verNeg, v2Tried, chunked, dec, got>>

\* not yet an answer
HeaderPart(b) ==
    /\ Lines(b, "icy") = {} /\ HeaderEnd(b) = 0
    /\ buff' = b /\ pc' = "idle"
    /\ UNCHANGED <<state, verNeg, v2Tried, chunked, dec, got, http>>

\* Nothing to receive, or a read of no bytes: the rest of a full buffer.
Space == MaxRsp - Len(buff) - 1

Response ==
    /\ pc = "response" /\ Space > 0
    /\ \E k \in 1 .. Len(wire) :
         /\ k <= Space
         /\ LET b == buff \o First(wire, k) IN
            \/ /\ Icy(b) \/ HttpOk(b) \/ HeaderPart(b)
               /\ wire' = After(wire, k) /\ UNCHANGED <<link, calm, caster, peer, asked, talk, sent>>
            \/ HttpRefused(b) /\ Discon

\* readtcpcli finds the connection closed or silent for too long, or has no room:
\* a recv of no bytes reads as the end of the connection
Ended == wire = <<>> /\ (~peer \/ ~calm)

Lost ==
    /\ \/ pc = "response" /\ (Ended \/ (Space = 0 /\ wire # <<>>))
       \/ pc = "body" /\ buff = <<>> /\ Ended
    /\ Discon /\ pc' = "idle"
    /\ UNCHANGED <<state, buff, verNeg, v2Tried, chunked, dec, got, http>>

\* writentrip, raw or as a chunk, to a caster that has closed the connection: what
\* it had sent is not read any more
WriteLost ==
    /\ pc = "body" /\ Writing /\ ~peer
    /\ Discon /\ pc' = "idle"
    /\ UNCHANGED <<state, buff, verNeg, v2Tried, chunked, dec, got, http>>

\* nothing yet
Nothing ==
    /\ wire = <<>> /\ peer
    /\ pc = "response" \/ (pc = "body" /\ buff = <<>>)
    /\ pc' = "idle"
    /\ UNCHANGED <<link, state, buff, verNeg, v2Tried, chunked, dec, got, http, far>>

Ids(s) == [i \in DOMAIN s |-> s[i].id]

\* the chunked branches of readntrip
Decoded(in, n) ==
    LET r == ChunkDecode(dec, in, n) IN
    IF r.err THEN buff' = <<>> /\ dec' = ChunkDecInit /\ UNCHANGED got
             ELSE buff' = r.rest /\ dec' = r.dec /\ got' = got \o Ids(r.out)

\* readntrip: first what is in the buffer ...
BodyBuff ==
    /\ pc = "body" /\ buff # <<>> /\ pc' = "idle"
    /\ \E n \in 1 .. NOut :
         IF chunked THEN Decoded(buff, n)
         ELSE LET k == IF Len(buff) <= n THEN Len(buff) ELSE n IN
              got' = got \o Ids(First(buff, k)) /\ buff' = After(buff, k) /\ UNCHANGED dec
    /\ UNCHANGED <<link, state, verNeg, v2Tried, chunked, http, far>>

\* ... then the connection
BodyWire ==
    /\ pc = "body" /\ buff = <<>> /\ pc' = "idle"
    /\ \E n \in 1 .. NOut, k \in 1 .. Len(wire) :
         /\ wire' = After(wire, k)
         /\ IF chunked THEN k <= Raw /\ Decoded(First(wire, k), n)
            ELSE k <= n /\ got' = got \o Ids(First(wire, k)) /\ UNCHANGED <<buff, dec>>
    /\ UNCHANGED <<link, state, verNeg, v2Tried, chunked, http, calm, caster, peer, asked, talk, sent>>

-----------------------------------------------------------------------------
(* The caster.                                                             *)

\* Answers to a request of version v, and what follows them.
Ok(ls) == <<Token("st", 200)>> \o ls \o <<Token("end", 0)>>
Answers(v) ==
    CASE caster = "v1"       -> {<<<<Token("icy", 0)>>, "raw">>}
      [] caster = "v1strict" -> IF v = 1 THEN {<<<<Token("icy", 0)>>, "raw">>} ELSE {}
      [] caster = "v2raw"    -> IF v = 2 THEN {<<Ok(<<>>), "raw">>} ELSE {}
      [] caster = "v2chunk"  -> IF v = 2 THEN {<<Ok(<<Token("chunk", 0)>>), "chunk">>} ELSE {}
      [] caster = "flood"    -> {<<[i \in 1 .. MaxRsp |-> Extension], "header">>}
Refusals ==
    {<<<<Token("st", 401), Token("end", 0)>>, "none">>, <<Ok(<<Token("tbl", 0)>>), "none">>}

Answer ==
    /\ peer /\ asked # 0 /\ asked' = 0
    /\ \E a \in Answers(asked) \cup (IF ~calm /\ caster \in {"v2raw", "v2chunk"}
                                     THEN Refusals ELSE {}) :
         wire' = wire \o a[1] /\ talk' = a[2]
    /\ UNCHANGED <<client, link, calm, caster, peer, sent>>

\* some lines of the header and a part of the next one, then the connection ends
AnswerCut ==
    /\ ~calm /\ peer /\ asked # 0 /\ asked' = 0
    /\ \E a \in Answers(asked), k \in 0 .. 2 :
         k < Len(a[1]) /\ wire' = wire \o First(a[1], k) \o <<Extension>>
    /\ peer' = FALSE /\ UNCHANGED <<client, link, calm, caster, talk, sent>>

\* a request the caster does not speak is dropped with the connection
Reject ==
    /\ peer /\ asked # 0 /\ Answers(asked) = {}
    /\ peer' = FALSE /\ asked' = 0 /\ UNCHANGED <<client, link, calm, caster, talk, wire, sent>>

Payload(m) == {[i \in 1 .. m |-> Byte(f[i], sent + i)] : f \in [1 .. m -> Kinds]}

Send ==
    /\ peer
    /\ \E m \in 1 .. NPay - sent : \E data \in Payload(m) :
         /\ \/ talk = "raw" /\ wire' = wire \o data
            \/ talk = "chunk" /\ m <= SizeMax /\ \E sz \in {Digits(m), <<Digit(0)>> \o Digits(m),
                                             Digits(m) \o <<Extension, Digit(0)>>} :
                   wire' = wire \o sz \o <<NewLine>> \o data \o <<NewLine>>
         /\ sent' = sent + m
    /\ UNCHANGED <<client, link, calm, caster, peer, asked, talk>>

\* the last chunk, with or without a trailer
Finish ==
    /\ peer /\ talk = "chunk" /\ peer' = FALSE
    /\ \E trailer \in {<<>>, <<Extension, NewLine>>} :
         wire' = wire \o <<Digit(0), NewLine>> \o trailer \o <<NewLine>>
    /\ UNCHANGED <<client, link, calm, caster, asked, talk, sent>>

Close ==
    /\ ~calm /\ peer /\ peer' = FALSE
    /\ UNCHANGED <<client, link, calm, caster, asked, talk, wire, sent>>

Replace ==
    /\ ~calm /\ ~link /\ caster' \in Casters
    /\ UNCHANGED <<client, link, calm, peer, asked, talk, wire, sent>>

Calm ==
    /\ calm' = TRUE
    /\ UNCHANGED <<client, link, caster, peer, asked, talk, wire, sent>>

Read == Call \/ Request \/ RequestFails \/ Response \/ Lost \/ WriteLost \/ Nothing
        \/ BodyBuff \/ BodyWire
Next == Read \/ Answer \/ AnswerCut \/ Reject \/ Send \/ Finish \/ Close \/ Replace \/ Calm

Spec == Init /\ [][Next]_vars

-----------------------------------------------------------------------------
(* Properties.                                                             *)

\* What the reads return is the payload the caster sent, in order and without gaps,
\* however the connection cuts headers and chunks and however small the caller's
\* buffer is; no byte of the framing is taken for payload.
DeliversInOrder == got = [i \in 1 .. Len(got) |-> i]

\* "ver_neg = 1 confirms v1 negotiation": while data flows, ver_neg is the version
\* this connection's caster answered in.
Negotiated == link /\ state = 2 => verNeg = IF caster \in {"v1", "v1strict"} THEN 1 ELSE 2
NtripInv == TypeOK /\ Negotiated /\ DeliversInOrder

\* "If an HTTP response was seen, the caster supports v2": it is asked in v2 again.
AsksV2Again == [][asked = 0 /\ asked' # 0 /\ Ver = 0 /\ http => asked' = 2]_vars

\* A stream with automatic version that has not met version 2 and has room in its
\* buffer gets data from a caster of version 1 when it connects again, also from one
\* that drops requests of version 2.  (With a full buffer it never does: see README.)
FallsBack ==
    Ver = 0 /\ calm /\ caster \in {"v1", "v1strict"} /\ ~link /\ verNeg # 2 /\ Space > 0
    ~> link /\ state = 2

\* When the caster closes the connection the client notices, whatever was left over.
NoticesClose == [](~peer => <>(~link))
=============================================================================
