----------------------------- MODULE NtripProofs ----------------------------
(***************************************************************************)
(* Proofs of the invariants of the NTRIP caster (NtripCas) and of the      *)
(* client (NtripCli), for any number of slots and clients and any buffers. *)
(*                                                                         *)
(* Neither is inductive as it stands.  The caster: that nobody gets data   *)
(* with a hole needs to be known of every slot what its client still lacks *)
(* of the write under way (Balance), and that data are coded as announced  *)
(* needs that a client without an answer has nothing (Fresh), that two     *)
(* slots never hold one client (OneSlot) and that what has been received   *)
(* of a client is what he asks for (Asked).  The client: what it has       *)
(* returned, what is in its buffer and what is on the wire must be known   *)
(* to join (Receiving), also while the answer is under way (Awaited).  So  *)
(* the second part, from "Pieces of sequences", says what the decoder makes*)
(* of a stretch of bytes that is cut anywhere (Runs, DecodeRuns).          *)
(***************************************************************************)
EXTENDS Ntrip, SequenceTheorems, WellFoundedInduction, TLAPS

\* What a client may have sent that asks for a.
TokensOf(a) == {a.mp, "agent", "data"} \cup (IF a.ver = 2 THEN {"ver"} ELSE {}) \cup (IF a.auth THEN {"auth"} ELSE {})

RxRec == [rsp : {"none", "ok1", "ok2", "refused"}, behind : -1 .. MaxWrite + 1,
          holed : BOOLEAN, codes : SUBSET {"raw", "chunk", "term"}]

AnyAsk == [mp : {"ours", "other", "table"}, auth : BOOLEAN, ver : {1, 2}]

-----------------------------------------------------------------------------
(* The inductive invariant.                                                *)

\* Connections and slots, and the call under way
Conns ==
    /\ cli \in [Slots -> Peers \cup {None}]
    /\ con \in [Slots -> [state : 0 .. 1, ver : 1 .. 2, buff : Seq(ReqTokens)]]
    /\ net \in [Peers -> {"out", "waiting", "slot"}] /\ fin \in [Peers -> BOOLEAN]
    /\ ask \in [Peers -> AnyAsk] /\ \A p \in Peers : ask[p] \in Asks[p] \cup {NoAsk}
    /\ up \in [Peers -> Seq(ReqTokens)] /\ unread \in [Peers -> 0 .. Room]
    /\ rx \in [Peers -> RxRec]

CallTypes ==
    /\ kind \in SvrKinds /\ svr \in -1 .. 2
    /\ step \in {"idle", "accept", "request", "data"} /\ call \in {"read", "write"} /\ at \in Slots
    /\ size \in 0 .. MaxWrite /\ (call = "read" => size = 0) /\ done \in 0 .. MaxWrite
    /\ done > 0 => /\ kind = "ntripcas" /\ step = "data" /\ done < size
                   /\ con[at].state = 1 /\ con[at].ver = 2

CasTypes == Conns /\ CallTypes

\* A client is in one slot, and a TCP server leaves the caster's part alone.
OneSlot ==
    /\ \A i \in Slots : cli[i] # None => net[cli[i]] = "slot"
    /\ \A i, j \in Slots : cli[i] # None /\ cli[i] = cli[j] => i = j
    /\ kind # "ntripcas" => \A i \in Slots : con[i] = NoCon

\* What has come is what its client asks for.
Asked == \A p \in Peers : \A j \in DOMAIN up[p] : up[p][j] \in TokensOf(ask[p])

\* Who has no answer yet has got nothing.
Fresh ==
    /\ \A p \in Peers : net[p] = "waiting" => rx[p] = NoRx
    /\ \A i \in Slots : cli[i] # None /\ con[i].state = 0 => rx[cli[i]] = NoRx

Coded(p) ==
    /\ rx[p].codes # {} /\ net[p] = "slot" => Entitled(ask[p])
    /\ rx[p].codes # {} => rx[p].rsp \in {"ok1", "ok2"}
    /\ rx[p].rsp = "ok1" => rx[p].codes \subseteq {"raw"}
    /\ rx[p].rsp = "ok2" => rx[p].codes \subseteq {"chunk", "term"}
    /\ rx[p].holed = FALSE

\* The units of the write under way that are still to come to slot i.
Owed(i) == IF step = "idle" \/ (step = "data" /\ i < at) THEN 0
           ELSE IF step = "data" /\ i = at THEN size - done ELSE size

\* A client that has not closed its side and got units before lacks none but these.
Balance == \A i \in Slots : con[i].state = 1 /\ fin[cli[i]] = FALSE
                               => rx[cli[i]].behind \in {-1, Owed(i)}

\* The inductive invariant: CasterInv and what it rests on
CasStrong == CasTypes /\ OneSlot /\ Asked /\ Fresh /\ SlotsAgree /\ (\A p \in Peers : Coded(p)) /\ Balance

\* what it says of the clients, apart from types and from what they are owed
Rest == OneSlot /\ Asked /\ Fresh /\ SlotsAgree /\ (\A p \in Peers : Coded(p))

\* Steps of a call that change no connection.
LEMMA RestKept == ASSUME Rest, UNCHANGED <<kind, cli, net, ask, up, rx, con>> PROVE Rest'
  BY DEF Rest, OneSlot, Asked, Fresh, SlotsAgree, Coded, Entitled

\* What a client got is as it was.
LEMMA CodedStays ==
  ASSUME NEW p \in Peers, Coded(p), rx'[p] = rx[p], ask'[p] = ask[p], net'[p] = net[p]
  PROVE  Coded(p)'
  BY DEF Coded, Entitled

\* A slot and its client are as they were.
LEMMA SlotStays ==
  ASSUME SlotsAgree, NEW i \in Slots, con'[i] = con[i], cli'[i] = cli[i],
         cli[i] # None => ask'[cli[i]] = ask[cli[i]] /\ rx'[cli[i]].rsp = rx[cli[i]].rsp
  PROVE  IF con'[i].state = 1
         THEN /\ cli'[i] # None /\ Entitled(ask'[cli'[i]]) /\ con'[i].ver <= ask'[cli'[i]].ver
              /\ rx'[cli'[i]].rsp = (IF con'[i].ver = 2 THEN "ok2" ELSE "ok1")
         ELSE con'[i] = NoCon
<1>1. CASE con[i].state = 1
  BY <1>1 DEF SlotsAgree
<1>2. CASE con[i].state # 1
  BY <1>2 DEF SlotsAgree
<1>. QED  BY <1>1, <1>2

LEMMA SlotsStay ==
  ASSUME SlotsAgree,
         \A i \in Slots : \/ con'[i] = NoCon
                          \/ /\ con'[i] = con[i] /\ cli'[i] = cli[i]
                             /\ cli[i] # None => ask'[cli[i]] = ask[cli[i]] /\ rx'[cli[i]].rsp = rx[cli[i]].rsp
  PROVE  SlotsAgree'
<1>1. Slots' = Slots
  BY DEF Slots
<1>. SUFFICES ASSUME NEW i \in Slots
              PROVE  IF con'[i].state = 1
                     THEN /\ cli'[i] # None /\ Entitled(ask'[cli'[i]]) /\ con'[i].ver <= ask'[cli'[i]].ver
                          /\ rx'[cli'[i]].rsp = (IF con'[i].ver = 2 THEN "ok2" ELSE "ok1")
                     ELSE con'[i] = NoCon
  BY <1>1 DEF SlotsAgree, Entitled
<1>2. CASE con'[i] = NoCon
  BY <1>2 DEF NoCon
<1>3. CASE con'[i] # NoCon
  BY <1>3, SlotStays
<1>. QED  BY <1>2, <1>3

\* What clients send or close changes nothing but what has come.
LEMMA SentKept ==
  ASSUME Rest, UNCHANGED <<kind, cli, net, ask, rx, con>>
  PROVE  OneSlot' /\ Fresh' /\ SlotsAgree' /\ \A p \in Peers : Coded(p)'
<1>1. Slots' = Slots
  BY DEF Slots
<1>2. SlotsAgree'
  BY SlotsStay DEF Rest
<1>3. ASSUME NEW p \in Peers PROVE Coded(p)'
  BY CodedStays DEF Rest
<1>4. OneSlot' /\ Fresh'
  BY <1>1 DEF Rest, OneSlot, Fresh
<1>. QED  BY <1>2, <1>3, <1>4

-----------------------------------------------------------------------------
(* Lemmas on the state, on records and on what a slot is owed.               *)

\* What the types and the assumption on the constants give the steps below
LEMMA CasFacts ==
  ASSUME CasTypes
  PROVE  /\ MaxCli \in Nat /\ MaxCli > 0 /\ MaxWrite \in Nat /\ MaxWrite > 0 /\ Room \in Nat /\ MaxWrite <= Room
         /\ None \notin Peers /\ at \in 0 .. MaxCli - 1 /\ Slots = 0 .. MaxCli - 1
         /\ cli \in [Slots -> Peers \cup {None}]
         /\ con \in [Slots -> [state : 0 .. 1, ver : 1 .. 2, buff : Seq(ReqTokens)]]
         /\ net \in [Peers -> {"out", "waiting", "slot"}] /\ fin \in [Peers -> BOOLEAN]
         /\ ask \in [Peers -> AnyAsk]
         /\ up \in [Peers -> Seq(ReqTokens)] /\ unread \in [Peers -> 0 .. Room]
         /\ rx \in [Peers -> RxRec]
         /\ step \in {"idle", "accept", "request", "data"} /\ call \in {"read", "write"}
         /\ size \in 0 .. MaxWrite /\ done \in 0 .. MaxWrite /\ svr \in -1 .. 2
         /\ kind \in {"tcpsvr", "ntripcas"}
  BY TcpSvrAssumption DEF CasTypes, Conns, CallTypes, Slots

\* The types of the proof are those of the model.
LEMMA CasTyped == CasTypes => CasTypeOK
<1>. SUFFICES ASSUME CasTypes PROVE CasTypeOK
  OBVIOUS
<1>. QED  BY DEF CasTypes, CasTypeOK, SlotsTyped, Conns, CallTypes, RxRec

\* What a client got, with another answer, another coding, or forgotten
LEMMA RxChanged ==
  ASSUME NEW x \in RxRec, MaxWrite \in Nat
  PROVE  /\ [x EXCEPT !.rsp = "refused"] \in RxRec
         /\ [x EXCEPT !.rsp = "refused"].codes = x.codes /\ [x EXCEPT !.rsp = "refused"].rsp = "refused"
         /\ [x EXCEPT !.codes = @ \cup {"term"}] \in RxRec
         /\ [x EXCEPT !.codes = @ \cup {"term"}].rsp = x.rsp
         /\ [x EXCEPT !.codes = @ \cup {"term"}].codes = x.codes \cup {"term"}
         /\ [x EXCEPT !.behind = -1, !.holed = FALSE] \in RxRec
         /\ [x EXCEPT !.behind = -1, !.holed = FALSE].rsp = x.rsp
         /\ [x EXCEPT !.behind = -1, !.holed = FALSE].codes = x.codes
         /\ [x EXCEPT !.behind = -1, !.holed = FALSE].behind = -1
         /\ [x EXCEPT !.behind = -1, !.holed = FALSE].holed = FALSE
<1>1. x.codes \cup {"term"} \in SUBSET {"raw", "chunk", "term"}
  BY DEF RxRec
<1>2. [x EXCEPT !.rsp = "refused"] \in RxRec
  BY DEF RxRec
<1>3. [x EXCEPT !.codes = @ \cup {"term"}] \in RxRec
  <2>. DEFINE codes == SUBSET {"raw", "chunk", "term"}
              more1 == x.codes \cup {"term"}
  <2>1. more1 \in codes /\ x \in [rsp : {"none", "ok1", "ok2", "refused"}, behind : -1 .. MaxWrite + 1,
                                  holed : BOOLEAN, codes : codes]
    BY <1>1 DEF RxRec
  <2>2. [x EXCEPT !.codes = @ \cup {"term"}] = [x EXCEPT !.codes = more1]
    OBVIOUS
  <2>. HIDE DEF more1, codes
  <2>3. [x EXCEPT !.codes = more1] \in [rsp : {"none", "ok1", "ok2", "refused"}, behind : -1 .. MaxWrite + 1,
                                      holed : BOOLEAN, codes : codes]
    BY <2>1
  <2>. QED  BY <2>2, <2>3 DEF RxRec, codes
<1>4. [x EXCEPT !.behind = -1, !.holed = FALSE] \in RxRec
  <2>. DEFINE zs == -1 .. MaxWrite + 1
              codes == SUBSET {"raw", "chunk", "term"}
  <2>1. -1 \in zs /\ x \in [rsp : {"none", "ok1", "ok2", "refused"}, behind : zs, holed : BOOLEAN, codes : codes]
    BY DEF RxRec
  <2>. HIDE DEF zs, codes
  <2>2. [x EXCEPT !.behind = -1, !.holed = FALSE]
            \in [rsp : {"none", "ok1", "ok2", "refused"}, behind : zs, holed : BOOLEAN, codes : codes]
    BY <2>1
  <2>. QED  BY <2>2 DEF RxRec, zs, codes
<1>5. DOMAIN x = {"rsp", "behind", "holed", "codes"}
  BY DEF RxRec
<1>. QED  BY <1>2, <1>3, <1>4, <1>5

\* The connections of some clients end.
LEMMA HungUp ==
  ASSUME CasTypes, NEW ps \in SUBSET Peers, HangUp(ps)
  PROVE  /\ net' \in [Peers -> {"out", "waiting", "slot"}] /\ fin' \in [Peers -> BOOLEAN]
         /\ ask' \in [Peers -> AnyAsk]
         /\ \A p \in Peers : ask'[p] \in Asks[p] \cup {NoAsk}
         /\ up' \in [Peers -> Seq(ReqTokens)] /\ unread' \in [Peers -> 0 .. Room]
         /\ \A p \in ps : net'[p] = "out" /\ up'[p] = <<>>
         /\ \A p \in Peers \ ps : net'[p] = net[p] /\ fin'[p] = fin[p] /\ ask'[p] = ask[p] /\ up'[p] = up[p]
         /\ Asked => Asked'
<1>. USE CasFacts
<1>1. net' \in [Peers -> {"out", "waiting", "slot"}]
  BY DEF HangUp
<1>2. fin' \in [Peers -> BOOLEAN]
  BY DEF HangUp
<1>3. ask' \in [Peers -> AnyAsk]
  BY DEF HangUp, NoAsk, AnyAsk
<1>5. up' \in [Peers -> Seq(ReqTokens)]
  BY DEF HangUp
<1>6. unread' \in [Peers -> 0 .. Room]
  BY DEF HangUp
<1>7. \A p \in ps : net'[p] = "out" /\ up'[p] = <<>>
  BY DEF HangUp
<1>8. \A p \in Peers \ ps : net'[p] = net[p] /\ fin'[p] = fin[p] /\ ask'[p] = ask[p] /\ up'[p] = up[p]
  BY DEF HangUp
<1>9. \A p \in Peers : ask'[p] \in Asks[p] \cup {NoAsk}
  <2>1. \A p \in Peers : ask[p] \in Asks[p] \cup {NoAsk}
    BY TcpSvrAssumption DEF CasTypes, Conns
  <2>2. TAKE p \in Peers
  <2>3. CASE p \in ps
    BY <2>1, <2>3 DEF HangUp
  <2>4. CASE p \notin ps
    BY <2>1, <2>4 DEF HangUp
  <2>. QED  BY <2>3, <2>4
<1>10. Asked => Asked'
  <2>1. SUFFICES ASSUME Asked, NEW p \in Peers, NEW j \in DOMAIN up'[p] PROVE up'[p][j] \in TokensOf(ask'[p])
    BY DEF Asked
  <2>2. p \notin ps
    BY <1>7
  <2>. QED  BY <1>8, <2>1, <2>2 DEF Asked
<1>. QED  BY <1>1, <1>2, <1>3, <1>5, <1>6, <1>7, <1>8, <1>9, <1>10

\* What a slot is owed when the loop over the slots goes on
LEMMA OwedNext ==
  ASSUME CasTypes, step \in {"request", "data"}, NextSlot, size' = size, done' = 0
  PROVE  /\ at' \in Slots /\ step' \in {"idle", "request", "data"}
         /\ \A i \in Slots \ {at} : Owed(i)' = Owed(i)
         /\ \A i \in Slots : i = at => Owed(i)' = IF step = "data" THEN 0 ELSE Owed(i)
<1>. USE CasFacts DEF NextSlot, EndOfLoop, Owed
<1>1. at' \in Slots /\ step' \in {"idle", "request", "data"}
  OBVIOUS
<1>2. CASE step = "request"
  <2>1. done = 0
    BY <1>2 DEF CasTypes, CallTypes
  <2>. QED  BY <1>1, <1>2, <2>1
<1>3. CASE step = "data"
  <2>1. ASSUME NEW i \in Slots, i # at PROVE Owed(i)' = Owed(i)
    <3>1. i \in Nat /\ at \in Nat /\ i < MaxCli /\ done' = 0 /\ size' = size /\ size \in Nat
      BY <2>1
    <3>2. CASE at + 1 < MaxCli
      BY <1>3, <2>1, <3>1, <3>2
    <3>3. CASE ~(at + 1 < MaxCli)
      BY <1>3, <2>1, <3>1, <3>3
    <3>. QED  BY <3>2, <3>3
  <2>2. ASSUME NEW i \in Slots, i = at PROVE Owed(i)' = 0
    <3>1. CASE at + 1 < MaxCli
      BY <1>3, <2>2, <3>1
    <3>2. CASE ~(at + 1 < MaxCli)
      BY <1>3, <2>2, <3>2
    <3>. QED  BY <3>1, <3>2
  <2>. QED  BY <1>1, <1>3, <2>1, <2>2
<1>. QED  BY <1>2, <1>3

\* A connection that is as it was
Same(i) == /\ con'[i] = con[i] /\ cli'[i] = cli[i]
           /\ cli[i] # None => rx'[cli[i]].behind = rx[cli[i]].behind /\ fin'[cli[i]] = fin[cli[i]]

\* The balance is kept where a slot is dropped or neither gets nor is owed anything new.
LEMMA BalanceKept ==
  ASSUME CasTypes, SlotsAgree, Balance,
         \A i \in Slots : \/ con'[i].state = 0
                          \/ Same(i) /\ (con[i].state = 1 /\ fin[cli[i]] = FALSE => Owed(i)' = Owed(i))
  PROVE  Balance'
<1>. SUFFICES ASSUME NEW i \in Slots', con'[i].state = 1, fin'[cli'[i]] = FALSE
              PROVE  rx'[cli'[i]].behind \in {-1, Owed(i)'}
  BY DEF Balance
<1>1. i \in Slots /\ Same(i)
  BY DEF Slots
<1>2. con[i].state = 1 /\ cli[i] # None
  BY <1>1 DEF Same, SlotsAgree
<1>3. fin[cli[i]] = FALSE /\ rx'[cli'[i]].behind = rx[cli[i]].behind
  BY <1>1, <1>2 DEF Same
<1>. QED  BY <1>1, <1>2, <1>3 DEF Balance

\* The client of a slot is dropped by the caster.
LEMMA Dropped ==
  ASSUME CasTypes, Rest, kind = "ntripcas", UNCHANGED <<kind, svr>>, Here # None, NEW r, DisconCli(r),
         r = rx \/ (con[at].state = 0 /\ r = [rx EXCEPT ![Here].rsp = "refused"])
  PROVE  /\ Conns'
         /\ Rest' /\ con'[at].state = 0
         /\ \A i \in Slots \ {at} : Same(i)
<1>. DEFINE x == rx[Here]
            c == con[at]
            y == rx'[Here]
<1>1. /\ Here \in Peers /\ at \in Slots /\ con \in [Slots -> [state : 0 .. 1, ver : 1 .. 2, buff : Seq(ReqTokens)]]
      /\ cli \in [Slots -> Peers \cup {None}] /\ rx \in [Peers -> RxRec] /\ None \notin Peers /\ MaxWrite \in Nat
      /\ x \in RxRec
  <2>1. rx \in [Peers -> RxRec] /\ Here \in Peers
    BY CasFacts DEF Here
  <2>. QED  BY <2>1, CasFacts
<1>2. cli' = [cli EXCEPT ![at] = None] /\ HangUp({Here}) /\ con' = [con EXCEPT ![at] = NoCon]
      /\ rx' = Forgotten({Here}, Terminated({at}, r))
  BY DEF DisconCli
<1>3. OneSlot /\ Asked /\ Fresh /\ SlotsAgree /\ Coded(Here)
  BY <1>1 DEF Rest
<1>4. cli[at] = Here /\ (\A i \in Slots : cli[i] = Here => i = at)
  BY <1>1, <1>3 DEF OneSlot, Here
<1>5. \A p \in Peers \ {Here} : rx'[p] = rx[p]
  BY <1>1, <1>2, <1>4 DEF Forgotten, Terminated
<1>6. /\ y.behind = -1 /\ y.holed = FALSE /\ y \in RxRec
      /\ \/ y.rsp = x.rsp /\ y.codes = x.codes
         \/ y.rsp = x.rsp /\ y.codes = x.codes \cup {"term"} /\ c.state = 1 /\ c.ver = 2
         \/ y.rsp = "refused" /\ y.codes = x.codes /\ c.state = 0
  <2>. DEFINE t == Terminated({at}, r)[Here]
  <2>0. x \in RxRec /\ x = rx[Here] /\ Here \in DOMAIN rx
    BY <1>1
  <2>1. r[Here] \in RxRec /\ r[Here].codes = x.codes /\ (r[Here].rsp = x.rsp \/ (r[Here].rsp = "refused" /\ c.state = 0))
        /\ (c.state = 1 => r[Here].rsp = x.rsp)
    <3>. HIDE DEF x, c
    <3>1. CASE r = rx
      BY <2>0, <3>1
    <3>2. CASE con[at].state = 0 /\ r = [rx EXCEPT ![Here].rsp = "refused"]
      <4>1. r[Here] = [x EXCEPT !.rsp = "refused"]
        BY <2>0, <3>2
      <4>2. c.state = 0
        BY <3>2 DEF c
      <4>3. /\ [x EXCEPT !.rsp = "refused"] \in RxRec /\ [x EXCEPT !.rsp = "refused"].codes = x.codes
            /\ [x EXCEPT !.rsp = "refused"].rsp = "refused"
        BY <1>1, <2>0, RxChanged
      <4>. QED  BY <4>1, <4>2, <4>3
    <3>. QED  BY <3>1, <3>2
  <2>2. t = r[Here] \/ (t = [r[Here] EXCEPT !.codes = @ \cup {"term"}] /\ c.state = 1 /\ c.ver = 2)
    BY <1>1 DEF Terminated
  <2>3. y = [t EXCEPT !.behind = -1, !.holed = FALSE]
    BY <1>1, <1>2 DEF Forgotten
  <2>. HIDE DEF t, x, c, y
  <2>6. t \in RxRec /\ t.rsp = r[Here].rsp /\ (t.codes = r[Here].codes \/ (t.codes = r[Here].codes \cup {"term"} /\ c.state = 1 /\ c.ver = 2))
    <3>1. r[Here] \in RxRec /\ MaxWrite \in Nat
      BY <1>1, <2>1
    <3>2. CASE t = r[Here]
      BY <3>1, <3>2
    <3>3. CASE t = [r[Here] EXCEPT !.codes = @ \cup {"term"}] /\ c.state = 1 /\ c.ver = 2
      <4>. DEFINE q == r[Here]
      <4>1. q \in RxRec
        BY <3>1
      <4>. HIDE DEF q
      <4>2. /\ [q EXCEPT !.codes = @ \cup {"term"}] \in RxRec
            /\ [q EXCEPT !.codes = @ \cup {"term"}].rsp = q.rsp
            /\ [q EXCEPT !.codes = @ \cup {"term"}].codes = q.codes \cup {"term"}
        BY <3>1, <4>1, RxChanged
      <4>3. t = [q EXCEPT !.codes = @ \cup {"term"}]
        BY <3>3 DEF q
      <4>4. t \in RxRec /\ t.rsp = q.rsp /\ t.codes = q.codes \cup {"term"}
        BY <4>2, <4>3
      <4>. QED  BY <3>3, <4>4 DEF q
    <3>. QED  BY <2>2, <3>2, <3>3
  <2>7. y.rsp = t.rsp /\ y.codes = t.codes /\ y.behind = -1 /\ y.holed = FALSE /\ y \in RxRec
    <3>1. /\ [t EXCEPT !.behind = -1, !.holed = FALSE] \in RxRec
          /\ [t EXCEPT !.behind = -1, !.holed = FALSE].rsp = t.rsp
          /\ [t EXCEPT !.behind = -1, !.holed = FALSE].codes = t.codes
          /\ [t EXCEPT !.behind = -1, !.holed = FALSE].behind = -1
          /\ [t EXCEPT !.behind = -1, !.holed = FALSE].holed = FALSE
      BY <1>1, <2>6, RxChanged
    <3>. QED  BY <2>3, <3>1
  <2>. QED  BY <2>1, <2>6, <2>7
<1>. HIDE DEF x, c, y
<1>7. rx' \in [Peers -> RxRec]
  <2>1. DOMAIN rx' = Peers /\ rx' = [p \in Peers |-> rx'[p]]
    BY <1>2 DEF Forgotten
  <2>. QED  BY <1>1, <1>5, <1>6, <2>1 DEF y
<1>8. con' \in [Slots -> [state : 0 .. 1, ver : 1 .. 2, buff : Seq(ReqTokens)]] /\ con'[at] = NoCon
  BY <1>1, <1>2 DEF NoCon
<1>9. cli' \in [Slots -> Peers \cup {None}] /\ cli'[at] = None
  BY <1>1, <1>2
<1>10. /\ net' \in [Peers -> {"out", "waiting", "slot"}] /\ fin' \in [Peers -> BOOLEAN]
       /\ ask' \in [Peers -> AnyAsk]
       /\ (\A p \in Peers : ask'[p] \in Asks[p] \cup {NoAsk})
       /\ up' \in [Peers -> Seq(ReqTokens)] /\ unread' \in [Peers -> 0 .. Room]
       /\ Asked'
       /\ net'[Here] = "out"
       /\ \A p \in Peers \ {Here} : net'[p] = net[p] /\ fin'[p] = fin[p] /\ ask'[p] = ask[p] /\ up'[p] = up[p]
  <2>. HIDE DEF AnyAsk
  <2>. QED  BY <1>1, <1>2, <1>3, HungUp
<1>11. \A i \in Slots \ {at} : con'[i] = con[i] /\ cli'[i] = cli[i] /\ cli[i] # Here
  BY <1>1, <1>2, <1>4
<1>12. \A i \in Slots \ {at} : Same(i)
  BY <1>1, <1>5, <1>10, <1>11 DEF Same
<1>a. \A i \in Slots \ {at} : cli[i] # None =>
         cli[i] \in Peers \ {Here} /\ net'[cli[i]] = net[cli[i]] /\ ask'[cli[i]] = ask[cli[i]] /\ rx'[cli[i]] = rx[cli[i]]
  BY <1>1, <1>5, <1>10, <1>11
<1>b. Slots' = Slots
  BY DEF Slots
<1>13. OneSlot'
  <2>1. \A i \in Slots : cli'[i] # None => net'[cli'[i]] = "slot"
    BY <1>3, <1>9, <1>11, <1>a DEF OneSlot
  <2>2. \A i, j \in Slots : cli'[i] # None /\ cli'[i] = cli'[j] => i = j
    BY <1>3, <1>9, <1>11 DEF OneSlot
  <2>. QED  BY <2>1, <2>2, <1>b DEF OneSlot
<1>14. Fresh'
  <2>1. \A i \in Slots : cli'[i] # None /\ con'[i].state = 0 => rx'[cli'[i]] = NoRx
    BY <1>3, <1>9, <1>11, <1>a DEF Fresh
  <2>2. \A p \in Peers : net'[p] = "waiting" => rx'[p] = NoRx
    BY <1>3, <1>5, <1>10 DEF Fresh
  <2>. QED  BY <2>1, <2>2, <1>b DEF Fresh
<1>15. SlotsAgree'
  <2>. SUFFICES ASSUME NEW i \in Slots
                PROVE  IF con'[i].state = 1
                       THEN /\ cli'[i] # None /\ Entitled(ask'[cli'[i]]) /\ con'[i].ver <= ask'[cli'[i]].ver
                            /\ rx'[cli'[i]].rsp = (IF con'[i].ver = 2 THEN "ok2" ELSE "ok1")
                       ELSE con'[i] = NoCon
    BY <1>b DEF SlotsAgree, Entitled
  <2>1. CASE i = at
    BY <1>8, <2>1 DEF NoCon
  <2>2. CASE i # at
    BY <1>3, <1>11, <1>a, <2>2 DEF SlotsAgree
  <2>. QED  BY <2>1, <2>2
<1>16. ASSUME NEW p \in Peers PROVE Coded(p)'
  <2>1. CASE p # Here
    BY <1>5, <1>10, <2>1, CodedStays DEF Rest
  <2>2. CASE p = Here
    <3>1. c.state = 1 /\ c.ver = 2 => x.rsp = "ok2"
      BY <1>1, <1>3, <1>4 DEF SlotsAgree, c, x
    <3>2. c.state = 0 => x.codes = {}
      BY <1>1, <1>3, <1>4 DEF Fresh, NoRx, x, c
    <3>. QED  BY <1>3, <1>6, <1>10, <2>2, <3>1, <3>2 DEF Coded, x, y
  <2>. QED  BY <2>1, <2>2
<1>17. Conns'
  BY <1>7, <1>8, <1>9, <1>10, <1>b DEF Conns
<1>. QED  BY <1>8, <1>10, <1>12, <1>13, <1>14, <1>15, <1>16, <1>17 DEF Rest, NoCon

-----------------------------------------------------------------------------
(* The calls of the stream, and who is accepted.                            *)

\* Nobody is served as a client of a caster by a TCP server.
LEMMA NotCaster == ASSUME CasTypes, Rest, kind # "ntripcas" PROVE \A i \in Slots : con[i].state = 0
  BY DEF Rest, OneSlot, NoCon

\* A TCP server owes nobody anything by the caster's account.
LEMMA TcpBalance == ASSUME CasTypes, Rest, kind # "ntripcas", con' = con PROVE Balance'
<1>1. \A i \in Slots : con'[i].state = 0
  BY NotCaster
<1>. QED  BY <1>1 DEF Balance, Slots

\* Connections are as they were but for the position of the call.
LEMMA Stays ==
  ASSUME CasStrong, UNCHANGED <<kind, cli, clients, con>>,
         \A i \in Slots : con[i].state = 1 /\ fin[cli[i]] = FALSE => Owed(i)' = Owed(i)
  PROVE  Conns' /\ Rest' /\ Balance'
<1>1. Conns'
  BY DEF CasStrong, CasTypes, Conns, clients, Slots
<1>2. Rest'
  BY RestKept DEF CasStrong, Rest, clients
<1>3. Balance'
  <2>1. \A i \in Slots : Same(i)
    BY DEF Same, clients
  <2>. QED  BY <2>1, BalanceKept DEF CasStrong
<1>. QED  BY <1>1, <1>2, <1>3

\* strread begins.
LEMMA CallReadKept == ASSUME CasStrong, CallRead, UNCHANGED con PROVE CasStrong'
<1>. USE CasFacts
<1>0. CasTypes /\ done = 0
  BY DEF CasStrong, CasTypes, CallTypes, CallRead
<1>1. CallTypes'
  BY <1>0 DEF CasTypes, CallTypes, CallRead, Slots
<1>2. \A i \in Slots : Owed(i)' = Owed(i)
  BY <1>0 DEF Owed, CallRead
<1>3. Conns' /\ Rest' /\ Balance'
  BY <1>2, Stays DEF CallRead
<1>. QED  BY <1>1, <1>3 DEF CasStrong, CasTypes, Rest

\* strwrite begins: everybody who is served is owed the whole write.
LEMMA CallWriteKept == ASSUME CasStrong, CallWrite, UNCHANGED con PROVE CasStrong'
<1>. USE CasFacts
<1>. DEFINE b(p) == IF rx[p].behind < 0 THEN rx[p].behind ELSE Lesser(rx[p].behind + size', MaxWrite + 1)
<1>0. CasTypes /\ done = 0 /\ size' \in 1 .. MaxWrite /\ Slots' = Slots /\ Rest /\ Balance
  BY DEF CasStrong, CasTypes, CallTypes, CallWrite, Slots, Rest
<1>1. CallTypes'
  BY <1>0 DEF CasTypes, CallTypes, CallWrite
<1>2. ASSUME NEW p \in Peers
      PROVE  /\ rx'[p] \in RxRec /\ rx'[p].rsp = rx[p].rsp /\ rx'[p].codes = rx[p].codes
             /\ rx'[p].holed = rx[p].holed /\ rx'[p].behind = b(p)
             /\ rx[p] = NoRx => rx'[p] = NoRx
  <2>1. rx[p] \in RxRec /\ rx[p].behind \in Int
    BY <1>0 DEF RxRec
  <2>2. b(p) \in -1 .. MaxWrite + 1
    BY <1>0, <2>1 DEF Lesser, RxRec
  <2>3. rx'[p] = [rx[p] EXCEPT !.behind = b(p)]
    BY DEF CallWrite
  <2>4. rx[p] = NoRx => b(p) = -1
    BY DEF NoRx
  <2>. HIDE DEF b
  <2>. QED  BY <2>1, <2>2, <2>3, <2>4 DEF RxRec, NoRx
<1>3. rx' \in [Peers -> RxRec]
  BY <1>2 DEF CallWrite
<1>4. Conns'
  BY <1>0, <1>3 DEF CasTypes, Conns, CallWrite
<1>5. OneSlot' /\ Asked'
  BY <1>0 DEF Rest, OneSlot, Asked, CallWrite
<1>6. Fresh'
  <2>1. \A i \in Slots : cli[i] # None => cli[i] \in Peers
    BY <1>0
  <2>2. Fresh /\ net' = net /\ cli' = cli /\ con' = con
    BY <1>0 DEF Rest, CallWrite
  <2>3. \A p \in Peers : net'[p] = "waiting" => rx'[p] = NoRx
    BY <1>2, <2>2 DEF Fresh
  <2>4. \A i \in Slots : cli'[i] # None /\ con'[i].state = 0 => rx'[cli'[i]] = NoRx
    BY <1>2, <2>1, <2>2 DEF Fresh
  <2>. QED  BY <1>0, <2>3, <2>4 DEF Fresh
<1>7. SlotsAgree'
  <2>1. SlotsAgree /\ ask' = ask /\ cli' = cli /\ con' = con
    BY <1>0 DEF Rest, CallWrite
  <2>2. \A i \in Slots : cli[i] # None => rx'[cli[i]].rsp = rx[cli[i]].rsp
    BY <1>0, <1>2
  <2>. QED  BY <2>1, <2>2, SlotsStay
<1>8. ASSUME NEW p \in Peers PROVE Coded(p)'
  <2>1. Coded(p) /\ ask' = ask /\ net' = net
    BY <1>0 DEF Rest, CallWrite
  <2>2. rx'[p].rsp = rx[p].rsp /\ rx'[p].codes = rx[p].codes /\ rx'[p].holed = rx[p].holed
    BY <1>2
  <2>. QED  BY <2>1, <2>2 DEF Coded, Entitled
<1>9. Balance'
  <2>. SUFFICES ASSUME NEW i \in Slots, con[i].state = 1, fin[cli[i]] = FALSE
                PROVE  rx'[cli[i]].behind \in {-1, Owed(i)'}
    BY <1>0 DEF Balance, CallWrite
  <2>1. cli[i] \in Peers
    BY <1>0 DEF Rest, SlotsAgree
  <2>2. rx[cli[i]].behind \in {-1, 0}
    BY <1>0 DEF Balance, Owed, CallWrite
  <2>3. Owed(i)' = size'
    BY DEF Owed, CallWrite
  <2>4. b(cli[i]) \in {-1, size'}
    BY <1>0, <2>2 DEF Lesser
  <2>. HIDE DEF b
  <2>. QED  BY <1>2, <2>1, <2>3, <2>4
<1>. QED  BY <1>1, <1>4, <1>5, <1>6, <1>7, <1>8, <1>9 DEF CasStrong, CasTypes, Rest

\* waittcpsvr returns.
LEMMA AcceptedOwed ==
  ASSUME CasTypes, step = "accept", NEW s \in -1 .. 2, Accepted(s), svr' = s, UNCHANGED <<kind, call, size, done>>
  PROVE  /\ CallTypes'
         /\ kind = "ntripcas" => \A i \in Slots : Owed(i)' = Owed(i)
<1>. USE CasFacts
<1>0. done = 0 /\ at' = 0 /\ step' \in {"idle", "request", "data"} /\ (kind = "ntripcas" => step' \in {"request", "data"})
  BY DEF CasTypes, CallTypes, Accepted
<1>1. CallTypes'
  BY <1>0 DEF CasTypes, CallTypes, Slots
<1>2. kind = "ntripcas" => \A i \in Slots : Owed(i)' = Owed(i)
  BY <1>0 DEF Owed
<1>. QED  BY <1>1, <1>2

\* accsock has nobody to accept, or no slot.
LEMMA AcceptEndKept == ASSUME CasStrong, AcceptEnd, UNCHANGED con PROVE CasStrong'
<1>. USE CasFacts
<1>0. CasTypes /\ Rest /\ svr' \in -1 .. 2 /\ kind' = kind
  BY DEF CasStrong, Rest, AcceptEnd, Updated
<1>1. CallTypes' /\ (kind = "ntripcas" => \A i \in Slots : Owed(i)' = Owed(i))
  BY <1>0, AcceptedOwed DEF AcceptEnd
<1>2. \A i \in Slots : con[i].state = 1 => Owed(i)' = Owed(i)
  BY <1>0, <1>1, NotCaster
<1>3. Conns' /\ Rest' /\ Balance'
  BY <1>2, Stays DEF AcceptEnd
<1>. QED  BY <1>1, <1>3 DEF CasStrong, CasTypes, Rest

\* There is a first free slot if there is a free one.
LEMMA FirstFreeIs == ASSUME CasTypes, Free # {} PROVE FirstFree \in Free
<1>. USE CasFacts
<1>1. Free \subseteq Nat
  BY DEF Free
<1>2. PICK m \in Free : \A y \in Free : ~(<<y, m>> \in OpToRel(<, Nat))
  BY <1>1, NatLessThanWellFounded, WFMin
<1>3. \A y \in Free : ~(y < m)
  BY <1>1, <1>2 DEF OpToRel
<1>4. \A y \in Free : m <= y
  BY <1>1, <1>3
<1>. QED  BY <1>4 DEF FirstFree

\* accsock takes a client into a free slot, with nothing of the one before.
LEMMA AcceptKept == ASSUME CasStrong, NEW p \in Peers, Accept(p), UNCHANGED con PROVE CasStrong'
<1>. USE CasFacts
<1>. DEFINE f == FirstFree
<1>0. /\ CasTypes /\ Rest /\ Balance /\ Slots' = Slots /\ f \in Slots /\ cli[f] = None /\ net[p] = "waiting"
      /\ OneSlot /\ Asked /\ Fresh /\ SlotsAgree
  BY FirstFreeIs DEF CasStrong, Rest, Accept, Free, Slots
<1>1. /\ cli' = [cli EXCEPT ![f] = p] /\ net' = [net EXCEPT ![p] = "slot"]
      /\ UNCHANGED <<kind, svr, step, call, at, size, done, fin, ask, up, unread, rx, con>>
  BY DEF Accept
<1>. HIDE DEF f
<1>2. CallTypes'
  BY <1>0, <1>1 DEF CasTypes, CallTypes
<1>3. Conns'
  BY <1>0, <1>1 DEF CasTypes, Conns
<1>4. con[f].state = 0 /\ con[f] = NoCon
  BY <1>0 DEF SlotsAgree
<1>5. \A i \in Slots : cli[i] # None => cli[i] # p /\ cli[i] \in Peers
  BY <1>0 DEF OneSlot
<1>6. cli'[f] = p /\ net'[p] = "slot" /\ p # None /\ (\A i \in Slots \ {f} : cli'[i] = cli[i])
      /\ \A q \in Peers \ {p} : net'[q] = net[q]
  BY <1>0, <1>1
<1>7. OneSlot'
  <2>1. ASSUME NEW i \in Slots, cli'[i] # None PROVE net'[cli'[i]] = "slot"
    <3>1. CASE i = f
      BY <1>6, <3>1
    <3>2. CASE i # f
      <4>1. cli'[i] = cli[i] /\ cli[i] # None /\ cli[i] # p
        BY <1>5, <1>6, <2>1, <3>2
      <4>2. net[cli[i]] = "slot" /\ cli[i] \in Peers \ {p}
        BY <1>0, <1>5, <4>1 DEF OneSlot
      <4>. QED  BY <1>6, <4>1, <4>2
    <3>. QED  BY <3>1, <3>2
  <2>2. ASSUME NEW i \in Slots, NEW j \in Slots, cli'[i] # None, cli'[i] = cli'[j] PROVE i = j
    <3>1. CASE i # f /\ j # f
      <4>1. cli'[i] = cli[i] /\ cli'[j] = cli[j]
        BY <1>6, <3>1
      <4>. QED  BY <1>0, <2>2, <4>1 DEF OneSlot
    <3>2. CASE i = f \/ j = f
      BY <1>5, <1>6, <2>2, <3>2
    <3>. QED  BY <3>1, <3>2
  <2>. QED  BY <1>0, <1>1, <2>1, <2>2 DEF OneSlot
<1>8. Fresh'
  <2>1. \A i \in Slots : cli'[i] # None /\ con'[i].state = 0 => rx'[cli'[i]] = NoRx
    BY <1>0, <1>1, <1>6 DEF Fresh
  <2>2. \A q \in Peers : net'[q] = "waiting" => rx'[q] = NoRx
    BY <1>0, <1>1, <1>6 DEF Fresh
  <2>. QED  BY <1>0, <2>1, <2>2 DEF Fresh
<1>9. SlotsAgree'
  <2>1. \A i \in Slots : con'[i] = NoCon \/ cli'[i] = cli[i]
    BY <1>1, <1>4, <1>6
  <2>. QED  BY <1>0, <1>1, <2>1, SlotsStay
<1>10. \A q \in Peers : Coded(q)'
  <2>1. rx[p].codes = {}
    BY <1>0 DEF Fresh, NoRx
  <2>. QED  BY <1>0, <1>1, <1>6, <2>1 DEF Rest, Coded, Entitled
<1>11. Balance'
  <2>1. \A i \in Slots : con'[i].state = 0 \/ (Same(i) /\ Owed(i)' = Owed(i))
    BY <1>1, <1>4, <1>6 DEF Same, Owed
  <2>. QED  BY <1>0, <2>1, BalanceKept DEF CasStrong
<1>12. Asked'
  BY <1>0, <1>1 DEF Asked
<1>. QED  BY <1>2, <1>3, <1>7, <1>8, <1>9, <1>10, <1>11, <1>12 DEF CasStrong, CasTypes

\* Clients that are not in a slot lose their connection.
LEMMA OutsideHungUp ==
  ASSUME CasTypes, Rest, NEW ps \in SUBSET Waiting, HangUp(ps), UNCHANGED <<kind, cli, con, rx>>
  PROVE  Conns' /\ Rest' /\ \A i \in Slots : Same(i)
<1>. USE CasFacts
<1>0. ps \in SUBSET Peers /\ Slots' = Slots /\ (\A p \in ps : net[p] = "waiting")
      /\ OneSlot /\ Asked /\ Fresh /\ SlotsAgree
  BY DEF Waiting, Slots, Rest
<1>1. /\ net' \in [Peers -> {"out", "waiting", "slot"}] /\ fin' \in [Peers -> BOOLEAN]
      /\ ask' \in [Peers -> AnyAsk]
      /\ (\A p \in Peers : ask'[p] \in Asks[p] \cup {NoAsk})
      /\ up' \in [Peers -> Seq(ReqTokens)] /\ unread' \in [Peers -> 0 .. Room]
      /\ (\A p \in ps : net'[p] = "out")
      /\ (\A p \in Peers \ ps : net'[p] = net[p] /\ fin'[p] = fin[p] /\ ask'[p] = ask[p] /\ up'[p] = up[p])
      /\ Asked'
  BY <1>0, HungUp
<1>2. Conns'
  BY <1>0, <1>1 DEF CasTypes, Conns
<1>3. \A i \in Slots : cli[i] # None =>
         cli[i] \in Peers \ ps /\ net'[cli[i]] = net[cli[i]] /\ ask'[cli[i]] = ask[cli[i]] /\ fin'[cli[i]] = fin[cli[i]]
  <2>1. \A i \in Slots : cli[i] # None => cli[i] \in Peers /\ net[cli[i]] = "slot"
    BY <1>0 DEF OneSlot
  <2>2. \A i \in Slots : cli[i] # None => cli[i] \in Peers \ ps
    BY <1>0, <2>1
  <2>. QED  BY <1>1, <2>2
<1>4. \A i \in Slots : Same(i)
  BY <1>3 DEF Same
<1>5. OneSlot'
  BY <1>0, <1>3 DEF OneSlot
<1>6. Fresh'
  BY <1>0, <1>1 DEF Fresh
<1>7. SlotsAgree'
  BY <1>0, <1>3, SlotsStay
<1>8. ASSUME NEW p \in Peers PROVE Coded(p)'
  <2>1. CASE p \in ps
    BY <1>0, <1>1, <2>1 DEF Fresh, Coded, Rest, NoRx
  <2>2. CASE p \notin ps
    BY <1>1, <2>2 DEF Coded, Rest, Entitled
  <2>. QED  BY <2>1, <2>2
<1>. QED  BY <1>1, <1>2, <1>4, <1>5, <1>6, <1>7, <1>8 DEF Rest

\* accsock loses a client.
LEMMA AcceptLostKept == ASSUME CasStrong, NEW p \in Peers, AcceptLost(p), UNCHANGED con PROVE CasStrong'
<1>. USE CasFacts
<1>0. CasTypes /\ Rest /\ svr' \in -1 .. 2 /\ kind' = kind /\ {p} \in SUBSET Waiting
  <2>1. svr' \in -1 .. 2
    BY DEF CasStrong, AcceptLost, Updated
  <2>. QED  BY <2>1 DEF CasStrong, Rest, AcceptLost, Waiting
<1>1. CallTypes' /\ (kind = "ntripcas" => \A i \in Slots : Owed(i)' = Owed(i))
  BY <1>0, AcceptedOwed DEF AcceptLost
<1>2. \A i \in Slots : con[i].state = 1 => Owed(i)' = Owed(i)
  BY <1>0, <1>1, NotCaster
<1>3. Conns' /\ Rest' /\ \A i \in Slots : Same(i)
  BY <1>0, OutsideHungUp DEF AcceptLost
<1>4. Balance'
  BY <1>0, <1>2, <1>3, BalanceKept DEF CasStrong
<1>. QED  BY <1>1, <1>3, <1>4 DEF CasStrong, CasTypes, Rest

\* accsock fails, and all who wait lose their connection.
LEMMA AcceptFailsKept == ASSUME CasStrong, AcceptFails, UNCHANGED con PROVE CasStrong'
<1>. USE CasFacts
<1>0. CasTypes /\ Rest /\ svr' = 0 /\ kind' = kind /\ Waiting \in SUBSET Waiting
  BY DEF CasStrong, Rest, AcceptFails
<1>1. CallTypes' /\ (kind = "ntripcas" => \A i \in Slots : Owed(i)' = Owed(i))
  BY <1>0, AcceptedOwed DEF AcceptFails
<1>2. \A i \in Slots : con[i].state = 1 => Owed(i)' = Owed(i)
  BY <1>0, <1>1, NotCaster
<1>3. Conns' /\ Rest' /\ \A i \in Slots : Same(i)
  BY <1>0, OutsideHungUp DEF AcceptFails
<1>4. Balance'
  BY <1>0, <1>2, <1>3, BalanceKept DEF CasStrong
<1>. QED  BY <1>1, <1>3, <1>4 DEF CasStrong, CasTypes, Rest

-----------------------------------------------------------------------------
(* The slots of a TCP server.                                               *)

\* The loop over the slots goes on.
LEMMA NextTypes ==
  ASSUME CasTypes, step \in {"request", "data"}, NextSlot, UNCHANGED <<kind, call, size>>, svr' \in -1 .. 2, done' = 0
  PROVE  CallTypes'
<1>. USE CasFacts
<1>1. at' \in Slots' /\ step' \in {"idle", "request", "data"}
  BY OwedNext DEF Slots
<1>2. kind' \in SvrKinds /\ 0 \in 0 .. MaxWrite /\ ~(0 > 0) /\ (call' = "read" => size' = 0)
  BY DEF CasTypes, CallTypes
<1>. QED  BY <1>1, <1>2 DEF CallTypes

\* Some of what has come is received.
LEMMA TakenKept ==
  ASSUME CasTypes, Asked, Here \in Peers, NEW k \in 1 .. Len(up[Here]), Taken(k), ask' = ask
  PROVE  up' \in [Peers -> Seq(ReqTokens)] /\ Asked'
<1>. USE CasFacts
<1>. DEFINE s == up[Here]
            u == SubSeq(s, k + 1, Len(s))
<1>1. s \in Seq(ReqTokens) /\ Len(s) \in Nat /\ k \in Nat /\ k <= Len(s) /\ DOMAIN s = 1 .. Len(s)
  OBVIOUS
<1>2. u \in Seq(ReqTokens) /\ Len(u) = Len(s) - k /\ \A j \in 1 .. Len(s) - k : u[j] = s[k + j]
  <2>. HIDE DEF s
  <2>1. \A i \in k + 1 .. Len(s) : s[i] \in ReqTokens
    BY <1>1
  <2>2. u \in Seq(ReqTokens) /\ Len(u) = (IF k + 1 <= Len(s) THEN Len(s) - (k + 1) + 1 ELSE 0)
        /\ \A i \in 1 .. Len(s) - (k + 1) + 1 : u[i] = s[k + 1 + i - 1]
    BY <1>1, <2>1, SubSeqProperties
  <2>3. k <= Len(s) /\ Len(s) - (k + 1) + 1 = Len(s) - k /\ (k + 1 <= Len(s) \/ Len(s) - k = 0)
    <3>. DEFINE n == Len(s)
    <3>1. n \in Nat /\ k \in Nat /\ k <= n
      BY <1>1
    <3>. HIDE DEF n
    <3>2. n - (k + 1) + 1 = n - k /\ (k + 1 <= n \/ n - k = 0)
      BY <3>1
    <3>. QED  BY <3>1, <3>2 DEF n
  <2>4. \A i \in 1 .. Len(s) - k : k + 1 + i - 1 = k + i
    BY <1>1
  <2>. HIDE DEF u
  <2>. QED  BY <2>2, <2>3, <2>4
<1>3. up' = [up EXCEPT ![Here] = u]
  BY DEF Taken
<1>4. \A j \in DOMAIN u : j + k \in DOMAIN s /\ u[j] = s[j + k]
  <2>. HIDE DEF u, s
  <2>1. DOMAIN u = 1 .. Len(s) - k
    BY <1>2
  <2>. DEFINE n == Len(s)
  <2>2. n \in Nat /\ k \in Nat /\ k <= n
    BY <1>1
  <2>. HIDE DEF n
  <2>3. \A j \in 1 .. n - k : j + k \in 1 .. n /\ k + j = j + k
    BY <2>2
  <2>. QED  BY <1>1, <1>2, <2>1, <2>3 DEF n
<1>. HIDE DEF u
<1>5. up' \in [Peers -> Seq(ReqTokens)] /\ up'[Here] = u /\ \A p \in Peers \ {Here} : up'[p] = up[p]
  BY <1>2, <1>3
<1>6. Asked'
  <2>. SUFFICES ASSUME NEW p \in Peers, NEW j \in DOMAIN up'[p] PROVE up'[p][j] \in TokensOf(ask[p])
    BY DEF Asked
  <2>1. CASE p = Here
    <3>1. j \in DOMAIN u /\ j + k \in DOMAIN s /\ up'[p][j] = s[j + k]
      BY <1>4, <1>5, <2>1
    <3>. QED  BY <2>1, <3>1 DEF Asked
  <2>2. CASE p # Here
    BY <1>5, <2>2 DEF Asked
  <2>. QED  BY <2>1, <2>2
<1>. QED  BY <1>5, <1>6

\* A client of a TCP server is dropped.
LEMMA DropKept == ASSUME CasStrong, AtClient, Drop, UNCHANGED con PROVE CasStrong'
<1>. USE CasFacts
<1>0. /\ CasTypes /\ Rest /\ Balance /\ kind = "tcpsvr" /\ kind' = kind /\ step = "data" /\ Here \in Peers
      /\ Slots' = Slots /\ cli' = [cli EXCEPT ![at] = None] /\ rx' = rx /\ con' = con /\ done = 0 /\ done' = 0
      /\ OneSlot /\ Fresh /\ SlotsAgree /\ cli[at] = Here /\ HangUp({Here}) /\ svr' \in -1 .. 2
  <2>1. svr' \in -1 .. 2
    BY DEF CasStrong, Drop, Updated
  <2>2. CasTypes /\ kind = "tcpsvr" /\ done = 0
    BY DEF CasStrong, AtClient, CasTypes, CallTypes
  <2>. QED  BY <2>1, <2>2 DEF CasStrong, Rest, AtClient, Drop, Here, Slots
<1>1. CallTypes'
  BY <1>0, NextTypes DEF Drop
<1>2. /\ net' \in [Peers -> {"out", "waiting", "slot"}] /\ fin' \in [Peers -> BOOLEAN]
      /\ ask' \in [Peers -> AnyAsk]
      /\ (\A p \in Peers : ask'[p] \in Asks[p] \cup {NoAsk})
      /\ up' \in [Peers -> Seq(ReqTokens)] /\ unread' \in [Peers -> 0 .. Room]
      /\ net'[Here] = "out"
      /\ (\A p \in Peers \ {Here} : net'[p] = net[p] /\ fin'[p] = fin[p] /\ ask'[p] = ask[p] /\ up'[p] = up[p])
      /\ Asked'
  <2>1. {Here} \in SUBSET Peers /\ HangUp({Here}) /\ Asked
    BY <1>0 DEF Rest
  <2>. QED  BY <1>0, <2>1, HungUp
<1>3. Conns'
  BY <1>0, <1>2 DEF CasTypes, Conns
<1>4. \A i \in Slots : con[i] = NoCon
  BY <1>0 DEF OneSlot
<1>5. cli'[at] = None /\ \A i \in Slots \ {at} : cli'[i] = cli[i] /\ (cli[i] # None => cli[i] \in Peers \ {Here})
  BY <1>0 DEF OneSlot
<1>6. OneSlot'
  <2>1. ASSUME NEW i \in Slots, cli'[i] # None PROVE net'[cli'[i]] = "slot"
    BY <1>0, <1>2, <1>5, <2>1 DEF OneSlot
  <2>2. ASSUME NEW i \in Slots, NEW j \in Slots, cli'[i] # None, cli'[i] = cli'[j] PROVE i = j
    BY <1>0, <1>5, <2>2 DEF OneSlot
  <2>. QED  BY <1>0, <1>4, <2>1, <2>2 DEF OneSlot
<1>7. Fresh'
  <2>1. \A i \in Slots : cli'[i] # None /\ con'[i].state = 0 => rx'[cli'[i]] = NoRx
    BY <1>0, <1>5 DEF Fresh
  <2>2. \A q \in Peers : net'[q] = "waiting" => rx'[q] = NoRx
    BY <1>0, <1>2 DEF Fresh
  <2>. QED  BY <1>0, <2>1, <2>2 DEF Fresh
<1>8. SlotsAgree'
  BY <1>0, <1>4 DEF SlotsAgree, NoCon
<1>9. ASSUME NEW q \in Peers PROVE Coded(q)'
  <2>1. CASE q = Here
    BY <1>0, <1>2, <2>1 DEF Rest, Coded
  <2>2. CASE q # Here
    BY <1>0, <1>2, <2>2, CodedStays DEF Rest
  <2>. QED  BY <2>1, <2>2
<1>10. Balance'
  BY <1>0, TcpBalance
<1>. QED  BY <1>1, <1>2, <1>3, <1>6, <1>7, <1>8, <1>9, <1>10 DEF CasStrong, CasTypes

\* readtcpsvr and writetcpsvr
LEMMA TcpStepsKept == ASSUME CasStrong, TcpSteps PROVE CasStrong'
<1>. USE CasFacts
<1>0. CasTypes /\ Rest /\ Balance /\ con' = con /\ (kind = "tcpsvr" => done = 0)
  BY DEF CasStrong, Rest, TcpSteps, CasTypes, CallTypes
<1>1. CASE SkipSlot \/ TcpReadNone \/ TcpWriteNone
  <2>1. /\ kind = "tcpsvr" /\ step = "data" /\ NextSlot
        /\ UNCHANGED <<kind, svr, cli, call, size, done, clients>>
    BY <1>1 DEF SkipSlot, TcpReadNone, TcpWriteNone, AtClient
  <2>2. CallTypes'
    BY <1>0, <2>1, NextTypes
  <2>3. Conns' /\ Rest' /\ Balance'
    <3>1. \A i \in Slots : con[i].state = 0
      BY <1>0, <2>1, NotCaster
    <3>2. \A i \in Slots : con[i].state = 1 /\ fin[cli[i]] = FALSE => Owed(i)' = Owed(i)
      BY <3>1
    <3>3. UNCHANGED <<kind, cli, clients, con>>
      BY <1>0, <2>1
    <3>. QED  BY <3>2, <3>3, Stays
  <2>. QED  BY <2>2, <2>3 DEF CasStrong, CasTypes, Rest
<1>2. CASE TcpRead
  <2>1. PICK n \in 1 .. Len(up[Here]) : Taken(n)
    BY <1>2 DEF TcpRead
  <2>2. /\ kind = "tcpsvr" /\ Here \in Peers /\ at' = 0 /\ step' = "idle" /\ done = 0
        /\ UNCHANGED <<kind, svr, cli, call, size, done, net, fin, ask, unread, rx>>
    BY <1>0, <1>2 DEF TcpRead, AtClient, Here
  <2>3. up' \in [Peers -> Seq(ReqTokens)] /\ Asked'
    BY <1>0, <2>1, <2>2, TakenKept DEF Rest
  <2>4. CallTypes'
    BY <1>0, <2>2 DEF CasTypes, CallTypes, Slots
  <2>5. Conns'
    BY <1>0, <2>2, <2>3 DEF CasTypes, Conns, Slots
  <2>6. OneSlot' /\ Fresh' /\ SlotsAgree' /\ (\A p \in Peers : Coded(p))'
    BY <1>0, <2>2, SentKept
  <2>7. Balance'
    BY <1>0, <2>2, TcpBalance
  <2>. QED  BY <2>3, <2>4, <2>5, <2>6, <2>7 DEF CasStrong, CasTypes
<1>3. CASE TcpWrite
  <2>1. /\ kind = "tcpsvr" /\ step = "data" /\ Here \in Peers /\ NextSlot /\ done = 0
        /\ UNCHANGED <<kind, svr, cli, call, size, done, net, fin, ask, up, rx>>
    BY <1>0, <1>3 DEF TcpWrite, AtClient, Here
  <2>2. unread' \in [Peers -> 0 .. Room]
    <3>1. unread[Here] + size \in 0 .. Room /\ unread' = [unread EXCEPT ![Here] = @ + size]
      BY <1>0, <1>3, <2>1 DEF TcpWrite, Sends
    <3>. QED  BY <1>0, <2>1, <3>1
  <2>3. CallTypes'
    BY <1>0, <2>1, NextTypes
  <2>4. Conns'
    BY <1>0, <2>1, <2>2 DEF CasTypes, Conns, Slots
  <2>5. Rest'
    BY <1>0, <2>1, RestKept
  <2>6. Balance'
    BY <1>0, <2>1, TcpBalance
  <2>. QED  BY <2>3, <2>4, <2>5, <2>6 DEF CasStrong, CasTypes, Rest
<1>4. CASE TcpReadEnd \/ TcpWriteEnd
  BY <1>0, <1>4, DropKept DEF TcpReadEnd, TcpWriteEnd
<1>. QED  BY <1>1, <1>2, <1>3, <1>4 DEF TcpSteps

-----------------------------------------------------------------------------
(* The slots of a caster.                                                   *)

\* The loop goes on, and nothing has changed.
LEMMA PassedOver ==
  ASSUME CasStrong, kind = "ntripcas", step \in {"request", "data"}, NextSlot, done = 0,
         UNCHANGED <<kind, svr, cli, call, size, done, clients, con>>,
         step = "data" => con[at].state = 0 \/ size = 0
  PROVE  CasStrong'
<1>0. CasTypes /\ SlotsAgree /\ Slots' = Slots
  BY DEF CasStrong, Slots
<1>. USE CasFacts
<1>1. CallTypes'
  BY <1>0, NextTypes
<1>2. ASSUME NEW i \in Slots, con[i].state = 1 PROVE Owed(i)' = Owed(i)
  <2>1. CASE i # at
    BY <1>0, <2>1, OwedNext
  <2>2. CASE i = at /\ step = "request"
    BY <1>0, <2>2, OwedNext
  <2>3. CASE i = at /\ step = "data"
    <3>1. Owed(i)' = 0
      BY <1>0, <2>3, OwedNext
    <3>2. Owed(i) = 0
      BY <1>0, <1>2, <2>3 DEF Owed
    <3>. QED  BY <3>1, <3>2
  <2>. QED  BY <2>1, <2>2, <2>3
<1>3. Conns' /\ Rest' /\ Balance'
  BY <1>2, Stays
<1>. QED  BY <1>1, <1>3 DEF CasStrong, CasTypes, Rest

\* The loop goes on, and the client of its slot was dropped.
LEMMA DroppedKept ==
  ASSUME CasStrong, kind = "ntripcas", step \in {"request", "data"}, NextSlot, done' = 0,
         UNCHANGED <<kind, svr, call, size>>, Here # None, NEW r, DisconCli(r),
         r = rx \/ (con[at].state = 0 /\ r = [rx EXCEPT ![Here].rsp = "refused"])
  PROVE  CasStrong'
<1>0. CasTypes /\ SlotsAgree /\ Rest /\ Balance
  BY DEF CasStrong, Rest
<1>. USE CasFacts
<1>1. CallTypes'
  BY <1>0, NextTypes
<1>2. Conns' /\ Rest' /\ con'[at].state = 0 /\ \A i \in Slots \ {at} : Same(i)
  BY <1>0, Dropped
<1>3. \A i \in Slots \ {at} : Owed(i)' = Owed(i)
  BY <1>0, OwedNext
<1>4. Balance'
  BY <1>0, <1>2, <1>3, BalanceKept
<1>. QED  BY <1>1, <1>2, <1>4 DEF CasStrong, CasTypes, Rest

\* A request that is granted shows that its client is entitled, and its version.
LEMMA Shown ==
  ASSUME NEW a \in AnyAsk, NEW b, \A j \in DOMAIN b : b[j] \in TokensOf(a), Granted(b)
  PROVE  Entitled(a) /\ AskedVer(b) <= a.ver /\ AskedVer(b) \in {1, 2}
<1>1. a.ver \in {1, 2} /\ a.mp \in {"ours", "other", "table"} /\ a.auth \in BOOLEAN
  BY DEF AnyAsk
<1>2. \E i \in DOMAIN b : b[i] = "ours"
  BY DEF Granted, Gets
<1>3. a.mp = "ours"
  BY <1>1, <1>2 DEF TokensOf
<1>4. Passwd => a.auth
  <2>. SUFFICES ASSUME Passwd PROVE a.auth
    OBVIOUS
  <2>1. \E i \in DOMAIN b : b[i] = "auth"
    BY DEF Granted, Has
  <2>. QED  BY <1>1, <1>3, <2>1 DEF TokensOf
<1>5. AskedVer(b) <= a.ver /\ AskedVer(b) \in {1, 2}
  <2>1. CASE Has(b, "ver")
    <3>1. a.ver = 2
      BY <1>1, <1>3, <2>1 DEF Has, TokensOf
    <3>. QED  BY <2>1, <3>1 DEF AskedVer
  <2>2. CASE ~Has(b, "ver")
    BY <1>1, <2>2 DEF AskedVer
  <2>. QED  BY <2>1, <2>2
<1>. QED  BY <1>3, <1>4, <1>5 DEF Entitled

\* rsp_ntripc grants a request: the client is entitled, and has nothing yet.
LEMMA RequestOkKept == ASSUME CasStrong, RequestOk PROVE CasStrong'
<1>. DEFINE s == up[Here]
            x == rx[Here]
<1>0. CasTypes /\ SlotsAgree /\ Rest /\ Balance /\ OneSlot /\ Asked /\ Fresh /\ Slots' = Slots
  BY DEF CasStrong, Rest, Slots
<1>. USE CasFacts
<1>1. /\ kind = "ntripcas" /\ step = "request" /\ Here \in Peers /\ con[at] = NoCon /\ NextSlot /\ done = 0
      /\ UNCHANGED <<kind, svr, cli, call, size, done, net, fin, ask, unread>> /\ x = NoRx /\ cli[at] = Here
  BY <1>0 DEF RequestOk, AtRequest, Here, SlotsAgree, Fresh, CasTypes, CallTypes, NoCon
<1>2. PICK k \in 1 .. Len(s) :
        LET b == con[at].buff \o SubSeq(s, 1, k)
        IN  /\ Taken(k) /\ Granted(b)
            /\ con' = [con EXCEPT ![at] = [state |-> 1, ver |-> AskedVer(b), buff |-> b]]
            /\ rx' = [rx EXCEPT ![Here].rsp = IF AskedVer(b) = 2 THEN "ok2" ELSE "ok1"]
  BY DEF RequestOk
<1>. DEFINE b == con[at].buff \o SubSeq(s, 1, k)
            v == AskedVer(b)
<1>3. b \in Seq(ReqTokens) /\ \A j \in DOMAIN b : b[j] \in TokensOf(ask[Here])
  <2>0. s \in Seq(ReqTokens) /\ DOMAIN s = 1 .. Len(s) /\ Len(s) \in Nat /\ k \in Nat /\ k <= Len(s)
    BY <1>0, <1>1
  <2>1. (\A j \in DOMAIN s : s[j] \in TokensOf(ask[Here])) /\ con[at].buff = <<>>
    BY <1>0, <1>1 DEF Asked, NoCon
  <2>. DEFINE t == SubSeq(s, 1, k)
  <2>2. t \in Seq(ReqTokens) /\ DOMAIN t = 1 .. k /\ \A j \in 1 .. k : t[j] = s[j]
    <3>. HIDE DEF s
    <3>1. t \in Seq(ReqTokens) /\ Len(t) = k
      BY <2>0
    <3>2. \A j \in 1 .. k : t[j] = s[j]
      BY <2>0
    <3>. QED  BY <2>0, <3>1, <3>2
  <2>3. b = t
    <3>. HIDE DEF t
    <3>. QED  BY <2>1, <2>2 DEF t
  <2>. HIDE DEF s, t, b
  <2>. QED  BY <2>0, <2>1, <2>2, <2>3
<1>4. Granted(b) /\ con' = [con EXCEPT ![at] = [state |-> 1, ver |-> v, buff |-> b]]
      /\ rx' = [rx EXCEPT ![Here].rsp = IF v = 2 THEN "ok2" ELSE "ok1"] /\ Taken(k)
  BY <1>2
<1>. HIDE DEF b
<1>5. Entitled(ask[Here]) /\ v <= ask[Here].ver /\ v \in {1, 2}
  <2>1. ask[Here] \in AnyAsk
    BY <1>0, <1>1
  <2>. QED  BY <1>3, <1>4, <2>1, Shown
<1>6. up' \in [Peers -> Seq(ReqTokens)] /\ Asked'
  BY <1>0, <1>1, <1>4, TakenKept
<1>. HIDE DEF v
<1>7. con' \in [Slots -> [state : 0 .. 1, ver : 1 .. 2, buff : Seq(ReqTokens)]]
      /\ con'[at].state = 1 /\ con'[at].ver = v /\ \A i \in Slots \ {at} : con'[i] = con[i]
  BY <1>0, <1>3, <1>4, <1>5
<1>8. /\ rx'[Here].rsp = (IF v = 2 THEN "ok2" ELSE "ok1") /\ rx'[Here].codes = {} /\ rx'[Here].behind = -1
      /\ rx'[Here].holed = FALSE /\ rx'[Here] \in RxRec
      /\ \A p \in Peers \ {Here} : rx'[p] = rx[p]
  <2>1. rx'[Here] = [x EXCEPT !.rsp = IF v = 2 THEN "ok2" ELSE "ok1"] /\ \A p \in Peers \ {Here} : rx'[p] = rx[p]
    BY <1>0, <1>1, <1>4
  <2>2. x = NoRx /\ x \in RxRec
    BY <1>0, <1>1
  <2>. HIDE DEF x
  <2>. QED  BY <2>1, <2>2 DEF NoRx, RxRec
<1>9. rx' \in [Peers -> RxRec]
  <2>1. rx' = [p \in Peers |-> rx'[p]]
    BY <1>0, <1>4
  <2>2. \A p \in Peers : rx'[p] \in RxRec
    BY <1>0, <1>8
  <2>. QED  BY <2>1, <2>2
<1>10. CallTypes'
  BY <1>0, <1>1, NextTypes
<1>11. Conns'
  BY <1>0, <1>1, <1>6, <1>7, <1>9 DEF CasTypes, Conns
<1>a. \A i \in Slots \ {at} : cli[i] # None => cli[i] \in Peers \ {Here}
  BY <1>0, <1>1 DEF OneSlot
<1>12. OneSlot'
  BY <1>0, <1>1 DEF OneSlot
<1>13. Fresh'
  <2>1. net[Here] = "slot"
    BY <1>0, <1>1 DEF OneSlot
  <2>2. \A p \in Peers : net'[p] = "waiting" => rx'[p] = NoRx
    BY <1>0, <1>1, <1>8, <2>1 DEF Fresh
  <2>3. ASSUME NEW i \in Slots, cli'[i] # None, con'[i].state = 0 PROVE rx'[cli'[i]] = NoRx
    <3>1. i # at
      BY <1>7, <2>3
    <3>. QED  BY <1>0, <1>1, <1>7, <1>8, <1>a, <2>3, <3>1 DEF Fresh
  <2>. QED  BY <1>0, <2>2, <2>3 DEF Fresh
<1>14. SlotsAgree'
  <2>. SUFFICES ASSUME NEW i \in Slots
                PROVE  IF con'[i].state = 1
                       THEN /\ cli'[i] # None /\ Entitled(ask'[cli'[i]]) /\ con'[i].ver <= ask'[cli'[i]].ver
                            /\ rx'[cli'[i]].rsp = (IF con'[i].ver = 2 THEN "ok2" ELSE "ok1")
                       ELSE con'[i] = NoCon
    BY <1>0 DEF SlotsAgree, Entitled
  <2>1. CASE i = at
    BY <1>0, <1>1, <1>5, <1>7, <1>8, <2>1 DEF Here
  <2>2. CASE i # at
    BY <1>0, <1>1, <1>7, <1>8, <1>a, <2>2, SlotStays
  <2>. QED  BY <2>1, <2>2
<1>15. ASSUME NEW p \in Peers PROVE Coded(p)'
  <2>1. CASE p = Here
    BY <1>8, <2>1 DEF Coded
  <2>2. CASE p # Here
    BY <1>0, <1>1, <1>8, <2>2 DEF Rest, Coded, Entitled
  <2>. QED  BY <2>1, <2>2
<1>16. Balance'
  <2>. SUFFICES ASSUME NEW i \in Slots, con'[i].state = 1, fin'[cli'[i]] = FALSE
                PROVE  rx'[cli'[i]].behind \in {-1, Owed(i)'}
    BY <1>0 DEF Balance
  <2>1. CASE i = at
    BY <1>1, <1>8, <2>1 DEF Here
  <2>2. CASE i # at
    <3>1. con[i].state = 1 /\ cli'[i] = cli[i] /\ cli[i] # None /\ fin[cli[i]] = FALSE
      BY <1>0, <1>1, <1>7, <2>2 DEF SlotsAgree
    <3>2. Owed(i)' = Owed(i)
      BY <1>0, <1>1, <2>2, OwedNext
    <3>3. rx'[cli[i]] = rx[cli[i]]
      BY <1>8, <1>a, <2>2, <3>1
    <3>. QED  BY <1>0, <3>1, <3>2, <3>3 DEF Balance
  <2>. QED  BY <2>1, <2>2
<1>. QED  BY <1>6, <1>10, <1>11, <1>12, <1>13, <1>14, <1>15, <1>16 DEF CasStrong, CasTypes

\* readntripc returns what a client has sent.
LEMMA ConReadKept == ASSUME CasStrong, ConRead PROVE CasStrong'
<1>0. CasTypes /\ Rest /\ Balance /\ Slots' = Slots /\ SlotsAgree
  BY DEF CasStrong, Rest, Slots
<1>. USE CasFacts
<1>1. PICK k \in 1 .. Len(up[Here]) : Taken(k)
  BY DEF ConRead
<1>2. /\ kind = "ntripcas" /\ step = "data" /\ call = "read" /\ con[at].state = 1 /\ at' = 0 /\ step' = "idle"
      /\ UNCHANGED <<kind, svr, cli, call, size, done, net, fin, ask, unread, rx, con>> /\ size = 0 /\ done = 0
  BY <1>0 DEF ConRead, AtCon, CasTypes, CallTypes
<1>3. Here \in Peers
  BY <1>0, <1>2 DEF Here, SlotsAgree
<1>4. up' \in [Peers -> Seq(ReqTokens)] /\ Asked'
  BY <1>0, <1>1, <1>2, <1>3, TakenKept DEF Rest
<1>5. CallTypes'
  BY <1>0, <1>2 DEF CasTypes, CallTypes, Slots
<1>6. Conns'
  BY <1>0, <1>2, <1>4 DEF CasTypes, Conns
<1>7. OneSlot' /\ Fresh' /\ SlotsAgree' /\ \A p \in Peers : Coded(p)'
  BY <1>0, <1>2, SentKept
<1>8. Balance'
  <2>1. \A i \in Slots : Owed(i) = 0 /\ Owed(i)' = 0
    BY <1>2 DEF Owed
  <2>2. \A i \in Slots : Same(i)
    BY <1>2 DEF Same
  <2>. QED  BY <1>0, <2>1, <2>2, BalanceKept
<1>. QED  BY <1>4, <1>5, <1>6, <1>7, <1>8 DEF CasStrong, CasTypes

\* What a client has got when it got n units more
Codings == SUBSET {"raw", "chunk", "term"}
Behinds == -1 .. MaxWrite + 1

With(f, d, e) == [f EXCEPT !.behind = d, !.codes = e, !.holed = FALSE]

LEMMA Gained ==
  ASSUME NEW f \in RxRec, NEW d \in Behinds, NEW e \in Codings
  PROVE  /\ With(f, d, e) \in RxRec /\ With(f, d, e).behind = d /\ With(f, d, e).codes = e
         /\ ~With(f, d, e).holed /\ With(f, d, e).rsp = f.rsp
<1>. DEFINE g == With(f, d, e)
            R == [rsp : {"none", "ok1", "ok2", "refused"}, behind : Behinds, holed : BOOLEAN, codes : Codings]
<1>1. f \in R
  BY DEF RxRec, Behinds, Codings
<1>2. g \in R /\ g.behind = d /\ g.codes = e /\ ~g.holed /\ g.rsp = f.rsp
  BY <1>1 DEF With
<1>. QED  BY <1>2 DEF RxRec, Behinds, Codings

\* The client of the slot gets n units, from the m-th on.
LEMMA GainsKept ==
  ASSUME CasTypes, Rest, AtCon, NEW m \in Nat, NEW n \in Nat, size - m - n + 1 \in -1 .. MaxWrite + 1,
         (rx[Here].behind > size - m + 1) = FALSE,
         NEW code, code = (IF con[at].ver = 2 THEN "chunk" ELSE "raw"), Gains(m, n, code),
         UNCHANGED <<kind, cli, net, fin, ask, up, con>>
  PROVE  /\ rx' \in [Peers -> RxRec] /\ Rest'
         /\ rx'[Here].behind = size - m - n + 1
         /\ \A i \in Slots \ {at} : Same(i)
<1>. DEFINE x == rx[Here]
            y == rx'[Here]
            z == size - m - n + 1
            w == x.behind > size - m + 1
<1>f. /\ rx \in [Peers -> RxRec] /\ cli \in [Slots -> Peers \cup {None}] /\ at \in Slots /\ None \notin Peers
      /\ size \in 0 .. MaxWrite /\ MaxWrite \in Nat
      /\ con \in [Slots -> [state : 0 .. 1, ver : 1 .. 2, buff : Seq(ReqTokens)]]
  BY CasFacts
<1>0. OneSlot /\ Asked /\ Fresh /\ SlotsAgree /\ Slots' = Slots /\ con[at].state = 1 /\ code \in {"raw", "chunk"}
  BY DEF Rest, Slots, AtCon
<1>1. Here \in Peers /\ cli[at] = Here /\ Entitled(ask[Here]) /\ net[Here] = "slot"
      /\ x.rsp = (IF con[at].ver = 2 THEN "ok2" ELSE "ok1")
  BY <1>f, <1>0 DEF SlotsAgree, Here, OneSlot
<1>2. x \in RxRec /\ Coded(Here)
  BY <1>f, <1>1 DEF Rest
<1>3. y = [x EXCEPT !.behind = z, !.codes = @ \cup {code}, !.holed = @ \/ w]
      /\ rx' = [rx EXCEPT ![Here] = y]
  BY <1>f, <1>1 DEF Gains
<1>4. \A p \in Peers \ {Here} : rx'[p] = rx[p]
  BY <1>f, <1>1, <1>3
<1>5. y \in RxRec /\ y.behind = z /\ y.codes = x.codes \cup {code} /\ y.holed = FALSE /\ y.rsp = x.rsp
  <2>. DEFINE c == x.codes \cup {code}
  <2>1. z \in Behinds /\ w = FALSE /\ x.holed = FALSE
    BY <1>f, <1>2 DEF Coded, Behinds
  <2>2. c \in Codings
    BY <1>f, <1>0, <1>2 DEF RxRec, Codings
  <2>. HIDE DEF x, y, z, w
  <2>3. y = [x EXCEPT !.behind = z, !.codes = x.codes \cup {code}, !.holed = x.holed \/ w]
    BY <1>f, <1>3
  <2>4. y = With(x, z, c)
    BY <1>f, <2>1, <2>3 DEF With
  <2>5. x \in RxRec
    BY <1>f, <1>2
  <2>. HIDE DEF c
  <2>6. y \in RxRec /\ y.behind = z /\ y.codes = c /\ y.holed = FALSE /\ y.rsp = x.rsp
    BY <2>1, <2>2, <2>4, <2>5, Gained
  <2>. QED  BY <1>f, <2>6 DEF c
<1>6. rx' \in [Peers -> RxRec]
  <2>. HIDE DEF y
  <2>. QED  BY <1>f, <1>1, <1>3, <1>5
<1>a. \A i \in Slots \ {at} : cli[i] # None => cli[i] \in Peers \ {Here}
  BY <1>f, <1>0, <1>1 DEF OneSlot
<1>7. \A i \in Slots \ {at} : Same(i)
  BY <1>f, <1>4, <1>a DEF Same
<1>8. OneSlot' /\ Asked'
  BY <1>f, <1>0 DEF OneSlot, Asked
<1>9. Fresh'
  <2>1. \A p \in Peers : net'[p] = "waiting" => rx'[p] = NoRx
    BY <1>f, <1>0, <1>1, <1>4 DEF Fresh
  <2>2. ASSUME NEW i \in Slots, cli'[i] # None, con'[i].state = 0 PROVE rx'[cli'[i]] = NoRx
    <3>1. i # at /\ con[i].state = 0 /\ cli'[i] = cli[i] /\ cli[i] # None
      BY <1>f, <1>0, <2>2
    <3>2. rx'[cli[i]] = rx[cli[i]]
      BY <1>f, <1>4, <1>a, <3>1
    <3>. QED  BY <1>f, <1>0, <3>1, <3>2 DEF Fresh
  <2>. QED  BY <1>f, <1>0, <2>1, <2>2 DEF Fresh
<1>10. SlotsAgree'
  <2>. SUFFICES ASSUME NEW i \in Slots
                PROVE  IF con'[i].state = 1
                       THEN /\ cli'[i] # None /\ Entitled(ask'[cli'[i]]) /\ con'[i].ver <= ask'[cli'[i]].ver
                            /\ rx'[cli'[i]].rsp = (IF con'[i].ver = 2 THEN "ok2" ELSE "ok1")
                       ELSE con'[i] = NoCon
    BY <1>f, <1>0 DEF SlotsAgree, Entitled
  <2>1. CASE i = at
    BY <1>f, <1>0, <1>1, <1>5, <2>1 DEF SlotsAgree
  <2>2. CASE i # at
    BY <1>f, <1>0, <1>4, <1>a, <2>2 DEF SlotsAgree
  <2>. QED  BY <1>f, <2>1, <2>2
<1>11. ASSUME NEW p \in Peers PROVE Coded(p)'
  <2>1. CASE p = Here
    <3>. HIDE DEF x, y
    <3>1. y.rsp \in {"ok1", "ok2"} /\ y.holed = FALSE
      BY <1>f, <1>1, <1>5
    <3>2. y.rsp = "ok1" => y.codes \subseteq {"raw"}
      BY <1>f, <1>1, <1>2, <1>5 DEF Coded, x
    <3>3. y.rsp = "ok2" => y.codes \subseteq {"chunk", "term"}
      BY <1>f, <1>1, <1>2, <1>5 DEF Coded, x
    <3>. QED  BY <1>f, <1>1, <2>1, <3>1, <3>2, <3>3 DEF Coded, Entitled, y
  <2>2. CASE p # Here
    BY <1>f, <1>4, <2>2 DEF Rest, Coded, Entitled
  <2>. QED  BY <1>f, <2>1, <2>2
<1>. QED  BY <1>f, <1>5, <1>6, <1>7, <1>8, <1>9, <1>10, <1>11 DEF Rest

\* A client that takes part gets units it is owed, and nothing before them is missing.
LEMMA OwedHere ==
  ASSUME CasStrong, AtCon, call = "write", ~fin[Here]
  PROVE  /\ CasTypes /\ Rest /\ Balance /\ SlotsAgree /\ Slots' = Slots /\ Here \in Peers /\ cli[at] = Here
         /\ size \in Nat /\ done \in Nat /\ (done < size \/ done = 0) /\ size <= MaxWrite /\ MaxWrite \in Nat
         /\ con[at].ver \in {1, 2} /\ (con[at].ver = 1 => done = 0)
         /\ rx[Here].behind = -1 \/ rx[Here].behind = size - done
<1>0. CasTypes /\ Rest /\ Balance /\ SlotsAgree /\ Slots' = Slots
  BY DEF CasStrong, Rest, Slots
<1>. USE CasFacts
<1>1. Here \in Peers /\ cli[at] = Here
  BY <1>0 DEF SlotsAgree, Here, AtCon
<1>2. size \in Nat /\ done \in Nat /\ (done < size \/ done = 0) /\ size <= MaxWrite /\ MaxWrite \in Nat
  BY <1>0 DEF CasTypes, CallTypes
<1>3. con[at].ver \in {1, 2} /\ (con[at].ver = 1 => done = 0)
  <2>1. con[at] \in [state : 0 .. 1, ver : 1 .. 2, buff : Seq(ReqTokens)]
    BY <1>0
  <2>2. con[at].ver \in {1, 2}
    BY <2>1
  <2>3. con[at].ver = 1 => ~(done > 0)
    BY <1>0 DEF CasTypes, CallTypes
  <2>. QED  BY <1>2, <2>2, <2>3
<1>4. rx[Here].behind = -1 \/ rx[Here].behind = size - done
  <2>1. fin[cli[at]] = FALSE /\ con[at].state = 1
    BY <1>0, <1>1 DEF AtCon
  <2>2. Owed(at) = size - done
    BY <1>0 DEF Owed, AtCon
  <2>3. rx[cli[at]].behind \in {-1, Owed(at)}
    BY <1>0, <2>1 DEF Balance
  <2>. QED  BY <1>1, <2>2, <2>3
<1>. QED  BY <1>0, <1>1, <1>2, <1>3, <1>4

\* It got n of them.
LEMMA Wrote ==
  ASSUME CasStrong, AtCon, call = "write", NEW m \in Nat, NEW n \in Nat, Sends(n),
         size - m - n + 1 \in -1 .. MaxWrite + 1, (rx[Here].behind > size - m + 1) = FALSE,
         NEW code, code = (IF con[at].ver = 2 THEN "chunk" ELSE "raw"), Gains(m, n, code),
         UNCHANGED <<kind, svr, cli, call, size, net, fin, ask, up, con>>,
         CallTypes', \A i \in Slots \ {at} : Owed(i)' = Owed(i),
         \A i \in Slots : i = at => size - m - n + 1 \in {-1, Owed(i)'}
  PROVE  CasStrong'
<1>0. CasTypes /\ Rest /\ Balance /\ SlotsAgree /\ Slots' = Slots /\ Here \in Peers /\ cli[at] = Here
  BY OwedHere DEF Sends
<1>. USE CasFacts
<1>1. /\ rx' \in [Peers -> RxRec] /\ Rest'
      /\ rx'[Here].behind = size - m - n + 1
      /\ \A i \in Slots \ {at} : Same(i)
  BY <1>0, GainsKept
<1>2. unread' \in [Peers -> 0 .. Room]
  <2>0. unread[Here] \in Nat /\ Room \in Nat /\ unread[Here] + n <= Room
    BY <1>0 DEF Sends
  <2>. DEFINE q == unread[Here] + n
  <2>1. q \in 0 .. Room
    BY <2>0
  <2>2. unread' = [unread EXCEPT ![Here] = q]
    BY DEF Sends
  <2>. HIDE DEF q
  <2>. QED  BY <1>0, <2>1, <2>2
<1>3. Conns'
  BY <1>0, <1>1, <1>2 DEF CasTypes, Conns
<1>4. Balance'
  <2>. SUFFICES ASSUME NEW i \in Slots, con'[i].state = 1, fin'[cli'[i]] = FALSE
                PROVE  rx'[cli'[i]].behind \in {-1, Owed(i)'}
    BY <1>0 DEF Balance
  <2>1. CASE i = at
    BY <1>0, <1>1, <2>1
  <2>2. CASE i # at
    <3>1. con[i].state = 1 /\ cli[i] # None /\ fin[cli[i]] = FALSE /\ rx'[cli[i]].behind = rx[cli[i]].behind
      BY <1>0, <1>1, <2>2 DEF SlotsAgree, Same
    <3>2. Owed(i)' = Owed(i)
      BY <2>2
    <3>. QED  BY <1>0, <3>1, <3>2 DEF Balance
  <2>. QED  BY <2>1, <2>2
<1>. QED  BY <1>1, <1>3, <1>4 DEF CasStrong, CasTypes, Rest

\* send of the whole write to a client of version 1
LEMMA WriteRawKept == ASSUME CasStrong, WriteRaw PROVE CasStrong'
<1>1. /\ AtCon /\ call = "write" /\ con[at].ver = 1 /\ Sends(size) /\ Gains(1, size, "raw") /\ NextSlot
      /\ UNCHANGED <<kind, svr, cli, call, size, done, net, fin, ask, up, con>> /\ ~fin[Here]
  BY DEF WriteRaw, Sends
<1>2. /\ CasTypes /\ size \in Nat /\ size <= MaxWrite /\ MaxWrite \in Nat /\ done = 0
      /\ rx[Here].behind = -1 \/ rx[Here].behind = size - done
  BY <1>1, OwedHere
<1>3. size - 1 - size + 1 = 0 /\ (rx[Here].behind > size - 1 + 1) = FALSE
  <2>. DEFINE q == rx[Here].behind
  <2>1. q = -1 \/ q = size
    BY <1>2
  <2>. HIDE DEF q
  <2>2. (q > size - 1 + 1) = FALSE
    BY <1>2, <2>1
  <2>. QED  BY <1>2, <2>2 DEF q
<1>4. CallTypes' /\ (\A i \in Slots \ {at} : Owed(i)' = Owed(i)) /\ \A i \in Slots : i = at => Owed(i)' = 0
  <2>1. step = "data" /\ svr' \in -1 .. 2 /\ done' = 0
    BY <1>1, <1>2, CasFacts DEF AtCon
  <2>. QED  BY <1>1, <1>2, <2>1, NextTypes, OwedNext
<1>5. /\ size - 1 - size + 1 \in -1 .. MaxWrite + 1
      /\ \A i \in Slots : i = at => size - 1 - size + 1 \in {-1, Owed(i)'}
  BY <1>2, <1>3, <1>4
<1>6. 1 \in Nat /\ "raw" = (IF con[at].ver = 2 THEN "chunk" ELSE "raw")
  BY <1>1
<1>. QED  BY <1>1, <1>2, <1>3, <1>4, <1>5, <1>6, Wrote

\* send of the next chunk to a client of version 2
LEMMA WriteChunkKept == ASSUME CasStrong, WriteChunk PROVE CasStrong'
<1>1. /\ AtCon /\ call = "write" /\ con[at].ver = 2 /\ Sends(1) /\ Gains(done + 1, 1, "chunk") /\ ~fin[Here]
      /\ UNCHANGED <<kind, svr, cli, call, size, net, fin, ask, up, con>> /\ step = "data"
      /\ kind = "ntripcas" /\ con[at].state = 1
  BY DEF WriteChunk, Sends, AtCon
<1>2. /\ CasTypes /\ size \in Nat /\ done \in Nat /\ (done < size \/ done = 0) /\ size <= MaxWrite /\ MaxWrite \in Nat
      /\ rx[Here].behind = -1 \/ rx[Here].behind = size - done
  BY <1>1, OwedHere
<1>3. (rx[Here].behind > size - (done + 1) + 1) = FALSE
  <2>. DEFINE q == rx[Here].behind
  <2>1. q = -1 \/ q = size - done
    BY <1>2
  <2>. HIDE DEF q
  <2>2. (q > size - (done + 1) + 1) = FALSE
    BY <1>2, <2>1
  <2>. QED  BY <1>2, <2>2 DEF q
<1>4. size - (done + 1) - 1 + 1 = size - done - 1 /\ size - done - 1 \in -1 .. MaxWrite + 1
  BY <1>2
<1>5. CallTypes' /\ (\A i \in Slots \ {at} : Owed(i)' = Owed(i))
      /\ \A i \in Slots : i = at => size - done - 1 \in {-1, Owed(i)'}
  <2>1. CASE done + 1 < size /\ done' = done + 1 /\ UNCHANGED <<at, step>>
    <3>1. CallTypes'
      BY <1>1, <1>2, <2>1 DEF CasTypes, CallTypes, Slots
    <3>2. \A i \in Slots \ {at} : Owed(i)' = Owed(i)
      BY <1>1, <2>1 DEF Owed
    <3>3. \A i \in Slots : i = at => Owed(i)' = size - (done + 1)
      <4>1. at \in Nat
        BY <1>2, CasFacts
      <4>2. ~(at < at)
        BY <4>1
      <4>. QED  BY <1>1, <2>1, <4>2 DEF Owed
    <3>4. size - (done + 1) = size - done - 1
      BY <1>2
    <3>. QED  BY <3>1, <3>2, <3>3, <3>4
  <2>2. CASE ~(done + 1 < size) /\ done' = 0 /\ NextSlot
    <3>1. svr' \in -1 .. 2
      BY <1>1, <1>2, CasFacts
    <3>2. CallTypes'
      BY <1>1, <1>2, <2>2, <3>1, NextTypes
    <3>3. (\A i \in Slots \ {at} : Owed(i)' = Owed(i)) /\ \A i \in Slots : i = at => Owed(i)' = 0
      BY <1>1, <1>2, <2>2, OwedNext
    <3>4. size - done - 1 \in {-1, 0}
      BY <1>2, <2>2
    <3>. QED  BY <3>2, <3>3, <3>4
  <2>. QED  BY <2>1, <2>2 DEF WriteChunk
<1>6. done + 1 \in Nat /\ 1 \in Nat /\ "chunk" = (IF con[at].ver = 2 THEN "chunk" ELSE "raw")
  BY <1>1, <1>2
<1>. QED  BY <1>1, <1>2, <1>3, <1>4, <1>5, <1>6, Wrote

\* What is sent to a client that has closed its side counts for nothing.
LEMMA WriteVoidKept == ASSUME CasStrong, WriteVoid PROVE CasStrong'
<1>0. CasTypes /\ SlotsAgree
  BY DEF CasStrong
<1>. USE CasFacts
<1>1. /\ kind = "ntripcas" /\ step = "data" /\ con[at].state = 1 /\ fin[cli[at]]
      /\ UNCHANGED <<kind, svr, cli, call, size, clients, con>> /\ svr' \in -1 .. 2
  BY <1>0 DEF WriteVoid, AtCon, Dead, Here
<1>2. CallTypes' /\ \A i \in Slots \ {at} : Owed(i)' = Owed(i)
  <2>1. CASE con[at].ver = 2 /\ done + 1 < size /\ done' = done + 1 /\ UNCHANGED <<at, step>>
    <3>1. done \in Nat /\ size \in Nat /\ size <= MaxWrite
      BY <1>0
    <3>2. CallTypes'
      BY <1>0, <1>1, <2>1, <3>1 DEF CasTypes, CallTypes, Slots
    <3>. QED  BY <1>1, <2>1, <3>2 DEF Owed
  <2>2. CASE done' = 0 /\ NextSlot
    BY <1>0, <1>1, <2>2, NextTypes, OwedNext
  <2>. QED  BY <2>1, <2>2 DEF WriteVoid
<1>3. \A i \in Slots : con[i].state = 1 /\ fin[cli[i]] = FALSE => Owed(i)' = Owed(i)
  BY <1>1, <1>2
<1>4. Conns' /\ Rest' /\ Balance'
  BY <1>1, <1>3, Stays
<1>. QED  BY <1>2, <1>4 DEF CasStrong, CasTypes, Rest

\* The caster's steps, one by one
LEMMA CasStepsKept == ASSUME CasStrong, CasSteps PROVE CasStrong'
<1>0. CasTypes /\ SlotsAgree
  BY DEF CasStrong
<1>. USE CasFacts
<1>1. CASE SkipRequest \/ RequestNone
  <2>1. done = 0
    BY <1>0, <1>1 DEF SkipRequest, RequestNone, AtRequest, CasTypes, CallTypes
  <2>. QED  BY <1>1, <2>1, PassedOver DEF SkipRequest, RequestNone, AtRequest
<1>2. CASE SkipCon
  <2>1. done = 0
    BY <1>0, <1>2 DEF SkipCon, CasTypes, CallTypes
  <2>. QED  BY <1>2, <2>1, PassedOver DEF SkipCon
<1>3. CASE ConReadNone
  <2>1. size = 0 /\ done = 0
    BY <1>0, <1>3 DEF ConReadNone, AtCon, CasTypes, CallTypes
  <2>. QED  BY <1>3, <2>1, PassedOver DEF ConReadNone, AtCon
<1>4. CASE RequestEnd
  <2>1. done = 0
    BY <1>0, <1>4 DEF RequestEnd, AtRequest, CasTypes, CallTypes
  <2>2. kind = "ntripcas" /\ step \in {"request", "data"} /\ NextSlot /\ done' = 0
        /\ UNCHANGED <<kind, svr, call, size>> /\ Here # None /\ DisconCli(rx)
    BY <1>4, <2>1 DEF RequestEnd, AtRequest
  <2>. QED  BY <2>2, DroppedKept
<1>5. CASE RequestBad
  <2>. DEFINE b(k) == con[at].buff \o SubSeq(up[Here], 1, k)
              r(k) == [rx EXCEPT ![Here].rsp = IF Gets(b(k)) = {} THEN @ ELSE "refused"]
  <2>1. PICK k \in 1 .. Len(up[Here]) : DisconCli(r(k))
    BY <1>5 DEF RequestBad
  <2>2. done = 0 /\ kind = "ntripcas" /\ step \in {"request", "data"} /\ NextSlot /\ done' = 0
        /\ UNCHANGED <<kind, svr, call, size>> /\ Here \in Peers /\ Here # None /\ con[at].state = 0
    BY <1>0, <1>5 DEF RequestBad, AtRequest, CasTypes, CallTypes, Here
  <2>3. r(k) = rx \/ r(k) = [rx EXCEPT ![Here].rsp = "refused"]
    <3>1. CASE Gets(b(k)) = {}
      <4>1. rx[Here] \in RxRec
        BY <1>0, <2>2
      <4>2. [rx[Here] EXCEPT !.rsp = rx[Here].rsp] = rx[Here]
        BY <4>1 DEF RxRec
      <4>3. r(k) = [rx EXCEPT ![Here] = [rx[Here] EXCEPT !.rsp = rx[Here].rsp]]
        BY <3>1
      <4>. QED  BY <1>0, <2>2, <4>2, <4>3
    <3>2. CASE Gets(b(k)) # {}
      BY <3>2
    <3>. QED  BY <3>1, <3>2
  <2>. HIDE DEF r
  <2>. QED  BY <2>1, <2>2, <2>3, DroppedKept
<1>6. CASE ConReadEnd
  <2>1. size = 0 /\ done = 0
    BY <1>0, <1>6 DEF ConReadEnd, AtCon, CasTypes, CallTypes
  <2>2. kind = "ntripcas" /\ step \in {"request", "data"} /\ NextSlot /\ done' = 0
        /\ UNCHANGED <<kind, svr, call, size>> /\ Here # None /\ DisconCli(rx)
    BY <1>0, <1>6, <2>1 DEF ConReadEnd, AtCon, SlotsAgree, Here
  <2>. QED  BY <2>2, DroppedKept
<1>7. CASE WriteFails
  <2>1. kind = "ntripcas" /\ step \in {"request", "data"} /\ NextSlot /\ done' = 0
        /\ UNCHANGED <<kind, svr, call, size>> /\ Here # None /\ DisconCli(rx)
    BY <1>0, <1>7 DEF WriteFails, AtCon, SlotsAgree, Here
  <2>. QED  BY <2>1, DroppedKept
<1>. QED  BY <1>1, <1>2, <1>3, <1>4, <1>5, <1>6, <1>7,
             RequestOkKept, ConReadKept, WriteRawKept, WriteChunkKept, WriteVoidKept DEF CasSteps

-----------------------------------------------------------------------------
(* Opening and closing, and the clients.                                    *)

\* All connections end.
LEMMA CasCloseKept == ASSUME CasStrong, CasClose PROVE CasStrong'
<1>0. CasTypes /\ Rest /\ Slots' = Slots /\ SlotsAgree
  BY DEF CasStrong, Rest, Slots
<1>. USE CasFacts
<1>. DEFINE t == Terminated(Slots, rx)
<1>1. /\ svr' = -1 /\ cli' = [i \in Slots |-> None] /\ HangUp(Peers) /\ con' = [i \in Slots |-> NoCon]
      /\ UNCHANGED <<kind, step, call, at, size, done>> /\ step = "idle" /\ done = 0
      /\ rx' = [p \in Peers |-> [t[p] EXCEPT !.behind = -1, !.holed = FALSE]]
  <2>1. step = "idle" => ~(done > 0)
    BY <1>0 DEF CasTypes, CallTypes
  <2>2. step = "idle" => done = 0
    BY <1>0, <2>1
  <2>. QED  BY <2>2 DEF CasClose, Forgotten
<1>2. /\ net' \in [Peers -> {"out", "waiting", "slot"}] /\ fin' \in [Peers -> BOOLEAN]
      /\ ask' \in [Peers -> AnyAsk]
      /\ (\A p \in Peers : ask'[p] \in Asks[p] \cup {NoAsk})
      /\ up' \in [Peers -> Seq(ReqTokens)] /\ unread' \in [Peers -> 0 .. Room]
      /\ Asked'
      /\ \A p \in Peers : net'[p] = "out"
  <2>. HIDE DEF AnyAsk
  <2>1. Peers \in SUBSET Peers /\ Asked /\ HangUp(Peers)
    BY <1>0, <1>1 DEF Rest
  <2>. HIDE DEF t
  <2>. QED  BY <1>0, <2>1, HungUp
<1>3. ASSUME NEW p \in Peers
      PROVE  /\ rx'[p] \in RxRec /\ rx'[p].rsp = rx[p].rsp /\ rx'[p].holed = FALSE
             /\ \/ rx'[p].codes = rx[p].codes
                \/ rx'[p].codes = rx[p].codes \cup {"term"} /\ rx[p].rsp = "ok2"
  <2>. DEFINE x == rx[p]
              y == t[p]
  <2>1. x \in RxRec /\ MaxWrite \in Nat
    BY <1>0
  <2>2. y = x \/ (y = [x EXCEPT !.codes = @ \cup {"term"}] /\ x.rsp = "ok2")
    BY <1>0 DEF Terminated, SlotsAgree
  <2>3. rx'[p] = [y EXCEPT !.behind = -1, !.holed = FALSE]
    BY <1>1
  <2>. HIDE DEF x, y
  <2>4. y \in RxRec /\ y.rsp = x.rsp /\ (y.codes = x.codes \/ (y.codes = x.codes \cup {"term"} /\ x.rsp = "ok2"))
    BY <2>1, <2>2, RxChanged
  <2>5. /\ [y EXCEPT !.behind = -1, !.holed = FALSE] \in RxRec
        /\ [y EXCEPT !.behind = -1, !.holed = FALSE].rsp = y.rsp
        /\ [y EXCEPT !.behind = -1, !.holed = FALSE].codes = y.codes
        /\ [y EXCEPT !.behind = -1, !.holed = FALSE].holed = FALSE
    BY <2>1, <2>4, RxChanged
  <2>. QED  BY <2>3, <2>4, <2>5 DEF x
<1>. HIDE DEF t
<1>4. rx' \in [Peers -> RxRec]
  BY <1>1, <1>3
<1>5. CallTypes'
  <2>1. -1 \in -1 .. 2 /\ ~(0 > 0)
    OBVIOUS
  <2>2. svr' \in -1 .. 2
    BY <1>1, <2>1
  <2>3. done' = 0
    BY <1>1
  <2>. QED  BY <1>0, <1>1, <2>1, <2>2, <2>3 DEF CasTypes, CallTypes
<1>6. Conns'
  <2>0. NoCon \in [state : 0 .. 1, ver : 1 .. 2, buff : Seq(ReqTokens)]
    BY DEF NoCon
  <2>1. con' \in [Slots -> [state : 0 .. 1, ver : 1 .. 2, buff : Seq(ReqTokens)]]
    BY <1>1, <2>0
  <2>2. cli' \in [Slots -> Peers \cup {None}]
    BY <1>1
  <2>. QED  BY <1>0, <1>2, <1>4, <2>1, <2>2 DEF Conns
<1>7. \A i \in Slots : cli'[i] = None /\ con'[i] = NoCon /\ con'[i].state = 0
  BY <1>1 DEF NoCon
<1>8. OneSlot' /\ SlotsAgree' /\ Balance'
  BY <1>0, <1>7 DEF OneSlot, SlotsAgree, Balance
<1>9. Fresh'
  BY <1>0, <1>2, <1>7 DEF Fresh
<1>10. ASSUME NEW p \in Peers PROVE Coded(p)'
  <2>. DEFINE x == rx[p]
              y == rx'[p]
  <2>1. Coded(p)
    BY <1>0 DEF Rest
  <2>2. x.codes = {} \/ x.codes # {}
    OBVIOUS
  <2>3. CASE y.codes = x.codes
    BY <1>2, <1>3, <2>1, <2>3 DEF Coded
  <2>4. CASE y.codes = x.codes \cup {"term"} /\ x.rsp = "ok2"
    BY <1>2, <1>3, <2>1, <2>4 DEF Coded
  <2>. QED  BY <1>3, <2>3, <2>4
<1>. QED  BY <1>2, <1>5, <1>6, <1>8, <1>9, <1>10 DEF CasStrong, CasTypes

\* opentcpsvr and openntripc
LEMMA CasOpenKept == ASSUME CasStrong, CasOpen PROVE CasStrong'
<1>1. /\ svr' = 1 /\ UNCHANGED <<kind, cli, step, call, at, size, done, clients, con>>
  BY DEF CasOpen
<1>2. CallTypes'
  BY <1>1 DEF CasStrong, CasTypes, CallTypes, Slots
<1>3. Conns' /\ Rest' /\ Balance'
  <2>1. \A i \in Slots : Owed(i)' = Owed(i)
    BY <1>1 DEF Owed
  <2>. QED  BY <1>1, <2>1, Stays
<1>. QED  BY <1>2, <1>3 DEF CasStrong, CasTypes, Rest

\* A client without a connection begins one.
LEMMA ConnectKept == ASSUME CasStrong, NEW p \in Peers, Connect(p), UNCHANGED con PROVE CasStrong'
<1>0. CasTypes /\ Rest /\ Slots' = Slots /\ SlotsAgree /\ OneSlot /\ Fresh /\ Asked /\ Balance
  BY DEF CasStrong, Rest, Slots
<1>. USE CasFacts
<1>1. /\ net[p] = "out" /\ net' = [net EXCEPT ![p] = "waiting"] /\ rx' = [rx EXCEPT ![p] = NoRx]
      /\ UNCHANGED <<kind, svr, cli, step, call, at, size, done, fin, unread, con>>
  BY DEF Connect, owner
<1>2. \A i \in Slots : cli[i] # None => cli[i] \in Peers \ {p}
  BY <1>0, <1>1 DEF OneSlot
<1>3. /\ ask' \in [Peers -> AnyAsk] /\ up' \in [Peers -> Seq(ReqTokens)]
      /\ (\A q \in Peers : ask'[q] \in Asks[q] \cup {NoAsk})
      /\ (\A q \in Peers \ {p} : ask'[q] = ask[q] /\ up'[q] = up[q])
      /\ Asked'
  <2>1. CASE UNCHANGED <<ask, up>>
    BY <1>0, <2>1 DEF Asked, CasTypes, Conns
  <2>2. CASE ~UNCHANGED <<ask, up>>
    <3>1. PICK a \in Asks[p] : ask' = [ask EXCEPT ![p] = a] /\ up' = [up EXCEPT ![p] = RequestOf(a)]
      BY <2>2 DEF Connect
    <3>2. a \in AnyAsk
      BY <3>1, TcpSvrAssumption DEF AnyAsk
    <3>. DEFINE s == RequestOf(a)
    <3>3. s \in Seq(ReqTokens) /\ \A j \in DOMAIN s : s[j] \in TokensOf(a)
      <4>1. a.mp \in {"ours", "other", "table"}
        BY <3>2 DEF AnyAsk
      <4>. DEFINE s1 == <<a.mp>>
                  s2 == IF a.ver = 2 THEN <<"ver">> ELSE <<>>
                  s3 == <<"agent">>
                  s4 == IF a.auth THEN <<"auth">> ELSE <<>>
                  T == TokensOf(a)
      <4>2. T \subseteq ReqTokens
        BY <4>1 DEF TokensOf, ReqTokens
      <4>3. s1 \in Seq(T) /\ s3 \in Seq(T)
        BY DEF TokensOf
      <4>4. s2 \in Seq(T)
        <5>1. CASE a.ver = 2
          BY <5>1 DEF TokensOf
        <5>. QED  BY <5>1
      <4>5. s4 \in Seq(T)
        <5>1. CASE a.auth
          BY <5>1 DEF TokensOf
        <5>. QED  BY <5>1
      <4>6. s = ((s1 \o s2) \o s3) \o s4
        BY DEF RequestOf
      <4>. HIDE DEF s1, s2, s3, s4, T, s
      <4>7. s \in Seq(T)
        BY <4>3, <4>4, <4>5, <4>6
      <4>8. s \in Seq(ReqTokens)
        <5>1. Len(s) \in Nat /\ s \in [1 .. Len(s) -> T]
          BY <4>7
        <5>2. s \in [1 .. Len(s) -> ReqTokens]
          BY <4>2, <5>1
        <5>. QED  BY <5>1, <5>2, SeqDef
      <4>. QED  BY <4>7, <4>8 DEF T
    <3>. HIDE DEF s, AnyAsk
    <3>4. /\ ask'[p] = a /\ up'[p] = s /\ ask' \in [Peers -> AnyAsk] /\ up' \in [Peers -> Seq(ReqTokens)]
          /\ \A q \in Peers \ {p} : ask'[q] = ask[q] /\ up'[q] = up[q]
      BY <1>0, <3>1, <3>2, <3>3 DEF s
    <3>5. \A q \in Peers : ask'[q] \in Asks[q] \cup {NoAsk}
      BY <1>0, <3>1, <3>4 DEF CasTypes, Conns
    <3>6. Asked'
      BY <1>0, <3>3, <3>4 DEF Asked
    <3>. QED  BY <3>4, <3>5, <3>6
  <2>. QED  BY <2>1, <2>2
<1>5. rx'[p] = NoRx /\ (\A q \in Peers \ {p} : rx'[q] = rx[q]) /\ net'[p] = "waiting"
      /\ \A q \in Peers \ {p} : net'[q] = net[q]
  BY <1>0, <1>1
<1>6. rx' \in [Peers -> RxRec]
  <2>1. NoRx \in RxRec
    BY <1>0 DEF NoRx, RxRec
  <2>. QED  BY <1>0, <1>1, <2>1
<1>7. CallTypes'
  BY <1>0, <1>1 DEF CasTypes, CallTypes
<1>8. Conns'
  BY <1>0, <1>1, <1>3, <1>6 DEF CasTypes, Conns
<1>9. OneSlot'
  BY <1>0, <1>1, <1>2, <1>5 DEF OneSlot
<1>10. Fresh'
  <2>1. \A q \in Peers : net'[q] = "waiting" => rx'[q] = NoRx
    BY <1>0, <1>5 DEF Fresh
  <2>2. \A i \in Slots : cli'[i] # None /\ con'[i].state = 0 => rx'[cli'[i]] = NoRx
    BY <1>0, <1>1, <1>2, <1>5 DEF Fresh
  <2>. QED  BY <1>0, <2>1, <2>2 DEF Fresh
<1>11. SlotsAgree'
  BY <1>0, <1>1, <1>2, <1>3, <1>5, SlotsStay
<1>12. ASSUME NEW q \in Peers PROVE Coded(q)'
  <2>1. CASE q = p
    BY <1>5, <2>1 DEF Coded, NoRx
  <2>2. CASE q # p
    <3>1. Coded(q)
      BY <1>0 DEF Rest
    <3>2. rx'[q] = rx[q] /\ ask'[q] = ask[q] /\ net'[q] = net[q]
      BY <1>3, <1>5, <2>2
    <3>. QED  BY <3>1, <3>2, CodedStays
  <2>. QED  BY <2>1, <2>2
<1>13. Balance'
  <2>1. \A i \in Slots : Same(i) /\ Owed(i)' = Owed(i)
    BY <1>1, <1>2, <1>5 DEF Same, Owed
  <2>. QED  BY <1>0, <2>1, BalanceKept
<1>. QED  BY <1>3, <1>7, <1>8, <1>9, <1>10, <1>11, <1>12, <1>13 DEF CasStrong, CasTypes

\* What clients do
LEMMA ClientKept == ASSUME CasStrong, NEW p \in Peers, Client(p) PROVE CasStrong'
<1>0. CasTypes /\ Rest /\ Slots' = Slots /\ Asked /\ con' = con /\ SlotsAgree /\ Balance
  BY DEF CasStrong, Rest, Slots, Client
<1>. USE CasFacts
<1>1. CASE Connect(p)
  BY <1>0, <1>1, ConnectKept
<1>2. CASE SendData(p)
  <2>1. /\ up' = [up EXCEPT ![p] = Append(@, "data")]
        /\ UNCHANGED <<kind, svr, cli, step, call, at, size, done, net, fin, ask, unread, rx, con>>
    BY <1>0, <1>2 DEF SendData, owner
  <2>. DEFINE s == up[p]
              n == Append(s, "data")
  <2>3. s \in Seq(ReqTokens) /\ \A j \in DOMAIN s : s[j] \in TokensOf(ask[p])
    BY <1>0 DEF Asked
  <2>4. n \in Seq(ReqTokens) /\ \A j \in DOMAIN n : n[j] \in TokensOf(ask[p])
    <3>. HIDE DEF s
    <3>1. "data" \in ReqTokens /\ "data" \in TokensOf(ask[p])
      BY DEF ReqTokens, TokensOf
    <3>2. Len(s) \in Nat /\ DOMAIN s = 1 .. Len(s)
      BY <2>3
    <3>3. n \in Seq(ReqTokens) /\ DOMAIN n = 1 .. Len(s) + 1 /\ n[Len(s) + 1] = "data" /\ \A j \in 1 .. Len(s) : n[j] = s[j]
      BY <2>3, <3>1, <3>2
    <3>. HIDE DEF n
    <3>. QED  BY <2>3, <3>1, <3>2, <3>3
  <2>5. up' \in [Peers -> Seq(ReqTokens)] /\ up'[p] = n /\ \A q \in Peers \ {p} : up'[q] = up[q]
    BY <1>0, <2>1, <2>4
  <2>. HIDE DEF n
  <2>6. Asked'
    BY <1>0, <2>1, <2>4, <2>5 DEF Asked
  <2>7. CallTypes'
    BY <1>0, <2>1 DEF CasTypes, CallTypes
  <2>8. Conns'
    BY <1>0, <2>1, <2>5 DEF CasTypes, Conns
  <2>9. OneSlot' /\ Fresh' /\ SlotsAgree' /\ \A q \in Peers : Coded(q)'
    BY <1>0, <2>1, SentKept
  <2>10. Balance'
    <3>1. \A i \in Slots : Same(i) /\ Owed(i)' = Owed(i)
      BY <2>1 DEF Same, Owed
    <3>. QED  BY <1>0, <3>1, BalanceKept
  <2>. QED  BY <2>6, <2>7, <2>8, <2>9, <2>10 DEF CasStrong, CasTypes
<1>3. CASE Take(p)
  <2>1. /\ unread[p] > 0 /\ unread' = [unread EXCEPT ![p] = @ - 1]
        /\ UNCHANGED <<kind, svr, cli, step, call, at, size, done, net, fin, ask, up, rx, con>>
    BY <1>0, <1>3 DEF Take, owner
  <2>2. unread' \in [Peers -> 0 .. Room]
    BY <1>0, <2>1
  <2>3. CallTypes'
    BY <1>0, <2>1 DEF CasTypes, CallTypes
  <2>4. Conns'
    BY <1>0, <2>1, <2>2 DEF CasTypes, Conns
  <2>5. Rest'
    BY <1>0, <2>1, RestKept
  <2>6. Balance'
    <3>1. \A i \in Slots : Same(i) /\ Owed(i)' = Owed(i)
      BY <2>1 DEF Same, Owed
    <3>. QED  BY <1>0, <3>1, BalanceKept
  <2>. QED  BY <2>3, <2>4, <2>5, <2>6 DEF CasStrong, CasTypes, Rest
<1>4. CASE Leave(p)
  <2>1. PICK rest \in {up[p], <<>>} : up' = [up EXCEPT ![p] = rest]
    BY <1>4 DEF Leave
  <2>2. /\ fin' = [fin EXCEPT ![p] = TRUE] /\ unread' = [unread EXCEPT ![p] = 0]
        /\ UNCHANGED <<kind, svr, cli, step, call, at, size, done, net, ask, rx, con>>
    BY <1>0, <1>4 DEF Leave, owner
  <2>3. up' \in [Peers -> Seq(ReqTokens)] /\ Asked'
    <3>0. rest \in Seq(ReqTokens)
      <4>1. <<>> \in Seq(ReqTokens) /\ up[p] \in Seq(ReqTokens)
        BY <1>0
      <4>. QED  BY <4>1
    <3>1. up' \in [Peers -> Seq(ReqTokens)] /\ up'[p] = rest /\ \A q \in Peers \ {p} : up'[q] = up[q]
      BY <1>0, <2>1, <3>0
    <3>2. \A j \in DOMAIN rest : rest[j] = up[p][j] /\ j \in DOMAIN up[p]
      <4>1. DOMAIN <<>> = {}
        OBVIOUS
      <4>2. CASE rest = <<>>
        BY <4>1, <4>2
      <4>3. CASE rest = up[p]
        BY <4>3
      <4>. QED  BY <4>2, <4>3
    <3>3. Asked' 
      <4>. SUFFICES ASSUME NEW q \in Peers, NEW j \in DOMAIN up'[q] PROVE up'[q][j] \in TokensOf(ask[q])
        BY <2>2 DEF Asked
      <4>1. CASE q = p
        BY <1>0, <3>1, <3>2, <4>1 DEF Asked
      <4>2. CASE q # p
        BY <1>0, <3>1, <4>2 DEF Asked
      <4>. QED  BY <4>1, <4>2
    <3>. QED  BY <3>1, <3>3
  <2>4. fin' \in [Peers -> BOOLEAN] /\ fin'[p] = TRUE /\ \A q \in Peers \ {p} : fin'[q] = fin[q]
    BY <1>0, <2>2
  <2>5. unread' \in [Peers -> 0 .. Room]
    BY <1>0, <2>2
  <2>6. CallTypes'
    BY <1>0, <2>2 DEF CasTypes, CallTypes
  <2>7. Conns'
    BY <1>0, <2>2, <2>3, <2>4, <2>5 DEF CasTypes, Conns
  <2>8. OneSlot' /\ Fresh' /\ SlotsAgree' /\ \A q \in Peers : Coded(q)'
    BY <1>0, <2>2, SentKept
  <2>9. Balance'
    <3>. SUFFICES ASSUME NEW i \in Slots, con[i].state = 1, fin'[cli[i]] = FALSE
                  PROVE  rx[cli[i]].behind \in {-1, Owed(i)'}
      BY <1>0, <2>2 DEF Balance
    <3>1. cli[i] \in Peers /\ fin[cli[i]] = FALSE
      BY <1>0, <2>4 DEF SlotsAgree
    <3>2. Owed(i)' = Owed(i)
      BY <2>2 DEF Owed
    <3>. QED  BY <1>0, <3>1, <3>2 DEF Balance
  <2>. QED  BY <2>3, <2>6, <2>7, <2>8, <2>9 DEF CasStrong, CasTypes
<1>. QED  BY <1>1, <1>2, <1>3, <1>4 DEF Client

-----------------------------------------------------------------------------
(* The invariant of the caster.                                             *)

\* The caster starts with free slots.
LEMMA CasStrongInit == ASSUME CasInit PROVE CasStrong
<1>. USE TcpSvrAssumption
<1>1. /\ kind \in SvrKinds /\ svr = 1 /\ cli = [i \in Slots |-> None]
      /\ step = "idle" /\ call = "read" /\ at = 0 /\ size = 0 /\ done = 0
      /\ net = [p \in Peers |-> "out"] /\ fin = [p \in Peers |-> FALSE]
      /\ ask = [p \in Peers |-> NoAsk]
      /\ up = [p \in Peers |-> <<>>]
      /\ unread = [p \in Peers |-> 0] /\ rx = [p \in Peers |-> NoRx]
      /\ con = [i \in Slots |-> NoCon]
  BY DEF CasInit, InitSvr, OpenSvr
<1>2. MaxCli \in Nat /\ MaxCli > 0 /\ MaxWrite \in Nat /\ Room \in Nat
  OBVIOUS
<1>3. CallTypes
  <2>1. at \in Slots /\ ~(done > 0) /\ svr \in -1 .. 2 /\ size \in 0 .. MaxWrite /\ done \in 0 .. MaxWrite
    BY <1>1, <1>2 DEF Slots
  <2>. QED  BY <1>1, <2>1 DEF CallTypes
<1>4. Conns
  <2>1. NoRx \in RxRec /\ NoAsk \in AnyAsk
    BY <1>2 DEF NoRx, RxRec, NoAsk, AnyAsk
  <2>2. NoCon \in [state : 0 .. 1, ver : 1 .. 2, buff : Seq(ReqTokens)] /\ <<>> \in Seq(ReqTokens)
    BY DEF NoCon
  <2>3. \A p \in Peers : ask[p] \in Asks[p] \cup {NoAsk}
    BY <1>1
  <2>. HIDE DEF NoAsk, NoRx, NoCon, AnyAsk, RxRec
  <2>4. cli \in [Slots -> Peers \cup {None}] /\ con \in [Slots -> [state : 0 .. 1, ver : 1 .. 2, buff : Seq(ReqTokens)]]
    BY <1>1, <2>2
  <2>5. /\ net \in [Peers -> {"out", "waiting", "slot"}] /\ fin \in [Peers -> BOOLEAN]
        /\ ask \in [Peers -> AnyAsk] /\ rx \in [Peers -> RxRec]
    BY <1>1, <2>1
  <2>6. up \in [Peers -> Seq(ReqTokens)] /\ unread \in [Peers -> 0 .. Room]
    BY <1>1, <1>2, <2>2
  <2>. QED  BY <2>3, <2>4, <2>5, <2>6 DEF Conns
<1>5. \A i \in Slots : cli[i] = None /\ con[i] = NoCon /\ con[i].state = 0
  BY <1>1 DEF NoCon
<1>6. \A p \in Peers : net[p] = "out" /\ up[p] = <<>> /\ rx[p] = NoRx
  BY <1>1
<1>7. OneSlot /\ SlotsAgree /\ Balance
  BY <1>5 DEF OneSlot, SlotsAgree, Balance
<1>8. Asked /\ Fresh /\ \A p \in Peers : Coded(p)
  BY <1>5, <1>6 DEF Asked, Fresh, Coded, NoRx
<1>. QED  BY <1>3, <1>4, <1>7, <1>8 DEF CasStrong, CasTypes

\* Every step of the caster, its slots and its clients keeps the invariant.
LEMMA CasStrongStep == ASSUME CasStrong, CasNext PROVE CasStrong'
<1>1. CASE Calls
  BY <1>1, CallReadKept, CallWriteKept DEF Calls
<1>2. CASE Accepts
  BY <1>2, AcceptEndKept, AcceptFailsKept, AcceptKept, AcceptLostKept DEF Accepts
<1>3. CASE TcpSteps
  BY <1>3, TcpStepsKept
<1>4. CASE CasSteps
  BY <1>4, CasStepsKept
<1>5. CASE CasClose \/ CasOpen
  BY <1>5, CasCloseKept, CasOpenKept
<1>6. CASE \E p \in Peers : Client(p)
  BY <1>6, ClientKept
<1>. QED  BY <1>1, <1>2, <1>3, <1>4, <1>5, <1>6 DEF CasNext, Steps

\* So does a step of the other end.
LEMMA CasStrongStutter == ASSUME CasStrong, UNCHANGED casVars PROVE CasStrong'
<1>1. Conns' /\ Rest' /\ Balance'
  <2>1. \A i \in Slots : Owed(i)' = Owed(i)
    BY DEF casVars, owner, Owed
  <2>. QED  BY <2>1, Stays DEF casVars, owner
<1>2. CallTypes'
  BY DEF CasStrong, CasTypes, CallTypes, casVars, owner, Slots
<1>. QED  BY <1>1, <1>2 DEF CasStrong, CasTypes, Rest

\* The invariant says what is checked of the caster.
LEMMA CasStrongMeans == CasStrong => CasterInv
<1>. SUFFICES ASSUME CasStrong PROVE CasterInv
  OBVIOUS
<1>1. CasTypeOK /\ SlotsAgree
  BY CasTyped DEF CasStrong
<1>2. \A p \in Peers : Coded(p)
  BY DEF CasStrong
<1>3. RightCoding
  <2>. SUFFICES ASSUME NEW p \in Peers
                PROVE  rx[p].codes \subseteq CASE rx[p].rsp = "ok1" -> {"raw"}
                                               [] rx[p].rsp = "ok2" -> {"chunk", "term"}
                                               [] OTHER -> {}
    BY <1>2 DEF RightCoding, Coded
  <2>. DEFINE c == rx[p].codes
              a == rx[p].rsp
  <2>1. /\ a = "ok1" => c \subseteq {"raw"}
        /\ a = "ok2" => c \subseteq {"chunk", "term"}
        /\ c # {} => a \in {"ok1", "ok2"}
    BY <1>2 DEF Coded
  <2>. HIDE DEF c, a
  <2>2. c \subseteq CASE a = "ok1" -> {"raw"} [] a = "ok2" -> {"chunk", "term"} [] OTHER -> {}
    <3>1. CASE a = "ok1"
      BY <2>1, <3>1
    <3>2. CASE a = "ok2"
      BY <2>1, <3>2
    <3>3. CASE a \notin {"ok1", "ok2"}
      BY <2>1, <3>3
    <3>. QED  BY <3>1, <3>2, <3>3
  <2>. QED  BY <2>2 DEF c, a
<1>4. NoHoles
  BY <1>2 DEF NoHoles, Coded
<1>. QED  BY <1>1, <1>3, <1>4 DEF CasterInv

\* Whatever clients come, send, take and leave, and however calls are interleaved with
\* them (strread and strwrite of a caster, and of the TCP server it is built on): the
\* connections and the slots agree, who is not entitled gets no data, data are coded as
\* the answer has announced, and no client of a caster gets data with a hole.
THEOREM CasterInvHolds == NtripSpec => []CasterInv
<1>1. NtripInit => CasStrong
  BY CasStrongInit DEF NtripInit
<1>2. CasStrong /\ [NtripNext]_ntripVars => CasStrong'
  BY CasStrongStep, CasStrongStutter DEF NtripNext, ntripVars
<1>. QED  BY <1>1, <1>2, CasStrongMeans, PTL DEF NtripSpec

-----------------------------------------------------------------------------
(* Pieces of sequences.                                                     *)

LEMMA FirstIs ==
  ASSUME NEW S, NEW s \in Seq(S), NEW k \in 0 .. Len(s)
  PROVE  /\ First(s, k) \in Seq(S) /\ Len(First(s, k)) = k
         /\ \A i \in 1 .. k : First(s, k)[i] = s[i]
<1>1. Len(s) \in Nat /\ \A i \in 1 .. k : s[i] \in S
  BY LenProperties, ElementOfSeq
<1>2. /\ SubSeq(s, 1, k) \in Seq(S)
      /\ Len(SubSeq(s, 1, k)) = IF 1 <= k THEN k - 1 + 1 ELSE 0
      /\ \A i \in 1 .. k - 1 + 1 : SubSeq(s, 1, k)[i] = s[1 + i - 1]
  BY <1>1, SubSeqProperties
<1>3. /\ (IF 1 <= k THEN k - 1 + 1 ELSE 0) = k
      /\ \A i \in 1 .. k : i \in 1 .. k - 1 + 1 /\ 1 + i - 1 = i
  BY <1>1
<1>. QED  BY <1>2, <1>3 DEF First

LEMMA AfterIs ==
  ASSUME NEW S, NEW s \in Seq(S), NEW k \in 0 .. Len(s)
  PROVE  /\ After(s, k) \in Seq(S) /\ Len(After(s, k)) = Len(s) - k
         /\ \A i \in 1 .. Len(s) - k : After(s, k)[i] = s[k + i]
<1>1. Len(s) \in Nat /\ \A i \in k + 1 .. Len(s) : s[i] \in S
  BY LenProperties, ElementOfSeq
<1>2. /\ SubSeq(s, k + 1, Len(s)) \in Seq(S)
      /\ Len(SubSeq(s, k + 1, Len(s))) = IF k + 1 <= Len(s) THEN Len(s) - (k + 1) + 1 ELSE 0
      /\ \A i \in 1 .. Len(s) - (k + 1) + 1 : SubSeq(s, k + 1, Len(s))[i] = s[(k + 1) + i - 1]
  BY <1>1, SubSeqProperties
<1>3. /\ (IF k + 1 <= Len(s) THEN Len(s) - (k + 1) + 1 ELSE 0) = Len(s) - k
      /\ \A i \in 1 .. Len(s) - k : i \in 1 .. Len(s) - (k + 1) + 1 /\ (k + 1) + i - 1 = k + i
  BY <1>1
<1>. QED  BY <1>2, <1>3 DEF After

\* What is behind the first k of s and t one after the other
LEMMA AfterJoin ==
  ASSUME NEW S, NEW s \in Seq(S), NEW v \in Seq(S), NEW k \in 0 .. Len(s)
  PROVE  /\ After(s, k) \o v = After(s \o v, k)
         /\ After(s \o v, Len(s)) = v
<1>. DEFINE w == s \o v
<1>1. /\ w \in Seq(S) /\ Len(w) = Len(s) + Len(v)
      /\ \A i \in 1 .. Len(s) + Len(v) : w[i] = IF i <= Len(s) THEN s[i] ELSE v[i - Len(s)]
      /\ Len(s) \in Nat /\ Len(v) \in Nat
  BY ConcatProperties, LenProperties
<1>. HIDE DEF w
<1>2. /\ After(s, k) \in Seq(S) /\ Len(After(s, k)) = Len(s) - k
      /\ \A i \in 1 .. Len(s) - k : After(s, k)[i] = s[k + i]
  BY AfterIs
<1>3. /\ After(w, k) \in Seq(S) /\ Len(After(w, k)) = Len(w) - k
      /\ \A i \in 1 .. Len(w) - k : After(w, k)[i] = w[k + i]
  <2>1. k \in 0 .. Len(w)
    BY <1>1
  <2>. QED  BY <1>1, <2>1, AfterIs
<1>4. /\ After(w, Len(s)) \in Seq(S) /\ Len(After(w, Len(s))) = Len(w) - Len(s)
      /\ \A i \in 1 .. Len(w) - Len(s) : After(w, Len(s))[i] = w[Len(s) + i]
  <2>1. Len(s) \in 0 .. Len(w)
    BY <1>1
  <2>. QED  BY <1>1, <2>1, AfterIs
<1>. DEFINE x == After(s, k)
            y == x \o v
<1>5. /\ y \in Seq(S) /\ Len(y) = Len(x) + Len(v)
      /\ \A i \in 1 .. Len(x) + Len(v) : y[i] = IF i <= Len(x) THEN x[i] ELSE v[i - Len(x)]
  BY <1>2, ConcatProperties
<1>6. y = After(w, k)
  <2>. HIDE DEF y
  <2>1. Len(y) = Len(After(w, k))
    BY <1>1, <1>2, <1>3, <1>5
  <2>2. ASSUME NEW i \in 1 .. Len(y) PROVE y[i] = After(w, k)[i]
    <3>1. Len(y) = Len(s) - k + Len(v) /\ Len(w) - k = Len(y) /\ Len(x) = Len(s) - k
      BY <1>1, <1>2, <1>5
    <3>2. After(w, k)[i] = w[k + i] /\ k + i \in 1 .. Len(s) + Len(v)
      BY <1>1, <1>3, <3>1
    <3>3. CASE i <= Len(s) - k
      <4>1. y[i] = s[k + i] /\ k + i <= Len(s)
        BY <1>1, <1>2, <1>5, <3>1, <3>3
      <4>. QED  BY <1>1, <3>2, <4>1
    <3>4. CASE ~(i <= Len(s) - k)
      <4>1. y[i] = v[i - (Len(s) - k)] /\ ~(k + i <= Len(s)) /\ i - (Len(s) - k) = k + i - Len(s)
        BY <1>1, <1>5, <3>1, <3>4
      <4>. QED  BY <1>1, <3>2, <4>1
    <3>. QED  BY <3>3, <3>4
  <2>. QED  BY <1>3, <1>5, <2>1, <2>2, SeqEqual
<1>7. After(w, Len(s)) = v
  <2>1. Len(w) - Len(s) = Len(v)
    BY <1>1
  <2>2. ASSUME NEW i \in 1 .. Len(v) PROVE After(w, Len(s))[i] = v[i]
    <3>1. Len(s) + i \in 1 .. Len(s) + Len(v) /\ ~(Len(s) + i <= Len(s)) /\ Len(s) + i - Len(s) = i
      BY <1>1
    <3>. DEFINE z == Len(s) + i
    <3>2. w[z] = v[z - Len(s)] /\ z - Len(s) = i
      BY <1>1, <3>1
    <3>3. After(w, Len(s))[i] = w[z]
      BY <1>4, <2>1
    <3>. QED  BY <3>2, <3>3
  <2>. QED  BY <1>4, <2>1, <2>2, SeqEqual
<1>. QED  BY <1>6, <1>7 DEF w

-----------------------------------------------------------------------------
(* What the decoder makes of a stretch of bytes.                            *)

IsByte(x)  == x.t \in {"hex", "nl", "other"}
DecState   == {d \in Decoders : d.st = "data" => d.remain >= 1}
Rec4(d, o, r, f) == [dec |-> d, out |-> o, rest |-> r, err |-> f]
Rec(d, o, r) == Rec4(d, o, r, FALSE)

\* From the state d with c bytes of payload delivered, byte x leads to e and m.
Goes(d, c, x, e, m) ==
    /\ d.st # "done" /\ IsByte(x)
    /\ \A o, r : Consume(Rec(d, o, r), x) = Rec(e, IF d.st = "data" THEN Append(o, x) ELSE o, r)
    /\ d.st = "data" => x.id = c + 1 /\ m = c + 1
    /\ d.st # "data" => m = c

Chain(d, c, s, e, m, D, C) ==
    /\ D \in [0 .. Len(s) -> DecState] /\ C \in [0 .. Len(s) -> Nat]
    /\ D[0] = d /\ C[0] = c /\ D[Len(s)] = e /\ C[Len(s)] = m
    /\ \A i \in 1 .. Len(s) : Goes(D[i - 1], C[i - 1], s[i], D[i], C[i])
Runs(d, c, s, e, m) == s \in Seq(Tokens) /\ \E D, C : Chain(d, c, s, e, m, D, C)

LEMMA RunsNone ==
  ASSUME NEW d \in DecState, NEW c \in Nat
  PROVE  Runs(d, c, <<>>, d, c)
<1>. DEFINE D == [i \in 0 .. 0 |-> d]
            C == [i \in 0 .. 0 |-> c]
<1>1. Len(<<>>) = 0 /\ <<>> \in Seq(Tokens)
  OBVIOUS
<1>2. D \in [0 .. 0 -> DecState] /\ C \in [0 .. 0 -> Nat] /\ D[0] = d /\ C[0] = c
  OBVIOUS
<1>. HIDE DEF D, C
<1>3. Chain(d, c, <<>>, d, c, D, C)
  BY <1>1, <1>2 DEF Chain
<1>. QED  BY <1>1, <1>3 DEF Runs

LEMMA RunsOne ==
  ASSUME NEW d \in DecState, NEW e \in DecState, NEW c \in Nat, NEW m \in Nat,
         NEW x \in Tokens, Goes(d, c, x, e, m)
  PROVE  Runs(d, c, <<x>>, e, m)
<1>. DEFINE D == [i \in 0 .. 1 |-> IF i = 0 THEN d ELSE e]
            C == [i \in 0 .. 1 |-> IF i = 0 THEN c ELSE m]
            s == <<x>>
<1>1. Len(s) = 1 /\ s \in Seq(Tokens) /\ s[1] = x
  OBVIOUS
<1>2. /\ D \in [0 .. 1 -> DecState] /\ C \in [0 .. 1 -> Nat]
      /\ D[0] = d /\ C[0] = c /\ D[1] = e /\ C[1] = m
  OBVIOUS
<1>. HIDE DEF D, C, s
<1>3. ASSUME NEW i \in 1 .. 1 PROVE Goes(D[i - 1], C[i - 1], s[i], D[i], C[i])
  <2>1. i = 1 /\ i - 1 = 0
    OBVIOUS
  <2>. QED  BY <1>1, <1>2, <2>1
<1>4. Chain(d, c, s, e, m, D, C)
  BY <1>1, <1>2, <1>3 DEF Chain
<1>5. Runs(d, c, s, e, m)
  BY <1>1, <1>4 DEF Runs
<1>. QED  BY <1>5 DEF s

LEMMA RunsTyped ==
  ASSUME NEW d, NEW c, NEW s, NEW e, NEW m, Runs(d, c, s, e, m)
  PROVE  d \in DecState /\ c \in Nat /\ e \in DecState /\ m \in Nat /\ s \in Seq(Tokens)
<1>1. PICK D, C : Chain(d, c, s, e, m, D, C)
  BY DEF Runs
<1>2. s \in Seq(Tokens) /\ Len(s) \in Nat
  BY LenProperties DEF Runs
<1>3. 0 \in 0 .. Len(s) /\ Len(s) \in 0 .. Len(s)
  BY <1>2
<1>. QED  BY <1>1, <1>2, <1>3 DEF Chain

\* One stretch after the other
LEMMA RunsCat ==
  ASSUME NEW d, NEW c, NEW s, NEW e, NEW m, NEW v, NEW f, NEW n,
         Runs(d, c, s, e, m), Runs(e, m, v, f, n)
  PROVE  Runs(d, c, s \o v, f, n)
<1>1. PICK D, C : Chain(d, c, s, e, m, D, C)
  BY DEF Runs
<1>2. PICK E, B : Chain(e, m, v, f, n, E, B)
  BY DEF Runs
<1>. DEFINE k == Len(s)
            l == Len(v)
            w == s \o v
<1>3. /\ s \in Seq(Tokens) /\ v \in Seq(Tokens) /\ k \in Nat /\ l \in Nat
      /\ w \in Seq(Tokens) /\ Len(w) = k + l
      /\ \A i \in 1 .. k + l : w[i] = IF i <= k THEN s[i] ELSE v[i - k]
  BY LenProperties, ConcatProperties DEF Runs
<1>. DEFINE F == [i \in 0 .. k + l |-> IF i <= k THEN D[i] ELSE E[i - k]]
            A == [i \in 0 .. k + l |-> IF i <= k THEN C[i] ELSE B[i - k]]
<1>. HIDE DEF k, l, w
<1>4. /\ D \in [0 .. k -> DecState] /\ C \in [0 .. k -> Nat]
      /\ D[0] = d /\ C[0] = c /\ D[k] = e /\ C[k] = m
      /\ \A i \in 1 .. k : Goes(D[i - 1], C[i - 1], s[i], D[i], C[i])
  BY <1>1 DEF Chain, k
<1>5. /\ E \in [0 .. l -> DecState] /\ B \in [0 .. l -> Nat]
      /\ E[0] = e /\ B[0] = m /\ E[l] = f /\ B[l] = n
      /\ \A i \in 1 .. l : Goes(E[i - 1], B[i - 1], v[i], E[i], B[i])
  BY <1>2 DEF Chain, l
<1>6. F \in [0 .. k + l -> DecState] /\ A \in [0 .. k + l -> Nat]
  <2>1. ASSUME NEW i \in 0 .. k + l
        PROVE  /\ i <= k => D[i] \in DecState /\ C[i] \in Nat
               /\ ~(i <= k) => E[i - k] \in DecState /\ B[i - k] \in Nat
    <3>1. CASE i <= k
      BY <1>3, <1>4, <3>1
    <3>2. CASE ~(i <= k)
      <4>1. i - k \in 0 .. l
        BY <1>3, <3>2
      <4>. QED  BY <1>5, <3>2, <4>1
    <3>. QED  BY <3>1, <3>2
  <2>. QED  BY <2>1
<1>7. /\ \A i \in 0 .. k : F[i] = D[i] /\ A[i] = C[i]
      /\ \A i \in 0 .. l : F[k + i] = E[i] /\ A[k + i] = B[i]
  <2>1. ASSUME NEW i \in 0 .. k PROVE F[i] = D[i] /\ A[i] = C[i]
    <3>1. i \in 0 .. k + l /\ i <= k
      BY <1>3
    <3>. QED  BY <3>1
  <2>2. ASSUME NEW i \in 0 .. l PROVE F[k + i] = E[i] /\ A[k + i] = B[i]
    <3>1. k + i \in 0 .. k + l /\ (k + i <= k <=> i = 0) /\ k + i - k = i
      BY <1>3
    <3>2. CASE i = 0
      <4>1. k + i = k /\ k \in 0 .. k /\ k \in 0 .. k + l
        BY <1>3, <3>2
      <4>2. F[k] = D[k] /\ A[k] = C[k]
        BY <2>1, <4>1
      <4>. HIDE DEF F, A
      <4>3. F[k + i] = D[k] /\ A[k + i] = C[k]
        BY <4>1, <4>2
      <4>4. E[i] = D[k] /\ B[i] = C[k]
        BY <1>4, <1>5, <3>2
      <4>. QED  BY <4>3, <4>4
    <3>3. CASE i # 0
      <4>. DEFINE z == k + i
      <4>1. z \in 0 .. k + l /\ ~(z <= k) /\ z - k = i
        BY <1>3, <3>3
      <4>. HIDE DEF z
      <4>2. F[z] = E[z - k] /\ A[z] = B[z - k]
        BY <4>1
      <4>. HIDE DEF F, A
      <4>3. F[z] = E[i] /\ A[z] = B[i]
        BY <4>1, <4>2
      <4>. QED  BY <4>3 DEF z
    <3>. QED  BY <3>2, <3>3
  <2>. QED  BY <2>1, <2>2
<1>. HIDE DEF F, A
<1>8. ASSUME NEW i \in 1 .. k + l PROVE Goes(F[i - 1], A[i - 1], w[i], F[i], A[i])
  <2>1. CASE i <= k
    <3>1. i \in 1 .. k /\ i \in 0 .. k /\ i - 1 \in 0 .. k
      BY <1>3, <2>1
    <3>2. F[i] = D[i] /\ A[i] = C[i] /\ F[i - 1] = D[i - 1] /\ A[i - 1] = C[i - 1] /\ w[i] = s[i]
      BY <1>3, <1>7, <2>1, <3>1
    <3>. QED  BY <1>4, <3>1, <3>2
  <2>2. CASE ~(i <= k)
    <3>. DEFINE j == i - k
    <3>1. j \in 1 .. l /\ j \in 0 .. l /\ j - 1 \in 0 .. l /\ i = k + j /\ i - 1 = k + (j - 1)
      BY <1>3, <2>2
    <3>2. w[i] = v[j]
      BY <1>3, <2>2
    <3>. HIDE DEF j
    <3>3. F[i] = E[j] /\ A[i] = B[j] /\ F[i - 1] = E[j - 1] /\ A[i - 1] = B[j - 1]
      BY <1>7, <3>1
    <3>. QED  BY <1>5, <3>1, <3>2, <3>3
  <2>. QED  BY <2>1, <2>2
<1>9. F[0] = d /\ A[0] = c /\ F[k + l] = f /\ A[k + l] = n
  BY <1>3, <1>4, <1>5, <1>7
<1>10. Chain(d, c, w, f, n, F, A)
  BY <1>3, <1>6, <1>8, <1>9 DEF Chain
<1>11. Runs(d, c, w, f, n)
  BY <1>3, <1>10 DEF Runs
<1>. QED  BY <1>11 DEF w

\* A piece of a stretch
LEMMA ChainPart ==
  ASSUME NEW d, NEW c, NEW s \in Seq(Tokens), NEW e, NEW m, NEW D, NEW C, Chain(d, c, s, e, m, D, C),
         NEW j \in 0 .. Len(s)
  PROVE  /\ Runs(d, c, First(s, j), D[j], C[j])
         /\ Runs(D[j], C[j], After(s, j), e, m)
<1>. DEFINE k == Len(s)
            v == First(s, j)
            w == After(s, j)
<1>1. /\ k \in Nat /\ v \in Seq(Tokens) /\ Len(v) = j /\ \A i \in 1 .. j : v[i] = s[i]
      /\ w \in Seq(Tokens) /\ Len(w) = k - j /\ \A i \in 1 .. k - j : w[i] = s[j + i]
  BY LenProperties, FirstIs, AfterIs
<1>. HIDE DEF k, v, w
<1>2. /\ D \in [0 .. k -> DecState] /\ C \in [0 .. k -> Nat]
      /\ D[0] = d /\ C[0] = c /\ D[k] = e /\ C[k] = m
      /\ \A i \in 1 .. k : Goes(D[i - 1], C[i - 1], s[i], D[i], C[i])
  BY DEF Chain, k
<1>3. j \in 0 .. k
  BY DEF k
<1>4. Runs(d, c, v, D[j], C[j])
  <2>. DEFINE E == [i \in 0 .. j |-> D[i]]
              B == [i \in 0 .. j |-> C[i]]
  <2>1. \A i \in 0 .. j : i \in 0 .. k
    BY <1>1, <1>3
  <2>2. E \in [0 .. j -> DecState] /\ B \in [0 .. j -> Nat] /\ \A i \in 0 .. j : E[i] = D[i] /\ B[i] = C[i]
    BY <1>2, <2>1
  <2>. HIDE DEF E, B
  <2>3. ASSUME NEW i \in 1 .. j PROVE Goes(E[i - 1], B[i - 1], v[i], E[i], B[i])
    <3>1. i \in 1 .. k /\ i \in 0 .. j /\ i - 1 \in 0 .. j
      BY <1>1, <1>3
    <3>2. E[i] = D[i] /\ B[i] = C[i] /\ E[i - 1] = D[i - 1] /\ B[i - 1] = C[i - 1] /\ v[i] = s[i]
      BY <1>1, <2>2, <3>1
    <3>. QED  BY <1>2, <3>1, <3>2
  <2>4. E[0] = d /\ B[0] = c /\ E[j] = D[j] /\ B[j] = C[j]
    BY <1>1, <1>2, <1>3, <2>2
  <2>5. Chain(d, c, v, D[j], C[j], E, B)
    BY <1>1, <2>2, <2>3, <2>4 DEF Chain
  <2>. QED  BY <1>1, <2>5 DEF Runs
<1>5. Runs(D[j], C[j], w, e, m)
  <2>. DEFINE l == k - j
              E == [i \in 0 .. l |-> D[j + i]]
              B == [i \in 0 .. l |-> C[j + i]]
  <2>1. l \in Nat /\ \A i \in 0 .. l : j + i \in 0 .. k
    BY <1>1, <1>3
  <2>2. E \in [0 .. l -> DecState] /\ B \in [0 .. l -> Nat] /\ \A i \in 0 .. l : E[i] = D[j + i] /\ B[i] = C[j + i]
    BY <1>2, <2>1
  <2>3. j + 0 = j /\ j + l = k /\ Len(w) = l /\ 0 \in 0 .. l /\ l \in 0 .. l
    BY <1>1, <1>3
  <2>. HIDE DEF E, B
  <2>4. ASSUME NEW i \in 1 .. l PROVE Goes(E[i - 1], B[i - 1], w[i], E[i], B[i])
    <3>1. j + i \in 1 .. k /\ i \in 0 .. l /\ i - 1 \in 0 .. l /\ j + (i - 1) = j + i - 1
      BY <1>1, <1>3
    <3>2. E[i] = D[j + i] /\ B[i] = C[j + i] /\ E[i - 1] = D[j + i - 1] /\ B[i - 1] = C[j + i - 1] /\ w[i] = s[j + i]
      BY <1>1, <2>2, <3>1
    <3>. QED  BY <1>2, <3>1, <3>2
  <2>5. E[0] = D[j] /\ B[0] = C[j] /\ E[l] = e /\ B[l] = m
    BY <1>2, <2>2, <2>3
  <2>. HIDE DEF l
  <2>6. Chain(D[j], C[j], w, e, m, E, B)
    BY <2>2, <2>3, <2>4, <2>5 DEF Chain
  <2>. QED  BY <1>1, <2>6 DEF Runs
<1>. QED  BY <1>4, <1>5 DEF v, w

LEMMA RunsCut ==
  ASSUME NEW d, NEW c, NEW s, NEW e, NEW m, Runs(d, c, s, e, m), NEW j \in 0 .. Len(s)
  PROVE  \E f, n : Runs(d, c, First(s, j), f, n) /\ Runs(f, n, After(s, j), e, m)
<1>1. PICK D, C : s \in Seq(Tokens) /\ Chain(d, c, s, e, m, D, C)
  BY DEF Runs
<1>. QED  BY <1>1, ChainPart

-----------------------------------------------------------------------------
(* The decoder.                                                             *)

LEMMA Smallest ==
  ASSUME NEW S \in SUBSET Nat, S # {}
  PROVE  \E m \in S : \A y \in S : m <= y
<1>1. PICK m \in S : \A y \in S : ~(<<y, m>> \in OpToRel(<, Nat))
  BY NatLessThanWellFounded, WFMin
<1>2. \A y \in S : ~(y < m)
  BY <1>1 DEF OpToRel
<1>. QED  BY <1>2

Begin(d)        == Rec(d, <<>>, <<>>)
FedByte(r, b, n) == IF r.err \/ Len(r.out) >= n \/ r.dec.st = "done"
                    THEN [r EXCEPT !.rest = Append(@, b)] ELSE Consume(r, b)
\* f[i] is what the decoder has made of the first i bytes.
Feeds(d, in, n, f, m) ==
    f = [i \in 0 .. m |-> IF i = 0 THEN Begin(d) ELSE FedByte(f[i - 1], in[i], n)]

LEMMA FeedsIs ==
  ASSUME NEW d, NEW in, NEW n, NEW f, NEW m, Feeds(d, in, n, f, m)
  PROVE  \A i \in 0 .. m : f[i] = IF i = 0 THEN Begin(d) ELSE FedByte(f[i - 1], in[i], n)
<1>. DEFINE g == [i \in 0 .. m |-> IF i = 0 THEN Begin(d) ELSE FedByte(f[i - 1], in[i], n)]
<1>. HIDE DEF Begin, FedByte
<1>1. \A i \in 0 .. m : g[i] = IF i = 0 THEN Begin(d) ELSE FedByte(f[i - 1], in[i], n)
  OBVIOUS
<1>2. f = g
  BY DEF Feeds
<1>. HIDE DEF g
<1>. QED  BY <1>1, <1>2

LEMMA FeedsExists ==
  ASSUME NEW d, NEW in, NEW n, NEW l \in Nat
  PROVE  \E f : Feeds(d, in, n, f, l)
<1>. DEFINE S == {m \in Nat : ~\E f : Feeds(d, in, n, f, m)}
<1>. HIDE DEF Begin, FedByte
<1>. SUFFICES ASSUME S # {} PROVE FALSE
  OBVIOUS
<1>1. PICK m \in S : \A y \in S : m <= y
  <2>1. S \in SUBSET Nat
    OBVIOUS
  <2>. HIDE DEF S
  <2>. QED  BY <2>1, Smallest
<1>2. CASE m = 0
  <2>. DEFINE f == [i \in 0 .. 0 |-> Begin(d)]
  <2>1. f = [i \in 0 .. 0 |-> IF i = 0 THEN Begin(d) ELSE FedByte(f[i - 1], in[i], n)]
    OBVIOUS
  <2>2. Feeds(d, in, n, f, m)
    BY <1>2, <2>1 DEF Feeds
  <2>. QED  BY <2>2
<1>3. CASE m # 0
  <2>1. m \in Nat /\ m - 1 \in Nat /\ m - 1 \notin S
    BY <1>1, <1>3
  <2>2. PICK f : Feeds(d, in, n, f, m - 1)
    BY <2>1
  <2>3. \A i \in 0 .. m - 1 : f[i] = IF i = 0 THEN Begin(d) ELSE FedByte(f[i - 1], in[i], n)
    BY <2>2, FeedsIs
  <2>. DEFINE g == [i \in 0 .. m |-> IF i = m THEN FedByte(f[m - 1], in[m], n) ELSE f[i]]
              h == [i \in 0 .. m |-> IF i = 0 THEN Begin(d) ELSE FedByte(g[i - 1], in[i], n)]
  <2>4. \A i \in 0 .. m - 1 : g[i] = f[i]
    BY <2>1
  <2>5. g[m] = FedByte(f[m - 1], in[m], n)
    BY <2>1
  <2>6. ASSUME NEW i \in 0 .. m PROVE g[i] = IF i = 0 THEN Begin(d) ELSE FedByte(g[i - 1], in[i], n)
    <3>. HIDE DEF g
    <3>1. CASE i = m
      <4>1. g[m - 1] = f[m - 1]
        BY <2>1, <2>4
      <4>. QED  BY <1>3, <2>5, <3>1, <4>1
    <3>2. CASE i # m
      <4>1. i \in 0 .. m - 1 /\ (i # 0 => i - 1 \in 0 .. m - 1)
        BY <2>1, <3>2
      <4>. QED  BY <2>3, <2>4, <4>1
    <3>. QED  BY <3>1, <3>2
  <2>7. g = h
    BY <2>6
  <2>8. Feeds(d, in, n, g, m)
    <3>. HIDE DEF g
    <3>. QED  BY <2>7 DEF Feeds
  <2>. QED  BY <2>8
<1>. QED  BY <1>2, <1>3

LEMMA DecodeIs ==
  ASSUME NEW d, NEW in, NEW n, Len(in) \in Nat
  PROVE  \E f : /\ ChunkDecode(d, in, n) = f[Len(in)]
                /\ \A i \in 0 .. Len(in) :
                      f[i] = IF i = 0 THEN Begin(d) ELSE FedByte(f[i - 1], in[i], n)
<1>. DEFINE f == CHOOSE x : Feeds(d, in, n, x, Len(in))
<1>1. Feeds(d, in, n, f, Len(in))
  <2>1. \E x : Feeds(d, in, n, x, Len(in))
    BY FeedsExists
  <2>. QED  BY <2>1
<1>2. ChunkDecode(d, in, n) = f[Len(in)]
  BY Zenon DEF ChunkDecode, Feeds, FedByte, Begin, Rec, Rec4
<1>3. \A i \in 0 .. Len(in) : f[i] = IF i = 0 THEN Begin(d) ELSE FedByte(f[i - 1], in[i], n)
  <2>. HIDE DEF f
  <2>. QED  BY <1>1, FeedsIs
<1>. QED  BY <1>2, <1>3

LEMMA RestGrows ==
  ASSUME NEW d, NEW o, NEW t, NEW x, NEW n, Len(o) >= n \/ d.st = "done"
  PROVE  FedByte(Rec(d, o, t), x, n) = Rec(d, o, Append(t, x))
<1>. DEFINE r == Rec(d, o, t)
<1>1. ASSUME NEW f, NEW y PROVE [Rec4(d, o, t, f) EXCEPT !.rest = y] = Rec4(d, o, y, f)
  BY DEF Rec4
<1>2. r.rest = t /\ r.out = o /\ r.dec = d
  BY DEF Rec, Rec4
<1>. HIDE DEF r
<1>3. FedByte(r, x, n) = [r EXCEPT !.rest = Append(r.rest, x)]
  BY <1>2 DEF FedByte
<1>4. [r EXCEPT !.rest = Append(t, x)] = Rec(d, o, Append(t, x))
  BY <1>1, Zenon DEF Rec, r
<1>. QED  BY <1>2, <1>3, <1>4 DEF r

\* What the decoder makes of the first i bytes of a stretch: it has taken j of them.
Eaten(r, s, i, j, D, C, n) ==
    /\ j \in 0 .. i
    /\ r = Rec(D[j], r.out, r.rest)
    /\ r.out \in Seq(Tokens) /\ Len(r.out) = C[j] - C[0]
    /\ \A k \in 1 .. Len(r.out) : r.out[k].id = C[0] + k
    /\ r.rest \in Seq(Tokens) /\ Len(r.rest) = i - j
    /\ \A k \in 1 .. i - j : r.rest[k] = s[j + k]
    /\ j < i => Len(r.out) >= n \/ D[j].st = "done"

LEMMA OneMore ==
  ASSUME NEW d, NEW c, NEW s \in Seq(Tokens), NEW e, NEW m, NEW D, NEW C, Chain(d, c, s, e, m, D, C),
         NEW i \in 1 .. Len(s), NEW j, NEW r, NEW n \in Nat, Eaten(r, s, i - 1, j, D, C, n)
  PROVE  \E k : Eaten(FedByte(r, s[i], n), s, i, k, D, C, n)
<1>. DEFINE x == s[i]
            q == FedByte(r, x, n)
            l == Len(s)
<1>0. l \in Nat /\ x \in Tokens /\ i \in Nat
  BY LenProperties, ElementOfSeq
<1>1. /\ D \in [0 .. l -> DecState] /\ C \in [0 .. l -> Nat]
      /\ \A k \in 1 .. l : Goes(D[k - 1], C[k - 1], s[k], D[k], C[k])
  BY DEF Chain
<1>2. /\ j \in 0 .. i - 1 /\ r = Rec(D[j], r.out, r.rest)
      /\ r.out \in Seq(Tokens) /\ Len(r.out) = C[j] - C[0]
      /\ \A k \in 1 .. Len(r.out) : r.out[k].id = C[0] + k
      /\ r.rest \in Seq(Tokens) /\ Len(r.rest) = (i - 1) - j
      /\ \A k \in 1 .. (i - 1) - j : r.rest[k] = s[j + k]
      /\ j < i - 1 => Len(r.out) >= n \/ D[j].st = "done"
  BY DEF Eaten
<1>3. r.err = FALSE /\ r.dec = D[j]
  BY <1>2 DEF Rec, Rec4
<1>. HIDE DEF x, q, l
<1>4. CASE Len(r.out) >= n \/ D[j].st = "done"
  <2>2. q = Rec(D[j], r.out, Append(r.rest, x))
    <3>. DEFINE g == D[j]
                o == r.out
                t == r.rest
    <3>1. r = Rec(g, o, t) /\ (Len(o) >= n \/ g.st = "done")
      BY <1>2, <1>4
    <3>. HIDE DEF g, o, t
    <3>2. FedByte(Rec(g, o, t), x, n) = Rec(g, o, Append(t, x))
      BY <3>1, RestGrows
    <3>3. q = Rec(g, o, Append(t, x))
      BY <3>1, <3>2 DEF q
    <3>. QED  BY <3>3 DEF g, o, t
  <2>3. q.out = r.out /\ q.rest = Append(r.rest, x)
    BY <2>2 DEF Rec, Rec4
  <2>4. /\ q.rest \in Seq(Tokens) /\ Len(q.rest) = Len(r.rest) + 1
        /\ \A k \in 1 .. Len(r.rest) : q.rest[k] = r.rest[k]
        /\ q.rest[Len(r.rest) + 1] = x
    BY <1>0, <1>2, <2>3, AppendProperties
  <2>5. Len(q.rest) = i - j
    BY <1>0, <1>2, <2>4
  <2>6. ASSUME NEW k \in 1 .. i - j PROVE q.rest[k] = s[j + k]
    <3>1. CASE k = i - j
      <4>1. Len(r.rest) + 1 = k /\ j + k = i
        BY <1>0, <1>2, <3>1
      <4>. QED  BY <2>4, <4>1 DEF x
    <3>2. CASE k # i - j
      <4>1. k \in 1 .. (i - 1) - j
        BY <1>0, <1>2, <3>2
      <4>. QED  BY <1>2, <2>4, <4>1
    <3>. QED  BY <3>1, <3>2
  <2>7. j \in 0 .. i
    BY <1>0, <1>2
  <2>8. q = Rec(D[j], q.out, q.rest)
    BY <2>2, <2>3
  <2>9. Eaten(q, s, i, j, D, C, n)
    BY <1>2, <1>4, <2>3, <2>4, <2>5, <2>6, <2>7, <2>8 DEF Eaten
  <2>. QED  BY <2>9 DEF q, x
<1>5. CASE ~(Len(r.out) >= n \/ D[j].st = "done")
  <2>1. j = i - 1 /\ j \in 0 .. l /\ i \in 0 .. l /\ 0 \in 0 .. l
    BY <1>0, <1>2, <1>5 DEF l
  <2>2. Goes(D[j], C[j], x, D[i], C[i])
    BY <1>1, <2>1 DEF x, l
  <2>. DEFINE o == IF D[j].st = "data" THEN Append(r.out, x) ELSE r.out
  <2>3. q = Consume(r, x)
    BY <1>3, <1>5 DEF q, FedByte
  <2>4. q = Rec(D[i], o, r.rest)
    BY <1>2, <2>2, <2>3 DEF Goes
  <2>5. q.out = o /\ q.rest = r.rest
    <3>. HIDE DEF o
    <3>. QED  BY <2>4 DEF Rec, Rec4
  <2>6. C[j] \in Nat /\ C[0] \in Nat /\ C[i] \in Nat
    BY <1>1, <2>1
  <2>7. /\ o \in Seq(Tokens) /\ Len(o) = C[i] - C[0]
        /\ \A k \in 1 .. Len(o) : o[k].id = C[0] + k
    <3>1. CASE D[j].st = "data"
      <4>1. o = Append(r.out, x) /\ x.id = C[j] + 1 /\ C[i] = C[j] + 1
        BY <2>2, <3>1 DEF Goes
      <4>2. /\ o \in Seq(Tokens) /\ Len(o) = Len(r.out) + 1
            /\ \A k \in 1 .. Len(r.out) : o[k] = r.out[k]
            /\ o[Len(r.out) + 1] = x
        BY <1>0, <1>2, <4>1, AppendProperties
      <4>. HIDE DEF o
      <4>3. Len(r.out) \in Nat /\ Len(o) = C[i] - C[0] /\ C[0] + (Len(r.out) + 1) = C[j] + 1
        <5>1. Len(r.out) \in Nat
          BY <1>2, LenProperties
        <5>2. Len(r.out) = C[j] - C[0] /\ C[i] = C[j] + 1 /\ Len(o) = Len(r.out) + 1
          BY <1>2, <4>1, <4>2
        <5>. QED  BY <2>6, <5>1, <5>2
      <4>4. ASSUME NEW k \in 1 .. Len(o) PROVE o[k].id = C[0] + k
        <5>1. CASE k = Len(r.out) + 1
          BY <4>1, <4>2, <4>3, <5>1
        <5>2. CASE k # Len(r.out) + 1
          <6>1. k \in 1 .. Len(r.out)
            BY <4>2, <4>3, <5>2
          <6>. QED  BY <1>2, <4>2, <6>1
        <5>. QED  BY <5>1, <5>2
      <4>. QED  BY <4>2, <4>3, <4>4
    <3>2. CASE D[j].st # "data"
      <4>1. o = r.out /\ C[i] = C[j]
        BY <2>2, <3>2 DEF Goes
      <4>. HIDE DEF o
      <4>. QED  BY <1>2, <4>1
    <3>. QED  BY <3>1, <3>2
  <2>. HIDE DEF o
  <2>8. Len(q.rest) = 0
    BY <1>0, <1>2, <2>1, <2>5
  <2>9. i \in 0 .. i /\ i - i = 0 /\ ~(i < i)
    BY <1>0
  <2>10. q.rest \in Seq(Tokens) /\ Len(q.rest) = i - i /\ \A k \in 1 .. i - i : q.rest[k] = s[i + k]
    BY <1>2, <2>5, <2>8, <2>9
  <2>11. q = Rec(D[i], q.out, q.rest)
    BY <2>4, <2>5
  <2>12. Eaten(q, s, i, i, D, C, n)
    BY <2>5, <2>7, <2>9, <2>10, <2>11 DEF Eaten
  <2>. QED  BY <2>12 DEF q, x
<1>. QED  BY <1>4, <1>5

\* What has been read of a stretch is delivered in order, and the rest is a stretch still.
LEMMA DecodeRuns ==
  ASSUME NEW d, NEW c, NEW s, NEW e, NEW m, Runs(d, c, s, e, m), NEW n \in Nat
  PROVE  LET r == ChunkDecode(d, s, n) IN
         /\ ~r.err
         /\ r.dec \in DecState /\ r.out \in Seq(Tokens)
         /\ \A k \in 1 .. Len(r.out) : r.out[k].id = c + k
         /\ Runs(r.dec, c + Len(r.out), r.rest, e, m)
         /\ r.rest \in Seq(Tokens) /\ Len(r.rest) <= Len(s)
         /\ \A k \in 1 .. Len(r.rest) : \E j \in 1 .. Len(s) : r.rest[k] = s[j]
<1>. DEFINE r == ChunkDecode(d, s, n)
            l == Len(s)
<1>1. s \in Seq(Tokens) /\ l \in Nat
  BY RunsTyped, LenProperties
<1>2. PICK D, C : Chain(d, c, s, e, m, D, C)
  BY DEF Runs
<1>3. PICK f : /\ r = f[l]
               /\ \A i \in 0 .. l : f[i] = IF i = 0 THEN Begin(d) ELSE FedByte(f[i - 1], s[i], n)
  BY <1>1, DecodeIs
<1>. HIDE DEF r
<1>4. /\ D \in [0 .. l -> DecState] /\ C \in [0 .. l -> Nat] /\ D[0] = d /\ C[0] = c
  BY <1>2 DEF Chain
<1>5. Eaten(f[0], s, 0, 0, D, C, n)
  <2>1. f[0] = Rec(d, <<>>, <<>>) /\ C[0] \in Nat
    BY <1>1, <1>3, <1>4 DEF Begin
  <2>2. f[0].out = <<>> /\ f[0].rest = <<>>
    BY <2>1 DEF Rec, Rec4
  <2>3. <<>> \in Seq(Tokens) /\ Len(<<>>) = 0
    OBVIOUS
  <2>4. f[0] = Rec(D[0], f[0].out, f[0].rest)
    BY <1>4, <2>1, <2>2, Zenon
  <2>. DEFINE a == f[0]
  <2>5. a.out \in Seq(Tokens) /\ a.rest \in Seq(Tokens) /\ Len(a.out) = 0 /\ Len(a.rest) = 0
    BY <2>2, <2>3, Zenon
  <2>. HIDE DEF a
  <2>6. 0 \in 0 .. 0 /\ C[0] - C[0] = 0 /\ 0 - 0 = 0 /\ (1 .. 0 = {}) /\ ~(0 < 0)
    BY <2>1
  <2>7. a = Rec(D[0], a.out, a.rest)
    BY <2>4 DEF a
  <2>8. Eaten(a, s, 0, 0, D, C, n)
    <3>1. \A k \in 1 .. Len(a.out) : a.out[k].id = C[0] + k
      BY <2>5, <2>6
    <3>2. \A k \in 1 .. 0 - 0 : a.rest[k] = s[0 + k]
      BY <2>6
    <3>. QED  BY <2>5, <2>6, <2>7, <3>1, <3>2 DEF Eaten
  <2>. QED  BY <2>8 DEF a
<1>. DEFINE S == {i \in Nat : i <= l /\ ~\E j : Eaten(f[i], s, i, j, D, C, n)}
<1>6. S = {}
  <2>. SUFFICES ASSUME S # {} PROVE FALSE
    OBVIOUS
  <2>1. PICK i \in S : \A y \in S : i <= y
    <3>1. S \in SUBSET Nat
      OBVIOUS
    <3>. HIDE DEF S
    <3>. QED  BY <3>1, Smallest
  <2>2. i # 0
    BY <1>5, <2>1
  <2>3. i - 1 \in Nat /\ i \in 1 .. l /\ i - 1 \notin S /\ i - 1 <= l /\ i \in 0 .. l
    BY <1>1, <2>1, <2>2
  <2>4. PICK j : Eaten(f[i - 1], s, i - 1, j, D, C, n)
    BY <2>3
  <2>5. f[i] = FedByte(f[i - 1], s[i], n)
    BY <1>3, <2>2, <2>3
  <2>6. \E k : Eaten(FedByte(f[i - 1], s[i], n), s, i, k, D, C, n)
    BY <1>1, <1>2, <2>3, <2>4, OneMore
  <2>. QED  BY <2>1, <2>5, <2>6
<1>7. PICK j : Eaten(r, s, l, j, D, C, n)
  BY <1>1, <1>3, <1>6
<1>8. /\ j \in 0 .. l /\ r = Rec(D[j], r.out, r.rest)
      /\ r.out \in Seq(Tokens) /\ Len(r.out) = C[j] - c
      /\ \A k \in 1 .. Len(r.out) : r.out[k].id = c + k
      /\ r.rest \in Seq(Tokens) /\ Len(r.rest) = l - j
      /\ \A k \in 1 .. l - j : r.rest[k] = s[j + k]
  BY <1>4, <1>7 DEF Eaten
<1>9. r.err = FALSE /\ r.dec = D[j] /\ D[j] \in DecState /\ C[j] \in Nat /\ c \in Nat
  BY <1>1, <1>4, <1>8 DEF Rec, Rec4
<1>10. Runs(D[j], C[j], After(s, j), e, m)
  BY <1>1, <1>2, <1>8, ChainPart
<1>11. r.rest = After(s, j)
  <2>1. After(s, j) \in Seq(Tokens) /\ Len(After(s, j)) = l - j /\ \A k \in 1 .. l - j : After(s, j)[k] = s[j + k]
    BY <1>1, <1>8, AfterIs
  <2>2. ASSUME NEW k \in 1 .. l - j PROVE r.rest[k] = After(s, j)[k]
    BY <1>8, <2>1
  <2>3. Len(r.rest) = l - j /\ r.rest \in Seq(Tokens)
    BY <1>8
  <2>. HIDE DEF l
  <2>. QED  BY <2>1, <2>2, <2>3, SeqEqual
<1>12. C[j] = c + Len(r.out)
  BY <1>8, <1>9
<1>13. ASSUME NEW k \in 1 .. Len(r.rest) PROVE \E i \in 1 .. l : r.rest[k] = s[i]
  <2>1. j + k \in 1 .. l /\ k \in 1 .. l - j
    BY <1>1, <1>8
  <2>. QED  BY <1>8, <2>1
<1>14. Len(r.rest) <= l
  BY <1>1, <1>8
<1>15. Runs(r.dec, c + Len(r.out), r.rest, e, m)
  BY <1>9, <1>10, <1>11, <1>12
<1>. QED  BY <1>8, <1>9, <1>13, <1>14, <1>15 DEF r

-----------------------------------------------------------------------------
(* The encoder: each byte of a chunk.                                       *)

Dec6(st, rm, nh, sz, fz, sl) ==
    [st |-> st, remain |-> rm, nhdr |-> nh, size |-> sz, frozen |-> fz, sol |-> sl]

SizeLine(h, z, fz) == Dec6("size", 0, h, z, fz, TRUE)
DataPart(k)        == Dec6("data", k, 0, 0, FALSE, TRUE)
TrailPart          == Dec6("trail", 0, 0, 0, FALSE, TRUE)
FinalPart(sl)      == Dec6("final", 0, 0, 0, FALSE, sl)
DonePart           == Dec6("done", 0, 0, 0, FALSE, TRUE)

LEMMA ReadDigit ==
  ASSUME NEW x, NEW h, NEW z, x.t = "hex", h < HdrMax - 1
  PROVE  \A o, r : Consume(Rec(SizeLine(h, z, FALSE), o, r), x) = Rec(SizeLine(h + 1, Base * z + x.v, FALSE), o, r)
<1>. SUFFICES ASSUME NEW o, NEW r PROVE Consume(Rec(SizeLine(h, z, FALSE), o, r), x) = Rec(SizeLine(h + 1, Base * z + x.v, FALSE), o, r)
  OBVIOUS
<1>1. \A fz, sl, f : ~fz => Consume(Rec4(Dec6("size", 0, h, z, fz, sl), o, r, f), x)
         = Rec4(Dec6("size", 0, h + 1, Base * z + x.v, fz, sl), o, r, f)
  <2>1. ASSUME NEW fz, NEW sl, NEW f, ~fz
        PROVE  Consume(Rec4(Dec6("size", 0, h, z, fz, sl), o, r, f), x)
               = Rec4(Dec6("size", 0, h + 1, Base * z + x.v, fz, sl), o, r, f)
    BY <2>1 DEF Consume, InSize, Rec4, Dec6
  <2>. QED  BY <2>1
<1>2. Consume(Rec4(Dec6("size", 0, h, z, FALSE, TRUE), o, r, FALSE), x)
      = Rec4(Dec6("size", 0, h + 1, Base * z + x.v, FALSE, TRUE), o, r, FALSE)
  BY <1>1, Zenon
<1>. QED  BY <1>2, Zenon DEF Rec, SizeLine

LEMMA ReadExt ==
  ASSUME NEW x, NEW h, NEW z, x.t = "other"
  PROVE  \A o, r : Consume(Rec(SizeLine(h, z, FALSE), o, r), x) = Rec(SizeLine(h, z, TRUE), o, r)
<1>. SUFFICES ASSUME NEW o, NEW r PROVE Consume(Rec(SizeLine(h, z, FALSE), o, r), x) = Rec(SizeLine(h, z, TRUE), o, r)
  OBVIOUS
<1>1. \A fz, sl, f : ~fz => Consume(Rec4(Dec6("size", 0, h, z, fz, sl), o, r, f), x)
         = Rec4(Dec6("size", 0, h, z, TRUE, sl), o, r, f)
  <2>1. ASSUME NEW fz, NEW sl, NEW f, ~fz
        PROVE  Consume(Rec4(Dec6("size", 0, h, z, fz, sl), o, r, f), x)
               = Rec4(Dec6("size", 0, h, z, TRUE, sl), o, r, f)
    BY <2>1 DEF Consume, InSize, Rec4, Dec6
  <2>. QED  BY <2>1
<1>2. Consume(Rec4(Dec6("size", 0, h, z, FALSE, TRUE), o, r, FALSE), x)
      = Rec4(Dec6("size", 0, h, z, TRUE, TRUE), o, r, FALSE)
  BY <1>1, Zenon
<1>. QED  BY <1>2, Zenon DEF Rec, SizeLine

LEMMA ReadSkip ==
  ASSUME NEW x, NEW h, NEW z, x.t # "nl"
  PROVE  \A o, r : Consume(Rec(SizeLine(h, z, TRUE), o, r), x) = Rec(SizeLine(h, z, TRUE), o, r)
<1>. SUFFICES ASSUME NEW o, NEW r PROVE Consume(Rec(SizeLine(h, z, TRUE), o, r), x) = Rec(SizeLine(h, z, TRUE), o, r)
  OBVIOUS
<1>1. \A fz, sl, f : fz => Consume(Rec4(Dec6("size", 0, h, z, fz, sl), o, r, f), x)
         = Rec4(Dec6("size", 0, h, z, fz, sl), o, r, f)
  <2>1. ASSUME NEW fz, NEW sl, NEW f, fz
        PROVE  Consume(Rec4(Dec6("size", 0, h, z, fz, sl), o, r, f), x)
               = Rec4(Dec6("size", 0, h, z, fz, sl), o, r, f)
    BY <2>1 DEF Consume, InSize, Rec4, Dec6
  <2>. QED  BY <2>1
<1>2. Consume(Rec4(Dec6("size", 0, h, z, TRUE, TRUE), o, r, FALSE), x)
      = Rec4(Dec6("size", 0, h, z, TRUE, TRUE), o, r, FALSE)
  BY <1>1, Zenon
<1>. QED  BY <1>2, Zenon DEF Rec, SizeLine

LEMMA ReadNl ==
  ASSUME NEW x, NEW h, NEW z, NEW fz, x.t = "nl", h # 0, z # 0, ~(z > SizeMax)
  PROVE  \A o, r : Consume(Rec(SizeLine(h, z, fz), o, r), x) = Rec(DataPart(z), o, r)
<1>. SUFFICES ASSUME NEW o, NEW r PROVE Consume(Rec(SizeLine(h, z, fz), o, r), x) = Rec(DataPart(z), o, r)
  OBVIOUS
<1>1. \A sl, f : Consume(Rec4(Dec6("size", 0, h, z, fz, sl), o, r, f), x)
         = Rec4(Dec6("data", z, 0, 0, FALSE, sl), o, r, f)
  <2>1. ASSUME NEW sl, NEW f
        PROVE  Consume(Rec4(Dec6("size", 0, h, z, fz, sl), o, r, f), x)
               = Rec4(Dec6("data", z, 0, 0, FALSE, sl), o, r, f)
    BY <2>1 DEF Consume, InSize, EndOfSize, Rec4, Dec6
  <2>. QED  BY <2>1
<1>2. Consume(Rec4(Dec6("size", 0, h, z, fz, TRUE), o, r, FALSE), x)
      = Rec4(Dec6("data", z, 0, 0, FALSE, TRUE), o, r, FALSE)
  BY <1>1, Zenon
<1>. QED  BY <1>2, Zenon DEF Rec, SizeLine, DataPart

LEMMA ReadLast ==
  ASSUME NEW x, x.t = "nl"
  PROVE  \A o, r : Consume(Rec(SizeLine(1, 0, FALSE), o, r), x) = Rec(FinalPart(TRUE), o, r)
<1>. SUFFICES ASSUME NEW o, NEW r
              PROVE  Consume(Rec(SizeLine(1, 0, FALSE), o, r), x) = Rec(FinalPart(TRUE), o, r)
  OBVIOUS
<1>1. ~(0 > SizeMax)
  BY ChunkAssumption
<1>2. ASSUME NEW h, NEW z, h # 0, z = 0
      PROVE  \A fz, sl, f : Consume(Rec4(Dec6("size", 0, h, z, fz, sl), o, r, f), x)
                            = Rec4(Dec6("final", z, 0, 0, FALSE, TRUE), o, r, f)
  <2>1. ~(z > SizeMax)
    BY <1>1, <1>2
  <2>2. ASSUME NEW fz, NEW sl, NEW f
        PROVE  Consume(Rec4(Dec6("size", 0, h, z, fz, sl), o, r, f), x)
               = Rec4(Dec6("final", z, 0, 0, FALSE, TRUE), o, r, f)
    BY <1>2, <2>1 DEF Consume, InSize, EndOfSize, Rec4, Dec6
  <2>. QED  BY <2>2
<1>3. Consume(Rec4(Dec6("size", 0, 1, 0, FALSE, TRUE), o, r, FALSE), x)
      = Rec4(Dec6("final", 0, 0, 0, FALSE, TRUE), o, r, FALSE)
  <2>1. 1 # 0
    OBVIOUS
  <2>2. \A fz, sl, f : Consume(Rec4(Dec6("size", 0, 1, 0, fz, sl), o, r, f), x)
                       = Rec4(Dec6("final", 0, 0, 0, FALSE, TRUE), o, r, f)
    BY <1>2, <2>1, Zenon
  <2>. QED  BY <2>2, Zenon
<1>. QED  BY <1>3, Zenon DEF Rec, SizeLine, FinalPart

LEMMA ReadData ==
  ASSUME NEW x, NEW k
  PROVE  \A o, r : Consume(Rec(DataPart(k), o, r), x) = Rec(Dec6(IF k = 1 THEN "trail" ELSE "data", k - 1, 0, 0, FALSE, TRUE), Append(o, x), r)
<1>. SUFFICES ASSUME NEW o, NEW r PROVE Consume(Rec(DataPart(k), o, r), x) = Rec(Dec6(IF k = 1 THEN "trail" ELSE "data", k - 1, 0, 0, FALSE, TRUE), Append(o, x), r)
  OBVIOUS
<1>1. \A fz, sl, f : Consume(Rec4(Dec6("data", k, 0, 0, fz, sl), o, r, f), x)
         = Rec4(Dec6(IF k = 1 THEN "trail" ELSE "data", k - 1, 0, 0, fz, sl), Append(o, x), r, f)
  <2>1. ASSUME NEW fz, NEW sl, NEW f
        PROVE  Consume(Rec4(Dec6("data", k, 0, 0, fz, sl), o, r, f), x)
               = Rec4(Dec6(IF k = 1 THEN "trail" ELSE "data", k - 1, 0, 0, fz, sl), Append(o, x), r, f)
    BY <2>1 DEF Consume, InData, Rec4, Dec6
  <2>. QED  BY <2>1
<1>2. Consume(Rec4(Dec6("data", k, 0, 0, FALSE, TRUE), o, r, FALSE), x)
      = Rec4(Dec6(IF k = 1 THEN "trail" ELSE "data", k - 1, 0, 0, FALSE, TRUE), Append(o, x), r, FALSE)
  BY <1>1, Zenon
<1>. QED  BY <1>2, Zenon DEF Rec, DataPart

LEMMA ReadTrail ==
  ASSUME NEW x, x.t = "nl"
  PROVE  \A o, r : Consume(Rec(TrailPart, o, r), x) = Rec(SizeLine(0, 0, FALSE), o, r)
<1>. SUFFICES ASSUME NEW o, NEW r PROVE Consume(Rec(TrailPart, o, r), x) = Rec(SizeLine(0, 0, FALSE), o, r)
  OBVIOUS
<1>1. \A fz, sl, f : Consume(Rec4(Dec6("trail", 0, 0, 0, fz, sl), o, r, f), x)
         = Rec4(Dec6("size", 0, 0, 0, fz, sl), o, r, f)
  <2>1. ASSUME NEW fz, NEW sl, NEW f
        PROVE  Consume(Rec4(Dec6("trail", 0, 0, 0, fz, sl), o, r, f), x)
               = Rec4(Dec6("size", 0, 0, 0, fz, sl), o, r, f)
    BY <2>1 DEF Consume, InTrail, Rec4, Dec6
  <2>. QED  BY <2>1
<1>2. Consume(Rec4(Dec6("trail", 0, 0, 0, FALSE, TRUE), o, r, FALSE), x)
      = Rec4(Dec6("size", 0, 0, 0, FALSE, TRUE), o, r, FALSE)
  BY <1>1, Zenon
<1>. QED  BY <1>2, Zenon DEF Rec, SizeLine, TrailPart

LEMMA ReadDone ==
  ASSUME NEW x, x.t = "nl"
  PROVE  \A o, r : Consume(Rec(FinalPart(TRUE), o, r), x) = Rec(DonePart, o, r)
<1>. SUFFICES ASSUME NEW o, NEW r PROVE Consume(Rec(FinalPart(TRUE), o, r), x) = Rec(DonePart, o, r)
  OBVIOUS
<1>1. \A fz, sl, f : sl => Consume(Rec4(Dec6("final", 0, 0, 0, fz, sl), o, r, f), x)
         = Rec4(Dec6("done", 0, 0, 0, fz, sl), o, r, f)
  <2>1. ASSUME NEW fz, NEW sl, NEW f, sl
        PROVE  Consume(Rec4(Dec6("final", 0, 0, 0, fz, sl), o, r, f), x)
               = Rec4(Dec6("done", 0, 0, 0, fz, sl), o, r, f)
    BY <2>1 DEF Consume, InFinal, Rec4, Dec6
  <2>. QED  BY <2>1
<1>2. Consume(Rec4(Dec6("final", 0, 0, 0, FALSE, TRUE), o, r, FALSE), x)
      = Rec4(Dec6("done", 0, 0, 0, FALSE, TRUE), o, r, FALSE)
  BY <1>1, Zenon
<1>. QED  BY <1>2, Zenon DEF Rec, FinalPart, DonePart

LEMMA ReadLine ==
  ASSUME NEW x, x.t = "nl"
  PROVE  \A o, r : Consume(Rec(FinalPart(FALSE), o, r), x) = Rec(FinalPart(TRUE), o, r)
<1>. SUFFICES ASSUME NEW o, NEW r PROVE Consume(Rec(FinalPart(FALSE), o, r), x) = Rec(FinalPart(TRUE), o, r)
  OBVIOUS
<1>1. \A fz, sl, f : ~sl => Consume(Rec4(Dec6("final", 0, 0, 0, fz, sl), o, r, f), x)
         = Rec4(Dec6("final", 0, 0, 0, fz, TRUE), o, r, f)
  <2>1. ASSUME NEW fz, NEW sl, NEW f, ~sl
        PROVE  Consume(Rec4(Dec6("final", 0, 0, 0, fz, sl), o, r, f), x)
               = Rec4(Dec6("final", 0, 0, 0, fz, TRUE), o, r, f)
    BY <2>1 DEF Consume, InFinal, Rec4, Dec6
  <2>. QED  BY <2>1
<1>2. Consume(Rec4(Dec6("final", 0, 0, 0, FALSE, FALSE), o, r, FALSE), x)
      = Rec4(Dec6("final", 0, 0, 0, FALSE, TRUE), o, r, FALSE)
  BY <1>1, Zenon
<1>. QED  BY <1>2, Zenon DEF Rec, FinalPart

LEMMA ReadMore ==
  ASSUME NEW x, NEW sl, x.t # "nl"
  PROVE  \A o, r : Consume(Rec(FinalPart(sl), o, r), x) = Rec(FinalPart(FALSE), o, r)
<1>. SUFFICES ASSUME NEW o, NEW r PROVE Consume(Rec(FinalPart(sl), o, r), x) = Rec(FinalPart(FALSE), o, r)
  OBVIOUS
<1>1. \A fz, f : Consume(Rec4(Dec6("final", 0, 0, 0, fz, sl), o, r, f), x)
         = Rec4(Dec6("final", 0, 0, 0, fz, FALSE), o, r, f)
  <2>1. ASSUME NEW fz, NEW f
        PROVE  Consume(Rec4(Dec6("final", 0, 0, 0, fz, sl), o, r, f), x)
               = Rec4(Dec6("final", 0, 0, 0, fz, FALSE), o, r, f)
    BY <2>1 DEF Consume, InFinal, Rec4, Dec6
  <2>. QED  BY <2>1
<1>2. Consume(Rec4(Dec6("final", 0, 0, 0, FALSE, sl), o, r, FALSE), x)
      = Rec4(Dec6("final", 0, 0, 0, FALSE, FALSE), o, r, FALSE)
  BY <1>1, Zenon
<1>. QED  BY <1>2, Zenon DEF Rec, FinalPart

LEMMA InitIs == ChunkDecInit = SizeLine(0, 0, FALSE)
BY DEF ChunkDecInit, SizeLine, Dec6

LEMMA PartsTyped ==
  /\ \A h \in 0 .. HdrMax - 1, z \in Nat, fz \in BOOLEAN : SizeLine(h, z, fz) \in DecState
  /\ \A k \in 1 .. SizeMax : DataPart(k) \in DecState
  /\ TrailPart \in DecState /\ DonePart \in DecState
  /\ \A sl \in BOOLEAN : FinalPart(sl) \in DecState
<1>1. 0 \in 0 .. HdrMax - 1 /\ 0 \in 0 .. SizeMax /\ SizeMax \in Nat
  BY ChunkAssumption
<1>. QED  BY <1>1 DEF SizeLine, DataPart, TrailPart, FinalPart, DonePart, Dec6, DecState, Decoders

LEMMA TwoTokens == ASSUME NEW x, NEW y PROVE <<x>> \o <<y>> = <<x, y>>
<1>. DEFINE s == <<x>>
            v == <<y>>
            w == s \o v
            S == {x, y}
<1>1. s \in Seq(S) /\ v \in Seq(S) /\ Len(s) = 1 /\ Len(v) = 1 /\ s[1] = x /\ v[1] = y
  OBVIOUS
<1>2. <<x, y>> \in Seq(S) /\ Len(<<x, y>>) = 2 /\ <<x, y>>[1] = x /\ <<x, y>>[2] = y
  OBVIOUS
<1>. DEFINE p == <<x, y>>
<1>. HIDE DEF s, v, p
<1>. HIDE DEF S
<1>3. /\ w \in Seq(S) /\ Len(w) = Len(s) + Len(v)
      /\ \A i \in 1 .. Len(s) + Len(v) : w[i] = IF i <= Len(s) THEN s[i] ELSE v[i - Len(s)]
  <2>1. s \in Seq(S) /\ v \in Seq(S)
    BY <1>1
  <2>. QED  BY <2>1, ConcatProperties
<1>. HIDE DEF w
<1>4. Len(w) = 2 /\ w[1] = x /\ w[2] = y
  BY <1>1, <1>3
<1>5. \A i \in 1 .. Len(w) : w[i] = p[i]
  BY <1>2, <1>4 DEF p
<1>6. p \in Seq(S) /\ Len(p) = 2
  BY <1>2 DEF p
<1>7. w = p
  BY <1>3, <1>4, <1>5, <1>6, SeqEqual
<1>. QED  BY <1>7 DEF w, s, v, p

\* The tokens of the framing
LEMMA FrameTokens ==
  /\ \A d \in Nat : Digit(d) \in Tokens /\ Digit(d).t = "hex" /\ Digit(d).v = d
  /\ NewLine \in Tokens /\ NewLine.t = "nl" /\ Extension \in Tokens /\ Extension.t = "other"
<1>1. 0 \in 0 .. NPay
  BY NtripAssumption
<1>. QED  BY <1>1 DEF Digit, NewLine, Extension, Tokens

LEMMA RunsDigit ==
  ASSUME NEW c \in Nat, NEW h \in Nat, NEW z \in Nat, h < HdrMax - 1, NEW d \in Nat
  PROVE  Runs(SizeLine(h, z, FALSE), c, <<Digit(d)>>, SizeLine(h + 1, Base * z + d, FALSE), c)
<1>. DEFINE x == Digit(d)
            a == SizeLine(h, z, FALSE)
            e == SizeLine(h + 1, Base * z + d, FALSE)
<1>1. HdrMax \in Nat /\ Base \in Nat
  BY ChunkAssumption
<1>2. x \in Tokens /\ x.t = "hex" /\ x.v = d
  BY FrameTokens
<1>3. h \in 0 .. HdrMax - 1 /\ h + 1 \in 0 .. HdrMax - 1 /\ Base * z + d \in Nat
  BY <1>1
<1>4. a \in DecState /\ e \in DecState
  <2>. HIDE DEF x
  <2>. QED  BY <1>3, PartsTyped
<1>5. a.st = "size"
  BY DEF SizeLine, Dec6
<1>. HIDE DEF x
<1>6. \A o, r : Consume(Rec(a, o, r), x) = Rec(e, o, r)
  <2>. DEFINE y == Base * z + x.v
  <2>1. \A o, r : Consume(Rec(SizeLine(h, z, FALSE), o, r), x) = Rec(SizeLine(h + 1, y, FALSE), o, r)
    BY <1>2, ReadDigit, Zenon
  <2>2. y = Base * z + d
    BY <1>2
  <2>. HIDE DEF y
  <2>. QED  BY <2>1, <2>2, Zenon
<1>. HIDE DEF a, e
<1>7. Goes(a, c, x, e, c)
  BY <1>2, <1>5, <1>6 DEF Goes, IsByte
<1>8. Runs(a, c, <<x>>, e, c)
  BY <1>2, <1>4, <1>7, RunsOne
<1>. QED  BY <1>8 DEF x, a, e

\* The size in digits
LEMMA RunsDigits ==
  ASSUME NEW c \in Nat, NEW h \in Nat, h + 1 < HdrMax - 1, NEW m \in Nat
  PROVE  \E k \in h + 1 .. h + 2 : Runs(SizeLine(h, 0, FALSE), c, Digits(m), SizeLine(k, m, FALSE), c)
<1>1. HdrMax \in Nat /\ Base \in Nat /\ Base > 0
  BY ChunkAssumption
<1>0. 0 \in Nat /\ h < HdrMax - 1 /\ h + 1 \in Nat /\ h + 1 < HdrMax - 1
  BY <1>1
<1>2. CASE m < Base
  <2>1. Runs(SizeLine(h, 0, FALSE), c, <<Digit(m)>>, SizeLine(h + 1, Base * 0 + m, FALSE), c)
    BY <1>0, RunsDigit, Zenon
  <2>2. Base * 0 + m = m /\ h + 1 \in h + 1 .. h + 2
    BY <1>1
  <2>3. Digits(m) = <<Digit(m)>>
    BY <1>2 DEF Digits
  <2>. QED  BY <2>1, <2>2, <2>3
<1>3. CASE ~(m < Base)
  <2>. DEFINE q == m \div Base
              w == m % Base
  <2>1. q \in Int /\ w \in Nat /\ m = Base * q + w /\ w < Base
    BY <1>1
  <2>2. q \in Nat
    <3>. HIDE DEF w, q
    <3>. SUFFICES ASSUME q <= -1 PROVE FALSE
      BY <2>1
    <3>1. Base * (-1 - q) >= 0
      <4>. DEFINE y == -1 - q
      <4>1. y \in Nat
        BY <2>1
      <4>. HIDE DEF y
      <4>2. Base * y \in Nat
        BY <1>1, <4>1
      <4>. QED  BY <4>2 DEF y
    <3>2. Base * (-1 - q) = -Base - Base * q
      BY <1>1, <2>1
    <3>. QED  BY <1>1, <2>1, <3>1, <3>2
  <2>3. Digits(m) = <<Digit(q), Digit(w)>>
    BY <1>3 DEF Digits
  <2>. HIDE DEF q, w
  <2>4. Runs(SizeLine(h, 0, FALSE), c, <<Digit(q)>>, SizeLine(h + 1, Base * 0 + q, FALSE), c)
    BY <1>0, <2>2, RunsDigit, Zenon
  <2>5. Base * 0 + q = q
    BY <1>1, <2>2
  <2>6. Runs(SizeLine(h + 1, q, FALSE), c, <<Digit(w)>>, SizeLine(h + 1 + 1, Base * q + w, FALSE), c)
    BY <1>0, <2>1, <2>2, RunsDigit, Zenon
  <2>7. h + 1 + 1 = h + 2 /\ h + 2 \in h + 1 .. h + 2
    OBVIOUS
  <2>8. Runs(SizeLine(h, 0, FALSE), c, <<Digit(q)>> \o <<Digit(w)>>, SizeLine(h + 2, m, FALSE), c)
    <3>1. Runs(SizeLine(h, 0, FALSE), c, <<Digit(q)>>, SizeLine(h + 1, q, FALSE), c)
      BY <2>4, <2>5
    <3>2. Runs(SizeLine(h + 1, q, FALSE), c, <<Digit(w)>>, SizeLine(h + 2, m, FALSE), c)
      BY <2>1, <2>6, <2>7
    <3>. QED  BY <3>1, <3>2, RunsCat
  <2>9. <<Digit(q)>> \o <<Digit(w)>> = <<Digit(q), Digit(w)>>
    BY TwoTokens
  <2>. QED  BY <2>3, <2>7, <2>8, <2>9
<1>. QED  BY <1>2, <1>3

\* The caster's ways to write the size of a chunk
Sizes(m) == {Digits(m), <<Digit(0)>> \o Digits(m), Digits(m) \o <<Extension, Digit(0)>>}

LEMMA RunsSize ==
  ASSUME NEW c \in Nat, NEW m \in Nat, HdrMax > 3, NEW sz \in Sizes(m)
  PROVE  \E k \in 1 .. 3, fz \in BOOLEAN :
            /\ k \in 0 .. HdrMax - 1
            /\ Runs(ChunkDecInit, c, sz, SizeLine(k, m, fz), c)
<1>1. HdrMax \in Nat /\ Base \in Nat
  BY ChunkAssumption
<1>0. 0 \in Nat /\ 0 < HdrMax - 1 /\ 0 + 1 < HdrMax - 1 /\ 1 \in Nat /\ 1 + 1 < HdrMax - 1
  BY <1>1
<1>2. PICK k \in 1 .. 2 : Runs(ChunkDecInit, c, Digits(m), SizeLine(k, m, FALSE), c)
  <2>1. \E k \in 0 + 1 .. 0 + 2 : Runs(SizeLine(0, 0, FALSE), c, Digits(m), SizeLine(k, m, FALSE), c)
    BY <1>0, RunsDigits, Zenon
  <2>2. 0 + 1 = 1 /\ 0 + 2 = 2
    OBVIOUS
  <2>. QED  BY <2>1, <2>2, InitIs
<1>3. CASE sz = Digits(m)
  <2>1. k \in 1 .. 3 /\ k \in 0 .. HdrMax - 1
    BY <1>1
  <2>. QED  BY <1>2, <1>3, <2>1
<1>4. CASE sz = <<Digit(0)>> \o Digits(m)
  <2>1. Runs(SizeLine(0, 0, FALSE), c, <<Digit(0)>>, SizeLine(0 + 1, Base * 0 + 0, FALSE), c)
    BY <1>0, RunsDigit, Zenon
  <2>2. 0 + 1 = 1 /\ Base * 0 + 0 = 0
    BY <1>1
  <2>3. PICK l \in 1 + 1 .. 1 + 2 : Runs(SizeLine(1, 0, FALSE), c, Digits(m), SizeLine(l, m, FALSE), c)
    BY <1>0, RunsDigits, Zenon
  <2>4. Runs(SizeLine(0, 0, FALSE), c, <<Digit(0)>>, SizeLine(1, 0, FALSE), c)
    BY <2>1, <2>2
  <2>5. Runs(ChunkDecInit, c, sz, SizeLine(l, m, FALSE), c)
    BY <1>4, <2>3, <2>4, RunsCat, InitIs
  <2>6. l \in 1 .. 3 /\ l \in 0 .. HdrMax - 1
    BY <1>1
  <2>. QED  BY <2>5, <2>6
<1>5. CASE sz = Digits(m) \o <<Extension, Digit(0)>>
  <2>. DEFINE a == SizeLine(k, m, FALSE)
              e == SizeLine(k, m, TRUE)
              x == Extension
              y == Digit(0)
  <2>1. x \in Tokens /\ x.t = "other" /\ y \in Tokens /\ y.t = "hex"
    BY FrameTokens
  <2>2. k \in 1 .. 3 /\ k \in 0 .. HdrMax - 1
    BY <1>1
  <2>3. a \in DecState /\ e \in DecState
    <3>. HIDE DEF x, y
    <3>. QED  BY <2>2, PartsTyped
  <2>4. a.st = "size" /\ e.st = "size"
    BY DEF SizeLine, Dec6
  <2>. HIDE DEF x, y
  <2>5. \A o, r : Consume(Rec(a, o, r), x) = Rec(e, o, r)
    BY <2>1, ReadExt, Zenon
  <2>6. \A o, r : Consume(Rec(e, o, r), y) = Rec(e, o, r)
      <3>1. y.t # "nl"
      BY <2>1
    <3>. QED  BY <3>1, ReadSkip, Zenon
  <2>. HIDE DEF a, e
  <2>7. Goes(a, c, x, e, c) /\ Goes(e, c, y, e, c)
    BY <2>1, <2>4, <2>5, <2>6 DEF Goes, IsByte
  <2>8. Runs(a, c, <<x>>, e, c) /\ Runs(e, c, <<y>>, e, c)
    BY <2>1, <2>3, <2>7, RunsOne
  <2>9. Runs(a, c, <<x>> \o <<y>>, e, c)
    BY <2>8, RunsCat
  <2>10. <<x>> \o <<y>> = <<x, y>>
    BY TwoTokens
  <2>11. Runs(ChunkDecInit, c, Digits(m) \o <<x, y>>, e, c)
    BY <1>2, <2>9, <2>10, RunsCat DEF a
  <2>. QED  BY <1>5, <2>2, <2>11 DEF e, x, y
<1>. QED  BY <1>3, <1>4, <1>5 DEF Sizes

LEMMA RunsNewLine ==
  ASSUME NEW c \in Nat, NEW m \in 1 .. SizeMax, NEW k \in 1 .. 3, k \in 0 .. HdrMax - 1, NEW fz \in BOOLEAN
  PROVE  Runs(SizeLine(k, m, fz), c, <<NewLine>>, DataPart(m), c)
<1>. DEFINE a == SizeLine(k, m, fz)
            e == DataPart(m)
            x == NewLine
<1>1. SizeMax \in Nat /\ m \in Nat /\ ~(m > SizeMax) /\ m # 0 /\ k # 0
  BY ChunkAssumption
<1>2. x \in Tokens /\ x.t = "nl"
  BY FrameTokens
<1>3. a \in DecState /\ e \in DecState
  <2>. HIDE DEF x
  <2>. QED  BY <1>1, PartsTyped
<1>4. a.st = "size"
  BY DEF SizeLine, Dec6
<1>. HIDE DEF x
<1>5. \A o, r : Consume(Rec(a, o, r), x) = Rec(e, o, r)
  <2>1. m # 0 /\ k # 0 /\ ~(m > SizeMax)
    BY <1>1
  <2>2. \A h, z : h # 0 /\ z # 0 /\ ~(z > SizeMax) =>
             \A o, r : Consume(Rec(SizeLine(h, z, fz), o, r), x) = Rec(DataPart(z), o, r)
    BY <1>2, ReadNl
  <2>. QED  BY <2>1, <2>2, Zenon
<1>. HIDE DEF a, e
<1>6. Goes(a, c, x, e, c)
  BY <1>2, <1>4, <1>5 DEF Goes, IsByte
<1>7. Runs(a, c, <<x>>, e, c)
  BY <1>2, <1>3, <1>6, RunsOne
<1>. QED  BY <1>7 DEF a, e, x

LEMMA RunsTrail ==
  ASSUME NEW c \in Nat
  PROVE  Runs(TrailPart, c, <<NewLine>>, ChunkDecInit, c)
<1>. DEFINE a == TrailPart
            e == ChunkDecInit
            x == NewLine
<1>2. x \in Tokens /\ x.t = "nl"
  BY FrameTokens
<1>3. a \in DecState /\ e \in DecState
  <2>1. 0 \in 0 .. HdrMax - 1
    BY ChunkAssumption
  <2>. HIDE DEF x
  <2>. QED  BY <2>1, PartsTyped, InitIs
<1>4. a.st = "trail"
  BY DEF TrailPart, Dec6
<1>. HIDE DEF x
<1>5. \A o, r : Consume(Rec(a, o, r), x) = Rec(e, o, r)
  BY <1>2, InitIs, ReadTrail, Zenon
<1>. HIDE DEF a, e
<1>6. Goes(a, c, x, e, c)
  BY <1>2, <1>4, <1>5 DEF Goes, IsByte
<1>7. Runs(a, c, <<x>>, e, c)
  BY <1>2, <1>3, <1>6, RunsOne
<1>. QED  BY <1>7 DEF a, e, x

\* Bytes of payload with the numbers after c
Plain(s, c, m) ==
    /\ s \in Seq(Tokens) /\ c \in Nat /\ m = c + Len(s)
    /\ \A i \in 1 .. Len(s) : IsByte(s[i]) /\ s[i].id = c + i

LEMMA RunsData ==
  ASSUME NEW s, NEW c, NEW m, Plain(s, c, m), NEW k \in 1 .. SizeMax, Len(s) = k
  PROVE  Runs(DataPart(k), c, s, TrailPart, m)
<1>. DEFINE D == [i \in 0 .. k |-> IF i < k THEN DataPart(k - i) ELSE TrailPart]
            C == [i \in 0 .. k |-> c + i]
<1>1. /\ k \in Nat /\ SizeMax \in Nat /\ c \in Nat /\ s \in Seq(Tokens) /\ m = c + k
      /\ \A i \in 1 .. k : IsByte(s[i]) /\ s[i].id = c + i
  BY ChunkAssumption DEF Plain
<1>2. \A i \in 0 .. k : D[i] \in DecState
  <2>1. ASSUME NEW i \in 0 .. k PROVE D[i] \in DecState
    <3>1. i < k => k - i \in 1 .. SizeMax
      BY <1>1
    <3>2. i < k => DataPart(k - i) \in DecState
      BY <3>1, PartsTyped
    <3>. QED  BY <3>2, PartsTyped
  <2>. QED  BY <2>1
<1>3. D \in [0 .. k -> DecState] /\ C \in [0 .. k -> Nat]
  BY <1>1, <1>2
<1>4. D[0] = DataPart(k) /\ C[0] = c /\ D[k] = TrailPart /\ C[k] = m
  <2>1. 0 \in 0 .. k /\ k \in 0 .. k /\ 0 < k /\ ~(k < k) /\ k - 0 = k /\ c + 0 = c
    BY <1>1
  <2>. QED  BY <1>1, <2>1
<1>5. ASSUME NEW i \in 1 .. k PROVE Goes(D[i - 1], C[i - 1], s[i], D[i], C[i])
  <2>. DEFINE l == k - (i - 1)
              x == s[i]
              n == c + (i - 1)
  <2>1. /\ i - 1 \in 0 .. k /\ i \in 0 .. k /\ i - 1 < k /\ l \in Nat /\ n + 1 = c + i
        /\ (i < k <=> l # 1) /\ l - 1 = k - i /\ (l = 1 => k - i = 0)
    BY <1>1
  <2>2. D[i - 1] = DataPart(l) /\ C[i - 1] = n /\ C[i] = n + 1
    BY <2>1
  <2>3. D[i] = IF l = 1 THEN TrailPart ELSE DataPart(l - 1)
    <3>1. D[i] = IF i < k THEN DataPart(k - i) ELSE TrailPart
      BY <2>1
    <3>. QED  BY <2>1, <3>1
  <2>4. IsByte(x) /\ x.id = n + 1
    BY <1>1, <2>1
  <2>. HIDE DEF D, C, x, n, l
  <2>5. DataPart(l).st = "data"
    BY DEF DataPart, Dec6
  <2>6. D[i] = Dec6(IF l = 1 THEN "trail" ELSE "data", l - 1, 0, 0, FALSE, TRUE)
    BY <2>1, <2>3 DEF TrailPart, DataPart
  <2>7. \A o, r : Consume(Rec(DataPart(l), o, r), x) = Rec(D[i], Append(o, x), r)
    <3>1. \A o, r : Consume(Rec(DataPart(l), o, r), x)
                    = Rec(Dec6(IF l = 1 THEN "trail" ELSE "data", l - 1, 0, 0, FALSE, TRUE), Append(o, x), r)
      BY ReadData, Zenon
    <3>. QED  BY <2>6, <3>1, Zenon
  <2>8. Goes(DataPart(l), n, x, D[i], n + 1)
    BY <2>4, <2>5, <2>7 DEF Goes
  <2>. QED  BY <2>2, <2>8 DEF x
<1>. HIDE DEF D, C
<1>6. Chain(DataPart(k), c, s, TrailPart, m, D, C)
  BY <1>3, <1>4, <1>5 DEF Chain
<1>. QED  BY <1>1, <1>6 DEF Runs

\* A chunk, between two others
LEMMA RunsChunk ==
  ASSUME NEW d, NEW c, NEW s, NEW n, Runs(d, c, s, ChunkDecInit, n),
         NEW m \in 1 .. SizeMax, HdrMax > 3, NEW sz \in Sizes(m),
         NEW data, Plain(data, n, n + m), Len(data) = m
  PROVE  Runs(d, c, s \o sz \o <<NewLine>> \o data \o <<NewLine>>, ChunkDecInit, n + m)
<1>1. n \in Nat /\ n + m \in Nat /\ m \in Nat
  BY RunsTyped, ChunkAssumption
<1>2. PICK k \in 1 .. 3, fz \in BOOLEAN :
            /\ k \in 0 .. HdrMax - 1
            /\ Runs(ChunkDecInit, n, sz, SizeLine(k, m, fz), n)
  BY <1>1, RunsSize
<1>3. Runs(d, c, s \o sz, SizeLine(k, m, fz), n)
  BY <1>2, RunsCat
<1>4. Runs(SizeLine(k, m, fz), n, <<NewLine>>, DataPart(m), n)
  BY <1>1, <1>2, RunsNewLine
<1>5. Runs(d, c, s \o sz \o <<NewLine>>, DataPart(m), n)
  BY <1>3, <1>4, RunsCat
<1>6. Runs(DataPart(m), n, data, TrailPart, n + m)
  BY RunsData
<1>7. Runs(d, c, s \o sz \o <<NewLine>> \o data, TrailPart, n + m)
  BY <1>5, <1>6, RunsCat
<1>. QED  BY <1>1, <1>7, RunsTrail, RunsCat

\* The last chunk, and the trailer
LEMMA RunsEnd ==
  ASSUME NEW d, NEW c, NEW s, NEW n, Runs(d, c, s, ChunkDecInit, n), HdrMax > 3,
         NEW trailer \in {<<>>, <<Extension, NewLine>>}
  PROVE  Runs(d, c, s \o <<Digit(0), NewLine>> \o trailer \o <<NewLine>>, DonePart, n)
<1>. DEFINE x == Digit(0)
            y == NewLine
            w == Extension
            a == SizeLine(1, 0, FALSE)
            p == FinalPart(TRUE)
            q == FinalPart(FALSE)
            g == DonePart
<1>1. n \in Nat /\ HdrMax \in Nat /\ Base \in Nat /\ SizeMax \in Nat /\ s \in Seq(Tokens)
  BY RunsTyped, ChunkAssumption
<1>2. Runs(ChunkDecInit, n, <<x>>, a, n)
  <2>1. Runs(SizeLine(0, 0, FALSE), n, <<Digit(0)>>, SizeLine(0 + 1, Base * 0 + 0, FALSE), n)
    <3>1. 0 \in Nat /\ 0 < HdrMax - 1
      BY <1>1
    <3>. QED  BY <1>1, <3>1, RunsDigit, Zenon
  <2>2. 0 + 1 = 1 /\ Base * 0 + 0 = 0
    BY <1>1
  <2>. QED  BY <2>1, <2>2, InitIs
<1>3. /\ x \in Tokens /\ y \in Tokens /\ y.t = "nl" /\ w \in Tokens /\ w.t = "other"
  BY FrameTokens
<1>4. a \in DecState /\ p \in DecState /\ q \in DecState /\ g \in DecState
  <2>1. 1 \in 0 .. HdrMax - 1
    BY <1>1
  <2>. HIDE DEF x, y, w
  <2>. QED  BY <2>1, PartsTyped
<1>5. a.st = "size" /\ p.st = "final" /\ q.st = "final"
  BY DEF SizeLine, FinalPart, Dec6
<1>. HIDE DEF x, y, w
<1>6. \A o, r : Consume(Rec(a, o, r), y) = Rec(p, o, r)
  BY <1>3, ReadLast, Zenon
<1>7. \A o, r : /\ Consume(Rec(p, o, r), y) = Rec(g, o, r)
                /\ Consume(Rec(p, o, r), w) = Rec(q, o, r)
                /\ Consume(Rec(q, o, r), y) = Rec(p, o, r)
  <2>1. w.t # "nl"
    BY <1>3
  <2>2. \A o, r : Consume(Rec(FinalPart(TRUE), o, r), y) = Rec(DonePart, o, r)
    BY <1>3, ReadDone, Zenon
  <2>3. \A o, r : Consume(Rec(FinalPart(FALSE), o, r), y) = Rec(FinalPart(TRUE), o, r)
    BY <1>3, ReadLine, Zenon
  <2>4. \A sl : \A o, r : Consume(Rec(FinalPart(sl), o, r), w) = Rec(FinalPart(FALSE), o, r)
    BY <2>1, ReadMore, Zenon
  <2>5. \A o, r : Consume(Rec(FinalPart(TRUE), o, r), w) = Rec(FinalPart(FALSE), o, r)
    BY <2>4, Zenon
  <2>. QED  BY <2>2, <2>3, <2>5, Zenon
<1>. HIDE DEF a, p, q, g
<1>8. /\ Goes(a, n, y, p, n) /\ Goes(p, n, y, g, n)
      /\ Goes(p, n, w, q, n) /\ Goes(q, n, y, p, n)
  BY <1>3, <1>5, <1>6, <1>7 DEF Goes, IsByte
<1>9. /\ Runs(a, n, <<y>>, p, n) /\ Runs(p, n, <<y>>, g, n)
      /\ Runs(p, n, <<w>>, q, n) /\ Runs(q, n, <<y>>, p, n)
  BY <1>1, <1>3, <1>4, <1>8, RunsOne
<1>10. Runs(ChunkDecInit, n, <<x>> \o <<y>>, p, n) /\ Runs(p, n, <<w>> \o <<y>>, p, n)
  BY <1>2, <1>9, RunsCat
<1>11. <<x>> \o <<y>> = <<x, y>> /\ <<w>> \o <<y>> = <<w, y>>
  BY TwoTokens
<1>12. Runs(d, c, s \o <<x, y>>, p, n)
  BY <1>10, <1>11, RunsCat
<1>13. Runs(p, n, trailer, p, n)
  <2>1. CASE trailer = <<>>
    BY <1>1, <1>4, <2>1, RunsNone
  <2>2. CASE trailer = <<w, y>>
    BY <1>10, <1>11, <2>2
  <2>. QED  BY <2>1, <2>2 DEF w, y
<1>14. Runs(d, c, s \o <<x, y>> \o trailer, p, n)
  BY <1>12, <1>13, RunsCat
<1>15. Runs(d, c, s \o <<x, y>> \o trailer \o <<y>>, g, n)
  BY <1>9, <1>14, RunsCat
<1>. QED  BY <1>15 DEF x, y, g

-----------------------------------------------------------------------------
(* What is under way of the caster's payload, raw or in chunks.             *)

\* In state d with c bytes of payload delivered, s leads to f and n.
Flow(tk, d, c, s, f, n) ==
    \/ tk = "chunk" /\ Runs(d, c, s, f, n)
    \/ tk = "raw" /\ Plain(s, c, n) /\ f = d
    \/ tk \notin {"raw", "chunk"} /\ s = <<>> /\ c \in Nat /\ n = c /\ f = d

\* All that the caster has sent is in w, and it can go on while its side is open.
Coming(tk, d, c, w, p, n) ==
    \E f : Flow(tk, d, c, w, f, n) /\ (tk = "chunk" /\ p => f = ChunkDecInit)

\* Nothing is delivered twice.
LEMMA RunsGrow ==
  ASSUME NEW d, NEW c, NEW s, NEW e, NEW m, Runs(d, c, s, e, m)
  PROVE  c <= m /\ \A i \in 1 .. Len(s) : IsByte(s[i])
<1>1. PICK D, C : s \in Seq(Tokens) /\ Chain(d, c, s, e, m, D, C)
  BY DEF Runs
<1>. DEFINE l == Len(s)
<1>2. /\ l \in Nat /\ C \in [0 .. l -> Nat] /\ C[0] = c /\ C[l] = m
      /\ \A i \in 1 .. l : Goes(D[i - 1], C[i - 1], s[i], D[i], C[i])
  BY <1>1, LenProperties DEF Chain
<1>. HIDE DEF l
<1>3. \A i \in 1 .. l : C[i] = C[i - 1] \/ C[i] = C[i - 1] + 1
  BY <1>2 DEF Goes
<1>. DEFINE S == {i \in Nat : i <= l /\ ~(c <= C[i])}
<1>4. S = {}
  <2>. SUFFICES ASSUME S # {} PROVE FALSE
    OBVIOUS
  <2>1. PICK i \in S : \A y \in S : i <= y
    <3>1. S \in SUBSET Nat
      OBVIOUS
    <3>. HIDE DEF S
    <3>. QED  BY <3>1, Smallest
  <2>2. i # 0
    <3>1. c \in Nat
      BY <1>2
    <3>. QED  BY <1>2, <2>1, <3>1
  <2>3. i - 1 \in Nat /\ i \in 1 .. l /\ i - 1 \notin S /\ i - 1 <= l /\ i \in 0 .. l /\ i - 1 \in 0 .. l
    BY <1>2, <2>1, <2>2
  <2>4. c <= C[i - 1] /\ C[i - 1] \in Nat /\ C[i] \in Nat /\ c \in Nat
    BY <1>2, <2>3
  <2>. QED  BY <1>3, <2>1, <2>3, <2>4
<1>5. c <= m
  BY <1>2, <1>4
<1>6. \A i \in 1 .. l : IsByte(s[i])
  BY <1>2 DEF Goes
<1>. QED  BY <1>5, <1>6 DEF l

LEMMA FlowIs ==
  ASSUME NEW tk, NEW d, NEW c, NEW s, NEW f, NEW n, Flow(tk, d, c, s, f, n)
  PROVE  /\ s \in Seq(Tokens) /\ c \in Nat /\ n \in Nat /\ c <= n
         /\ \A i \in 1 .. Len(s) : IsByte(s[i])
<1>1. CASE tk = "chunk" /\ Runs(d, c, s, f, n)
  BY <1>1, RunsTyped, RunsGrow
<1>2. CASE tk = "raw" /\ Plain(s, c, n)
  <2>1. s \in Seq(Tokens) /\ Len(s) \in Nat
    BY <1>2, LenProperties DEF Plain
  <2>. QED  BY <1>2, <2>1 DEF Plain
<1>3. CASE s = <<>> /\ c \in Nat /\ n = c
  BY <1>3
<1>. QED  BY <1>1, <1>2, <1>3 DEF Flow

LEMMA FlowCut ==
  ASSUME NEW tk, NEW d, NEW c, NEW s, NEW f, NEW n, Flow(tk, d, c, s, f, n), NEW k \in 0 .. Len(s)
  PROVE  \E e, m : Flow(tk, d, c, First(s, k), e, m) /\ Flow(tk, e, m, After(s, k), f, n)
<1>0. s \in Seq(Tokens) /\ c \in Nat /\ n \in Nat /\ Len(s) \in Nat
  BY FlowIs, LenProperties
<1>1. CASE tk = "chunk" /\ Runs(d, c, s, f, n)
  <2>1. PICK e, m : Runs(d, c, First(s, k), e, m) /\ Runs(e, m, After(s, k), f, n)
    BY <1>1, RunsCut
  <2>. QED  BY <1>1, <2>1 DEF Flow
<1>2. CASE tk = "raw" /\ Plain(s, c, n) /\ f = d
  <2>. DEFINE v == First(s, k)
              w == After(s, k)
              m == c + k
  <2>1. /\ v \in Seq(Tokens) /\ Len(v) = k /\ \A i \in 1 .. k : v[i] = s[i]
        /\ w \in Seq(Tokens) /\ Len(w) = Len(s) - k /\ \A i \in 1 .. Len(s) - k : w[i] = s[k + i]
    BY <1>0, FirstIs, AfterIs
  <2>2. n = c + Len(s) /\ \A i \in 1 .. Len(s) : IsByte(s[i]) /\ s[i].id = c + i
    BY <1>2 DEF Plain
  <2>. HIDE DEF v, w
  <2>3. Plain(v, c, m)
    <3>1. \A i \in 1 .. k : i \in 1 .. Len(s)
      BY <1>0
    <3>. QED  BY <1>0, <2>1, <2>2, <3>1 DEF Plain
  <2>4. Plain(w, m, n)
    <3>1. ASSUME NEW i \in 1 .. Len(s) - k PROVE IsByte(w[i]) /\ w[i].id = m + i
      <4>1. k + i \in 1 .. Len(s) /\ c + (k + i) = m + i
        BY <1>0
      <4>. QED  BY <2>1, <2>2, <4>1
    <3>2. m \in Nat /\ n = m + (Len(s) - k)
      BY <1>0, <2>2
    <3>. QED  BY <2>1, <3>1, <3>2 DEF Plain
  <2>5. Flow(tk, d, c, v, d, m) /\ Flow(tk, d, m, w, f, n)
    <3>. HIDE DEF m
    <3>. QED  BY <1>2, <2>3, <2>4 DEF Flow
  <2>. QED  BY <2>5 DEF v, w
<1>3. CASE tk \notin {"raw", "chunk"} /\ s = <<>> /\ c \in Nat /\ n = c /\ f = d
  <2>1. Len(s) = 0 /\ k = 0
    BY <1>3
  <2>2. /\ First(s, k) \in Seq(Tokens) /\ Len(First(s, k)) = 0
        /\ After(s, k) \in Seq(Tokens) /\ Len(After(s, k)) = 0
    <3>1. Len(First(s, k)) = k /\ Len(After(s, k)) = Len(s) - k /\ First(s, k) \in Seq(Tokens)
          /\ After(s, k) \in Seq(Tokens)
      BY <1>0, FirstIs, AfterIs
    <3>. QED  BY <2>1, <3>1
  <2>3. First(s, k) = <<>> /\ After(s, k) = <<>>
    BY <2>2, EmptySeq
  <2>. QED  BY <1>3, <2>3 DEF Flow
<1>. QED  BY <1>1, <1>2, <1>3 DEF Flow

LEMMA PlainCat ==
  ASSUME NEW s, NEW c, NEW n, Plain(s, c, n), NEW v, NEW m, Plain(v, n, m)
  PROVE  Plain(s \o v, c, m)
<1>. DEFINE w == s \o v
<1>1. /\ s \in Seq(Tokens) /\ v \in Seq(Tokens) /\ c \in Nat /\ n = c + Len(s) /\ m = n + Len(v)
      /\ \A i \in 1 .. Len(s) : IsByte(s[i]) /\ s[i].id = c + i
      /\ \A i \in 1 .. Len(v) : IsByte(v[i]) /\ v[i].id = n + i
  BY DEF Plain
<1>2. /\ w \in Seq(Tokens) /\ Len(w) = Len(s) + Len(v) /\ Len(s) \in Nat /\ Len(v) \in Nat
      /\ \A i \in 1 .. Len(s) + Len(v) : w[i] = IF i <= Len(s) THEN s[i] ELSE v[i - Len(s)]
  BY <1>1, ConcatProperties, LenProperties
<1>. HIDE DEF w
<1>3. ASSUME NEW i \in 1 .. Len(w) PROVE IsByte(w[i]) /\ w[i].id = c + i
  <2>1. CASE i <= Len(s)
    <3>1. i \in 1 .. Len(s) /\ w[i] = s[i]
      BY <1>2, <2>1
    <3>. QED  BY <1>1, <3>1
  <2>2. CASE ~(i <= Len(s))
    <3>. DEFINE j == i - Len(s)
    <3>1. j \in 1 .. Len(v) /\ w[i] = v[j] /\ n + j = c + i
      BY <1>1, <1>2, <2>2
    <3>. HIDE DEF j
    <3>. QED  BY <1>1, <3>1
  <2>. QED  BY <2>1, <2>2
<1>4. Plain(w, c, m)
  BY <1>1, <1>2, <1>3 DEF Plain
<1>. QED  BY <1>4 DEF w

LEMMA ComingCut ==
  ASSUME NEW tk, NEW d, NEW c, NEW w, NEW p, NEW n, Coming(tk, d, c, w, p, n), NEW k \in 0 .. Len(w)
  PROVE  \E e, m : Flow(tk, d, c, First(w, k), e, m) /\ Coming(tk, e, m, After(w, k), p, n)
<1>1. PICK f : Flow(tk, d, c, w, f, n) /\ (tk = "chunk" /\ p => f = ChunkDecInit)
  BY DEF Coming
<1>2. PICK e, m : Flow(tk, d, c, First(w, k), e, m) /\ Flow(tk, e, m, After(w, k), f, n)
  BY <1>1, FlowCut
<1>. QED  BY <1>1, <1>2 DEF Coming

LEMMA ComingClose ==
  ASSUME NEW tk, NEW d, NEW c, NEW w, NEW p, NEW n, Coming(tk, d, c, w, p, n)
  PROVE  Coming(tk, d, c, w, FALSE, n)
BY Zenon DEF Coming

LEMMA ComingIs ==
  ASSUME NEW tk, NEW d, NEW c, NEW w, NEW p, NEW n, Coming(tk, d, c, w, p, n)
  PROVE  /\ w \in Seq(Tokens) /\ c \in Nat /\ n \in Nat /\ c <= n
         /\ \A i \in 1 .. Len(w) : IsByte(w[i])
BY FlowIs DEF Coming

\* What the caster sends in one step (Send), and its last bytes (Finish)
Sent(tk, n, m, v) ==
    \E data \in Seq(Tokens) :
      /\ Plain(data, n, n + m) /\ Len(data) = m
      /\ \/ tk = "raw" /\ v = data
         \/ tk = "chunk" /\ m <= SizeMax /\ \E sz \in Sizes(m) : v = sz \o <<NewLine>> \o data \o <<NewLine>>
LastChunk(v) == \E trailer \in {<<>>, <<Extension, NewLine>>} : v = <<Digit(0), NewLine>> \o trailer \o <<NewLine>>

LEMMA Joins ==
  /\ \A a, b, c \in Seq(Tokens) : a \o (b \o c) = a \o b \o c
  /\ \A a, b \in Seq(Tokens) : a \o b \in Seq(Tokens)
BY ConcatAssociative, ConcatProperties

LEMMA SizesTyped ==
  ASSUME NEW m \in Nat, NEW sz \in Sizes(m)
  PROVE  sz \in Seq(Tokens)
<1>1. m \div Base \in Nat /\ m % Base \in Nat /\ 0 \in Nat
  BY ChunkAssumption
<1>. DEFINE a == Digit(m)
            b == Digit(m \div Base)
            c == Digit(m % Base)
            x == Digit(0)
            e == Extension
<1>2. a \in Tokens /\ b \in Tokens /\ c \in Tokens /\ x \in Tokens /\ e \in Tokens
  BY <1>1, FrameTokens
<1>. HIDE DEF a, b, c, x, e
<1>3. <<a>> \in Seq(Tokens) /\ <<b, c>> \in Seq(Tokens) /\ <<x>> \in Seq(Tokens) /\ <<e, x>> \in Seq(Tokens)
  BY <1>2
<1>4. Digits(m) \in Seq(Tokens)
  BY <1>3 DEF Digits, a, b, c
<1>5. <<x>> \o Digits(m) \in Seq(Tokens) /\ Digits(m) \o <<e, x>> \in Seq(Tokens)
  BY <1>3, <1>4, ConcatProperties
<1>. QED  BY <1>4, <1>5 DEF Sizes, x, e

LEMMA SentTyped ==
  ASSUME NEW tk, NEW n, NEW m \in Nat, NEW v, Sent(tk, n, m, v)
  PROVE  v \in Seq(Tokens)
<1>1. PICK data \in Seq(Tokens) :
         \/ tk = "raw" /\ v = data
         \/ tk = "chunk" /\ m <= SizeMax /\ \E sz \in Sizes(m) : v = sz \o <<NewLine>> \o data \o <<NewLine>>
  BY DEF Sent
<1>2. CASE v = data
  BY <1>2
<1>3. CASE \E sz \in Sizes(m) : v = sz \o <<NewLine>> \o data \o <<NewLine>>
  <2>1. PICK sz \in Sizes(m) : v = sz \o <<NewLine>> \o data \o <<NewLine>>
    BY <1>3
  <2>. DEFINE x == <<NewLine>>
  <2>2. x \in Seq(Tokens) /\ sz \in Seq(Tokens)
    BY SizesTyped, FrameTokens
  <2>. HIDE DEF x
  <2>3. sz \o x \in Seq(Tokens)
    BY <2>2, ConcatProperties
  <2>4. sz \o x \o data \in Seq(Tokens)
    BY <2>3, ConcatProperties
  <2>5. sz \o x \o data \o x \in Seq(Tokens)
    BY <2>2, <2>4, ConcatProperties
  <2>. QED  BY <2>1, <2>5 DEF x
<1>. QED  BY <1>1, <1>2, <1>3

LEMMA ComingSent ==
  ASSUME NEW tk, NEW d, NEW c, NEW w, NEW n, Coming(tk, d, c, w, TRUE, n),
         NEW m \in Nat \ {0}, HdrMax > 3, NEW v, Sent(tk, n, m, v)
  PROVE  Coming(tk, d, c, w \o v, TRUE, n + m)
<1>0. w \in Seq(Tokens) /\ n \in Nat
  BY ComingIs
<1>1. PICK f : Flow(tk, d, c, w, f, n) /\ (tk = "chunk" => f = ChunkDecInit)
  BY DEF Coming
<1>2. PICK data \in Seq(Tokens) :
         /\ Plain(data, n, n + m) /\ Len(data) = m
         /\ \/ tk = "raw" /\ v = data
            \/ tk = "chunk" /\ m <= SizeMax /\ \E sz \in Sizes(m) : v = sz \o <<NewLine>> \o data \o <<NewLine>>
  BY DEF Sent
<1>3. CASE tk = "raw" /\ v = data
  <2>1. Plain(w, c, n) /\ f = d
    BY <1>1, <1>3 DEF Flow
  <2>2. Plain(w \o v, c, n + m)
    BY <1>2, <1>3, <2>1, PlainCat
  <2>. QED  BY <1>3, <2>1, <2>2 DEF Flow, Coming
<1>4. CASE tk = "chunk" /\ m <= SizeMax /\ \E sz \in Sizes(m) : v = sz \o <<NewLine>> \o data \o <<NewLine>>
  <2>1. Runs(d, c, w, ChunkDecInit, n) /\ m \in 1 .. SizeMax
    BY <1>1, <1>4, ChunkAssumption DEF Flow
  <2>2. PICK sz \in Sizes(m) : v = sz \o <<NewLine>> \o data \o <<NewLine>>
    BY <1>4
  <2>3. Runs(d, c, w \o sz \o <<NewLine>> \o data \o <<NewLine>>, ChunkDecInit, n + m)
    BY <1>2, <2>1, RunsChunk
  <2>4. w \o v = w \o sz \o <<NewLine>> \o data \o <<NewLine>>
    <3>. DEFINE x == <<NewLine>>
    <3>1. x \in Seq(Tokens) /\ sz \in Seq(Tokens)
      BY SizesTyped, FrameTokens
    <3>. HIDE DEF x
    <3>2. w \in Seq(Tokens)
      BY <1>0
    <3>. DEFINE y == sz \o x
    <3>3. w \o y = w \o sz \o x
      <4>1. x \in Seq(Tokens) /\ sz \in Seq(Tokens)
        BY <3>1
      <4>. QED  BY <3>2, <4>1, Joins, SMTT(30)
    <3>4. y \in Seq(Tokens)
      BY <3>1, ConcatProperties
    <3>. HIDE DEF y
    <3>. DEFINE z == y \o data
    <3>5. w \o z = w \o y \o data
      BY <3>2, <3>4, Joins
    <3>6. z \in Seq(Tokens)
      BY <3>4, ConcatProperties
    <3>. HIDE DEF z
    <3>7. w \o (z \o x) = w \o z \o x
      <4>1. x \in Seq(Tokens)
        BY <3>1
      <4>. QED  BY <3>2, <3>6, <4>1, Joins
    <3>8. v = z \o x
      BY <2>2 DEF x, y, z
    <3>9. w \o v = w \o sz \o x \o data \o x
      BY <3>3, <3>5, <3>7, <3>8
    <3>. QED  BY <3>9 DEF x
  <2>. QED  BY <1>4, <2>3, <2>4 DEF Flow, Coming
<1>. QED  BY <1>2, <1>3, <1>4

LEMMA LastTyped == ASSUME NEW v, LastChunk(v) PROVE v \in Seq(Tokens)
<1>1. PICK trailer \in {<<>>, <<Extension, NewLine>>} : v = <<Digit(0), NewLine>> \o trailer \o <<NewLine>>
  BY DEF LastChunk
<1>. DEFINE x == Digit(0)
            y == NewLine
            e == Extension
<1>2. x \in Tokens /\ y \in Tokens /\ e \in Tokens
  BY FrameTokens
<1>. HIDE DEF x, y, e
<1>3. <<x, y>> \in Seq(Tokens) /\ <<y>> \in Seq(Tokens) /\ <<e, y>> \in Seq(Tokens) /\ <<>> \in Seq(Tokens)
  BY <1>2
<1>4. trailer \in Seq(Tokens)
  BY <1>3 DEF e, y
<1>5. <<x, y>> \o trailer \in Seq(Tokens)
  BY <1>3, <1>4, ConcatProperties
<1>6. <<x, y>> \o trailer \o <<y>> \in Seq(Tokens)
  BY <1>3, <1>5, ConcatProperties
<1>. QED  BY <1>1, <1>6 DEF x, y

LEMMA ComingLast ==
  ASSUME NEW d, NEW c, NEW w, NEW n, Coming("chunk", d, c, w, TRUE, n), HdrMax > 3, NEW v, LastChunk(v)
  PROVE  Coming("chunk", d, c, w \o v, FALSE, n)
<1>0. w \in Seq(Tokens) /\ n \in Nat
  BY ComingIs
<1>1. Runs(d, c, w, ChunkDecInit, n)
  BY DEF Coming, Flow
<1>2. PICK trailer \in {<<>>, <<Extension, NewLine>>} : v = <<Digit(0), NewLine>> \o trailer \o <<NewLine>>
  BY DEF LastChunk
<1>3. Runs(d, c, w \o <<Digit(0), NewLine>> \o trailer \o <<NewLine>>, DonePart, n)
  BY <1>1, RunsEnd
<1>4. w \o v = w \o <<Digit(0), NewLine>> \o trailer \o <<NewLine>>
  <2>. DEFINE a == <<Digit(0), NewLine>>
              x == <<NewLine>>
              e == Extension
              y == NewLine
  <2>1. a \in Seq(Tokens) /\ x \in Seq(Tokens) /\ e \in Tokens /\ y \in Tokens
    BY FrameTokens
  <2>. HIDE DEF e, y
  <2>2. trailer \in Seq(Tokens)
    <3>1. <<>> \in Seq(Tokens) /\ <<e, y>> \in Seq(Tokens)
      BY <2>1
    <3>. QED  BY <3>1 DEF e, y
  <2>. HIDE DEF a, x
  <2>3. w \in Seq(Tokens) /\ a \in Seq(Tokens) /\ x \in Seq(Tokens)
    BY <1>0, <2>1
  <2>. DEFINE z == a \o trailer
  <2>4. w \o z = w \o a \o trailer
    <3>1. ASSUME NEW t \in Seq(Tokens) PROVE w \o (a \o t) = w \o a \o t
      <4>1. w \in Seq(Tokens) /\ a \in Seq(Tokens)
        BY <2>3
      <4>. QED  BY <4>1, Joins
    <3>. QED  BY <2>2, <3>1
  <2>5. z \in Seq(Tokens)
    BY <2>2, <2>3, ConcatProperties
  <2>. HIDE DEF z
  <2>6. w \o (z \o x) = w \o z \o x
    <3>1. w \in Seq(Tokens) /\ x \in Seq(Tokens)
      BY <2>3
    <3>. QED  BY <2>5, <3>1, Joins
  <2>7. v = z \o x
    BY <1>2 DEF a, x, z
  <2>8. w \o v = w \o a \o trailer \o x
    BY <2>4, <2>6, <2>7
  <2>. QED  BY <2>8 DEF a, x
<1>. QED  BY <1>3, <1>4 DEF Flow, Coming

-----------------------------------------------------------------------------
(* The answer under way.                                                    *)

V1   == {"v1", "v1strict"}
Ends == {"icy", "end"}   \* the last line of an answer
\* A line before it, or a byte behind it
Mild == {"st", "tbl", "hex", "nl", "other"} \cup (IF "v2chunk" \in Casters THEN {"chunk"} ELSE {})
Tame(s)   == s \in Seq(Tokens) /\ \A i \in 1 .. Len(s) : s[i].t \in Mild
OnWire(s) == s \in Seq(Tokens) /\ \A i \in 1 .. Len(s) : s[i].t \in Mild \cup Ends

\* The answer ends at w[j], and the payload behind it comes as it says.  (b has been
\* received before w, c is the caster.)
Behind(b, w, tk, p, n, c, j) ==
    /\ w[j].t \in Ends /\ \A i \in 1 .. Len(w) : w[i].t \in Ends => i = j
    /\ Coming(tk, ChunkDecInit, 0, After(w, j), p, n)
    /\ w[j].t = "icy" => c \in V1 /\ tk = "raw"
    /\ w[j].t = "end" =>
         /\ c \in {"v2raw", "v2chunk"} /\ (tk = "raw" => c = "v2raw")
         /\ tk = "chunk" => \/ \E i \in 1 .. Len(b) : b[i].t = "chunk"
                            \/ \E i \in 1 .. j : w[i].t = "chunk"
Awaited(b, w, tk, p, n, c) ==
    \/ tk \in {"none", "header"} /\ \A i \in 1 .. Len(w) : w[i].t \notin Ends
    \/ \E j \in 1 .. Len(w) : Behind(b, w, tk, p, n, c, j)

\* What has been received and what comes now
LEMMA Together ==
  ASSUME NEW b \in Seq(Tokens), NEW w \in Seq(Tokens), NEW k \in 0 .. Len(w)
  PROVE  LET x == b \o First(w, k) IN
         /\ x \in Seq(Tokens) /\ Len(x) = Len(b) + k /\ Len(b) \in Nat /\ Len(w) \in Nat
         /\ \A i \in 1 .. Len(b) : x[i] = b[i]
         /\ \A i \in 1 .. k : x[Len(b) + i] = w[i]
         /\ \A i \in 1 .. Len(b) + k : i \notin 1 .. Len(b) => i - Len(b) \in 1 .. k /\ x[i] = w[i - Len(b)]
<1>. DEFINE v == First(w, k)
            x == b \o v
<1>1. v \in Seq(Tokens) /\ Len(v) = k /\ (\A i \in 1 .. k : v[i] = w[i]) /\ Len(b) \in Nat /\ Len(w) \in Nat
  BY FirstIs, LenProperties
<1>. HIDE DEF v
<1>2. /\ x \in Seq(Tokens) /\ Len(x) = Len(b) + k
      /\ \A i \in 1 .. Len(b) + k : x[i] = IF i <= Len(b) THEN b[i] ELSE v[i - Len(b)]
  BY <1>1, ConcatProperties
<1>. HIDE DEF x
<1>3. \A i \in 1 .. Len(b) : x[i] = b[i]
  BY <1>1, <1>2
<1>4. ASSUME NEW i \in 1 .. Len(b) + k, i \notin 1 .. Len(b)
      PROVE  i - Len(b) \in 1 .. k /\ x[i] = w[i - Len(b)]
  <2>1. i - Len(b) \in 1 .. k /\ x[i] = v[i - Len(b)]
    BY <1>1, <1>2, <1>4
  <2>. QED  BY <1>1, <2>1
<1>5. ASSUME NEW i \in 1 .. k PROVE x[Len(b) + i] = w[i]
  <2>. DEFINE z == Len(b) + i
  <2>1. z \in 1 .. Len(b) + k /\ z \notin 1 .. Len(b) /\ z - Len(b) = i
    BY <1>1
  <2>. HIDE DEF z
  <2>2. x[z] = w[i]
    BY <1>4, <2>1
  <2>. QED  BY <2>2 DEF z
<1>6. /\ x \in Seq(Tokens) /\ Len(x) = Len(b) + k /\ Len(b) \in Nat /\ Len(w) \in Nat
      /\ \A i \in 1 .. Len(b) : x[i] = b[i]
      /\ \A i \in 1 .. k : x[Len(b) + i] = w[i]
      /\ \A i \in 1 .. Len(b) + k : i \notin 1 .. Len(b) => i - Len(b) \in 1 .. k /\ x[i] = w[i - Len(b)]
  BY <1>1, <1>2, <1>3, <1>4, <1>5
<1>. QED  BY <1>6 DEF x, v

\* Cutting twice
LEMMA CutTwice ==
  ASSUME NEW w \in Seq(Tokens), NEW j \in 0 .. Len(w), NEW k \in j .. Len(w)
  PROVE  /\ After(First(w, k), j) = First(After(w, j), k - j)
         /\ After(After(w, j), k - j) = After(w, k)
         /\ k - j \in 0 .. Len(After(w, j)) /\ k \in 0 .. Len(w)
<1>. DEFINE l == Len(w)
            u == First(w, k)
            v == After(w, j)
            y == After(w, k)
<1>0. l \in Nat /\ k \in 0 .. l /\ j \in 0 .. l /\ k - j \in Nat
  BY LenProperties
<1>1. /\ u \in Seq(Tokens) /\ Len(u) = k /\ \A i \in 1 .. k : u[i] = w[i]
      /\ v \in Seq(Tokens) /\ Len(v) = l - j /\ \A i \in 1 .. l - j : v[i] = w[j + i]
      /\ y \in Seq(Tokens) /\ Len(y) = l - k /\ \A i \in 1 .. l - k : y[i] = w[k + i]
  BY <1>0, FirstIs, AfterIs
<1>. HIDE DEF l, u, v, y
<1>2. j \in 0 .. Len(u) /\ k - j \in 0 .. Len(v)
  BY <1>0, <1>1
<1>. DEFINE p == After(u, j)
            q == First(v, k - j)
            r == After(v, k - j)
<1>3. /\ p \in Seq(Tokens) /\ Len(p) = k - j /\ \A i \in 1 .. k - j : p[i] = u[j + i]
      /\ q \in Seq(Tokens) /\ Len(q) = k - j /\ \A i \in 1 .. k - j : q[i] = v[i]
      /\ r \in Seq(Tokens) /\ Len(r) = l - j - (k - j) /\ \A i \in 1 .. l - j - (k - j) : r[i] = v[(k - j) + i]
  <2>. DEFINE g == k - j
  <2>1. g \in 0 .. Len(v)
    BY <1>2
  <2>0. u \in Seq(Tokens) /\ v \in Seq(Tokens) /\ j \in 0 .. Len(u)
    BY <1>1, <1>2
  <2>. HIDE DEF g
  <2>2. /\ First(v, g) \in Seq(Tokens) /\ Len(First(v, g)) = g /\ \A i \in 1 .. g : First(v, g)[i] = v[i]
        /\ After(v, g) \in Seq(Tokens) /\ Len(After(v, g)) = Len(v) - g
        /\ \A i \in 1 .. Len(v) - g : After(v, g)[i] = v[g + i]
    BY <2>0, <2>1, FirstIs, AfterIs
  <2>3. /\ After(u, j) \in Seq(Tokens) /\ Len(After(u, j)) = Len(u) - j
        /\ \A i \in 1 .. Len(u) - j : After(u, j)[i] = u[j + i]
    BY <2>0, AfterIs
  <2>4. p = After(u, j) /\ q = First(v, g) /\ r = After(v, g)
    BY DEF g
  <2>. HIDE DEF p, q, r
  <2>5. g = k - j
    BY DEF g
  <2>. QED  BY <1>1, <2>2, <2>3, <2>4, <2>5
<1>. HIDE DEF p, q, r
<1>4. ASSUME NEW i \in 1 .. k - j PROVE p[i] = q[i]
  <2>. DEFINE z == j + i
  <2>1. z \in 1 .. k /\ i \in 1 .. l - j
    BY <1>0
  <2>2. p[i] = u[z]
    BY <1>1, <1>3
  <2>3. q[i] = v[i]
    BY <1>3
  <2>4. v[i] = w[z]
    BY <1>1, <2>1
  <2>. HIDE DEF z
  <2>5. u[z] = w[z]
    BY <1>1, <2>1
  <2>. QED  BY <2>2, <2>3, <2>4, <2>5
<1>5. ASSUME NEW i \in 1 .. l - k PROVE r[i] = y[i]
  <2>. DEFINE z == (k - j) + i
  <2>1. z \in 1 .. l - j /\ i \in 1 .. l - j - (k - j) /\ j + z = k + i
    BY <1>0
  <2>2. r[i] = v[z]
    BY <1>3, <2>1
  <2>. HIDE DEF z
  <2>3. v[z] = w[k + i]
    BY <1>1, <2>1
  <2>. QED  BY <1>1, <2>2, <2>3
<1>6. p = q
  BY <1>3, <1>4, SeqEqual
<1>7. r = y
  <2>1. Len(r) = l - k /\ Len(y) = l - k
    BY <1>0, <1>1, <1>3
  <2>. QED  BY <1>1, <1>3, <1>5, <2>1, SeqEqual
<1>. QED  BY <1>0, <1>2, <1>6, <1>7 DEF l, u, v, y, p, q, r

\* What is received behind the end of the answer is payload.
LEMMA EndRead ==
  ASSUME NEW b \in Seq(Tokens), NEW w \in Seq(Tokens), NEW tk, NEW p, NEW n, NEW c,
         NEW j \in 1 .. Len(w), Behind(b, w, tk, p, n, c, j), NEW k \in j .. Len(w)
  PROVE  \E f, m : /\ Flow(tk, ChunkDecInit, 0, After(b \o First(w, k), Len(b) + j), f, m)
                   /\ Coming(tk, f, m, After(w, k), p, n)
<1>. DEFINE v == First(w, k)
            x == b \o v
            u == After(w, j)
<1>0. Len(w) \in Nat /\ j \in 0 .. Len(w) /\ k \in 0 .. Len(w) /\ j \in 0 .. k /\ Len(b) \in Nat
  BY LenProperties
<1>1. After(v, j) = First(u, k - j) /\ After(u, k - j) = After(w, k) /\ k - j \in 0 .. Len(u)
  BY <1>0, CutTwice
<1>2. PICK f, m : Flow(tk, ChunkDecInit, 0, First(u, k - j), f, m) /\ Coming(tk, f, m, After(u, k - j), p, n)
  <2>. HIDE DEF u
  <2>1. Coming(tk, ChunkDecInit, 0, u, p, n)
    BY DEF Behind, u
  <2>. QED  BY <1>1, <2>1, ComingCut
<1>3. After(x, Len(b) + j) = After(v, j)
  <2>1. v \in Seq(Tokens) /\ Len(v) = k
    BY <1>0, FirstIs
  <2>2. x \in Seq(Tokens) /\ Len(x) = Len(b) + k /\ After(x, Len(b)) = v
    <3>. HIDE DEF v
    <3>1. Len(b) \in 0 .. Len(b)
      BY <1>0
    <3>. QED  BY <2>1, <3>1, ConcatProperties, AfterJoin
  <2>. HIDE DEF x, v
  <2>. DEFINE h == Len(b)
              g == h + j
  <2>3. h \in 0 .. Len(x) /\ g \in h .. Len(x) /\ g - h = j
    BY <1>0, <2>2
  <2>. HIDE DEF h, g
  <2>4. After(After(x, h), g - h) = After(x, g)
    BY <2>2, <2>3, CutTwice
  <2>. QED  BY <2>2, <2>3, <2>4 DEF h, g
<1>. QED  BY <1>1, <1>2, <1>3

\* A part of the answer is received.
LEMMA PartRead ==
  ASSUME NEW b \in Seq(Tokens), NEW w \in Seq(Tokens), NEW tk, NEW p, NEW n, NEW c,
         Awaited(b, w, tk, p, n, c), NEW k \in 0 .. Len(w), \A i \in 1 .. k : w[i].t \notin Ends
  PROVE  Awaited(b \o First(w, k), After(w, k), tk, p, n, c)
<1>. DEFINE x == b \o First(w, k)
            v == After(w, k)
            l == Len(w)
<1>1. /\ l \in Nat /\ Len(b) \in Nat /\ v \in Seq(Tokens) /\ Len(v) = l - k
      /\ \A i \in 1 .. l - k : v[i] = w[k + i]
  BY AfterIs, LenProperties
<1>2. /\ x \in Seq(Tokens) /\ Len(x) = Len(b) + k
      /\ \A i \in 1 .. Len(b) : x[i] = b[i]
      /\ \A i \in 1 .. k : x[Len(b) + i] = w[i]
  BY Together
<1>3. CASE tk \in {"none", "header"} /\ \A i \in 1 .. Len(w) : w[i].t \notin Ends
  <2>. HIDE DEF x, v
  <2>1. ASSUME NEW i \in 1 .. Len(v) PROVE v[i].t \notin Ends
    <3>1. i \in 1 .. l - k /\ k + i \in 1 .. l
      BY <1>1
    <3>. QED  BY <1>1, <1>3, <3>1
  <2>2. Awaited(x, v, tk, p, n, c)
    BY <1>3, <2>1 DEF Awaited
  <2>. QED  BY <2>2 DEF x, v
<1>4. CASE \E j \in 1 .. Len(w) : Behind(b, w, tk, p, n, c, j)
  <2>1. PICK j \in 1 .. Len(w) : Behind(b, w, tk, p, n, c, j)
    BY <1>4
  <2>. DEFINE h == j - k
  <2>2. ~(j <= k)
    BY <1>1, <2>1 DEF Behind
  <2>3. h \in 1 .. l - k /\ k + h = j /\ j \in k .. l /\ h \in 1 .. Len(v)
    BY <1>1, <2>2
  <2>4. v[h] = w[j]
    BY <1>1, <2>3
  <2>5. ASSUME NEW i \in 1 .. Len(v), v[i].t \in Ends PROVE i = h
    <3>1. k + i \in 1 .. Len(w) /\ v[i] = w[k + i]
      BY <1>1
    <3>2. k + i = j
      BY <2>1, <2>5, <3>1 DEF Behind
    <3>. QED  BY <1>1, <3>2
  <2>6. After(v, h) = After(w, j)
    BY <2>3, CutTwice
  <2>. HIDE DEF x, v, h, l
  <2>7. Coming(tk, ChunkDecInit, 0, After(v, h), p, n)
    BY <2>1, <2>6 DEF Behind
  <2>8. (\E i \in 1 .. Len(b) : b[i].t = "chunk") \/ (\E i \in 1 .. j : w[i].t = "chunk")
        => (\E i \in 1 .. Len(x) : x[i].t = "chunk") \/ (\E i \in 1 .. h : v[i].t = "chunk")
    <3>1. ASSUME NEW i \in 1 .. Len(b), b[i].t = "chunk" PROVE \E g \in 1 .. Len(x) : x[g].t = "chunk"
      <4>1. i \in 1 .. Len(x)
        BY <1>1, <1>2
      <4>. QED  BY <1>2, <3>1, <4>1
    <3>2. ASSUME NEW i \in 1 .. j, w[i].t = "chunk", i <= k PROVE \E g \in 1 .. Len(x) : x[g].t = "chunk"
      <4>1. Len(b) + i \in 1 .. Len(x) /\ i \in 1 .. k
        BY <1>1, <1>2, <3>2
      <4>. QED  BY <1>2, <3>2, <4>1
    <3>3. ASSUME NEW i \in 1 .. j, w[i].t = "chunk", ~(i <= k) PROVE \E g \in 1 .. h : v[g].t = "chunk"
      <4>. DEFINE g == i - k
      <4>1. g \in 1 .. h /\ g \in 1 .. l - k /\ k + g = i
        BY <1>1, <2>3, <3>3
      <4>. HIDE DEF g
      <4>. QED  BY <1>1, <3>3, <4>1
    <3>. QED  BY <3>1, <3>2, <3>3
  <2>9. Behind(x, v, tk, p, n, c, h)
    BY <2>1, <2>4, <2>5, <2>7, <2>8 DEF Behind
  <2>10. Awaited(x, v, tk, p, n, c)
    BY <2>3, <2>9 DEF Awaited
  <2>. QED  BY <2>10 DEF x, v
<1>. QED  BY <1>3, <1>4 DEF Awaited

\* The caster sends v, or closes the connection.
LEMMA AwaitedMore ==
  ASSUME NEW b \in Seq(Tokens), NEW w \in Seq(Tokens), NEW tk, NEW p, NEW n, NEW c,
         Awaited(b, w, tk, p, n, c), tk \in {"raw", "chunk"}, NEW v \in Seq(Tokens),
         \A i \in 1 .. Len(v) : v[i].t \notin Ends, NEW q, NEW m,
         \A d, e : \A s \in Seq(Tokens) : Coming(tk, d, e, s, p, n) => Coming(tk, d, e, s \o v, q, m)
  PROVE  Awaited(b, w \o v, tk, q, m, c)
<1>. DEFINE y == w \o v
<1>1. PICK j \in 1 .. Len(w) : Behind(b, w, tk, p, n, c, j)
  BY DEF Awaited
<1>2. /\ y \in Seq(Tokens) /\ Len(y) = Len(w) + Len(v) /\ Len(w) \in Nat /\ Len(v) \in Nat
      /\ \A i \in 1 .. Len(w) + Len(v) : y[i] = IF i <= Len(w) THEN w[i] ELSE v[i - Len(w)]
  BY ConcatProperties, LenProperties
<1>3. j \in 0 .. Len(w) /\ j \in 1 .. Len(y) /\ After(w, j) \o v = After(y, j) /\ After(w, j) \in Seq(Tokens)
  <2>1. j \in 0 .. Len(w) /\ j \in 1 .. Len(y)
    BY <1>2
  <2>. QED  BY <2>1, AfterJoin, AfterIs
<1>. HIDE DEF y
<1>4. ASSUME NEW i \in 1 .. j PROVE y[i] = w[i]
  <2>1. i \in 1 .. Len(w) + Len(v) /\ i <= Len(w)
    BY <1>2
  <2>. QED  BY <1>2, <2>1
<1>5. ASSUME NEW i \in 1 .. Len(y), y[i].t \in Ends PROVE i = j
  <2>1. CASE i <= Len(w)
    <3>1. i \in 1 .. Len(w) /\ y[i] = w[i]
      BY <1>2, <2>1
    <3>. QED  BY <1>1, <1>5, <3>1 DEF Behind
  <2>2. CASE ~(i <= Len(w))
    <3>1. i - Len(w) \in 1 .. Len(v) /\ y[i] = v[i - Len(w)]
      BY <1>2, <2>2
    <3>. QED  BY <1>5, <3>1
  <2>. QED  BY <2>1, <2>2
<1>6. Coming(tk, ChunkDecInit, 0, After(y, j), q, m)
  <2>1. Coming(tk, ChunkDecInit, 0, After(w, j), p, n)
    BY <1>1 DEF Behind
  <2>. QED  BY <1>3, <2>1
<1>7. y[j] = w[j]
  <2>1. j \in 1 .. j
    OBVIOUS
  <2>. QED  BY <1>4, <2>1
<1>8. Behind(b, y, tk, q, m, c, j)
  BY <1>1, <1>4, <1>5, <1>6, <1>7 DEF Behind
<1>9. Awaited(b, y, tk, q, m, c)
  BY <1>3, <1>8 DEF Awaited
<1>. QED  BY <1>9 DEF y

LEMMA AwaitedClose ==
  ASSUME NEW b, NEW w, NEW tk, NEW p, NEW n, NEW c, Awaited(b, w, tk, p, n, c)
  PROVE  Awaited(b, w, tk, FALSE, n, c)
<1>1. CASE tk \in {"none", "header"} /\ \A i \in 1 .. Len(w) : w[i].t \notin Ends
  BY <1>1, Zenon DEF Awaited
<1>2. ASSUME NEW j \in 1 .. Len(w), Behind(b, w, tk, p, n, c, j) PROVE Awaited(b, w, tk, FALSE, n, c)
  <2>1. Coming(tk, ChunkDecInit, 0, After(w, j), FALSE, n)
    BY <1>2, ComingClose, Zenon DEF Behind
  <2>2. Behind(b, w, tk, FALSE, n, c, j)
    BY <1>2, <2>1, Zenon DEF Behind
  <2>. QED  BY <2>2, Zenon DEF Awaited
<1>. QED  BY <1>1, <1>2, Zenon DEF Awaited

-----------------------------------------------------------------------------
(* The inductive invariant of the client.                                   *)

Got(g) == [i \in 1 .. g |-> i]

CliTypes ==
    /\ pc \in {"idle", "request", "response", "body"} /\ state \in 0 .. 2
    /\ link \in BOOLEAN /\ peer \in BOOLEAN /\ chunked \in BOOLEAN /\ http \in BOOLEAN
    /\ verNeg \in 0 .. 2 /\ v2Tried \in 0 .. 2 /\ asked \in 0 .. 2
    /\ Tame(buff) /\ Len(buff) < MaxRsp /\ OnWire(wire)
    /\ dec \in Decoders /\ ("v2chunk" \notin Casters => chunked = FALSE)
    /\ calm \in BOOLEAN /\ caster \in Casters /\ talk \in {"none", "header", "raw", "chunk"}
    /\ sent \in 0 .. NPay /\ \E g \in 0 .. sent : got = Got(g)

\* What has been received and what comes is what is still to deliver.
Receiving ==
    /\ verNeg = IF caster \in V1 THEN 1 ELSE 2
    /\ (talk = "raw" => chunked = FALSE) /\ (talk = "chunk" => chunked = TRUE)
    /\ \E f, n : Flow(talk, dec, Len(got), buff, f, n) /\ Coming(talk, f, n, wire, peer, sent)

Connected ==
    /\ pc = "response" => link /\ state = 1
    /\ pc = "body" => link /\ state = 2
    /\ link /\ asked # 0 => state = 1 /\ wire = <<>> /\ talk = "none" /\ sent = 0
    /\ link /\ state = 1 => got = <<>> /\ Awaited(buff, wire, talk, peer, sent, caster)
    /\ link /\ state = 2 => Receiving

CliStrong == CliTypes /\ Connected

LEMMA GotIs ==
  ASSUME NEW g \in Nat
  PROVE  /\ Len(Got(g)) = g /\ DOMAIN Got(g) = 1 .. g
         /\ \A n \in Nat : g <= n => Got(g) \in Seq(0 .. n)
         /\ Got(0) = <<>>
<1>1. Got(g) \in Seq(Nat) /\ Len(Got(g)) = g /\ DOMAIN Got(g) = 1 .. g
  BY DEF Got
<1>2. ASSUME NEW n \in Nat, g <= n PROVE Got(g) \in Seq(0 .. n)
  <2>1. \A i \in 1 .. g : i \in 0 .. n
    BY <1>2
  <2>2. Got(g) \in [1 .. g -> 0 .. n]
    BY <2>1 DEF Got
  <2>. QED  BY <2>2
<1>3. Got(0) = <<>>
  <2>1. Got(0) \in Seq(Nat) /\ Len(Got(0)) = 0
    BY DEF Got
  <2>. QED  BY <2>1, EmptySeq
<1>. QED  BY <1>1, <1>2, <1>3

LEMMA Nowhere == <<>> \in Seq(Tokens) /\ Len(<<>>) = 0 /\ Tame(<<>>) /\ OnWire(<<>>)
<1>1. <<>> \in Seq(Tokens) /\ Len(<<>>) = 0
  OBVIOUS
<1>2. \A i \in 1 .. 0 : FALSE
  OBVIOUS
<1>. QED  BY <1>1, <1>2 DEF Tame, OnWire

LEMMA InitDecoder == ChunkDecInit \in DecState /\ ChunkDecInit \in Decoders
<1>1. 0 \in 0 .. HdrMax - 1
  BY ChunkAssumption
<1>2. ChunkDecInit \in DecState
  BY <1>1, PartsTyped, InitIs
<1>. QED  BY <1>2 DEF DecState

LEMMA CliStrongInit == ASSUME Init PROVE CliStrong
<1>1. 0 \in Nat /\ NPay \in Nat /\ 0 \in 0 .. NPay /\ 0 \in 0 .. 0 /\ 0 < MaxRsp
  BY NtripAssumption
<1>2. CliTypes
  <2>1. got = Got(0)
    BY <1>1, GotIs DEF Init
  <2>2. Tame(buff) /\ OnWire(wire) /\ Len(buff) < MaxRsp
    BY <1>1, Nowhere DEF Init
  <2>3. dec \in Decoders
    BY InitDecoder DEF Init
  <2>4. sent \in 0 .. NPay /\ \E g \in 0 .. sent : got = Got(g)
    BY <1>1, <2>1 DEF Init
  <2>5. /\ pc = "idle" /\ state \in 0 .. 2 /\ verNeg \in 0 .. 2 /\ v2Tried \in 0 .. 2 /\ asked \in 0 .. 2
        /\ talk = "none" /\ caster \in Casters
    BY DEF Init
  <2>6. link = FALSE /\ peer = FALSE /\ chunked = FALSE /\ http = FALSE /\ calm = FALSE
    BY DEF Init
  <2>. QED  BY <2>2, <2>3, <2>4, <2>5, <2>6 DEF CliTypes
<1>3. Connected
  BY DEF Connected, Init
<1>. QED  BY <1>2, <1>3 DEF CliStrong

\* What the client leaves alone of a connection
LEMMA ReceivingKept ==
  ASSUME Receiving, UNCHANGED <<verNeg, caster, talk, chunked, dec, got, buff, wire, peer, sent>>
  PROVE  Receiving'
BY DEF Receiving

LEMMA CallKept == ASSUME CliStrong, Call PROVE CliStrong'
<1>1. CliTypes'
  BY DEF CliStrong, CliTypes, Call, far
<1>2. Connected'
  <2>1. UNCHANGED <<link, asked, wire, talk, sent, got, buff, peer, caster, verNeg, chunked, dec>>
    BY DEF Call, far
  <2>2. link => state' = state
    BY DEF Call
  <2>3. ~link => pc' = "request"
    BY DEF Call
  <2>4. pc' = "response" => state' = 1 /\ link
    BY <2>3 DEF Call, CliStrong, CliTypes
  <2>5. pc' = "body" => state' = 2 /\ link
    BY <2>3 DEF Call, CliStrong, CliTypes
  <2>6. link /\ state' = 2 => Receiving'
    BY <2>1, <2>2, ReceivingKept DEF CliStrong, Connected
  <2>. QED  BY <2>1, <2>2, <2>4, <2>5, <2>6 DEF CliStrong, Connected
<1>. QED  BY <1>1, <1>2 DEF CliStrong

LEMMA RequestKept == ASSUME CliStrong, Request PROVE CliStrong'
<1>1. 0 \in Nat /\ NPay \in Nat /\ 0 \in 0 .. NPay /\ 0 \in 0 .. 0
  BY NtripAssumption
<1>2. CliTypes'
  <2>1. got' = Got(0)
    BY <1>1, GotIs DEF Request
  <2>2. asked' \in 0 .. 2 /\ v2Tried' \in 0 .. 2
    BY DEF Request, CliStrong, CliTypes
  <2>. QED  BY <1>1, <2>1, <2>2, Nowhere DEF CliStrong, CliTypes, Request
<1>3. Connected'
  <2>1. Awaited(buff', wire', talk', peer', sent', caster')
    <3>1. \A i \in 1 .. Len(wire') : FALSE
      BY DEF Request
    <3>2. talk' = "none"
      BY DEF Request
    <3>. QED  BY <3>1, <3>2 DEF Awaited
  <2>2. state' = 1 /\ link' /\ got' = <<>> /\ pc' = "response" /\ talk' = "none" /\ wire' = <<>> /\ sent' = 0
    BY DEF Request
  <2>. QED  BY <2>1, <2>2 DEF Connected
<1>. QED  BY <1>2, <1>3 DEF CliStrong

LEMMA RequestFailsKept == ASSUME CliStrong, RequestFails PROVE CliStrong'
<1>1. CliTypes'
  BY DEF CliStrong, CliTypes, RequestFails, far
<1>2. Connected'
  <2>1. link /\ state = 2 => Receiving'
    BY ReceivingKept DEF CliStrong, Connected, RequestFails, far
  <2>. QED  BY <2>1 DEF CliStrong, Connected, RequestFails, far
<1>. QED  BY <1>1, <1>2 DEF CliStrong

LEMMA NothingKept == ASSUME CliStrong, Nothing PROVE CliStrong'
<1>1. CliTypes'
  BY DEF CliStrong, CliTypes, Nothing, far
<1>2. Connected'
  <2>1. link /\ state = 2 => Receiving'
    BY ReceivingKept DEF CliStrong, Connected, Nothing, far
  <2>. QED  BY <2>1 DEF CliStrong, Connected, Nothing, far
<1>. QED  BY <1>1, <1>2 DEF CliStrong

\* The connection is lost.
LEMMA LostKept ==
  ASSUME CliStrong, Discon, pc' = "idle", UNCHANGED <<state, buff, verNeg, v2Tried, chunked, dec, got, http>>
  PROVE  CliStrong'
<1>1. CliTypes'
  <2>1. OnWire(wire')
    BY Nowhere DEF Discon
  <2>2. link' \in BOOLEAN /\ peer' \in BOOLEAN
    BY DEF Discon
  <2>3. asked' \in 0 .. 2
    BY DEF Discon
  <2>4. talk' = "none"
    BY DEF Discon
  <2>5. UNCHANGED <<calm, caster, sent>>
    BY DEF Discon
  <2>. QED  BY <2>1, <2>2, <2>3, <2>4, <2>5 DEF CliStrong, CliTypes
<1>2. Connected'
  BY DEF Connected, Discon
<1>. QED  BY <1>1, <1>2 DEF CliStrong

\* No two casters at the address serve version 2 in different codings.
OneCoding == ~({"v2raw", "v2chunk"} \subseteq Casters)

\* The buffer of a response that is being read
LEMMA BufferIs ==
  ASSUME CliStrong, NEW k \in 1 .. Len(wire), k <= Space
  PROVE  LET x == buff \o First(wire, k) IN
         /\ buff \in Seq(Tokens) /\ wire \in Seq(Tokens) /\ x \in Seq(Tokens) /\ k \in 0 .. Len(wire)
         /\ Len(x) = Len(buff) + k /\ Len(buff) \in Nat /\ Len(x) < MaxRsp /\ DOMAIN x = 1 .. Len(x)
         /\ \A i \in 1 .. Len(buff) : x[i] = buff[i]
         /\ \A i \in 1 .. k : x[Len(buff) + i] = wire[i]
         /\ \A i \in 1 .. Len(x) : x[i].t \in Ends =>
               i - Len(buff) \in 1 .. k /\ x[i] = wire[i - Len(buff)]
         /\ \A i \in 1 .. Len(x) : x[i].t \in Mild \cup Ends
         /\ OnWire(After(wire, k))
<1>. DEFINE x == buff \o First(wire, k)
            h == Len(buff)
<1>1. /\ buff \in Seq(Tokens) /\ wire \in Seq(Tokens) /\ k \in 0 .. Len(wire)
      /\ \A i \in 1 .. Len(buff) : buff[i].t \in Mild
      /\ \A i \in 1 .. Len(wire) : wire[i].t \in Mild \cup Ends
      /\ Len(buff) < MaxRsp
  BY LenProperties DEF CliStrong, CliTypes, Tame, OnWire
<1>2. /\ x \in Seq(Tokens) /\ Len(x) = h + k /\ h \in Nat /\ Len(wire) \in Nat
      /\ \A i \in 1 .. h : x[i] = buff[i]
      /\ \A i \in 1 .. k : x[h + i] = wire[i]
      /\ \A i \in 1 .. h + k : i \notin 1 .. h => i - h \in 1 .. k /\ x[i] = wire[i - h]
  BY <1>1, Together
<1>3. DOMAIN x = 1 .. Len(x)
  BY <1>2, LenProperties
<1>. HIDE DEF x
<1>4. Len(x) < MaxRsp
  BY <1>1, <1>2, NtripAssumption DEF Space
<1>5. \A i \in 1 .. h : buff[i].t \notin Ends
  BY <1>1 DEF Mild, Ends
<1>6. ASSUME NEW i \in 1 .. Len(x)
      PROVE  /\ x[i].t \in Ends => i - h \in 1 .. k /\ x[i] = wire[i - h]
             /\ x[i].t \in Mild \cup Ends
  <2>1. CASE i \in 1 .. h
    <3>1. x[i] = buff[i]
      BY <1>2, <2>1
    <3>. QED  BY <1>1, <1>5, <2>1, <3>1
  <2>2. CASE i \notin 1 .. h
    <3>1. i - h \in 1 .. k /\ x[i] = wire[i - h]
      BY <1>2, <2>2
    <3>2. i - h \in 1 .. Len(wire)
      BY <1>1, <1>2, <3>1
    <3>. QED  BY <1>1, <3>1, <3>2
  <2>. QED  BY <2>1, <2>2
<1>7. OnWire(After(wire, k))
  <2>. DEFINE v == After(wire, k)
  <2>1. v \in Seq(Tokens) /\ Len(v) = Len(wire) - k /\ \A i \in 1 .. Len(wire) - k : v[i] = wire[k + i]
    BY <1>1, AfterIs
  <2>. HIDE DEF v
  <2>2. ASSUME NEW i \in 1 .. Len(v) PROVE v[i].t \in Mild \cup Ends
    <3>1. k + i \in 1 .. Len(wire) /\ i \in 1 .. Len(wire) - k
      BY <1>2, <2>1
    <3>. QED  BY <1>1, <2>1, <3>1
  <2>3. OnWire(v)
    BY <2>1, <2>2 DEF OnWire
  <2>. QED  BY <2>3 DEF v
<1>8. /\ buff \in Seq(Tokens) /\ wire \in Seq(Tokens) /\ x \in Seq(Tokens) /\ k \in 0 .. Len(wire)
      /\ Len(x) = Len(buff) + k /\ Len(buff) \in Nat /\ Len(x) < MaxRsp /\ DOMAIN x = 1 .. Len(x)
      /\ \A i \in 1 .. Len(buff) : x[i] = buff[i]
      /\ \A i \in 1 .. k : x[Len(buff) + i] = wire[i]
      /\ \A i \in 1 .. Len(x) : x[i].t \in Ends =>
            i - Len(buff) \in 1 .. k /\ x[i] = wire[i - Len(buff)]
      /\ \A i \in 1 .. Len(x) : x[i].t \in Mild \cup Ends
      /\ OnWire(After(wire, k))
  BY <1>1, <1>2, <1>3, <1>4, <1>6, <1>7
<1>. QED  BY <1>8 DEF x

\* Its end is the end of the answer, if it is there.
LEMMA EndIs ==
  ASSUME CliStrong, pc = "response", NEW k \in 1 .. Len(wire), k <= Space,
         NEW i \in 1 .. Len(buff \o First(wire, k)), (buff \o First(wire, k))[i].t \in Ends
  PROVE  \E j \in 1 .. k :
            /\ i = Len(buff) + j /\ j \in 1 .. Len(wire) /\ (buff \o First(wire, k))[i] = wire[j]
            /\ Behind(buff, wire, talk, peer, sent, caster, j)
            /\ \A n \in 1 .. Len(buff \o First(wire, k)) : (buff \o First(wire, k))[n].t \in Ends => n = i
<1>. DEFINE x == buff \o First(wire, k)
            j == i - Len(buff)
<1>1. /\ Len(x) = Len(buff) + k /\ Len(buff) \in Nat /\ k \in 0 .. Len(wire) /\ Len(wire) \in Nat
      /\ \A n \in 1 .. Len(x) : x[n].t \in Ends =>
            n - Len(buff) \in 1 .. k /\ x[n] = wire[n - Len(buff)]
  BY BufferIs, LenProperties
<1>. HIDE DEF x
<1>2. j \in 1 .. k /\ x[i] = wire[j] /\ j \in 1 .. Len(wire) /\ i = Len(buff) + j
  BY <1>1 DEF x
<1>3. wire[j].t \in Ends
  BY <1>2 DEF x
<1>4. Awaited(buff, wire, talk, peer, sent, caster)
  BY DEF CliStrong, Connected
<1>5. PICK g \in 1 .. Len(wire) : Behind(buff, wire, talk, peer, sent, caster, g)
  BY <1>2, <1>3, <1>4 DEF Awaited
<1>6. j = g
  BY <1>2, <1>3, <1>5 DEF Behind
<1>7. ASSUME NEW n \in 1 .. Len(x), x[n].t \in Ends PROVE n = i
  <2>1. n - Len(buff) \in 1 .. Len(wire) /\ wire[n - Len(buff)].t \in Ends
    BY <1>1, <1>7
  <2>2. n - Len(buff) = g
    BY <1>5, <2>1 DEF Behind
  <2>. QED  BY <1>1, <1>6, <2>2
<1>. HIDE DEF j
<1>8. Behind(buff, wire, talk, peer, sent, caster, j)
  BY <1>5, <1>6
<1>. QED  BY <1>2, <1>7, <1>8 DEF x

\* An answer without a terminator is put by.
LEMMA HeaderPartKept ==
  ASSUME CliStrong, pc = "response", NEW k \in 1 .. Len(wire), k <= Space,
         HeaderPart(buff \o First(wire, k)), wire' = After(wire, k),
         UNCHANGED <<link, calm, caster, peer, asked, talk, sent>>
  PROVE  CliStrong'
<1>. DEFINE x == buff \o First(wire, k)
<1>1. /\ buff \in Seq(Tokens) /\ wire \in Seq(Tokens) /\ x \in Seq(Tokens) /\ k \in 0 .. Len(wire)
      /\ Len(x) = Len(buff) + k /\ Len(buff) \in Nat /\ Len(x) < MaxRsp /\ DOMAIN x = 1 .. Len(x)
      /\ \A i \in 1 .. k : x[Len(buff) + i] = wire[i]
      /\ \A i \in 1 .. Len(x) : x[i].t \in Mild \cup Ends
      /\ OnWire(After(wire, k))
  BY BufferIs
<1>2. \A i \in 1 .. Len(x) : x[i].t \in Ends => \A n \in 1 .. Len(x) : x[n].t \in Ends => n = i
  BY EndIs
<1>. HIDE DEF x
<1>3. Lines(x, "icy") = {} /\ HeaderEnd(x) = 0 /\ buff' = x
  BY DEF HeaderPart, x
<1>4. Lines(x, "end") = {}
  <2>. SUFFICES ASSUME NEW i \in Lines(x, "end") PROVE FALSE
    OBVIOUS
  <2>1. HeaderEnd(x) \in Lines(x, "end")
    <3>1. i \in Lines(x, "end") /\ \A n \in Lines(x, "end") : i <= n
      <4>1. i \in 1 .. Len(x) /\ x[i].t \in Ends
        BY <1>1 DEF Lines, Ends
      <4>2. ASSUME NEW n \in Lines(x, "end") PROVE n = i
        <5>1. n \in 1 .. Len(x) /\ x[n].t \in Ends
          BY <1>1 DEF Lines, Ends
        <5>. QED  BY <1>2, <4>1, <5>1
      <4>. QED  BY <4>1, <4>2
    <3>2. HeaderEnd(x) = CHOOSE e \in Lines(x, "end") : \A n \in Lines(x, "end") : e <= n
      BY <3>1 DEF HeaderEnd
    <3>. QED  BY <3>1, <3>2
  <2>. QED  BY <1>1, <1>3, <2>1 DEF Lines
<1>5. \A i \in 1 .. Len(x) : x[i].t \notin Ends
  BY <1>1, <1>3, <1>4 DEF Lines, Ends
<1>6. Tame(x)
  BY <1>1, <1>5 DEF Tame
<1>7. \A i \in 1 .. k : wire[i].t \notin Ends
  <2>1. ASSUME NEW i \in 1 .. k PROVE Len(buff) + i \in 1 .. Len(x)
    BY <1>1
  <2>. QED  BY <1>1, <1>5, <2>1
<1>8. Awaited(x, wire', talk, peer, sent, caster)
  <2>1. Awaited(buff, wire, talk, peer, sent, caster)
    BY DEF CliStrong, Connected
  <2>. QED  BY <1>1, <1>7, <2>1, PartRead DEF x
<1>9. CliTypes'
  <2>1. Tame(buff') /\ Len(buff') < MaxRsp /\ OnWire(wire') /\ pc' = "idle"
    BY <1>1, <1>3, <1>6 DEF HeaderPart, x
  <2>2. UNCHANGED <<state, verNeg, v2Tried, chunked, dec, got, http>>
    BY DEF HeaderPart
  <2>. QED  BY <2>1, <2>2 DEF CliStrong, CliTypes
<1>10. Connected'
  <2>1. link /\ state = 1 /\ state' = state /\ got' = got /\ pc' = "idle"
    BY DEF CliStrong, Connected, HeaderPart
  <2>2. got = <<>>
    BY <2>1 DEF CliStrong, Connected
  <2>3. asked = 0
    <3>1. Len(wire) # 0
      BY <1>1
    <3>. QED  BY <2>1, <3>1, Nowhere DEF CliStrong, Connected
  <2>. QED  BY <1>3, <1>8, <2>1, <2>2, <2>3 DEF Connected
<1>. QED  BY <1>9, <1>10 DEF CliStrong

\* What is in the buffer behind the end of an answer is the begin of the payload.
LEMMA Begins ==
  ASSUME CliStrong, pc = "response", NEW k \in 1 .. Len(wire), NEW j \in 1 .. k, j \in 1 .. Len(wire),
         Behind(buff, wire, talk, peer, sent, caster, j), k <= Space,
         buff' = After(buff \o First(wire, k), Len(buff) + j), wire' = After(wire, k),
         UNCHANGED <<link, calm, caster, peer, asked, talk, sent, got>>,
         state' = 2, pc' = "body", dec' \in Decoders, v2Tried' \in 0 .. 2, chunked' \in BOOLEAN, http' \in BOOLEAN,
         "v2chunk" \notin Casters => chunked' = FALSE,
         verNeg' = IF caster \in V1 THEN 1 ELSE 2,
         talk = "raw" => chunked' = FALSE,
         talk = "chunk" => chunked' = TRUE /\ dec' = ChunkDecInit
  PROVE  CliStrong'
<1>. DEFINE x == buff \o First(wire, k)
            v == After(x, Len(buff) + j)
<1>1. /\ buff \in Seq(Tokens) /\ wire \in Seq(Tokens) /\ x \in Seq(Tokens) /\ k \in 0 .. Len(wire)
      /\ Len(x) = Len(buff) + k /\ Len(buff) \in Nat /\ Len(x) < MaxRsp
      /\ OnWire(After(wire, k))
  BY BufferIs
<1>2. PICK f, m : Flow(talk, ChunkDecInit, 0, v, f, m) /\ Coming(talk, f, m, After(wire, k), peer, sent)
  <2>1. k \in j .. Len(wire)
    BY <1>1
  <2>. QED  BY <1>1, <2>1, EndRead
<1>3. v \in Seq(Tokens) /\ Len(v) < MaxRsp /\ \A i \in 1 .. Len(v) : IsByte(v[i])
  <2>1. Len(buff) + j \in 0 .. Len(x) /\ Len(buff) + j \in Nat
    BY <1>1
  <2>2. Len(v) = Len(x) - (Len(buff) + j)
    <3>. DEFINE g == Len(buff) + j
    <3>1. g \in 0 .. Len(x)
      BY <2>1
    <3>. HIDE DEF g, x
    <3>2. Len(After(x, g)) = Len(x) - g
      BY <1>1, <3>1, AfterIs
    <3>. QED  BY <3>2 DEF g
  <2>3. v \in Seq(Tokens) /\ \A i \in 1 .. Len(v) : IsByte(v[i])
    <3>. HIDE DEF v
    <3>. QED  BY <1>2, FlowIs
  <2>4. MaxRsp \in Nat /\ Len(x) \in Nat
    BY <1>1, NtripAssumption, LenProperties
  <2>. HIDE DEF v, x
  <2>. QED  BY <1>1, <2>1, <2>2, <2>3, <2>4
<1>. HIDE DEF v
<1>4. Tame(buff') /\ Len(buff') < MaxRsp /\ OnWire(wire')
  <2>1. \A i \in 1 .. Len(v) : v[i].t \in Mild
    BY <1>3 DEF IsByte, Mild
  <2>. QED  BY <1>1, <1>3, <2>1 DEF Tame, v
<1>5. CliTypes'
  <2>1. verNeg' \in 0 .. 2
    OBVIOUS
  <2>. QED  BY <1>4, <2>1 DEF CliStrong, CliTypes
<1>6. got = <<>> /\ link /\ asked = 0
  <2>1. link /\ state = 1 /\ Len(wire) # 0
    BY <1>1 DEF CliStrong, Connected
  <2>. QED  BY <2>1, Nowhere DEF CliStrong, Connected
<1>7. \E g, n : Flow(talk, dec', 0, v, g, n) /\ Coming(talk, g, n, wire', peer, sent)
  <2>1. CASE talk = "chunk"
    BY <1>2, <2>1
  <2>2. CASE talk = "raw"
    <3>1. Plain(v, 0, m)
      BY <1>2, <2>2 DEF Flow
    <3>2. Flow(talk, dec', 0, v, dec', m)
      BY <2>2, <3>1 DEF Flow
    <3>3. Coming(talk, dec', m, wire', peer, sent)
      <4>1. Plain(wire', m, sent)
        BY <1>2, <2>2 DEF Coming, Flow
      <4>. QED  BY <2>2, <4>1 DEF Coming, Flow
    <3>. QED  BY <3>2, <3>3
  <2>3. CASE talk \notin {"raw", "chunk"}
    <3>1. v = <<>> /\ m = 0
      BY <1>2, <2>3 DEF Flow
    <3>2. Flow(talk, dec', 0, v, dec', 0)
      BY <2>3, <3>1 DEF Flow
    <3>3. Coming(talk, dec', 0, wire', peer, sent)
      <4>1. wire' = <<>> /\ sent = m
        BY <1>2, <2>3 DEF Coming, Flow
      <4>. QED  BY <2>3, <3>1, <4>1 DEF Coming, Flow
    <3>. QED  BY <3>2, <3>3
  <2>. QED  BY <2>1, <2>2, <2>3
<1>8. Receiving'
  <2>1. Len(got') = 0 /\ buff' = v
    BY <1>6, Nowhere DEF v
  <2>2. \E g, n : Flow(talk', dec', Len(got'), buff', g, n) /\ Coming(talk', g, n, wire', peer', sent')
    BY <1>7, <2>1
  <2>. QED  BY <2>2 DEF Receiving
<1>9. Connected'
  <2>1. link' /\ asked' = 0
    BY <1>6
  <2>. QED  BY <1>8, <2>1 DEF Connected
<1>. QED  BY <1>5, <1>9 DEF CliStrong

LEMMA IcyKept ==
  ASSUME CliStrong, pc = "response", NEW k \in 1 .. Len(wire), k <= Space,
         Icy(buff \o First(wire, k)), wire' = After(wire, k),
         UNCHANGED <<link, calm, caster, peer, asked, talk, sent>>
  PROVE  CliStrong'
<1>. DEFINE x == buff \o First(wire, k)
<1>1. Len(x) = Len(buff) + k /\ Len(buff) \in Nat /\ DOMAIN x = 1 .. Len(x)
  BY BufferIs
<1>2. PICK i \in Lines(x, "icy") : TRUE
  BY DEF Icy
<1>3. i \in 1 .. Len(x) /\ x[i].t = "icy"
  <2>. HIDE DEF x
  <2>. QED  BY <1>1, <1>2 DEF Lines
<1>4. PICK j \in 1 .. k :
            /\ i = Len(buff) + j /\ j \in 1 .. Len(wire) /\ x[i] = wire[j]
            /\ Behind(buff, wire, talk, peer, sent, caster, j)
            /\ \A n \in 1 .. Len(x) : x[n].t \in Ends => n = i
  <2>1. x[i].t \in Ends
    BY <1>3 DEF Ends
  <2>. QED  BY <1>3, <2>1, EndIs
<1>5. wire[j].t = "icy" /\ caster \in V1 /\ talk = "raw"
  BY <1>3, <1>4 DEF Behind
<1>6. buff' = After(x, Len(buff) + j)
  <2>. DEFINE e == CHOOSE g \in Lines(x, "icy") : \A n \in Lines(x, "icy") : g <= n
  <2>1. buff' = After(x, e)
    BY DEF Icy
  <2>. HIDE DEF x
  <2>2. \A n \in Lines(x, "icy") : n = i
    BY <1>1, <1>4 DEF Lines, Ends
  <2>3. e = i
    <3>1. i \in Lines(x, "icy") /\ i <= i
      BY <1>2, <1>3
    <3>. QED  BY <2>2, <3>1
  <2>. QED  BY <1>4, <2>1, <2>3
<1>7. /\ state' = 2 /\ verNeg' = 1 /\ chunked' = FALSE /\ pc' = "body" /\ UNCHANGED <<dec, got, http>>
      /\ v2Tried' = IF Ver = 0 THEN 1 ELSE v2Tried
  BY DEF Icy
<1>8. v2Tried' \in 0 .. 2 /\ dec' \in Decoders /\ http' \in BOOLEAN
  BY <1>7 DEF CliStrong, CliTypes
<1>. HIDE DEF x
<1>9. verNeg' = IF caster \in V1 THEN 1 ELSE 2
  BY <1>5, <1>7
<1>10. talk # "chunk"
  BY <1>5
<1>11. chunked' \in BOOLEAN
  BY <1>7
<1>. QED  BY <1>4, <1>6, <1>7, <1>8, <1>9, <1>10, <1>11, Begins DEF x

LEMMA HttpOkKept ==
  ASSUME OneCoding, CliStrong, pc = "response", NEW k \in 1 .. Len(wire), k <= Space,
         HttpOk(buff \o First(wire, k)), wire' = After(wire, k),
         UNCHANGED <<link, calm, caster, peer, asked, talk, sent>>
  PROVE  CliStrong'
<1>. DEFINE x == buff \o First(wire, k)
<1>1. /\ Len(x) = Len(buff) + k /\ Len(buff) \in Nat /\ DOMAIN x = 1 .. Len(x) /\ x \in Seq(Tokens)
      /\ \A i \in 1 .. Len(buff) : x[i] = buff[i]
      /\ \A i \in 1 .. k : x[Len(buff) + i] = wire[i]
      /\ \A i \in 1 .. Len(x) : x[i].t \in Mild \cup Ends
  BY BufferIs
<1>2. Lines(x, "end") # {}
  <2>1. HeaderEnd(x) > 0
    BY DEF HttpOk
  <2>. HIDE DEF x
  <2>. QED  BY <2>1 DEF HeaderEnd
<1>3. PICK i \in 1 .. Len(x) : x[i].t = "end"
  <2>. HIDE DEF x
  <2>. QED  BY <1>1, <1>2 DEF Lines
<1>4. PICK j \in 1 .. k :
            /\ i = Len(buff) + j /\ j \in 1 .. Len(wire) /\ x[i] = wire[j]
            /\ Behind(buff, wire, talk, peer, sent, caster, j)
            /\ \A n \in 1 .. Len(x) : x[n].t \in Ends => n = i
  <2>1. x[i].t \in Ends
    BY <1>3 DEF Ends
  <2>. QED  BY <1>3, <2>1, EndIs
<1>5. /\ wire[j].t = "end" /\ caster \in {"v2raw", "v2chunk"} /\ (talk = "raw" => caster = "v2raw")
      /\ talk = "chunk" => \/ \E n \in 1 .. Len(buff) : buff[n].t = "chunk"
                           \/ \E n \in 1 .. j : wire[n].t = "chunk"
  BY <1>3, <1>4 DEF Behind
<1>. DEFINE e == HeaderEnd(x)
<1>6. e = i
  <2>. HIDE DEF x
  <2>1. \A n \in Lines(x, "end") : n = i
    BY <1>1, <1>4 DEF Lines, Ends
  <2>2. i \in Lines(x, "end")
    BY <1>1, <1>3 DEF Lines
  <2>3. e = CHOOSE g \in Lines(x, "end") : \A n \in Lines(x, "end") : g <= n
    BY <1>2 DEF HeaderEnd
  <2>. HIDE DEF e
  <2>4. i <= i
    BY <1>3
  <2>. QED  BY <2>1, <2>2, <2>3, <2>4
<1>7. buff' = After(x, Len(buff) + j)
  <2>1. buff' = After(x, e)
    BY DEF HttpOk
  <2>. HIDE DEF x, e
  <2>. QED  BY <1>4, <1>6, <2>1
<1>8. /\ state' = 2 /\ verNeg' = 2 /\ http' = TRUE /\ pc' = "body" /\ UNCHANGED <<v2Tried, got>>
      /\ \/ Lines(Header(x), "chunk") # {} /\ chunked' = TRUE /\ dec' = ChunkDecInit
         \/ Lines(Header(x), "chunk") = {} /\ chunked' = chunked /\ dec' = dec
  BY DEF HttpOk
<1>9. v2Tried' \in 0 .. 2 /\ dec' \in Decoders /\ http' \in BOOLEAN /\ chunked' \in BOOLEAN
  BY <1>8, InitDecoder DEF CliStrong, CliTypes
<1>10. verNeg' = IF caster \in V1 THEN 1 ELSE 2
  <2>1. caster \notin V1
    BY <1>5 DEF V1
  <2>. QED  BY <1>8, <2>1
<1>11. /\ First(x, i) \in Seq(Tokens) /\ Len(First(x, i)) = i /\ \A n \in 1 .. i : First(x, i)[n] = x[n]
       /\ DOMAIN First(x, i) = 1 .. i /\ Header(x) = First(x, i)
  <2>1. i \in 0 .. Len(x)
    BY <1>1
  <2>2. Header(x) = First(x, i)
    BY <1>6 DEF Header
  <2>3. x \in Seq(Tokens)
    BY <1>1
  <2>. HIDE DEF x, e
  <2>4. First(x, i) \in Seq(Tokens) /\ Len(First(x, i)) = i /\ \A n \in 1 .. i : First(x, i)[n] = x[n]
    BY <2>1, <2>3, FirstIs
  <2>5. DOMAIN First(x, i) = 1 .. i
    <3>. DEFINE y == First(x, i)
    <3>1. y \in Seq(Tokens) /\ Len(y) = i
      BY <2>4
    <3>. HIDE DEF y
    <3>2. DOMAIN y = 1 .. Len(y)
      BY <3>1, LenProperties
    <3>. QED  BY <3>1, <3>2 DEF y
  <2>. QED  BY <2>2, <2>4, <2>5
<1>. HIDE DEF x, e
<1>12. "v2chunk" \notin Casters => Lines(Header(x), "chunk") = {}
  <2>1. ASSUME "v2chunk" \notin Casters, NEW n \in Lines(Header(x), "chunk") PROVE FALSE
    <3>1. n \in 1 .. i /\ x[n].t = "chunk" /\ n \in 1 .. Len(x)
      BY <1>1, <1>11, <2>1 DEF Lines
    <3>. QED  BY <1>1, <2>1, <3>1 DEF Mild, Ends
  <2>. QED  BY <2>1
<1>13. "v2chunk" \notin Casters => chunked' = FALSE
  BY <1>8, <1>12 DEF CliStrong, CliTypes
<1>14. talk = "raw" => chunked' = FALSE
  <2>1. caster \in Casters
    BY DEF CliStrong, CliTypes
  <2>. QED  BY <1>5, <1>13, <2>1 DEF OneCoding
<1>15. ASSUME talk = "chunk" PROVE chunked' = TRUE /\ dec' = ChunkDecInit
  <2>1. ASSUME NEW n \in 1 .. Len(buff), buff[n].t = "chunk" PROVE Lines(Header(x), "chunk") # {}
    <3>1. n \in 1 .. i /\ x[n].t = "chunk"
      BY <1>1, <1>4, <2>1
    <3>. QED  BY <1>11, <3>1 DEF Lines
  <2>2. ASSUME NEW n \in 1 .. j, wire[n].t = "chunk" PROVE Lines(Header(x), "chunk") # {}
    <3>. DEFINE g == Len(buff) + n
    <3>1. g \in 1 .. i /\ n \in 1 .. k
      BY <1>1, <1>4
    <3>2. x[g] = wire[n]
      BY <1>1, <3>1
    <3>. HIDE DEF g
    <3>. QED  BY <1>11, <2>2, <3>1, <3>2 DEF Lines
  <2>. QED  BY <1>5, <1>8, <1>15, <2>1, <2>2
<1>. QED  BY <1>4, <1>7, <1>8, <1>9, <1>10, <1>13, <1>14, <1>15, Begins DEF x

LEMMA ResponseKept == ASSUME OneCoding, CliStrong, Response PROVE CliStrong'
<1>1. PICK k \in 1 .. Len(wire) :
         /\ k <= Space
         /\ LET b == buff \o First(wire, k) IN
            \/ /\ Icy(b) \/ HttpOk(b) \/ HeaderPart(b)
               /\ wire' = After(wire, k) /\ UNCHANGED <<link, calm, caster, peer, asked, talk, sent>>
            \/ HttpRefused(b) /\ Discon
  BY DEF Response
<1>. DEFINE b == buff \o First(wire, k)
<1>2. pc = "response"
  BY DEF Response
<1>3. CASE /\ Icy(b) \/ HttpOk(b) \/ HeaderPart(b)
           /\ wire' = After(wire, k) /\ UNCHANGED <<link, calm, caster, peer, asked, talk, sent>>
  BY <1>1, <1>2, <1>3, IcyKept, HttpOkKept, HeaderPartKept
<1>4. CASE HttpRefused(b) /\ Discon
  <2>1. /\ http' = TRUE /\ buff' = <<>> /\ state' = 0 /\ pc' = "idle"
        /\ UNCHANGED <<verNeg, v2Tried, chunked, dec, got>>
    BY <1>4 DEF HttpRefused
  <2>2. link' = FALSE /\ peer' = FALSE /\ asked' = 0 /\ talk' = "none" /\ UNCHANGED <<calm, caster, sent>>
    BY <1>4 DEF Discon
  <2>3. OnWire(wire') /\ Tame(buff') /\ Len(buff') < MaxRsp
    <3>1. 0 < MaxRsp
      BY NtripAssumption
    <3>. QED  BY <1>4, <2>1, <3>1, Nowhere DEF Discon
  <2>4. CliTypes'
    <3>1. http' \in BOOLEAN /\ link' \in BOOLEAN /\ peer' \in BOOLEAN
      BY <2>1, <2>2
    <3>2. asked' \in 0 .. 2 /\ state' \in 0 .. 2
      BY <2>1, <2>2
    <3>. QED  BY <2>1, <2>2, <2>3, <3>1, <3>2 DEF CliStrong, CliTypes
  <2>5. Connected'
    BY <2>1, <2>2 DEF Connected
  <2>. QED  BY <2>4, <2>5 DEF CliStrong
<1>. QED  BY <1>1, <1>3, <1>4

-----------------------------------------------------------------------------
(* The payload is read.                                                     *)

LEMMA GotMore ==
  ASSUME NEW g \in Nat, NEW s \in Seq(Tokens), \A i \in 1 .. Len(s) : s[i].id = g + i
  PROVE  Got(g) \o Ids(s) = Got(g + Len(s)) /\ g + Len(s) \in Nat
<1>1. Len(s) \in Nat /\ DOMAIN s = 1 .. Len(s)
  BY LenProperties
<1>. DEFINE n == Len(s)
            v == Ids(s)
            a == Got(g)
            b == Got(g + n)
<1>2. v \in Seq(Nat) /\ Len(v) = n /\ \A i \in 1 .. n : v[i] = g + i
  <2>1. v = [i \in 1 .. n |-> s[i].id]
    BY <1>1 DEF Ids
  <2>2. \A i \in 1 .. n : s[i].id \in Nat
    BY <1>1
  <2>3. v \in [1 .. n -> Nat]
    BY <2>1, <2>2
  <2>4. v \in Seq(Nat) /\ Len(v) = n
    BY <1>1, <2>3
  <2>. QED  BY <2>1, <2>4
<1>3. a \in Seq(Nat) /\ Len(a) = g /\ \A i \in 1 .. g : a[i] = i
  BY DEF Got
<1>4. b \in Seq(Nat) /\ Len(b) = g + n /\ \A i \in 1 .. g + n : b[i] = i
  BY <1>1 DEF Got
<1>. HIDE DEF v, a, b, n
<1>. DEFINE y == a \o v
<1>5. /\ y \in Seq(Nat) /\ Len(y) = g + n
      /\ \A i \in 1 .. g + n : y[i] = IF i <= g THEN a[i] ELSE v[i - g]
  BY <1>2, <1>3, ConcatProperties
<1>. HIDE DEF y
<1>6. ASSUME NEW i \in 1 .. g + n PROVE y[i] = b[i]
  <2>1. CASE i <= g
    BY <1>3, <1>4, <1>5, <2>1
  <2>2. CASE ~(i <= g)
    <3>. DEFINE j == i - g
    <3>1. j \in 1 .. n /\ g + j = i
      BY <1>1, <2>2 DEF n
    <3>2. y[i] = v[j]
      BY <1>5, <2>2
    <3>. HIDE DEF j
    <3>. QED  BY <1>2, <1>4, <3>1, <3>2
  <2>. QED  BY <2>1, <2>2
<1>7. y = b
  BY <1>4, <1>5, <1>6, SeqEqual
<1>. QED  BY <1>1, <1>7 DEF y, a, b, v, n

LEMMA FlowNone ==
  ASSUME NEW tk, NEW d, NEW c, NEW f, NEW n, Flow(tk, d, c, <<>>, f, n)
  PROVE  f = d /\ n = c
<1>1. Len(<<>>) = 0
  OBVIOUS
<1>2. CASE tk = "chunk" /\ Runs(d, c, <<>>, f, n)
  BY <1>1, <1>2 DEF Runs, Chain
<1>3. CASE tk = "raw" /\ Plain(<<>>, c, n) /\ f = d
  BY <1>1, <1>3 DEF Plain
<1>. QED  BY <1>2, <1>3 DEF Flow

LEMMA Whole ==
  ASSUME NEW s \in Seq(Tokens)
  PROVE  First(s, Len(s)) = s /\ After(s, Len(s)) = <<>>
<1>1. Len(s) \in 0 .. Len(s) /\ Len(s) \in Nat /\ Len(s) - Len(s) = 0
  BY LenProperties
<1>. DEFINE k == Len(s)
            u == First(s, k)
            v == After(s, k)
<1>2. /\ u \in Seq(Tokens) /\ Len(u) = k /\ \A i \in 1 .. k : u[i] = s[i]
      /\ v \in Seq(Tokens) /\ Len(v) = k - k
  <2>1. k \in 0 .. Len(s) /\ k = Len(s)
    BY <1>1
  <2>. HIDE DEF k
  <2>2. u \in Seq(Tokens) /\ Len(u) = k /\ \A i \in 1 .. k : u[i] = s[i]
    BY <2>1, FirstIs
  <2>3. v \in Seq(Tokens) /\ Len(v) = Len(s) - k
    BY <2>1, AfterIs
  <2>. HIDE DEF u, v
  <2>. QED  BY <2>1, <2>2, <2>3
<1>3. u = s
  <2>1. Len(u) = Len(s) /\ \A i \in 1 .. Len(u) : u[i] = s[i]
    BY <1>2
  <2>. HIDE DEF u
  <2>. QED  BY <1>2, <2>1, SeqEqual
<1>4. v = <<>>
  <2>1. Len(v) = 0
    BY <1>1, <1>2
  <2>. HIDE DEF v
  <2>. QED  BY <1>2, <2>1, EmptySeq
<1>. QED  BY <1>3, <1>4

\* Of the bytes s that come next some are delivered, and the rest stays in the buffer.
LEMMA Delivered ==
  ASSUME CliStrong, link, state = 2, pc' = "idle", NEW s, s # <<>>, NEW f, NEW m,
         Flow(talk, dec, Len(got), s, f, m), Coming(talk, f, m, wire', peer, sent), OnWire(wire'),
         UNCHANGED <<link, state, verNeg, v2Tried, chunked, http, calm, caster, peer, asked, talk, sent>>,
         \/ chunked /\ Len(s) < MaxRsp /\ \E n \in 1 .. NOut : Decoded(s, n)
         \/ ~chunked /\ Len(buff') < MaxRsp /\ dec' = dec
            /\ \E k \in 0 .. Len(s) : got' = got \o Ids(First(s, k)) /\ buff' = After(s, k)
  PROVE  CliStrong'
<1>1. PICK g \in 0 .. sent : got = Got(g)
  BY DEF CliStrong, CliTypes
<1>2. g \in Nat /\ sent \in Nat /\ NPay \in Nat /\ Len(got) = g
  <2>1. g \in Nat /\ sent \in Nat /\ NPay \in Nat
    BY NtripAssumption DEF CliStrong, CliTypes
  <2>. QED  BY <1>1, <2>1, GotIs
<1>3. Receiving
  BY DEF CliStrong, Connected
<1>4. s \in Seq(Tokens) /\ m <= sent /\ m \in Nat
  <2>1. s \in Seq(Tokens) /\ m \in Nat
    BY FlowIs
  <2>2. m <= sent
    BY ComingIs
  <2>. QED  BY <2>1, <2>2
<1>5. /\ dec' \in Decoders /\ Tame(buff') /\ Len(buff') < MaxRsp
      /\ \E h \in Nat : /\ got' = Got(h)
                        /\ Flow(talk, dec', h, buff', f, m)
  <2>1. CASE chunked /\ Len(s) < MaxRsp /\ \E n \in 1 .. NOut : Decoded(s, n)
    <3>1. PICK n \in 1 .. NOut : Decoded(s, n)
      BY <2>1
    <3>2. talk = "chunk" /\ Runs(dec, g, s, f, m)
      BY <1>2, <1>3, <2>1 DEF Flow, Receiving
    <3>. DEFINE r == ChunkDecode(dec, s, n)
    <3>3. /\ ~r.err
          /\ r.dec \in DecState /\ r.out \in Seq(Tokens)
          /\ \A k \in 1 .. Len(r.out) : r.out[k].id = g + k
          /\ Runs(r.dec, g + Len(r.out), r.rest, f, m)
          /\ r.rest \in Seq(Tokens) /\ Len(r.rest) <= Len(s)
      <4>1. n \in Nat
        OBVIOUS
      <4>. QED  BY <3>2, <4>1, DecodeRuns
    <3>4. buff' = r.rest /\ dec' = r.dec /\ got' = got \o Ids(r.out)
      BY <3>1, <3>3 DEF Decoded
    <3>. HIDE DEF r
    <3>. DEFINE h == g + Len(r.out)
    <3>5. got' = Got(h) /\ h \in Nat
      BY <1>1, <1>2, <3>3, <3>4, GotMore
    <3>6. Tame(buff')
      <4>1. \A k \in 1 .. Len(r.rest) : IsByte(r.rest[k])
        BY <3>3, RunsGrow
      <4>2. \A k \in 1 .. Len(r.rest) : r.rest[k].t \in Mild
        BY <4>1 DEF IsByte, Mild
      <4>. QED  BY <3>3, <3>4, <4>2 DEF Tame
    <3>7. Len(buff') < MaxRsp
      <4>1. Len(r.rest) \in Nat /\ Len(s) \in Nat /\ MaxRsp \in Nat
        BY <1>4, <3>3, LenProperties, NtripAssumption
      <4>. QED  BY <2>1, <3>3, <3>4, <4>1
    <3>8. dec' \in Decoders
      BY <3>3, <3>4 DEF DecState
    <3>9. Flow(talk, dec', h, buff', f, m)
      BY <3>2, <3>3, <3>4 DEF Flow
    <3>. HIDE DEF h
    <3>. QED  BY <3>5, <3>6, <3>7, <3>8, <3>9
  <2>2. CASE ~chunked /\ Len(buff') < MaxRsp /\ dec' = dec
            /\ \E k \in 0 .. Len(s) : got' = got \o Ids(First(s, k)) /\ buff' = After(s, k)
    <3>1. PICK k \in 0 .. Len(s) : got' = got \o Ids(First(s, k)) /\ buff' = After(s, k)
      BY <2>2
    <3>2. talk = "raw"
      BY <1>3, <2>2 DEF Flow, Receiving
    <3>3. PICK e, h : Flow(talk, dec, g, First(s, k), e, h) /\ Flow(talk, e, h, After(s, k), f, m)
      BY <1>2, FlowCut
    <3>4. Plain(First(s, k), g, h) /\ e = dec
      BY <3>2, <3>3 DEF Flow
    <3>5. First(s, k) \in Seq(Tokens) /\ h = g + Len(First(s, k))
          /\ \A i \in 1 .. Len(First(s, k)) : First(s, k)[i].id = g + i
      BY <3>4 DEF Plain
    <3>6. got' = Got(h) /\ h \in Nat
      BY <1>1, <1>2, <3>1, <3>5, GotMore
    <3>7. Tame(buff')
      <4>1. buff' \in Seq(Tokens) /\ \A i \in 1 .. Len(buff') : IsByte(buff'[i])
        BY <3>1, <3>3, FlowIs
      <4>2. \A i \in 1 .. Len(buff') : buff'[i].t \in Mild
        BY <4>1 DEF IsByte, Mild
      <4>. QED  BY <4>1, <4>2 DEF Tame
    <3>8. dec' \in Decoders
      BY <2>2 DEF CliStrong, CliTypes
    <3>9. Flow(talk, dec', h, buff', f, m)
      BY <2>2, <3>1, <3>3, <3>4
    <3>. QED  BY <2>2, <3>6, <3>7, <3>8, <3>9
  <2>. QED  BY <2>1, <2>2
<1>6. PICK h \in Nat : got' = Got(h) /\ Flow(talk, dec', h, buff', f, m)
  BY <1>5
<1>7. h \in 0 .. sent /\ Len(got') = h
  <2>1. h <= m
    BY <1>6, FlowIs
  <2>2. Len(got') = h
    BY <1>6, GotIs
  <2>. QED  BY <1>2, <1>4, <1>6, <2>1, <2>2
<1>8. CliTypes'
  BY <1>5, <1>6, <1>7 DEF CliStrong, CliTypes
<1>9. Receiving'
  <2>1. \E e, n : Flow(talk', dec', Len(got'), buff', e, n) /\ Coming(talk', e, n, wire', peer', sent')
    BY <1>6, <1>7
  <2>. QED  BY <1>3, <2>1 DEF Receiving
<1>10. Connected'
  <2>1. asked = 0
    BY DEF CliStrong, Connected
  <2>. QED  BY <1>9, <2>1 DEF Connected
<1>. QED  BY <1>8, <1>10 DEF CliStrong

LEMMA BodyBuffKept == ASSUME CliStrong, BodyBuff PROVE CliStrong'
<1>1. pc = "body" /\ buff # <<>> /\ pc' = "idle" /\ link /\ state = 2
      /\ UNCHANGED <<link, state, verNeg, v2Tried, chunked, http, calm, caster, peer, asked, talk, wire, sent>>
  BY DEF BodyBuff, far, CliStrong, Connected
<1>2. PICK f, m : Flow(talk, dec, Len(got), buff, f, m) /\ Coming(talk, f, m, wire, peer, sent)
  BY <1>1 DEF CliStrong, Connected, Receiving
<1>3. OnWire(wire') /\ buff \in Seq(Tokens) /\ Len(buff) < MaxRsp /\ Len(buff) \in Nat /\ MaxRsp \in Nat
  BY <1>1, NtripAssumption, LenProperties DEF CliStrong, CliTypes, Tame
<1>4. \/ chunked /\ Len(buff) < MaxRsp /\ \E n \in 1 .. NOut : Decoded(buff, n)
      \/ ~chunked /\ Len(buff') < MaxRsp /\ dec' = dec
         /\ \E k \in 0 .. Len(buff) : got' = got \o Ids(First(buff, k)) /\ buff' = After(buff, k)
  <2>1. PICK n \in 1 .. NOut :
         IF chunked THEN Decoded(buff, n)
         ELSE LET k == IF Len(buff) <= n THEN Len(buff) ELSE n IN
              got' = got \o Ids(First(buff, k)) /\ buff' = After(buff, k) /\ UNCHANGED dec
    BY DEF BodyBuff
  <2>2. CASE chunked
    BY <1>3, <2>1, <2>2
  <2>3. CASE ~chunked
    <3>. DEFINE k == IF Len(buff) <= n THEN Len(buff) ELSE n
    <3>1. k \in 0 .. Len(buff)
      BY <1>3
    <3>2. got' = got \o Ids(First(buff, k)) /\ buff' = After(buff, k) /\ dec' = dec
      BY <2>1, <2>3
    <3>. HIDE DEF k
    <3>3. Len(After(buff, k)) = Len(buff) - k
      BY <1>3, <3>1, AfterIs
    <3>4. Len(buff') < MaxRsp
      BY <1>3, <3>1, <3>2, <3>3
    <3>. QED  BY <2>3, <3>1, <3>2, <3>4
  <2>. QED  BY <2>2, <2>3
<1>. QED  BY <1>1, <1>2, <1>3, <1>4, Delivered

LEMMA BodyWireKept == ASSUME CliStrong, BodyWire PROVE CliStrong'
<1>1. pc = "body" /\ buff = <<>> /\ pc' = "idle" /\ link /\ state = 2
      /\ UNCHANGED <<link, state, verNeg, v2Tried, chunked, http, calm, caster, peer, asked, talk, sent>>
  BY DEF BodyWire, CliStrong, Connected
<1>2. PICK n \in 1 .. NOut, k \in 1 .. Len(wire) :
         /\ wire' = After(wire, k)
         /\ IF chunked THEN k <= Raw /\ Decoded(First(wire, k), n)
            ELSE k <= n /\ got' = got \o Ids(First(wire, k)) /\ UNCHANGED <<buff, dec>>
  BY DEF BodyWire
<1>. DEFINE s == First(wire, k)
<1>3. wire \in Seq(Tokens) /\ Len(wire) \in Nat /\ k \in 0 .. Len(wire) /\ MaxRsp \in Nat /\ Raw < MaxRsp
      /\ Raw \in Nat /\ \A i \in 1 .. Len(wire) : wire[i].t \in Mild \cup Ends
  BY LenProperties, NtripAssumption DEF CliStrong, CliTypes, OnWire
<1>4. s \in Seq(Tokens) /\ Len(s) = k /\ s # <<>>
  <2>1. s \in Seq(Tokens) /\ Len(s) = k
    BY <1>3, FirstIs
  <2>. HIDE DEF s
  <2>. QED  BY <2>1, Nowhere
<1>5. PICK f, m : Flow(talk, dec, Len(got), s, f, m) /\ Coming(talk, f, m, wire', peer, sent)
  <2>1. PICK e, h : Flow(talk, dec, Len(got), buff, e, h) /\ Coming(talk, e, h, wire, peer, sent)
    BY <1>1 DEF CliStrong, Connected, Receiving
  <2>2. e = dec /\ h = Len(got)
    BY <1>1, <2>1, FlowNone
  <2>3. \E f, m : Flow(talk, dec, Len(got), s, f, m) /\ Coming(talk, f, m, After(wire, k), peer, sent)
    BY <1>3, <2>1, <2>2, ComingCut
  <2>. QED  BY <1>2, <2>3
<1>6. OnWire(wire')
  <2>. DEFINE v == After(wire, k)
  <2>1. v \in Seq(Tokens) /\ Len(v) = Len(wire) - k /\ \A i \in 1 .. Len(wire) - k : v[i] = wire[k + i]
    BY <1>3, AfterIs
  <2>. HIDE DEF v
  <2>2. ASSUME NEW i \in 1 .. Len(v) PROVE v[i].t \in Mild \cup Ends
    <3>1. k + i \in 1 .. Len(wire) /\ i \in 1 .. Len(wire) - k
      BY <1>3, <2>1
    <3>. QED  BY <1>3, <2>1, <3>1
  <2>3. OnWire(v)
    BY <2>1, <2>2 DEF OnWire
  <2>. QED  BY <1>2, <2>3 DEF v
<1>. HIDE DEF s
<1>7. \/ chunked /\ Len(s) < MaxRsp /\ \E i \in 1 .. NOut : Decoded(s, i)
      \/ ~chunked /\ Len(buff') < MaxRsp /\ dec' = dec
         /\ \E i \in 0 .. Len(s) : got' = got \o Ids(First(s, i)) /\ buff' = After(s, i)
  <2>1. CASE chunked
    <3>1. k <= Raw /\ Decoded(s, n)
      BY <1>2, <2>1 DEF s
    <3>2. Len(s) < MaxRsp
      BY <1>3, <1>4, <3>1
    <3>. QED  BY <2>1, <3>1, <3>2
  <2>2. CASE ~chunked
    <3>1. got' = got \o Ids(s) /\ buff' = buff /\ dec' = dec
      BY <1>2, <2>2 DEF s
    <3>2. First(s, Len(s)) = s /\ After(s, Len(s)) = <<>> /\ Len(s) \in 0 .. Len(s)
      BY <1>3, <1>4, Whole
    <3>3. Len(buff') < MaxRsp
      BY <3>1 DEF CliStrong, CliTypes
    <3>. QED  BY <1>1, <2>2, <3>1, <3>2, <3>3
  <2>. QED  BY <2>1, <2>2
<1>. QED  BY <1>1, <1>4, <1>5, <1>6, <1>7, Delivered
-----------------------------------------------------------------------------
(* The caster.                                                              *)

\* The caster has sent all there is.
LEMMA ComingNone ==
  ASSUME NEW tk \in {"none", "raw", "chunk"}, NEW n \in Nat, NEW p
  PROVE  Coming(tk, ChunkDecInit, n, <<>>, p, n)
<1>1. Flow(tk, ChunkDecInit, n, <<>>, ChunkDecInit, n)
  <2>1. Runs(ChunkDecInit, n, <<>>, ChunkDecInit, n)
    BY InitDecoder, RunsNone
  <2>2. Plain(<<>>, n, n)
    <3>1. <<>> \in Seq(Tokens) /\ Len(<<>>) = 0 /\ n = n + 0 /\ \A i \in 1 .. 0 : FALSE
      OBVIOUS
    <3>. QED  BY <3>1 DEF Plain
  <2>. QED  BY <2>1, <2>2 DEF Flow
<1>. QED  BY <1>1 DEF Coming

LEMMA ComingMore ==
  ASSUME NEW tk, NEW d, NEW c, NEW w, NEW p \in BOOLEAN, p, NEW n, Coming(tk, d, c, w, p, n),
         NEW m \in Nat \ {0}, HdrMax > 3, NEW v, Sent(tk, n, m, v)
  PROVE  Coming(tk, d, c, w \o v, p, n + m)
<1>1. p = TRUE
  OBVIOUS
<1>2. Coming(tk, d, c, w, TRUE, n)
  BY <1>1, Zenon
<1>3. Coming(tk, d, c, w \o v, TRUE, n + m)
  BY <1>2, ComingSent
<1>. QED  BY <1>1, <1>3, Zenon

LEMMA ComingAll ==
  ASSUME NEW d, NEW c, NEW w, NEW p \in BOOLEAN, p, NEW n, Coming("chunk", d, c, w, p, n),
         HdrMax > 3, NEW v, LastChunk(v)
  PROVE  Coming("chunk", d, c, w \o v, FALSE, n)
<1>1. p = TRUE
  OBVIOUS
<1>2. Coming("chunk", d, c, w, TRUE, n)
  BY <1>1, Zenon
<1>. QED  BY <1>2, ComingLast

\* What the caster sends of the payload and around it is bytes.
LEMMA SentBytes ==
  ASSUME NEW tk, NEW n \in Nat, NEW m \in Nat \ {0}, HdrMax > 3, NEW v, Sent(tk, n, m, v)
  PROVE  v \in Seq(Tokens) /\ \A i \in 1 .. Len(v) : IsByte(v[i])
<1>1. tk \in {"raw", "chunk"} /\ m \in Nat
  BY DEF Sent
<1>2. v \in Seq(Tokens)
  BY <1>1, SentTyped
<1>3. Coming(tk, ChunkDecInit, n, <<>>, TRUE, n)
  BY <1>1, ComingNone
<1>4. Coming(tk, ChunkDecInit, n, <<>> \o v, TRUE, n + m)
  BY <1>3, ComingSent
<1>5. <<>> \o v = v
  BY <1>2, ConcatEmptySeq
<1>6. Coming(tk, ChunkDecInit, n, v, TRUE, n + m)
  BY <1>4, <1>5, Zenon
<1>. QED  BY <1>2, <1>6, ComingIs

LEMMA LastBytes ==
  ASSUME HdrMax > 3, NEW v, LastChunk(v)
  PROVE  v \in Seq(Tokens) /\ \A i \in 1 .. Len(v) : IsByte(v[i])
<1>2. v \in Seq(Tokens)
  BY LastTyped
<1>3. Coming("chunk", ChunkDecInit, 0, <<>>, TRUE, 0)
  BY ComingNone
<1>4. Coming("chunk", ChunkDecInit, 0, <<>> \o v, FALSE, 0)
  BY <1>3, ComingLast
<1>5. <<>> \o v = v
  BY <1>2, ConcatEmptySeq
<1>6. Coming("chunk", ChunkDecInit, 0, v, FALSE, 0)
  BY <1>4, <1>5, Zenon
<1>. QED  BY <1>2, <1>6, ComingIs

LEMMA WireMore ==
  ASSUME NEW w, OnWire(w), NEW v, OnWire(v)
  PROVE  OnWire(w \o v)
<1>. DEFINE y == w \o v
<1>1. /\ w \in Seq(Tokens) /\ \A i \in 1 .. Len(w) : w[i].t \in Mild \cup Ends
      /\ v \in Seq(Tokens) /\ \A i \in 1 .. Len(v) : v[i].t \in Mild \cup Ends
  BY DEF OnWire
<1>2. /\ y \in Seq(Tokens) /\ Len(y) = Len(w) + Len(v) /\ Len(w) \in Nat /\ Len(v) \in Nat
      /\ \A i \in 1 .. Len(w) + Len(v) : y[i] = IF i <= Len(w) THEN w[i] ELSE v[i - Len(w)]
  BY <1>1, ConcatProperties, LenProperties
<1>. HIDE DEF y
<1>3. ASSUME NEW i \in 1 .. Len(y) PROVE y[i].t \in Mild \cup Ends
  <2>1. CASE i <= Len(w)
    <3>1. i \in 1 .. Len(w) /\ y[i] = w[i]
      BY <1>2, <2>1
    <3>. QED  BY <1>1, <3>1
  <2>2. CASE ~(i <= Len(w))
    <3>1. i - Len(w) \in 1 .. Len(v) /\ y[i] = v[i - Len(w)]
      BY <1>2, <2>2
    <3>. QED  BY <1>1, <3>1
  <2>. QED  BY <2>1, <2>2
<1>4. OnWire(y)
  BY <1>2, <1>3 DEF OnWire
<1>. QED  BY <1>4 DEF y

\* Bytes end no answer, and may follow anything.
LEMMA BytesFollow ==
  ASSUME NEW w, OnWire(w), NEW v \in Seq(Tokens), \A i \in 1 .. Len(v) : IsByte(v[i])
  PROVE  OnWire(w \o v) /\ \A i \in 1 .. Len(v) : v[i].t \notin Ends
<1>1. \A i \in 1 .. Len(v) : v[i].t \notin Ends
  BY DEF IsByte, Ends
<1>2. OnWire(v)
  BY DEF IsByte, Mild, OnWire
<1>. QED  BY <1>1, <1>2, WireMore

\* Send and Finish say what Sent and LastChunk say.
LEMMA SendIs ==
  ASSUME CliTypes, Send
  PROVE  /\ peer /\ talk \in {"raw", "chunk"}
         /\ \E m \in 1 .. NPay - sent : \E v :
              Sent(talk, sent, m, v) /\ wire' = wire \o v /\ sent' = sent + m
<1>1. PICK m \in 1 .. NPay - sent : \E data \in Payload(m) :
         /\ \/ talk = "raw" /\ wire' = wire \o data
            \/ talk = "chunk" /\ m <= SizeMax /\ \E sz \in {Digits(m), <<Digit(0)>> \o Digits(m),
                                             Digits(m) \o <<Extension, Digit(0)>>} :
                   wire' = wire \o sz \o <<NewLine>> \o data \o <<NewLine>>
         /\ sent' = sent + m
  BY DEF Send
<1>2. PICK data \in Payload(m) :
         /\ \/ talk = "raw" /\ wire' = wire \o data
            \/ talk = "chunk" /\ m <= SizeMax /\ \E sz \in Sizes(m) :
                   wire' = wire \o sz \o <<NewLine>> \o data \o <<NewLine>>
         /\ sent' = sent + m
  BY <1>1 DEF Sizes
<1>3. /\ m \in Nat /\ sent \in Nat /\ NPay \in Nat /\ sent + m <= NPay /\ wire \in Seq(Tokens)
  BY NtripAssumption DEF CliTypes, OnWire
<1>4. PICK f \in [1 .. m -> Kinds] : data = [i \in 1 .. m |-> Byte(f[i], sent + i)]
  BY DEF Payload
<1>5. ASSUME NEW i \in 1 .. m PROVE data[i] \in Tokens /\ IsByte(data[i]) /\ data[i].id = sent + i
  <2>1. data[i] = Byte(f[i], sent + i) /\ f[i] \in {"hex", "nl", "other"} /\ sent + i \in 0 .. NPay
    <3>1. data[i] = Byte(f[i], sent + i)
      BY <1>4
    <3>2. f[i] \in Kinds /\ Kinds \subseteq {"hex", "nl", "other"}
      BY NtripAssumption
    <3>3. sent + i \in 0 .. NPay
      BY <1>3
    <3>. QED  BY <3>1, <3>2, <3>3
  <2>. DEFINE t == f[i]
              x == IF t = "hex" THEN 1 ELSE 0
              y == sent + i
  <2>2. data[i] = [t |-> t, v |-> x, id |-> y] /\ x \in Nat
    BY <2>1 DEF Byte
  <2>. HIDE DEF x, t
  <2>. QED  BY <2>1, <2>2 DEF Tokens, IsByte, t
<1>6. data \in Seq(Tokens) /\ Len(data) = m
  <2>1. data \in [1 .. m -> Tokens]
    BY <1>4, <1>5
  <2>. QED  BY <1>3, <2>1
<1>7. Plain(data, sent, sent + m)
  BY <1>3, <1>5, <1>6 DEF Plain
<1>8. CASE talk = "raw" /\ wire' = wire \o data
  <2>1. Sent(talk, sent, m, data)
    BY <1>6, <1>7, <1>8 DEF Sent
  <2>. QED  BY <1>2, <1>8, <2>1 DEF Send
<1>9. CASE talk = "chunk" /\ m <= SizeMax /\ \E sz \in Sizes(m) :
                   wire' = wire \o sz \o <<NewLine>> \o data \o <<NewLine>>
  <2>1. PICK sz \in Sizes(m) : wire' = wire \o sz \o <<NewLine>> \o data \o <<NewLine>>
    BY <1>9
  <2>. DEFINE v == sz \o <<NewLine>> \o data \o <<NewLine>>
  <2>2. Sent(talk, sent, m, v)
    BY <1>6, <1>7, <1>9 DEF Sent
  <2>3. wire' = wire \o v
    <3>. DEFINE x == <<NewLine>>
    <3>1. x \in Seq(Tokens) /\ sz \in Seq(Tokens)
      BY <1>3, SizesTyped, FrameTokens
    <3>2. wire' = wire \o sz \o x \o data \o x
      BY <2>1
    <3>. HIDE DEF x
    <3>3. wire \o (sz \o x \o data \o x) = wire \o sz \o x \o data \o x
      <4>1. wire \in Seq(Tokens) /\ data \in Seq(Tokens)
        BY <1>3, <1>6
      <4>. DEFINE y == sz \o x
      <4>2. wire \o y = wire \o sz \o x
        BY <3>1, <4>1, Joins
      <4>3. y \in Seq(Tokens)
        BY <3>1, ConcatProperties
      <4>. HIDE DEF y
      <4>. DEFINE z == y \o data
      <4>4. wire \o z = wire \o y \o data
        BY <4>1, <4>3, Joins
      <4>5. z \in Seq(Tokens)
        BY <4>1, <4>3, ConcatProperties
      <4>6. x \in Seq(Tokens)
        BY <3>1
      <4>. HIDE DEF z
      <4>7. wire \o (z \o x) = wire \o z \o x
        BY <4>1, <4>5, <4>6, Joins
      <4>. QED  BY <4>2, <4>4, <4>7 DEF y, z
    <3>. QED  BY <3>2, <3>3 DEF x
  <2>. HIDE DEF v
  <2>. QED  BY <1>2, <1>9, <2>2, <2>3 DEF Send
<1>. QED  BY <1>2, <1>8, <1>9

LEMMA FinishIs ==
  ASSUME CliTypes, Finish
  PROVE  peer /\ talk = "chunk" /\ peer' = FALSE /\ \E v : LastChunk(v) /\ wire' = wire \o v
<1>1. PICK trailer \in {<<>>, <<Extension, NewLine>>} :
        wire' = wire \o <<Digit(0), NewLine>> \o trailer \o <<NewLine>>
  BY DEF Finish
<1>. DEFINE v == <<Digit(0), NewLine>> \o trailer \o <<NewLine>>
<1>2. LastChunk(v)
  BY DEF LastChunk
<1>3. wire' = wire \o v
  <2>. DEFINE a == <<Digit(0), NewLine>>
              x == <<NewLine>>
              e == Extension
              y == NewLine
  <2>1. a \in Seq(Tokens) /\ x \in Seq(Tokens) /\ e \in Tokens /\ y \in Tokens /\ wire \in Seq(Tokens)
    BY FrameTokens DEF CliTypes, OnWire
  <2>. HIDE DEF e, y
  <2>2. trailer \in Seq(Tokens)
    <3>1. <<>> \in Seq(Tokens) /\ <<e, y>> \in Seq(Tokens)
      BY <2>1
    <3>. QED  BY <3>1 DEF e, y
  <2>3. wire' = wire \o a \o trailer \o x
    BY <1>1
  <2>. HIDE DEF a, x
  <2>4. wire \o (a \o trailer \o x) = wire \o a \o trailer \o x
    <3>1. wire \in Seq(Tokens) /\ a \in Seq(Tokens) /\ x \in Seq(Tokens)
      BY <2>1
    <3>. DEFINE z == a \o trailer
    <3>2. wire \o z = wire \o a \o trailer
      BY <2>2, <3>1, Joins
    <3>3. z \in Seq(Tokens)
      BY <2>2, <3>1, ConcatProperties
    <3>. HIDE DEF z
    <3>4. wire \o (z \o x) = wire \o z \o x
      BY <3>1, <3>3, Joins
    <3>. QED  BY <3>2, <3>4 DEF z
  <2>. QED  BY <2>3, <2>4 DEF a, x
<1>. HIDE DEF v
<1>. QED  BY <1>2, <1>3 DEF Finish

\* More of the payload
LEMMA SendKept == ASSUME HdrMax > 3, CliStrong, Send PROVE CliStrong'
<1>1. peer /\ peer \in BOOLEAN /\ talk \in {"raw", "chunk"}
  BY SendIs DEF CliStrong, CliTypes
<1>2. PICK m, v : m \in 1 .. NPay - sent /\ Sent(talk, sent, m, v) /\ wire' = wire \o v /\ sent' = sent + m
  BY SendIs DEF CliStrong
<1>3. UNCHANGED <<pc, state, buff, verNeg, v2Tried, chunked, dec, got, http, link, calm, caster, peer, asked, talk>>
  BY DEF Send, client
<1>4. /\ m \in Nat \ {0} /\ sent \in Nat /\ sent' \in 0 .. NPay /\ NPay \in Nat /\ sent <= sent'
      /\ OnWire(wire) /\ wire \in Seq(Tokens)
  BY <1>2, NtripAssumption DEF CliStrong, CliTypes, OnWire
<1>5. v \in Seq(Tokens) /\ \A i \in 1 .. Len(v) : IsByte(v[i])
  BY <1>2, <1>4, SentBytes
<1>6. OnWire(wire') /\ \A i \in 1 .. Len(v) : v[i].t \notin Ends
  BY <1>2, <1>4, <1>5, BytesFollow
<1>7. \A d, e : \A s \in Seq(Tokens) : Coming(talk, d, e, s, peer, sent) => Coming(talk, d, e, s \o v, peer, sent')
  <2>1. ASSUME NEW d, NEW e, NEW s \in Seq(Tokens), Coming(talk, d, e, s, peer, sent)
        PROVE  Coming(talk, d, e, s \o v, peer, sent')
    <3>1. Coming(talk, d, e, s \o v, peer, sent + m)
      BY <1>1, <1>2, <1>4, <2>1, ComingMore
    <3>. QED  BY <1>2, <3>1
  <2>. QED  BY <2>1
<1>8. CliTypes'
  <2>1. PICK g \in 0 .. sent : got = Got(g)
    BY DEF CliStrong, CliTypes
  <2>2. g \in 0 .. sent'
    BY <1>4
  <2>3. \E h \in 0 .. sent' : got' = Got(h)
    BY <1>3, <2>1, <2>2
  <2>. QED  BY <1>3, <1>4, <1>6, <2>3 DEF CliStrong, CliTypes
<1>9. ASSUME link, state = 1 PROVE Awaited(buff', wire', talk', peer', sent', caster')
  <2>1. Awaited(buff, wire, talk, peer, sent, caster) /\ buff \in Seq(Tokens)
    BY <1>9 DEF CliStrong, Connected, CliTypes, Tame
  <2>2. Awaited(buff, wire \o v, talk, peer, sent', caster)
    BY <1>1, <1>4, <1>5, <1>6, <1>7, <2>1, AwaitedMore
  <2>. QED  BY <1>2, <1>3, <2>2, Zenon
<1>10. ASSUME link, state = 2 PROVE Receiving'
  <2>1. PICK f, n : Flow(talk, dec, Len(got), buff, f, n) /\ Coming(talk, f, n, wire, peer, sent)
    BY <1>10 DEF CliStrong, Connected, Receiving
  <2>2. Coming(talk, f, n, wire', peer, sent')
    BY <1>2, <1>4, <1>7, <2>1
  <2>3. \E e, m_1 : Flow(talk', dec', Len(got'), buff', e, m_1) /\ Coming(talk', e, m_1, wire', peer', sent')
    BY <1>3, <2>1, <2>2
  <2>. QED  BY <1>3, <1>10, <2>3 DEF CliStrong, Connected, Receiving
<1>11. Connected'
  <2>1. ~(link /\ asked # 0)
    BY <1>1 DEF CliStrong, Connected
  <2>. QED  BY <1>3, <1>9, <1>10, <2>1 DEF CliStrong, Connected
<1>. QED  BY <1>8, <1>11 DEF CliStrong

\* The last chunk
LEMMA FinishKept == ASSUME HdrMax > 3, CliStrong, Finish PROVE CliStrong'
<1>1. peer /\ peer \in BOOLEAN /\ talk = "chunk" /\ peer' = FALSE
  BY FinishIs DEF CliStrong, CliTypes
<1>2. PICK v : LastChunk(v) /\ wire' = wire \o v
  BY FinishIs DEF CliStrong
<1>3. UNCHANGED <<pc, state, buff, verNeg, v2Tried, chunked, dec, got, http, link, calm, caster, asked, talk, sent>>
  BY DEF Finish, client
<1>4. OnWire(wire) /\ wire \in Seq(Tokens)
  BY DEF CliStrong, CliTypes, OnWire
<1>5. v \in Seq(Tokens) /\ \A i \in 1 .. Len(v) : IsByte(v[i])
  BY <1>2, LastBytes
<1>6. OnWire(wire') /\ \A i \in 1 .. Len(v) : v[i].t \notin Ends
  BY <1>2, <1>4, <1>5, BytesFollow
<1>7. \A d, e : \A s \in Seq(Tokens) : Coming(talk, d, e, s, peer, sent) => Coming(talk, d, e, s \o v, FALSE, sent)
  <2>1. ASSUME NEW d, NEW e, NEW s \in Seq(Tokens), Coming("chunk", d, e, s, peer, sent)
        PROVE  Coming("chunk", d, e, s \o v, FALSE, sent)
    BY <1>1, <1>2, <2>1, ComingAll
  <2>. QED  BY <1>1, <2>1, Zenon
<1>8. CliTypes'
  BY <1>1, <1>3, <1>6 DEF CliStrong, CliTypes
<1>9. ASSUME link, state = 1 PROVE Awaited(buff', wire', talk', peer', sent', caster')
  <2>1. Awaited(buff, wire, talk, peer, sent, caster) /\ buff \in Seq(Tokens) /\ talk \in {"raw", "chunk"}
    BY <1>1, <1>9 DEF CliStrong, Connected, CliTypes, Tame
  <2>2. Awaited(buff, wire \o v, talk, FALSE, sent, caster)
    BY <1>4, <1>5, <1>6, <1>7, <2>1, AwaitedMore
  <2>. QED  BY <1>1, <1>2, <1>3, <2>2, Zenon
<1>10. ASSUME link, state = 2 PROVE Receiving'
  <2>1. PICK f, n : Flow(talk, dec, Len(got), buff, f, n) /\ Coming(talk, f, n, wire, peer, sent)
    BY <1>10 DEF CliStrong, Connected, Receiving
  <2>2. Coming(talk, f, n, wire \o v, FALSE, sent)
    BY <1>4, <1>7, <2>1, Zenon
  <2>3. Coming(talk, f, n, wire', peer', sent)
    BY <1>1, <1>2, <2>2, Zenon
  <2>4. \E e, m_1 : Flow(talk', dec', Len(got'), buff', e, m_1) /\ Coming(talk', e, m_1, wire', peer', sent')
    BY <1>3, <2>1, <2>3
  <2>. QED  BY <1>3, <1>10, <2>4 DEF CliStrong, Connected, Receiving
<1>11. Connected'
  <2>1. ~(link /\ asked # 0)
    BY <1>1 DEF CliStrong, Connected
  <2>. QED  BY <1>3, <1>9, <1>10, <2>1 DEF CliStrong, Connected
<1>. QED  BY <1>8, <1>11 DEF CliStrong

\* The caster closes the connection; what it has sent still comes.
LEMMA CloseKept ==
  ASSUME CliStrong, peer' = FALSE, asked' \in {0, asked}, UNCHANGED <<client, link, calm, caster, talk, wire, sent>>
  PROVE  CliStrong'
<1>1. UNCHANGED <<pc, state, buff, verNeg, v2Tried, chunked, dec, got, http>>
  BY DEF client
<1>2. CliTypes'
  <2>1. asked' \in 0 .. 2
    BY DEF CliStrong, CliTypes
  <2>. QED  BY <1>1, <2>1 DEF CliStrong, CliTypes
<1>3. ASSUME link, state = 1 PROVE Awaited(buff', wire', talk', peer', sent', caster')
  <2>1. Awaited(buff, wire, talk, peer, sent, caster)
    BY <1>3 DEF CliStrong, Connected
  <2>2. Awaited(buff, wire, talk, FALSE, sent, caster)
    BY <2>1, AwaitedClose, Zenon
  <2>. QED  BY <1>1, <2>2, Zenon
<1>4. ASSUME link, state = 2 PROVE Receiving'
  <2>1. PICK f, n : Flow(talk, dec, Len(got), buff, f, n) /\ Coming(talk, f, n, wire, peer, sent)
    BY <1>4 DEF CliStrong, Connected, Receiving
  <2>2. Coming(talk, f, n, wire, FALSE, sent)
    BY <2>1, ComingClose, Zenon
  <2>3. Coming(talk, f, n, wire, peer', sent)
    BY <2>2, Zenon
  <2>4. \E e, m : Flow(talk', dec', Len(got'), buff', e, m) /\ Coming(talk', e, m, wire', peer', sent')
    BY <1>1, <2>1, <2>3
  <2>. QED  BY <1>1, <1>4, <2>4 DEF CliStrong, Connected, Receiving
<1>5. Connected'
  BY <1>1, <1>3, <1>4 DEF CliStrong, Connected
<1>. QED  BY <1>2, <1>5 DEF CliStrong

LEMMA ReplaceKept == ASSUME CliStrong, Replace PROVE CliStrong'
<1>1. CliTypes'
  BY DEF CliStrong, CliTypes, Replace, client
<1>2. Connected'
  BY DEF CliStrong, Connected, Replace, client
<1>. QED  BY <1>1, <1>2 DEF CliStrong

LEMMA CalmKept == ASSUME CliStrong, Calm PROVE CliStrong'
<1>1. CliTypes'
  BY DEF CliStrong, CliTypes, Calm, client
<1>2. link /\ state = 2 => Receiving'
  BY ReceivingKept DEF CliStrong, Connected, Calm, client
<1>3. Connected'
  BY <1>2 DEF CliStrong, Connected, Calm, client
<1>. QED  BY <1>1, <1>3 DEF CliStrong

\* A whole answer: only its last line is one of Ends.
Complete(u, tk, c) ==
    /\ OnWire(u) /\ tk \in {"none", "header", "raw", "chunk"}
    /\ \A i \in 1 .. Len(u) : u[i].t \in Ends => i = Len(u)
    /\ \A b, p : Awaited(b, u, tk, p, 0, c)

LEMMA LineTyped ==
  ASSUME NEW t \in {"icy", "st", "chunk", "tbl", "end", "hex", "nl", "other"}, NEW v \in Nat
  PROVE  Token(t, v) \in Tokens /\ Token(t, v).t = t
<1>1. 0 \in 0 .. NPay
  BY NtripAssumption
<1>. QED  BY <1>1 DEF Token, Tokens

LEMMA FullEnds ==
  ASSUME NEW u, OnWire(u), NEW tk \in {"none", "raw", "chunk"}, NEW c, Len(u) \in Nat \ {0},
         u[Len(u)].t \in Ends, \A i \in 1 .. Len(u) : u[i].t \in Ends => i = Len(u),
         u[Len(u)].t = "icy" => c \in V1 /\ tk = "raw",
         u[Len(u)].t = "end" => /\ c \in {"v2raw", "v2chunk"} /\ (tk = "raw" => c = "v2raw")
                                /\ tk = "chunk" => \E i \in 1 .. Len(u) : u[i].t = "chunk"
  PROVE  Complete(u, tk, c)
<1>1. u \in Seq(Tokens)
  BY DEF OnWire
<1>2. ASSUME NEW b, NEW p PROVE Awaited(b, u, tk, p, 0, c)
  <2>. DEFINE j == Len(u)
  <2>1. After(u, j) = <<>>
    BY <1>1, Whole
  <2>2. Coming(tk, ChunkDecInit, 0, <<>>, p, 0)
    BY ComingNone
  <2>3. Coming(tk, ChunkDecInit, 0, After(u, j), p, 0)
    BY <2>1, <2>2, Zenon
  <2>4. j \in 1 .. Len(u)
    OBVIOUS
  <2>5. Behind(b, u, tk, p, 0, c, j)
    BY <2>3 DEF Behind
  <2>. QED  BY <2>4, <2>5 DEF Awaited
<1>. QED  BY <1>2 DEF Complete

LEMMA FullIcy == ASSUME NEW c \in V1 PROVE Complete(<<Token("icy", 0)>>, "raw", c)
<1>. DEFINE x == Token("icy", 0)
            u == <<x>>
<1>1. x \in Tokens /\ x.t = "icy"
  BY LineTyped
<1>. HIDE DEF x
<1>2. u \in Seq(Tokens) /\ Len(u) = 1 /\ u[1] = x
  BY <1>1
<1>. HIDE DEF u
<1>3. OnWire(u)
  BY <1>1, <1>2 DEF OnWire, Ends
<1>4. Complete(u, "raw", c)
  BY <1>1, <1>2, <1>3, FullEnds DEF Ends
<1>. QED  BY <1>4 DEF u, x

LEMMA FullTwo ==
  ASSUME NEW v \in Nat, NEW tk \in {"none", "raw"}, NEW c \in {"v2raw", "v2chunk"}, tk = "raw" => c = "v2raw"
  PROVE  Complete(<<Token("st", v), Token("end", 0)>>, tk, c)
<1>. DEFINE x == Token("st", v)
            y == Token("end", 0)
            u == <<x, y>>
<1>1. x \in Tokens /\ x.t = "st" /\ y \in Tokens /\ y.t = "end"
  BY LineTyped
<1>. HIDE DEF x, y
<1>2. u \in Seq(Tokens) /\ Len(u) = 2 /\ u[1] = x /\ u[2] = y
  BY <1>1
<1>. HIDE DEF u
<1>3. OnWire(u)
  BY <1>1, <1>2 DEF OnWire, Ends, Mild
<1>4. \A i \in 1 .. Len(u) : u[i].t \in Ends => i = Len(u)
  BY <1>1, <1>2 DEF Ends
<1>5. Len(u) \in Nat \ {0} /\ u[Len(u)].t = "end" /\ tk # "chunk"
  BY <1>1, <1>2
<1>6. Complete(u, tk, c)
  BY <1>3, <1>4, <1>5, FullEnds DEF Ends
<1>. QED  BY <1>6 DEF u, x, y

LEMMA FullThree ==
  ASSUME NEW t \in {"tbl", "chunk"}, NEW tk \in {"none", "chunk"}, tk = "chunk" <=> t = "chunk",
         NEW c \in {"v2raw", "v2chunk"}, c \in Casters, tk = "chunk" => c = "v2chunk"
  PROVE  Complete(<<Token("st", 200), Token(t, 0), Token("end", 0)>>, tk, c)
<1>. DEFINE x == Token("st", 200)
            y == Token(t, 0)
            z == Token("end", 0)
            u == <<x, y, z>>
<1>1. x \in Tokens /\ x.t = "st" /\ y \in Tokens /\ y.t = t /\ z \in Tokens /\ z.t = "end"
  BY LineTyped
<1>. HIDE DEF x, y, z
<1>2. u \in Seq(Tokens) /\ Len(u) = 3 /\ u[1] = x /\ u[2] = y /\ u[3] = z
  BY <1>1
<1>. HIDE DEF u
<1>3. OnWire(u)
  <2>1. t \in Mild
    BY DEF Mild
  <2>2. "st" \in Mild /\ "end" \in Ends
    BY DEF Mild, Ends
  <2>3. ASSUME NEW i \in 1 .. Len(u) PROVE u[i].t \in Mild \cup Ends
    <3>1. i = 1 \/ i = 2 \/ i = 3
      BY <1>2
    <3>. QED  BY <1>1, <1>2, <2>1, <2>2, <3>1
  <2>. QED  BY <1>2, <2>3 DEF OnWire
<1>4. \A i \in 1 .. Len(u) : u[i].t \in Ends => i = Len(u)
  BY <1>1, <1>2 DEF Ends
<1>5. tk = "chunk" => \E i \in 1 .. Len(u) : u[i].t = "chunk"
  <2>1. 2 \in 1 .. Len(u)
    BY <1>2
  <2>. QED  BY <1>1, <1>2, <2>1
<1>6. Len(u) \in Nat \ {0} /\ u[Len(u)].t = "end" /\ tk # "raw"
  BY <1>1, <1>2
<1>7. Complete(u, tk, c)
  BY <1>3, <1>4, <1>5, <1>6, FullEnds DEF Ends
<1>. QED  BY <1>7 DEF u, x, y, z

LEMMA FullFlood == ASSUME NEW c PROVE Complete([i \in 1 .. MaxRsp |-> Extension], "header", c)
<1>. DEFINE u == [i \in 1 .. MaxRsp |-> Extension]
<1>1. Extension \in Tokens /\ Extension.t = "other" /\ MaxRsp \in Nat
  BY FrameTokens, NtripAssumption DEF Extension
<1>2. u \in Seq(Tokens) /\ Len(u) = MaxRsp /\ \A i \in 1 .. MaxRsp : u[i] = Extension
  BY <1>1
<1>. HIDE DEF u
<1>3. \A i \in 1 .. Len(u) : u[i].t = "other"
  BY <1>1, <1>2
<1>4. OnWire(u)
  BY <1>2, <1>3 DEF OnWire, Mild
<1>5. \A i \in 1 .. Len(u) : u[i].t \notin Ends
  BY <1>3 DEF Ends
<1>6. Complete(u, "header", c)
  <2>1. \A b, p : Awaited(b, u, "header", p, 0, c)
    BY <1>5 DEF Awaited
  <2>. QED  BY <1>4, <1>5, <2>1 DEF Complete
<1>. QED  BY <1>6 DEF u

LEMMA OkIs ==
  ASSUME NEW x
  PROVE  Ok(<<>>) = <<Token("st", 200), Token("end", 0)>> /\ Ok(<<x>>) = <<Token("st", 200), x, Token("end", 0)>>
<1>. DEFINE y == Token("st", 200)
            z == Token("end", 0)
<1>. HIDE DEF y, z
<1>1. <<y>> \o <<>> = <<y>>
  OBVIOUS
<1>2. <<y>> \o <<z>> = <<y, z>>
  BY TwoTokens
<1>3. <<y>> \o <<x>> = <<y, x>>
  BY TwoTokens
<1>4. <<y, x>> \o <<z>> = <<y, x, z>>
  <2>. DEFINE S == {x, y, z}
              a == <<y, x>>
              b == <<z>>
              u == a \o b
              v == <<y, x, z>>
  <2>1. a \in Seq(S) /\ b \in Seq(S) /\ v \in Seq(S) /\ Len(a) = 2 /\ Len(b) = 1 /\ Len(v) = 3
        /\ a[1] = y /\ a[2] = x /\ b[1] = z /\ v[1] = y /\ v[2] = x /\ v[3] = z
    OBVIOUS
  <2>. HIDE DEF S, a, b, v
  <2>2. /\ u \in Seq(S) /\ Len(u) = Len(a) + Len(b)
        /\ \A i \in 1 .. Len(a) + Len(b) : u[i] = IF i <= Len(a) THEN a[i] ELSE b[i - Len(a)]
    BY <2>1, ConcatProperties
  <2>. HIDE DEF u
  <2>3. Len(u) = 3 /\ u[1] = y /\ u[2] = x /\ u[3] = z
    BY <2>1, <2>2
  <2>4. \A i \in 1 .. 3 : u[i] = v[i]
    BY <2>1, <2>3
  <2>5. u = v
    BY <2>1, <2>2, <2>3, <2>4, SeqEqual
  <2>. QED  BY <2>5 DEF a, b, u, v
<1>5. Ok(<<>>) = <<y>> \o <<>> \o <<z>> /\ Ok(<<x>>) = <<y>> \o <<x>> \o <<z>>
  BY DEF Ok, y, z
<1>. QED  BY <1>1, <1>2, <1>3, <1>4, <1>5 DEF y, z

LEMMA AnswersAre ==
  ASSUME CliTypes, NEW v, NEW a,
         a \in Answers(v) \/ (caster \in {"v2raw", "v2chunk"} /\ a \in Refusals)
  PROVE  Complete(a[1], a[2], caster)
<1>0. caster \in Casters
  BY DEF CliTypes
<1>1. CASE caster \in V1 /\ a = <<<<Token("icy", 0)>>, "raw">>
  <2>1. a[1] = <<Token("icy", 0)>> /\ a[2] = "raw"
    BY <1>1
  <2>. QED  BY <1>1, <2>1, FullIcy
<1>2. CASE caster = "v2raw" /\ a = <<Ok(<<>>), "raw">>
  <2>1. a[1] = <<Token("st", 200), Token("end", 0)>> /\ a[2] = "raw"
    BY <1>2, OkIs
  <2>. QED  BY <1>2, <2>1, FullTwo
<1>3. CASE caster = "v2chunk" /\ a = <<Ok(<<Token("chunk", 0)>>), "chunk">>
  <2>1. a[1] = <<Token("st", 200), Token("chunk", 0), Token("end", 0)>> /\ a[2] = "chunk"
    BY <1>3, OkIs
  <2>. QED  BY <1>0, <1>3, <2>1, FullThree
<1>4. CASE caster = "flood" /\ a = <<[i \in 1 .. MaxRsp |-> Extension], "header">>
  <2>1. a[1] = [i \in 1 .. MaxRsp |-> Extension] /\ a[2] = "header"
    BY <1>4
  <2>. QED  BY <2>1, FullFlood
<1>5. CASE caster \in {"v2raw", "v2chunk"} /\ a = <<<<Token("st", 401), Token("end", 0)>>, "none">>
  <2>1. a[1] = <<Token("st", 401), Token("end", 0)>> /\ a[2] = "none"
    BY <1>5
  <2>. QED  BY <1>5, <2>1, FullTwo
<1>6. CASE caster \in {"v2raw", "v2chunk"} /\ a = <<Ok(<<Token("tbl", 0)>>), "none">>
  <2>1. a[1] = <<Token("st", 200), Token("tbl", 0), Token("end", 0)>> /\ a[2] = "none"
    BY <1>6, OkIs
  <2>. QED  BY <1>0, <1>6, <2>1, FullThree
<1>7. caster \in {"v1", "v1strict", "v2raw", "v2chunk", "flood"}
  BY <1>0, NtripAssumption
<1>8. CASE a \in Answers(v)
  <2>1. CASE caster \in V1
    BY <1>1, <1>8, <2>1 DEF Answers, V1
  <2>2. CASE caster = "v2raw"
    BY <1>2, <1>8, <2>2 DEF Answers
  <2>3. CASE caster = "v2chunk"
    BY <1>3, <1>8, <2>3 DEF Answers
  <2>4. CASE caster = "flood"
    BY <1>4, <1>8, <2>4 DEF Answers
  <2>. QED  BY <1>7, <2>1, <2>2, <2>3, <2>4 DEF V1
<1>9. CASE caster \in {"v2raw", "v2chunk"} /\ a \in Refusals
  BY <1>5, <1>6, <1>9 DEF Refusals
<1>. QED  BY <1>8, <1>9

LEMMA AnswerKept == ASSUME CliStrong, Answer PROVE CliStrong'
<1>1. PICK a : /\ a \in Answers(asked) \/ (caster \in {"v2raw", "v2chunk"} /\ a \in Refusals)
               /\ wire' = wire \o a[1] /\ talk' = a[2]
  <2>1. PICK a \in Answers(asked) \cup (IF ~calm /\ caster \in {"v2raw", "v2chunk"} THEN Refusals ELSE {}) :
          wire' = wire \o a[1] /\ talk' = a[2]
    BY DEF Answer
  <2>. QED  BY <2>1
<1>2. Complete(a[1], a[2], caster)
  BY <1>1, AnswersAre DEF CliStrong
<1>. DEFINE u == a[1]
            tk == a[2]
<1>3. /\ OnWire(u) /\ tk \in {"none", "header", "raw", "chunk"} /\ u \in Seq(Tokens)
      /\ \A b, p : Awaited(b, u, tk, p, 0, caster)
  BY <1>2 DEF Complete, OnWire
<1>4. UNCHANGED <<pc, state, buff, verNeg, v2Tried, chunked, dec, got, http, link, calm, caster, peer, sent>>
      /\ asked' = 0 /\ asked # 0
  BY DEF Answer, client
<1>5. wire' = wire \o u /\ talk' = tk
  BY <1>1
<1>. HIDE DEF u, tk
<1>6. OnWire(wire')
  BY <1>3, <1>5, WireMore DEF CliStrong, CliTypes
<1>7. CliTypes'
  BY <1>3, <1>4, <1>5, <1>6 DEF CliStrong, CliTypes
<1>8. ASSUME link PROVE state = 1 /\ got = <<>> /\ Awaited(buff', wire', talk', peer', sent', caster')
  <2>1. state = 1 /\ wire = <<>> /\ sent = 0 /\ got = <<>>
    BY <1>4, <1>8 DEF CliStrong, Connected
  <2>2. wire' = u
    BY <1>3, <1>5, <2>1, ConcatEmptySeq
  <2>3. Awaited(buff, u, tk, peer, 0, caster)
    BY <1>3, Zenon
  <2>4. sent' = 0
    BY <1>4, <2>1
  <2>5. Awaited(buff', wire', talk', peer', sent', caster')
    BY <1>4, <1>5, <2>2, <2>3, <2>4, Zenon
  <2>. QED  BY <2>1, <2>5
<1>9. Connected'
  BY <1>4, <1>8 DEF CliStrong, Connected
<1>. QED  BY <1>7, <1>9 DEF CliStrong

\* A cut answer never gets to its last line.
LEMMA AnswerCutKept == ASSUME CliStrong, AnswerCut PROVE CliStrong'
<1>1. PICK a \in Answers(asked), k \in 0 .. 2 :
        k < Len(a[1]) /\ wire' = wire \o First(a[1], k) \o <<Extension>>
  BY DEF AnswerCut
<1>2. Complete(a[1], a[2], caster)
  BY AnswersAre DEF CliStrong
<1>. DEFINE u == a[1]
            h == First(u, k)
            x == <<Extension>>
<1>3. OnWire(u) /\ u \in Seq(Tokens) /\ k < Len(u) /\ \A i \in 1 .. Len(u) : u[i].t \in Ends => i = Len(u)
  BY <1>1, <1>2 DEF Complete, OnWire
<1>4. UNCHANGED <<pc, state, buff, verNeg, v2Tried, chunked, dec, got, http, link, calm, caster, talk, sent>>
      /\ asked' = 0 /\ asked # 0 /\ peer' = FALSE /\ wire' = wire \o h \o x
  BY <1>1 DEF AnswerCut, client
<1>. HIDE DEF u
<1>5. Len(u) \in Nat /\ k \in 0 .. Len(u) /\ k \in Nat
  BY <1>3, LenProperties
<1>6. h \in Seq(Tokens) /\ Len(h) = k /\ \A i \in 1 .. k : h[i] = u[i]
  BY <1>3, <1>5, FirstIs
<1>. HIDE DEF h
<1>7. ASSUME NEW i \in 1 .. Len(h) PROVE h[i].t \in Mild
  <2>1. i \in 1 .. Len(u) /\ i # Len(u) /\ h[i] = u[i]
    BY <1>3, <1>5, <1>6
  <2>. QED  BY <1>3, <2>1 DEF OnWire
<1>8. x \in Seq(Tokens) /\ Len(x) = 1 /\ x[1].t = "other"
  <2>. DEFINE e == Extension
  <2>1. e \in Tokens /\ e.t = "other"
    BY FrameTokens DEF Extension
  <2>. HIDE DEF e
  <2>2. <<e>> \in Seq(Tokens) /\ Len(<<e>>) = 1 /\ <<e>>[1] = e
    BY <2>1
  <2>. QED  BY <2>1, <2>2 DEF e
<1>. HIDE DEF x
<1>9. h \o x \in Seq(Tokens) /\ \A i \in 1 .. Len(h \o x) : (h \o x)[i].t \in Mild
  <2>. DEFINE y == h \o x
  <2>1. /\ y \in Seq(Tokens) /\ Len(y) = k + 1
        /\ \A i \in 1 .. k + 1 : y[i] = IF i <= k THEN h[i] ELSE x[i - k]
    <3>1. h \in Seq(Tokens) /\ x \in Seq(Tokens)
      BY <1>6, <1>8
    <3>2. /\ y \in Seq(Tokens) /\ Len(y) = Len(h) + Len(x)
          /\ \A i \in 1 .. Len(h) + Len(x) : y[i] = IF i <= Len(h) THEN h[i] ELSE x[i - Len(h)]
      BY <3>1, ConcatProperties
    <3>. QED  BY <1>6, <1>8, <3>2
  <2>. HIDE DEF y
  <2>2. ASSUME NEW i \in 1 .. Len(y) PROVE y[i].t \in Mild
    <3>1. CASE i <= k
      <4>1. i \in 1 .. Len(h) /\ y[i] = h[i]
        BY <1>5, <1>6, <2>1, <3>1
      <4>. QED  BY <1>7, <4>1
    <3>2. CASE ~(i <= k)
      <4>1. i - k = 1 /\ y[i] = x[i - k]
        BY <1>5, <2>1, <3>2
      <4>2. y[i].t = "other"
        BY <1>8, <4>1
      <4>. QED  BY <4>2 DEF Mild
    <3>. QED  BY <3>1, <3>2
  <2>3. y \in Seq(Tokens) /\ \A i \in 1 .. Len(y) : y[i].t \in Mild
    BY <2>1, <2>2
  <2>. QED  BY <2>3 DEF y
<1>. DEFINE y == h \o x
<1>10. OnWire(y) /\ y \in Seq(Tokens) /\ \A i \in 1 .. Len(y) : y[i].t \notin Ends
  <2>1. \A t \in Mild : t \notin Ends
    BY DEF Mild, Ends
  <2>. QED  BY <1>9, <2>1 DEF OnWire
<1>11. wire' = wire \o y
  <2>1. wire \in Seq(Tokens)
    BY DEF CliStrong, CliTypes, OnWire
  <2>2. h \in Seq(Tokens) /\ x \in Seq(Tokens)
    BY <1>6, <1>8
  <2>3. wire \o (h \o x) = wire \o h \o x
    BY <2>1, <2>2, Joins
  <2>. QED  BY <1>4, <2>3
<1>. HIDE DEF y
<1>12. OnWire(wire')
  BY <1>10, <1>11, WireMore DEF CliStrong, CliTypes
<1>13. CliTypes'
  <2>1. asked' \in 0 .. 2
    BY <1>4
  <2>2. peer' \in BOOLEAN
    BY <1>4
  <2>3. UNCHANGED <<pc, state, buff, verNeg, v2Tried, chunked, dec, got, http, link, calm, caster, talk, sent>>
    BY <1>4
  <2>. QED  BY <1>12, <2>1, <2>2, <2>3 DEF CliStrong, CliTypes
<1>14. ASSUME link PROVE state = 1 /\ got = <<>> /\ Awaited(buff', wire', talk', peer', sent', caster')
  <2>1. state = 1 /\ wire = <<>> /\ got = <<>> /\ talk = "none"
    BY <1>4, <1>14 DEF CliStrong, Connected
  <2>2. wire' = y /\ talk' = "none"
    BY <1>4, <1>10, <1>11, <2>1, ConcatEmptySeq
  <2>3. Awaited(buff', wire', talk', peer', sent', caster')
    BY <1>10, <2>2 DEF Awaited
  <2>. QED  BY <2>1, <2>3
<1>15. Connected'
  BY <1>4, <1>14 DEF CliStrong, Connected
<1>. QED  BY <1>13, <1>15 DEF CliStrong

-----------------------------------------------------------------------------
(* Every step, and the specification.                                       *)

LEMMA CliStrongStep == ASSUME OneCoding, HdrMax > 3, CliStrong, Next PROVE CliStrong'
<1>1. CASE Lost
  <2>1. Discon /\ pc' = "idle" /\ UNCHANGED <<state, buff, verNeg, v2Tried, chunked, dec, got, http>>
    BY <1>1 DEF Lost
  <2>. QED  BY <2>1, LostKept
<1>2. CASE WriteLost
  <2>1. Discon /\ pc' = "idle" /\ UNCHANGED <<state, buff, verNeg, v2Tried, chunked, dec, got, http>>
    BY <1>2 DEF WriteLost
  <2>. QED  BY <2>1, LostKept
<1>3. CASE Read
  BY <1>1, <1>2, <1>3, CallKept, RequestKept, RequestFailsKept, ResponseKept, NothingKept, BodyBuffKept,
     BodyWireKept DEF Read
<1>4. CASE Reject
  <2>1. peer' = FALSE /\ asked' = 0 /\ UNCHANGED <<client, link, calm, caster, talk, wire, sent>>
    BY <1>4 DEF Reject
  <2>. QED  BY <2>1, CloseKept
<1>5. CASE Close
  <2>1. peer' = FALSE /\ asked' = asked /\ UNCHANGED <<client, link, calm, caster, talk, wire, sent>>
    BY <1>5 DEF Close
  <2>. QED  BY <2>1, CloseKept
<1>. QED  BY <1>3, <1>4, <1>5, AnswerKept, AnswerCutKept, SendKept, FinishKept, ReplaceKept, CalmKept DEF Next

LEMMA CliStrongStutter == ASSUME CliStrong, UNCHANGED vars PROVE CliStrong'
<1>1. UNCHANGED <<pc, state, buff, verNeg, v2Tried, chunked, dec, got, http, link, calm, caster, peer, asked, talk,
                  wire, sent>>
  BY DEF vars, client, far
<1>2. CliTypes'
  BY <1>1 DEF CliStrong, CliTypes
<1>3. link /\ state = 2 => Receiving'
  BY <1>1, ReceivingKept DEF CliStrong, Connected
<1>4. Connected'
  BY <1>1, <1>3 DEF CliStrong, Connected
<1>. QED  BY <1>2, <1>4 DEF CliStrong

\* The invariant says what is checked of the client.
LEMMA CliStrongMeans == CliStrong => NtripInv
<1>. SUFFICES ASSUME CliStrong PROVE NtripInv
  OBVIOUS
<1>1. PICK g \in 0 .. sent : got = Got(g)
  BY DEF CliStrong, CliTypes
<1>2. g \in Nat /\ g <= NPay /\ NPay \in Nat
  BY NtripAssumption DEF CliStrong, CliTypes
<1>3. TypeOK
  <2>1. got \in Seq(0 .. NPay)
    BY <1>1, <1>2, GotIs
  <2>2. buff \in Seq(Tokens) /\ wire \in Seq(Tokens)
    BY DEF CliStrong, CliTypes, Tame, OnWire
  <2>. QED  BY <2>1, <2>2 DEF TypeOK, CliStrong, CliTypes
<1>4. Negotiated
  BY DEF Negotiated, CliStrong, Connected, Receiving, V1
<1>5. DeliversInOrder
  <2>1. Len(got) = g
    BY <1>1, <1>2, GotIs
  <2>. QED  BY <1>1, <2>1 DEF DeliversInOrder, Got
<1>. QED  BY <1>3, <1>4, <1>5 DEF NtripInv

\* Whatever caster answers, however the connection cuts headers, size lines and chunks,
\* and however often it is lost and made again (readntrip, rspntrip_c and chunk_decode):
\* the reads of a connection return its payload in order and without gaps, and ver_neg
\* is the version the caster answered in.  OneCoding: the casters at the address do not
\* serve version 2 both raw and in chunks; HdrMax > 3: a size line of the model fits.
THEOREM NtripInvHolds == ASSUME OneCoding, HdrMax > 3 PROVE NtripSpec => []NtripInv
<1>1. NtripInit => CliStrong
  BY CliStrongInit DEF NtripInit
<1>2. CliStrong /\ [NtripNext]_ntripVars => CliStrong'
  BY CliStrongStep, CliStrongStutter DEF NtripNext, ntripVars
<1>. QED  BY <1>1, <1>2, CliStrongMeans, PTL DEF NtripSpec
=============================================================================
