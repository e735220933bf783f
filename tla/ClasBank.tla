------------------------------ MODULE ClasBank ------------------------------
(***************************************************************************)
(* The banks of CLAS corrections of one channel (clas_bank_ctrl_t of        *)
(* src/src/clas/mrtk_clas.c): orbit, clock, bias and troposphere messages   *)
(* are kept in rings by their time, and clas_bank_get_close puts together   *)
(* the set for an observation, which may be older than the newest messages. *)
(*                                                                         *)
(* Messages are for all networks or for one; the network of the receiver is *)
(* followed.                                                                *)
(* A satellite's values within a message are not told apart.                *)
(***************************************************************************)
EXTENDS Integers, FiniteSets, FiniteSetsExt

CONSTANTS
    BankNum,   \* CLAS_BANK_NUM (32)
    Tu,        \* 30 s
    OrbitAge,  \* 180 s
    Net,       \* the network that is followed
    TropNets,  \* networks with troposphere messages
    MaxTow,    \* bound: times of messages
    MaxMsgs,   \* bound: messages
    MaxOrigin  \* bound: facilities the stream comes from, one after the other

ASSUME BankAssumption == BankNum \in Nat \ {0} /\ Tu \in Nat \ {0} /\ OrbitAge \in Nat
                         /\ Net \in TropNets /\ Net \notin {"none", "all"}

VARIABLES
    bank,       \* OrbitBank, ClockBank, BiasBank and TropBank
    next,       \* NextOrbit, ...
    separation, \* the networks that have orbits or clocks of their own
    facility,   \* bank->Facility
    mask,       \* cssr->l6facility; 0 when cssr->iod = -1
    origin,     \* the facility the frames come from
    tow,        \* time of the messages
    hist        \* the messages taken of the bank's facility

bankVars == <<bank, next, separation, facility, mask, origin, tow, hist>>

Kinds == {"orbit", "clock", "bias", "trop"}
Slot  == 1 .. BankNum
Unused == [net |-> "none", time |-> 0, has |-> {}]
NoSet  == [none |-> TRUE]

Cleared == [k \in Kinds |-> [s \in Slot |-> Unused]]
First   == [k \in Kinds |-> 1]

BankInit ==
    /\ bank = Cleared /\ next = First
    /\ separation = {} /\ facility = 0 /\ mask = 0 /\ origin = 1
    /\ tow = 0 /\ hist = {}

-----------------------------------------------------------------------------
(* Messages.                                                                *)

\* The frames come from another facility (another satellite was locked).
OtherOrigin == origin < MaxOrigin /\ origin' = origin + 1
               /\ UNCHANGED <<bank, next, separation, facility, mask, tow, hist>>

DecodeMask == mask # origin /\ mask' = origin
              /\ UNCHANGED <<bank, next, separation, facility, origin, tow, hist>>

\* Without the mask of this facility (or issue) a message is refused, and all
\* that follow it until the next mask.
Refused == mask \notin {0, origin} /\ mask' = 0
           /\ UNCHANGED <<bank, next, separation, facility, origin, tow, hist>>

Later == tow < MaxTow /\ tow' = tow + 1
         /\ UNCHANGED <<bank, next, separation, facility, mask, origin, hist>>

\* set_cssr_bank_orbit, _clock, _cbias, _pbias and _trop: the entry of this time
\* and network if there is one, else the next slot of the ring.
\* what: "c" and "p" of a bias entry, the networks of a troposphere entry.
Put(b, n, k, net, what) ==
    LET same == {s \in Slot : b[k][s].net = net /\ b[k][s].time = tow}
    IN IF same # {}
       THEN [bank |-> [b EXCEPT ![k][Min(same)].has = @ \cup what], next |-> n]
       ELSE [bank |-> [b EXCEPT ![k][n[k]] = [net |-> net, time |-> tow, has |-> what]],
             next |-> [n EXCEPT ![k] = (@ % BankNum) + 1]]

\* mutant: the rings are kept when the facility changes
DecodeMsg_Keeps(k, net, what) ==
    /\ mask = origin /\ facility' = origin
    /\ Cardinality(hist) < MaxMsgs
    /\ LET p == Put(bank, next, k, net, what)
       IN bank' = p.bank /\ next' = p.next
    /\ separation' = separation \cup (IF k \in {"orbit", "clock"} /\ net # "all" THEN {net} ELSE {})
    /\ hist' = (IF facility # origin THEN {} ELSE hist) \cup {[k |-> k, net |-> net, time |-> tow, has |-> what]}
    /\ UNCHANGED <<mask, origin, tow>>

\* A correction is stored, in cleared rings when it is of another facility
\* (check_cssr_changed_facility).
DecodeMsg(k, net, what) ==
    /\ mask = origin /\ facility' = origin
    /\ Cardinality(hist) < MaxMsgs
    /\ LET new == facility # origin
           p   == Put(IF new THEN Cleared ELSE bank, IF new THEN First ELSE next, k, net, what)
       IN  /\ bank' = p.bank /\ next' = p.next
           /\ separation' = (IF new THEN {} ELSE separation)
                            \cup (IF k \in {"orbit", "clock"} /\ net # "all" THEN {net} ELSE {})
           /\ hist' = (IF new THEN {} ELSE hist)
                      \cup {[k |-> k, net |-> net, time |-> tow, has |-> what]}
    /\ UNCHANGED <<mask, origin, tow>>

\* URA and service messages are not kept in the banks.
DecodeOther == mask = origin /\ UNCHANGED bankVars

BankNext ==
    \/ OtherOrigin \/ DecodeOther \/ DecodeMask \/ Refused \/ Later
    \/ \E k \in {"orbit", "clock"}, net \in {"all", Net} : DecodeMsg(k, net, {})
    \/ \E b \in {{"c"}, {"p"}, {"c", "p"}} : DecodeMsg("bias", "all", b)
    \/ DecodeMsg("bias", Net, {"c", "p"})
    \/ \E net \in TropNets : DecodeMsg("trop", "all", {net})

-----------------------------------------------------------------------------
(* clas_bank_get_close.                                                     *)

Entries(k) == {bank[k][s] : s \in Slot} \ {Unused}
Newest(es) == CHOOSE e \in es : \A f \in es : f.time <= e.time
NewestOr(es) == IF es = {} THEN NoSet ELSE Newest(es)
Search     == IF Net \in separation THEN Net ELSE "all"

CloseOrbit(es, t) == NewestOr({e \in es : e.net = Search /\ e.time <= t /\ t - e.time <= OrbitAge})

CloseClock(es, obst, t) == NewestOr({e \in es : e.net = Search /\ e.time <= obst /\ e.time - t < Tu})

\* the network's own biases if there are any, else those for all
CloseBias(es, t, b) ==
    LET at(net) == {e \in es : e.net = net /\ e.time <= t /\ b \in e.has}
    IN NewestOr(IF at(Net) # {} THEN at(Net) ELSE at("all"))

CloseTrop(es, t) == NewestOr({e \in es : e.time - t <= Tu /\ t - e.time <= Tu /\ Net \in e.has})

Fits(trop, pbias) == trop.time - pbias.time >= 0 /\ trop.time - pbias.time < Tu

\* sub_get_close_cssr
GetClose(t) ==
    LET orbit == CloseOrbit(Entries("orbit"), t)
        trop  == CloseTrop(Entries("trop"), orbit.time)
        near  == CloseBias(Entries("bias"), orbit.time, "p")
        pbias == IF Fits(trop, near) THEN near ELSE CloseBias(Entries("bias"), trop.time, "p")
        cbias == CloseBias(Entries("bias"), pbias.time, "c")
        clock == CloseClock(Entries("clock"), t, orbit.time)
    IN IF \/ orbit = NoSet \/ near = NoSet \/ trop = NoSet \/ pbias = NoSet
          \/ cbias = NoSet \/ clock = NoSet
          \/ cbias.time # pbias.time
          \/ trop.time - orbit.time \notin -Tu .. Tu - 1
          \/ ~Fits(trop, pbias)
       THEN NoSet
       ELSE [orbit |-> orbit.time, clock |-> clock.time, bias |-> pbias.time, trop |-> trop.time]

-----------------------------------------------------------------------------
\* All messages of a kind, and whether the ring has room for those that are not
\* older than e.
Taken(k)  == {[net |-> m.net, time |-> m.time, has |-> {}] : m \in {h \in hist : h.k = k}}
Room(k, e) == Cardinality({f \in Taken(k) : f.time >= e.time}) <= BankNum
Same(k, found, wanted) == wanted = NoSet \/ Room(k, wanted) => found = wanted

\* An observation that is older than the newest messages still gets the orbit
\* and the clock of its own time, as if all messages of the facility were kept
\* and none of another: as long as the later ones do not fill the ring.
LooksBack ==
    \A t \in 0 .. tow :
       /\ Same("orbit", CloseOrbit(Entries("orbit"), t), CloseOrbit(Taken("orbit"), t))
       /\ \A o \in 0 .. t : Same("clock", CloseClock(Entries("clock"), t, o), CloseClock(Taken("clock"), t, o))

\* A complete set for all networks at the present time is what is used then,
\* if the facility has sent none for the network alone.
CompleteSetUsed ==
    LET has(k, w) == \E m \in hist : m.k = k /\ m.time = tow /\ m.net = "all" /\ w \subseteq m.has
    IN /\ mask = origin /\ facility = origin
       /\ \A m \in hist : m.net = "all"
       /\ has("orbit", {}) /\ has("clock", {}) /\ has("bias", {"c"}) /\ has("bias", {"p"}) /\ has("trop", {Net})
       => GetClose(tow) = [orbit |-> tow, clock |-> tow, bias |-> tow, trop |-> tow]

\* Whatever the order of messages, facilities and observations, the corrections
\* handed out are those the messages call for.
BankInv == LooksBack /\ CompleteSetUsed
=============================================================================
