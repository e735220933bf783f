------------------------------- MODULE StrConv -------------------------------
(***************************************************************************)
(* The converter of a stream server output (strconv_t of                    *)
(* src/src/stream/mrtk_streamsvr.c): receiver messages in, RTCM 3 out.      *)
(*                                                                         *)
(* An observation epoch becomes one MSM message per system, or several when *)
(* satellites x signals exceed MaxCell; the multiple message bit (sync)     *)
(* tells the receiver that more of the epoch follows.  Ephemerides of one   *)
(* system are sent as they come or one satellite per interval.              *)
(***************************************************************************)
EXTENDS Integers, Sequences, FiniteSetsExt, SequencesExt, Functions

CONSTANTS
    Systems,    \* satellite systems
    ObsMsgs,    \* the MSM messages asked for: sequence of [sys, tint]
    NPrn,       \* satellites of the system whose ephemerides are sent
    NavTint,    \* interval of the ephemeris message (0: when received)
    MaxCell,    \* cells of an MSM message (64 in the code)
    MaxSat,     \* satellites of a system in an epoch (bound)
    MaxTime     \* epochs and ticks (bound)

ASSUME ConvAssumption ==
    /\ ObsMsgs \in Seq([sys : Systems, tint : Nat])
    /\ NPrn \in Nat \ {0} /\ NavTint \in Nat /\ MaxCell \in Nat \ {0}
    /\ MaxSat \in Nat /\ MaxTime \in Nat

Prns == 1 .. NPrn

VARIABLES
    now,     \* tickget(), and the time of the epoch
    valid,   \* satellites of out.nav.eph that have an ephemeris
    ephsat,  \* conv->ephsat of the ephemeris message, 0 before the first
    tick,    \* conv->tick of the ephemeris message
    epoch,   \* the epoch of the last step: per system [n: satellites, nsig: signals]
    out,     \* the messages it was written as
    nav      \* the satellite the last step wrote an ephemeris of, 0: none

vars == <<now, valid, ephsat, tick, epoch, out, nav>>

SysObs == {r \in [n : 0 .. MaxSat, nsig : 0 .. MaxCell] : (r.n = 0) <=> (r.nsig = 0)}
Message == [i : DOMAIN ObsMsgs, from : 1 .. MaxSat + 1, to : 0 .. MaxSat, sync : BOOLEAN]

TypeOK ==
    /\ now \in 0 .. MaxTime /\ tick \in 0 .. MaxTime
    /\ valid \subseteq Prns /\ ephsat \in 0 .. NPrn /\ nav \in 0 .. NPrn
    /\ epoch \in [Systems -> SysObs]
    /\ out \in Seq(Message)

NoObs == [s \in Systems |-> [n |-> 0, nsig |-> 0]]

Init ==
    /\ now = 0 /\ tick = 0
    /\ valid = {} /\ ephsat = 0
    /\ epoch = NoObs /\ out = <<>> /\ nav = 0

-----------------------------------------------------------------------------
(* Observations.                                                           *)

\* write_rtcm3_msm: ns satellites a message; one empty message when there are
\* none of the system
Pack(i, r, sync) ==
    LET ns   == IF r.nsig = 0 THEN 0 ELSE MaxCell \div r.nsig
        nmsg == IF r.nsig = 0 THEN 1 ELSE (r.n - 1) \div ns + 1
    IN  [k \in 1 .. nmsg |-> [i |-> i, from |-> (k - 1) * ns + 1,
                              to |-> IF k * ns < r.n THEN k * ns ELSE r.n,
                              sync |-> IF k < nmsg THEN TRUE ELSE sync]]

\* is_tint
Due(i) == ObsMsgs[i].tint = 0 \/ now % ObsMsgs[i].tint = 0
LaterDue(i) == \E j \in DOMAIN ObsMsgs : j > i /\ Due(j)

\* write_obs: the messages due, sync set on all but the last
Written(e) ==
    FlattenSeq([i \in DOMAIN ObsMsgs |->
                  IF Due(i) THEN Pack(i, e[ObsMsgs[i].sys], LaterDue(i)) ELSE <<>>])
WriteObs ==
    /\ epoch' \in [Systems -> SysObs]
    /\ out' = Written(epoch')
    /\ nav' = 0 /\ UNCHANGED <<now, valid, ephsat, tick>>

-----------------------------------------------------------------------------
(* Ephemerides.                                                            *)

NothingObs == epoch' = NoObs /\ out' = <<>>

\* mutant: the search starts from the first satellite every time
NextSat_First(p0) ==
    IF p0 = 0 THEN 1 ELSE IF valid \ {p0} = {} THEN 0 ELSE Min(valid \ {p0})

\* nextsat: the first satellite, or the next one with an ephemeris after p0,
\* p0 itself excluded
NextSat(p0) ==
    LET step(d) == ((p0 - 1 + d) % NPrn) + 1
        found   == {d \in 1 .. NPrn - 1 : step(d) \in valid}
    IN  IF p0 = 0 THEN 1 ELSE IF found = {} THEN 0 ELSE step(Min(found))

\* raw2rtcm/rtcm2rtcm store the ephemeris, write_nav sends it when NavTint = 0
ReceiveEph(p) ==
    /\ valid' = valid \cup {p}
    /\ nav' = IF NavTint = 0 THEN p ELSE 0
    /\ NothingObs /\ UNCHANGED <<now, ephsat, tick>>

\* write_nav_cycle: gen_rtcm3 writes nothing for a satellite without ephemeris
WriteNavCycle ==
    /\ NavTint > 0 /\ now - tick >= NavTint
    /\ tick' = now
    /\ LET sat == NextSat(ephsat)
       IN  /\ ephsat' = IF sat = 0 THEN ephsat ELSE sat
           /\ nav' = IF sat \in valid THEN sat ELSE 0
    /\ NothingObs /\ UNCHANGED <<now, valid>>

\* time passes; ticks are compared by their difference, so the bound is reset
Tick ==
    /\ IF now < MaxTime THEN now' = now + 1 /\ UNCHANGED tick
                        ELSE /\ now' = now - tick /\ tick' = 0
                             /\ tick > 0
    /\ nav' = 0 /\ NothingObs /\ UNCHANGED <<valid, ephsat>>

Next == WriteObs \/ (\E p \in Prns : ReceiveEph(p)) \/ WriteNavCycle \/ Tick

-----------------------------------------------------------------------------
(* Properties.                                                             *)

\* The receiver sees the end of every epoch it is sent, and only one end: the
\* sync bit is clear on the last message and set on all the others.
EpochClosed == \A k \in DOMAIN out : out[k].sync = (k # Len(out))

\* The satellites a message of the epoch carries.
Sats(k) == out[k].from .. out[k].to
\* Every satellite of a system is in exactly one message of each MSM type that
\* is due, no message has more than MaxCell cells, and
\* only the last one ends the epoch.
MsmComplete ==
    /\ EpochClosed
    /\ \A k \in DOMAIN out :
          (out[k].to - out[k].from + 1) * epoch[ObsMsgs[out[k].i].sys].nsig <= MaxCell
    /\ \A i \in {out[k].i : k \in DOMAIN out} :
          \A s \in 1 .. epoch[ObsMsgs[i].sys].n :
             Cardinality({k \in DOMAIN out : out[k].i = i /\ s \in Sats(k)}) = 1
=============================================================================
