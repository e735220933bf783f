------------------------------ MODULE SsrChain ------------------------------
(***************************************************************************)
(* Precise orbits and clocks of one satellite, from the provider to the     *)
(* satellite's position: decoded from RTCM SSR messages                     *)
(* (src/src/rtcm/mrtk_rtcm3.c) or Galileo HAS messages                      *)
(* (src/src/has/mrtk_has.c), copied by the RTK server, and used with the    *)
(* ephemeris they refer to (satpos_ssr of src/src/data/mrtk_eph.c).         *)
(*                                                                         *)
(* Orbit, clock and high-rate clock come separately and any of them may be  *)
(* lost.  An issue number says what belongs together, but it has few bits   *)
(* and returns; issues are counted here, and what the receiver sees is the  *)
(* remainder.                                                               *)
(***************************************************************************)
EXTENDS Integers, FiniteSets

CONSTANTS
    IodMod,     \* numbers of issues: 16 of RTCM SSR, 32 of HAS
    MaxIssue,   \* bound: issues of the provider
    MinChange,  \* a new issue comes at least so long after the last one
    MaxAge,     \* MAXAGESSR
    HrAge,      \* MAXAGESSR_HRCLK
    Ephs,       \* ephemerides broadcast: [iode, toe]
    NavSel,     \* svr->navsel: 0 all inputs, i: the i-th only
    NoEph       \* no ephemeris

ASSUME ChainAssumption ==
    /\ IodMod \in Nat \ {0} /\ MaxIssue \in Nat /\ MaxAge \in Nat /\ HrAge \in 0 .. MaxAge
    /\ MinChange \in Nat /\ (IodMod - 1) * MinChange > MaxAge
    /\ NavSel \in 0 .. 3 /\ NoEph \notin Ephs

VARIABLES
    source,  \* "rtcm" or "has"
    issue,   \* the provider's issue
    since,   \* time since it changed
    refers,  \* the iode its orbits refer to
    dec,     \* rtcm->ssr or has->ssr of the satellite
    nav,     \* svr->nav.ssr_ch[0] of it
    eph, old,  \* svr->nav.eph of it: current and previous set
    barred   \* the provider's last word was that the clock shall not be used

chainVars == <<source, issue, since, refers, dec, nav, eph, old, barred>>

Never  == MaxAge + 1
Parts  == {"orbit", "clock", "hr"}
NoSsr  == [issue |-> [p \in Parts |-> 0], age |-> [p \in Parts |-> Never],
           iode |-> -1, update |-> FALSE]

Iod(s, p) == s.issue[p] % IodMod
Older(s)  == [s EXCEPT !.age = [p \in Parts |-> IF s.age[p] < Never THEN s.age[p] + 1 ELSE Never]]
Iodes     == {e.iode : e \in Ephs}

ChainInit ==
    /\ source \in {"rtcm", "has"}
    /\ issue = 0 /\ since = 0 /\ refers \in Iodes
    /\ dec = NoSsr /\ nav = NoSsr
    /\ eph = NoEph /\ old = NoEph /\ barred = FALSE

-----------------------------------------------------------------------------
(* The provider, and time.                                                  *)

NewIssue ==
    /\ issue < MaxIssue /\ since >= MinChange
    /\ issue' = issue + 1 /\ since' = 0 /\ refers' \in Iodes
    /\ UNCHANGED <<source, dec, nav, eph, old, barred>>

Pass ==
    /\ since' = IF since < MinChange THEN since + 1 ELSE since
    /\ dec' = Older(dec) /\ nav' = Older(nav)
    /\ UNCHANGED <<source, issue, refers, eph, old, barred>>

-----------------------------------------------------------------------------
(* Ephemerides.                                                             *)

\* mutant: compared with the current set only
UpdateEph_CurrentOnly(e, index) ==
    /\ IF NavSel \in {0, index} /\ (eph = NoEph \/ eph # e)
       THEN eph' = e /\ old' = eph
       ELSE UNCHANGED <<eph, old>>
    /\ UNCHANGED <<source, issue, since, refers, dec, nav, barred>>

\* update_eph: a set whose issue, or whose reference time, is neither that of
\* the current nor of the previous set becomes the current one
UpdateEph(e, index) ==
    LET held == {eph, old} \ {NoEph}
    IN  /\ IF /\ NavSel \in {0, index}
              /\ \/ eph = NoEph
                 \/ e.iode \notin {f.iode : f \in held}
                 \/ e.toe \notin {f.toe : f \in held}
           THEN eph' = e /\ old' = eph
           ELSE UNCHANGED <<eph, old>>
        /\ UNCHANGED <<source, issue, since, refers, dec, nav, barred>>

-----------------------------------------------------------------------------
(* Corrections.                                                             *)

\* The record with these parts of the present issue.
WithParts(ps) ==
    [issue  |-> [p \in Parts |-> IF p \in ps THEN issue ELSE dec.issue[p]],
     age    |-> [p \in Parts |-> IF p \in ps THEN 0 ELSE dec.age[p]],
     iode   |-> IF "orbit" \in ps THEN refers ELSE dec.iode,
     update |-> dec.update \/ ps # {}]

HasEph(iode) == iode \in {f.iode : f \in {eph, old} \ {NoEph}}

\* update_ssr: orbit and clock must be of one issue; the update flag is
\* cleared before the ephemeris is looked for
UpdateSsr(s) ==
    IF s.update /\ Iod(s, "orbit") = Iod(s, "clock")
    THEN /\ dec' = [s EXCEPT !.update = FALSE]
         /\ nav' = IF HasEph(s.iode) THEN dec' ELSE nav
    ELSE dec' = s /\ UNCHANGED nav

\* An SSR message of RTCM: orbit, clock, both or high-rate clock (decode_ssr1,
\* 2, 4 and 6).  sync: more messages of the epoch follow.
RtcmSsr(ps, sync) ==
    /\ source = "rtcm"
    /\ IF sync THEN dec' = WithParts(ps) /\ UNCHANGED nav
               ELSE UpdateSsr(WithParts(ps))
    /\ barred' = (barred /\ "clock" \notin ps)
    /\ UNCHANGED <<source, issue, since, refers, eph, old>>

\* decoderaw copies what a message that was decoded to its end has updated.
CopyHas(s) ==
    IF s.update /\ Iod(s, "orbit") = Iod(s, "clock")
    THEN nav' = s /\ dec' = [s EXCEPT !.update = FALSE]
    ELSE dec' = s /\ UNCHANGED nav

\* decode_has_mt1: an orbit block, a clock block that gives the clock, does not
\* have it ("none") or bars it, and code biases, which set nothing but the flag
HasMt1(orbit, clock, bias) ==
    /\ source = "has"
    /\ LET s == WithParts((IF orbit THEN {"orbit"} ELSE {}) \cup (IF clock = "given" THEN {"clock"} ELSE {}))
       IN CopyHas([s EXCEPT !.age["clock"] = IF clock = "barred" THEN Never ELSE @,
                            !.update = @ \/ bias])
    /\ barred' = IF clock = "none" THEN barred ELSE clock = "barred"
    /\ UNCHANGED <<source, issue, since, refers, eph, old>>

ChainNext ==
    \/ NewIssue \/ Pass
    \/ \E e \in Ephs, index \in 1 .. 3 : UpdateEph(e, index)
    \/ \E ps \in {{"orbit"}, {"clock"}, {"orbit", "clock"}, {"hr"}}, sync \in BOOLEAN : RtcmSsr(ps, sync)
    \/ \E orbit, bias \in BOOLEAN, clock \in {"given", "none", "barred"} : HasMt1(orbit, clock, bias)

-----------------------------------------------------------------------------
(* satpos_ssr.                                                              *)

\* mutant: the orbit may be of any age
Usable_AnyOrbit(s) ==
    /\ s.age["orbit"] <= Never /\ s.age["clock"] <= MaxAge
    /\ Iod(s, "orbit") = Iod(s, "clock")
    /\ HasEph(s.iode)

\* Orbit and clock are there, of one number, young enough, and refer to an
\* ephemeris that is there.
Usable(s) ==
    /\ s.age["orbit"] <= MaxAge /\ s.age["clock"] <= MaxAge
    /\ Iod(s, "orbit") = Iod(s, "clock")
    /\ HasEph(s.iode)

\* The high-rate clock is added.
AddsHr(s) == Iod(s, "orbit") = Iod(s, "hr") /\ s.age["hr"] < HrAge

-----------------------------------------------------------------------------
\* A satellite's position is computed from an orbit and clocks that belong
\* together, although the number of issues returns: the oldest that is used is
\* younger than the time the numbers take to return.
SsrBelongs ==
    Usable(nav) => /\ nav.issue["orbit"] = nav.issue["clock"]
                   /\ AddsHr(nav) => nav.issue["hr"] = nav.issue["orbit"]

\* A new current ephemeris is neither the current nor the previous set: two
\* inputs that broadcast the two issues of a handover in turn do not make the
\* server swap them back and forth.
NoFlipFlop == [][eph' # eph => eph' \notin {eph, old}]_chainVars

\* "shall not be used" -> clear clock so satpos_ssr rejects sat
BarredIsRejected == barred => ~Usable(nav)
=============================================================================
