-------------------------- MODULE CorrectionsProofs -------------------------
(***************************************************************************)
(* Proofs about the corrections: the chain of SSR messages, the pages of    *)
(* HAS messages, the corrections of SBAS, the banks of CLAS corrections and  *)
(* the channels CLAS messages are taken from, each for any constants.       *)
(***************************************************************************)
EXTENDS SsrChain, HasPages, ClasBank, Sbas, ClasRoute, FiniteSetTheorems,
        WellFoundedInduction, TLAPS

-----------------------------------------------------------------------------
(* SSR corrections: any messages, periods of issues and ephemerides.        *)

ChainSpec == ChainInit /\ [][ChainNext]_chainVars

Records == [issue : [Parts -> Nat], age : [Parts -> Nat], iode : Iodes \cup {-1}, update : BOOLEAN]

\* A part of an issue that was followed by n others is as old as the provider takes for n - 1 of
\* them, and the time since the last.
WellKept(s) ==
    \A p \in Parts :
       /\ s.issue[p] <= issue /\ s.age[p] <= Never
       /\ s.issue[p] < issue /\ s.age[p] < Never
             => (issue - s.issue[p] - 1) * MinChange + since <= s.age[p]

ChainStrong ==
    /\ issue \in Nat /\ since \in 0 .. MinChange /\ refers \in Iodes
    /\ dec \in Records /\ nav \in Records
    /\ WellKept(dec) /\ WellKept(nav)
    /\ {eph, old} \subseteq Ephs \cup {NoEph}
    /\ eph = NoEph => old = NoEph

-----------------------------------------------------------------------------
(* The number of an issue comes back after IodMod issues, not before.       *)

LEMMA Divided ==
  ASSUME NEW m \in Nat, m > 0, NEW a \in Int
  PROVE  /\ a \div m \in Int /\ a % m \in 0 .. m - 1
         /\ a = m * (a \div m) + (a % m)
<1>1. a % m = a - m * (a \div m)
  OBVIOUS
<1>2. a \div m \in Int
  OBVIOUS
<1>3. a % m \in 0 .. m - 1
  OBVIOUS
<1>4. m * (a \div m) \in Int
  BY <1>2
<1>. QED  BY <1>1, <1>2, <1>3, <1>4

LEMMA ComesBack ==
  ASSUME NEW m \in Nat, m > 0, NEW a \in Nat, NEW b \in Nat, a < b, a % m = b % m
  PROVE  b - a >= m
<1>. DEFINE qa == a \div m
            qb == b \div m
            r  == a % m
<1>1. qa \in Int /\ qb \in Int /\ r \in Int
  BY Divided
<1>2. a = m * qa + r /\ b = m * qb + r
  BY Divided
<1>. HIDE DEF qa, qb, r
<1>3. b - a = m * (qb - qa)
  BY <1>1, <1>2
<1>4. qb - qa >= 1
  BY <1>1, <1>3
<1>. QED  BY <1>1, <1>3, <1>4

\* Two parts with one number, both young enough, are of one issue.
LEMMA OneIssue ==
  ASSUME issue \in Nat, since \in 0 .. MinChange, NEW s \in Records, WellKept(s),
         NEW p \in Parts, NEW q \in Parts,
         s.age[p] <= MaxAge, s.age[q] <= MaxAge, Iod(s, p) = Iod(s, q)
  PROVE  ~(s.issue[p] < s.issue[q])
<1>. SUFFICES ASSUME s.issue[p] < s.issue[q] PROVE FALSE
  OBVIOUS
<1>0. IodMod \in Nat /\ IodMod > 0 /\ MinChange \in Nat /\ MaxAge \in Nat /\ (IodMod - 1) * MinChange > MaxAge
  BY ChainAssumption
<1>1. /\ s.issue[p] \in Nat /\ s.issue[q] \in Nat /\ s.issue[q] <= issue
      /\ (issue - s.issue[p] - 1) * MinChange + since <= s.age[p] /\ s.age[p] \in Nat
  BY <1>0 DEF WellKept, Records, Never
<1>2. s.issue[q] - s.issue[p] >= IodMod
  BY <1>0, <1>1, ComesBack DEF Iod
<1>. DEFINE n == issue - s.issue[p] - 1
<1>3. n \in Nat /\ n >= IodMod - 1
  BY <1>0, <1>1, <1>2
<1>4. n * MinChange + since <= MaxAge
  BY <1>0, <1>1
<1>. HIDE DEF n
<1>5. n * MinChange >= (IodMod - 1) * MinChange
  BY <1>0, <1>3
<1>6. n * MinChange \in Int /\ (IodMod - 1) * MinChange \in Int
  BY <1>0, <1>3
<1>. QED  BY <1>0, <1>4, <1>5, <1>6

\* The strengthened invariant says what is used belongs to one issue.
LEMMA ChainUsed == ChainStrong => SsrBelongs
<1>. SUFFICES ASSUME ChainStrong, Usable(nav)
              PROVE  /\ nav.issue["orbit"] = nav.issue["clock"]
                     /\ AddsHr(nav) => nav.issue["hr"] = nav.issue["orbit"]
  BY DEF SsrBelongs
<1>1. nav \in Records /\ WellKept(nav) /\ issue \in Nat /\ since \in 0 .. MinChange
  BY DEF ChainStrong
<1>2. \A p \in Parts : nav.issue[p] \in Nat /\ nav.age[p] \in Nat
  BY <1>1 DEF Records
<1>3. nav.age["orbit"] <= MaxAge /\ nav.age["clock"] <= MaxAge /\ Iod(nav, "orbit") = Iod(nav, "clock")
  BY DEF Usable
<1>4. {"orbit", "clock", "hr"} = Parts
  BY DEF Parts
<1>5. nav.issue["orbit"] = nav.issue["clock"]
  <2>1. ~(nav.issue["orbit"] < nav.issue["clock"]) /\ ~(nav.issue["clock"] < nav.issue["orbit"])
    BY <1>1, <1>3, <1>4, OneIssue
  <2>. QED  BY <2>1, <1>2, <1>4
<1>6. ASSUME AddsHr(nav) PROVE nav.issue["hr"] = nav.issue["orbit"]
  <2>1. nav.age["hr"] <= MaxAge /\ Iod(nav, "orbit") = Iod(nav, "hr")
    BY <1>2, <1>4, <1>6, ChainAssumption DEF AddsHr
  <2>2. ~(nav.issue["orbit"] < nav.issue["hr"]) /\ ~(nav.issue["hr"] < nav.issue["orbit"])
    BY <1>1, <1>3, <1>4, <2>1, OneIssue
  <2>. QED  BY <2>2, <1>2, <1>4
<1>. QED  BY <1>5, <1>6

-----------------------------------------------------------------------------
(* The steps.                                                               *)

\* A part of a record stays within its bounds when time passes.
LEMMA PartsKept ==
  ASSUME ChainStrong, NEW ps \in SUBSET Parts
  PROVE  WithParts(ps) \in Records /\ WellKept(WithParts(ps))
<1>1. dec \in Records /\ WellKept(dec) /\ issue \in Nat /\ since \in 0 .. MinChange /\ refers \in Iodes
  BY DEF ChainStrong
<1>2. WithParts(ps) \in Records
  BY <1>1 DEF WithParts, Records
<1>3. ASSUME NEW p \in Parts, p \in ps
      PROVE  WithParts(ps).issue[p] = issue /\ WithParts(ps).age[p] = 0
  BY <1>3 DEF WithParts
<1>4. ASSUME NEW p \in Parts, p \notin ps
      PROVE  WithParts(ps).issue[p] = dec.issue[p] /\ WithParts(ps).age[p] = dec.age[p]
  BY <1>4 DEF WithParts
<1>5. 0 <= Never
  BY ChainAssumption DEF Never
<1>. HIDE DEF WithParts
<1>. QED  BY <1>1, <1>2, <1>3, <1>4, <1>5 DEF WellKept

\* A second on.
LEMMA OlderKept ==
  ASSUME ChainStrong, Pass, NEW s \in Records, WellKept(s)
  PROVE  /\ Older(s) \in Records
         /\ \A p \in Parts :
              /\ Older(s).issue[p] <= issue' /\ Older(s).age[p] <= Never
              /\ Older(s).issue[p] < issue' /\ Older(s).age[p] < Never
                    => (issue' - Older(s).issue[p] - 1) * MinChange + since' <= Older(s).age[p]
<1>0. /\ issue \in Nat /\ since \in 0 .. MinChange /\ issue' = issue /\ MinChange \in Nat
      /\ since' \in 0 .. MinChange /\ since' <= since + 1 /\ Never \in Nat
  BY ChainAssumption DEF ChainStrong, Pass, Never
<1>1. s.issue \in [Parts -> Nat] /\ s.age \in [Parts -> Nat]
  BY DEF Records
<1>2. Older(s) \in Records
  BY <1>0, <1>1 DEF Older, Records
<1>3. ASSUME NEW p \in Parts
      PROVE  /\ Older(s).issue[p] = s.issue[p]
             /\ Older(s).age[p] = IF s.age[p] < Never THEN s.age[p] + 1 ELSE Never
  BY DEF Older, Records
<1>4. ASSUME NEW p \in Parts
      PROVE  /\ Older(s).issue[p] <= issue' /\ Older(s).age[p] <= Never
             /\ Older(s).issue[p] < issue' /\ Older(s).age[p] < Never
                    => (issue' - Older(s).issue[p] - 1) * MinChange + since' <= Older(s).age[p]
  <2>. DEFINE n == (issue - s.issue[p] - 1) * MinChange
  <2>1. n \in Int
    BY <1>0, <1>1
  <2>2. /\ s.issue[p] <= issue /\ s.age[p] <= Never
        /\ s.issue[p] < issue /\ s.age[p] < Never => n + since <= s.age[p]
    BY DEF WellKept
  <2>3. (issue' - Older(s).issue[p] - 1) * MinChange = n
    BY <1>0, <1>3
  <2>. HIDE DEF n
  <2>. QED  BY <1>0, <1>1, <1>3, <2>1, <2>2, <2>3
<1>. QED  BY <1>2, <1>4

\* The provider's next issue.
LEMMA IssueKept ==
  ASSUME ChainStrong, NewIssue, NEW s \in Records, WellKept(s), NEW p \in Parts
  PROVE  /\ s.issue[p] <= issue' /\ s.age[p] <= Never
         /\ s.issue[p] < issue' /\ s.age[p] < Never
               => (issue' - s.issue[p] - 1) * MinChange + since' <= s.age[p]
<1>0. /\ issue \in Nat /\ since = MinChange /\ issue' = issue + 1 /\ MinChange \in Nat
      /\ since' = 0 /\ s.issue[p] \in Nat /\ s.age[p] \in Nat /\ Never \in Nat
  BY ChainAssumption DEF ChainStrong, NewIssue, Never, Records
<1>1. s.issue[p] <= issue /\ s.age[p] <= Never
  BY DEF WellKept
<1>2. CASE s.issue[p] = issue
  <2>1. (issue' - s.issue[p] - 1) * MinChange + since' = 0
    BY <1>0, <1>2
  <2>. QED  BY <1>0, <1>1, <2>1
<1>3. CASE s.issue[p] < issue
  <2>1. s.age[p] < Never => (issue - s.issue[p] - 1) * MinChange + MinChange <= s.age[p]
    BY <1>0, <1>3 DEF WellKept
  <2>. DEFINE n == issue - s.issue[p] - 1
  <2>2. n \in Int /\ issue' - s.issue[p] - 1 = n + 1
    BY <1>0
  <2>. HIDE DEF n
  <2>3. (n + 1) * MinChange = n * MinChange + MinChange /\ n * MinChange \in Int
    BY <1>0, <2>2
  <2>4. s.age[p] < Never => n * MinChange + MinChange <= s.age[p]
    BY <2>1 DEF n
  <2>. QED  BY <1>0, <1>1, <2>2, <2>3, <2>4
<1>. QED  BY <1>0, <1>1, <1>2, <1>3

\* Messages: an update that is copied, or not, leaves the records as they were made.
LEMMA MessageKept ==
  ASSUME ChainStrong, NEW s \in Records, WellKept(s), UpdateSsr(s) \/ CopyHas(s), UNCHANGED <<issue, since>>
  PROVE  dec' \in Records /\ nav' \in Records /\ WellKept(dec)' /\ WellKept(nav)'
<1>. DEFINE t == [s EXCEPT !.update = FALSE]
<1>1. t \in Records /\ t.issue = s.issue /\ t.age = s.age
  BY DEF Records
<1>2. dec' \in {s, t} /\ nav' \in {s, t, nav}
  BY DEF UpdateSsr, CopyHas
<1>. HIDE DEF t
<1>3. nav \in Records /\ WellKept(nav)
  BY DEF ChainStrong
<1>4. \A r \in {s, t, nav} : r \in Records /\ WellKept(r)
  BY <1>1, <1>3 DEF WellKept
<1>5. dec' \in Records /\ nav' \in Records /\ WellKept(dec') /\ WellKept(nav')
  BY <1>2, <1>4
<1>. QED  BY <1>5 DEF WellKept

LEMMA ChainStrongInit == ChainInit => ChainStrong
<1>. SUFFICES ASSUME ChainInit PROVE ChainStrong
  OBVIOUS
<1>1. NoSsr \in Records /\ Never \in Nat
  BY ChainAssumption DEF NoSsr, Records, Never
<1>2. \A p \in Parts : NoSsr.issue[p] = 0 /\ NoSsr.age[p] = Never
  BY DEF NoSsr
<1>3. WellKept(dec) /\ WellKept(nav)
  BY <1>1, <1>2 DEF WellKept, ChainInit
<1>. QED  BY <1>1, <1>3, ChainAssumption DEF ChainInit, ChainStrong

LEMMA ChainStrongStep == ChainStrong /\ [ChainNext]_chainVars => ChainStrong'
<1>. SUFFICES ASSUME ChainStrong, [ChainNext]_chainVars PROVE ChainStrong'
  OBVIOUS
<1>0. /\ issue \in Nat /\ since \in 0 .. MinChange /\ refers \in Iodes /\ dec \in Records /\ nav \in Records
      /\ WellKept(dec) /\ WellKept(nav) /\ {eph, old} \subseteq Ephs \cup {NoEph} /\ (eph = NoEph => old = NoEph)
  BY DEF ChainStrong
<1>1. CASE NewIssue
  <2>1. WellKept(dec)' /\ WellKept(nav)'
    BY <1>0, <1>1, IssueKept DEF WellKept, NewIssue
  <2>. QED  BY <1>0, <1>1, <2>1, ChainAssumption DEF NewIssue, ChainStrong
<1>2. CASE Pass
  <2>1. WellKept(dec)' /\ WellKept(nav)' /\ dec' \in Records /\ nav' \in Records
    BY <1>0, <1>2, OlderKept DEF WellKept, Pass
  <2>. QED  BY <1>0, <1>2, <2>1, ChainAssumption DEF Pass, ChainStrong
<1>3. ASSUME NEW e \in Ephs, NEW index \in 1 .. 3, UpdateEph(e, index) PROVE ChainStrong'
  <2>1. UNCHANGED <<issue, since, refers, dec, nav>> /\ ((eph' = e /\ old' = eph) \/ UNCHANGED <<eph, old>>)
    BY <1>3 DEF UpdateEph
  <2>2. WellKept(dec)' /\ WellKept(nav)'
    BY <1>0, <2>1 DEF WellKept
  <2>. QED  BY <1>0, <2>1, <2>2, ChainAssumption DEF ChainStrong
<1>4. ASSUME NEW ps \in SUBSET Parts, NEW sync \in BOOLEAN, RtcmSsr(ps, sync) PROVE ChainStrong'
  <2>1. UNCHANGED <<issue, since, refers, eph, old>>
    BY <1>4 DEF RtcmSsr
  <2>2. WithParts(ps) \in Records /\ WellKept(WithParts(ps))
    BY PartsKept
  <2>3. CASE sync
    <3>1. dec' = WithParts(ps) /\ nav' = nav
      BY <1>4, <2>3 DEF RtcmSsr
    <3>2. WellKept(dec)' /\ WellKept(nav)'
      BY <1>0, <2>1, <2>2, <3>1 DEF WellKept
    <3>. QED  BY <1>0, <2>1, <2>2, <3>1, <3>2 DEF ChainStrong
  <2>4. CASE ~sync
    <3>1. UpdateSsr(WithParts(ps))
      BY <1>4, <2>4 DEF RtcmSsr
    <3>2. dec' \in Records /\ nav' \in Records /\ WellKept(dec)' /\ WellKept(nav)'
      BY <2>1, <2>2, <3>1, MessageKept
    <3>. QED  BY <1>0, <2>1, <3>2 DEF ChainStrong
  <2>. QED  BY <2>3, <2>4
<1>5. ASSUME NEW orbit \in BOOLEAN, NEW bias \in BOOLEAN, NEW clock \in {"given", "none", "barred"},
             HasMt1(orbit, clock, bias)
      PROVE  ChainStrong'
  <2>. DEFINE ps == (IF orbit THEN {"orbit"} ELSE {}) \cup (IF clock = "given" THEN {"clock"} ELSE {})
              s == WithParts(ps)
              t == [s EXCEPT !.age["clock"] = IF clock = "barred" THEN Never ELSE @, !.update = @ \/ bias]
  <2>1. UNCHANGED <<issue, since, refers, eph, old>> /\ CopyHas(t)
    BY <1>5 DEF HasMt1
  <2>2. ps \in SUBSET Parts
    BY DEF Parts
  <2>. HIDE DEF ps
  <2>3. s \in Records /\ WellKept(s)
    BY <2>2, PartsKept
  <2>. HIDE DEF s
  <2>4. Never \in Nat
    BY ChainAssumption DEF Never
  <2>5. t \in Records
    BY <2>3, <2>4 DEF Records
  <2>6. \A p \in Parts : t.issue[p] = s.issue[p] /\ t.age[p] \in {s.age[p], Never}
    BY <2>3 DEF Records
  <2>. HIDE DEF t
  <2>7. WellKept(t)
    BY <2>3, <2>4, <2>6 DEF WellKept
  <2>8. dec' \in Records /\ nav' \in Records /\ WellKept(dec)' /\ WellKept(nav)'
    BY <2>1, <2>5, <2>7, MessageKept
  <2>. QED  BY <1>0, <2>1, <2>8 DEF ChainStrong
<1>6. CASE UNCHANGED chainVars
  <2>1. WellKept(dec)' /\ WellKept(nav)'
    BY <1>0, <1>6 DEF WellKept, chainVars
  <2>. QED  BY <1>0, <1>6, <2>1 DEF ChainStrong, chainVars
<1>7. {{"orbit"}, {"clock"}, {"orbit", "clock"}, {"hr"}} \subseteq SUBSET Parts
  BY DEF Parts
<1>. QED  BY <1>1, <1>2, <1>3, <1>4, <1>5, <1>6, <1>7 DEF ChainNext

\* A position is computed from an orbit and clocks of one issue, for any number of issues there
\* is and any loss of messages, if the provider's issues are long enough apart.
THEOREM SsrBelongsHolds == ChainSpec => []SsrBelongs
  BY ChainStrongInit, ChainStrongStep, ChainUsed, PTL DEF ChainSpec

\* A new current ephemeris is none of the two that are held.
THEOREM NoFlipFlopHolds == ChainSpec => NoFlipFlop
<1>1. ChainStrong /\ [ChainNext]_chainVars => [eph' # eph => eph' \notin {eph, old}]_chainVars
  <2>. SUFFICES ASSUME ChainStrong, ChainNext, eph' # eph PROVE eph' \notin {eph, old}
    OBVIOUS
  <2>1. \E e \in Ephs, index \in 1 .. 3 : UpdateEph(e, index)
    BY DEF ChainNext, NewIssue, Pass, RtcmSsr, HasMt1
  <2>2. PICK e \in Ephs, index \in 1 .. 3 : UpdateEph(e, index)
    BY <2>1
  <2>3. /\ eph' = e
        /\ \/ eph = NoEph
           \/ e.iode \notin {f.iode : f \in {eph, old} \ {NoEph}}
           \/ e.toe \notin {f.toe : f \in {eph, old} \ {NoEph}}
    BY <2>2 DEF UpdateEph
  <2>4. e # NoEph /\ (eph = NoEph => old = NoEph)
    BY ChainAssumption DEF ChainStrong
  <2>. QED  BY <2>3, <2>4
<1>. QED  BY <1>1, ChainStrongInit, ChainStrongStep, PTL DEF ChainSpec, NoFlipFlop

-----------------------------------------------------------------------------
(* Galileo HAS: any message type, sizes, pages, slots and timeout.          *)

HasSpec == PagesInit /\ [][PagesNext]_pagesVars

AnyPage == [pid : Pids \cup OtherPids, earlier : BOOLEAN]
Coll == [active : BOOLEAN, mid : Mids, ms : Nat, pages : SUBSET AnyPage, age : 0 .. Late]

HasTypes ==
    /\ collect \in [Slots -> Coll] /\ ms \in Sizes /\ came \subseteq Pids /\ waited \in 0 .. Late
    /\ rivals \subseteq Mids /\ IsFiniteSet(rivals) /\ last \in [Sizes -> 0 .. Late]
    /\ quiet \in BOOLEAN /\ told \in BOOLEAN

\* A slot that is collecting a message, and will take its next page
LiveOf(k, mid) == collect[k].active /\ collect[k].mid = mid /\ collect[k].age <= Timeout

\* No message is collected twice.
OneLive == \A j, k \in Slots : \A mid \in Mids : LiveOf(j, mid) /\ LiveOf(k, mid) => j = k

\* A slot is not younger than the last page of its size.
LastKept == \A k \in Slots : collect[k].active /\ collect[k].mid = Mid =>
                collect[k].ms \in Sizes /\ last[collect[k].ms] <= collect[k].age

\* No page of an earlier message waits where the next page will go.
CleanKept == quiet => \A k \in Slots : LiveOf(k, Mid) /\ collect[k].ms = ms =>
                          \A q \in collect[k].pages : q.earlier = FALSE

\* Who was begun since the first page came is a rival.
RivalsKept == \A k \in Slots : /\ collect[k].active /\ collect[k].mid # Mid
                               /\ collect[k].age <= Timeout /\ collect[k].age <= waited
                               => collect[k].mid \in rivals

\* A slot holds all pages that came, and they are not enough.
Collected(k) ==
    LET c == collect[k]
    IN  /\ LiveOf(k, Mid) /\ c.ms = ms /\ c.age <= waited
        /\ IsFiniteSet(c.pages) /\ Cardinality(c.pages) = Cardinality(came) /\ Cardinality(came) < ms
        /\ \A q \in c.pages : q.pid \in came
        /\ \A p \in came : \E q \in c.pages : q.pid = p

OwnKept == ~told /\ quiet =>
    /\ came = {} => \A k \in Slots : ~(LiveOf(k, Mid) /\ collect[k].ms = ms)
    /\ came # {} /\ waited <= Timeout /\ Cardinality(rivals) < InFlight => \E k \in Slots : Collected(k)

HasStrong == HasTypes /\ OneLive /\ LastKept /\ CleanKept /\ RivalsKept /\ OwnKept /\ ~garbage

-----------------------------------------------------------------------------
LEMMA HasFacts ==
  /\ Timeout \in Nat /\ Late \in Nat /\ Late = Timeout + 1 /\ InFlight \in Nat /\ InFlight > 0
  /\ OtherSize \in Nat /\ Mid \in Mids /\ Sizes \subseteq Nat /\ (\A s \in Sizes : s > 0) /\ IsFiniteSet(Pids)
  /\ \A t \in 0 .. Late : Aged(t) \in 0 .. Late
BY PagesAssumption DEF Late, Aged

\* The smallest member of a nonempty set of naturals
LEMMA SmallestOf ==
  ASSUME NEW S \in SUBSET Nat, S # {}
  PROVE  Min(S) \in S /\ \A y \in S : Min(S) <= y
<1>1. PICK m \in S : \A y \in S : ~(<<y, m>> \in OpToRel(<, Nat))
  BY NatLessThanWellFounded, WFMin
<1>2. \A y \in S : ~(y < m)
  BY <1>1 DEF OpToRel
<1>3. \A y \in S : m <= y
  BY <1>2
<1>. QED  BY <1>3 DEF Min

\* Which slot a page goes to
LEMMA Found ==
  ASSUME HasTypes, NEW mid \in Mids
  PROVE  LET k == FindCollect(mid)
         IN  /\ k \in Slots
             /\ \/ LiveOf(k, mid)
                \/ /\ \A j \in Slots : ~LiveOf(j, mid)
                   /\ \/ ~collect[k].active \/ collect[k].mid = mid
                      \/ \A j \in Slots : collect[j].active /\ collect[j].age <= collect[k].age
<1>. DEFINE mine == {k \in Slots : collect[k].active /\ collect[k].mid = mid}
            live == {k \in mine : collect[k].age <= Timeout}
            idle == {k \in Slots : ~collect[k].active} \cup (mine \ live)
            best == {k \in Slots : \A j \in Slots : collect[k].age >= collect[j].age}
            F == FindCollect(mid)
<1>1. F = IF live # {} THEN Min(live) ELSE IF idle # {} THEN Min(idle) ELSE Min(best)
  BY Zenon DEF FindCollect
<1>2. live \in SUBSET Nat /\ idle \in SUBSET Nat /\ best \in SUBSET Nat /\ Slots \subseteq Nat
  BY HasFacts DEF Slots
<1>3. best # {}
  <2>1. \A k \in Slots : collect[k].age \in 0 .. Late
    BY DEF HasTypes, Coll
  <2>. DEFINE S == {Late - collect[k].age : k \in Slots}
  <2>2. S \in SUBSET Nat /\ S # {}
    <3>1. 1 \in Slots
      BY HasFacts DEF Slots
    <3>. QED  BY <2>1, <3>1, HasFacts
  <2>3. PICK k \in Slots : Min(S) = Late - collect[k].age
    BY <2>2, SmallestOf
  <2>4. \A j \in Slots : Late - collect[k].age <= Late - collect[j].age
    BY <2>2, <2>3, SmallestOf
  <2>5. \A j \in Slots : collect[k].age >= collect[j].age
    BY <2>1, <2>4, HasFacts
  <2>. QED  BY <2>5
<1>4. \A j : j \in live <=> j \in Slots /\ LiveOf(j, mid)
  BY DEF LiveOf
<1>. HIDE DEF F
<1>5. CASE live # {}
  <2>1. F \in live
    BY <1>1, <1>2, <1>5, SmallestOf
  <2>. QED  BY <1>4, <2>1 DEF F
<1>6. CASE live = {} /\ idle # {}
  <2>1. F \in idle
    BY <1>1, <1>2, <1>6, SmallestOf
  <2>. QED  BY <1>4, <1>6, <2>1 DEF F
<1>7. CASE live = {} /\ idle = {}
  <2>1. F \in best
    BY <1>1, <1>2, <1>3, <1>7, SmallestOf
  <2>2. \A j \in Slots : collect[j].active
    BY <1>7
  <2>3. \A j \in Slots : collect[j].age <= collect[F].age
    <3>1. F \in Slots /\ \A j \in Slots : collect[F].age >= collect[j].age /\ collect[j].age \in 0 .. Late
      BY <2>1 DEF HasTypes, Coll
    <3>. QED  BY <3>1, HasFacts
  <2>. QED  BY <1>4, <1>7, <2>1, <2>2, <2>3 DEF F
<1>. QED  BY <1>5, <1>6, <1>7

\* What the slot holds then: it goes on with its own message, or it is begun again.
GoesOn(mid, s) == LiveOf(FindCollect(mid), mid) /\ collect[FindCollect(mid)].ms = s

\* What InputPage makes of a slot that takes the page
LEMMA StoredIs ==
  ASSUME HasTypes, NEW mid \in Mids, NEW s \in Nat, NEW p \in AnyPage
  PROVE  /\ Stored(mid, s, p) \in Coll
         /\ Stored(mid, s, p).active /\ Stored(mid, s, p).mid = mid /\ Stored(mid, s, p).ms = s
         /\ GoesOn(mid, s) =>
               /\ Stored(mid, s, p).age = collect[FindCollect(mid)].age
               /\ (\E q \in collect[FindCollect(mid)].pages : q.pid = p.pid)
                     => Stored(mid, s, p).pages = collect[FindCollect(mid)].pages
               /\ ~(\E q \in collect[FindCollect(mid)].pages : q.pid = p.pid)
                     => Stored(mid, s, p).pages = collect[FindCollect(mid)].pages \cup {p}
         /\ ~GoesOn(mid, s) => Stored(mid, s, p).age = 0 /\ Stored(mid, s, p).pages = {p}
<1>. DEFINE k == FindCollect(mid)
            c == Stored(mid, s, p)
            own == LiveOf(k, mid) /\ collect[k].ms = s
            r == collect[k]
<1>1. r \in Coll /\ 0 \in 0 .. Late
  BY Found, HasFacts DEF HasTypes
<1>2. c = IF ~own THEN [active |-> TRUE, mid |-> mid, ms |-> s, pages |-> {p}, age |-> 0]
          ELSE IF \E q \in r.pages : q.pid = p.pid THEN r
          ELSE [r EXCEPT !.pages = r.pages \cup {p}]
  BY Zenon DEF Stored, LiveOf
<1>3. own => r.active /\ r.mid = mid /\ r.ms = s
  BY DEF LiveOf
<1>. HIDE DEF r, c, own, GoesOn
<1>4. CASE ~own
  BY <1>1, <1>2, <1>4 DEF Coll, AnyPage, r, c, own, GoesOn
<1>5. CASE own /\ \E q \in r.pages : q.pid = p.pid
  BY <1>1, <1>2, <1>3, <1>5 DEF Coll, AnyPage, r, c, own, GoesOn
<1>6. CASE own /\ ~\E q \in r.pages : q.pid = p.pid
  <2>1. c = [r EXCEPT !.pages = r.pages \cup {p}] /\ r.active /\ r.mid = mid /\ r.ms = s
    BY <1>2, <1>3, <1>6
  <2>2. c \in Coll
    BY <1>1, <2>1 DEF Coll
  <2>3. c.active /\ c.mid = mid /\ c.ms = s /\ c.age = r.age /\ c.pages = r.pages \cup {p}
    BY <1>1, <2>1 DEF Coll
  <2>. QED  BY <1>6, <2>2, <2>3 DEF r, c, own, GoesOn
<1>. QED  BY <1>4, <1>5, <1>6

-----------------------------------------------------------------------------
(* A page comes.                                                            *)

\* A page makes the slot it goes to one more page richer.
LEMMA PageComes ==
  ASSUME HasStrong, NEW mid \in Mids, NEW s \in Nat, NEW p \in AnyPage,
         collect' = [collect EXCEPT ![FindCollect(mid)] = IF Full(Stored(mid, s, p)) THEN Idle ELSE Stored(mid, s, p)]
  PROVE  /\ collect' \in [Slots -> Coll] /\ OneLive'
         /\ FindCollect(mid) \in Slots
         /\ \A j \in Slots : j # FindCollect(mid) => collect'[j] = collect[j]
         /\ LET d == collect'[FindCollect(mid)]
            IN  /\ d.active <=> ~Full(Stored(mid, s, p))
                /\ d.active => d = Stored(mid, s, p) /\ d.mid = mid /\ d.ms = s
<1>. DEFINE c == Stored(mid, s, p)
            d == IF Full(c) THEN Idle ELSE c
<1>0. HasTypes /\ OneLive
  BY DEF HasStrong
<1>1. PICK k \in Slots : k = FindCollect(mid) /\ (LiveOf(k, mid) \/ \A j \in Slots : ~LiveOf(j, mid))
  BY <1>0, Found
<1>2. c \in Coll /\ c.active /\ c.mid = mid /\ c.ms = s
  BY <1>0, StoredIs
<1>3. Idle \in Coll /\ ~Idle.active
  BY HasFacts DEF Idle, Coll
<1>4. d \in Coll /\ (d.active <=> ~Full(c)) /\ (d.active => d = c)
  BY <1>2, <1>3
<1>5. collect' = [collect EXCEPT ![k] = d] /\ collect \in [Slots -> Coll]
  BY <1>0, <1>1 DEF HasTypes
<1>. HIDE DEF c, d
<1>6. collect' \in [Slots -> Coll] /\ collect'[k] = d /\ \A j \in Slots : j # k => collect'[j] = collect[j]
  BY <1>1, <1>4, <1>5
<1>7. OneLive'
  <2>. SUFFICES ASSUME NEW i \in Slots, NEW j \in Slots, NEW m \in Mids, LiveOf(i, m)', LiveOf(j, m)', i # j
                PROVE  FALSE
    BY DEF OneLive
  <2>1. ASSUME NEW a \in Slots, a # k, LiveOf(a, m)' PROVE LiveOf(a, m)
    BY <1>6, <2>1 DEF LiveOf
  <2>2. ASSUME LiveOf(k, m)' PROVE m = mid
    BY <1>2, <1>4, <1>6, <2>2 DEF LiveOf
  <2>3. CASE i # k /\ j # k
    BY <1>0, <2>1, <2>3 DEF OneLive
  <2>4. CASE i = k
    BY <1>0, <1>1, <2>1, <2>2, <2>4 DEF OneLive
  <2>5. CASE j = k
    BY <1>0, <1>1, <2>1, <2>2, <2>5 DEF OneLive
  <2>. QED  BY <2>3, <2>4, <2>5
<1>. QED  BY <1>1, <1>2, <1>4, <1>6, <1>7 DEF c

\* A page of the message that is followed
LEMMA InputPageKept == ASSUME HasStrong, NEW pid \in Pids, InputPage(pid) PROVE HasStrong'
<1>k. PICK k \in Slots : k = FindCollect(Mid)
  BY Found, HasFacts DEF HasStrong
<1>p. PICK p \in AnyPage : p = [pid |-> pid, earlier |-> FALSE]
  BY DEF AnyPage
<1>. DEFINE c == Stored(Mid, ms, p)
            own == GoesOn(Mid, ms)
<1>0. /\ collect' = [collect EXCEPT ![k] = IF Full(c) THEN Idle ELSE c]
      /\ told' = (told \/ (Full(c) /\ ~Mixed(c)))
      /\ garbage' = (garbage \/ (Full(c) /\ Mixed(c) /\ quiet))
      /\ came' = came \cup {pid} /\ last' = [last EXCEPT ![ms] = 0]
      /\ UNCHANGED <<ms, waited, rivals, quiet>>
  BY <1>k, <1>p, Zenon DEF InputPage
<1>1. HasTypes /\ OneLive /\ LastKept /\ CleanKept /\ RivalsKept /\ OwnKept /\ ~garbage
  BY DEF HasStrong
<1>2. p \in AnyPage /\ Mid \in Mids /\ ms \in Nat /\ ms > 0 /\ ms \in Sizes
  BY <1>1, HasFacts DEF HasTypes, AnyPage
<1>3. /\ collect' \in [Slots -> Coll] /\ OneLive' /\ k \in Slots
      /\ \A j \in Slots : j # k => collect'[j] = collect[j]
      /\ collect'[k].active <=> ~Full(c)
      /\ collect'[k].active => collect'[k] = c /\ collect'[k].mid = Mid /\ collect'[k].ms = ms
  BY <1>0, <1>2, <1>k, PageComes
<1>6. p.pid = pid /\ p.earlier = FALSE
  BY <1>p
<1>4. /\ c \in Coll /\ c.active /\ c.mid = Mid /\ c.ms = ms
      /\ own => /\ c.age = collect[k].age
                /\ (\E q \in collect[k].pages : q.pid = pid) => c.pages = collect[k].pages
                /\ ~(\E q \in collect[k].pages : q.pid = pid) => c.pages = collect[k].pages \cup {p}
      /\ ~own => c.age = 0 /\ c.pages = {p}
  <2>1. /\ c \in Coll /\ c.active /\ c.mid = Mid /\ c.ms = ms
        /\ own => /\ c.age = collect[FindCollect(Mid)].age
                  /\ (\E q \in collect[FindCollect(Mid)].pages : q.pid = p.pid)
                        => c.pages = collect[FindCollect(Mid)].pages
                  /\ ~(\E q \in collect[FindCollect(Mid)].pages : q.pid = p.pid)
                        => c.pages = collect[FindCollect(Mid)].pages \cup {p}
        /\ ~own => c.age = 0 /\ c.pages = {p}
    BY <1>1, <1>2, StoredIs
  <2>. HIDE DEF c, own
  <2>. QED  BY <1>6, <1>k, <2>1
<1>5. LiveOf(k, Mid) \/ \A j \in Slots : ~LiveOf(j, Mid)
  BY <1>1, <1>2, <1>k, Found
<1>7. quiet => \A q \in c.pages : q.earlier = FALSE
  BY <1>1, <1>3, <1>4, <1>6, <1>k DEF CleanKept, GoesOn
<1>. HIDE DEF c, own
<1>8. ~garbage'
  BY <1>0, <1>1, <1>7 DEF Mixed
<1>9. HasTypes'
  <2>1. last' \in [Sizes -> 0 .. Late] /\ came' \subseteq Pids
    BY <1>0, <1>1, <1>2, HasFacts DEF HasTypes
  <2>2. told' \in BOOLEAN
    BY <1>0, <1>1, Zenon DEF HasTypes, Full, Mixed
  <2>. QED  BY <1>0, <1>1, <1>3, <2>1, <2>2 DEF HasTypes
<1>10. LastKept'
  <2>1. \A s \in Sizes : last'[s] \in 0 .. Late /\ last[s] \in 0 .. Late /\ last'[s] <= last[s]
    BY <1>0, <1>1, HasFacts DEF HasTypes
  <2>2. last'[ms] = 0
    BY <1>0, <1>1, <1>2 DEF HasTypes
  <2>. SUFFICES ASSUME NEW j \in Slots, collect'[j].active, collect'[j].mid = Mid
                PROVE  collect'[j].ms \in Sizes /\ last'[collect'[j].ms] <= collect'[j].age
    BY DEF LastKept
  <2>3. collect'[j].age \in 0 .. Late
    BY <1>3 DEF Coll
  <2>4. CASE j = k
    BY <1>2, <1>3, <2>2, <2>3, <2>4
  <2>5. CASE j # k
    <3>1. collect'[j] = collect[j] /\ collect[j].ms \in Sizes /\ last[collect[j].ms] <= collect[j].age
      BY <1>1, <1>3, <2>5 DEF LastKept
    <3>. QED  BY <2>1, <2>3, <3>1
  <2>. QED  BY <2>4, <2>5
<1>11. CleanKept'
  <2>. SUFFICES ASSUME quiet, NEW j \in Slots, LiveOf(j, Mid)', collect'[j].ms = ms
                PROVE  \A q \in collect'[j].pages : q.earlier = FALSE
    BY <1>0 DEF CleanKept
  <2>1. CASE j = k
    BY <1>3, <1>7, <2>1 DEF LiveOf
  <2>2. CASE j # k
    BY <1>1, <1>3, <2>2 DEF LiveOf, CleanKept
  <2>. QED  BY <2>1, <2>2
<1>12. RivalsKept'
  BY <1>0, <1>1, <1>3 DEF RivalsKept
<1>13. OwnKept'
  <2>. SUFFICES ASSUME ~told', quiet, waited <= Timeout, Cardinality(rivals) < InFlight
                PROVE  Collected(k)'
    BY <1>0, <1>3 DEF OwnKept
  <2>1. ~told /\ ~Full(c)
    BY <1>0, <1>7 DEF Mixed
  <2>2. collect'[k] = c /\ waited \in 0 .. Late
    BY <1>1, <1>3, <2>1 DEF HasTypes
  <2>3. IsFiniteSet(came) /\ Cardinality(came) \in Nat
    BY <1>1, HasFacts, FS_Subset, FS_CardinalityType DEF HasTypes
  <2>4. CASE came = {}
    <3>1. ~own
      BY <1>1, <1>3, <1>k, <2>1, <2>4 DEF OwnKept, own, GoesOn
    <3>2. c.pages = {p} /\ c.age = 0 /\ came' = {pid}
      BY <1>0, <1>4, <2>4, <3>1
    <3>3. IsFiniteSet(c.pages) /\ Cardinality(c.pages) = 1 /\ Cardinality(came') = 1
      BY <3>2, FS_Singleton
    <3>4. 1 < ms
      BY <1>2, <1>4, <2>1, <3>3 DEF Full
    <3>5. LiveOf(k, Mid)'
      BY <1>4, <2>2, <3>2, HasFacts DEF LiveOf
    <3>6. /\ \A q \in c.pages : q.pid \in came'
          /\ \A a \in came' : \E q \in c.pages : q.pid = a
      BY <1>6, <3>2
    <3>7. c.age <= waited' /\ c.ms = ms' /\ Cardinality(c.pages) = Cardinality(came') /\ Cardinality(came') < ms'
      BY <1>0, <1>4, <2>2, <3>2, <3>3, <3>4, HasFacts
    <3>. QED  BY <2>2, <3>3, <3>5, <3>6, <3>7 DEF Collected
  <2>5. CASE came # {}
    <3>1. PICK i \in Slots : Collected(i)
      BY <1>1, <2>1, <2>5 DEF OwnKept
    <3>2. i = k
      BY <1>1, <1>2, <1>3, <1>5, <3>1 DEF Collected, OneLive
    <3>3. own
      BY <1>k, <3>1, <3>2 DEF Collected, own, GoesOn
    <3>. DEFINE P == collect[k].pages
    <3>4. /\ LiveOf(k, Mid) /\ collect[k].ms = ms /\ collect[k].age <= waited
          /\ IsFiniteSet(P) /\ Cardinality(P) = Cardinality(came) /\ Cardinality(came) < ms
          /\ \A q \in P : q.pid \in came
          /\ \A a \in came : \E q \in P : q.pid = a
      BY <3>1, <3>2 DEF Collected
    <3>. HIDE DEF P
    <3>5. c.age = collect[k].age /\ c.pages = IF \E q \in P : q.pid = pid THEN P ELSE P \cup {p}
      BY <1>4, <3>3 DEF P
    <3>6. LiveOf(k, Mid)'
      BY <1>4, <2>2, <3>4, <3>5 DEF LiveOf
    <3>7. CASE pid \in came
      <4>1. c.pages = P /\ came' = came
        BY <1>0, <3>4, <3>5, <3>7
      <4>. QED  BY <1>0, <1>4, <2>2, <3>4, <3>5, <3>6, <4>1 DEF Collected
    <3>8. CASE pid \notin came
      <4>1. c.pages = P \cup {p} /\ p \notin P /\ came' = came \cup {pid}
        BY <1>0, <1>6, <3>4, <3>5, <3>8
      <4>2. IsFiniteSet(c.pages) /\ Cardinality(c.pages) = Cardinality(came) + 1
        <5>1. IsFiniteSet(P \cup {p}) /\ Cardinality(P \cup {p}) = Cardinality(P) + 1
          BY <3>4, <4>1, FS_AddElement
        <5>. QED  BY <3>4, <4>1, <5>1
      <4>3. Cardinality(came') = Cardinality(came) + 1
        BY <2>3, <3>8, <4>1, FS_AddElement
      <4>4. Cardinality(came') < ms
        BY <1>2, <1>4, <2>1, <2>3, <4>2, <4>3 DEF Full
      <4>5. /\ \A q \in c.pages : q.pid \in came'
            /\ \A a \in came' : \E q \in c.pages : q.pid = a
        BY <1>6, <3>4, <4>1
      <4>. QED  BY <1>0, <1>4, <2>2, <3>4, <3>5, <3>6, <4>2, <4>3, <4>4, <4>5 DEF Collected
    <3>. QED  BY <3>7, <3>8
  <2>. QED  BY <2>4, <2>5
<1>. QED  BY <1>3, <1>8, <1>9, <1>10, <1>11, <1>12, <1>13 DEF HasStrong

\* A page of another one: it cannot drive the slot out before there are as many rivals as slots.
LEMMA InputOtherKept ==
  ASSUME HasStrong, NEW mid \in Mids \ {Mid}, NEW pid \in OtherPids, InputOther(mid, pid)
  PROVE  HasStrong'
<1>0. HasTypes /\ OneLive /\ LastKept /\ CleanKept /\ RivalsKept /\ OwnKept /\ ~garbage
  BY DEF HasStrong
<1>k. PICK k \in Slots : k = FindCollect(mid)
  BY <1>0, Found
<1>p. PICK p \in AnyPage : p = [pid |-> pid, earlier |-> FALSE]
  BY DEF AnyPage
<1>1. /\ collect' = [collect EXCEPT ![k] = IF Full(Stored(mid, OtherSize, p)) THEN Idle ELSE Stored(mid, OtherSize, p)]
      /\ rivals' = rivals \cup {mid}
      /\ UNCHANGED <<ms, came, waited, last, quiet, told, garbage>>
  BY <1>k, <1>p, Zenon DEF InputOther
<1>2. /\ collect' \in [Slots -> Coll] /\ OneLive'
      /\ \A j \in Slots : j # k => collect'[j] = collect[j]
      /\ collect'[k].active => collect'[k].mid = mid
  BY <1>0, <1>1, <1>k, HasFacts, PageComes
<1>3. mid # Mid /\ mid \in Mids
  OBVIOUS
<1>4. IsFiniteSet(rivals) /\ IsFiniteSet(rivals') /\ rivals \subseteq rivals' /\ mid \in rivals' /\ rivals' \subseteq Mids
  BY <1>0, <1>1, FS_AddElement DEF HasTypes
<1>5. Cardinality(rivals) \in Nat /\ Cardinality(rivals') \in Nat /\ Cardinality(rivals) <= Cardinality(rivals')
  BY <1>4, FS_Subset, FS_CardinalityType
<1>6. HasTypes'
  BY <1>0, <1>1, <1>2, <1>4 DEF HasTypes
<1>7. \A j \in Slots : LiveOf(j, Mid)' => j # k /\ LiveOf(j, Mid)
  BY <1>2, <1>3 DEF LiveOf
<1>8. LastKept' /\ CleanKept'
  <2>1. LastKept'
    BY <1>0, <1>1, <1>2, <1>3 DEF LastKept
  <2>2. CleanKept'
    BY <1>0, <1>1, <1>2, <1>7 DEF CleanKept
  <2>. QED  BY <2>1, <2>2
<1>9. RivalsKept'
  BY <1>0, <1>1, <1>2, <1>4 DEF RivalsKept
<1>10. OwnKept'
  <2>1. ASSUME ~told, quiet, came = {}, NEW j \in Slots PROVE ~(LiveOf(j, Mid)' /\ collect'[j].ms = ms)
    BY <1>0, <1>2, <1>7, <2>1 DEF OwnKept
  <2>2. ASSUME ~told, quiet, came # {}, waited <= Timeout, Cardinality(rivals') < InFlight
        PROVE  \E j \in Slots : Collected(j)'
    <3>1. PICK j \in Slots : Collected(j)
      BY <1>0, <1>5, <2>2, HasFacts DEF OwnKept
    <3>2. LiveOf(j, Mid) /\ collect[j].age <= waited
      BY <3>1 DEF Collected
    <3>3. ASSUME j = k PROVE FALSE
      <4>1. ~LiveOf(k, mid) /\ collect[k].active /\ collect[k].mid # mid
        BY <1>3, <3>2, <3>3 DEF LiveOf
      <4>2. /\ \A i \in Slots : ~LiveOf(i, mid)
            /\ \A i \in Slots : collect[i].active /\ collect[i].age <= collect[k].age
        BY <1>0, <1>3, <1>k, <4>1, Found
      <4>3. \A i \in Slots : collect[i].age \in 0 .. Late /\ collect[i].mid \in Mids
        BY <1>0 DEF HasTypes, Coll
      <4>4. \A i \in Slots : collect[i].age <= Timeout /\ collect[i].age <= waited
        BY <1>0, <2>2, <3>2, <3>3, <4>2, <4>3, HasFacts DEF HasTypes
      <4>5. \A i \in Slots : LiveOf(i, collect[i].mid)
        BY <4>2, <4>4 DEF LiveOf
      <4>6. \A i \in Slots \ {k} : collect[i].mid \in rivals
        <5>1. \A i \in Slots \ {k} : collect[i].mid # Mid
          BY <1>0, <3>2, <3>3, <4>5, HasFacts DEF OneLive
        <5>. QED  BY <1>0, <4>2, <4>4, <5>1 DEF RivalsKept
      <4>. DEFINE f == [i \in Slots |-> IF i = k THEN mid ELSE collect[i].mid]
      <4>7. f \in [Slots -> rivals']
        BY <1>4, <4>6
      <4>8. IsFiniteSet(Slots) /\ Cardinality(Slots) = InFlight
        BY HasFacts, FS_Interval DEF Slots
      <4>9. PICK x, y \in Slots : x # y /\ f[x] = f[y]
        <5>. HIDE DEF f
        <5>. QED  BY <1>4, <2>2, <4>7, <4>8, FS_PigeonHole
      <4>10. CASE x = k \/ y = k
        <5>1. \E i \in Slots : collect[i].mid = mid
          BY <4>9, <4>10
        <5>. QED  BY <4>2, <4>5, <5>1
      <4>11. CASE x # k /\ y # k
        <5>1. collect[x].mid = collect[y].mid
          BY <4>9, <4>11
        <5>2. LiveOf(x, collect[x].mid) /\ LiveOf(y, collect[x].mid) /\ collect[x].mid \in Mids
          BY <4>3, <4>5, <5>1
        <5>. QED  BY <1>0, <4>9, <5>2 DEF OneLive
      <4>. QED  BY <4>10, <4>11
    <3>4. collect'[j] = collect[j]
      BY <1>2, <3>3
    <3>5. Collected(j)'
      BY <1>1, <3>1, <3>4 DEF Collected, LiveOf
    <3>. QED  BY <3>5
  <2>. QED  BY <1>1, <2>1, <2>2 DEF OwnKept
<1>. QED  BY <1>0, <1>1, <1>2, <1>6, <1>8, <1>9, <1>10 DEF HasStrong

-----------------------------------------------------------------------------
(* The provider and time.                                                   *)

\* Slots that are too old are given up.
LEMMA FlushKept == ASSUME HasStrong, Flush PROVE HasStrong'
<1>0. HasTypes /\ ~garbage
  BY DEF HasStrong
<1>1. /\ collect' = [k \in Slots |-> Idle] /\ came' = {} /\ told' = FALSE
      /\ UNCHANGED <<ms, waited, rivals, last, quiet, garbage>>
  BY DEF Flush
<1>2. Idle \in Coll /\ ~Idle.active
  BY HasFacts DEF Idle, Coll
<1>3. collect' \in [Slots -> Coll] /\ \A k \in Slots : ~collect'[k].active
  BY <1>1, <1>2
<1>4. HasTypes'
  BY <1>0, <1>1, <1>3 DEF HasTypes
<1>. QED  BY <1>0, <1>1, <1>3, <1>4 DEF HasStrong, OneLive, LiveOf, LastKept, CleanKept, RivalsKept, OwnKept

\* The satellites begin the next message.
LEMMA NextMessageKept == ASSUME HasStrong, NextMessage PROVE HasStrong'
<1>0. HasTypes /\ OneLive /\ LastKept /\ RivalsKept /\ ~garbage
  BY DEF HasStrong
<1>1. /\ ms' \in Sizes /\ quiet' = (last[ms'] > Timeout)
      /\ collect' = [k \in Slots |->
            IF collect[k].mid # Mid THEN collect[k]
            ELSE [collect[k] EXCEPT !.pages = {[q EXCEPT !.earlier = TRUE] : q \in @}]]
      /\ came' = {} /\ waited' = 0 /\ told' = FALSE
      /\ UNCHANGED <<rivals, last, garbage>>
  BY DEF NextMessage
<1>2. ASSUME NEW k \in Slots
      PROVE  /\ collect'[k] \in Coll
             /\ collect'[k].active = collect[k].active /\ collect'[k].mid = collect[k].mid
             /\ collect'[k].ms = collect[k].ms /\ collect'[k].age = collect[k].age
  <2>. DEFINE c == collect[k]
              P == {[q EXCEPT !.earlier = TRUE] : q \in c.pages}
  <2>1. c \in Coll
    BY <1>0 DEF HasTypes
  <2>. HIDE DEF c
  <2>2. P \subseteq AnyPage
    BY <2>1 DEF Coll, AnyPage
  <2>. HIDE DEF P
  <2>3. collect'[k] = c \/ collect'[k] = [c EXCEPT !.pages = P]
    BY <1>1 DEF c, P
  <2>4. [c EXCEPT !.pages = P] \in Coll
    BY <2>1, <2>2 DEF Coll
  <2>. QED  BY <2>1, <2>3, <2>4 DEF c, Coll
<1>3. collect' \in [Slots -> Coll]
  <2>1. \E f : collect' = [k \in Slots |-> f[k]]
    <3>1. collect' = [k \in Slots |-> collect'[k]]
      BY <1>1
    <3>. QED  BY <3>1
  <2>. QED  BY <1>2, <2>1
<1>4. \A k \in Slots : \A mid : LiveOf(k, mid)' <=> LiveOf(k, mid)
  BY <1>2 DEF LiveOf
<1>5. ASSUME quiet', NEW k \in Slots, LiveOf(k, Mid), collect[k].ms = ms'
      PROVE  FALSE
  <2>1. last[ms'] <= collect[k].age /\ collect[k].age <= Timeout
    BY <1>0, <1>5 DEF LastKept, LiveOf
  <2>2. last[ms'] \in 0 .. Late /\ collect[k].age \in 0 .. Late /\ last[ms'] > Timeout
    BY <1>0, <1>1, <1>5 DEF HasTypes, Coll
  <2>. QED  BY <2>1, <2>2, HasFacts
<1>6. HasTypes'
  <2>1. quiet' \in BOOLEAN
    BY <1>1, HasFacts
  <2>2. waited' \in 0 .. Late
    <3>1. waited' = 0
      BY <1>1
    <3>. QED  BY <3>1, HasFacts
  <2>3. told' \in BOOLEAN /\ came' \subseteq Pids
    BY <1>1
  <2>. QED  BY <1>0, <1>1, <1>3, <2>1, <2>2, <2>3 DEF HasTypes
<1>7. OneLive' /\ LastKept' /\ CleanKept' /\ OwnKept'
  <2>1. OneLive'
    BY <1>0, <1>4 DEF OneLive
  <2>2. LastKept'
    BY <1>0, <1>1, <1>2 DEF LastKept
  <2>3. CleanKept'
    BY <1>2, <1>4, <1>5 DEF CleanKept
  <2>4. OwnKept'
    BY <1>1, <1>2, <1>4, <1>5 DEF OwnKept
  <2>. QED  BY <2>1, <2>2, <2>3, <2>4
<1>8. RivalsKept'
  <2>. SUFFICES ASSUME NEW k \in Slots, collect'[k].active, collect'[k].mid # Mid, collect'[k].age <= Timeout,
                       collect'[k].age <= waited'
                PROVE  collect'[k].mid \in rivals'
    BY DEF RivalsKept
  <2>1. collect[k].age \in 0 .. Late /\ waited \in 0 .. Late
    BY <1>0 DEF HasTypes, Coll
  <2>2. collect[k].age <= waited
    BY <1>1, <1>2, <2>1, HasFacts
  <2>. QED  BY <1>0, <1>1, <1>2, <2>2 DEF RivalsKept
<1>. QED  BY <1>0, <1>1, <1>6, <1>7, <1>8 DEF HasStrong

\* Time passes.
LEMMA SecondsKept == ASSUME HasStrong, Second PROVE HasStrong'
<1>0. HasTypes /\ OneLive /\ LastKept /\ CleanKept /\ RivalsKept /\ OwnKept /\ ~garbage
  BY DEF HasStrong
<1>1. /\ collect' = [k \in Slots |-> [collect[k] EXCEPT !.age = IF collect[k].active THEN Aged(@) ELSE 0]]
      /\ waited' = IF came = {} THEN 0 ELSE Aged(waited)
      /\ rivals' = IF came = {} THEN {} ELSE rivals
      /\ last' = [s \in Sizes |-> Aged(last[s])]
      /\ UNCHANGED <<ms, came, quiet, told, garbage>>
  BY DEF Second
<1>2. ASSUME NEW k \in Slots
      PROVE  /\ collect[k].age \in 0 .. Late /\ collect'[k] \in Coll
             /\ collect'[k].active = collect[k].active /\ collect'[k].mid = collect[k].mid
             /\ collect'[k].ms = collect[k].ms /\ collect'[k].pages = collect[k].pages
             /\ collect[k].active => collect'[k].age = Aged(collect[k].age)
  <2>. DEFINE c == collect[k]
              a == IF c.active THEN Aged(c.age) ELSE 0
  <2>1. c \in Coll
    BY <1>0 DEF HasTypes
  <2>. HIDE DEF c
  <2>2. a \in 0 .. Late /\ c.age \in 0 .. Late
    BY <2>1, HasFacts DEF Coll
  <2>. HIDE DEF a
  <2>3. collect'[k] = [c EXCEPT !.age = a]
    BY <1>1 DEF c, a
  <2>4. collect'[k] \in Coll /\ collect'[k].age = a
    BY <2>1, <2>2, <2>3 DEF Coll
  <2>5. /\ collect'[k].active = c.active /\ collect'[k].mid = c.mid
        /\ collect'[k].ms = c.ms /\ collect'[k].pages = c.pages
    BY <2>1, <2>3 DEF Coll
  <2>. QED  BY <2>2, <2>4, <2>5 DEF a, c
<1>3. collect' \in [Slots -> Coll]
  <2>1. collect' = [k \in Slots |-> collect'[k]]
    BY <1>1
  <2>. QED  BY <1>2, <2>1
<1>4. \A t \in 0 .. Late : Aged(t) \in 0 .. Late /\ (t < Late => Aged(t) = t + 1) /\ (Aged(t) <= Timeout => Aged(t) = t + 1)
  BY HasFacts DEF Aged
<1>5. \A t, u \in 0 .. Late : t <= u => Aged(t) <= Aged(u)
  BY HasFacts DEF Aged
<1>6. \A k \in Slots : \A mid : LiveOf(k, mid)' => LiveOf(k, mid) /\ collect'[k].age = collect[k].age + 1
  <2>. SUFFICES ASSUME NEW k \in Slots, NEW mid, LiveOf(k, mid)'
                PROVE  LiveOf(k, mid) /\ collect'[k].age = collect[k].age + 1
    OBVIOUS
  <2>1. collect[k].active /\ collect[k].mid = mid /\ Aged(collect[k].age) <= Timeout /\ collect'[k].age = Aged(collect[k].age)
    BY <1>2 DEF LiveOf
  <2>2. collect[k].age \in 0 .. Late
    BY <1>2
  <2>3. Aged(collect[k].age) = collect[k].age + 1
    BY <1>4, <2>1, <2>2
  <2>. QED  BY <2>1, <2>2, <2>3, HasFacts DEF LiveOf
<1>7. waited \in 0 .. Late /\ waited' \in 0 .. Late
  BY <1>0, <1>1, <1>4, HasFacts DEF HasTypes
<1>8. HasTypes'
  <2>1. last' \in [Sizes -> 0 .. Late]
    <3>1. \A s \in Sizes : Aged(last[s]) \in 0 .. Late
      BY <1>0, <1>4 DEF HasTypes
    <3>. QED  BY <1>1, <3>1
  <2>2. IsFiniteSet(rivals') /\ rivals' \subseteq Mids
    BY <1>0, <1>1, FS_EmptySet DEF HasTypes
  <2>. QED  BY <1>0, <1>1, <1>3, <1>7, <2>1, <2>2 DEF HasTypes
<1>9. OneLive'
  BY <1>0, <1>6 DEF OneLive
<1>10. LastKept'
  <2>. SUFFICES ASSUME NEW k \in Slots, collect'[k].active, collect'[k].mid = Mid
                PROVE  collect'[k].ms \in Sizes /\ last'[collect'[k].ms] <= collect'[k].age
    BY DEF LastKept
  <2>. DEFINE s == collect[k].ms
  <2>1. s \in Sizes /\ last[s] <= collect[k].age /\ collect[k].active /\ collect'[k].ms = s
    BY <1>0, <1>2 DEF LastKept
  <2>. HIDE DEF s
  <2>2. last[s] \in 0 .. Late /\ last'[s] = Aged(last[s])
    BY <1>0, <1>1, <2>1 DEF HasTypes
  <2>3. collect[k].age \in 0 .. Late /\ collect'[k].age = Aged(collect[k].age)
    BY <1>2, <2>1
  <2>4. Aged(last[s]) <= Aged(collect[k].age)
    BY <1>5, <2>1, <2>2, <2>3
  <2>. QED  BY <2>1, <2>2, <2>3, <2>4
<1>11. CleanKept'
  BY <1>0, <1>1, <1>2, <1>6 DEF CleanKept
<1>12. RivalsKept'
  <2>. SUFFICES ASSUME NEW k \in Slots, collect'[k].active, collect'[k].mid # Mid, collect'[k].age <= Timeout,
                       collect'[k].age <= waited'
                PROVE  collect'[k].mid \in rivals'
    BY DEF RivalsKept
  <2>1. collect[k].active /\ collect[k].mid # Mid /\ collect[k].age \in 0 .. Late /\ collect'[k].age = Aged(collect[k].age)
    BY <1>2
  <2>2. Aged(collect[k].age) = collect[k].age + 1
    BY <1>4, <2>1
  <2>3. came # {}
    BY <1>1, <2>1, <2>2
  <2>4. waited' = Aged(waited) /\ rivals' = rivals
    BY <1>1, <2>3
  <2>5. collect[k].age <= waited /\ collect[k].age <= Timeout
    BY <1>7, <2>1, <2>2, <2>4, HasFacts DEF Aged
  <2>. QED  BY <1>0, <1>2, <2>1, <2>4, <2>5 DEF RivalsKept
<1>13. OwnKept'
  <2>1. ASSUME ~told, quiet, came = {}, NEW k \in Slots PROVE ~(LiveOf(k, Mid)' /\ collect'[k].ms = ms)
    BY <1>0, <1>2, <1>6, <2>1 DEF OwnKept
  <2>2. ASSUME ~told, quiet, came # {}, waited' <= Timeout, Cardinality(rivals') < InFlight
        PROVE  \E k \in Slots : Collected(k)'
    <3>1. waited' = waited + 1 /\ waited <= Timeout /\ rivals' = rivals
      BY <1>1, <1>4, <1>7, <2>2, HasFacts
    <3>2. PICK k \in Slots : Collected(k)
      BY <1>0, <2>2, <3>1 DEF OwnKept
    <3>3. collect[k].active /\ collect[k].mid = Mid /\ collect[k].age <= waited
      BY <3>2 DEF Collected, LiveOf
    <3>4. collect'[k].age = collect[k].age + 1 /\ collect'[k].age <= waited' /\ collect'[k].age <= Timeout
      <4>1. collect[k].age \in 0 .. Late /\ collect'[k].age = Aged(collect[k].age)
        BY <1>2, <3>3
      <4>2. collect[k].age < Late
        BY <1>7, <3>1, <3>3, <4>1, HasFacts
      <4>. QED  BY <1>4, <1>7, <2>2, <3>1, <3>3, <4>1, <4>2, HasFacts
    <3>5. LiveOf(k, Mid)'
      BY <1>2, <3>3, <3>4 DEF LiveOf
    <3>6. Collected(k)'
      BY <1>1, <1>2, <3>2, <3>4, <3>5 DEF Collected
    <3>. QED  BY <3>6
  <2>. QED  BY <1>1, <2>1, <2>2 DEF OwnKept
<1>. QED  BY <1>0, <1>1, <1>8, <1>9, <1>10, <1>11, <1>12, <1>13 DEF HasStrong

LEMMA HasStrongInit == PagesInit => HasStrong
<1>. SUFFICES ASSUME PagesInit PROVE HasStrong
  OBVIOUS
<1>1. /\ collect = [k \in Slots |-> Idle] /\ ms \in Sizes /\ came = {} /\ waited = 0 /\ rivals = {}
      /\ last = [s \in Sizes |-> Late] /\ quiet = TRUE /\ told = FALSE /\ garbage = FALSE
  BY DEF PagesInit
<1>2. Idle \in Coll /\ ~Idle.active
  BY HasFacts DEF Idle, Coll
<1>3. collect \in [Slots -> Coll] /\ \A k \in Slots : ~collect[k].active
  BY <1>1, <1>2
<1>4. last \in [Sizes -> 0 .. Late] /\ waited \in 0 .. Late
  BY <1>1, HasFacts
<1>5. HasTypes
  BY <1>1, <1>3, <1>4, FS_EmptySet DEF HasTypes
<1>. QED  BY <1>1, <1>3, <1>5 DEF HasStrong, OneLive, LiveOf, LastKept, CleanKept, RivalsKept, OwnKept

LEMMA HasStrongStep == HasStrong /\ [PagesNext]_pagesVars => HasStrong'
<1>. SUFFICES ASSUME HasStrong, [PagesNext]_pagesVars PROVE HasStrong'
  OBVIOUS
<1>1. ASSUME NEW pid \in Pids, InputPage(pid) PROVE HasStrong'
  BY <1>1, InputPageKept
<1>2. ASSUME NEW mid \in Mids \ {Mid}, NEW pid \in OtherPids, InputOther(mid, pid) PROVE HasStrong'
  BY <1>2, InputOtherKept
<1>3. CASE Flush
  BY <1>3, FlushKept
<1>4. CASE NextMessage
  BY <1>4, NextMessageKept
<1>5. CASE Second
  BY <1>5, SecondsKept
<1>6. CASE UNCHANGED pagesVars
  BY <1>6 DEF pagesVars, HasStrong, HasTypes, OneLive, LiveOf, LastKept, CleanKept, RivalsKept, OwnKept, Collected
<1>. QED  BY <1>1, <1>2, <1>3, <1>4, <1>5, <1>6 DEF PagesNext

\* A HAS message of which enough pages came in time is given back unless there were as many other
\* messages as slots since its first page, and no other message's pages are taken for its own
\* (has_input_page), for any numbers of pages, slots and messages and any timeout.
THEOREM HasInvHolds == HasSpec => []HasInv
<1>1. PagesInit => HasStrong
  BY HasStrongInit
<1>2. HasStrong /\ [PagesNext]_pagesVars => HasStrong'
  BY HasStrongStep
<1>3. HasStrong => HasInv
  <2>. SUFFICES ASSUME HasStrong, Cardinality(came) >= ms, waited <= Timeout, quiet,
                       Cardinality(rivals) < InFlight, ~told
                PROVE  FALSE
    BY DEF HasInv, GivenBack, HasStrong
  <2>1. IsFiniteSet(came) /\ Cardinality(came) \in Nat /\ ms \in Nat /\ ms > 0
    BY HasFacts, FS_Subset, FS_CardinalityType DEF HasStrong, HasTypes
  <2>2. came # {}
    BY <2>1, FS_EmptySet
  <2>3. \E k \in Slots : Collected(k)
    BY <2>2 DEF HasStrong, OwnKept
  <2>. QED  BY <2>1, <2>3 DEF Collected
<1>. QED  BY <1>1, <1>2, <1>3, PTL DEF HasSpec

-----------------------------------------------------------------------------
(* SBAS: any satellites, masks and ages; one mask an issue.                 *)

\* One satellite is listened to, and it uses the issue of a mask for one mask.
OneMaskAnIssue == /\ SbasSel \in Geos
                  /\ Len(SatMasks[SbasSel]) <= IodpMod /\ Len(GridMasks[SbasSel]) <= IodpMod

\* What a place may be said to be of.
Named == {NoOne} \cup UNION {Range(m) : m \in UNION {Range(SatMasks[g]) \cup Range(GridMasks[g]) : g \in Geos}}
Ages  == -1 .. MaxAgeLong + 1
FastRec == [of : Named, at : Named, told : Named, ok : BOOLEAN, iodf : Nat, age : Ages]
LongRec == [of : Named, at : Named, age : Ages]

\* A correction was made for the one its place named then; one that says that Watched may be used
\* is not younger than the time since when it may not.
FastKept(c, u) == c.of = c.at /\ (c.age # Unset /\ c.ok /\ c.told = Watched => u <= c.age)
\* Long-term corrections are stored before there is a mask, too.
LongKept(c) == c.of = c.at \/ c.at = NoOne

\* names is a mask of the satellite that is listened to, and iodp its issue.
MaskKept == names = <<>> \/ \E k \in 1 .. inforce[SbasSel] :
                               names = Masks(SbasSel)[k] /\ iodp = (k - 1) % IodpMod

SbasStrong ==
    /\ part \in {"sat", "grid"} /\ inforce \in [Geos -> Nat]
    /\ \A g \in Geos : inforce[g] \in 1 .. Len(Masks(g))
    /\ iodfs \in [Geos -> [Blocks -> Nat]] /\ unsafe \in Ages /\ tlat \in Nat
    /\ fast \in [Places -> FastRec] /\ long \in [Places -> LongRec]
    /\ \A j \in Places : FastKept(fast[j], unsafe) /\ LongKept(long[j])
    /\ MaskKept

-----------------------------------------------------------------------------
LEMMA MasksAre ==
  ASSUME NEW g \in Geos, part \in {"sat", "grid"}, NEW k \in 1 .. Len(Masks(g))
  PROVE  /\ Len(Masks(g)) \in Nat \ {0} /\ NoOne \notin Range(Masks(g)[k])
         /\ DOMAIN Masks(g)[k] \subseteq Places /\ DOMAIN Masks(g)[k] \subseteq Nat
         /\ Range(Masks(g)[k]) \subseteq Named
         /\ \A j : Name(Masks(g)[k], j) \in Named
         /\ \A j \in DOMAIN Masks(g)[k] : Masks(g)[k][j] # NoOne
<1>. DEFINE sent == Masks(g)
            m == sent[k]
<1>1. sent \in {SatMasks[g], GridMasks[g]}
  BY DEF Masks
<1>2. sent \in Seq(Range(sent)) /\ sent # <<>>
      /\ \A i \in DOMAIN sent : sent[i] \in Seq(Range(sent[i])) /\ NoOne \notin Range(sent[i])
  BY <1>1, SbasAssumption, Zenon
<1>. HIDE DEF sent
<1>3. Len(sent) \in Nat \ {0} /\ DOMAIN sent = 1 .. Len(sent)
  <2>. DEFINE S == Range(sent)
  <2>. HIDE DEF S
  <2>1. sent \in Seq(S)
    BY <1>2 DEF S
  <2>. QED  BY <1>2, <2>1
<1>4. k \in DOMAIN sent
  BY <1>3 DEF sent
<1>5. m \in Seq(Range(m)) /\ NoOne \notin Range(m)
  BY <1>2, <1>4
<1>6. m \in Range(sent)
  BY <1>4 DEF Range
<1>7. m \in UNION {Range(SatMasks[h]) \cup Range(GridMasks[h]) : h \in Geos}
  BY <1>1, <1>6
<1>. HIDE DEF m
<1>8. DOMAIN m \subseteq Places
  BY <1>7, Zenon DEF Places
<1>9. Range(m) \subseteq Named
  BY <1>7, Zenon DEF Named
<1>10. DOMAIN m \subseteq Nat
  <2>. DEFINE S == Range(m)
  <2>. HIDE DEF S
  <2>1. m \in Seq(S)
    BY <1>5 DEF S
  <2>. QED  BY <2>1
<1>11. \A j \in DOMAIN m : m[j] \in Range(m)
  BY DEF Range
<1>12. NoOne \in Named
  BY DEF Named
<1>13. \A j : Name(m, j) \in Named
  BY <1>9, <1>11, <1>12 DEF Name
<1>. QED  BY <1>3, <1>5, <1>8, <1>9, <1>10, <1>11, <1>13 DEF m, sent

\* Whoever a mask names may be named by a place.
LEMMA NamesAre ==
  ASSUME SbasStrong, OneMaskAnIssue
  PROVE  /\ DOMAIN names \subseteq Places /\ \A j : Name(names, j) \in Named
         /\ \A j \in DOMAIN names : names[j] # NoOne /\ names[j] \in Named
<1>1. CASE names = <<>>
  BY <1>1 DEF Name, Named
<1>2. CASE names # <<>>
  <2>1. PICK k \in 1 .. inforce[SbasSel] : names = Masks(SbasSel)[k]
    BY <1>2 DEF SbasStrong, MaskKept
  <2>2. inforce[SbasSel] \in 1 .. Len(Masks(SbasSel)) /\ Len(Masks(SbasSel)) \in Nat
    BY MasksAre DEF SbasStrong, OneMaskAnIssue
  <2>3. k \in 1 .. Len(Masks(SbasSel))
    BY <2>2
  <2>4. /\ DOMAIN names \subseteq Places /\ \A j : Name(names, j) \in Named
        /\ \A j \in DOMAIN names : names[j] # NoOne
    BY <2>1, <2>3, MasksAre DEF SbasStrong, OneMaskAnIssue
  <2>. QED  BY <2>4 DEF Name
<1>. QED  BY <1>1, <1>2

\* A message with the issue of the names is for the mask they are of.
LEMMA SameMask ==
  ASSUME SbasStrong, OneMaskAnIssue, iodp = Issue(SbasSel), names # <<>>
  PROVE  names = Current(SbasSel)
<1>. DEFINE n == inforce[SbasSel]
            sent == Masks(SbasSel)
<1>1. PICK k \in 1 .. n : names = sent[k] /\ iodp = (k - 1) % IodpMod
  BY DEF SbasStrong, MaskKept
<1>2. n \in 1 .. Len(sent) /\ Len(sent) \in Nat /\ Len(sent) <= IodpMod /\ IodpMod \in Nat /\ IodpMod > 0
  <2>1. n \in 1 .. Len(sent)
    BY DEF SbasStrong, OneMaskAnIssue
  <2>2. Len(sent) \in Nat
    BY <2>1, MasksAre DEF SbasStrong, OneMaskAnIssue
  <2>. QED  BY <2>1, <2>2, SbasAssumption DEF OneMaskAnIssue, Masks
<1>3. iodp = (n - 1) % IodpMod
  BY DEF Issue
<1>. HIDE DEF n, sent
<1>4. (k - 1) % IodpMod = k - 1 /\ (n - 1) % IodpMod = n - 1
  BY <1>2
<1>5. k = n
  BY <1>1, <1>2, <1>3, <1>4
<1>. QED  BY <1>1, <1>5 DEF n, sent, Current

\* Only the satellite that was chosen is listened to.
LEMMA FromOne == ASSUME OneMaskAnIssue, NEW g \in Geos, Listens(g) PROVE g = SbasSel
BY SbasAssumption DEF OneMaskAnIssue, Listens

\* What a place held is kept by a message that leaves it alone.
LEMMA OldKept ==
  ASSUME SbasStrong, unsafe' = (IF unsafe \in 0 .. MaxAgeLong THEN unsafe + 1 ELSE unsafe), NEW j \in Places
  PROVE  /\ OldFast[j] \in FastRec /\ FastKept(OldFast[j], unsafe')
         /\ OldLong[j] \in LongRec /\ LongKept(OldLong[j])
         /\ OldFast[j].age # Unset => fast[j].age # Unset
<1>1. fast[j] \in FastRec /\ long[j] \in LongRec /\ FastKept(fast[j], unsafe) /\ LongKept(long[j]) /\ unsafe \in Ages
      /\ MaxAgeLong \in Nat
  BY SbasAssumption DEF SbasStrong
<1>2. OldFast[j] = [fast[j] EXCEPT !.age = IF @ \in 0 .. MaxAgeLong THEN @ + 1 ELSE @]
      /\ OldLong[j] = [long[j] EXCEPT !.age = IF @ \in 0 .. MaxAgeLong THEN @ + 1 ELSE @]
  BY DEF OldFast, OldLong, OneSecondOn
<1>3. fast[j].age \in Ages /\ long[j].age \in Ages
  BY <1>1 DEF FastRec, LongRec
<1>. DEFINE a == IF fast[j].age \in 0 .. MaxAgeLong THEN fast[j].age + 1 ELSE fast[j].age
            l == IF long[j].age \in 0 .. MaxAgeLong THEN long[j].age + 1 ELSE long[j].age
<1>4. a \in Ages /\ l \in Ages /\ (a # Unset <=> fast[j].age # Unset)
      /\ (fast[j].age # Unset /\ unsafe <= fast[j].age => unsafe' <= a)
  BY <1>1, <1>3 DEF Ages, Unset
<1>. HIDE DEF a, l
<1>5. OldFast[j] = [fast[j] EXCEPT !.age = a] /\ OldLong[j] = [long[j] EXCEPT !.age = l]
  BY <1>2 DEF a, l
<1>6. OldFast[j] \in FastRec /\ OldLong[j] \in LongRec
  BY <1>1, <1>4, <1>5 DEF FastRec, LongRec
<1>7. /\ OldFast[j].of = fast[j].of /\ OldFast[j].at = fast[j].at /\ OldFast[j].told = fast[j].told
      /\ OldFast[j].ok = fast[j].ok /\ OldFast[j].age = a
      /\ OldLong[j].of = long[j].of /\ OldLong[j].at = long[j].at
  BY <1>1, <1>5 DEF FastRec, LongRec
<1>. QED  BY <1>1, <1>4, <1>6, <1>7 DEF FastKept, LongKept

\* What a message of fast corrections or delays makes
LEMMA BlockKept ==
  ASSUME SbasStrong, OneMaskAnIssue, iodp = Issue(SbasSel), NEW n,
         unsafe' = (IF unsafe \in 0 .. MaxAgeLong THEN unsafe + 1 ELSE unsafe),
         NEW b \in Used(SbasSel), NEW j \in Places
  PROVE  Block(SbasSel, b, n)[j] \in FastRec /\ FastKept(Block(SbasSel, b, n)[j], unsafe')
<1>. DEFINE g == SbasSel
            c == [of |-> Name(Current(g), j), at |-> names[j], told |-> Name(Current(g), j),
                  ok |-> Fit(g, j), iodf |-> NextIodf(g, b), age |-> 0]
<1>1. CASE Block(g, b, n)[j] = OldFast[j]
  BY <1>1, OldKept
<1>2. CASE Block(g, b, n)[j] # OldFast[j]
  <2>1. Block(g, b, n)[j] = c /\ j \in DOMAIN names
    BY <1>2, Zenon DEF Block
  <2>2. names = Current(g)
    BY <2>1, SameMask
  <2>3. Name(Current(g), j) = names[j] /\ names[j] \in Named
    BY <2>1, <2>2, NamesAre DEF Name
  <2>4. NextIodf(g, b) \in Nat
    <3>1. b \in Blocks
      <4>1. DOMAIN Current(g) \subseteq Places
        BY <2>2, NamesAre
      <4>. QED  BY <4>1 DEF Used, Blocks
    <3>2. iodfs[g][b] \in Nat /\ IodfMod \in Nat /\ IodfMod > 0
      BY <3>1, SbasAssumption DEF SbasStrong, OneMaskAnIssue
    <3>. QED  BY <3>2 DEF NextIodf
  <2>5. Fit(g, j) \in BOOLEAN /\ (Fit(g, j) /\ names[j] = Watched => unsafe = Unset)
    BY <2>3 DEF Fit
  <2>6. 0 \in Ages /\ 0 # Unset /\ (unsafe = Unset => unsafe' <= 0)
    BY SbasAssumption DEF Ages, Unset
  <2>7. c \in FastRec
    BY <2>3, <2>4, <2>5, <2>6 DEF FastRec
  <2>8. FastKept(c, unsafe')
    BY <2>3, <2>5, <2>6 DEF FastKept
  <2>. QED  BY <2>1, <2>7, <2>8
<1>. QED  BY <1>1, <1>2

\* A long-term correction is stored for the satellite its place names.
LEMMA LongTermKept ==
  ASSUME SbasStrong, OneMaskAnIssue, iodp = Issue(SbasSel), NEW places,
         unsafe' = (IF unsafe \in 0 .. MaxAgeLong THEN unsafe + 1 ELSE unsafe), NEW j \in Places
  PROVE  LongTerm(SbasSel, places)[j] \in LongRec /\ LongKept(LongTerm(SbasSel, places)[j])
<1>. DEFINE c == [of |-> Name(Current(SbasSel), j), at |-> Name(names, j), age |-> 0]
<1>1. LongTerm(SbasSel, places)[j] \in {c, OldLong[j]}
  BY DEF LongTerm
<1>2. 0 \in Ages
  BY SbasAssumption DEF Ages
<1>3. Name(names, j) \in Named
  BY NamesAre
<1>4. Name(Current(SbasSel), j) \in Named
  <2>1. inforce[SbasSel] \in 1 .. Len(Masks(SbasSel)) /\ part \in {"sat", "grid"} /\ SbasSel \in Geos
    BY DEF SbasStrong, OneMaskAnIssue
  <2>. QED  BY <2>1, MasksAre DEF Current
<1>5. LongKept(c)
  <2>1. CASE names = <<>>
    BY <2>1 DEF LongKept, Name
  <2>2. CASE names # <<>>
    BY <2>2, SameMask DEF LongKept
  <2>. QED  BY <2>1, <2>2
<1>6. c \in LongRec
  BY <1>2, <1>3, <1>4 DEF LongRec
<1>. QED  BY <1>1, <1>5, <1>6, OldKept

\* A word on the use of a satellite
LEMMA IntegrityKept ==
  ASSUME SbasStrong, OneMaskAnIssue, NEW j \in Places,
         unsafe' = (IF unsafe \in 0 .. MaxAgeLong THEN unsafe + 1 ELSE unsafe)
  PROVE  LET c == [OldFast[j] EXCEPT !.ok = Fit(SbasSel, j), !.told = Name(Current(SbasSel), j)]
         IN  c \in FastRec /\ FastKept(c, unsafe')
<1>. DEFINE o == OldFast[j]
            t == Name(Current(SbasSel), j)
            fit == Fit(SbasSel, j)
            c == [o EXCEPT !.ok = fit, !.told = t]
<1>1. o \in FastRec /\ FastKept(o, unsafe')
  BY OldKept
<1>2. t \in Named
  <2>1. inforce[SbasSel] \in 1 .. Len(Masks(SbasSel)) /\ part \in {"sat", "grid"} /\ SbasSel \in Geos
    BY DEF SbasStrong, OneMaskAnIssue
  <2>. QED  BY <2>1, MasksAre DEF Current
<1>3. fit \in BOOLEAN /\ (fit /\ t = Watched => unsafe = Unset)
  BY DEF Fit
<1>4. unsafe = Unset => unsafe' = Unset
  BY DEF Unset
<1>. HIDE DEF o, t, fit
<1>5. o.age \in Ages /\ \A a \in Ages : Unset <= a
  BY <1>1, SbasAssumption DEF FastRec, Ages, Unset
<1>6. c \in FastRec
  BY <1>1, <1>2, <1>3 DEF FastRec
<1>7. c.of = o.of /\ c.at = o.at /\ c.told = t /\ c.ok = fit /\ c.age = o.age
  BY <1>1 DEF FastRec
<1>8. FastKept(c, unsafe')
  BY <1>1, <1>3, <1>4, <1>5, <1>7 DEF FastKept
<1>. QED  BY <1>6, <1>8 DEF o, t, fit

\* A message changes the issues of one block.
LEMMA NewIodfs ==
  ASSUME SbasStrong, OneMaskAnIssue, NEW b \in Used(SbasSel)
  PROVE  [iodfs EXCEPT ![SbasSel][b] = NextIodf(SbasSel, b)] \in [Geos -> [Blocks -> Nat]]
<1>1. SbasSel \in Geos /\ iodfs \in [Geos -> [Blocks -> Nat]] /\ IodfMod \in Nat /\ IodfMod > 0
  BY SbasAssumption DEF SbasStrong, OneMaskAnIssue
<1>2. b \in Blocks
  <2>1. inforce[SbasSel] \in 1 .. Len(Masks(SbasSel)) /\ part \in {"sat", "grid"}
    BY <1>1 DEF SbasStrong
  <2>2. DOMAIN Current(SbasSel) \subseteq Places
    BY <1>1, <2>1, MasksAre DEF Current
  <2>. QED  BY <2>2 DEF Used, Blocks
<1>3. NextIodf(SbasSel, b) \in Nat
  <2>1. iodfs[SbasSel][b] \in Nat
    BY <1>1, <1>2
  <2>. QED  BY <1>1, <2>1 DEF NextIodf
<1>. HIDE DEF NextIodf
<1>. QED  BY <1>1, <1>2, <1>3

\* A second, with or without a message
LEMMA SecondKept ==
  ASSUME SbasStrong, OneMaskAnIssue, SbasSecond
  PROVE  SbasStrong'
<1>0. /\ unsafe' = (IF unsafe \in 0 .. MaxAgeLong THEN unsafe + 1 ELSE unsafe)
      /\ part' = part /\ inforce' = inforce
  BY DEF SbasSecond
<1>1. unsafe' \in Ages
  <2>1. unsafe \in Ages
    BY DEF SbasStrong
  <2>. QED  BY <1>0, <2>1, SbasAssumption DEF Ages
<1>2. part' \in {"sat", "grid"} /\ inforce' \in [Geos -> Nat] /\ (\A g \in Geos : inforce'[g] \in 1 .. Len(Masks(g)'))
  <2>1. \A g \in Geos : Masks(g)' = Masks(g)
    BY <1>0 DEF Masks
  <2>. QED  BY <1>0, <2>1 DEF SbasStrong
<1>. DEFINE FastIs(f) == f \in [Places -> FastRec] /\ \A j \in Places : FastKept(f[j], unsafe')
            LongIs(f) == f \in [Places -> LongRec] /\ \A j \in Places : LongKept(f[j])
<1>3. FastIs(OldFast) /\ LongIs(OldLong)
  <2>1. DOMAIN OldFast = Places /\ OldFast = [j \in Places |-> OldFast[j]]
        /\ DOMAIN OldLong = Places /\ OldLong = [j \in Places |-> OldLong[j]]
    BY DEF OldFast, OldLong
  <2>2. \A j \in Places : /\ OldFast[j] \in FastRec /\ FastKept(OldFast[j], unsafe')
                          /\ OldLong[j] \in LongRec /\ LongKept(OldLong[j])
    BY <1>0, OldKept
  <2>. HIDE DEF OldFast, OldLong
  <2>. QED  BY <2>1, <2>2
<1>4. ASSUME iodp = Issue(SbasSel), NEW b \in Used(SbasSel), NEW n
      PROVE  FastIs(Block(SbasSel, b, n))
  <2>. DEFINE B == Block(SbasSel, b, n)
  <2>1. B = [j \in Places |-> B[j]]
    BY Zenon DEF Block
  <2>2. \A j \in Places : B[j] \in FastRec /\ FastKept(B[j], unsafe')
    BY <1>0, <1>4, BlockKept
  <2>. HIDE DEF B
  <2>3. FastIs(B)
    BY <2>1, <2>2
  <2>. QED  BY <2>3 DEF B
<1>5. ASSUME iodp = Issue(SbasSel), NEW h
      PROVE  LongIs(LongTerm(SbasSel, h))
  <2>. DEFINE L == LongTerm(SbasSel, h)
  <2>1. L = [j \in Places |-> L[j]]
    BY Zenon DEF LongTerm
  <2>2. \A j \in Places : L[j] \in LongRec /\ LongKept(L[j])
    BY <1>0, <1>5, LongTermKept
  <2>. HIDE DEF L
  <2>3. LongIs(L)
    BY <2>1, <2>2
  <2>. QED  BY <2>3 DEF L
<1>. DEFINE RestIs == /\ iodfs' \in [Geos -> [Blocks -> Nat]] /\ tlat' \in Nat
                      /\ FastIs(fast') /\ LongIs(long') /\ MaskKept'
<1>6. SUFFICES RestIs
  BY <1>1, <1>2 DEF SbasStrong
<1>. HIDE DEF FastIs, LongIs
<1>7. iodfs \in [Geos -> [Blocks -> Nat]] /\ tlat \in Nat
  BY DEF SbasStrong
<1>8. UNCHANGED <<iodp, names>> => MaskKept'
  <2>1. MaskKept
    BY DEF SbasStrong
  <2>. QED  BY <1>0, <2>1 DEF MaskKept, Masks
<1>9. CASE Nothing
  BY <1>3, <1>7, <1>8, <1>9 DEF Nothing
<1>10. ASSUME NEW g \in Geos, Listens(g), Mask(g) PROVE RestIs
  <2>1. g = SbasSel
    BY <1>10, FromOne
  <2>2. names' = Masks(g)[inforce[g]] /\ iodp' = (inforce[g] - 1) % IodpMod
    BY <1>10 DEF Mask, Current, Issue
  <2>3. inforce[g] \in 1 .. inforce[g]
    <3>1. inforce[g] \in Nat /\ inforce[g] >= 1
      BY DEF SbasStrong
    <3>. QED  BY <3>1
  <2>4. MaskKept'
    BY <1>0, <2>1, <2>2, <2>3 DEF MaskKept, Masks
  <2>. QED  BY <1>3, <1>7, <1>10, <2>4 DEF Mask
<1>11. ASSUME NEW g \in Geos, Listens(g), NEW b \in Used(g), Delays(g, b)
       PROVE  RestIs
  <2>1. g = SbasSel
    BY <1>11, FromOne
  <2>. DEFINE B == Block(g, b, BlockLen)
  <2>2. iodp = Issue(SbasSel) => FastIs([j \in Places |-> [B[j] EXCEPT !.iodf = 0]])
    <3>. SUFFICES ASSUME iodp = Issue(SbasSel) PROVE FastIs([j \in Places |-> [B[j] EXCEPT !.iodf = 0]])
      OBVIOUS
    <3>1. FastIs(B)
      BY <1>4, <1>11, <2>1
    <3>. HIDE DEF B
    <3>2. \A j \in Places : /\ [B[j] EXCEPT !.iodf = 0] \in FastRec
                            /\ FastKept([B[j] EXCEPT !.iodf = 0], unsafe')
      <4>. TAKE j \in Places
      <4>1. B[j] \in FastRec /\ FastKept(B[j], unsafe')
        BY <3>1 DEF FastIs
      <4>2. [B[j] EXCEPT !.iodf = 0] \in FastRec
        BY <4>1 DEF FastRec
      <4>3. FastKept([B[j] EXCEPT !.iodf = 0], unsafe')
        BY <4>1 DEF FastKept, FastRec
      <4>. QED  BY <4>2, <4>3
    <3>. QED  BY <3>2 DEF FastIs
  <2>3. fast' = IF iodp = Issue(g) THEN [j \in Places |-> [B[j] EXCEPT !.iodf = 0]] ELSE OldFast
    BY <1>11, Zenon DEF Delays
  <2>4. long' = OldLong /\ UNCHANGED <<iodfs, iodp, names, tlat>>
    BY <1>11 DEF Delays
  <2>. HIDE DEF B
  <2>5. FastIs(fast')
    BY <1>3, <2>1, <2>2, <2>3
  <2>. QED  BY <1>3, <1>7, <1>8, <2>4, <2>5
<1>12. ASSUME NEW g \in Geos, Listens(g), NEW b \in Used(g), NEW r \in BOOLEAN, Fast(g, b, r)
       PROVE  RestIs
  <2>1. g = SbasSel
    BY <1>12, FromOne
  <2>2. fast' \in {Block(g, b, BlockLen), OldFast} /\ (fast' # OldFast => iodp = Issue(g))
        /\ long' = OldLong /\ iodfs' = [iodfs EXCEPT ![g][b] = NextIodf(g, b)] /\ UNCHANGED <<iodp, names, tlat>>
    BY <1>12, Zenon DEF Fast
  <2>3. FastIs(fast')
    BY <1>3, <1>4, <1>12, <2>1, <2>2
  <2>4. iodfs' \in [Geos -> [Blocks -> Nat]]
    BY <1>12, <2>1, <2>2, NewIodfs
  <2>. QED  BY <1>3, <1>7, <1>8, <2>2, <2>3, <2>4
<1>13. ASSUME NEW g \in Geos, Listens(g), NEW b \in Used(g), MixedMsg(g, b)
       PROVE  RestIs
  <2>1. g = SbasSel
    BY <1>13, FromOne
  <2>2. PICK h \in Halves : IF iodp = Issue(g)
                            THEN fast' = Block(g, b, HalfLen) /\ long' = LongTerm(g, h)
                            ELSE fast' = OldFast /\ long' = OldLong
    BY <1>13, Zenon DEF MixedMsg
  <2>3. iodfs' = [iodfs EXCEPT ![g][b] = NextIodf(g, b)] /\ UNCHANGED <<iodp, names, tlat>>
    BY <1>13, Zenon DEF MixedMsg
  <2>4. FastIs(fast') /\ LongIs(long')
    BY <1>3, <1>4, <1>5, <1>13, <2>1, <2>2
  <2>5. iodfs' \in [Geos -> [Blocks -> Nat]]
    BY <1>13, <2>1, <2>3, NewIodfs
  <2>. QED  BY <1>7, <1>8, <2>3, <2>4, <2>5
<1>14. ASSUME NEW g \in Geos, Listens(g), Long(g)
       PROVE  RestIs
  <2>1. g = SbasSel
    BY <1>14, FromOne
  <2>2. PICK h, i \in Halves : long' = IF iodp = Issue(g) THEN LongTerm(g, h \o i) ELSE OldLong
    BY <1>14, Zenon DEF Long
  <2>3. fast' = OldFast /\ UNCHANGED <<iodfs, iodp, names, tlat>>
    BY <1>14 DEF Long
  <2>4. LongIs(long')
    BY <1>3, <1>5, <2>1, <2>2
  <2>. QED  BY <1>3, <1>7, <1>8, <2>3, <2>4
<1>15. ASSUME NEW g \in Geos, Listens(g), Integrity(g)
       PROVE  RestIs
  <2>1. g = SbasSel
    BY <1>15, FromOne
  <2>. DEFINE W(j) == [OldFast[j] EXCEPT !.ok = Fit(g, j), !.told = Name(Current(g), j)]
              T(j) == j \in DOMAIN names /\ fast[j].iodf = iodfs[g][BlockOf(j)]
  <2>2. fast' = [j \in Places |-> IF T(j) THEN W(j) ELSE OldFast[j]]
    BY <1>15, Zenon DEF Integrity
  <2>3. \A j \in Places : W(j) \in FastRec /\ FastKept(W(j), unsafe')
    BY <1>0, <2>1, IntegrityKept, Zenon
  <2>. HIDE DEF W, T
  <2>4. FastIs(fast')
    BY <1>3, <2>2, <2>3 DEF FastIs
  <2>5. long' = OldLong /\ UNCHANGED <<iodfs, iodp, names, tlat>>
    BY <1>15 DEF Integrity
  <2>. QED  BY <1>3, <1>7, <1>8, <2>4, <2>5
<1>16. ASSUME NEW g \in Geos, Degradation(g)
       PROVE  RestIs
  <2>1. tlat' \in Nat
    BY <1>7, <1>16, SbasAssumption DEF Degradation
  <2>. QED  BY <1>3, <1>7, <1>8, <1>16, <2>1 DEF Degradation
<1>. QED  BY <1>9, <1>10, <1>11, <1>12, <1>13, <1>14, <1>15, <1>16 DEF SbasSecond

LEMMA SbasStrongInit == ASSUME OneMaskAnIssue PROVE SbasInit => SbasStrong
<1>. SUFFICES ASSUME SbasInit PROVE SbasStrong
  OBVIOUS
<1>1. /\ part \in {"sat", "grid"} /\ inforce = [g \in Geos |-> 1] /\ iodfs = [g \in Geos |-> [b \in Blocks |-> 0]]
      /\ unsafe = Unset /\ names = <<>> /\ tlat = 0
      /\ fast = [j \in Places |-> NoFast] /\ long = [j \in Places |-> NoLong]
  BY DEF SbasInit
<1>2. \A g \in Geos : inforce[g] \in 1 .. Len(Masks(g))
  <2>. SUFFICES ASSUME NEW g \in Geos PROVE 1 \in 1 .. Len(Masks(g))
    BY <1>1
  <2>1. Masks(g) \in {SatMasks[g], GridMasks[g]}
    BY DEF Masks
  <2>. DEFINE sent == Masks(g)
              S == Range(sent)
  <2>2. sent \in Seq(S) /\ sent # <<>>
    BY <2>1, SbasAssumption
  <2>. HIDE DEF sent, S
  <2>3. Len(sent) \in Nat \ {0}
    BY <2>2
  <2>. QED  BY <2>3 DEF sent
<1>3. Unset \in Ages /\ NoOne \in Named
  BY SbasAssumption DEF Unset, Ages, Named
<1>4. NoFast \in FastRec /\ NoLong \in LongRec
  BY <1>3 DEF NoFast, NoLong, FastRec, LongRec
<1>5. FastKept(NoFast, unsafe) /\ LongKept(NoLong)
  BY DEF NoFast, NoLong, FastKept, LongKept
<1>6. fast \in [Places -> FastRec] /\ long \in [Places -> LongRec]
  BY <1>1, <1>4
<1>7. inforce \in [Geos -> Nat] /\ iodfs \in [Geos -> [Blocks -> Nat]]
  BY <1>1
<1>8. MaskKept
  BY <1>1 DEF MaskKept
<1>. QED  BY <1>1, <1>2, <1>3, <1>5, <1>6, <1>7, <1>8 DEF SbasStrong

LEMMA SbasStrongStep == ASSUME OneMaskAnIssue PROVE SbasStrong /\ [SbasNext]_sbasVars => SbasStrong'
<1>. SUFFICES ASSUME SbasStrong, [SbasNext]_sbasVars PROVE SbasStrong'
  OBVIOUS
<1>1. CASE SbasSecond
  BY <1>1, SecondKept
<1>2. ASSUME NEW g \in Geos, MaskChanges(g) PROVE SbasStrong'
  <2>1. /\ inforce[g] < Len(Masks(g)) /\ inforce' = [inforce EXCEPT ![g] = @ + 1]
        /\ UNCHANGED <<part, iodfs, unsafe, iodp, names, fast, long, tlat>>
    BY <1>2 DEF MaskChanges
  <2>2. /\ inforce \in [Geos -> Nat] /\ part \in {"sat", "grid"}
        /\ \A h \in Geos : inforce[h] \in 1 .. Len(Masks(h)) /\ Masks(h)' = Masks(h)
    BY <2>1 DEF SbasStrong, Masks
  <2>3. \A h \in Geos : Len(Masks(h)) \in Nat
    BY <2>2, MasksAre
  <2>4. inforce' \in [Geos -> Nat] /\ \A h \in Geos : inforce'[h] \in 1 .. Len(Masks(h)') /\ inforce[h] <= inforce'[h]
    BY <2>1, <2>2, <2>3
  <2>5. MaskKept'
    <3>1. CASE names = <<>>
      BY <2>1, <3>1 DEF MaskKept
    <3>2. CASE names # <<>>
      <4>1. PICK k \in 1 .. inforce[SbasSel] : names = Masks(SbasSel)[k] /\ iodp = (k - 1) % IodpMod
        BY <3>2 DEF SbasStrong, MaskKept
      <4>2. k \in 1 .. inforce'[SbasSel]
        BY <2>2, <2>4, <4>1 DEF OneMaskAnIssue
      <4>3. Masks(SbasSel)' = Masks(SbasSel)
        BY <2>2 DEF OneMaskAnIssue
      <4>. QED  BY <2>1, <4>1, <4>2, <4>3 DEF MaskKept
    <3>. QED  BY <3>1, <3>2
  <2>. QED  BY <2>1, <2>4, <2>5 DEF SbasStrong
<1>3. CASE FitnessChanges
  <2>1. unsafe' \in {0, Unset} /\ UNCHANGED <<part, inforce, iodfs, iodp, names, fast, long, tlat>>
    BY <1>3 DEF FitnessChanges
  <2>2. unsafe' \in Ages
    BY <2>1, SbasAssumption DEF Ages, Unset
  <2>3. \A j \in Places : FastKept(fast[j], unsafe')
    <3>. TAKE j \in Places
    <3>1. FastKept(fast[j], unsafe) /\ fast[j].age \in Ages
      BY DEF SbasStrong, FastRec
    <3>2. fast[j].age # Unset => unsafe' <= fast[j].age
      BY <2>1, <3>1, SbasAssumption DEF Ages, Unset
    <3>. QED  BY <3>1, <3>2 DEF FastKept
  <2>4. MaskKept' /\ \A g \in Geos : Masks(g)' = Masks(g)
    BY <2>1 DEF SbasStrong, MaskKept, Masks
  <2>. QED  BY <2>1, <2>2, <2>3, <2>4 DEF SbasStrong
<1>4. CASE UNCHANGED sbasVars
  <2>1. UNCHANGED <<part, inforce, iodfs, unsafe, iodp, names, fast, long, tlat>>
    BY <1>4 DEF sbasVars
  <2>2. MaskKept' /\ \A g \in Geos : Masks(g)' = Masks(g)
    BY <2>1 DEF SbasStrong, MaskKept, Masks
  <2>. QED  BY <2>1, <2>2 DEF SbasStrong
<1>. QED  BY <1>1, <1>2, <1>3, <1>4 DEF SbasNext

\* The strengthened invariant says what a use of a correction requires.
LEMMA SbasUsed == ASSUME SbasStrong, OneMaskAnIssue PROVE SbasInv
<1>. SUFFICES ASSUME NEW j \in Places
              PROVE  /\ Corrected(j) => Belongs(fast[j], j) /\ Belongs(long[j], j) /\ OutOfUse(j)
                     /\ Delay(j) => Belongs(fast[j], j)
  BY DEF SbasInv
<1>1. FastKept(fast[j], unsafe) /\ LongKept(long[j]) /\ fast[j].age \in Ages /\ unsafe \in Ages /\ tlat \in Nat
  BY DEF SbasStrong, FastRec
<1>2. j \in DOMAIN names => names[j] # NoOne
  BY NamesAre
<1>3. j \in DOMAIN names => Belongs(fast[j], j) /\ Belongs(long[j], j)
  BY <1>1, <1>2 DEF FastKept, LongKept, Belongs
<1>4. ASSUME FastUsed(j), fast[j].told = Watched PROVE unsafe <= fast[j].age /\ unsafe <= MaxAgeFast
  <2>1. fast[j].age # Unset /\ fast[j].ok /\ fast[j].age + tlat <= MaxAgeFast
    BY <1>4 DEF FastUsed
  <2>. QED  BY <1>1, <1>4, <2>1, SbasAssumption DEF FastKept, Ages
<1>. QED  BY <1>3, <1>4 DEF Corrected, Delay, Corner, OutOfUse

\* What is used of SBAS is used for the satellite, or the point of the grid, that it was sent for,
\* or its place was renamed since; and a satellite that has to be taken out of use is used no
\* longer than MAXSBSAGEF, for any masks, losses and ages (decode_sbstype*, sbsfastcorr).
THEOREM SbasInvHolds == ASSUME OneMaskAnIssue PROVE SbasSpec => []SbasInv
<1>1. SbasInit => SbasStrong
  BY SbasStrongInit
<1>2. SbasStrong /\ [SbasNext]_sbasVars => SbasStrong'
  BY SbasStrongStep
<1>3. SbasStrong => SbasInv
  BY SbasUsed
<1>. QED  BY <1>1, <1>2, <1>3, PTL DEF SbasSpec

-----------------------------------------------------------------------------
(* The banks of CLAS corrections: any rings, networks, facilities, times.   *)

BankSpec == BankInit /\ [][BankNext]_bankVars

AnyNet  == {"none", "all"} \cup {Net}
AnyWhat == {"c", "p"} \cup TropNets
Entry   == [net : AnyNet, time : Nat, has : SUBSET AnyWhat]
AnyMsg  == [k : Kinds, net : AnyNet \ {"none"}, time : Nat, has : SUBSET AnyWhat]
History(k)   == {m \in hist : m.k = k}

At(r, s, net, t) == r[s].net = net /\ r[s].time = t

\* The slots of a ring from the next one on.
Sooner(n, s, q) == \/ s >= n /\ q >= n /\ s < q
                   \/ s < n /\ q < n /\ s < q
                   \/ s >= n /\ q < n

\* The entries of a ring are messages, no two of one time and network ...
RingHolds(r, msgs) ==
    /\ \A s \in Slot : r[s].net = "none" => r[s] = Unused
    /\ \A s \in Slot : r[s].net # "none" => \E m \in msgs : At(r, s, m.net, m.time)
    /\ \A s, q \in Slot : r[s].net # "none" /\ At(r, q, r[s].net, r[s].time) => s = q

\* ... in the order of their times from the next slot on ...
RingTurns(r, n) ==
    \A s, q \in Slot : Sooner(n, s, q) => /\ r[s].time <= r[q].time
                                          /\ r[s].net # "none" => r[q].net # "none"

\* ... and what is missing gave way when all were as new, one of them for a message that
\* is not it.
GaveWay(r, msgs, m) ==
    /\ \A s \in Slot : r[s].net # "none" /\ r[s].time >= m.time
    /\ \E x \in msgs : x.time >= m.time /\ (x.net # m.net \/ x.time # m.time)
RingKeeps(r, msgs) ==
    \A m \in msgs : \/ \E s \in Slot : At(r, s, m.net, m.time) /\ m.has \subseteq r[s].has
                  \/ GaveWay(r, msgs, m)

\* Orbits and clocks are of one kind each.
Plain(r, msgs) == (\A s \in Slot : r[s].has = {}) /\ (\A m \in msgs : m.has = {})

Ring(r, n, msgs) == RingHolds(r, msgs) /\ RingTurns(r, n) /\ RingKeeps(r, msgs)

BankTypes ==
    /\ bank \in [Kinds -> [Slot -> Entry]] /\ next \in [Kinds -> Slot]
    /\ tow \in Nat /\ IsFiniteSet(hist) /\ hist \in SUBSET AnyMsg
    /\ \A m \in hist : m.time <= tow
    /\ \A k \in Kinds, s \in Slot : bank[k][s].time <= tow

BankStrong ==
    /\ BankTypes
    /\ \A k \in Kinds : Ring(bank[k], next[k], History(k))
    /\ \A k \in {"orbit", "clock"} : Plain(bank[k], History(k))
    /\ \A x \in separation : x # "all" /\ \E m \in hist : m.net = x

-----------------------------------------------------------------------------
(* Putting an entry into a ring.                                            *)

LEMMA Unuseds == Unused \in Entry /\ Unused.net = "none" /\ Unused.time = 0 /\ Unused.has = {}
BY DEF Unused, Entry, AnyNet

\* The slot after the last is the first
LEMMA NextSlot ==
  ASSUME NEW n \in Slot
  PROVE  /\ (n % BankNum) + 1 \in Slot
         /\ n < BankNum => (n % BankNum) + 1 = n + 1
         /\ n = BankNum => (n % BankNum) + 1 = 1
<1>0. BankNum \in Nat /\ BankNum > 0 /\ n \in 1 .. BankNum
  BY BankAssumption DEF Slot
<1>1. CASE n = BankNum
  <2>1. n % BankNum = 0
    BY <1>0, <1>1
  <2>. QED  BY <1>0, <1>1, <2>1 DEF Slot
<1>2. CASE n < BankNum
  <2>1. n % BankNum = n
    BY <1>0, <1>2
  <2>. QED  BY <1>0, <1>2, <2>1 DEF Slot
<1>. QED  BY <1>0, <1>1, <1>2

\* Once the next slot is taken it is the last, and the others keep their order
LEMMA TurnOne ==
  ASSUME NEW n \in Slot, NEW s \in Slot, NEW q \in Slot, Sooner((n % BankNum) + 1, s, q)
  PROVE  s # n /\ (q # n => Sooner(n, s, q))
<1>0. BankNum \in Nat /\ BankNum > 0 /\ n \in 1 .. BankNum /\ s \in 1 .. BankNum /\ q \in 1 .. BankNum
  BY BankAssumption DEF Slot
<1>. DEFINE m == (n % BankNum) + 1
<1>1. (n < BankNum => m = n + 1) /\ (n = BankNum => m = 1)
  BY NextSlot
<1>2. Sooner(m, s, q)
  OBVIOUS
<1>. HIDE DEF m
<1>3. CASE n < BankNum
  BY <1>0, <1>1, <1>2, <1>3 DEF Sooner
<1>4. CASE n = BankNum
  BY <1>0, <1>1, <1>2, <1>4 DEF Sooner
<1>. QED  BY <1>0, <1>3, <1>4

\* All others come after the next slot
LEMMA NextFirst ==
  ASSUME NEW n \in Slot, NEW s \in Slot, s # n
  PROVE  Sooner(n, n, s)
<1>0. BankNum \in Nat /\ n \in 1 .. BankNum /\ s \in 1 .. BankNum
  BY BankAssumption DEF Slot
<1>. QED  BY <1>0 DEF Sooner

\* The entry of this time and network is there
LEMMA PutMerges ==
  ASSUME NEW r \in [Slot -> Entry], NEW n \in Slot, NEW msgs, NEW m \in AnyMsg,
         \A x \in msgs : x \in AnyMsg,
         Ring(r, n, msgs), NEW a \in Slot, At(r, a, m.net, m.time)
  PROVE  Ring([r EXCEPT ![a].has = @ \cup m.has], n, msgs \cup {m})
<1>. DEFINE p == [r EXCEPT ![a].has = @ \cup m.has]
            ns == msgs \cup {m}
<1>1. \A s \in Slot : /\ p[s].net = r[s].net /\ p[s].time = r[s].time
                      /\ r[s].has \subseteq p[s].has
                      /\ s # a => p[s] = r[s]
  BY DEF Entry
<1>2. m.has \subseteq p[a].has
  BY DEF Entry
<1>3. r[a].net # "none" /\ m.net # "none" /\ m \in ns /\ msgs \subseteq ns
  BY DEF At, AnyMsg
<1>. HIDE DEF p, ns
<1>4. RingHolds(p, ns)
  <2>1. \A s \in Slot : p[s].net = "none" => p[s] = Unused
    BY <1>1, <1>3 DEF Ring, RingHolds
  <2>2. \A s \in Slot : p[s].net # "none" => \E x \in ns : At(p, s, x.net, x.time)
    BY <1>1, <1>3 DEF Ring, RingHolds, At
  <2>3. \A s, q \in Slot : p[s].net # "none" /\ At(p, q, p[s].net, p[s].time) => s = q
    BY <1>1 DEF Ring, RingHolds, At
  <2>. QED  BY <2>1, <2>2, <2>3 DEF RingHolds
<1>5. RingTurns(p, n)
  BY <1>1 DEF Ring, RingTurns
<1>6. RingKeeps(p, ns)
  <2>. SUFFICES ASSUME NEW x \in ns
                PROVE  \/ \E s \in Slot : At(p, s, x.net, x.time) /\ x.has \subseteq p[s].has
                       \/ GaveWay(p, ns, x)
    BY DEF RingKeeps
  <2>1. CASE x = m
    BY <1>1, <1>2, <2>1 DEF At
  <2>2. CASE x \in msgs
    <3>1. CASE \E s \in Slot : At(r, s, x.net, x.time) /\ x.has \subseteq r[s].has
      BY <1>1, <3>1 DEF At
    <3>2. CASE GaveWay(r, msgs, x)
      BY <1>1, <1>3, <3>2 DEF GaveWay
    <3>. QED  BY <2>2, <3>1, <3>2 DEF Ring, RingKeeps
  <2>. QED  BY <2>1, <2>2 DEF ns
<1>. QED  BY <1>4, <1>5, <1>6 DEF Ring, p, ns

\* It is not, and takes the next slot
LEMMA PutTakesNext ==
  ASSUME NEW r \in [Slot -> Entry], NEW n \in Slot, NEW msgs, NEW m \in AnyMsg,
         \A x \in msgs : x \in AnyMsg,
         Ring(r, n, msgs), \A s \in Slot : ~At(r, s, m.net, m.time),
         \A s \in Slot : r[s].time <= m.time, \A x \in msgs : x.time <= m.time
  PROVE  Ring([r EXCEPT ![n] = [net |-> m.net, time |-> m.time, has |-> m.has]],
              (n % BankNum) + 1, msgs \cup {m})
<1>. DEFINE e == [net |-> m.net, time |-> m.time, has |-> m.has]
            p == [r EXCEPT ![n] = e]
            ns == msgs \cup {m}
            l == (n % BankNum) + 1
<1>1. /\ p[n] = e /\ e.net = m.net /\ e.time = m.time /\ e.has = m.has
      /\ \A s \in Slot : s # n => p[s] = r[s]
  OBVIOUS
<1>2. m.net # "none" /\ m.time \in Nat /\ m \in ns /\ msgs \subseteq ns
  BY DEF AnyMsg
<1>3. \A s \in Slot : r[s].time \in Nat
  BY DEF Entry
<1>4. \A s, q \in Slot : Sooner(l, s, q) => s # n /\ (q # n => Sooner(n, s, q))
  BY TurnOne
<1>. HIDE DEF p, ns, e, l
<1>5. RingHolds(p, ns)
  <2>1. \A s \in Slot : p[s].net = "none" => p[s] = Unused
    BY <1>1, <1>2 DEF Ring, RingHolds
  <2>2. ASSUME NEW s \in Slot, p[s].net # "none"
        PROVE  \E x \in ns : At(p, s, x.net, x.time)
    <3>1. CASE s = n
      BY <1>1, <1>2, <3>1 DEF At
    <3>2. CASE s # n
      <4>1. PICK x \in msgs : At(r, s, x.net, x.time)
        BY <1>1, <2>2, <3>2 DEF Ring, RingHolds
      <4>. QED  BY <1>1, <1>2, <3>2, <4>1 DEF At
    <3>. QED  BY <3>1, <3>2
  <2>3. ASSUME NEW s \in Slot, NEW q \in Slot, p[s].net # "none", At(p, q, p[s].net, p[s].time)
        PROVE  s = q
    <3>1. CASE s = n /\ q # n
      BY <1>1, <2>3, <3>1 DEF At
    <3>2. CASE s # n /\ q = n
      BY <1>1, <2>3, <3>2 DEF At
    <3>3. CASE s # n /\ q # n
      BY <1>1, <2>3, <3>3 DEF At, Ring, RingHolds
    <3>. QED  BY <3>1, <3>2, <3>3
  <2>. QED  BY <2>1, <2>2, <2>3 DEF RingHolds
<1>6. RingTurns(p, l)
  <2>. SUFFICES ASSUME NEW s \in Slot, NEW q \in Slot, Sooner(l, s, q)
                PROVE  p[s].time <= p[q].time /\ (p[s].net # "none" => p[q].net # "none")
    BY DEF RingTurns
  <2>1. s # n /\ (q # n => Sooner(n, s, q))
    BY <1>4
  <2>2. CASE q = n
    BY <1>1, <1>2, <2>1, <2>2
  <2>3. CASE q # n
    BY <1>1, <2>1, <2>3 DEF Ring, RingTurns
  <2>. QED  BY <2>2, <2>3
<1>7. RingKeeps(p, ns)
  <2>. SUFFICES ASSUME NEW x \in ns
                PROVE  \/ \E s \in Slot : At(p, s, x.net, x.time) /\ x.has \subseteq p[s].has
                       \/ GaveWay(p, ns, x)
    BY DEF RingKeeps
  <2>1. CASE x = m
    BY <1>1, <2>1 DEF At
  <2>2. CASE x \in msgs
    <3>0. x.time \in Nat /\ x.net # "none" /\ x.time <= m.time
      BY <2>2 DEF AnyMsg
    <3>1. CASE GaveWay(r, msgs, x)
      <4>1. \A s \in Slot : p[s].net # "none" /\ p[s].time >= x.time
        BY <1>1, <1>2, <3>0, <3>1 DEF GaveWay
      <4>. QED  BY <1>2, <3>1, <4>1 DEF GaveWay
    <3>2. ASSUME NEW s \in Slot, At(r, s, x.net, x.time), x.has \subseteq r[s].has
          PROVE  \/ \E q \in Slot : At(p, q, x.net, x.time) /\ x.has \subseteq p[q].has
                 \/ GaveWay(p, ns, x)
      <4>1. CASE s # n
        BY <1>1, <3>2, <4>1 DEF At
      <4>2. CASE s = n
        <5>1. r[n].net # "none" /\ r[n].time = x.time
          BY <3>0, <3>2, <4>2 DEF At
        <5>2. ASSUME NEW q \in Slot, q # n PROVE r[q].net # "none" /\ r[q].time >= x.time
          <6>1. Sooner(n, n, q)
            BY <5>2, NextFirst
          <6>. QED  BY <1>3, <5>1, <5>2, <6>1 DEF Ring, RingTurns
        <5>3. \A q \in Slot : p[q].net # "none" /\ p[q].time >= x.time
          BY <1>1, <1>2, <3>0, <5>2
        <5>4. m.net # x.net \/ m.time # x.time
          BY <3>2 DEF At
        <5>. QED  BY <1>2, <3>0, <5>3, <5>4 DEF GaveWay
      <4>. QED  BY <4>1, <4>2
    <3>. QED  BY <2>2, <3>1, <3>2 DEF Ring, RingKeeps
  <2>. QED  BY <2>1, <2>2 DEF ns
<1>. QED  BY <1>5, <1>6, <1>7 DEF Ring, p, ns, e, l

\* Where an entry of this time and network is, or the next slot
SlotOf(r, n, net, t) ==
    IF \E s \in Slot : At(r, s, net, t) THEN Min({s \in Slot : At(r, s, net, t)}) ELSE n

LEMMA SlotOfIs ==
  ASSUME NEW r, NEW n \in Slot, NEW net, NEW t
  PROVE  /\ SlotOf(r, n, net, t) \in Slot
         /\ (\E s \in Slot : At(r, s, net, t)) => At(r, SlotOf(r, n, net, t), net, t)
<1>. DEFINE same == {s \in Slot : At(r, s, net, t)}
<1>1. CASE \E s \in Slot : At(r, s, net, t)
  <2>1. same \in SUBSET Nat /\ same # {}
    BY <1>1, BankAssumption DEF Slot
  <2>2. Min(same) \in same
    BY <2>1, SmallestOf
  <2>. QED  BY <1>1, <2>2 DEF SlotOf
<1>2. CASE ~\E s \in Slot : At(r, s, net, t)
  BY <1>2 DEF SlotOf
<1>. QED  BY <1>1, <1>2

\* The ring p and the slot l that a message makes of the ring r and the slot n
Taking(r, n, m, p, l) ==
    LET a == SlotOf(r, n, m.net, m.time)
    IN  /\ (\E s \in Slot : At(r, s, m.net, m.time)) => p = [r EXCEPT ![a].has = @ \cup m.has] /\ l = n
        /\ ~(\E s \in Slot : At(r, s, m.net, m.time))
              => /\ p = [r EXCEPT ![n] = [net |-> m.net, time |-> m.time, has |-> m.has]]
                 /\ l = (n % BankNum) + 1

LEMMA RingTakes ==
  ASSUME NEW r \in [Slot -> Entry], NEW n \in Slot, NEW msgs, NEW m \in AnyMsg, NEW p, NEW l,
         \A x \in msgs : x \in AnyMsg, \A x \in msgs : x.time <= m.time,
         Ring(r, n, msgs), \A s \in Slot : r[s].time <= m.time,
         Taking(r, n, m, p, l)
  PROVE  /\ p \in [Slot -> Entry] /\ l \in Slot
         /\ Ring(p, l, msgs \cup {m})
         /\ \A s \in Slot : p[s].time <= m.time
         /\ Plain(r, msgs) /\ m.has = {} => Plain(p, msgs \cup {m})
<1>. DEFINE a == SlotOf(r, n, m.net, m.time)
<1>0. m.net \in AnyNet /\ m.time \in Nat /\ m.has \in SUBSET AnyWhat
  BY DEF AnyMsg
<1>b. a \in Slot /\ ((\E s \in Slot : At(r, s, m.net, m.time)) => At(r, a, m.net, m.time))
  BY SlotOfIs
<1>1. CASE \E s \in Slot : At(r, s, m.net, m.time)
  <2>1. p = [r EXCEPT ![a].has = @ \cup m.has] /\ l = n /\ At(r, a, m.net, m.time)
    BY <1>1, <1>b DEF Taking
  <2>. HIDE DEF a
  <2>2. Ring(p, l, msgs \cup {m})
    BY <1>b, <2>1, PutMerges
  <2>3. p \in [Slot -> Entry]
    BY <1>0, <1>b, <2>1 DEF Entry
  <2>4. \A s \in Slot : p[s].time <= m.time
    BY <1>0, <1>b, <2>1 DEF Entry
  <2>5. Plain(r, msgs) /\ m.has = {} => Plain(p, msgs \cup {m})
    BY <1>0, <1>b, <2>1 DEF Entry, Plain
  <2>. QED  BY <2>1, <2>2, <2>3, <2>4, <2>5
<1>2. CASE ~\E s \in Slot : At(r, s, m.net, m.time)
  <2>1. /\ p = [r EXCEPT ![n] = [net |-> m.net, time |-> m.time, has |-> m.has]]
        /\ l = (n % BankNum) + 1
    BY <1>2 DEF Taking
  <2>2. Ring(p, l, msgs \cup {m})
    BY <1>2, <2>1, PutTakesNext
  <2>3. p \in [Slot -> Entry]
    BY <1>0, <2>1 DEF Entry
  <2>4. \A s \in Slot : p[s].time <= m.time
    BY <1>0, <2>1
  <2>5. Plain(r, msgs) /\ m.has = {} => Plain(p, msgs \cup {m})
    BY <1>0, <2>1 DEF Plain
  <2>6. l \in Slot
    BY <2>1, NextSlot
  <2>. QED  BY <2>2, <2>3, <2>4, <2>5, <2>6
<1>. QED  BY <1>1, <1>2

\* What a message makes of the banks
LEMMA PutIs ==
  ASSUME NEW b \in [Kinds -> [Slot -> Entry]], NEW n \in [Kinds -> Slot], NEW k \in Kinds,
         NEW net, NEW what
  PROVE  LET p == Put(b, n, k, net, what)
             m == [k |-> k, net |-> net, time |-> tow, has |-> what]
         IN  /\ p.bank = [b EXCEPT ![k] = p.bank[k]]
             /\ p.next = [n EXCEPT ![k] = p.next[k]]
             /\ Taking(b[k], n[k], m, p.bank[k], p.next[k])
<1>. DEFINE p == Put(b, n, k, net, what)
            m == [k |-> k, net |-> net, time |-> tow, has |-> what]
            e == [net |-> net, time |-> tow, has |-> what]
            taking == Taking(b[k], n[k], m, p.bank[k], p.next[k])
            same == {s \in Slot : b[k][s].net = net /\ b[k][s].time = tow}
            a == SlotOf(b[k], n[k], net, tow)
<1>0. same = {s \in Slot : At(b[k], s, net, tow)}
  BY DEF At
<1>m. m.net = net /\ m.time = tow /\ m.has = what /\ e = [net |-> m.net, time |-> m.time, has |-> m.has]
  OBVIOUS
<1>1. CASE \E s \in Slot : At(b[k], s, net, tow)
  <2>1. same # {} /\ a = Min(same)
    BY <1>0, <1>1 DEF SlotOf
  <2>2. p = [bank |-> [b EXCEPT ![k][a].has = @ \cup what], next |-> n]
    BY <2>1 DEF Put
  <2>. HIDE DEF p, a, same, m, e
  <2>3. p.bank = [b EXCEPT ![k][a].has = @ \cup what] /\ p.next = n
    BY <2>2
  <2>4. p.bank[k] = [b[k] EXCEPT ![a].has = @ \cup what] /\ p.next[k] = n[k]
    BY <2>3
  <2>5. p.bank = [b EXCEPT ![k] = p.bank[k]]
    BY <2>3
  <2>6. p.next = [n EXCEPT ![k] = p.next[k]]
    BY <2>3
  <2>7. taking
    BY <1>1, <1>m, <2>4 DEF Taking, a
  <2>. QED  BY <2>5, <2>6, <2>7 DEF p, m
<1>2. CASE ~\E s \in Slot : At(b[k], s, net, tow)
  <2>1. same = {}
    BY <1>0, <1>2
  <2>2. p = [bank |-> [b EXCEPT ![k][n[k]] = e],
             next |-> [n EXCEPT ![k] = (@ % BankNum) + 1]]
    BY <2>1 DEF Put
  <2>. HIDE DEF p, a, same, m, e
  <2>3. /\ p.bank = [b EXCEPT ![k][n[k]] = e]
        /\ p.next = [n EXCEPT ![k] = (@ % BankNum) + 1]
    BY <2>2
  <2>4. p.bank[k] = [b[k] EXCEPT ![n[k]] = e]
    BY <2>3
  <2>5. p.next[k] = (n[k] % BankNum) + 1
    BY <2>3
  <2>6. p.bank = [b EXCEPT ![k] = p.bank[k]]
    BY <2>3
  <2>7. p.next = [n EXCEPT ![k] = p.next[k]]
    BY <2>3
  <2>8. taking
    BY <1>2, <1>m, <2>4, <2>5 DEF Taking
  <2>. QED  BY <2>6, <2>7, <2>8 DEF p, m
<1>. QED  BY <1>1, <1>2

\* Cleared rings hold no message
LEMMA ClearedRing ==
  /\ Cleared \in [Kinds -> [Slot -> Entry]] /\ First \in [Kinds -> Slot]
  /\ \A k \in Kinds : Ring(Cleared[k], First[k], {}) /\ Plain(Cleared[k], {})
  /\ \A k \in Kinds, s \in Slot : Cleared[k][s] = Unused
<1>1. \A k \in Kinds, s \in Slot : Cleared[k][s] = Unused
  BY DEF Cleared
<1>2. Cleared \in [Kinds -> [Slot -> Entry]] /\ First \in [Kinds -> Slot]
  <2>1. 1 \in Slot
    BY BankAssumption DEF Slot
  <2>. QED  BY <2>1, Unuseds DEF Cleared, First
<1>3. \A k \in Kinds : RingHolds(Cleared[k], {})
  BY <1>1, Unuseds DEF RingHolds
<1>4. \A k \in Kinds : RingTurns(Cleared[k], First[k])
  BY <1>1, Unuseds DEF RingTurns
<1>5. \A k \in Kinds : RingKeeps(Cleared[k], {}) /\ Plain(Cleared[k], {})
  BY <1>1, Unuseds DEF RingKeeps, Plain
<1>. QED  BY <1>1, <1>2, <1>3, <1>4, <1>5 DEF Ring

-----------------------------------------------------------------------------
(* The steps.                                                               *)

\* A correction is stored
LEMMA DecodeMsgKept ==
  ASSUME BankStrong, NEW k \in Kinds, NEW net \in AnyNet \ {"none"}, NEW what \in SUBSET AnyWhat,
         k \in {"orbit", "clock"} => what = {},
         DecodeMsg(k, net, what)
  PROVE  BankStrong'
<1>. DEFINE m  == [k |-> k, net |-> net, time |-> tow, has |-> what]
            new == facility # origin
            b  == IF new THEN Cleared ELSE bank
            n  == IF new THEN First ELSE next
            h  == IF new THEN {} ELSE hist
            sp == IF new THEN {} ELSE separation
            ofh(q) == {x \in h : x.k = q}
            p  == Put(b, n, k, net, what)
<1>1. /\ bank' = p.bank /\ next' = p.next /\ hist' = h \cup {m} /\ tow' = tow
      /\ separation' = sp \cup (IF k \in {"orbit", "clock"} /\ net # "all" THEN {net} ELSE {})
  BY DEF DecodeMsg
<1>2. tow \in Nat /\ m \in AnyMsg /\ m.k = k /\ m.net = net /\ m.time = tow /\ m.has = what
  BY DEF BankStrong, BankTypes, AnyMsg
<1>3. /\ b \in [Kinds -> [Slot -> Entry]] /\ n \in [Kinds -> Slot]
      /\ IsFiniteSet(h) /\ h \in SUBSET AnyMsg /\ \A x \in h : x.time <= tow
      /\ \A q \in Kinds, s \in Slot : b[q][s].time <= tow
      /\ \A q \in Kinds : Ring(b[q], n[q], ofh(q))
      /\ \A q \in {"orbit", "clock"} : Plain(b[q], ofh(q))
      /\ \A x \in sp : x # "all" /\ \E y \in h : y.net = x
  <2>1. CASE new
    <3>1. b = Cleared /\ n = First /\ h = {} /\ sp = {} /\ \A q \in Kinds : ofh(q) = {}
      BY <2>1
    <3>. HIDE DEF b, n, h, sp, ofh
    <3>2. {"orbit", "clock"} \subseteq Kinds
      BY DEF Kinds
    <3>3. \A q \in Kinds, s \in Slot : b[q][s].time <= tow
      BY <1>2, <3>1, ClearedRing, Unuseds
    <3>. QED  BY <1>2, <3>1, <3>2, <3>3, ClearedRing, FS_EmptySet
  <2>2. CASE ~new
    <3>1. b = bank /\ n = next /\ h = hist /\ sp = separation /\ \A q : ofh(q) = History(q)
      BY <2>2 DEF History
    <3>. HIDE DEF b, n, h, sp, ofh
    <3>. QED  BY <3>1 DEF BankStrong, BankTypes
  <2>. QED  BY <2>1, <2>2
<1>4. /\ p.bank = [b EXCEPT ![k] = p.bank[k]]
      /\ p.next = [n EXCEPT ![k] = p.next[k]]
      /\ Taking(b[k], n[k], m, p.bank[k], p.next[k])
  <2>. HIDE DEF b, n
  <2>. QED  BY <1>3, PutIs
<1>5. /\ p.bank[k] \in [Slot -> Entry] /\ p.next[k] \in Slot
      /\ Ring(p.bank[k], p.next[k], ofh(k) \cup {m})
      /\ \A s \in Slot : p.bank[k][s].time <= tow
      /\ Plain(b[k], ofh(k)) /\ m.has = {} => Plain(p.bank[k], ofh(k) \cup {m})
  <2>1. (\A x \in ofh(k) : x \in AnyMsg) /\ (\A x \in ofh(k) : x.time <= m.time)
    BY <1>2, <1>3
  <2>2. b[k] \in [Slot -> Entry] /\ n[k] \in Slot /\ Ring(b[k], n[k], ofh(k))
        /\ \A s \in Slot : b[k][s].time <= m.time
    BY <1>2, <1>3
  <2>. HIDE DEF b, n, ofh, p, m
  <2>3. /\ p.bank[k] \in [Slot -> Entry] /\ p.next[k] \in Slot
        /\ Ring(p.bank[k], p.next[k], ofh(k) \cup {m})
        /\ \A s \in Slot : p.bank[k][s].time <= m.time
        /\ Plain(b[k], ofh(k)) /\ m.has = {} => Plain(p.bank[k], ofh(k) \cup {m})
    <3>. DEFINE r  == b[k]
                i  == n[k]
                msgs == ofh(k)
                pr == p.bank[k]
                l  == p.next[k]
    <3>1. /\ r \in [Slot -> Entry] /\ i \in Slot /\ m \in AnyMsg /\ Taking(r, i, m, pr, l)
          /\ \A x \in msgs : x \in AnyMsg
          /\ \A x \in msgs : x.time <= m.time
          /\ Ring(r, i, msgs)
          /\ \A s \in Slot : r[s].time <= m.time
      BY <1>2, <1>4, <2>1, <2>2
    <3>. HIDE DEF r, i, msgs, pr, l
    <3>2. /\ pr \in [Slot -> Entry] /\ l \in Slot
          /\ Ring(pr, l, msgs \cup {m})
          /\ \A s \in Slot : pr[s].time <= m.time
          /\ Plain(r, msgs) /\ m.has = {} => Plain(pr, msgs \cup {m})
      BY <3>1, RingTakes
    <3>. QED  BY <3>2 DEF r, i, msgs, pr, l
  <2>. QED  BY <1>2, <2>3
<1>6. History(k)' = ofh(k) \cup {m} /\ \A q \in Kinds : q # k => History(q)' = ofh(q)
  BY <1>1, <1>2 DEF History
<1>7. \A x \in separation' : x # "all" /\ \E y \in hist' : y.net = x
  BY <1>1, <1>2, <1>3
<1>8. IsFiniteSet(hist') /\ hist' \in SUBSET AnyMsg /\ \A x \in hist' : x.time <= tow'
  <2>1. IsFiniteSet(h \cup {m})
    BY <1>3, FS_AddElement
  <2>. QED  BY <1>1, <1>2, <1>3, <2>1
<1>. HIDE DEF b, n, h, sp, ofh, p, m
<1>9. \A q \in Kinds : q # k => bank'[q] = b[q] /\ next'[q] = n[q]
  BY <1>1, <1>3, <1>4
<1>10. bank'[k] = p.bank[k] /\ next'[k] = p.next[k]
  BY <1>1
<1>11. bank' \in [Kinds -> [Slot -> Entry]] /\ next' \in [Kinds -> Slot]
  BY <1>1, <1>3, <1>4, <1>5
<1>12. \A q \in Kinds, s \in Slot : bank'[q][s].time <= tow'
  BY <1>1, <1>3, <1>5, <1>9, <1>10
<1>13. \A q \in Kinds : Ring(bank'[q], next'[q], History(q)')
  BY <1>3, <1>5, <1>6, <1>9, <1>10
<1>14. \A q \in {"orbit", "clock"} : Plain(bank'[q], History(q)')
  <2>1. {"orbit", "clock"} \subseteq Kinds
    BY DEF Kinds
  <2>. QED  BY <1>2, <1>3, <1>5, <1>6, <1>9, <1>10, <2>1
<1>. QED  BY <1>1, <1>2, <1>7, <1>8, <1>11, <1>12, <1>13, <1>14 DEF BankStrong, BankTypes

LEMMA BankStrongInit == BankInit => BankStrong
<1>. SUFFICES ASSUME BankInit PROVE BankStrong
  OBVIOUS
<1>1. bank = Cleared /\ next = First /\ separation = {} /\ tow = 0 /\ hist = {}
  BY DEF BankInit
<1>2. \A k : History(k) = {}
  BY <1>1 DEF History
<1>3. {"orbit", "clock"} \subseteq Kinds
  BY DEF Kinds
<1>4. \A k \in Kinds, s \in Slot : bank[k][s].time <= tow
  BY <1>1, ClearedRing, Unuseds
<1>5. BankTypes
  BY <1>1, <1>4, ClearedRing, FS_EmptySet DEF BankTypes
<1>. QED  BY <1>1, <1>2, <1>3, <1>5, ClearedRing DEF BankStrong

LEMMA BankStrongStep == BankStrong /\ [BankNext]_bankVars => BankStrong'
<1>. SUFFICES ASSUME BankStrong, [BankNext]_bankVars PROVE BankStrong'
  OBVIOUS
<1>0. /\ "all" \in AnyNet \ {"none"} /\ Net \in AnyNet \ {"none"}
      /\ {"orbit", "clock", "bias", "trop"} = Kinds
      /\ {} \in SUBSET AnyWhat
      /\ \A b \in {{"c"}, {"p"}, {"c", "p"}} : b \in SUBSET AnyWhat
      /\ \A net \in TropNets : {net} \in SUBSET AnyWhat
  BY BankAssumption DEF AnyNet, AnyWhat, Kinds
<1>1. ASSUME UNCHANGED <<bank, next, separation, hist>>, tow' = tow \/ tow' = tow + 1
      PROVE  BankStrong'
  <2>1. tow \in Nat /\ tow' \in Nat /\ tow <= tow'
    BY <1>1 DEF BankStrong, BankTypes
  <2>2. \A k : History(k)' = History(k)
    BY <1>1 DEF History
  <2>3. /\ \A m \in hist' : m.time <= tow'
        /\ \A k \in Kinds, s \in Slot : bank'[k][s].time <= tow'
    <3>1. \A m \in hist : m.time \in Nat /\ m.time <= tow
      BY DEF BankStrong, BankTypes, AnyMsg
    <3>2. \A k \in Kinds, s \in Slot : bank[k][s].time \in Nat /\ bank[k][s].time <= tow
      BY DEF BankStrong, BankTypes, Entry
    <3>. QED  BY <1>1, <2>1, <3>1, <3>2
  <2>. QED  BY <1>1, <2>1, <2>2, <2>3 DEF BankStrong, BankTypes
<1>2. CASE OtherOrigin
  BY <1>1, <1>2 DEF OtherOrigin
<1>3. CASE DecodeOther
  BY <1>1, <1>3 DEF DecodeOther, bankVars
<1>4. CASE DecodeMask
  BY <1>1, <1>4 DEF DecodeMask
<1>5. CASE Refused
  BY <1>1, <1>5 DEF Refused
<1>6. CASE Later
  BY <1>1, <1>6 DEF Later
<1>7. ASSUME NEW k \in {"orbit", "clock"}, NEW net \in {"all", Net}, DecodeMsg(k, net, {})
      PROVE  BankStrong'
  BY <1>0, <1>7, DecodeMsgKept
<1>8. ASSUME NEW b \in {{"c"}, {"p"}, {"c", "p"}}, DecodeMsg("bias", "all", b)
      PROVE  BankStrong'
  BY <1>0, <1>8, DecodeMsgKept
<1>9. CASE DecodeMsg("bias", Net, {"c", "p"})
  BY <1>0, <1>9, DecodeMsgKept
<1>10. ASSUME NEW net \in TropNets, DecodeMsg("trop", "all", {net})
       PROVE  BankStrong'
  BY <1>0, <1>10, DecodeMsgKept
<1>11. CASE UNCHANGED bankVars
  BY <1>1, <1>11 DEF bankVars
<1>. QED
  BY <1>2, <1>3, <1>4, <1>5, <1>6, <1>7, <1>8, <1>9, <1>10, <1>11 DEF BankNext

-----------------------------------------------------------------------------
(* What is looked up.                                                       *)

\* The newest of a set of entries is the one that is there
LEMMA NewestIs ==
  ASSUME NEW F \in SUBSET Entry, NEW now \in Nat, \A f \in F : f.time <= now, F # {}
  PROVE  Newest(F) \in F /\ \A f \in F : f.time <= Newest(F).time
<1>. DEFINE ages == {now - f.time : f \in F}
<1>1. \A f \in F : f.time \in Nat /\ f.time <= now /\ now - f.time \in Nat
  BY DEF Entry
<1>2. ages \in SUBSET Nat /\ ages # {}
  BY <1>1
<1>. HIDE DEF ages
<1>3. Min(ages) \in ages /\ \A y \in ages : Min(ages) <= y
  BY <1>2, SmallestOf
<1>4. PICK e \in F : Min(ages) = now - e.time
  BY <1>3 DEF ages
<1>5. ASSUME NEW f \in F PROVE f.time <= e.time
  <2>1. now - f.time \in ages
    BY DEF ages
  <2>2. now - e.time <= now - f.time
    BY <1>3, <1>4, <2>1
  <2>. QED  BY <1>1, <2>2
<1>. QED  BY <1>5 DEF Newest

LEMMA NoSetIsNone == \A e \in Entry : e # NoSet
<1>. SUFFICES ASSUME NEW e \in Entry, e = NoSet PROVE FALSE
  OBVIOUS
<1>1. "net" \in DOMAIN e
  BY DEF Entry
<1>2. DOMAIN NoSet = {"none"}
  BY DEF NoSet
<1>. QED  BY <1>1, <1>2

\* One is found of this time if there is one and none is newer
LEMMA NewestAt ==
  ASSUME NEW F \in SUBSET Entry, NEW now \in Nat, \A f \in F : f.time <= now,
         NEW e \in F, e.time = now
  PROVE  NewestOr(F) # NoSet /\ NewestOr(F) \in F /\ NewestOr(F).time = now
<1>1. Newest(F) \in F /\ \A f \in F : f.time <= Newest(F).time
  BY NewestIs
<1>2. Newest(F).time \in Nat
  BY <1>1 DEF Entry
<1>3. Newest(F).time = now
  BY <1>1, <1>2
<1>4. NewestOr(F) = Newest(F)
  BY DEF NewestOr
<1>. QED  BY <1>1, <1>3, <1>4, NoSetIsNone

\* What is in a ring
LEMMA EntriesAre ==
  ASSUME BankStrong, NEW k \in Kinds
  PROVE  /\ Entries(k) \in SUBSET Entry
         /\ \A e \in Entries(k) : /\ e.net # "none" /\ e.time <= tow
                                  /\ \E m \in History(k) : m.net = e.net /\ m.time = e.time
         /\ \A s \in Slot : bank[k][s].net # "none" => bank[k][s] \in Entries(k)
<1>1. bank[k] \in [Slot -> Entry] /\ RingHolds(bank[k], History(k)) /\ \A s \in Slot : bank[k][s].time <= tow
  BY DEF BankStrong, BankTypes, Ring
<1>2. ASSUME NEW e \in Entries(k)
      PROVE  /\ e \in Entry /\ e.net # "none" /\ e.time <= tow
             /\ \E m \in History(k) : m.net = e.net /\ m.time = e.time
  <2>1. PICK s \in Slot : e = bank[k][s]
    BY DEF Entries
  <2>2. e # Unused
    BY DEF Entries
  <2>. QED  BY <1>1, <2>1, <2>2 DEF RingHolds, At
<1>3. \A s \in Slot : bank[k][s].net # "none" => bank[k][s] \in Entries(k)
  BY Unuseds DEF Entries
<1>. QED  BY <1>2, <1>3

\* The messages of a kind are finitely many
LEMMA TakenIs ==
  ASSUME BankStrong, NEW k \in Kinds
  PROVE  /\ IsFiniteSet(Taken(k)) /\ Taken(k) \in SUBSET Entry
         /\ \A e \in Taken(k) : e.has = {} /\ e.net # "none" /\ e.time <= tow
         /\ \A e \in Taken(k) : \E m \in History(k) : m.net = e.net /\ m.time = e.time
         /\ \A m \in History(k) : [net |-> m.net, time |-> m.time, has |-> {}] \in Taken(k)
<1>. DEFINE g == [m \in History(k) |-> [net |-> m.net, time |-> m.time, has |-> {}]]
<1>1. IsFiniteSet(hist) /\ hist \in SUBSET AnyMsg /\ \A m \in hist : m.time <= tow
  BY DEF BankStrong, BankTypes
<1>2. IsFiniteSet(History(k))
  BY <1>1, FS_Subset DEF History
<1>3. Taken(k) = {[net |-> m.net, time |-> m.time, has |-> {}] : m \in History(k)}
  BY DEF Taken, History
<1>4. g \in [History(k) -> Taken(k)] /\ \A e \in Taken(k) : \E m \in History(k) : g[m] = e
  BY <1>3
<1>5. g \in Surjection(History(k), Taken(k))
  BY <1>4 DEF Surjection
<1>6. IsFiniteSet(Taken(k))
  BY <1>2, <1>5, FS_Surjection
<1>7. \A m \in History(k) : m \in AnyMsg /\ m.time <= tow
  BY <1>1 DEF History
<1>8. ASSUME NEW e \in Taken(k)
      PROVE  /\ e \in Entry /\ e.has = {} /\ e.net # "none" /\ e.time <= tow
             /\ \E m \in History(k) : m.net = e.net /\ m.time = e.time
  <2>1. PICK m \in History(k) : e = [net |-> m.net, time |-> m.time, has |-> {}]
    BY <1>3
  <2>2. m.net \in AnyNet \ {"none"} /\ m.time \in Nat /\ m.time <= tow
    BY <1>7 DEF AnyMsg
  <2>. QED  BY <2>1, <2>2 DEF Entry
<1>. QED  BY <1>3, <1>6, <1>8

\* An entry without parts is its network and its time
LEMMA PlainEntry ==
  ASSUME NEW e \in Entry, NEW f \in Entry, e.net = f.net, e.time = f.time, e.has = {}, f.has = {}
  PROVE  e = f
BY DEF Entry

\* A message for which the ring has room is still in it
LEMMA RoomKeeps ==
  ASSUME BankStrong, NEW k \in {"orbit", "clock"}, NEW e \in Taken(k), Room(k, e)
  PROVE  e \in Entries(k)
<1>. SUFFICES ASSUME e \notin Entries(k) PROVE FALSE
  OBVIOUS
<1>0. k \in Kinds
  BY DEF Kinds
<1>1. /\ bank[k] \in [Slot -> Entry] /\ RingHolds(bank[k], History(k)) /\ RingKeeps(bank[k], History(k))
      /\ \A s \in Slot : bank[k][s].has = {}
  BY <1>0 DEF BankStrong, BankTypes, Ring, Plain
<1>2. e \in Entry /\ e.has = {} /\ e.net # "none"
  BY <1>0, TakenIs
<1>3. PICK m \in History(k) : m.net = e.net /\ m.time = e.time
  BY <1>0, TakenIs
<1>4. ASSUME NEW s \in Slot, At(bank[k], s, m.net, m.time) PROVE FALSE
  <2>1. bank[k][s] = e
    BY <1>1, <1>2, <1>3, <1>4, PlainEntry DEF At
  <2>. QED  BY <1>0, <1>2, <2>1, EntriesAre
<1>5. \A s \in Slot : bank[k][s].net # "none" /\ bank[k][s].time >= e.time
  BY <1>1, <1>3, <1>4 DEF RingKeeps, GaveWay
<1>. DEFINE as == {f \in Taken(k) : f.time >= e.time}
            rest == as \ {e}
            g == [s \in Slot |-> bank[k][s]]
<1>6. IsFiniteSet(as) /\ e \in as
  <2>1. e.time >= e.time
    BY <1>2 DEF Entry
  <2>. QED  BY <1>0, <2>1, TakenIs, FS_Subset
<1>7. IsFiniteSet(rest) /\ Cardinality(as) \in Nat /\ Cardinality(rest) = Cardinality(as) - 1
  BY <1>6, FS_RemoveElement, FS_CardinalityType
<1>8. ASSUME NEW s \in Slot PROVE g[s] \in rest
  <2>1. PICK x \in History(k) : At(bank[k], s, x.net, x.time)
    BY <1>1, <1>5 DEF RingHolds
  <2>. DEFINE y == [net |-> x.net, time |-> x.time, has |-> {}]
  <2>2. y \in Taken(k) /\ y \in Entry
    BY <1>0, TakenIs
  <2>3. y.net = x.net /\ y.time = x.time /\ y.has = {}
    OBVIOUS
  <2>. HIDE DEF y
  <2>4. bank[k][s] = y
    BY <1>1, <2>1, <2>2, <2>3, PlainEntry DEF At
  <2>5. bank[k][s] \in Entries(k)
    BY <1>0, <1>5, EntriesAre
  <2>. QED  BY <1>5, <2>2, <2>4, <2>5
<1>9. ASSUME NEW s \in Slot, NEW q \in Slot, g[s] = g[q] PROVE s = q
  BY <1>1, <1>5, <1>9 DEF RingHolds, At
<1>10. g \in Injection(Slot, rest)
  <2>1. g \in [Slot -> rest]
    BY <1>8
  <2>. HIDE DEF g, rest
  <2>. QED  BY <1>9, <2>1 DEF Injection, IsInjective
<1>11. Cardinality(Slot) <= Cardinality(rest)
  BY <1>7, <1>10, FS_Injection
<1>12. Cardinality(Slot) = BankNum /\ BankNum \in Nat
  <2>1. BankNum \in Nat /\ BankNum > 0 /\ 1 \in Int
    BY BankAssumption
  <2>2. Cardinality(1 .. BankNum) = BankNum
    BY <2>1, FS_Interval
  <2>. QED  BY <2>1, <2>2 DEF Slot
<1>13. Cardinality(as) <= BankNum
  BY DEF Room
<1>14. BankNum <= Cardinality(rest) /\ Cardinality(rest) = Cardinality(as) - 1
  BY <1>7, <1>11, <1>12
<1>. DEFINE c == Cardinality(as)
<1>15. c \in Nat /\ c <= BankNum /\ BankNum <= c - 1 /\ BankNum \in Nat
  BY <1>7, <1>12, <1>13, <1>14
<1>. HIDE DEF c
<1>. QED  BY <1>15

\* What is picked of the ring is what is picked of all messages
LEMMA PicksSame ==
  ASSUME BankStrong, NEW k \in {"orbit", "clock"},
         NEW F \in SUBSET Entries(k), NEW G \in SUBSET Taken(k),
         F \subseteq G, \A e \in G : e \in Entries(k) => e \in F,
         \A e, f \in G : e.net = f.net
  PROVE  Same(k, NewestOr(F), NewestOr(G))
<1>. SUFFICES ASSUME NewestOr(G) = NoSet \/ Room(k, NewestOr(G))
              PROVE  NewestOr(F) = NewestOr(G)
  BY DEF Same
<1>0. k \in Kinds
  BY DEF Kinds
<1>1. CASE G = {}
  <2>1. F = {}
    BY <1>1
  <2>. QED  BY <1>1, <2>1 DEF NewestOr
<1>2. CASE G # {}
  <2>0. tow \in Nat /\ G \in SUBSET Entry /\ F \in SUBSET Entry /\ \A e \in G : e.time <= tow /\ e.has = {}
    BY <1>0, TakenIs DEF BankStrong, BankTypes
  <2>. DEFINE n == Newest(G)
  <2>1. n \in G /\ \A f \in G : f.time <= n.time
    BY <1>2, <2>0, NewestIs
  <2>2. NewestOr(G) = n /\ n # NoSet
    BY <1>2, <2>0, <2>1, NoSetIsNone DEF NewestOr
  <2>. HIDE DEF n
  <2>3. n \in F
    BY <2>1, <2>2, RoomKeeps
  <2>. DEFINE o == Newest(F)
  <2>4. o \in F /\ \A f \in F : f.time <= o.time
    BY <2>0, <2>3, NewestIs
  <2>5. NewestOr(F) = o
    BY <2>3 DEF NewestOr
  <2>. HIDE DEF o
  <2>6. o.time = n.time
    <3>1. o.time \in Nat /\ n.time \in Nat
      BY <2>0, <2>1, <2>4 DEF Entry
    <3>2. o.time <= n.time /\ n.time <= o.time
      BY <2>1, <2>3, <2>4
    <3>. QED  BY <3>1, <3>2
  <2>7. o = n
    BY <2>0, <2>1, <2>4, <2>6, PlainEntry
  <2>. QED  BY <2>2, <2>5, <2>7
<1>. QED  BY <1>1, <1>2

LEMMA EntriesTaken ==
  ASSUME BankStrong, NEW k \in {"orbit", "clock"}
  PROVE  Entries(k) \subseteq Taken(k)
<1>. SUFFICES ASSUME NEW e \in Entries(k) PROVE e \in Taken(k)
  OBVIOUS
<1>0. k \in Kinds
  BY DEF Kinds
<1>1. e \in Entry /\ e.has = {}
  <2>1. PICK s \in Slot : e = bank[k][s]
    BY DEF Entries
  <2>. QED  BY <1>0, <2>1, EntriesAre DEF BankStrong, Plain
<1>2. PICK x \in History(k) : x.net = e.net /\ x.time = e.time
  BY <1>0, EntriesAre
<1>. DEFINE y == [net |-> x.net, time |-> x.time, has |-> {}]
<1>3. y \in Taken(k) /\ y \in Entry /\ y.net = e.net /\ y.time = e.time /\ y.has = {}
  BY <1>0, <1>2, TakenIs
<1>. HIDE DEF y
<1>. QED  BY <1>1, <1>3, PlainEntry

LEMMA LooksBackHolds == ASSUME BankStrong PROVE LooksBack
<1>1. ASSUME NEW t \in 0 .. tow
      PROVE  Same("orbit", CloseOrbit(Entries("orbit"), t), CloseOrbit(Taken("orbit"), t))
  <2>. DEFINE P(e) == e.net = Search /\ e.time <= t /\ t - e.time <= OrbitAge
              F == {e \in Entries("orbit") : P(e)}
              G == {e \in Taken("orbit") : P(e)}
  <2>1. F \subseteq G /\ (\A e \in G : e \in Entries("orbit") => e \in F) /\ \A e, f \in G : e.net = f.net
    BY EntriesTaken
  <2>2. Same("orbit", NewestOr(F), NewestOr(G))
    <3>. HIDE DEF P
    <3>1. F \in SUBSET Entries("orbit") /\ G \in SUBSET Taken("orbit")
      OBVIOUS
    <3>. HIDE DEF F, G
    <3>. QED  BY <2>1, <3>1, PicksSame
  <2>. QED  BY <2>2 DEF CloseOrbit
<1>2. ASSUME NEW t \in 0 .. tow, NEW o \in 0 .. t
      PROVE  Same("clock", CloseClock(Entries("clock"), t, o), CloseClock(Taken("clock"), t, o))
  <2>. DEFINE P(e) == e.net = Search /\ e.time <= t /\ e.time - o < Tu
              F == {e \in Entries("clock") : P(e)}
              G == {e \in Taken("clock") : P(e)}
  <2>1. F \subseteq G /\ (\A e \in G : e \in Entries("clock") => e \in F) /\ \A e, f \in G : e.net = f.net
    BY EntriesTaken
  <2>2. Same("clock", NewestOr(F), NewestOr(G))
    <3>. HIDE DEF P
    <3>1. F \in SUBSET Entries("clock") /\ G \in SUBSET Taken("clock")
      OBVIOUS
    <3>. HIDE DEF F, G
    <3>. QED  BY <2>1, <3>1, PicksSame
  <2>. QED  BY <2>2 DEF CloseClock
<1>. QED  BY <1>1, <1>2 DEF LooksBack

\* A message of the present time is in its ring if all are for all networks
LEMMA PresentKept ==
  ASSUME BankStrong, \A m \in hist : m.net = "all",
         NEW m \in hist, m.time = tow
  PROVE  \E e \in Entries(m.k) : e.net = "all" /\ e.time = tow /\ m.has \subseteq e.has
<1>. DEFINE k == m.k
            r == bank[k]
<1>1. /\ k \in Kinds /\ m \in History(k) /\ tow \in Nat
      /\ \A x \in History(k) : x.net = "all" /\ x.time <= tow /\ x.time \in Nat
  BY DEF BankStrong, BankTypes, AnyMsg, History
<1>2. RingKeeps(r, History(k))
  BY <1>1 DEF BankStrong, Ring
<1>3. ~GaveWay(r, History(k), m)
  BY <1>1 DEF GaveWay
<1>4. PICK s \in Slot : At(r, s, m.net, m.time) /\ m.has \subseteq r[s].has
  BY <1>1, <1>2, <1>3 DEF RingKeeps
<1>5. r[s] \in Entries(k) /\ r[s].net = "all" /\ r[s].time = tow
  <2>1. r[s].net = "all" /\ r[s].time = tow
    BY <1>1, <1>4 DEF At
  <2>. QED  BY <1>1, <2>1, EntriesAre
<1>. QED  BY <1>4, <1>5

LEMMA CompleteSetUsedHolds == ASSUME BankStrong PROVE CompleteSetUsed
<1>. DEFINE has(k, w) == \E m \in hist : m.k = k /\ m.time = tow /\ m.net = "all" /\ w \subseteq m.has
<1>. SUFFICES ASSUME \A m \in hist : m.net = "all",
                     has("orbit", {}), has("clock", {}), has("bias", {"c"}), has("bias", {"p"}),
                     has("trop", {Net})
              PROVE  GetClose(tow) = [orbit |-> tow, clock |-> tow, bias |-> tow, trop |-> tow]
  BY DEF CompleteSetUsed
<1>0. /\ tow \in Nat /\ Tu \in Nat /\ Tu > 0 /\ OrbitAge \in Nat /\ Net # "all"
      /\ {"orbit", "clock", "bias", "trop"} = Kinds
  BY BankAssumption DEF BankStrong, BankTypes, Kinds
<1>1. ASSUME NEW k \in Kinds, NEW w, has(k, w)
      PROVE  \E e \in Entries(k) : e.net = "all" /\ e.time = tow /\ w \subseteq e.has
  <2>1. PICK m \in hist : m.k = k /\ m.time = tow /\ m.net = "all" /\ w \subseteq m.has
    BY <1>1
  <2>. QED  BY <2>1, PresentKept
<1>2. ASSUME NEW k \in Kinds
      PROVE  Entries(k) \in SUBSET Entry /\ \A e \in Entries(k) : e.time <= tow /\ e.net = "all"
  BY EntriesAre DEF History
<1>3. Search = "all"
  BY <1>0 DEF Search, BankStrong
<1>4. ASSUME NEW k \in Kinds, NEW F \in SUBSET Entries(k), NEW e \in F, e.time = tow
      PROVE  NewestOr(F) # NoSet /\ NewestOr(F).time = tow
  <2>1. F \in SUBSET Entry /\ \A f \in F : f.time <= tow
    BY <1>2
  <2>. QED  BY <1>0, <1>4, <2>1, NewestAt
<1>. DEFINE orbit == CloseOrbit(Entries("orbit"), tow)
            trop  == CloseTrop(Entries("trop"), tow)
            pbias == CloseBias(Entries("bias"), tow, "p")
            cbias == CloseBias(Entries("bias"), tow, "c")
            clock == CloseClock(Entries("clock"), tow, tow)
<1>. HIDE DEF has
<1>5. orbit # NoSet /\ orbit.time = tow
  <2>. DEFINE F == {e \in Entries("orbit") : e.net = Search /\ e.time <= tow /\ tow - e.time <= OrbitAge}
  <2>1. PICK e \in Entries("orbit") : e.net = "all" /\ e.time = tow
    BY <1>0, <1>1
  <2>2. e \in F
    BY <1>0, <1>3, <2>1
  <2>3. F \in SUBSET Entries("orbit")
    OBVIOUS
  <2>. HIDE DEF F
  <2>4. NewestOr(F) # NoSet /\ NewestOr(F).time = tow
    BY <1>0, <1>4, <2>1, <2>2, <2>3
  <2>. QED  BY <2>4 DEF CloseOrbit, F
<1>6. trop # NoSet /\ trop.time = tow
  <2>. DEFINE F == {e \in Entries("trop") : e.time - tow <= Tu /\ tow - e.time <= Tu /\ Net \in e.has}
  <2>1. PICK e \in Entries("trop") : e.time = tow /\ Net \in e.has
    BY <1>0, <1>1
  <2>2. e \in F
    BY <1>0, <2>1
  <2>3. F \in SUBSET Entries("trop")
    OBVIOUS
  <2>. HIDE DEF F
  <2>4. NewestOr(F) # NoSet /\ NewestOr(F).time = tow
    BY <1>0, <1>4, <2>1, <2>2, <2>3
  <2>. QED  BY <2>4 DEF CloseTrop, F
<1>7. ASSUME NEW b \in {"c", "p"}
      PROVE  CloseBias(Entries("bias"), tow, b) # NoSet /\ CloseBias(Entries("bias"), tow, b).time = tow
  <2>. DEFINE at(net) == {e \in Entries("bias") : e.net = net /\ e.time <= tow /\ b \in e.has}
              F == at("all")
  <2>1. PICK e \in Entries("bias") : e.net = "all" /\ e.time = tow /\ b \in e.has
    BY <1>0, <1>1
  <2>2. e \in F
    BY <1>0, <2>1
  <2>3. F \in SUBSET Entries("bias")
    OBVIOUS
  <2>5. at(Net) = {}
    BY <1>0, <1>2
  <2>6. CloseBias(Entries("bias"), tow, b) = NewestOr(F)
    BY <2>5 DEF CloseBias
  <2>. HIDE DEF F
  <2>4. NewestOr(F) # NoSet /\ NewestOr(F).time = tow
    BY <1>0, <1>4, <2>1, <2>2, <2>3
  <2>. QED  BY <2>4, <2>6
<1>8. clock # NoSet /\ clock.time = tow
  <2>. DEFINE F == {e \in Entries("clock") : e.net = Search /\ e.time <= tow /\ e.time - tow < Tu}
  <2>1. PICK e \in Entries("clock") : e.net = "all" /\ e.time = tow
    BY <1>0, <1>1
  <2>2. e \in F
    BY <1>0, <1>3, <2>1
  <2>3. F \in SUBSET Entries("clock")
    OBVIOUS
  <2>. HIDE DEF F
  <2>4. NewestOr(F) # NoSet /\ NewestOr(F).time = tow
    BY <1>0, <1>4, <2>1, <2>2, <2>3
  <2>. QED  BY <2>4 DEF CloseClock, F
<1>9. Fits(trop, pbias)
  <2>1. pbias.time = tow
    BY <1>7
  <2>. HIDE DEF trop, pbias
  <2>. QED  BY <1>0, <1>6, <2>1 DEF Fits
<1>10. /\ pbias # NoSet /\ pbias.time = tow /\ cbias # NoSet /\ cbias.time = tow
       /\ trop.time - orbit.time \in -Tu .. Tu - 1
  <2>1. pbias # NoSet /\ pbias.time = tow /\ cbias # NoSet /\ cbias.time = tow
    BY <1>7
  <2>. HIDE DEF trop, pbias, orbit, cbias
  <2>. QED  BY <1>0, <1>5, <1>6, <2>1
<1>11. GetClose(tow) = [orbit |-> orbit.time, clock |-> clock.time, bias |-> pbias.time, trop |-> trop.time]
  <2>. HIDE DEF CloseOrbit, CloseTrop, CloseBias, CloseClock, Fits
  <2>. QED  BY <1>5, <1>6, <1>8, <1>9, <1>10 DEF GetClose
<1>. HIDE DEF orbit, trop, pbias, clock
<1>. QED  BY <1>5, <1>6, <1>8, <1>10, <1>11

\* An observation older than the newest messages gets the orbits and clocks of its own time,
\* and a set that is complete at the present time is used (BankInv), for any size of the rings,
\* any networks and facilities and any order of the messages.
THEOREM BankInvHolds == BankSpec => []BankInv
<1>1. BankStrong => BankInv
  BY LooksBackHolds, CompleteSetUsedHolds DEF BankInv
<1>. QED  BY <1>1, BankStrongInit, BankStrongStep, PTL DEF BankSpec

-----------------------------------------------------------------------------
(* CLAS channels: any satellites, patterns and timeout of the lock.         *)

Lock == [prn : QzsPrns \cup {NoPrn}, ptn : {0} \cup {Ptn[p] : p \in QzsPrns}, age : 0 .. Over]

\* No two channels have the same satellite, and a lock is never older than the silence of
\* its satellite; without a time nothing is known to be recent.
RouteStrong ==
    /\ l6lock \in [Ch -> Lock] /\ heard \in [QzsPrns -> 0 .. Over]
    /\ known \in BOOLEAN /\ l6mrg \in BOOLEAN
    /\ ~l6mrg => l6lock[1].prn = NoPrn
    /\ l6lock[0].prn = l6lock[1].prn => l6lock[0].prn = NoPrn
    /\ \A ch \in Ch : l6lock[ch].prn # NoPrn => l6lock[ch].age <= heard[l6lock[ch].prn]
    /\ ~known => \A p \in QzsPrns : heard[p] = Over

\* The lowest of some channels is one of them.
LEMMA LowestChannel == \A S \in SUBSET Ch : S # {} => Min(S) \in S
<1>. SUFFICES ASSUME NEW S \in SUBSET Ch, S # {} PROVE Min(S) \in S
  OBVIOUS
<1>1. CASE 0 \in S
  <2>1. \A y \in S : 0 <= y
    BY DEF Ch
  <2>. QED  BY <1>1, <2>1 DEF Min
<1>2. CASE 0 \notin S
  <2>1. \A y \in S : y = 1
    BY <1>2 DEF Ch
  <2>2. 1 \in S /\ \A y \in S : 1 <= y
    BY <2>1
  <2>. QED  BY <2>2 DEF Min
<1>. QED  BY <1>1, <1>2

\* A frame goes to the channel its satellite has, else to one that is free or whose lock
\* is old; without a merge that is the first.
LEMMA Routed ==
  ASSUME l6mrg \in BOOLEAN, NEW p \in QzsPrns, NEW ch \in Route(p),
         ~l6mrg => l6lock[1].prn = NoPrn
  PROVE  /\ ch \in Ch /\ (~l6mrg => ch = 0)
         /\ \/ l6lock[ch].prn = p
            \/ /\ \A c \in Ch : l6lock[c].prn # p
               /\ l6lock[ch].prn = NoPrn \/ l6lock[ch].age > Relock
<1>. DEFINE nch == IF l6mrg THEN Ch ELSE {0}
            mine == {c \in nch : l6lock[c].prn = p}
            same == {c \in nch : l6lock[c].ptn = Ptn[p]}
            free == {c \in nch : l6lock[c].ptn = 0}
            target == IF ~l6mrg THEN {0} ELSE IF same # {} THEN {Min(same)}
                      ELSE IF free # {} THEN {Min(free)} ELSE {}
<1>1. ch \in IF mine # {} THEN {Min(mine)}
             ELSE {c \in target : l6lock[c].prn = NoPrn \/ l6lock[c].age > Relock}
  BY DEF Route
<1>2. nch \subseteq Ch /\ (~l6mrg => nch = {0})
  BY DEF Ch
<1>3. CASE mine # {}
  <2>1. mine \in SUBSET Ch
    BY <1>2
  <2>2. ch \in mine
    BY <1>1, <1>3, <2>1, LowestChannel
  <2>. QED  BY <1>2, <2>2
<1>4. CASE mine = {}
  <2>1. ch \in target /\ (l6lock[ch].prn = NoPrn \/ l6lock[ch].age > Relock)
    BY <1>1, <1>4
  <2>2. target \subseteq nch
    <3>1. same \in SUBSET Ch /\ free \in SUBSET Ch /\ same \subseteq nch /\ free \subseteq nch
      BY <1>2
    <3>2. (same # {} => Min(same) \in nch) /\ (free # {} => Min(free) \in nch)
      BY <3>1, LowestChannel
    <3>. QED  BY <3>2
  <2>3. \A c \in Ch : l6lock[c].prn # p
    BY <1>4, RouteAssumption DEF Ch
  <2>. QED  BY <1>2, <2>1, <2>2, <2>3
<1>. QED  BY <1>3, <1>4

\* A frame is routed.
LEMMA FrameStrong ==
  ASSUME RouteStrong, NEW p \in QzsPrns, Frame(p)
  PROVE  RouteStrong'
<1>. USE RouteAssumption
<1>1. /\ heard' = [heard EXCEPT ![p] = IF known THEN 0 ELSE heard[p]]
      /\ l6mrg' = l6mrg /\ known' = known
  BY DEF Frame
<1>2. /\ l6lock \in [Ch -> Lock] /\ heard \in [QzsPrns -> 0 .. Over] /\ l6mrg \in BOOLEAN
      /\ known \in BOOLEAN /\ (~l6mrg => l6lock[1].prn = NoPrn)
  BY DEF RouteStrong
<1>3. /\ heard' \in [QzsPrns -> 0 .. Over] /\ heard'[p] = IF known THEN 0 ELSE heard[p]
      /\ \A q \in QzsPrns : q # p => heard'[q] = heard[q]
      /\ ~known => \A q \in QzsPrns : heard'[q] = Over
  BY <1>1, <1>2 DEF RouteStrong, Over
<1>4. CASE Route(p) = {}
  <2>1. l6lock' = l6lock
    BY <1>4 DEF Frame
  <2>2. \A ch \in Ch : l6lock[ch].prn # p
    <3>. SUFFICES ASSUME NEW ch \in Ch, l6lock[ch].prn = p PROVE Route(p) # {}
      BY <1>4
    <3>1. ~l6mrg => ch = 0
      BY <1>2 DEF Ch
    <3>. QED  BY <3>1 DEF Route
  <2>. QED  BY <1>1, <1>2, <1>3, <2>1, <2>2 DEF RouteStrong, Lock
<1>5. ASSUME NEW ch \in Route(p),
             l6lock' = [l6lock EXCEPT ![ch] =
               [prn |-> p, ptn |-> IF l6lock[ch].prn = p THEN l6lock[ch].ptn ELSE Ptn[p],
                age |-> IF known THEN 0 ELSE Over]]
      PROVE  RouteStrong'
  <2>1. /\ ch \in Ch /\ (~l6mrg => ch = 0)
        /\ l6lock[ch].prn = p \/ \A c \in Ch : l6lock[c].prn # p
    BY <1>2, Routed
  <2>2. /\ l6lock' \in [Ch -> Lock] /\ l6lock'[ch].prn = p /\ l6lock'[ch].age = IF known THEN 0 ELSE Over
        /\ \A c \in Ch : c # ch => l6lock'[c] = l6lock[c]
    BY <1>2, <1>5, <2>1 DEF Lock, Over
  <2>3. \A c \in Ch : c # ch => l6lock'[c].prn # p
    BY <1>2, <2>1, <2>2 DEF RouteStrong, Ch
  <2>4. \A c \in Ch : l6lock'[c].prn # NoPrn => l6lock'[c].age <= heard'[l6lock'[c].prn]
    <3>1. CASE known
      BY <1>2, <1>3, <2>2, <2>3, <3>1 DEF RouteStrong, Lock
    <3>2. CASE ~known
      BY <1>2, <1>3, <2>2, <3>2 DEF Lock
    <3>. QED  BY <3>1, <3>2
  <2>5. ~l6mrg => l6lock'[1].prn = NoPrn
    BY <1>2, <2>1, <2>2 DEF Ch
  <2>6. l6lock'[0].prn # l6lock'[1].prn
    BY <2>1, <2>2, <2>3 DEF Ch
  <2>. QED  BY <1>1, <1>2, <1>3, <2>2, <2>4, <2>5, <2>6 DEF RouteStrong
<1>. QED  BY <1>4, <1>5 DEF Frame

LEMMA RouteStrongStep == RouteStrong /\ [RouteNext]_routeVars => RouteStrong'
<1>. SUFFICES ASSUME RouteStrong, [RouteNext]_routeVars PROVE RouteStrong'
  OBVIOUS
<1>. USE RouteAssumption
<1>1. CASE RouteSecond
  <2>1. /\ l6lock' = [ch \in Ch |-> [l6lock[ch] EXCEPT !.age = Grow(l6lock[ch].age)]]
        /\ heard' = [p \in QzsPrns |-> Grow(heard[p])] /\ l6mrg' = l6mrg /\ known' = known
    BY <1>1 DEF RouteSecond
  <2>2. l6lock \in [Ch -> Lock] /\ heard \in [QzsPrns -> 0 .. Over]
    BY DEF RouteStrong
  <2>3. \A t \in 0 .. Over : Grow(t) \in 0 .. Over
    BY DEF Grow, Over
  <2>4. \A s, t \in 0 .. Over : s <= t => Grow(s) <= Grow(t)
    BY DEF Grow, Over
  <2>5. \A ch \in Ch : /\ l6lock'[ch] \in Lock /\ l6lock'[ch].prn = l6lock[ch].prn
                       /\ l6lock'[ch].age = Grow(l6lock[ch].age)
    BY <2>1, <2>2, <2>3 DEF Lock
  <2>6. l6lock' \in [Ch -> Lock] /\ heard' \in [QzsPrns -> 0 .. Over]
    BY <2>1, <2>2, <2>3, <2>5
  <2>7. ASSUME NEW ch \in Ch, l6lock'[ch].prn # NoPrn PROVE l6lock'[ch].age <= heard'[l6lock'[ch].prn]
    <3>1. l6lock[ch].prn \in QzsPrns /\ l6lock[ch].age \in 0 .. Over
      BY <2>2, <2>5, <2>7 DEF Lock
    <3>2. l6lock[ch].age <= heard[l6lock[ch].prn]
      BY <2>5, <2>7 DEF RouteStrong
    <3>. QED  BY <2>1, <2>2, <2>4, <2>5, <3>1, <3>2, SMTT(30)
  <2>8. ~known' => \A p \in QzsPrns : heard'[p] = Over
    BY <2>1 DEF RouteStrong, Grow
  <2>9. l6lock'[0].prn = l6lock[0].prn /\ l6lock'[1].prn = l6lock[1].prn
    BY <2>5 DEF Ch
  <2>. QED  BY <2>1, <2>6, <2>7, <2>8, <2>9 DEF RouteStrong
<1>2. CASE RoverTime
  BY <1>2 DEF RoverTime, RouteStrong
<1>3. ASSUME NEW p \in QzsPrns, Sets(p) PROVE RouteStrong'
  BY <1>3 DEF Sets, RouteStrong
<1>4. CASE UNCHANGED routeVars
  BY <1>4 DEF routeVars, RouteStrong
<1>. QED  BY <1>1, <1>2, <1>3, <1>4, FrameStrong DEF RouteNext

LEMMA RouteStrongInit == RouteInit => RouteStrong
<1>. SUFFICES ASSUME RouteInit PROVE RouteStrong
  OBVIOUS
<1>1. Over \in 0 .. Over
  BY RouteAssumption DEF Over
<1>2. Free \in Lock /\ Free.prn = NoPrn
  BY <1>1 DEF Free, Lock
<1>3. l6lock \in [Ch -> Lock] /\ heard \in [QzsPrns -> 0 .. Over] /\ \A ch \in Ch : l6lock[ch].prn = NoPrn
  BY <1>1, <1>2 DEF RouteInit
<1>4. l6lock[0].prn = NoPrn /\ l6lock[1].prn = NoPrn
  BY <1>3 DEF Ch
<1>. QED  BY <1>3, <1>4 DEF RouteInit, RouteStrong

\* The two channels never have the same satellite, and one that has a satellite passes to
\* another only when no frame of the first came with a time for longer than the timeout.
THEOREM OneSourceHolds == RouteSpec => []ChannelsApart /\ OneSource
<1>1. ASSUME RouteStrong, RouteNext, NEW ch \in Ch,
             l6lock'[ch].prn \notin {l6lock[ch].prn, NoPrn}, l6lock[ch].prn # NoPrn
      PROVE  heard[l6lock[ch].prn] > Relock
  <2>1. l6lock \in [Ch -> Lock] /\ l6lock'[ch].prn # l6lock[ch].prn
    BY <1>1 DEF RouteStrong
  <2>2. PICK p \in QzsPrns : Frame(p)
    <3>1. ~RouteSecond
      BY <1>1, <2>1 DEF RouteSecond, Lock
    <3>. QED  BY <1>1, <2>1, <3>1 DEF RouteNext, RoverTime, Sets
  <2>3. PICK c \in Route(p) : l6lock' = [l6lock EXCEPT ![c] =
               [prn |-> p, ptn |-> IF l6lock[c].prn = p THEN l6lock[c].ptn ELSE Ptn[p],
                age |-> IF known THEN 0 ELSE Over]]
    BY <2>1, <2>2 DEF Frame
  <2>4. /\ c \in Ch
        /\ l6lock[c].prn = p \/ l6lock[c].prn = NoPrn \/ l6lock[c].age > Relock
    BY <1>1, <2>3, Routed DEF RouteStrong
  <2>5. c = ch /\ l6lock[c].prn # p
    BY <2>1, <2>3, <2>4
  <2>6. /\ l6lock[ch].age > Relock /\ l6lock[ch].prn \in QzsPrns /\ l6lock[ch].age \in Int
        /\ heard \in [QzsPrns -> 0 .. Over]
    BY <1>1, <2>1, <2>4, <2>5 DEF Lock, RouteStrong
  <2>7. l6lock[ch].age <= heard[l6lock[ch].prn]
    BY <1>1 DEF RouteStrong
  <2>. QED  BY <2>6, <2>7, RouteAssumption
<1>2. RouteStrong => ChannelsApart
  BY DEF RouteStrong, ChannelsApart
<1>3. RouteStrong /\ RouteStrong' /\ [RouteNext]_routeVars =>
        [/\ ChannelsApart'
         /\ \A ch \in Ch : l6lock'[ch].prn \notin {l6lock[ch].prn, NoPrn} /\ l6lock[ch].prn # NoPrn
                        => heard[l6lock[ch].prn] > Relock]_routeVars
  BY <1>1 DEF RouteStrong, ChannelsApart
<1>. QED  BY <1>2, <1>3, RouteStrongInit, RouteStrongStep, PTL DEF RouteSpec, OneSource

=============================================================================
