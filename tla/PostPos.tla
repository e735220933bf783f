------------------------------ MODULE PostPos ------------------------------
(***************************************************************************)
(* Post-processing in both directions (src/src/pos/mrtk_postpos.c): the     *)
(* observations of rover and base, sorted into one array, are given to      *)
(* rtkpos epoch by epoch, first forwards and then backwards (procpos,        *)
(* inputobs), and the two lists of solutions are merged (combres).           *)
(***************************************************************************)
EXTENDS Integers, Sequences, FiniteSetsExt

CONSTANTS
    RoverTimes,  \* times of the rover's epochs
    BaseTimes,   \* what the times of the base's epochs may be
    Sats,        \* satellites of an epoch, of each receiver
    Tol          \* DTTOL

\* The epochs of a receiver are more than DTTOL apart.
ASSUME PostAssumption ==
    /\ Tol \in Nat /\ Sats \subseteq Int /\ IsFiniteSet(Sats) /\ Sats # {}
    /\ \A T \in BaseTimes \cup {RoverTimes} :
         /\ T \subseteq Int /\ IsFiniteSet(T)
         /\ \A t, u \in T : t < u => u - t > Tol

NONE == 0   FIX == 1   FLOAT == 2   \* SOLQ_???

VARIABLES
    data,          \* obss.data
    intpref,       \* opt.intpref
    solstatic,     \* a static position, of which one solution is written
    pass,          \* "forward" (revs = 0), "backward", "combine" or "done"
    iobsu, iobsr,  \* from 1 on
    got,         \* the observations rtkpos was called with last
    times,         \* the times of rover epochs given in this pass (history)
    solf, solb,
    ci, cj,        \* i and j of combres
    out,           \* sols of each iteration of combres: written, unless it is NONE or static
    sol,           \* sol and time of combres: the one that is written, static; or <<>>
    unsmoothed     \* times at which smoother() failed (history)

postVars == <<data, intpref, solstatic, pass, iobsu, iobsr, got, times, solf, solb, ci, cj, out, sol,
              unsmoothed>>

\* sortobs: cmpobs takes times within DTTOL for one epoch
Before(p, q) ==
    \/ q.t - p.t > Tol
    \/ p.t - q.t <= Tol /\ (p.rcv < q.rcv \/ (p.rcv = q.rcv /\ p.sat < q.sat))

Sorted(S) ==
    [k \in 1 .. Cardinality(S) |-> CHOOSE p \in S : Cardinality({q \in S : Before(q, p)}) = k - 1]

PostInit ==
    /\ \E base \in BaseTimes :
         data = Sorted([t : RoverTimes, rcv : {1}, sat : Sats] \cup [t : base, rcv : {2}, sat : Sats])
    /\ intpref \in BOOLEAN /\ solstatic \in BOOLEAN
    /\ pass = "forward" /\ iobsu = 1 /\ iobsr = 1
    /\ got = <<>> /\ times = <<>> /\ solf = <<>> /\ solb = <<>>
    /\ ci = 1 /\ cj = 0 /\ out = <<>> /\ sol = <<>> /\ unsmoothed = {}

-----------------------------------------------------------------------------
(* nextobsf and nextobsb: where the next epoch of a receiver begins, and how  *)
(* many observations it has.                                                *)

NObs == Len(data)

StartF(i, rcv) == Min({j \in i .. NObs : data[j].rcv = rcv} \cup {NObs + 1})
CountF(s, rcv) ==
    Min({j \in s .. NObs : data[j].rcv # rcv \/ data[j].t - data[s].t > Tol} \cup {NObs + 1}) - s

StartB(i, rcv) == Max({j \in 1 .. i : data[j].rcv = rcv} \cup {0})
CountB(s, rcv) ==
    s - Max({j \in 1 .. s : data[j].rcv # rcv \/ data[j].t - data[s].t < -Tol} \cup {0})

NextF(s) == StartF(s + CountF(s, 2), 2)
NextB(s) == StartB(s - CountB(s, 2), 2)

\* A loop that goes on from i to next[i] until it is at one of stop
Loop(i, next, stop) ==
    LET f[j \in DOMAIN next] == IF j \in stop THEN j ELSE f[next[j]] IN f[i]

\* The loops of inputobs over the base's epochs, from iobsr = i on, for a rover epoch at
\* time t: to the last epoch not beyond t, or to the first one that is not before it
BaseF(i, t) ==
    LET beyond == {s \in 1 .. NObs + 1 : s > NObs \/ data[s].t - t > Tol}
    IN  IF StartF(i, 2) \in beyond THEN i
        ELSE Loop(StartF(i, 2), [s \in 1 .. NObs + 1 |-> NextF(s)], {s \in 1 .. NObs + 1 : NextF(s) \in beyond})
BaseB(i, t) ==
    LET beyond == {s \in 0 .. NObs : s < 1 \/ data[s].t - t < -Tol}
    IN  IF StartB(i, 2) \in beyond THEN i
        ELSE Loop(StartB(i, 2), [s \in 0 .. NObs |-> NextB(s)], {s \in 0 .. NObs : NextB(s) \in beyond})
IntpF(i, t) == Loop(StartF(i, 2), [s \in 1 .. NObs + 1 |-> NextF(s)],
                    {s \in 1 .. NObs + 1 : s > NObs \/ data[s].t - t > -Tol})
IntpB(i, t) == Loop(StartB(i, 2), [s \in 0 .. NObs |-> NextB(s)],
                    {s \in 0 .. NObs : s < 1 \/ data[s].t - t < Tol})

\* What rtkpos makes of the epoch: it returns 0 (or all satellites are excluded) and
\* nothing is kept, or there is a solution, of status SOLQ_NONE when relpos failed.
Kept(sols, t) == {sols} \cup {Append(sols, [t |-> t, stat |-> s]) : s \in {NONE, FIX, FLOAT}}

\* procpos and inputobs, forwards and backwards
Forward ==
    LET u == StartF(iobsu, 1)  nu == CountF(u, 1)
        r == StartF(IF intpref THEN IntpF(iobsr, data[u].t) ELSE BaseF(iobsr, data[u].t), 2)
    IN  /\ pass = "forward" /\ u <= NObs
        /\ got' = SubSeq(data, u, u + nu - 1) \o SubSeq(data, r, r + CountF(r, 2) - 1)
        /\ iobsu' = u + nu /\ iobsr' = r
        /\ times' = Append(times, data[u].t)
        /\ solf' \in Kept(solf, data[u].t)
        /\ UNCHANGED <<data, intpref, solstatic, pass, solb, ci, cj, out, sol, unsmoothed>>

TurnBack ==
    /\ pass = "forward" /\ StartF(iobsu, 1) > NObs
    /\ pass' = "backward" /\ iobsu' = NObs /\ iobsr' = NObs /\ times' = <<>>
    /\ UNCHANGED <<data, intpref, solstatic, got, solf, solb, ci, cj, out, sol, unsmoothed>>

Backward ==
    LET u == StartB(iobsu, 1)  nu == CountB(u, 1)
        r == StartB(IF intpref THEN IntpB(iobsr, data[u].t) ELSE BaseB(iobsr, data[u].t), 2)
    IN  /\ pass = "backward" /\ u >= 1
        /\ got' = SubSeq(data, u - nu + 1, u) \o SubSeq(data, r - CountB(r, 2) + 1, r)
        /\ iobsu' = u - nu /\ iobsr' = r
        /\ times' = Append(times, data[u].t)
        /\ solb' \in Kept(solb, data[u].t)
        /\ UNCHANGED <<data, intpref, solstatic, pass, solf, ci, cj, out, sol, unsmoothed>>

Combine ==
    /\ pass = "backward" /\ StartB(iobsu, 1) < 1
    /\ pass' = "combine" /\ cj' = Len(solb) /\ times' = <<>> /\ got' = <<>>
    /\ UNCHANGED <<data, intpref, solstatic, iobsu, iobsr, solf, solb, ci, out, sol, unsmoothed>>

\* the solution of a static receiver: the one of the lowest status, at the earliest time
Chosen(s) ==
    IF sol # <<>> /\ s.stat > sol[1].stat THEN sol
    ELSE << [t |-> Min({s.t} \cup {sol[k].t : k \in DOMAIN sol}), stat |-> s.stat] >>

\* mutant: of one epoch the solution of the higher status is taken
Handed_Higher(f, b) ==
    IF f.t - b.t < -Tol THEN {f} ELSE IF f.t - b.t > Tol THEN {b}
    ELSE IF f.stat >= b.stat THEN {f} ELSE {b}

\* sols: the solution of the earlier epoch, of the same one that of the lower status or, if
\* they are the same, one smoothed of both, which is no fix any more when the two are too
\* far apart (valcomb)
Handed(f, b) ==
    IF f.t - b.t < -Tol THEN {f} ELSE IF f.t - b.t > Tol THEN {b}
    ELSE IF f.stat < b.stat THEN {f} ELSE IF f.stat > b.stat THEN {b}
    ELSE {f} \cup (IF f.stat = FIX /\ ~solstatic THEN {[f EXCEPT !.stat = FLOAT]} ELSE {})

Alike(f, b) == -Tol <= f.t - b.t /\ f.t - b.t <= Tol /\ f.stat = b.stat

\* an iteration of combres; smoother() may fail, of position or velocity
Combres ==
    LET f == solf[ci]  b == solb[cj] IN
    /\ pass = "combine" /\ ci <= Len(solf) /\ cj >= 1
    /\ ci' = IF f.t - b.t > Tol THEN ci ELSE ci + 1
    /\ cj' = IF f.t - b.t < -Tol THEN cj ELSE cj - 1
    /\ \/ Alike(f, b) /\ unsmoothed' = unsmoothed \cup {f.t} /\ UNCHANGED <<out, sol>>
       \/ /\ \E sols \in Handed(f, b) :
               out' = Append(out, sols) /\ sol' = IF solstatic THEN Chosen(sols) ELSE sol
          /\ UNCHANGED unsmoothed
    /\ UNCHANGED <<data, intpref, solstatic, pass, iobsu, iobsr, got, times, solf, solb>>

CombresEnd ==
    /\ pass = "combine" /\ (ci > Len(solf) \/ cj < 1)
    /\ pass' = "done"
    /\ UNCHANGED <<data, intpref, solstatic, iobsu, iobsr, got, times, solf, solb, ci, cj, out, sol, unsmoothed>>

\* execses again, for another session
Execses ==
    /\ pass = "done"
    /\ pass' = "forward" /\ iobsu' = 1 /\ iobsr' = 1
    /\ solf' = <<>> /\ solb' = <<>> /\ ci' = 1 /\ cj' = 0
    /\ out' = <<>> /\ sol' = <<>> /\ unsmoothed' = {}
    /\ UNCHANGED <<data, intpref, solstatic, got, times>>

PostNext == Forward \/ TurnBack \/ Backward \/ Combine \/ Combres \/ CombresEnd \/ Execses

-----------------------------------------------------------------------------
(* rtkpos gets every epoch of the rover whole and once in each pass, in the   *)
(* order of the pass, with the whole of the base epoch that its direction     *)
(* asks for: the last one not later (backwards: not earlier), or else the     *)
(* first it comes to; to interpolate, the first one not passed yet (inputobs). *)

Whole(t, rcv) == Sorted([t : {t}, rcv : {rcv}, sat : Sats])
Bases         == {data[k].t : k \in {k \in 1 .. NObs : data[k].rcv = 2}}
Nearest(S, last) == IF S = {} THEN {} ELSE {IF last THEN Max(S) ELSE Min(S)}

BaseOf(t) ==
    LET fw == pass = "forward"
        near == {b \in Bases : IF fw THEN b <= t + Tol ELSE b >= t - Tol}
    IN  IF intpref THEN Nearest({b \in Bases : IF fw THEN b > t - Tol ELSE b < t + Tol}, ~fw)
        ELSE IF near # {} THEN Nearest(near, fw) ELSE Nearest(Bases, ~fw)

InOrder(s) == \A t \in RoverTimes, k \in DOMAIN s :
                 (IF pass = "forward" THEN t <= s[k] ELSE t >= s[k]) <=> \E l \in 1 .. k : s[l] = t

GotRight ==
    /\ (pass = "forward" /\ StartF(iobsu, 1) > NObs) \/ (pass = "backward" /\ StartB(iobsu, 1) < 1) =>
         Len(times) = Cardinality(RoverTimes)
    /\ pass \in {"forward", "backward"} /\ times # <<>> =>
      LET t == times[Len(times)] IN
      /\ InOrder(times)
      /\ got = Whole(t, 1) \o IF BaseOf(t) = {} THEN <<>> ELSE Whole(CHOOSE b \in BaseOf(t) : TRUE, 2)

Has(sols, t) == \E k \in DOMAIN sols : sols[k].t = t
Of(sols, t)  == sols[CHOOSE k \in DOMAIN sols : sols[k].t = t].stat

(* What combres hands on goes forwards in time.  An epoch that both passes     *)
(* have is in it once, at the lower of the two statuses (NONE, the lowest, is  *)
(* not written) or a float of two fixes that disagree, unless the two are      *)
(* alike and smoother() fails; one that a single pass has is in it as it was,  *)
(* unless the other pass has nothing after it.  The one solution of a static   *)
(* receiver is of the lowest status of them all, at the first of their times   *)
(* (combres).                                                                *)
OutRight ==
    /\ \A k \in 1 .. Len(out) - 1 : out[k].t < out[k + 1].t
    /\ pass = "done" =>
         /\ \A t \in RoverTimes :
              /\ Has(solf, t) /\ Has(solb, t) =>
                   /\ Has(out, t) <=> t \notin unsmoothed
                   /\ t \in unsmoothed => Of(solf, t) = Of(solb, t)
                   /\ Has(out, t) => \/ Of(out, t) = Min({Of(solf, t), Of(solb, t)})
                                     \/ Of(out, t) = FLOAT /\ {Of(solf, t), Of(solb, t)} = {FIX} /\ ~solstatic
              /\ \A one \in {solf, solb} : LET other == IF one = solf THEN solb ELSE solf IN
                   Has(one, t) /\ ~Has(other, t) /\ (\E k \in DOMAIN other : other[k].t > t)
                     => Has(out, t) /\ Of(out, t) = Of(one, t)
         /\ solstatic /\ out # <<>> =>
              sol = << [t |-> out[1].t, stat |-> Min({out[k].stat : k \in DOMAIN out})] >>

(* Both of the above: the two passes see the same epochs, whole and in order,  *)
(* and where they are merged an epoch is lost for a failure of smoother() or   *)
(* for a NONE of the other pass only (postpos).                              *)
PostInv == GotRight /\ OutRight
=============================================================================
