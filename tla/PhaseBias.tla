----------------------------- MODULE PhaseBias -----------------------------
(***************************************************************************)
(* The carrier-phase ambiguities of one satellite in the filter of relative  *)
(* positioning (rtkpos, relpos, udbias and ddres in                          *)
(* src/src/pos/mrtk_rtkpos.c), epoch after epoch, forwards or backwards in   *)
(* time; an epoch of the base may serve several of the rover.  Whenever a    *)
(* receiver slips, the ambiguity in the filter ceases to be that of the      *)
(* phase: the filter is told by a flag of the observation (LLI), sees a       *)
(* change of the signal or of the half-cycle flag, finds that the difference  *)
(* of the two frequencies has jumped or that the phase does not fit the        *)
(* Doppler or the solution, or it is never told.  Values are left out: an     *)
(* ambiguity is good or stale, the geometry-free phase kept is that of the    *)
(* present arcs or not.                                                      *)
(*                                                                         *)
(* detslp_ll and detslp_dop pass over an observation that pt has the time     *)
(* of.  rtkpos calls pntpos first, and it stamps pt[0] with the rover's        *)
(* present epoch (src/src/pos/mrtk_spp.c): they see the base only.            *)
(***************************************************************************)
EXTENDS Integers

CONSTANTS
    NF,         \* opt.nf: one or two frequencies
    MaxOut,     \* opt.maxout
    Doppler,    \* opt.thresdop > 0 (0 by default)
    Passes,     \* calls of ddres in an epoch: opt.niter, and one after the filter
    Views,      \* the phases the two receivers may have in an epoch
    Slippery    \* the phases that slip: pairs of receiver and frequency

F    == 1 .. NF
Recv == {1, 2}

ASSUME PhaseAssumption ==
    /\ NF \in 1 .. 2 /\ MaxOut \in Nat /\ Doppler \in BOOLEAN /\ Passes \in Nat \ {0}
    /\ Views \subseteq [Recv -> SUBSET F] /\ Slippery \subseteq Recv \X F

VARIABLES
    back,     \* the epochs are processed backwards
    begun,    \* rtk->tt is the time since the epoch before (it is 0 at the first one)
    bview,    \* the phases of the base's present epoch
    bias,     \* rtk->x[IB(sat, f)]: "none" (0), of the present arcs or of earlier ones
    outc, rejc,
    lli,      \* bit 1 of the LLI of the base's phase, "plain" or "slip"; "none": there is no
              \* phase, or pt[1] is its time
    saved,    \* backwards: bit 1 of the base's LLI in the upper half of slip[f]
    half,     \* bit 2 of the base's LLI differs from the one there
    gf,       \* gf[0]: "none", of the arcs at the time, or "moved": of earlier ones
    recode,   \* the code, to codeprev: "same" or "other"; "new": codeprev is CODE_NONE
    owed,     \* backwards: the phase's last LLI told of a slip the epoch before
    lost,     \* how a stale ambiguity was left without a word: "no", "yes", and
              \* "blind" when no geometry-free phase was kept (history)
    used,     \* stale phase-biases that the last epoch's solution rests on (history)
    checked,  \* though both frequencies were compared and no slip was told (history)
    unheeded  \* those of them that the same epoch's LLI told of (history)

biasVars == <<back, begun, bview, bias, outc, rejc, lli, saved, half, gf, recode, owed, lost, used,
              checked, unheeded>>

BiasTypeOK ==
    /\ back \in BOOLEAN /\ begun \in BOOLEAN /\ bview \subseteq F
    /\ bias \in [F -> {"none", "good", "stale"}]
    /\ outc \in [F -> 0 .. MaxOut + 1] /\ rejc \in [F -> 0 .. 2]
    /\ lli \in [F -> {"none", "plain", "slip"}] /\ saved \in [F -> BOOLEAN] /\ half \in [F -> BOOLEAN]
    /\ gf \in {"none", "same", "moved"}
    /\ recode \in [Recv \X F -> {"new", "same", "other"}] /\ owed \in [Recv \X F -> BOOLEAN]
    /\ lost \in [F -> {"no", "yes", "blind"}]
    /\ used \subseteq F /\ checked \in BOOLEAN /\ unheeded \subseteq F

\* rtkinit
BiasInit ==
    /\ back \in BOOLEAN /\ begun = FALSE /\ bview = {}
    /\ bias = [f \in F |-> "none"] /\ outc = [f \in F |-> 0] /\ rejc = outc
    /\ lli = bias /\ saved = [f \in F |-> FALSE] /\ half = saved /\ gf = "none"
    /\ recode = [p \in Recv \X F |-> "new"] /\ owed = [p \in Recv \X F |-> FALSE]
    /\ lost = [f \in F |-> "no"] /\ used = {} /\ checked = FALSE /\ unheeded = {}

-----------------------------------------------------------------------------
(* What an epoch brings: the phases v that the receivers have, the base's     *)
(* those of the epoch before (again) or new ones, and at most one slip e: of   *)
(* phase e.at, since the receiver had it last (backwards: to the epoch it had  *)
(* it next), with its LLI flag, a change of the code (or back to the one       *)
(* before) or of the half-cycle flag of the base, or with nothing.            *)

NoSlip == [kind |-> "none", at |-> <<0, 0>>]

Tracked(v)  == {p \in Recv \X F : p[2] \in v[p[1]]}
New(again, p) == p[1] = 1 \/ ~again

Slips(v, again) ==
    {NoSlip} \cup
    {e \in [kind : {"lli", "code", "undone", "half", "silent"}, at : Tracked(v) \cap Slippery] :
        /\ New(again, e.at)
        /\ e.kind = "undone" => recode[e.at] = "other"
        /\ e.kind = "half" => e.at[1] = 2}

Flagged(e, p) == e = [kind |-> "lli", at |-> p]

\* Phases whose arc is another than in the epoch processed before.  Backwards a flag
\* speaks of the step to the next epoch that is processed.
Moved(v, again, e) ==
    {p \in Tracked(v) : IF back THEN (owed[p] /\ New(again, p)) \/ (e.at = p /\ e.kind # "lli")
                        ELSE e.at = p}
Slipped(v, again, e, f) == \E p \in Moved(v, again, e) : p[2] = f

\* the ambiguity and the geometry-free phase, by the epoch's arcs
AmbAged(v, again, e) ==
    [f \in F |-> IF bias[f] = "good" /\ Slipped(v, again, e, f) THEN "stale" ELSE bias[f]]
GfAged(v, again, e) == IF gf = "same" /\ Moved(v, again, e) # {} THEN "moved" ELSE gf

\* the epoch's flags
Owed(v, again, e) ==
    [p \in Recv \X F |-> back /\ IF p \in Tracked(v) /\ New(again, p) THEN Flagged(e, p) ELSE owed[p]]
Lli(v, again, e) ==
    [f \in F |-> IF again THEN lli[f] ELSE IF f \notin v[2] THEN "none"
                 ELSE IF Flagged(e, <<2, f>>) THEN "slip" ELSE "plain"]
Half(e) == [f \in F |-> half[f] # (e = [kind |-> "half", at |-> <<2, f>>])]
Recoded(e) ==
    [p \in Recv \X F |-> IF e.at # p \/ e.kind \notin {"code", "undone"} THEN recode[p]
                         ELSE IF e.kind = "undone" THEN "same"
                         ELSE IF recode[p] = "new" THEN "new" ELSE "other"]

\* detslp_ll: bit 1 of slip, of an observation of the base that pt does not have the time of
BaseTells(v, again, e, f) ==
    /\ Lli(v, again, e)[f] # "none"
    /\ Half(e)[f] \/ IF back /\ begun THEN saved[f] ELSE Lli(v, again, e)[f] = "slip"

\* Slips that the filter is never told of: without a flag, with one of the rover, or taken
\* back before it looks; and flags of the base that the base's next epoch replaces.
Untold(v, again, e) ==
    {p[2] : p \in {p \in Moved(v, again, e) :
        \/ back /\ owed[p] /\ (p[1] = 1 \/ ~saved[p[2]])
        \/ e.at = p /\ \/ e.kind \in {"silent", "undone"}
                       \/ e.kind = "lli" /\ p[1] = 1
                       \/ e.kind = "half" /\ ~Half(e)[p[2]]
                       \/ e.kind = "code" /\ Recoded(e)[p] # "other"}}
    \cup {f \in F : ~back /\ ~again /\ lli[f] = "slip"}

\* those and the frequencies fs
Lost(v, again, e, fs) ==
    [f \in F |-> IF f \in Untold(v, again, e) \cup fs /\ AmbAged(v, again, e)[f] = "stale"
                 THEN IF gf = "none" \/ lost[f] = "blind" THEN "blind" ELSE "yes"
                 ELSE lost[f]]

-----------------------------------------------------------------------------
(* Epochs.                                                                 *)

\* The arcs move on and the filter does not see the satellite.
Unseen(v, again, e) ==
    /\ bview' = v[2] /\ gf' = GfAged(v, again, e) /\ owed' = Owed(v, again, e)
    /\ half' = Half(e) /\ recode' = Recoded(e)
    /\ used' = {} /\ checked' = FALSE /\ unheeded' = {}
    /\ UNCHANGED <<back, saved, rejc>>

\* No observation that may be used, no position of the rover, no or too old data of the base
\* or no common satellite: procpos, rtkpos and relpos go no further than that.
EpochSkipped(v, again) ==
    \E e \in Slips(v, again) :
      /\ Unseen(v, again, e) /\ lli' = Lli(v, again, e) /\ begun' \in {begun, TRUE}
      /\ bias' = AmbAged(v, again, e) /\ lost' = Lost(v, again, e, {}) /\ UNCHANGED outc

\* the first loop of udbias over a frequency: every satellite's outage counter
Expired(f)   == outc[f] + 1 > MaxOut
Unexpired(b) == [f \in F |-> IF Expired(f) THEN "none" ELSE b[f]]
OutcNext     == [f \in F |-> IF Expired(f) THEN IF bias[f] = "none" THEN MaxOut + 1 ELSE 0
                              ELSE outc[f] + 1]

\* The filter runs on other satellites: the receivers do not have this one in common.  At its
\* end pt has the time of every phase: what the base's LLI said is passed over.
EpochWithout(v, again) ==
    \E e \in Slips(v, again) :
      LET passed == {f \in F : BaseTells(v, again, e, f)} IN
      /\ Unseen(v, again, e) /\ lli' = [f \in F |-> "none"] /\ begun' = TRUE
      /\ bias' = Unexpired(AmbAged(v, again, e)) /\ outc' = OutcNext
      /\ lost' = [f \in F |-> IF Expired(f) THEN "no" ELSE Lost(v, again, e, passed)[f]]

\* mutant: backwards, too, the flag of the epoch itself is taken
Told_Now(v, again, e) ==
    {f \in F : \/ \E r \in Recv : <<r, f>> \in Tracked(v) /\ Recoded(e)[<<r, f>>] = "other"
               \/ Lli(v, again, e)[f] = "slip" \/ (Lli(v, again, e)[f] # "none" /\ Half(e)[f])}

\* detslp_code and detslp_ll: bit 1 of slip[f]
Told(v, again, e) ==
    {f \in F : \/ \E r \in Recv : <<r, f>> \in Tracked(v) /\ Recoded(e)[<<r, f>>] = "other"
               \/ BaseTells(v, again, e, f)}

\* detslp_gf looks when no slip is told, s, and both frequencies are there at both receivers
Compared(v, s) == NF = 2 /\ s = {} /\ \A r \in Recv : v[r] = F

\* the phase-biases but for those that start anew or expire
Carried(v, again, e, anew) ==
    [f \in F |-> IF f \in anew THEN "none" ELSE Unexpired(AmbAged(v, again, e))[f]]

\* The filter with the satellite, slips told at the frequencies told.  codes: those whose codes
\* both receivers have as well; bad: phases that every call of ddres rejects, those without a
\* phase-bias among them; ok: the float solution is valid, and codes in it (vsat).
Filtered(v, again, e, told) ==
    LET both == v[1] \cap v[2]
        llis == Lli(v, again, e)
        gfs  == GfAged(v, again, e)
        slip == IF Compared(v, told) /\ gfs = "moved" THEN F ELSE told
        anew == slip \cup {f \in F : rejc[f] >= 2}
        kept == Carried(v, again, e, anew)
    IN
    /\ lli' = [f \in F |-> "none"]
    /\ saved' = [f \in F |-> back /\ IF llis[f] = "none" THEN saved[f] ELSE llis[f] = "slip"]
    /\ half' = [f \in F |-> llis[f] = "none" /\ Half(e)[f]]
    /\ recode' = [p \in Recv \X F |-> IF p \in Tracked(v) THEN "same" ELSE Recoded(e)[p]]
    /\ gf' = IF Compared(v, told) THEN "same" ELSE gfs
    /\ owed' = Owed(v, again, e) /\ bview' = v[2] /\ begun' = TRUE
    /\ lost' = [f \in F |-> IF kept[f] = "none" THEN "no" ELSE Lost(v, again, e, {})[f]]
    /\ UNCHANGED back
    /\ \E codes \in SUBSET both :
         /\ bias' = [f \in F |-> IF f \in codes /\ kept[f] = "none" THEN "good" ELSE kept[f]]
         /\ \E bad \in SUBSET both, ok \in BOOLEAN :
              /\ \A f \in both : bias'[f] = "none" => f \in bad
              /\ rejc' = [f \in F |-> LET n == (IF f \in anew THEN 0 ELSE rejc[f]) + (IF f \in bad THEN Passes ELSE 0)
                                      IN  IF n > 2 THEN 2 ELSE n]
              /\ outc' = [f \in F |-> IF ok /\ f \in codes THEN 0 ELSE OutcNext[f]]
              /\ used' = IF ok THEN {f \in both \ bad : bias'[f] = "stale"} ELSE {}
              /\ checked' = (Compared(v, told) /\ used' # {})
              /\ unheeded' = {f \in used' : \E r \in Recv : Flagged(e, <<r, f>>)}

\* The satellite is one of the common ones.  dop: phases of the base that detslp_dop finds to
\* have slipped.
EpochIn(v, again) ==
    \E e \in Slips(v, again) :
    \E dop \in SUBSET {f \in F : Doppler /\ Lli(v, again, e)[f] # "none"} :
      Filtered(v, again, e, Told(v, again, e) \cup dop)

BiasNext ==
    \E v \in Views, again \in BOOLEAN :
      /\ again => v[2] = bview
      /\ EpochSkipped(v, again) \/ EpochWithout(v, again) \/ EpochIn(v, again)

BiasSpec == BiasInit /\ [][BiasNext]_biasVars

-----------------------------------------------------------------------------
(* Whatever the receivers lose and whichever epochs the filter leaves out or  *)
(* is given twice, a phase is fitted with the ambiguity of earlier arcs only   *)
(* after a slip that it was never told of: one without a flag, one flagged by  *)
(* the rover, a change of the code or of the half-cycle flag undone before it  *)
(* looked, or a flag of the base that it passed over; and once both            *)
(* frequencies are compared and no slip is told, only if no geometry-free      *)
(* phase had been kept when it slipped (udbias, detslp_code, detslp_ll,        *)
(* detslp_gf).                                                              *)
BiasInv ==
    /\ BiasTypeOK
    /\ \A f \in used : lost[f] # "no"
    /\ checked => \A f \in used : lost[f] = "blind"

(* What the comments say of the LLI: a flag of an observation that the filter  *)
(* processes forwards resets the phase-bias (udbias, detslp_ll).              *)
FlagsHeeded == ~back => unheeded = {}
=============================================================================
