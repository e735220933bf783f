------------------------------ MODULE ClasRoute ------------------------------
(***************************************************************************)
(* L6 frames of several QZSS satellites that come interleaved from one      *)
(* receiver: the choice of the CLAS channel (clas_route_l6frame) and the    *)
(* assembly of subframes in it (clas_input_cssr of                          *)
(* src/src/clas/mrtk_clas.c), as decoderaw of                               *)
(* src/src/stream/mrtk_rtksvr.c calls them.                                 *)
(*                                                                         *)
(* Every satellite sends one frame a second; frames are lost and satellites *)
(* set.  Time is that of the rover, which is not known at first.            *)
(***************************************************************************)
EXTENDS Integers, Sequences, SequencesExt, FiniteSetsExt

CONSTANTS
    QzsPrns,   \* satellites
    Ptn,       \* Ptn[p]: transmit pattern of satellite p
    Offset,    \* Offset[p]: how far its subframes are ahead of the others'
    NSub,      \* frames of a subframe sequence, the first has the indicator (5 in the code)
    Relock,    \* CLAS_L6_RELOCK_TIMEOUT (10 s)
    NoPrn      \* no satellite

ASSUME RouteAssumption ==
    /\ NSub \in Nat \ {0} /\ Relock \in Nat /\ NoPrn \notin QzsPrns
    /\ Offset \in [QzsPrns -> Nat]

Ch == {0, 1}

VARIABLES
    l6mrg,   \* TRUE: a channel for each pattern
    known,   \* the rover has a time
    l6lock,    \* l6lock[ch]: l6delivery, l6pattern and the age of l6lock_time
    frames,  \* frames[ch]: l6buf[ch], the frames put together: [prn, timed: the rover had a time]
    started, \* started[ch]: decode_start
    pos,     \* seconds modulo NSub
    due,     \* satellites whose frame of this second may still come
    heard,   \* heard[p]: time since the last frame of p that came with a time
    up       \* satellites that have not set

routeVars == <<l6mrg, known, l6lock, frames, started, pos, due, heard, up>>

Over     == Relock + 1
Grow(t)  == IF t < Over THEN t + 1 ELSE t
Free     == [prn |-> NoPrn, ptn |-> 0, age |-> Over]

RouteInit ==
    /\ l6mrg \in BOOLEAN /\ known = FALSE
    /\ l6lock = [ch \in Ch |-> Free]
    /\ frames = [ch \in Ch |-> <<>>] /\ started = [ch \in Ch |-> FALSE]
    /\ pos = 0 /\ due = QzsPrns /\ up = QzsPrns
    /\ heard = [p \in QzsPrns |-> Over]

\* mutant: a frame that is dropped refreshes the lock
Route_DropRefreshes(p) ==
    LET nch  == IF l6mrg THEN Ch ELSE {0}
        mine == {ch \in nch : l6lock[ch].prn = p}
        same == {ch \in nch : l6lock[ch].ptn = Ptn[p]}
        free == {ch \in nch : l6lock[ch].ptn = 0}
        target == IF ~l6mrg THEN {0} ELSE IF same # {} THEN {Min(same)}
                  ELSE IF free # {} THEN {Min(free)} ELSE {}
    IN IF mine # {} THEN {Min(mine)}
       ELSE {ch \in target : l6lock[ch].prn = NoPrn}

\* mutant: the age of the lock is not looked at
Route_Steals(p) ==
    LET nch  == IF l6mrg THEN Ch ELSE {0}
        mine == {ch \in nch : l6lock[ch].prn = p}
        same == {ch \in nch : l6lock[ch].ptn = Ptn[p]}
        free == {ch \in nch : l6lock[ch].ptn = 0}
        target == IF ~l6mrg THEN {0} ELSE IF same # {} THEN {Min(same)}
                  ELSE IF free # {} THEN {Min(free)} ELSE {}
    IN IF mine # {} THEN {Min(mine)}
       ELSE {ch \in target : l6lock[ch].prn = NoPrn \/ l6lock[ch].age >= Relock}

\* clas_route_l6frame: the channel this satellite has; else the one for its
\* pattern, if that is free or its satellite silent for too long; else none.
Route(p) ==
    LET nch  == IF l6mrg THEN Ch ELSE {0}
        mine == {ch \in nch : l6lock[ch].prn = p}
        same == {ch \in nch : l6lock[ch].ptn = Ptn[p]}
        free == {ch \in nch : l6lock[ch].ptn = 0}
        target == IF ~l6mrg THEN {0} ELSE IF same # {} THEN {Min(same)}
                  ELSE IF free # {} THEN {Min(free)} ELSE {}
    IN IF mine # {} THEN {Min(mine)}
       ELSE {ch \in target : l6lock[ch].prn = NoPrn \/ l6lock[ch].age > Relock}

\* clas_input_cssr: a frame with the indicator begins a sequence; another one
\* is appended, whatever came before it, until there are NSub.
InputCssr(ch, p) ==
    LET head == (pos + Offset[p]) % NSub = 0
        frame == [prn |-> p, timed |-> known]
    IN  /\ started' = [started EXCEPT ![ch] = @ \/ head]
        /\ frames' = [frames EXCEPT ![ch] =
             IF head THEN <<frame>>
             ELSE IF started[ch] /\ Len(@) < NSub THEN Append(@, frame) ELSE @]

\* A frame of p comes.  Without a time the lock is as old as can be.
Frame(p) ==
    /\ p \in due \cap up /\ due' = due \ {p}
    /\ heard' = [heard EXCEPT ![p] = IF known THEN 0 ELSE @]
    /\ IF Route(p) = {} THEN UNCHANGED <<l6lock, frames, started>>
       ELSE \E ch \in Route(p) :
              /\ l6lock' = [l6lock EXCEPT ![ch] =
                   [prn |-> p, ptn |-> IF @.prn = p THEN @.ptn ELSE Ptn[p],
                    age |-> IF known THEN 0 ELSE Over]]
              /\ InputCssr(ch, p)
    /\ UNCHANGED <<l6mrg, known, pos, up>>

RouteSecond ==
    /\ pos' = (pos + 1) % NSub /\ due' = QzsPrns
    /\ l6lock' = [ch \in Ch |-> [l6lock[ch] EXCEPT !.age = Grow(@)]]
    /\ heard' = [p \in QzsPrns |-> Grow(heard[p])]
    /\ UNCHANGED <<l6mrg, known, frames, started, up>>

RoverTime == ~known /\ known' = TRUE
             /\ UNCHANGED <<l6mrg, l6lock, frames, started, pos, due, heard, up>>

Sets(p) == p \in up /\ up' = up \ {p}
           /\ UNCHANGED <<l6mrg, known, l6lock, frames, started, pos, due, heard>>

RouteNext == (\E p \in QzsPrns : Frame(p) \/ Sets(p)) \/ RouteSecond \/ RoverTime

RouteSpec == RouteInit /\ [][RouteNext]_routeVars

-----------------------------------------------------------------------------
\* No satellite has both channels.
ChannelsApart == l6lock[0].prn = l6lock[1].prn => l6lock[0].prn = NoPrn

\* The channels never have the same satellite, and once the rover has a time a channel
\* passes to another one only after its own has been silent for longer than the
\* timeout: interleaved frames of other satellites, which keep coming, do not get in.
OneSource ==
    [][/\ ChannelsApart'
       /\ \A ch \in Ch : l6lock'[ch].prn \notin {l6lock[ch].prn, NoPrn} /\ l6lock[ch].prn # NoPrn
                      => heard[l6lock[ch].prn] > Relock]_routeVars

HasChannel(p) == \E ch \in Ch : l6lock[ch].prn = p

\* "keeping each channel locked to a single active PRN so subframe assembly
\* stays coherent across a satellite handover": frames put together are of one
\* satellite, those that came before the rover had a time set aside.
Coherent ==
    \A ch \in Ch : \A f, g \in Range(frames[ch]) : f.timed /\ g.timed => f.prn = g.prn
=============================================================================
