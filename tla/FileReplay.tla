----------------------------- MODULE FileReplay -----------------------------
(***************************************************************************)
(* Two recorded files that are read by their time tags (openfile_,          *)
(* readfile and syncfile of src/src/stream/mrtk_stream.c).  A tag says when *)
(* a record was written and where it ends; two may name one place, and the  *)
(* data file may be cut short.  File 1 follows the clock; file 2 does too,  *)
(* or, synchronised, follows file 1.                                        *)
(***************************************************************************)
EXTENDS Integers, Sequences, FiniteSetsExt

CONSTANTS Tags,    \* Tags[f]: <<[tick |-> .., fpos |-> ..], ...>>, in ticks since the recording began
          Length,  \* Length[f]: bytes of the data file, perhaps more or fewer than the tags tell
          TickFs, Starts, Speeds,  \* values of tick_f, start and speed
          Asked,   \* byte counts the server asks for
          MaxClock \* bound: the clock stops here

Files == {1, 2}

ASSUME FileReplayAssumption ==
    /\ \A f \in Files :
          /\ Tags[f] \in Seq([tick : Nat, fpos : Nat]) /\ Length[f] \in Nat
          /\ \A k \in DOMAIN Tags[f] :
                \A j \in 1 .. k - 1 : /\ Tags[f][j].tick <= Tags[f][k].tick
                                      /\ Tags[f][j].fpos <= Tags[f][k].fpos
    /\ TickFs \subseteq Nat /\ Starts \subseteq Nat /\ Speeds \subseteq Nat
    /\ Asked \subseteq Nat \ {0} /\ MaxClock \in Nat

VARIABLES clock,       \* tickget() since the files were opened
          tickF, start, speed, sync,  \* of file_t, from the header and the path
          tickMaster,  \* tick_master
          tag,         \* tags read
          fposN,       \* fpos_n: up to where data may be returned
          pos,         \* ftell(fp)
          turn,        \* the file the server reads next
          began,       \* when the server began its cycle
          upto         \* the begin of the cycle in which less came than was asked for

replayVars == <<clock, tickF, start, speed, sync, tickMaster, tag, fposN, pos, turn, began, upto>>

\* openfile for both, then strsync if the server synchronises them
ReplayInit ==
    /\ clock = 0 /\ tickMaster = 0 /\ turn = 1 /\ began = 0
    /\ tickF \in [Files -> TickFs] /\ start \in Starts /\ speed \in Speeds /\ sync \in BOOLEAN
    /\ tag = [f \in Files |-> 0] /\ fposN = tag /\ pos = tag
    /\ upto = [f \in Files |-> -1]

\* mutant: the recording that began later is played earlier
Offset_Swapped == tickF[2] - tickF[1]

\* syncfile
Offset == tickF[1] - tickF[2]

Slave(f) == sync /\ f = 2

Played(c) == c * speed + start

TickOf(f, k) == IF k = 0 THEN 0 ELSE Tags[f][k].tick
End(f, k)    == IF k = 0 THEN 0 ELSE Tags[f][k].fpos

\* mutant: at the end of the tags nothing more is allowed
Sought_NoRest(f, t) ==
    LET later == {k \in tag[f] .. Len(Tags[f]) : TickOf(f, k) > t}
    IN IF later = {} THEN [tag |-> Len(Tags[f]), fpos |-> fposN[f]]
       ELSE [tag |-> Min(later), fpos |-> End(f, Min(later))]

\* readfile's loop: to the first tag later than t, and at the end to the end
\* of the data
Sought(f, t) ==
    LET later == {k \in tag[f] .. Len(Tags[f]) : TickOf(f, k) > t}
    IN IF later = {} THEN [tag |-> Len(Tags[f]), fpos |-> Length[f]]
       ELSE [tag |-> Min(later), fpos |-> End(f, Min(later))]

ReadFile(n) ==
    LET f == turn
        t == IF Slave(f) THEN tickMaster + Offset ELSE Played(clock)
        s == Sought(f, t)
        there == Min({s.fpos, Length[f]})
        nr == Max({0, Min({n, there - pos[f]})})
        cycle == IF f = 1 THEN clock ELSE began
    IN /\ tickMaster' = IF Slave(f) THEN tickMaster ELSE t
       /\ tag' = [tag EXCEPT ![f] = s.tag]
       /\ fposN' = [fposN EXCEPT ![f] = s.fpos]
       /\ pos' = [pos EXCEPT ![f] = @ + nr]
       /\ began' = cycle
       /\ upto' = [upto EXCEPT ![f] = IF nr < n THEN cycle ELSE @]
       /\ turn' = 3 - f
       /\ UNCHANGED <<clock, tickF, start, speed, sync>>

TickOn == /\ clock < MaxClock
          /\ clock' = clock + 1
          /\ UNCHANGED <<tickF, start, speed, sync, tickMaster, tag, fposN, pos, turn, began, upto>>

ReplayNext == (\E n \in Asked : ReadFile(n)) \/ TickOn

-----------------------------------------------------------------------------
\* The time of day, on the recorder's clock, that is played when the clock is
\* c: both files play the same if they are synchronised.
TimeOfDay(f, c) == Played(c) + (IF sync THEN tickF[1] ELSE tickF[f])
Recorded(f, k)  == tickF[f] + TickOf(f, k)

\* Nothing comes early: what was recorded after a record is returned only when
\* the time of that record has been reached, in both files on one clock.  (Its own
\* time may still be ahead: readfile gives out the record of the first tag that is
\* later than the clock.)
NotEarly == \A f \in Files : \A k \in 0 .. Len(Tags[f]) :
                pos[f] > End(f, k) => Recorded(f, k) <= TimeOfDay(f, clock)

\* What the data file has of record k ends here.
Given(f, k) == Min({End(f, k), Length[f]})

\* Nothing comes late: a read that returned less than asked for has returned
\* every record whose time had been reached when the cycle began, as far as the
\* data file has it.
NotLate == \A f \in Files : \A k \in 1 .. Len(Tags[f]) :
                upto[f] >= 0 /\ Recorded(f, k) <= TimeOfDay(f, upto[f]) => pos[f] >= Given(f, k)

InTime == NotEarly /\ NotLate

Over == \A f \in Files : pos[f] = Length[f]
=============================================================================
