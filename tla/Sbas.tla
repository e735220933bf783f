-------------------------------- MODULE Sbas --------------------------------
(***************************************************************************)
(* SBAS corrections (src/src/data/mrtk_sbas.c).  A mask message names the    *)
(* satellites that are corrected; the others speak of them by their place in  *)
(* the mask and repeat its issue (IODP).  The grid of ionospheric delays is   *)
(* sent in the same way (with an IODI), of points.  The code keeps the two    *)
(* apart; a behaviour is about one of them ("part").  In a second at most one *)
(* message comes, and any of them may be lost.                               *)
(***************************************************************************)
EXTENDS Integers, Sequences, SequencesExt

CONSTANTS
    Geos,        \* the satellites that broadcast corrections
    SbasSel,     \* opt.sbassatsel: the one that is listened to; 0 is any
    SatMasks,    \* for each of them the masks of satellites it sends, one after another
    GridMasks,   \* and those of grid points
    Corners,     \* the four grid points around the one looked for
    Watched,     \* a satellite that may have to be taken out of use
    BlockLen,    \* corrections in a message of fast corrections (13), or of delays (15)
    HalfLen,     \* in the fast part of a mixed message (6)
    Halves,      \* the places that half a message of long-term corrections may speak of
    IodpMod, IodfMod,  \* the issues that there are: 4 and 3
    Latencies,   \* values of tlat
    MaxAgeFast,  \* MAXSBSAGEF
    MaxAgeLong,  \* MAXSBSAGEL
    NoOne        \* not a satellite

ASSUME SbasAssumption ==
    /\ 0 \notin Geos
    /\ \A g \in Geos : \A sent \in {SatMasks[g], GridMasks[g]} :
          /\ sent \in Seq(Range(sent)) \ {<<>>}
          /\ \A k \in DOMAIN sent : sent[k] \in Seq(Range(sent[k])) /\ NoOne \notin Range(sent[k])
    /\ IodpMod \in Nat \ {0} /\ IodfMod \in Nat \ {0} /\ Latencies \subseteq Nat
    /\ MaxAgeFast \in Nat /\ MaxAgeLong \in Nat

Places == UNION {DOMAIN m : m \in UNION {Range(SatMasks[g]) \cup Range(GridMasks[g]) : g \in Geos}}
BlockOf(j) == (j - 1) \div BlockLen
Blocks == {BlockOf(j) : j \in Places}
Unset  == -1   \* the age of what has not come

VARIABLES
    part,          \* "sat" or "grid"
    inforce,       \* which of its masks each satellite has in force
    iodfs,         \* the issue of the fast corrections it sent last, for each block
    unsafe,        \* for how long Watched has had to be out of use, or Unset
    iodp, names,   \* sbssat.iodp and sat[].sat, as far as nsat; sbsion.iodi and igp[]
    fast,          \* sat[].fcorr; the delays, igp[]
    long,          \* sat[].lcorr
    tlat
sbasVars == <<part, inforce, iodfs, unsafe, iodp, names, fast, long, tlat>>

\* Of a correction: the satellite it was sent for, the one its place named when it came, and
\* the one of the message that last said whether it may be used ("ok").
NoFast == [of |-> NoOne, at |-> NoOne, told |-> NoOne, ok |-> TRUE, iodf |-> 0, age |-> Unset]
NoLong == [of |-> NoOne, at |-> NoOne, age |-> Unset]

SbasInit ==
    /\ part \in {"sat", "grid"}
    /\ inforce = [g \in Geos |-> 1] /\ iodfs = [g \in Geos |-> [b \in Blocks |-> 0]] /\ unsafe = Unset
    /\ iodp = 0 /\ names = <<>> /\ tlat = 0
    /\ fast = [j \in Places |-> NoFast] /\ long = [j \in Places |-> NoLong]

OneSecondOn(c) == [c EXCEPT !.age = IF @ \in 0 .. MaxAgeLong THEN @ + 1 ELSE @]
OldFast == [j \in Places |-> OneSecondOn(fast[j])]
OldLong == [j \in Places |-> OneSecondOn(long[j])]
Name(s, j) == IF j \in DOMAIN s THEN s[j] ELSE NoOne

-----------------------------------------------------------------------------
(* What a satellite sends.                                                   *)

Masks(g)   == IF part = "sat" THEN SatMasks[g] ELSE GridMasks[g]
Current(g) == Masks(g)[inforce[g]]
Issue(g)   == (inforce[g] - 1) % IodpMod
Fit(g, j)  == unsafe = Unset \/ Name(Current(g), j) # Watched
NextIodf(g, b) == (iodfs[g][b] + 1) % IodfMod
Used(g) == {BlockOf(j) : j \in DOMAIN Current(g)}   \* the blocks that its mask takes

\* update_sbs gives sbsupdatecorr the messages of the selected satellite
Listens(g) == SbasSel \in {0, g}

\* decode_sbstype1 and 18: the places get other names and keep what they hold
Mask(g) ==
    /\ names' = Current(g) /\ iodp' = Issue(g)
    /\ fast' = OldFast /\ long' = OldLong
    /\ UNCHANGED <<iodfs, tlat>>

\* The first n corrections of a block
Block(g, b, n) ==
    [j \in Places |->
       IF BlockOf(j) = b /\ j - b * BlockLen <= n /\ j \in DOMAIN names
       THEN [of |-> Name(Current(g), j), at |-> names[j], told |-> Name(Current(g), j),
             ok |-> Fit(g, j), iodf |-> NextIodf(g, b), age |-> 0]
       ELSE OldFast[j]]

\* decode_longcorr0 and 1: a half ends at the first place that is 0, and the message with it
Spoken(places) == {places[k] : k \in {i \in DOMAIN places : \A h \in 1 .. i : places[h] # 0}}
LongTerm(g, places) ==
    [j \in Places |->
       IF j \in Spoken(places)
       THEN [of |-> Name(Current(g), j), at |-> Name(names, j), age |-> 0] ELSE OldLong[j]]

\* mutant: a block is decoded whatever mask it is for
Fast_AnyIssue(g, b, received) ==
    /\ fast' = IF received THEN Block(g, b, BlockLen) ELSE OldFast
    /\ long' = OldLong
    /\ iodfs' = [iodfs EXCEPT ![g][b] = NextIodf(g, b)]
    /\ UNCHANGED <<iodp, names, tlat>>

\* decode_sbstype2
Fast(g, b, received) ==
    /\ fast' = IF received /\ iodp = Issue(g) THEN Block(g, b, BlockLen) ELSE OldFast
    /\ long' = OldLong
    /\ iodfs' = [iodfs EXCEPT ![g][b] = NextIodf(g, b)]
    /\ UNCHANGED <<iodp, names, tlat>>

\* decode_sbstype26: delays have no issue of their own
Delays(g, b) ==
    /\ fast' = IF iodp = Issue(g)
               THEN [j \in Places |-> [Block(g, b, BlockLen)[j] EXCEPT !.iodf = 0]] ELSE OldFast
    /\ long' = OldLong
    /\ UNCHANGED <<iodfs, iodp, names, tlat>>

\* decode_sbstype24: fast corrections, and half a message of long-term ones
MixedMsg(g, b) ==
    /\ \E h \in Halves :
         IF iodp = Issue(g)
         THEN fast' = Block(g, b, HalfLen) /\ long' = LongTerm(g, h)
         ELSE fast' = OldFast /\ long' = OldLong
    /\ iodfs' = [iodfs EXCEPT ![g][b] = NextIodf(g, b)]
    /\ UNCHANGED <<iodp, names, tlat>>

\* decode_sbstype25
Long(g) ==
    /\ \E h \in Halves, i \in Halves :
         long' = IF iodp = Issue(g) THEN LongTerm(g, h \o i) ELSE OldLong
    /\ fast' = OldFast
    /\ UNCHANGED <<iodfs, iodp, names, tlat>>

\* decode_sbstype6: it has no IODP; what tells the places is the issue of their correction
Integrity(g) ==
    /\ fast' = [j \in Places |->
                  IF j \in DOMAIN names /\ fast[j].iodf = iodfs[g][BlockOf(j)]
                  THEN [OldFast[j] EXCEPT !.ok = Fit(g, j), !.told = Name(Current(g), j)]
                  ELSE OldFast[j]]
    /\ long' = OldLong
    /\ UNCHANGED <<iodfs, iodp, names, tlat>>

\* decode_sbstype7
Degradation(g) ==
    /\ \E l \in Latencies : tlat' = IF iodp = Issue(g) THEN l ELSE tlat
    /\ fast' = OldFast /\ long' = OldLong
    /\ UNCHANGED <<iodfs, iodp, names>>

\* A second without a message, or with one that was lost and leaves no trace, or that
\* nobody listens to
Nothing == fast' = OldFast /\ long' = OldLong /\ UNCHANGED <<iodfs, iodp, names, tlat>>

SbasSecond ==
    /\ \/ Nothing
       \/ \E g \in Geos :
            /\ Listens(g)
            /\ \/ Mask(g)
               \/ part = "grid" /\ \E b \in Used(g) : Delays(g, b)
               \/ /\ part = "sat"
                  /\ \/ \E b \in Used(g) : (\E r \in BOOLEAN : Fast(g, b, r)) \/ MixedMsg(g, b)
                     \/ Long(g) \/ Integrity(g) \/ Degradation(g)
    /\ unsafe' = IF unsafe \in 0 .. MaxAgeLong THEN unsafe + 1 ELSE unsafe
    /\ UNCHANGED <<part, inforce>>

\* A satellite takes its next mask into use
MaskChanges(g) ==
    /\ inforce[g] < Len(Masks(g))
    /\ inforce' = [inforce EXCEPT ![g] = @ + 1]
    /\ UNCHANGED <<part, iodfs, unsafe, iodp, names, fast, long, tlat>>

\* Watched must no longer be used, or may be again
FitnessChanges ==
    /\ part = "sat"
    /\ unsafe' = IF unsafe = Unset THEN 0 ELSE Unset
    /\ UNCHANGED <<part, inforce, iodfs, iodp, names, fast, long, tlat>>

SbasNext == SbasSecond \/ (\E g \in Geos : MaskChanges(g)) \/ FitnessChanges
SbasSpec == SbasInit /\ [][SbasNext]_sbasVars

-----------------------------------------------------------------------------
(* What is used.                                                            *)

\* sbsfastcorr and sbslongcorr, of the place that satpos_sbas finds
FastUsed(j) == fast[j].age # Unset /\ fast[j].ok /\ fast[j].age + tlat <= MaxAgeFast
LongUsed(j) == long[j].age \in 0 .. MaxAgeLong
Corrected(j) == part = "sat" /\ j \in DOMAIN names /\ FastUsed(j) /\ LongUsed(j)

\* searchigp and sbsioncorr: a delay takes three corners
Corner(j) == j \in DOMAIN names /\ names[j] \in Corners /\ fast[j].age # Unset /\ fast[j].ok
Delay(j)  == part = "grid" /\ Corner(j) /\ \E i, k \in Places \ {j} : i # k /\ Corner(i) /\ Corner(k)

\* A correction was sent for what it is used for, or its place has got another name since.
Belongs(c, j) == c.of = names[j] \/ c.at # names[j]

\* A satellite that has to be taken out of use is used at most until the correction that it
\* had before then ends by its age, whatever was lost.  Excepted is one whose word on its use
\* was meant for another satellite.
OutOfUse(j) ==
    names[j] = Watched /\ fast[j].told = Watched =>
        unsafe <= fast[j].age /\ unsafe <= MaxAgeFast

SbasInv ==
    \A j \in Places :
        /\ Corrected(j) => Belongs(fast[j], j) /\ Belongs(long[j], j) /\ OutOfUse(j)
        /\ Delay(j) => Belongs(fast[j], j)
=============================================================================
