------------------------------ MODULE RtcmLink ------------------------------
(***************************************************************************)
(* The messages of StrConv on their way to a receiver: some are lost, the   *)
(* others are decoded (save_msm_obs, adjweek, adjday_glot and lossoflock of *)
(* src/src/rtcm/mrtk_rtcm3.c).  The message carries only a part of its time *)
(* and the decoder completes it; a cleared sync bit ends the epoch; a slip  *)
(* of the carrier phase travels as a lock time that begins again.           *)
(***************************************************************************)
EXTENDS StrConv

CONSTANTS
    Week, Day,   \* ticks of a week and of a day
    Daily,       \* systems whose messages give the time of day (GLONASS)
    Epochs,      \* what may be observed: per system [n, nsig]
    FirstError,  \* how far the decoder's first time may be from the true one
    MaxSilence,  \* bound: the longest time without a message that arrives
    AgeCap,      \* bound: lock times and ages are not told apart from here on
    Watched,     \* the system whose first satellite's carrier phase is followed
    WatchedPrn   \* the satellite whose ephemerides are followed

ASSUME LinkAssumption ==
    /\ Day \in Nat \ {0} /\ Week \in Nat \ {0} /\ Week % Day = 0
    /\ FirstError \in Nat /\ MaxSilence \in Nat /\ AgeCap \in Nat \ {0}
    /\ Epochs \subseteq [Systems -> SysObs] /\ Watched \in Systems
    /\ \A i \in DOMAIN ObsMsgs : ObsMsgs[i].tint # 0 => Week % ObsMsgs[i].tint = 0

VARIABLES
    lossy,  \* the link loses messages
    nxt,    \* the message sent next, 0: the epoch is not written yet
    lost, filled,   \* of this epoch: one was lost; one with satellites arrived
    err,    \* rtcm->time of the decoder minus the true time
    obs,    \* its rtcm->obs: <<system, satellite, age>>, the age in true time
    first,  \* the age of obs.data[0]
    flag,   \* its rtcm->obsflag
    ret,    \* what the last message returned
    lltime, \* the encoder's lock time of the watched satellite
    lock,   \* the decoder's
    owed,   \* a slip the receiver has not heard of
    missed  \* one it was not told with the next observation

linkVars == <<lossy, nxt, lost, filled, err, obs, first, flag, ret, lltime, lock, owed, missed>>

LinkInit ==
    /\ lossy \in BOOLEAN /\ nxt = 0 /\ lost = FALSE /\ filled = FALSE
    /\ err \in -FirstError .. FirstError
    /\ obs = {} /\ first = 0 /\ flag = FALSE /\ ret = 0
    /\ lltime = AgeCap /\ lock = 0 /\ owed = FALSE /\ missed = FALSE

Older(a) == IF a < AgeCap THEN a + 1 ELSE AgeCap

\* A tick later a new epoch may be observed.
Advance ==
    /\ nxt > Len(out) /\ err > -MaxSilence
    /\ now' = (now + 1) % Week /\ err' = err - 1
    /\ obs' = {<<o[1], o[2], Older(o[3])>> : o \in obs} /\ first' = Older(first)
    /\ lltime' = Older(lltime)
    /\ nxt' = 0 /\ lost' = FALSE /\ filled' = FALSE /\ ret' = 0
    /\ UNCHANGED <<valid, ephsat, tick, epoch, out, nav, lossy, flag, lock, owed, missed>>

\* locktime_d of src/src/rtcm/mrtk_rtcm3e.c, in the first message of the epoch
LockTime(slip) == IF slip THEN 0 ELSE lltime

Observe ==
    /\ nxt = 0 /\ nxt' = 1
    /\ epoch' \in Epochs /\ WriteObs
    /\ \E slip \in BOOLEAN :
          /\ slip => epoch'[Watched].n > 0
          /\ lltime' = LockTime(slip) /\ owed' = (owed \/ slip)
    /\ UNCHANGED <<lossy, lost, filled, err, obs, first, flag, ret, lock, missed>>

\* adjweek: the time next to the decoder's that ends as the message says
Adjusted(e, span) ==
    LET v == now % span
        p == (now + e) % span
    IN e + v - p + (CASE 2 * v < 2 * p - span -> span
                      [] 2 * v > 2 * p + span -> -span
                      [] OTHER -> 0)

\* adjday_glot, for a message that gives the time of the day only
AdjdayGlot(e) == Adjusted(e, Day)

\* decode_msm_head: the day of the week in a GLONASS message is not looked at
DecodeMsmHead(m, e) == IF ObsMsgs[m.i].sys \in Daily THEN AdjdayGlot(e) ELSE Adjusted(e, Week)

\* mutant: obs of another time stay
Saved_Mixes(m, e) ==
    LET s    == ObsMsgs[m.i].sys
        new  == {<<s, k>> : k \in m.from .. m.to}
        keep == IF new # {} /\ flag THEN {} ELSE obs
        old  == {<<o[1], o[2]>> : o \in keep}
    IN [obs |-> keep \cup {<<x[1], x[2], -e>> : x \in new \ old},
        first |-> IF keep = {} /\ new # {} THEN -e ELSE first]

\* save_msm_obs: the first satellite clears what is complete or of another time
Saved(m, e) ==
    LET s    == ObsMsgs[m.i].sys
        new  == {<<s, k>> : k \in m.from .. m.to}
        keep == IF new # {} /\ (flag \/ (obs # {} /\ first # -e)) THEN {} ELSE obs
        old  == {<<o[1], o[2]>> : o \in keep}
    IN [obs |-> keep \cup {<<x[1], x[2], -e>> : x \in new \ old},
        first |-> IF keep = {} /\ new # {} THEN -e ELSE first]

\* mutant: only a lock time that decreases counts
LossOfLock_Less(l) == l < lock

\* lossoflock
LossOfLock(l) == (l = 0 /\ lock = 0) \/ l < lock

Carries(m) == ObsMsgs[m.i].sys = Watched /\ 1 \in m.from .. m.to

\* decode_msm4 to decode_msm7
Deliver ==
    /\ nxt \in 1 .. Len(out)
    /\ LET m == out[nxt]
           e == DecodeMsmHead(m, err)
           r == Saved(m, e)
       IN /\ err' = e
          /\ obs' = r.obs /\ first' = r.first
          /\ flag' = ~m.sync /\ ret' = IF m.sync THEN 0 ELSE 1
          /\ filled' = (filled \/ m.to >= m.from)
          /\ IF Carries(m)
             THEN /\ lock' = lltime /\ owed' = FALSE
                  /\ missed' = (owed /\ ~LossOfLock(lltime))
             ELSE UNCHANGED <<lock, owed, missed>>
    /\ nxt' = nxt + 1
    /\ UNCHANGED <<vars, lossy, lost, lltime>>

\* A message whose parity is wrong is ignored, one that is not there too.
Lose ==
    /\ nxt \in 1 .. Len(out) /\ lossy
    /\ nxt = Len(out) => err > -MaxSilence
    /\ nxt' = nxt + 1 /\ lost' = TRUE /\ ret' = 0
    /\ UNCHANGED <<vars, lossy, filled, err, obs, first, flag, lltime, lock, owed, missed>>

LinkNext == Advance \/ Observe \/ Deliver \/ Lose

-----------------------------------------------------------------------------
DueSystems == {ObsMsgs[i].sys : i \in {k \in DOMAIN ObsMsgs : Due(k)}}
SentObs == UNION {{<<s, k, 0>> : k \in 1 .. epoch[s].n} : s \in DueSystems}

\* What is returned as an epoch is of one time, and of this one if a satellite
\* of it came at all; without losses it is all that was sent, and it is
\* returned with the last message and no other.
EpochArrives ==
    ret = 1 => /\ \A o, p \in obs : o[3] = p[3]
               /\ filled => \A o \in obs : o[3] = 0
               /\ filled /\ ~lost => obs = SentObs /\ nxt > Len(out)
EpochEnds == nxt > Len(out) /\ ~lost /\ out # <<>> => ret = 1
\* A receiver that gets every message hears of every slip with the next
\* observation of the satellite.
SlipTold == missed => lossy

\* "time in rtcm control struct has to be set to the approximate time within
\* 1/2 week": then the first message gives the right time.
TimeResolved == filled => err = 0

\* Together: what is received is what was sent, at the time it was sent, and all of the epoch
\* was sent.
LinkInv == MsmComplete /\ EpochArrives /\ EpochEnds /\ TimeResolved
=============================================================================
