------------------------------- MODULE RtkData -------------------------------
(***************************************************************************)
(* What one cycle of rtksvrthread does with the data it reads               *)
(* (src/src/stream/mrtk_rtksvr.c): decoderaw on the bytes of each input     *)
(* stream, update_obs on the epochs, rtkpos once per rover epoch, and the   *)
(* counts of messages and of missed epochs.                                 *)
(*                                                                         *)
(* Bytes are grouped into the messages they complete.                       *)
(* Inputs: 0 rover, 1 base, 2 correction; a stream of ClasStr carries L6    *)
(* frames of increasing time instead.                                       *)
(***************************************************************************)
EXTENDS Integers, Sequences, SequencesExt

CONSTANTS
    MaxObs,     \* MAXOBSBUF: epochs of one stream kept in one cycle
    MaxRead,    \* messages one strread can return (bound)
    MaxEpoch,   \* epochs the rover and base send (bound)
    MaxL6,      \* time of the last L6 frame (bound)
    ObsFrom,    \* the inputs that carry observations
    ClasStr,    \* inputs of format CLAS
    Margin,     \* L6 time allowed ahead of the rover (60 s in the code)
    RawRover,   \* TRUE: the rover is decoded by input_raw, FALSE: by input_rtcm3
    Overload    \* TRUE: positioning may take longer than a cycle

ASSUME DataAssumption ==
    /\ MaxObs \in Nat \ {0} /\ MaxRead \in Nat \ {0}
    /\ MaxEpoch \in Nat /\ MaxL6 \in Nat /\ Margin \in Nat
    /\ ClasStr \subseteq {1, 2} /\ ObsFrom \subseteq {0, 1} \ ClasStr
    /\ Overload \in BOOLEAN /\ RawRover \in BOOLEAN

Str == 0 .. 2

VARIABLES
    phase,    \* what the thread is doing: "read", "decode", "pos"
    cur,      \* the stream being decoded / the rover epoch being processed
    buff,     \* buff[i]: messages read and not yet decoded
    sent,     \* sent[i]: last epoch (L6 frame for CLAS) the source has sent
    fobs,     \* fobs[i]: epochs decoded in this cycle
    obs,      \* obs[i]: svr->obs[i][0..], stale entries included
    nobs,     \* nmsg[i][0]
    prcout,   \* svr->prcout
    given,    \* calls of rtkpos: their number, the last rover and base epoch
    l6        \* time of the last L6 frame decoded

vars == <<phase, cur, buff, sent, fobs, obs, nobs, prcout, given, l6>>
decVars == <<fobs, obs, nobs, prcout>>

ObsMsg(t)      == [k |-> "obs", t |-> t]
BadMsg         == [k |-> "error"]     \* ret = -1: no decoder state changes
L6Frame(t)     == [k |-> "l6", t |-> t]
Msg == {ObsMsg(t) : t \in 1 .. MaxEpoch} \cup {BadMsg} \cup {L6Frame(t) : t \in 1 .. MaxL6}

TypeOK ==
    /\ phase \in {"read", "decode", "pos"} /\ cur \in 0 .. MaxObs + 2
    /\ buff \in [Str -> BoundedSeq(Msg, MaxRead)]
    /\ sent \in [Str -> 0 .. MaxEpoch + MaxL6]
    /\ fobs \in [Str -> 0 .. MaxObs]
    /\ obs \in [Str -> [1 .. MaxObs -> 0 .. MaxEpoch]]
    /\ nobs \in [Str -> 0 .. MaxEpoch] /\ prcout \in Nat
    /\ given \in [n : 0 .. MaxEpoch, rover : 0 .. MaxEpoch, base : 0 .. MaxEpoch]
    /\ l6 \in 0 .. MaxL6

Init ==
    /\ phase = "read" /\ cur = 0
    /\ buff = [i \in Str |-> <<>>]
    /\ sent = [i \in Str |-> 0]
    /\ fobs = [i \in Str |-> 0]
    /\ obs = [i \in Str |-> [k \in 1 .. MaxObs |-> 0]]
    /\ nobs = [i \in Str |-> 0] /\ prcout = 0
    /\ given = [n |-> 0, rover |-> 0, base |-> 0]
    /\ l6 = 0

-----------------------------------------------------------------------------
(* Reading: one more message of stream cur goes into its buffer.            *)
Receive(m) ==
    /\ phase = "read" /\ cur \in Str /\ Len(buff[cur]) < MaxRead
    /\ buff' = [buff EXCEPT ![cur] = Append(@, m)]
    /\ UNCHANGED <<phase, cur, decVars, given, l6>>

ReceiveObs ==
    /\ cur \in ObsFrom /\ sent[cur] < MaxEpoch
    /\ Receive(ObsMsg(sent[cur] + 1))
    /\ sent' = [sent EXCEPT ![cur] = @ + 1]
ReceiveBad == cur \notin ClasStr /\ Receive(BadMsg) /\ UNCHANGED sent
ReceiveL6  ==
    /\ cur \in ClasStr /\ sent[cur] < MaxL6
    /\ Receive(L6Frame(sent[cur] + 1))
    /\ sent' = [sent EXCEPT ![cur] = @ + 1]

\* strread of the next input; after the last, decoderaw starts
NextInput ==
    /\ phase = "read"
    /\ IF cur < 2 THEN cur' = cur + 1 /\ UNCHANGED phase
                  ELSE cur' = 0 /\ phase' = "decode"
    /\ fobs' = [i \in Str |-> 0]
    /\ UNCHANGED <<buff, sent, obs, nobs, prcout, given, l6>>

-----------------------------------------------------------------------------
(* decoderaw: the first message of the buffer is decoded and applied.       *)
Decoding(k) == phase = "decode" /\ buff[cur] # <<>> /\ Head(buff[cur]).k = k
Consume == buff' = [buff EXCEPT ![cur] = Tail(@)]

\* mutant: the epoch is stored over the last one when the buffer is full
DecodeObs_Overwrites ==
    /\ Decoding("obs") /\ Consume
    /\ LET n == IF fobs[cur] < MaxObs THEN fobs[cur] + 1 ELSE MaxObs
       IN  obs' = [obs EXCEPT ![cur][n] = Head(buff[cur]).t] /\ fobs' = [fobs EXCEPT ![cur] = n]
    /\ nobs' = [nobs EXCEPT ![cur] = @ + 1]
    /\ UNCHANGED <<phase, cur, sent, prcout, given, l6>>

\* an epoch beyond MAXOBSBUF is counted as missing, whichever stream it is of
DecodeObs ==
    /\ Decoding("obs") /\ Consume
    /\ IF fobs[cur] < MaxObs
       THEN /\ obs' = [obs EXCEPT ![cur][fobs[cur] + 1] = Head(buff[cur]).t]
            /\ fobs' = [fobs EXCEPT ![cur] = @ + 1]
            /\ UNCHANGED prcout
       ELSE prcout' = prcout + 1 /\ UNCHANGED <<obs, fobs>>
    /\ nobs' = [nobs EXCEPT ![cur] = @ + 1]
    /\ UNCHANGED <<phase, cur, sent, given, l6>>

DecodeBad ==
    /\ Decoding("error") /\ Consume
    /\ UNCHANGED <<phase, cur, sent, decVars, given, l6>>

\* svr->raw[0].time: the start of the server until input_raw decodes an epoch
RawTime == IF RawRover THEN nobs[0] ELSE 0
TooFarAhead == l6 > 0 /\ l6 - RawTime > Margin

\* clas_input_cssr takes the frame unless its channel is too far ahead
DecodeL6 ==
    /\ Decoding("l6") /\ ~TooFarAhead /\ Consume
    /\ l6' = Head(buff[cur]).t
    /\ UNCHANGED <<phase, cur, sent, decVars, given>>

\* the end of decoderaw: nb = 0, whether the loop ended or the rate limit
\* broke it
DecodeEnd ==
    /\ phase = "decode"
    /\ buff[cur] = <<>> \/ (cur \in ClasStr /\ TooFarAhead)
    /\ buff' = [buff EXCEPT ![cur] = <<>>]
    /\ IF cur < 2 THEN cur' = cur + 1 /\ UNCHANGED phase
                  ELSE cur' = 0 /\ phase' = "pos"
    /\ UNCHANGED <<sent, decVars, given, l6>>

-----------------------------------------------------------------------------
(* rtkpos on the rover epochs of the cycle.                                 *)

\* mutant: the base epoch of the same index
Rtkpos_Pairs ==
    /\ phase = "pos" /\ cur < fobs[0]
    /\ cur' = cur + 1
    /\ given' = [n |-> given.n + 1, rover |-> obs[0][cur + 1], base |-> obs[1][cur + 1]]
    /\ \/ UNCHANGED prcout
       \/ Overload /\ prcout' = prcout + fobs[0] - cur - 1
    /\ UNCHANGED <<phase, buff, sent, fobs, obs, nobs, l6>>

\* one epoch with the first base epoch kept; when the cycle has lasted too
\* long the epochs after it are counted as missing, and the loop goes on
Rtkpos ==
    /\ phase = "pos" /\ cur < fobs[0]
    /\ cur' = cur + 1
    /\ given' = [n |-> given.n + 1, rover |-> obs[0][cur + 1], base |-> obs[1][1]]
    /\ \/ UNCHANGED prcout
       \/ Overload /\ prcout' = prcout + fobs[0] - cur - 1
    /\ UNCHANGED <<phase, buff, sent, fobs, obs, nobs, l6>>

CycleEnd ==
    /\ phase = "pos" /\ cur = fobs[0]
    /\ phase' = "read" /\ cur' = 0
    /\ UNCHANGED <<buff, sent, decVars, given, l6>>

Decode == DecodeObs \/ DecodeBad \/ DecodeL6 \/ DecodeEnd

Next ==
    \/ ReceiveObs \/ ReceiveBad \/ ReceiveL6
    \/ NextInput
    \/ Decode
    \/ Rtkpos \/ CycleEnd

Spec == Init /\ [][Next]_vars

-----------------------------------------------------------------------------
(* Properties.                                                             *)

\* Between two cycles svr->prcout ("missing obs data count" of the status screen) is
\* at least the rover epochs that were decoded and never given to rtkpos: none is lost
\* without being counted.  (Base epochs and overloaded cycles are counted on top.)
NoneMissedSilently == phase = "read" => prcout >= nobs[0] - given.n

\* rtkpos is given the rover epochs in order and none twice, and the base
\* epoch it is given never goes back in time.
EpochsInOrder ==
    /\ []TypeOK
    /\ [][given'.n # given.n => /\ given'.rover > given.rover
                                /\ given'.base >= given.base]_vars

\* "shift unconsumed bytes to start of buffer": the rate limit puts off L6
\* frames, it does not skip any.
NoFrameSkipped == [][l6' \in {l6, l6 + 1}]_vars
=============================================================================
