---------------------------- MODULE EpochsProofs ----------------------------
(***************************************************************************)
(* Theorems about the epochs of observations, for any constants: that the   *)
(* server decodes them all and gives them to rtkpos in order (RtkData), that *)
(* the filter carries their phases on only where it may (PhaseBias), and      *)
(* that post-processing gives it each of them whole and once in each pass,    *)
(* and loses no solution (PostPos).                                          *)
(***************************************************************************)
EXTENDS RtkData, PhaseBias, PostPos, FiniteSetTheorems, SequenceTheorems, WellFoundedInduction, TLAPS

-----------------------------------------------------------------------------
(* The server: whatever the inputs carry, however many messages a read       *)
(* returns and however long a cycle lasts, no rover epoch is lost without      *)
(* being counted, and rtkpos is given the epochs in order.                   *)

\* The counters the argument is about.
Counters ==
    /\ phase \in {"read", "decode", "pos"}
    /\ cur \in Nat /\ (phase # "pos" => cur \in Str)
    /\ fobs \in [Str -> Nat] /\ nobs \in [Str -> Int]
    /\ prcout \in Int /\ given.n \in Int

\* The epochs of this cycle that rtkpos has still to be given.
Outstanding == CASE phase = "read"   -> 0
                 [] phase = "decode" -> fobs[0]
                 [] phase = "pos"    -> fobs[0] - cur

\* The strengthening: at every moment of the cycle a decoded rover epoch has
\* been given to rtkpos, is pending, or is counted.
Accounted ==
    /\ Counters
    /\ phase = "pos" => cur <= fobs[0]
    /\ phase = "read" /\ cur > 0 => \A i \in Str : fobs[i] = 0
    /\ prcout + Outstanding >= nobs[0] - given.n

LEMMA AccountedInit == Init => Accounted
  BY DEF Init, Accounted, Counters, Outstanding, Str

LEMMA AccountedStep == Accounted /\ [Next]_vars => Accounted'
<1> SUFFICES ASSUME Accounted, [Next]_vars PROVE Accounted'
  OBVIOUS
<1> USE DataAssumption DEF Accounted, Counters, Outstanding, Str
<1>1. CASE \E m : Receive(m)
  BY <1>1 DEF Receive, decVars
<1>2. CASE NextInput
  <2>1. CASE cur < 2
    BY <1>2, <2>1 DEF NextInput
  <2>2. CASE ~(cur < 2)
    BY <1>2, <2>2 DEF NextInput
  <2> QED BY <2>1, <2>2
<1>3. CASE DecodeObs
  <2>1. /\ phase = "decode" /\ phase' = "decode" /\ cur' = cur /\ given' = given
        /\ nobs' = [nobs EXCEPT ![cur] = @ + 1]
    BY <1>3 DEF DecodeObs, Decoding
  <2>2. CASE fobs[cur] < MaxObs
    <3>1. fobs' = [fobs EXCEPT ![cur] = @ + 1] /\ prcout' = prcout
      BY <1>3, <2>2 DEF DecodeObs
    <3> QED BY <2>1, <3>1
  <2>3. CASE ~(fobs[cur] < MaxObs)
    <3>1. fobs' = fobs /\ prcout' = prcout + 1
      BY <1>3, <2>3 DEF DecodeObs
    <3> QED BY <2>1, <3>1
  <2> QED BY <2>2, <2>3
<1>4. CASE DecodeBad \/ DecodeL6
  BY <1>4 DEF DecodeBad, DecodeL6, Decoding, decVars
<1>5. CASE DecodeEnd
  <2>1. CASE cur < 2
    BY <1>5, <2>1, SMTT(30) DEF DecodeEnd, decVars
  <2>2. CASE ~(cur < 2)
    BY <1>5, <2>2 DEF DecodeEnd, decVars
  <2> QED BY <2>1, <2>2
<1>6. CASE Rtkpos
  <2>1. /\ phase = "pos" /\ phase' = "pos" /\ cur < fobs[0] /\ cur' = cur + 1
        /\ given'.n = given.n + 1 /\ fobs' = fobs /\ nobs' = nobs
        /\ prcout' = prcout \/ prcout' = prcout + fobs[0] - cur - 1
    BY <1>6 DEF Rtkpos
  <2> QED BY <2>1
<1>7. CASE CycleEnd
  BY <1>7 DEF CycleEnd, decVars
<1>8. CASE UNCHANGED vars
  BY <1>8 DEF vars
<1>9. ReceiveObs \/ ReceiveBad \/ ReceiveL6 => \E m : Receive(m)
  BY DEF ReceiveObs, ReceiveBad, ReceiveL6
<1> QED
  BY <1>1, <1>2, <1>3, <1>4, <1>5, <1>6, <1>7, <1>8, <1>9 DEF Next, Decode

\* Between two cycles prcout is at least the number of rover epochs that were
\* decoded and never given to rtkpos.
THEOREM NoneMissedSilentlyHolds == Spec => []NoneMissedSilently
<1>1. Accounted => NoneMissedSilently
  BY DEF Accounted, Counters, Outstanding, NoneMissedSilently, Str
<1> QED
  BY <1>1, AccountedInit, AccountedStep, PTL DEF Spec

-----------------------------------------------------------------------------
(* The order of the epochs.  Along an input that carries observations the     *)
(* epochs are numbered as they are sent; what the server still keeps of       *)
(* earlier cycles is older than what is buffered, and what rtkpos was given    *)
(* is older than what it will be given.                                      *)

\* The buffered epochs of input i: in order, sent, and newer than those stored.
Buffered(i) ==
    \A j \in 1 .. Len(buff[i]) : buff[i][j].k = "obs" =>
        /\ nobs[i] < buff[i][j].t /\ buff[i][j].t <= sent[i]
        /\ \A k \in 1 .. MaxObs : obs[i][k] < buff[i][j].t
        /\ \A l \in 1 .. Len(buff[i]) : l > j /\ buff[i][l].k = "obs" => buff[i][j].t < buff[i][l].t

\* The stored ones: sent, and those of this cycle in order.
ObsStored(i) ==
    /\ \A k \in 1 .. MaxObs : obs[i][k] <= sent[i]
    /\ \A k, l \in 1 .. fobs[i] : k < l => obs[i][k] < obs[i][l]

\* The epochs of this cycle that rtkpos has still to be given.
ToGive == IF phase = "decode" THEN 1 .. fobs[0]
          ELSE IF phase = "pos" THEN cur + 1 .. fobs[0] ELSE {}

Given ==
    /\ given.rover <= sent[0] /\ given.base <= obs[1][1]
    /\ \A k \in ToGive : given.rover < obs[0][k]
    /\ \A j \in 1 .. Len(buff[0]) : buff[0][j].k = "obs" => given.rover < buff[0][j].t
    /\ given.n + (IF phase = "read" THEN 0 ELSE IF phase = "pos" THEN fobs[0] - cur ELSE fobs[0]) <= nobs[0]

\* How far the counts of an input go.
Counted(i) ==
    /\ i \in ObsFrom => nobs[i] <= sent[i] /\ sent[i] <= MaxEpoch
    /\ i \notin ObsFrom => /\ nobs[i] = 0 /\ \A k \in 1 .. MaxObs : obs[i][k] = 0
                           /\ fobs[i] = 0 /\ \A j \in 1 .. Len(buff[i]) : buff[i][j].k # "obs"
    /\ i \in ClasStr => sent[i] <= MaxL6

Ordered ==
    /\ TypeOK
    /\ phase # "pos" => cur \in Str
    /\ phase = "pos" => cur <= fobs[0]
    /\ phase = "read" /\ cur > 0 => \A i \in Str : fobs[i] = 0
    /\ \A i \in Str : Buffered(i) /\ ObsStored(i) /\ Counted(i)
    /\ Given

LEMMA BoundedIsSeq ==
  ASSUME NEW S, NEW n \in Nat
  PROVE  \A s : s \in BoundedSeq(S, n) <=> s \in Seq(S) /\ Len(s) <= n
<1>1. ASSUME NEW s \in BoundedSeq(S, n) PROVE s \in Seq(S) /\ Len(s) <= n
  <2>1. PICK m \in 0 .. n : s \in [1 .. m -> S]
    BY <1>1 DEF BoundedSeq, SeqOf
  <2>. QED  BY <2>1
<1>2. ASSUME NEW s \in Seq(S), Len(s) <= n PROVE s \in BoundedSeq(S, n)
  <2>1. Len(s) \in 0 .. n /\ s \in [1 .. Len(s) -> S]
    BY <1>2, LenProperties
  <2>. QED  BY <2>1 DEF BoundedSeq, SeqOf
<1>. QED  BY <1>1, <1>2

LEMMA BuffSeq == \A s : s \in BoundedSeq(Msg, MaxRead) <=> s \in Seq(Msg) /\ Len(s) <= MaxRead
  BY BoundedIsSeq, DataAssumption

\* One more message, or one fewer.
LEMMA OneMore ==
  ASSUME NEW s \in BoundedSeq(Msg, MaxRead), NEW m \in Msg, Len(s) < MaxRead
  PROVE  /\ Append(s, m) \in BoundedSeq(Msg, MaxRead) /\ Len(Append(s, m)) = Len(s) + 1
         /\ Len(s) \in Nat /\ Append(s, m)[Len(s) + 1] = m
         /\ \A j \in 1 .. Len(s) : Append(s, m)[j] = s[j]
<1>1. s \in Seq(Msg)
  BY BuffSeq
<1>2. /\ Append(s, m) \in Seq(Msg) /\ Len(Append(s, m)) = Len(s) + 1 /\ Len(s) \in Nat
      /\ Append(s, m)[Len(s) + 1] = m
      /\ \A j \in 1 .. Len(s) : Append(s, m)[j] = s[j]
  BY <1>1, AppendProperties, LenProperties
<1>3. Len(Append(s, m)) <= MaxRead
  BY <1>2, DataAssumption
<1>4. Append(s, m) \in BoundedSeq(Msg, MaxRead)
  BY <1>2, <1>3, BuffSeq
<1>. QED  BY <1>2, <1>4

LEMMA OneFewer ==
  ASSUME NEW s \in BoundedSeq(Msg, MaxRead), s # <<>>
  PROVE  /\ Tail(s) \in BoundedSeq(Msg, MaxRead) /\ Len(Tail(s)) = Len(s) - 1
         /\ Len(s) \in Nat \ {0} /\ Head(s) = s[1] /\ Head(s) \in Msg
         /\ \A j \in 1 .. Len(s) - 1 : Tail(s)[j] = s[j + 1]
<1>1. s \in Seq(Msg) /\ Len(s) <= MaxRead
  BY BuffSeq
<1>2. /\ Tail(s) \in Seq(Msg) /\ Len(Tail(s)) = Len(s) - 1 /\ Len(s) \in Nat \ {0}
      /\ \A j \in 1 .. Len(Tail(s)) : Tail(s)[j] = s[j + 1]
  BY <1>1, HeadTailProperties, EmptySeq
<1>3. Head(s) = s[1] /\ Head(s) \in Msg
  BY <1>1, <1>2, HeadTailProperties
<1>4. Len(Tail(s)) <= MaxRead
  BY <1>1, <1>2, DataAssumption
<1>5. Tail(s) \in BoundedSeq(Msg, MaxRead)
  BY <1>2, <1>4, BuffSeq
<1>. QED  BY <1>2, <1>3, <1>5

LEMMA OrderedInit == Init => Ordered
<1>. SUFFICES ASSUME Init PROVE Ordered
  OBVIOUS
<1>. USE DataAssumption
<1>1. \A i \in Str : buff[i] = <<>> /\ <<>> \in BoundedSeq(Msg, MaxRead)
  <2>1. <<>> \in Seq(Msg) /\ Len(<<>>) <= MaxRead
    BY EmptySeq
  <2>. QED  BY <2>1, BuffSeq DEF Init
<1>2. TypeOK
  <2>1. buff \in [Str -> BoundedSeq(Msg, MaxRead)]
    BY <1>1 DEF Init
  <2>. QED  BY <2>1 DEF Init, TypeOK
<1>3. ASSUME NEW i \in Str PROVE Buffered(i) /\ ObsStored(i) /\ Counted(i)
  BY <1>1, <1>3 DEF Init, Buffered, ObsStored, Counted
<1>4. Given
  BY <1>1 DEF Init, Given, ToGive, Str
<1>. QED  BY <1>2, <1>3, <1>4 DEF Ordered, Init, Str

\* A step that leaves the inputs, the stored epochs and what was given alone.
LEMMA ReceiveOrdered ==
  ASSUME Ordered, NEW m \in Msg, Receive(m),
         sent' \in [Str -> 0 .. MaxEpoch + MaxL6], \A i \in Str : sent[i] <= sent'[i],
         \A i \in Str : i # cur => sent'[i] = sent[i],
         cur \in ObsFrom => sent'[cur] <= MaxEpoch, cur \in ClasStr => sent'[cur] <= MaxL6,
         m.k = "obs" => cur \in ObsFrom /\ sent[cur] < m.t /\ m.t <= sent'[cur]
  PROVE  Ordered'
<1>. USE DataAssumption
<1>1. /\ phase = "read" /\ phase' = "read" /\ cur \in Str /\ cur' = cur /\ given' = given
      /\ obs' = obs /\ fobs' = fobs /\ nobs' = nobs /\ prcout' = prcout /\ l6' = l6
      /\ Len(buff[cur]) < MaxRead /\ buff' = [buff EXCEPT ![cur] = Append(@, m)]
  BY DEF Receive, decVars
<1>2. /\ buff \in [Str -> BoundedSeq(Msg, MaxRead)] /\ TypeOK
      /\ \A i \in Str : Buffered(i) /\ ObsStored(i) /\ Counted(i)
      /\ Given
  BY DEF Ordered, TypeOK
<1>3. /\ buff'[cur] \in BoundedSeq(Msg, MaxRead) /\ Len(buff'[cur]) = Len(buff[cur]) + 1
      /\ Len(buff[cur]) \in Nat /\ buff'[cur][Len(buff[cur]) + 1] = m
      /\ \A j \in 1 .. Len(buff[cur]) : buff'[cur][j] = buff[cur][j]
      /\ \A i \in Str : i # cur => buff'[i] = buff[i]
  BY <1>1, <1>2, OneMore
<1>4. TypeOK'
  <2>1. buff' \in [Str -> BoundedSeq(Msg, MaxRead)]
    BY <1>1, <1>2, <1>3
  <2>. QED  BY <1>1, <1>2, <2>1 DEF TypeOK
<1>5. ASSUME NEW i \in Str PROVE Buffered(i)' /\ ObsStored(i)' /\ Counted(i)'
  <2>0. /\ sent[i] \in Int /\ sent'[i] \in Int /\ sent[i] <= sent'[i] /\ fobs[i] \in 0 .. MaxObs
        /\ \A k \in 1 .. MaxObs : obs[i][k] \in Int
        /\ nobs[i] \in Int
    BY <1>2, <1>5 DEF TypeOK
  <2>1. ObsStored(i)'
    <3>1. \A k \in 1 .. MaxObs : obs[i][k] <= sent'[i]
      BY <1>2, <2>0 DEF ObsStored
    <3>. QED  BY <1>1, <1>2, <3>1 DEF ObsStored
  <2>2. CASE i # cur
    <3>1. buff'[i] = buff[i] /\ sent'[i] = sent[i]
      BY <1>3, <2>2
    <3>2. Buffered(i)'
      BY <1>1, <1>2, <3>1 DEF Buffered
    <3>3. Counted(i)'
      BY <1>1, <1>2, <3>1 DEF Counted
    <3>. QED  BY <2>1, <3>2, <3>3
  <2>3. CASE i = cur
    <3>. DEFINE n == Len(buff[i])
    <3>0. /\ n \in Nat /\ Len(buff'[i]) = n + 1 /\ buff'[i][n + 1] = m
          /\ \A j \in 1 .. n : buff'[i][j] = buff[i][j]
      BY <1>3, <2>3
    <3>1. Counted(i)'
      <4>1. i \in ObsFrom => nobs'[i] <= sent'[i] /\ sent'[i] <= MaxEpoch
        BY <1>1, <1>2, <2>0, <2>3 DEF Counted
      <4>2. i \notin ObsFrom => \A j \in 1 .. n + 1 : buff'[i][j].k # "obs"
        BY <1>2, <2>3, <3>0 DEF Counted
      <4>3. i \notin ObsFrom => \A j \in 1 .. Len(buff'[i]) : buff'[i][j].k # "obs"
        BY <3>0, <4>2
      <4>. QED  BY <1>1, <1>2, <2>3, <4>1, <4>3 DEF Counted
    <3>2. ASSUME NEW j \in 1 .. n, buff[i][j].k = "obs"
          PROVE  /\ nobs[i] < buff[i][j].t /\ buff[i][j].t <= sent[i]
                 /\ \A k \in 1 .. MaxObs : obs[i][k] < buff[i][j].t
                 /\ \A l \in 1 .. n : l > j /\ buff[i][l].k = "obs" => buff[i][j].t < buff[i][l].t
                 /\ buff[i][j].t \in Int
      <4>1. buff[i][j] \in Msg
        BY <1>2, BuffSeq, ElementOfSeq
      <4>2. buff[i][j].t \in Int
        BY <3>2, <4>1 DEF Msg, ObsMsg, BadMsg, L6Frame
      <4>. QED  BY <1>2, <3>2, <4>2 DEF Buffered
    <3>3. m.k = "obs" => /\ sent[i] < m.t /\ m.t <= sent'[i] /\ m.t \in Int /\ nobs[i] <= sent[i]
                         /\ \A k \in 1 .. MaxObs : obs[i][k] <= sent[i]
      <4>1. m.k = "obs" => m.t \in Int
        BY DEF Msg, ObsMsg, BadMsg, L6Frame
      <4>. QED  BY <1>2, <2>3, <4>1 DEF ObsStored, Counted
    <3>4. ASSUME NEW j \in 1 .. n + 1, buff'[i][j].k = "obs"
          PROVE  /\ nobs[i] < buff'[i][j].t /\ buff'[i][j].t <= sent'[i]
                 /\ \A k \in 1 .. MaxObs : obs[i][k] < buff'[i][j].t
                 /\ \A l \in 1 .. n + 1 : l > j /\ buff'[i][l].k = "obs" => buff'[i][j].t < buff'[i][l].t
      <4>1. CASE j = n + 1
        <5>1. buff'[i][j] = m /\ m.k = "obs"
          BY <3>0, <3>4, <4>1
        <5>2. nobs[i] < m.t /\ m.t <= sent'[i] /\ \A k \in 1 .. MaxObs : obs[i][k] < m.t
          BY <2>0, <3>3, <5>1
        <5>3. \A l \in 1 .. n + 1 : ~(l > j)
          BY <3>0, <4>1
        <5>. QED  BY <5>1, <5>2, <5>3
      <4>2. CASE j \in 1 .. n
        <5>1. buff'[i][j] = buff[i][j]
          BY <3>0, <4>2
        <5>2. ASSUME NEW l \in 1 .. n + 1, l > j, buff'[i][l].k = "obs" PROVE buff'[i][j].t < buff'[i][l].t
          <6>1. CASE l = n + 1
            <7>1. buff'[i][l] = m /\ m.k = "obs"
              BY <3>0, <5>2, <6>1
            <7>2. sent[i] < m.t /\ m.t \in Int
              BY <3>3, <7>1
            <7>3. buff'[i][j].t <= sent[i] /\ buff'[i][j].t \in Int
              BY <3>2, <3>4, <4>2, <5>1
            <7>. QED  BY <2>0, <7>1, <7>2, <7>3
          <6>2. CASE l \in 1 .. n
            BY <3>0, <3>2, <3>4, <4>2, <5>1, <5>2, <6>2
          <6>. QED  BY <3>0, <6>1, <6>2
        <5>. QED  BY <2>0, <3>2, <3>4, <4>2, <5>1, <5>2
      <4>. QED  BY <3>0, <4>1, <4>2
    <3>. QED  BY <1>1, <2>1, <3>0, <3>1, <3>4 DEF Buffered
  <2>. QED  BY <2>2, <2>3
<1>6. Given'
  <2>1. given.rover \in Int /\ sent[0] \in Int /\ sent'[0] \in Int /\ sent[0] <= sent'[0]
    BY <1>2 DEF TypeOK, Str
  <2>2. ASSUME NEW j \in 1 .. Len(buff'[0]), buff'[0][j].k = "obs" PROVE given.rover < buff'[0][j].t
    <3>1. CASE cur # 0 \/ j # Len(buff'[0])
      <4>1. j \in 1 .. Len(buff[0]) /\ buff'[0][j] = buff[0][j]
        <5>1. CASE cur # 0
          BY <1>3, <3>1, <5>1 DEF Str
        <5>2. CASE cur = 0
          BY <1>3, <2>2, <3>1, <5>2 DEF Str
        <5>. QED  BY <5>1, <5>2
      <4>. QED  BY <1>2, <2>2, <4>1 DEF Given
    <3>2. CASE cur = 0 /\ j = Len(buff'[0])
      <4>1. buff'[0][j] = m /\ m.k = "obs"
        BY <1>3, <2>2, <3>2
      <4>2. m.t \in Int
        BY <4>1 DEF Msg, ObsMsg, BadMsg, L6Frame
      <4>. QED  BY <1>2, <2>1, <3>2, <4>1, <4>2 DEF Given
    <3>. QED  BY <3>1, <3>2
  <2>. QED  BY <1>1, <1>2, <2>1, <2>2 DEF Given, ToGive
<1>. QED  BY <1>1, <1>4, <1>5, <1>6 DEF Ordered

\* The buffers after the first message of one is consumed.
LEMMA Consumed ==
  ASSUME Ordered, cur \in Str, buff[cur] # <<>>, Consume
  PROVE  /\ buff' \in [Str -> BoundedSeq(Msg, MaxRead)]
         /\ \A i \in Str : i # cur => buff'[i] = buff[i]
         /\ Len(buff[cur]) \in Nat \ {0} /\ Len(buff'[cur]) = Len(buff[cur]) - 1
         /\ \A j \in 1 .. Len(buff[cur]) - 1 : buff'[cur][j] = buff[cur][j + 1]
         /\ Head(buff[cur]) = buff[cur][1] /\ Head(buff[cur]) \in Msg
<1>1. buff \in [Str -> BoundedSeq(Msg, MaxRead)]
  BY DEF Ordered, TypeOK
<1>2. /\ buff' = [buff EXCEPT ![cur] = Tail(buff[cur])]
      /\ buff'[cur] = Tail(buff[cur])
  BY <1>1 DEF Consume
<1>. QED  BY <1>1, <1>2, OneFewer

\* The j-th message of input i was buffered, and so were those after it, in the same order.
WasBuffered(i, j) ==
    \E h \in 1 .. Len(buff[i]) :
      /\ i = cur => h > 1
      /\ buff'[i][j] = buff[i][h]
      /\ \A l \in 1 .. Len(buff'[i]) : l > j =>
           \E g \in 1 .. Len(buff[i]) : g > h /\ buff'[i][l] = buff[i][g]

LEMMA StillBuffered ==
  ASSUME Ordered, cur \in Str, buff[cur] # <<>>, Consume, NEW i \in Str, NEW j \in 1 .. Len(buff'[i])
  PROVE  WasBuffered(i, j)
<1>. USE DEF WasBuffered
<1>1. CASE i # cur
  <2>1. buff'[i] = buff[i]
    BY <1>1, Consumed
  <2>. QED  BY <1>1, <2>1
<1>2. CASE i = cur
  <2>1. /\ j + 1 \in 1 .. Len(buff[i]) /\ buff'[i][j] = buff[i][j + 1]
        /\ j + 1 > 1
    BY <1>2, Consumed
  <2>2. ASSUME NEW l \in 1 .. Len(buff'[i]), l > j
        PROVE  /\ l + 1 \in 1 .. Len(buff[i]) /\ l + 1 > j + 1
               /\ buff'[i][l] = buff[i][l + 1]
    BY <1>2, <2>2, Consumed
  <2>. QED  BY <2>1, <2>2
<1>. QED  BY <1>1, <1>2

\* A message that changes no epoch.
LEMMA DropOrdered ==
  ASSUME Ordered, cur \in Str, buff[cur] # <<>>, Consume, l6' \in 0 .. MaxL6,
         UNCHANGED <<phase, cur, sent, decVars, given>>
  PROVE  Ordered'
<1>. USE DataAssumption
<1>0. Ordered /\ cur \in Str /\ buff[cur] # <<>> /\ Consume
  OBVIOUS
<1>1. /\ phase' = phase /\ cur' = cur /\ given' = given /\ sent' = sent
      /\ obs' = obs /\ fobs' = fobs /\ nobs' = nobs /\ prcout' = prcout
  BY DEF decVars
<1>2. TypeOK /\ (\A i \in Str : Buffered(i) /\ ObsStored(i) /\ Counted(i)) /\ Given
  BY DEF Ordered
<1>3. TypeOK'
  BY <1>1, <1>2, Consumed DEF TypeOK
<1>4. ASSUME NEW i \in Str PROVE Buffered(i)' /\ ObsStored(i)' /\ Counted(i)'
  <2>1. ObsStored(i)'
    BY <1>1, <1>2 DEF ObsStored
  <2>2. Buffered(i)'
    <3>1. ASSUME NEW j \in 1 .. Len(buff'[i]), buff'[i][j].k = "obs"
          PROVE  /\ nobs[i] < buff'[i][j].t /\ buff'[i][j].t <= sent[i]
                 /\ \A k \in 1 .. MaxObs : obs[i][k] < buff'[i][j].t
                 /\ \A l \in 1 .. Len(buff'[i]) : l > j /\ buff'[i][l].k = "obs" => buff'[i][j].t < buff'[i][l].t
      <4>1. PICK h \in 1 .. Len(buff[i]) :
              /\ buff'[i][j] = buff[i][h]
              /\ \A l \in 1 .. Len(buff'[i]) : l > j =>
                   \E g \in 1 .. Len(buff[i]) : g > h /\ buff'[i][l] = buff[i][g]
        <5>1. WasBuffered(i, j)
          BY <1>0, StillBuffered
        <5>. QED  BY <5>1, Zenon DEF WasBuffered
      <4>2. /\ nobs[i] < buff[i][h].t /\ buff[i][h].t <= sent[i]
            /\ \A k \in 1 .. MaxObs : obs[i][k] < buff[i][h].t
            /\ \A g \in 1 .. Len(buff[i]) : g > h /\ buff[i][g].k = "obs" => buff[i][h].t < buff[i][g].t
        BY <1>2, <3>1, <4>1 DEF Buffered
      <4>3. ASSUME NEW l \in 1 .. Len(buff'[i]), l > j, buff'[i][l].k = "obs"
            PROVE  buff'[i][j].t < buff'[i][l].t
        <5>1. PICK g \in 1 .. Len(buff[i]) : g > h /\ buff'[i][l] = buff[i][g]
          BY <4>1, <4>3
        <5>. QED  BY <4>1, <4>2, <4>3, <5>1
      <4>. QED  BY <4>1, <4>2, <4>3
    <3>. QED  BY <1>1, <3>1 DEF Buffered
  <2>3. Counted(i)'
    <3>1. (\A j \in 1 .. Len(buff[i]) : buff[i][j].k # "obs") => (\A j \in 1 .. Len(buff'[i]) : buff'[i][j].k # "obs")
      <4>1. \A j \in 1 .. Len(buff'[i]) : WasBuffered(i, j)
        BY <1>0, StillBuffered
      <4>. QED  BY <4>1 DEF WasBuffered
    <3>. QED  BY <1>1, <1>2, <3>1 DEF Counted
  <2>. QED  BY <2>1, <2>2, <2>3
<1>5. Given'
  <2>1. ASSUME NEW j \in 1 .. Len(buff'[0]), buff'[0][j].k = "obs" PROVE given.rover < buff'[0][j].t
    <3>1. 0 \in Str
      BY DEF Str
    <3>2. WasBuffered(0, j)
      BY <1>0, <3>1, StillBuffered
    <3>. QED  BY <1>2, <2>1, <3>2 DEF Given, WasBuffered
  <2>. QED  BY <1>1, <1>2, <2>1 DEF Given, ToGive
<1>. QED  BY <1>1, <1>3, <1>4, <1>5 DEF Ordered

\* An epoch is stored, or counted as missing.
LEMMA DecodeObsOrdered ==
  ASSUME Ordered, DecodeObs
  PROVE  Ordered'
<1>. USE DataAssumption
<1>. DEFINE t == Head(buff[cur]).t
            \* the slot it is stored in, or 0
            n == IF fobs[cur] < MaxObs THEN fobs[cur] + 1 ELSE 0
<1>0. TypeOK /\ (\A i \in Str : Buffered(i) /\ ObsStored(i) /\ Counted(i)) /\ Given /\ cur \in Str
  BY DEF Ordered, DecodeObs, Decoding
<1>1. /\ phase = "decode" /\ phase' = "decode" /\ cur' = cur /\ given' = given /\ sent' = sent
      /\ l6' = l6 /\ buff[cur] # <<>> /\ Consume /\ nobs' = [nobs EXCEPT ![cur] = nobs[cur] + 1]
      /\ Head(buff[cur]).k = "obs"
  BY DEF DecodeObs, Decoding
<1>2. /\ fobs \in [Str -> 0 .. MaxObs] /\ obs \in [Str -> [1 .. MaxObs -> 0 .. MaxEpoch]]
      /\ nobs \in [Str -> 0 .. MaxEpoch] /\ given.rover \in Int /\ given.base \in Int /\ given.n \in Int
      /\ \A i \in Str : sent[i] \in Int
      /\ prcout \in Nat
  <2>1. given \in [n : 0 .. MaxEpoch, rover : 0 .. MaxEpoch, base : 0 .. MaxEpoch]
    BY <1>0 DEF TypeOK
  <2>2. given.rover \in Int /\ given.base \in Int /\ given.n \in Int
    BY <2>1
  <2>3. sent \in [Str -> 0 .. MaxEpoch + MaxL6]
    BY <1>0 DEF TypeOK
  <2>4. \A i \in Str : sent[i] \in Int
    BY <2>3
  <2>. QED  BY <1>0, <2>2, <2>4, Zenon DEF TypeOK
<1>3. 1 \in 1 .. Len(buff[cur]) /\ buff[cur][1].k = "obs" /\ t = buff[cur][1].t /\ t \in 1 .. MaxEpoch
  <2>1. Head(buff[cur]) = buff[cur][1] /\ Head(buff[cur]) \in Msg /\ Len(buff[cur]) \in Nat \ {0}
    BY <1>0, <1>1, Consumed
  <2>2. t \in 1 .. MaxEpoch
    BY <1>1, <2>1 DEF Msg, ObsMsg, BadMsg, L6Frame
  <2>. QED  BY <1>1, <2>1, <2>2
\* the new epoch is newer than all that is stored, older than all that is buffered
<1>4. /\ nobs[cur] < t /\ t <= sent[cur] /\ \A k \in 1 .. MaxObs : obs[cur][k] < t
      /\ \A l \in 1 .. Len(buff[cur]) : l > 1 /\ buff[cur][l].k = "obs" => t < buff[cur][l].t
      /\ cur \in ObsFrom
  BY <1>0, <1>3 DEF Buffered, Counted
<1>5. /\ n \in 0 .. MaxObs /\ (n # 0 => n = fobs[cur] + 1)
      /\ fobs'[cur] = IF n = 0 THEN fobs[cur] ELSE n
      /\ \A i \in Str : i # cur => obs'[i] = obs[i] /\ fobs'[i] = fobs[i] /\ nobs'[i] = nobs[i]
      /\ nobs'[cur] = nobs[cur] + 1
      /\ \A k \in 1 .. MaxObs : obs'[cur][k] = IF k = n THEN t ELSE obs[cur][k]
      /\ fobs' \in [Str -> 0 .. MaxObs] /\ obs' \in [Str -> [1 .. MaxObs -> 0 .. MaxEpoch]]
      /\ prcout' \in Nat
  <2>0. fobs[cur] \in 0 .. MaxObs /\ obs[cur] \in [1 .. MaxObs -> 0 .. MaxEpoch]
    BY <1>0, <1>2
  <2>1. CASE fobs[cur] < MaxObs
    <3>1. /\ obs' = [obs EXCEPT ![cur] = [obs[cur] EXCEPT ![fobs[cur] + 1] = t]]
          /\ fobs' = [fobs EXCEPT ![cur] = fobs[cur] + 1] /\ prcout' = prcout
      BY <2>1 DEF DecodeObs
    <3>2. n = fobs[cur] + 1 /\ n \in 1 .. MaxObs
      BY <2>0, <2>1
    <3>. HIDE DEF t, n
    <3>3. [obs[cur] EXCEPT ![n] = t] \in [1 .. MaxObs -> 0 .. MaxEpoch]
      <4>1. \A k \in 1 .. MaxObs : (IF k = n THEN t ELSE obs[cur][k]) \in 0 .. MaxEpoch
        BY <1>3, <2>0
      <4>2. [obs[cur] EXCEPT ![n] = t] = [k \in 1 .. MaxObs |-> IF k = n THEN t ELSE obs[cur][k]]
        BY <2>0
      <4>. QED  BY <4>1, <4>2
    <3>4. /\ \A i \in Str : i # cur => obs'[i] = obs[i] /\ fobs'[i] = fobs[i]
          /\ fobs'[cur] = n /\ n # 0
          /\ \A k \in 1 .. MaxObs : obs'[cur][k] = IF k = n THEN t ELSE obs[cur][k]
      BY <1>0, <1>2, <2>0, <3>1, <3>2
    <3>5. fobs' \in [Str -> 0 .. MaxObs] /\ obs' \in [Str -> [1 .. MaxObs -> 0 .. MaxEpoch]]
      BY <1>0, <1>2, <2>0, <3>1, <3>2, <3>3
    <3>6. /\ \A i \in Str : i # cur => nobs'[i] = nobs[i]
          /\ nobs'[cur] = nobs[cur] + 1
      BY <1>0, <1>1, <1>2
    <3>7. n \in 0 .. MaxObs /\ (n # 0 => n = fobs[cur] + 1) /\ prcout' \in Nat
      BY <1>2, <3>1, <3>2
    <3>8. fobs'[cur] = IF n = 0 THEN fobs[cur] ELSE n
      BY <3>4
    <3>. QED  BY ONLY <3>4, <3>5, <3>6, <3>7, <3>8
  <2>2. CASE ~(fobs[cur] < MaxObs)
    <3>1. obs' = obs /\ fobs' = fobs /\ prcout' = prcout + 1 /\ n = 0
      BY <2>2 DEF DecodeObs
    <3>. HIDE DEF t, n
    <3>. QED  BY <1>0, <1>1, <1>2, <3>1
  <2>. QED  BY <2>1, <2>2
<1>. HIDE DEF t, n
<1>6. \A i \in Str : fobs[i] \in 0 .. MaxObs /\ nobs[i] \in Int
                     /\ \A k \in 1 .. MaxObs : obs[i][k] \in Int
  BY <1>2
<1>7. TypeOK'
  <2>1. nobs' \in [Str -> 0 .. MaxEpoch]
    <3>1. nobs[cur] + 1 \in 0 .. MaxEpoch
      BY <1>0, <1>2, <1>3, <1>4, SMTT(30)
    <3>. QED  BY <1>1, <1>2, <3>1
  <2>. QED  BY <1>0, <1>1, <1>5, <2>1, Consumed DEF TypeOK
<1>8. ASSUME NEW i \in Str PROVE Buffered(i)' /\ ObsStored(i)' /\ Counted(i)'
  <2>1. CASE i # cur
    <3>1. /\ obs'[i] = obs[i] /\ fobs'[i] = fobs[i] /\ nobs'[i] = nobs[i] /\ sent' = sent
          /\ buff'[i] = buff[i]
      BY <1>0, <1>1, <1>5, <2>1, Consumed
    <3>. QED  BY <1>0, <3>1 DEF Buffered, ObsStored, Counted
  <2>2. CASE i = cur
    <3>1. ObsStored(i)'
      <4>1. \A k \in 1 .. MaxObs : obs'[cur][k] <= sent'[cur]
        BY <1>0, <1>1, <1>4, <1>5 DEF ObsStored
      <4>2. ASSUME NEW k \in 1 .. fobs'[cur], NEW l \in 1 .. fobs'[cur], k < l
            PROVE  obs'[cur][k] < obs'[cur][l]
        <5>0. fobs[cur] \in 0 .. MaxObs /\ k \in 1 .. MaxObs /\ l \in 1 .. MaxObs
          BY <1>0, <1>5, <1>6
        <5>1. CASE l = n
          <6>1. k # n /\ obs'[cur][l] = t /\ obs'[cur][k] = obs[cur][k]
            BY <1>5, <4>2, <5>0, <5>1, SMTT(30)
          <6>. QED  BY <1>4, <5>0, <6>1
        <5>2. CASE l # n
          <6>1. k \in 1 .. fobs[cur] /\ l \in 1 .. fobs[cur] /\ k # n
            BY <1>5, <4>2, <5>0, <5>2
          <6>2. obs'[cur][k] = obs[cur][k] /\ obs'[cur][l] = obs[cur][l]
            BY <1>5, <5>0, <5>2, <6>1
          <6>. QED  BY <1>0, <4>2, <6>1, <6>2 DEF ObsStored
        <5>. QED  BY <5>1, <5>2
      <4>. QED  BY <2>2, <4>1, <4>2 DEF ObsStored
    <3>2. ASSUME NEW j \in 1 .. Len(buff'[cur]), buff'[cur][j].k = "obs"
          PROVE  /\ nobs'[cur] < buff'[cur][j].t /\ buff'[cur][j].t <= sent[cur]
                 /\ \A k \in 1 .. MaxObs : obs'[cur][k] < buff'[cur][j].t
                 /\ \A l \in 1 .. Len(buff'[cur]) :
                      l > j /\ buff'[cur][l].k = "obs" => buff'[cur][j].t < buff'[cur][l].t
      <4>0. WasBuffered(cur, j)
        BY <1>0, <1>1, StillBuffered
      <4>1. PICK h \in 1 .. Len(buff[cur]) :
               /\ cur = cur => h > 1
               /\ buff'[cur][j] = buff[cur][h]
               /\ \A l \in 1 .. Len(buff'[cur]) : l > j =>
                    \E g \in 1 .. Len(buff[cur]) : g > h /\ buff'[cur][l] = buff[cur][g]
        BY <4>0, Zenon DEF WasBuffered
      <4>2. /\ t < buff[cur][h].t /\ buff[cur][h].t <= sent[cur]
            /\ \A k \in 1 .. MaxObs : obs[cur][k] < buff[cur][h].t
            /\ \A g \in 1 .. Len(buff[cur]) : g > h /\ buff[cur][g].k = "obs" => buff[cur][h].t < buff[cur][g].t
        BY <1>0, <1>4, <3>2, <4>1 DEF Buffered
      <4>3. buff[cur][h].t \in Int
        <5>1. buff[cur][h] \in Msg
          BY <1>0, BuffSeq, ElementOfSeq DEF TypeOK
        <5>. QED  BY <3>2, <4>1, <5>1 DEF Msg, ObsMsg, BadMsg, L6Frame
      <4>4. nobs'[cur] < buff[cur][h].t
        <5>1. nobs[cur] \in Int /\ t \in Int /\ nobs'[cur] = nobs[cur] + 1 /\ nobs[cur] < t
          <6>1. nobs[cur] \in Int /\ t \in Int
            BY <1>0, <1>3, <1>6
          <6>2. nobs'[cur] = nobs[cur] + 1
            BY <1>5
          <6>. QED  BY <1>0, <1>4, <6>1, <6>2
        <5>. QED  BY <4>2, <4>3, <5>1
      <4>5. \A k \in 1 .. MaxObs : obs'[cur][k] < buff[cur][h].t
        BY <1>5, <4>2
      <4>6. ASSUME NEW l \in 1 .. Len(buff'[cur]), l > j, buff'[cur][l].k = "obs"
            PROVE  buff'[cur][j].t < buff'[cur][l].t
        <5>1. PICK g \in 1 .. Len(buff[cur]) : g > h /\ buff'[cur][l] = buff[cur][g]
          BY <4>1, <4>6
        <5>. QED  BY <4>1, <4>2, <4>6, <5>1
      <4>. QED  BY <4>1, <4>2, <4>4, <4>5, <4>6
    <3>3. Buffered(i)'
      BY <1>1, <2>2, <3>2 DEF Buffered
    <3>4. Counted(i)'
      <4>1. nobs'[cur] <= sent'[cur]
        <5>1. nobs[cur] \in Int /\ sent[cur] \in Int /\ t \in Int
          BY <1>0, <1>2, <1>3, <1>6
        <5>. QED  BY <1>1, <1>4, <1>5, <5>1
      <4>. QED  BY <1>0, <1>1, <1>4, <2>2, <4>1 DEF Counted
    <3>. QED  BY <3>1, <3>3, <3>4
  <2>. QED  BY <2>1, <2>2
<1>9. Given'
  <2>0. 0 \in Str /\ 1 \in Str /\ 1 \in 1 .. MaxObs
    BY DEF Str
  <2>1. ASSUME NEW j \in 1 .. Len(buff'[0]), buff'[0][j].k = "obs" PROVE given.rover < buff'[0][j].t
    <3>1. WasBuffered(0, j)
      BY <1>0, <1>1, <2>0, StillBuffered
    <3>. QED  BY <1>0, <2>1, <3>1 DEF Given, WasBuffered
  <2>2. given.base <= obs'[1][1]
    <3>1. given.base <= obs[1][1] /\ obs[1][1] \in Int
      BY <1>0, <1>6, <2>0 DEF Given
    <3>2. obs'[1][1] = obs[1][1] \/ (cur = 1 /\ obs'[1][1] = t)
      BY <1>5, <2>0
    <3>3. cur = 1 => obs[1][1] < t
      BY <1>4, <2>0
    <3>. QED  BY <1>2, <1>3, <3>1, <3>2, <3>3
  <2>3. ASSUME NEW k \in 1 .. fobs'[0] PROVE given.rover < obs'[0][k]
    <3>1. k \in 1 .. MaxObs /\ fobs[0] \in 0 .. MaxObs
      BY <1>5, <1>6, <2>0
    <3>2. CASE cur = 0 /\ k = n
      <4>1. obs'[0][k] = t
        BY <1>5, <3>1, <3>2
      <4>2. given.rover < t
        BY <1>0, <1>3, <3>2 DEF Given
      <4>. QED  BY <4>1, <4>2
    <3>3. CASE ~(cur = 0 /\ k = n)
      <4>1. k \in 1 .. fobs[0] /\ obs'[0][k] = obs[0][k]
        <5>1. CASE cur = 0
          BY <1>5, <3>1, <3>3, <5>1
        <5>2. CASE cur # 0
          <6>1. obs'[0] = obs[0] /\ fobs'[0] = fobs[0]
            BY <1>5, <2>0, <5>2
          <6>. QED  BY <6>1
        <5>. QED  BY <5>1, <5>2
      <4>. QED  BY <1>0, <1>1, <4>1 DEF Given, ToGive
    <3>. QED  BY <3>2, <3>3
  <2>4. given.n + fobs'[0] <= nobs'[0]
    <3>1. given.n + fobs[0] <= nobs[0]
      BY <1>0, <1>1 DEF Given
    <3>2. fobs[0] \in Int /\ nobs[0] \in Int
      BY <1>6, <2>0
    <3>3. CASE cur = 0
      BY <1>2, <1>5, <3>1, <3>2, <3>3, SMTT(30)
    <3>4. CASE cur # 0
      BY <1>5, <2>0, <3>1, <3>4
    <3>. QED  BY <3>3, <3>4
  <2>. QED  BY <1>0, <1>1, <2>1, <2>2, <2>3, <2>4 DEF Given, ToGive
<1>. QED  BY <1>0, <1>1, <1>7, <1>8, <1>9 DEF Ordered

\* The end of a buffer: what is left of it is dropped.
LEMMA DecodeEndOrdered ==
  ASSUME Ordered, DecodeEnd
  PROVE  Ordered'
<1>. USE DataAssumption
<1>0. TypeOK /\ (\A i \in Str : Buffered(i) /\ ObsStored(i) /\ Counted(i)) /\ Given /\ cur \in Str
  BY DEF Ordered, DecodeEnd
<1>1. /\ phase = "decode" /\ given' = given /\ sent' = sent /\ l6' = l6
      /\ obs' = obs /\ fobs' = fobs /\ nobs' = nobs /\ prcout' = prcout
      /\ buff' = [buff EXCEPT ![cur] = <<>>]
      /\ (phase' = "decode" /\ cur' \in Str) \/ (phase' = "pos" /\ cur' = 0)
  BY <1>0 DEF DecodeEnd, decVars, Str
<1>2. /\ buff' \in [Str -> BoundedSeq(Msg, MaxRead)]
      /\ \A i \in Str : i # cur => buff'[i] = buff[i]
      /\ \A j : j \notin 1 .. Len(buff'[cur])
  <2>1. <<>> \in BoundedSeq(Msg, MaxRead)
    <3>1. <<>> \in Seq(Msg) /\ Len(<<>>) <= MaxRead
      BY EmptySeq
    <3>. QED  BY <3>1, BuffSeq
  <2>2. buff \in [Str -> BoundedSeq(Msg, MaxRead)]
    BY <1>0 DEF TypeOK
  <2>3. buff'[cur] = <<>>
    BY <1>0, <1>1, <2>2
  <2>. QED  BY <1>0, <1>1, <2>1, <2>2, <2>3
<1>3. TypeOK'
  <2>1. cur' \in 0 .. MaxObs + 2 /\ phase' \in {"read", "decode", "pos"}
    BY <1>1 DEF Str
  <2>. QED  BY <1>0, <1>1, <1>2, <2>1 DEF TypeOK
<1>4. ASSUME NEW i \in Str PROVE Buffered(i)' /\ ObsStored(i)' /\ Counted(i)'
  <2>1. CASE i # cur
    BY <1>0, <1>1, <1>2, <2>1 DEF Buffered, ObsStored, Counted
  <2>2. CASE i = cur
    BY <1>0, <1>1, <1>2, <2>2 DEF Buffered, ObsStored, Counted
  <2>. QED  BY <2>1, <2>2
<1>5. Given'
  <2>1. ASSUME NEW j \in 1 .. Len(buff'[0]), buff'[0][j].k = "obs" PROVE given.rover < buff'[0][j].t
    <3>1. buff'[0] = buff[0]
      BY <1>2, <2>1 DEF Str
    <3>. QED  BY <1>0, <2>1, <3>1 DEF Given
  <2>2. ToGive' = ToGive /\ fobs[0] \in Int
    <3>1. fobs[0] \in Int
      BY <1>0 DEF TypeOK, Str
    <3>2. CASE phase' = "decode"
      BY <1>1, <3>1, <3>2 DEF ToGive
    <3>3. CASE phase' = "pos" /\ cur' = 0
      BY <1>1, <3>1, <3>3 DEF ToGive
    <3>. QED  BY <1>1, <3>1, <3>2, <3>3
  <2>3. ~(phase' = "read") /\ (phase' = "pos" => cur' = 0)
    BY <1>1
  <2>. QED  BY <1>0, <1>1, <2>1, <2>2, <2>3 DEF Given
<1>6. phase' = "pos" => cur' <= fobs'[0]
  BY <1>0, <1>1 DEF TypeOK, Str
<1>. QED  BY <1>1, <1>3, <1>4, <1>5, <1>6 DEF Ordered

\* The next input is read, or the bytes read are decoded.
LEMMA NextInputOrdered ==
  ASSUME Ordered, NextInput
  PROVE  Ordered'
<1>. USE DataAssumption
<1>0. /\ TypeOK /\ (\A i \in Str : Buffered(i) /\ ObsStored(i) /\ Counted(i)) /\ Given
      /\ phase = "read" /\ cur \in Str
  BY DEF Ordered, NextInput
<1>1. /\ given' = given /\ sent' = sent /\ l6' = l6 /\ buff' = buff
      /\ obs' = obs /\ nobs' = nobs /\ prcout' = prcout /\ fobs' = [i \in Str |-> 0]
      /\ cur' \in Str /\ phase' \in {"read", "decode"}
  BY <1>0 DEF NextInput, Str
<1>2. TypeOK'
  <2>1. cur' \in 0 .. MaxObs + 2 /\ phase' \in {"read", "decode", "pos"}
    BY <1>1 DEF Str
  <2>2. fobs' \in [Str -> 0 .. MaxObs]
    BY <1>1
  <2>. QED  BY <1>0, <1>1, <2>1, <2>2 DEF TypeOK
<1>3. ASSUME NEW i \in Str PROVE Buffered(i)' /\ ObsStored(i)' /\ Counted(i)'
  BY <1>0, <1>1 DEF Buffered, ObsStored, Counted
<1>4. Given'
  <2>1. ToGive' = {} /\ fobs'[0] = 0
    BY <1>1 DEF ToGive, Str
  <2>. QED  BY <1>0, <1>1, <2>1 DEF Given
<1>. QED  BY <1>1, <1>2, <1>3, <1>4 DEF Ordered

\* One call of rtkpos.
LEMMA RtkposOrdered ==
  ASSUME Ordered, Rtkpos
  PROVE  /\ Ordered'
         /\ given'.rover > given.rover /\ given'.base >= given.base
<1>. USE DataAssumption
<1>0. /\ TypeOK /\ (\A i \in Str : Buffered(i) /\ ObsStored(i) /\ Counted(i)) /\ Given
      /\ phase = "pos" /\ cur < fobs[0] /\ 0 \in Str /\ 1 \in Str /\ 1 \in 1 .. MaxObs
  BY DEF Ordered, Rtkpos, Str
<1>1. /\ phase' = "pos" /\ cur' = cur + 1 /\ sent' = sent /\ l6' = l6 /\ buff' = buff
      /\ obs' = obs /\ fobs' = fobs /\ nobs' = nobs
      /\ given' = [n |-> given.n + 1, rover |-> obs[0][cur + 1], base |-> obs[1][1]]
      /\ prcout' = prcout \/ prcout' = prcout + fobs[0] - cur - 1
  BY DEF Rtkpos
<1>2. /\ cur \in Nat /\ fobs[0] \in 0 .. MaxObs /\ cur + 1 \in 1 .. fobs[0] /\ cur + 1 \in 1 .. MaxObs
      /\ prcout \in Nat /\ nobs[0] \in 0 .. MaxEpoch /\ sent[0] \in Int
      /\ \A k \in 1 .. MaxObs : obs[0][k] \in 0 .. MaxEpoch /\ obs[1][k] \in 0 .. MaxEpoch
  <2>1. /\ cur \in 0 .. MaxObs + 2 /\ fobs \in [Str -> 0 .. MaxObs] /\ prcout \in Nat
        /\ nobs \in [Str -> 0 .. MaxEpoch] /\ sent \in [Str -> 0 .. MaxEpoch + MaxL6]
        /\ obs \in [Str -> [1 .. MaxObs -> 0 .. MaxEpoch]]
    BY <1>0 DEF TypeOK
  <2>2. cur \in Nat /\ fobs[0] \in 0 .. MaxObs
    BY <1>0, <2>1
  <2>3. cur + 1 \in 1 .. fobs[0] /\ cur + 1 \in 1 .. MaxObs
    BY <1>0, <2>2
  <2>. QED  BY <1>0, <2>1, <2>2, <2>3, SMTT(30)
<1>3. given.rover \in Int /\ given.base \in Int /\ given.n \in Nat
  <2>1. given \in [n : 0 .. MaxEpoch, rover : 0 .. MaxEpoch, base : 0 .. MaxEpoch]
    BY <1>0 DEF TypeOK
  <2>. QED  BY <2>1
<1>4. given.n + (fobs[0] - cur) <= nobs[0]
  BY <1>0 DEF Given
<1>5. /\ given'.n = given.n + 1 /\ given'.rover = obs[0][cur + 1] /\ given'.base = obs[1][1]
      /\ given' \in [n : 0 .. MaxEpoch, rover : 0 .. MaxEpoch, base : 0 .. MaxEpoch]
  <2>1. given.n + 1 \in 0 .. MaxEpoch
    BY <1>0, <1>2, <1>3, <1>4
  <2>2. obs[0][cur + 1] \in 0 .. MaxEpoch /\ obs[1][1] \in 0 .. MaxEpoch
    BY <1>0, <1>2
  <2>. QED  BY <1>1, <2>1, <2>2
<1>6. given.rover < obs[0][cur + 1] /\ given.base <= obs[1][1]
  BY <1>0, <1>2 DEF Given, ToGive
<1>7. TypeOK'
  <2>1. prcout' \in Nat /\ cur' \in 0 .. MaxObs + 2
    BY <1>0, <1>1, <1>2
  <2>. QED  BY <1>0, <1>1, <1>5, <2>1 DEF TypeOK
<1>8. ASSUME NEW i \in Str PROVE Buffered(i)' /\ ObsStored(i)' /\ Counted(i)'
  BY <1>0, <1>1 DEF Buffered, ObsStored, Counted
<1>9. Given'
  <2>1. given'.rover <= sent[0] /\ given'.base <= obs[1][1]
    BY <1>0, <1>2, <1>5 DEF ObsStored
  <2>2. ASSUME NEW k \in cur + 2 .. fobs[0] PROVE given'.rover < obs[0][k]
    BY <1>0, <1>2, <1>5 DEF ObsStored
  <2>3. \A j \in 1 .. Len(buff[0]) : buff[0][j].k = "obs" => given'.rover < buff[0][j].t
    BY <1>0, <1>2, <1>5 DEF Buffered
  <2>4. given'.n + (fobs[0] - cur') <= nobs[0]
    BY <1>0, <1>1, <1>2, <1>3, <1>4, <1>5
  <2>5. ToGive' = cur + 2 .. fobs[0]
    BY <1>1, <1>2 DEF ToGive
  <2>. QED  BY <1>1, <2>1, <2>2, <2>3, <2>4, <2>5 DEF Given
<1>10. Ordered'
  BY <1>0, <1>1, <1>2, <1>7, <1>8, <1>9 DEF Ordered
<1>. QED  BY <1>3, <1>5, <1>6, <1>10, <1>0, <1>2

\* The end of the cycle.
LEMMA CycleEndOrdered ==
  ASSUME Ordered, CycleEnd
  PROVE  Ordered'
<1>. USE DataAssumption
<1>0. /\ TypeOK /\ (\A i \in Str : Buffered(i) /\ ObsStored(i) /\ Counted(i)) /\ Given
      /\ phase = "pos" /\ cur = fobs[0]
  BY DEF Ordered, CycleEnd
<1>1. /\ phase' = "read" /\ cur' = 0 /\ buff' = buff /\ sent' = sent /\ fobs' = fobs /\ obs' = obs
      /\ nobs' = nobs /\ prcout' = prcout /\ given' = given /\ l6' = l6
  BY DEF CycleEnd, decVars
<1>2. TypeOK'
  <2>1. cur' \in 0 .. MaxObs + 2 /\ phase' \in {"read", "decode", "pos"}
    BY <1>1
  <2>. QED  BY <1>0, <1>1, <2>1 DEF TypeOK
<1>3. ASSUME NEW i \in Str PROVE Buffered(i)' /\ ObsStored(i)' /\ Counted(i)'
  BY <1>0, <1>1 DEF Buffered, ObsStored, Counted
<1>4. Given'
  <2>1. ToGive' = {} /\ fobs[0] \in Int
    BY <1>0, <1>1 DEF ToGive, TypeOK, Str
  <2>. QED  BY <1>0, <1>1, <2>1 DEF Given
<1>. QED  BY <1>1, <1>2, <1>3, <1>4 DEF Ordered, Str

LEMMA OrderedStep == Ordered /\ [Next]_vars => Ordered'
<1>. SUFFICES ASSUME Ordered, [Next]_vars PROVE Ordered'
  OBVIOUS
<1>. USE DataAssumption
<1>0. sent \in [Str -> 0 .. MaxEpoch + MaxL6] /\ \A i \in Str : Counted(i)
  BY DEF Ordered, TypeOK
<1>1. CASE ReceiveObs
  <2>1. /\ cur \in Str /\ cur \in ObsFrom /\ cur \notin ClasStr /\ sent[cur] < MaxEpoch /\ sent[cur] \in Nat
        /\ Receive(ObsMsg(sent[cur] + 1)) /\ sent' = [sent EXCEPT ![cur] = sent[cur] + 1]
    BY <1>0, <1>1 DEF ReceiveObs, Receive
  <2>2. ObsMsg(sent[cur] + 1) \in Msg
    BY <2>1 DEF Msg
  <2>3. ObsMsg(sent[cur] + 1).t = sent[cur] + 1
    BY DEF ObsMsg
  <2>. QED  BY <1>0, <2>1, <2>2, <2>3, ReceiveOrdered
<1>2. CASE ReceiveBad
  <2>1. cur \in Str /\ cur \notin ClasStr /\ Receive(BadMsg) /\ sent' = sent
    BY <1>2 DEF ReceiveBad, Receive
  <2>2. BadMsg \in Msg /\ BadMsg.k # "obs"
    BY DEF Msg, BadMsg
  <2>3. \A i \in Str : sent[i] \in Int
    BY <1>0
  <2>. QED  BY <1>0, <2>1, <2>2, <2>3, ReceiveOrdered DEF Counted
<1>3. CASE ReceiveL6
  <2>1. /\ cur \in Str /\ cur \in ClasStr /\ cur \notin ObsFrom /\ sent[cur] < MaxL6 /\ sent[cur] \in Nat
        /\ Receive(L6Frame(sent[cur] + 1)) /\ sent' = [sent EXCEPT ![cur] = sent[cur] + 1]
    BY <1>0, <1>3 DEF ReceiveL6, Receive
  <2>2. L6Frame(sent[cur] + 1) \in Msg /\ L6Frame(sent[cur] + 1).k # "obs"
    BY <2>1 DEF Msg, L6Frame
  <2>. QED  BY <1>0, <2>1, <2>2, ReceiveOrdered
<1>4. CASE DecodeBad
  <2>1. cur \in Str /\ buff[cur] # <<>> /\ Consume /\ l6' = l6 /\ UNCHANGED <<phase, cur, sent, decVars, given>>
    BY <1>4 DEF DecodeBad, Decoding, Ordered
  <2>2. l6' \in 0 .. MaxL6
    BY <2>1 DEF Ordered, TypeOK
  <2>. QED  BY <2>1, <2>2, DropOrdered
<1>5. CASE DecodeL6
  <2>1. /\ cur \in Str /\ buff[cur] # <<>> /\ Consume /\ UNCHANGED <<phase, cur, sent, decVars, given>>
        /\ Head(buff[cur]).k = "l6" /\ l6' = Head(buff[cur]).t
    BY <1>5 DEF DecodeL6, Decoding, Ordered
  <2>2. Head(buff[cur]) \in Msg
    BY <2>1, Consumed
  <2>3. l6' \in 0 .. MaxL6
    BY <2>1, <2>2 DEF Msg, ObsMsg, BadMsg, L6Frame
  <2>. QED  BY <2>1, <2>3, DropOrdered
<1>6. CASE UNCHANGED vars
  <2>1. TypeOK' /\ \A i \in Str : Buffered(i)' /\ ObsStored(i)' /\ Counted(i)'
    <3>1. TypeOK'
      BY <1>6 DEF vars, decVars, Ordered, TypeOK
    <3>2. ASSUME NEW i \in Str PROVE Buffered(i)' /\ ObsStored(i)' /\ Counted(i)'
      <4>1. /\ buff' = buff /\ obs' = obs /\ nobs' = nobs /\ fobs' = fobs /\ sent' = sent
            /\ Buffered(i) /\ ObsStored(i) /\ Counted(i)
        BY <1>6 DEF vars, decVars, Ordered
      <4>. QED  BY <4>1 DEF Buffered, ObsStored, Counted
    <3>. QED  BY <3>1, <3>2
  <2>2. Given'
    BY <1>6 DEF vars, Ordered, Given, ToGive
  <2>. QED  BY <1>6, <2>1, <2>2 DEF vars, Ordered
<1>. QED  BY <1>1, <1>2, <1>3, <1>4, <1>5, <1>6, DecodeObsOrdered, DecodeEndOrdered, NextInputOrdered,
             RtkposOrdered, CycleEndOrdered DEF Next, Decode

\* rtkpos is given the rover epochs in order and none twice, and a base epoch that never
\* goes back, however the messages of the inputs are mixed with broken ones.
THEOREM EpochsInOrderHolds == Spec => EpochsInOrder
<1>1. Ordered => TypeOK
  BY DEF Ordered
<1>2. Ordered /\ [Next]_vars =>
        [given'.n # given.n => given'.rover > given.rover /\ given'.base >= given.base]_vars
  <2>. SUFFICES ASSUME Ordered, Next, given'.n # given.n
                PROVE  given'.rover > given.rover /\ given'.base >= given.base
    BY DEF vars
  <2>1. Rtkpos
    BY DEF Next, ReceiveObs, ReceiveBad, ReceiveL6, Receive, NextInput, Decode, DecodeObs, DecodeBad,
           DecodeL6, DecodeEnd, CycleEnd
  <2>. QED  BY <2>1, RtkposOrdered
<1>. QED  BY <1>1, <1>2, OrderedInit, OrderedStep, PTL DEF Spec, EpochsInOrder

-----------------------------------------------------------------------------
(* The filter: the phase-biases of a satellite, for any views, slips and      *)
(* number of outages and of filter iterations, with detslp_dop or without.    *)

\* A flag, or a change of the code or of the half-cycle flag, that the filter meets when it
\* looks at the phase again.
Pending(f) ==
    \/ \E r \in Recv : recode[<<r, f>>] = "other"
    \/ (half[f] \/ (back /\ saved[f])) /\ (f \in bview => lli[f] # "none")
    \/ ~back /\ lli[f] = "slip"

\* A stale phase-bias came about untold, in front of a geometry-free phase that shows it or
\* of none, or will be told of.
Explained(f) ==
    /\ bias[f] = "stale" => \/ lost[f] = "blind"
                            \/ lost[f] = "yes" /\ gf = "moved"
                            \/ lost[f] = "no" /\ gf # "same" /\ Pending(f)
    /\ lost[f] # "no" => bias[f] = "stale"
    /\ bias[f] # "none" => begun /\ \A r \in Recv : recode[<<r, f>>] # "new"
    /\ lli[f] # "none" => f \in bview
    /\ saved[f] => begun

BiasStrong == BiasInv /\ \A f \in F : Explained(f)

\* Pending, once the arcs have moved on to those of the epoch.
Comes(v, again, e, f) ==
    \/ \E r \in Recv : Recoded(e)[<<r, f>>] = "other"
    \/ (Half(e)[f] \/ (back /\ saved[f])) /\ (f \in v[2] => Lli(v, again, e)[f] # "none")
    \/ ~back /\ Lli(v, again, e)[f] = "slip"

\* The values of what moves with the arcs.
LEMMA AgedTypes ==
  ASSUME BiasStrong, NEW v \in Views, NEW again \in BOOLEAN, NEW e \in Slips(v, again),
         NEW fs \in SUBSET F
  PROVE  /\ AmbAged(v, again, e) \in [F -> {"none", "good", "stale"}]
         /\ GfAged(v, again, e) \in {"none", "same", "moved"}
         /\ Lost(v, again, e, fs) \in [F -> {"no", "yes", "blind"}]
         /\ Owed(v, again, e) \in [Recv \X F -> BOOLEAN]
         /\ Lli(v, again, e) \in [F -> {"none", "plain", "slip"}]
         /\ Half(e) \in [F -> BOOLEAN]
         /\ Recoded(e) \in [Recv \X F -> {"new", "same", "other"}]
         /\ v[2] \subseteq F
<1>. USE DEF BiasStrong, BiasInv, BiasTypeOK
<1>1. AmbAged(v, again, e) \in [F -> {"none", "good", "stale"}]
  BY DEF AmbAged
<1>2. GfAged(v, again, e) \in {"none", "same", "moved"}
  BY DEF GfAged
<1>3. Lost(v, again, e, fs) \in [F -> {"no", "yes", "blind"}]
  BY DEF Lost
<1>4. Owed(v, again, e) \in [Recv \X F -> BOOLEAN]
  <2>1. \A p \in Recv \X F :
          (back /\ IF p \in Tracked(v) /\ New(again, p) THEN Flagged(e, p) ELSE owed[p]) \in BOOLEAN
    BY DEF Flagged
  <2>. QED  BY <2>1 DEF Owed
<1>5. Lli(v, again, e) \in [F -> {"none", "plain", "slip"}]
  BY DEF Lli
<1>6. Half(e) \in [F -> BOOLEAN]
  BY DEF Half
<1>7. Recoded(e) \in [Recv \X F -> {"new", "same", "other"}]
  BY DEF Recoded
<1>8. v[2] \subseteq F
  BY PhaseAssumption DEF Recv
<1>. QED  BY <1>1, <1>2, <1>3, <1>4, <1>5, <1>6, <1>7, <1>8

\* The slips of an epoch, one by one.
LEMMA SlipKinds ==
  ASSUME NEW v, NEW again, NEW e \in Slips(v, again)
  PROVE  \/ e = NoSlip /\ e.at = <<0, 0>> /\ e.at \notin Recv \X F
         \/ /\ e.kind \in {"lli", "code", "undone", "half", "silent"}
            /\ e = [kind |-> e.kind, at |-> e.at] /\ e.at \in Tracked(v) /\ New(again, e.at)
            /\ e.kind = "undone" => recode[e.at] = "other"
            /\ e.kind = "half" => e.at[1] = 2
  BY DEF Slips, NoSlip, Recv, F

\* What the arcs of an epoch do to a phase-bias that becomes or stays stale: the filter
\* can see the slip in this epoch or later, or it is counted as lost.
LEMMA AgedStep ==
  ASSUME BiasStrong, NEW v \in Views, NEW again \in BOOLEAN, again => v[2] = bview,
         NEW e \in Slips(v, again), NEW f \in F, AmbAged(v, again, e)[f] = "stale"
  PROVE  \/ Lost(v, again, e, {})[f] = "blind"
         \/ Lost(v, again, e, {})[f] = "yes" /\ GfAged(v, again, e) = "moved"
         \/ /\ Lost(v, again, e, {})[f] = "no" /\ GfAged(v, again, e) # "same"
            /\ Comes(v, again, e, f)
<1>0. Explained(f)
  BY DEF BiasStrong
<1>1. /\ bias[f] \in {"good", "stale"} /\ gf \in {"none", "same", "moved"}
      /\ lost[f] \in {"no", "yes", "blind"}
  BY DEF AmbAged, BiasStrong, BiasInv, BiasTypeOK
<1>2. bias[f] # "stale" => \E p \in Moved(v, again, e) : p[2] = f
  BY DEF AmbAged, Slipped
<1>3. CASE f \in Untold(v, again, e)
  <2>1. Lost(v, again, e, {})[f] = IF gf = "none" \/ lost[f] = "blind" THEN "blind" ELSE "yes"
    BY <1>3 DEF Lost
  <2>2. CASE gf = "same" /\ lost[f] # "blind"
    <3>1. bias[f] # "stale"
      BY <1>0, <2>2 DEF Explained
    <3>2. GfAged(v, again, e) = "moved"
      BY <1>2, <2>2, <3>1 DEF GfAged
    <3>. QED  BY <2>1, <2>2, <3>2
  <2>3. gf = "moved" => GfAged(v, again, e) = "moved"
    BY DEF GfAged
  <2>. QED  BY <1>1, <2>1, <2>2, <2>3
<1>4. CASE f \notin Untold(v, again, e)
  <2>1. Lost(v, again, e, {})[f] = lost[f]
    BY <1>4 DEF Lost
  <2>p. \A p \in Moved(v, again, e) : p[2] = f =>
          /\ (back /\ owed[p]) => (p[1] # 1 /\ saved[f])
          /\ e.at = p => /\ e.kind \notin {"silent", "undone"}
                         /\ e.kind = "lli" => p[1] # 1
                         /\ e.kind = "half" => Half(e)[f]
                         /\ e.kind = "code" => Recoded(e)[p] = "other"
    BY <1>4 DEF Untold
  <2>t. ~again => \/ f \notin v[2]
                  \/ Lli(v, again, e)[f] # "none"
    BY DEF Lli
  <2>2. CASE bias[f] = "stale"
    <3>1. gf = "moved" => GfAged(v, again, e) = "moved"
      BY DEF GfAged
    <3>2. CASE lost[f] = "no" /\ gf # "same" /\ Pending(f)
      <4>1. GfAged(v, again, e) # "same"
        BY <3>2 DEF GfAged
      <4>2. Comes(v, again, e, f)
        <5>1. ASSUME NEW r \in Recv, recode[<<r, f>>] = "other"
              PROVE  Recoded(e)[<<r, f>>] = "other"
          <6>1. CASE e.at = <<r, f>> /\ e.kind = "undone"
            <7>1. <<r, f>> \in Moved(v, again, e)
              BY <6>1, SlipKinds DEF Moved
            <7>. QED  BY <2>p, <6>1, <7>1
          <6>2. CASE ~(e.at = <<r, f>> /\ e.kind = "undone")
            BY <5>1, <6>2 DEF Recoded
          <6>. QED  BY <6>1, <6>2
        <5>2. half[f] => Half(e)[f]
          <6>1. CASE e = [kind |-> "half", at |-> <<2, f>>]
            <7>1. <<2, f>> \in Moved(v, again, e)
              BY <6>1, SlipKinds DEF Moved, NoSlip
            <7>. QED  BY <2>p, <6>1, <7>1
          <6>2. CASE e # [kind |-> "half", at |-> <<2, f>>]
            BY <6>2 DEF Half, BiasStrong, BiasInv, BiasTypeOK
          <6>. QED  BY <6>1, <6>2
        <5>3. again => Lli(v, again, e)[f] = lli[f]
          BY DEF Lli
        <5>4. (f \in bview => lli[f] # "none") => (f \in v[2] => Lli(v, again, e)[f] # "none")
          BY <2>t, <5>3
        <5>5. ~back /\ lli[f] = "slip" => Lli(v, again, e)[f] = "slip"
          BY <1>4, <5>3 DEF Untold
        <5>. QED  BY <3>2, <5>1, <5>2, <5>4, <5>5, Zenon DEF Pending, Comes
      <4>. QED  BY <2>1, <3>2, <4>1, <4>2
    <3>. QED  BY <1>0, <2>1, <2>2, <3>1, <3>2 DEF Explained
  <2>3. CASE bias[f] # "stale"
    <3>1. lost[f] = "no"
      BY <1>0, <2>3 DEF Explained
    <3>2. PICK p \in Moved(v, again, e) : p[2] = f
      BY <1>2, <2>3
    <3>3. GfAged(v, again, e) # "same"
      BY DEF GfAged
    <3>4. p \in Tracked(v) /\ \E r \in Recv : p = <<r, f>>
      BY <3>2 DEF Moved, Tracked
    <3>5. Comes(v, again, e, f)
      <4>1. CASE back /\ owed[p]
        <5>1. p = <<2, f>> /\ saved[f]
          BY <2>p, <3>2, <3>4, <4>1 DEF Recv
        <5>2. ~again
          BY <3>2, <5>1, SlipKinds DEF Moved, New
        <5>3. back /\ saved[f] /\ (f \in v[2] => Lli(v, again, e)[f] # "none")
          BY <2>t, <4>1, <5>1, <5>2
        <5>. QED  BY <5>3 DEF Comes
      <4>2. CASE ~(back /\ owed[p])
        <5>1. e.at = p /\ (back => e.kind # "lli")
          BY <3>2, <4>2 DEF Moved
        <5>2. /\ e.kind \in {"lli", "code", "half"} /\ e = [kind |-> e.kind, at |-> p]
              /\ New(again, p) /\ (e.kind \in {"half", "lli"} => p = <<2, f>>)
          BY <2>p, <3>2, <3>4, <5>1, SlipKinds DEF Tracked, Recv
        <5>3. CASE e.kind = "code"
          <6>1. PICK r \in Recv : p = <<r, f>>
            BY <3>4
          <6>2. Recoded(e)[<<r, f>>] = "other"
            BY <2>p, <3>2, <5>1, <5>3, <6>1
          <6>. QED  BY <6>2 DEF Comes
        <5>4. CASE e.kind = "half"
          <6>1. Half(e)[f] /\ ~again
            BY <2>p, <3>2, <5>1, <5>2, <5>4 DEF New
          <6>2. f \in v[2] => Lli(v, again, e)[f] # "none"
            BY <2>t, <6>1
          <6>. QED  BY <6>1, <6>2 DEF Comes
        <5>5. CASE e.kind = "lli"
          <6>1. ~back /\ ~again /\ f \in v[2]
            BY <3>4, <5>1, <5>2, <5>5 DEF New, Tracked
          <6>2. Lli(v, again, e)[f] = "slip"
            BY <5>2, <5>5, <6>1 DEF Lli, Flagged
          <6>. QED  BY <6>1, <6>2 DEF Comes
        <5>. QED  BY <5>2, <5>3, <5>4, <5>5
      <4>. QED  BY <4>1, <4>2
    <3>. QED  BY <2>1, <3>1, <3>3, <3>5
  <2>. QED  BY <2>2, <2>3
<1>. QED  BY <1>3, <1>4

\* A phase-bias counted as lost is stale, and what frequencies fs are counted on top of it.
LEMMA LostStale ==
  ASSUME BiasStrong, NEW v \in Views, NEW again \in BOOLEAN, NEW e \in Slips(v, again),
         NEW fs \in SUBSET F, NEW f \in F
  PROVE  /\ Lost(v, again, e, fs)[f] # "no" => AmbAged(v, again, e)[f] = "stale"
         /\ f \notin fs => Lost(v, again, e, fs)[f] = Lost(v, again, e, {})[f]
         /\ f \in fs /\ AmbAged(v, again, e)[f] = "stale" =>
              Lost(v, again, e, fs)[f] = IF gf = "none" \/ lost[f] = "blind" THEN "blind" ELSE "yes"
         /\ Lost(v, again, e, {})[f] = "blind" => gf = "none" \/ lost[f] = "blind"
<1>1. lost[f] # "no" => AmbAged(v, again, e)[f] = "stale"
  BY DEF AmbAged, BiasStrong, Explained
<1>. QED  BY <1>1 DEF Lost

\* Codes and indicators stay what a phase-bias needs.
LEMMA AgedSeen ==
  ASSUME BiasStrong, NEW v \in Views, NEW again \in BOOLEAN, again => v[2] = bview,
         NEW e \in Slips(v, again), NEW f \in F
  PROVE  /\ AmbAged(v, again, e)[f] # "none" => begun /\ \A r \in Recv : Recoded(e)[<<r, f>>] # "new"
         /\ Lli(v, again, e)[f] # "none" => f \in v[2]
<1>1. Explained(f)
  BY DEF BiasStrong
<1>2. ASSUME AmbAged(v, again, e)[f] # "none", NEW r \in Recv PROVE begun /\ Recoded(e)[<<r, f>>] # "new"
  <2>1. begun /\ recode[<<r, f>>] # "new"
    BY <1>1, <1>2 DEF AmbAged, Explained
  <2>. QED  BY <2>1 DEF Recoded
<1>3. Lli(v, again, e)[f] # "none" => f \in v[2]
  BY <1>1 DEF Lli, Explained
<1>. QED  BY <1>2, <1>3, <1>1 DEF AmbAged, Explained

\* An epoch the filter does not look at keeps the invariant.
LEMMA SkippedStrong ==
  ASSUME BiasStrong, NEW v \in Views, NEW again \in BOOLEAN, again => v[2] = bview,
         EpochSkipped(v, again)
  PROVE  BiasStrong'
<1>1. PICK e \in Slips(v, again) :
        /\ Unseen(v, again, e) /\ lli' = Lli(v, again, e) /\ begun' \in {begun, TRUE}
        /\ bias' = AmbAged(v, again, e) /\ lost' = Lost(v, again, e, {}) /\ UNCHANGED outc
  BY DEF EpochSkipped
<1>2. {} \in SUBSET F
  OBVIOUS
<1>3. BiasInv'
  <2>1. BiasTypeOK'
    BY <1>1, <1>2, AgedTypes DEF Unseen, BiasStrong, BiasInv, BiasTypeOK
  <2>. QED  BY <1>1, <2>1 DEF Unseen, BiasInv
<1>4. ASSUME NEW f \in F PROVE Explained(f)'
  <2>1. bias'[f] = "stale" => \/ lost'[f] = "blind"
                              \/ lost'[f] = "yes" /\ gf' = "moved"
                              \/ lost'[f] = "no" /\ gf' # "same" /\ Comes(v, again, e, f)
    BY <1>1, AgedStep DEF Unseen
  <2>2. Comes(v, again, e, f) => Pending(f)'
    BY <1>1, Zenon DEF Unseen, Comes, Pending
  <2>3. lost'[f] # "no" => bias'[f] = "stale"
    BY <1>1, <1>2, LostStale
  <2>b. begun => begun'
    BY <1>1, Zenon
  <2>4. /\ bias'[f] # "none" => begun /\ \A r \in Recv : recode'[<<r, f>>] # "new"
        /\ lli'[f] # "none" => f \in bview'
    <3>1. bias' = AmbAged(v, again, e) /\ recode' = Recoded(e) /\ lli' = Lli(v, again, e) /\ bview' = v[2]
      BY <1>1 DEF Unseen
    <3>. QED  BY <3>1, AgedSeen
  <2>5. saved'[f] => begun
    BY <1>1 DEF Unseen, BiasStrong, Explained
  <2>. QED  BY <2>1, <2>2, <2>3, <2>4, <2>5, <2>b, Zenon DEF Explained
<1>. QED  BY <1>3, <1>4 DEF BiasStrong

LEMMA OutcTypes ==
  ASSUME BiasStrong
  PROVE  OutcNext \in [F -> 0 .. MaxOut + 1]
BY PhaseAssumption DEF OutcNext, Expired, BiasStrong, BiasInv, BiasTypeOK

\* So does one in which it runs on other satellites.
LEMMA WithoutStrong ==
  ASSUME BiasStrong, NEW v \in Views, NEW again \in BOOLEAN, again => v[2] = bview,
         EpochWithout(v, again)
  PROVE  BiasStrong'
<1>1. PICK e \in Slips(v, again) :
        LET passed == {f \in F : BaseTells(v, again, e, f)} IN
        /\ Unseen(v, again, e) /\ lli' = [f \in F |-> "none"] /\ begun' = TRUE
        /\ bias' = Unexpired(AmbAged(v, again, e)) /\ outc' = OutcNext
        /\ lost' = [f \in F |-> IF Expired(f) THEN "no" ELSE Lost(v, again, e, passed)[f]]
  BY DEF EpochWithout
<1>. DEFINE passed == {f \in F : BaseTells(v, again, e, f)}
<1>2. /\ passed \in SUBSET F /\ {} \in SUBSET F
      /\ lost' = [f \in F |-> IF Expired(f) THEN "no" ELSE Lost(v, again, e, passed)[f]]
  BY <1>1
<1>3. \A f \in F : f \in passed <=> BaseTells(v, again, e, f)
  OBVIOUS
<1>. HIDE DEF passed
<1>4. BiasInv'
  <2>1. bias' \in [F -> {"none", "good", "stale"}] /\ lost' \in [F -> {"no", "yes", "blind"}]
    <3>1. /\ \A f \in F : AmbAged(v, again, e)[f] \in {"none", "good", "stale"}
          /\ \A f \in F : Lost(v, again, e, passed)[f] \in {"no", "yes", "blind"}
      BY <1>2, AgedTypes
    <3>. QED  BY <1>1, <1>2, <3>1 DEF Unexpired
  <2>2. lli' \in [F -> {"none", "plain", "slip"}]
    BY <1>1
  <2>3. BiasTypeOK'
    BY <1>1, <1>2, <2>1, <2>2, AgedTypes, OutcTypes DEF Unseen, BiasStrong, BiasInv, BiasTypeOK
  <2>. QED  BY <1>1, <2>3 DEF Unseen, BiasInv
<1>5. ASSUME NEW f \in F, bias'[f] # "none"
      PROVE  ~Expired(f) /\ bias'[f] = AmbAged(v, again, e)[f]
  BY <1>1, <1>5 DEF Unexpired
<1>6. ASSUME NEW f \in F PROVE Explained(f)'
  <2>1. ASSUME bias'[f] = "stale"
        PROVE  \/ lost'[f] = "blind"
               \/ lost'[f] = "yes" /\ gf' = "moved"
               \/ lost'[f] = "no" /\ gf' # "same" /\ Pending(f)'
    <3>1. AmbAged(v, again, e)[f] = "stale" /\ lost'[f] = Lost(v, again, e, passed)[f]
      BY <1>2, <1>5, <2>1
    <3>2. \/ Lost(v, again, e, {})[f] = "blind"
          \/ Lost(v, again, e, {})[f] = "yes" /\ gf' = "moved"
          \/ Lost(v, again, e, {})[f] = "no" /\ gf' # "same" /\ Comes(v, again, e, f)
      BY <1>1, <3>1, AgedStep DEF Unseen
    <3>3. CASE f \in passed
      <4>1. lost'[f] = IF gf = "none" \/ lost[f] = "blind" THEN "blind" ELSE "yes"
        BY <1>2, <3>1, <3>3, LostStale
      <4>2. gf' # "same" /\ gf # "none" => gf' = "moved"
        BY <1>1 DEF Unseen, GfAged, BiasStrong, BiasInv, BiasTypeOK
      <4>3. Lost(v, again, e, {})[f] = "blind" => gf = "none" \/ lost[f] = "blind"
        BY <1>2, LostStale
      <4>. QED  BY <3>2, <4>1, <4>2, <4>3
    <3>4. CASE f \notin passed
      <4>1. lost'[f] = Lost(v, again, e, {})[f]
        BY <1>2, <3>1, <3>4, LostStale
      <4>2. ASSUME Comes(v, again, e, f) PROVE Pending(f)'
        <5>1. saved[f] => begun
          BY DEF BiasStrong, Explained
        <5>2. ~BaseTells(v, again, e, f)
          BY <1>3, <3>4
        <5>3. ~(~back /\ Lli(v, again, e)[f] = "slip")
          BY <5>2 DEF BaseTells
        <5>4. (Half(e)[f] \/ (back /\ saved[f])) /\ (f \in v[2] => Lli(v, again, e)[f] # "none")
                => f \notin v[2]
          BY <5>1, <5>2, Zenon DEF BaseTells
        <5>5. CASE \E r \in Recv : Recoded(e)[<<r, f>>] = "other"
          BY <1>1, <5>5 DEF Unseen, Pending
        <5>6. CASE (Half(e)[f] \/ (back /\ saved[f])) /\ f \notin v[2]
          BY <1>1, <5>6, Zenon DEF Unseen, Pending
        <5>. QED  BY <4>2, <5>3, <5>4, <5>5, <5>6, Zenon DEF Comes
      <4>. QED  BY <3>2, <4>1, <4>2
    <3>. QED  BY <3>3, <3>4
  <2>2. lost'[f] # "no" => bias'[f] = "stale"
    BY <1>1, <1>2, LostStale, AgedTypes DEF Unexpired
  <2>3. bias'[f] # "none" => begun' /\ \A r \in Recv : recode'[<<r, f>>] # "new"
    BY <1>1, <1>5, AgedSeen DEF Unseen
  <2>4. lli'[f] = "none" /\ begun'
    BY <1>1
  <2>. QED  BY <2>1, <2>2, <2>3, <2>4 DEF Explained
<1>. QED  BY <1>4, <1>6 DEF BiasStrong

\* A stale phase-bias that no slip is told of while one is still to be met: the satellite's
\* phase is not there at both receivers, and what is to be met stays.
LEMMA InAged ==
  ASSUME BiasStrong, NEW v \in Views, NEW again \in BOOLEAN, again => v[2] = bview,
         NEW e \in Slips(v, again), NEW f \in F \ Told(v, again, e), Comes(v, again, e, f)
  PROVE  \/ \E r \in Recv : f \notin v[r] /\ Recoded(e)[<<r, f>>] = "other"
         \/ f \notin v[2] /\ Lli(v, again, e)[f] = "none" /\ (Half(e)[f] \/ (back /\ saved[f]))
<1>1. saved[f] => begun
  BY DEF BiasStrong, Explained
<1>2. ~BaseTells(v, again, e, f)
  BY DEF Told
<1>3. ASSUME NEW r \in Recv, Recoded(e)[<<r, f>>] = "other" PROVE f \notin v[r]
  <2>1. <<r, f>> \notin Tracked(v)
    BY <1>3, Zenon DEF Told
  <2>. QED  BY <2>1 DEF Tracked
<1>4. ~(~back /\ Lli(v, again, e)[f] = "slip")
  BY <1>2 DEF BaseTells
<1>5. Lli(v, again, e)[f] # "none" => f \in v[2]
  BY AgedSeen
<1>6. (Half(e)[f] \/ (back /\ saved[f])) => Lli(v, again, e)[f] = "none"
  BY <1>1, <1>2, Zenon DEF BaseTells
<1>. QED  BY <1>3, <1>4, <1>5, <1>6, Zenon DEF Comes

\* An epoch with the satellite among the common ones keeps the invariant, whatever slips
\* detslp_dop adds to those that are told.
LEMMA FilteredStrong ==
  ASSUME BiasStrong, NEW v \in Views, NEW again \in BOOLEAN, again => v[2] = bview,
         NEW e \in Slips(v, again), NEW told \in SUBSET F, Told(v, again, e) \subseteq told,
         Filtered(v, again, e, told)
  PROVE  BiasStrong'
<1>. DEFINE both == v[1] \cap v[2]
            slip == IF Compared(v, told) /\ GfAged(v, again, e) = "moved" THEN F ELSE told
            anew == slip \cup {f \in F : rejc[f] >= 2}
            kept == Carried(v, again, e, anew)
<1>1. /\ lli' = [f \in F |-> "none"]
      /\ saved' = [f \in F |-> back /\ IF Lli(v, again, e)[f] = "none" THEN saved[f]
                                       ELSE Lli(v, again, e)[f] = "slip"]
      /\ half' = [f \in F |-> Lli(v, again, e)[f] = "none" /\ Half(e)[f]]
      /\ recode' = [p \in Recv \X F |-> IF p \in Tracked(v) THEN "same" ELSE Recoded(e)[p]]
      /\ gf' = IF Compared(v, told) THEN "same" ELSE GfAged(v, again, e)
      /\ owed' = Owed(v, again, e) /\ bview' = v[2] /\ begun' = TRUE
      /\ lost' = [f \in F |-> IF kept[f] = "none" THEN "no" ELSE Lost(v, again, e, {})[f]]
      /\ back' = back
  BY DEF Filtered
<1>c. PICK codes \in SUBSET both :
        /\ bias' = [f \in F |-> IF f \in codes /\ kept[f] = "none" THEN "good" ELSE kept[f]]
        /\ \E bad \in SUBSET both, ok \in BOOLEAN :
             /\ \A f \in both : bias'[f] = "none" => f \in bad
             /\ rejc' = [f \in F |-> LET n == (IF f \in anew THEN 0 ELSE rejc[f]) + (IF f \in bad THEN Passes ELSE 0)
                                     IN  IF n > 2 THEN 2 ELSE n]
             /\ outc' = [f \in F |-> IF ok /\ f \in codes THEN 0 ELSE OutcNext[f]]
             /\ used' = IF ok THEN {f \in both \ bad : bias'[f] = "stale"} ELSE {}
             /\ checked' = (Compared(v, told) /\ used' # {})
             /\ unheeded' = {f \in used' : \E r \in Recv : Flagged(e, <<r, f>>)}
  BY DEF Filtered
<1>. HIDE DEF both, slip, anew, kept
<1>b. PICK bad \in SUBSET both, ok \in BOOLEAN :
        /\ \A f \in both : bias'[f] = "none" => f \in bad
        /\ rejc' = [f \in F |-> LET n == (IF f \in anew THEN 0 ELSE rejc[f]) + (IF f \in bad THEN Passes ELSE 0)
                                IN  IF n > 2 THEN 2 ELSE n]
        /\ outc' = [f \in F |-> IF ok /\ f \in codes THEN 0 ELSE OutcNext[f]]
        /\ used' = IF ok THEN {f \in both \ bad : bias'[f] = "stale"} ELSE {}
        /\ checked' = (Compared(v, told) /\ used' # {})
        /\ unheeded' = {f \in used' : \E r \in Recv : Flagged(e, <<r, f>>)}
  BY <1>c, Zenon
<1>. USE DEF both, slip, anew, kept
<1>2. /\ bias' = [f \in F |-> IF f \in codes /\ kept[f] = "none" THEN "good" ELSE kept[f]]
      /\ outc' = [f \in F |-> IF ok /\ f \in codes THEN 0 ELSE OutcNext[f]]
      /\ used' = IF ok THEN {f \in both \ bad : bias'[f] = "stale"} ELSE {}
      /\ checked' = (Compared(v, told) /\ used' # {})
      /\ unheeded' = {f \in used' : \E r \in Recv : Flagged(e, <<r, f>>)}
  BY <1>b, <1>c, Zenon
<1>3. /\ both \subseteq F /\ {} \in SUBSET F
      /\ \A r \in Recv : r \in {1, 2} /\ v[r] \subseteq F
  BY PhaseAssumption DEF Recv
<1>4. /\ told \subseteq slip /\ told \subseteq anew
      /\ Compared(v, told) /\ GfAged(v, again, e) = "moved" => F \subseteq anew
  OBVIOUS
<1>5. \A f \in F : /\ kept[f] # "none" => f \notin anew /\ kept[f] = AmbAged(v, again, e)[f]
                   /\ kept[f] \in {"none", "good", "stale"}
  BY <1>3, AgedTypes DEF Carried, Unexpired
<1>. HIDE DEF slip, kept
<1>6. BiasTypeOK'
  <2>1. bias' \in [F -> {"none", "good", "stale"}]
    BY <1>2, <1>5
  <2>2. lost' \in [F -> {"no", "yes", "blind"}]
    BY <1>1, <1>3, AgedTypes
  <2>3. outc' \in [F -> 0 .. MaxOut + 1]
    BY <1>2, OutcTypes, PhaseAssumption
  <2>4. rejc' \in [F -> 0 .. 2]
    <3>1. \A f \in F : rejc[f] \in 0 .. 2
      BY DEF BiasStrong, BiasInv, BiasTypeOK
    <3>. HIDE DEF anew, both
    <3>2. \A f \in F : (IF f \in anew THEN 0 ELSE rejc[f]) + (IF f \in bad THEN Passes ELSE 0) \in Nat
      BY <3>1, PhaseAssumption
    <3>3. rejc' = [f \in F |-> LET n == (IF f \in anew THEN 0 ELSE rejc[f]) + (IF f \in bad THEN Passes ELSE 0)
                               IN  IF n > 2 THEN 2 ELSE n]
      BY <1>b, Zenon
    <3>. QED  BY <3>2, <3>3
  <2>5. /\ saved' \in [F -> BOOLEAN] /\ half' \in [F -> BOOLEAN]
        /\ lli' \in [F -> {"none", "plain", "slip"}]
    <3>1. \A f \in F : /\ (back /\ IF Lli(v, again, e)[f] = "none" THEN saved[f]
                                   ELSE Lli(v, again, e)[f] = "slip") \in BOOLEAN
                       /\ (Lli(v, again, e)[f] = "none" /\ Half(e)[f]) \in BOOLEAN
      BY DEF BiasStrong, BiasInv, BiasTypeOK
    <3>. QED  BY <1>1, <3>1
  <2>6. recode' \in [Recv \X F -> {"new", "same", "other"}]
    BY <1>1, <1>3, AgedTypes
  <2>7. gf' \in {"none", "same", "moved"} /\ owed' \in [Recv \X F -> BOOLEAN] /\ bview' \subseteq F
    BY <1>1, <1>3, AgedTypes
  <2>8. used' \subseteq F /\ checked' \in BOOLEAN /\ unheeded' \subseteq F
    BY <1>2, <1>3
  <2>9. back' \in BOOLEAN /\ begun' \in BOOLEAN
    BY <1>1 DEF BiasStrong, BiasInv, BiasTypeOK
  <2>. QED  BY <2>1, <2>2, <2>3, <2>4, <2>5, <2>6, <2>7, <2>8, <2>9 DEF BiasTypeOK
\* what a stale phase-bias after the epoch was before
<1>7. ASSUME NEW f \in F, bias'[f] = "stale"
      PROVE  /\ f \notin told /\ kept[f] # "none" /\ AmbAged(v, again, e)[f] = "stale"
             /\ lost'[f] = Lost(v, again, e, {})[f]
             /\ ~(Compared(v, told) /\ GfAged(v, again, e) = "moved")
  <2>1. kept[f] = "stale"
    BY <1>2, <1>7
  <2>. HIDE DEF anew
  <2>. QED  BY <1>1, <1>4, <1>5, <2>1
<1>8. ASSUME NEW f \in F, bias'[f] = "stale"
      PROVE  \/ lost'[f] = "blind"
             \/ lost'[f] = "yes" /\ gf' = "moved" /\ ~Compared(v, told)
             \/ /\ lost'[f] = "no" /\ gf' # "same" /\ Pending(f)'
                /\ f \notin both /\ ~Compared(v, told)
  <2>1. CASE lost'[f] = "yes" /\ GfAged(v, again, e) = "moved"
    BY <1>1, <1>7, <1>8, <2>1
  <2>2. CASE lost'[f] = "no" /\ GfAged(v, again, e) # "same" /\ Comes(v, again, e, f)
    <3>1. \/ \E r \in Recv : f \notin v[r] /\ Recoded(e)[<<r, f>>] = "other"
          \/ f \notin v[2] /\ Lli(v, again, e)[f] = "none" /\ (Half(e)[f] \/ (back /\ saved[f]))
      BY <1>7, <1>8, <2>2, InAged
    <3>2. \E r \in Recv : f \notin v[r]
      BY <3>1 DEF Recv
    <3>3. f \notin both /\ ~Compared(v, told)
      BY <1>3, <3>2 DEF Compared
    <3>4. CASE \E r \in Recv : f \notin v[r] /\ Recoded(e)[<<r, f>>] = "other"
      <4>1. PICK r \in Recv : f \notin v[r] /\ Recoded(e)[<<r, f>>] = "other"
        BY <3>4
      <4>2. <<r, f>> \notin Tracked(v) /\ <<r, f>> \in Recv \X F
        BY <4>1 DEF Tracked
      <4>3. recode'[<<r, f>>] = "other"
        BY <1>1, <4>1, <4>2
      <4>. QED  BY <1>1, <2>2, <3>3, <4>3 DEF Pending
    <3>5. CASE f \notin v[2] /\ Lli(v, again, e)[f] = "none" /\ (Half(e)[f] \/ (back /\ saved[f]))
      <4>1. half'[f] \/ (back' /\ saved'[f])
        BY <1>1, <3>5
      <4>2. f \notin bview'
        BY <1>1, <3>5
      <4>3. Pending(f)'
        BY <4>1, <4>2, Zenon DEF Pending
      <4>. QED  BY <1>1, <2>2, <3>3, <4>3
    <3>. QED  BY <3>1, <3>4, <3>5
  <2>. QED  BY <1>7, <1>8, <2>1, <2>2, AgedStep
<1>9. BiasInv'
  <2>1. ASSUME NEW f \in used' PROVE f \in F /\ f \in both /\ bias'[f] = "stale"
    BY <1>2, <1>3
  <2>2. \A f \in used' : lost'[f] # "no"
    BY <1>8, <2>1
  <2>3. checked' => \A f \in used' : lost'[f] = "blind"
    BY <1>2, <1>8, <2>1
  <2>. QED  BY <1>6, <2>2, <2>3 DEF BiasInv
<1>10. ASSUME NEW f \in F PROVE Explained(f)'
  <2>1. lost'[f] # "no" => bias'[f] = "stale"
    <3>1. ASSUME lost'[f] # "no" PROVE kept[f] # "none" /\ Lost(v, again, e, {})[f] # "no"
      BY <1>1, <3>1
    <3>2. Lost(v, again, e, {})[f] # "no" => AmbAged(v, again, e)[f] = "stale"
      BY <1>3, LostStale
    <3>. QED  BY <1>2, <1>5, <3>1, <3>2
  <2>2. ASSUME bias'[f] # "none", NEW r \in Recv PROVE recode'[<<r, f>>] # "new"
    <3>1. CASE <<r, f>> \in Tracked(v)
      BY <1>1, <3>1
    <3>2. CASE <<r, f>> \notin Tracked(v)
      <4>1. f \notin both
        BY <1>3, <3>2 DEF Tracked, Recv
      <4>2. kept[f] # "none"
        BY <1>2, <2>2, <4>1
      <4>3. Recoded(e)[<<r, f>>] # "new"
        BY <1>5, <4>2, AgedSeen
      <4>. QED  BY <1>1, <3>2, <4>3
    <3>. QED  BY <3>1, <3>2
  <2>3. lli'[f] = "none" /\ begun'
    BY <1>1
  <2>. QED  BY <1>8, <2>1, <2>2, <2>3 DEF Explained
<1>. QED  BY <1>9, <1>10 DEF BiasStrong

\* Whatever the receivers lose, whichever epochs the filter leaves out and whichever base
\* epochs serve twice, forwards or backwards, a phase is fitted with the ambiguity of earlier
\* arcs only after a slip that the filter was not told of, and not once the geometry-free
\* phase has shown it.
THEOREM BiasInvHolds == BiasSpec => []BiasInv
<1>1. ASSUME BiasInit PROVE BiasStrong
  <2>1. BiasTypeOK
    <3>1. 0 \in 0 .. MaxOut + 1 /\ 0 \in 0 .. 2
      BY PhaseAssumption
    <3>2. /\ bias \in [F -> {"none", "good", "stale"}] /\ lost \in [F -> {"no", "yes", "blind"}]
          /\ outc \in [F -> 0 .. MaxOut + 1] /\ rejc \in [F -> 0 .. 2]
          /\ lli \in [F -> {"none", "plain", "slip"}]
      BY <1>1, <3>1 DEF BiasInit
    <3>3. /\ saved \in [F -> BOOLEAN] /\ half \in [F -> BOOLEAN] /\ owed \in [Recv \X F -> BOOLEAN]
          /\ recode \in [Recv \X F -> {"new", "same", "other"}]
      BY <1>1 DEF BiasInit
    <3>. QED  BY <1>1, <3>2, <3>3 DEF BiasInit, BiasTypeOK
  <2>2. \A f \in F : Explained(f)
    BY <1>1 DEF BiasInit, Explained
  <2>. QED  BY <1>1, <2>1, <2>2 DEF BiasInit, BiasStrong, BiasInv
<1>2. BiasStrong /\ [BiasNext]_biasVars => BiasStrong'
  <2>1. ASSUME BiasStrong, UNCHANGED biasVars PROVE BiasStrong'
    <3>1. BiasInv'
      BY <2>1 DEF biasVars, BiasStrong, BiasInv, BiasTypeOK
    <3>2. ASSUME NEW f \in F PROVE Explained(f)'
      <4>1. Explained(f) /\ (Pending(f) <=> Pending(f)')
        BY <2>1, Zenon DEF biasVars, BiasStrong, Pending
      <4>. QED  BY <2>1, <4>1 DEF biasVars, Explained
    <3>. QED  BY <3>1, <3>2 DEF BiasStrong
  <2>2. ASSUME BiasStrong, NEW v \in Views, NEW again \in BOOLEAN, again => v[2] = bview,
               EpochIn(v, again)
        PROVE  BiasStrong'
    <3>1. PICK e \in Slips(v, again), dop \in SUBSET F : Filtered(v, again, e, Told(v, again, e) \cup dop)
      BY <2>2 DEF EpochIn
    <3>2. Told(v, again, e) \cup dop \in SUBSET F
      BY DEF Told
    <3>. QED  BY <2>2, <3>1, <3>2, FilteredStrong
  <2>. QED  BY <2>1, <2>2, SkippedStrong, WithoutStrong DEF BiasNext
<1>3. BiasStrong => BiasInv
  BY DEF BiasStrong
<1>. QED  BY <1>1, <1>2, <1>3, PTL DEF BiasSpec

-----------------------------------------------------------------------------
(* Post-processing: any epochs of rover and base that are more than DTTOL     *)
(* apart, any satellites.                                                    *)

PostSpec == PostInit /\ [][PostNext]_postVars

All(base) == [t : RoverTimes, rcv : {1}, sat : Sats] \cup [t : base, rcv : {2}, sat : Sats]
DataOK    == \E base \in BaseTimes : data = Sorted(All(base))

\* The times of a receiver's epochs, and where an epoch begins and ends in the array.
TimesOf(r)    == {data[k].t : k \in {k \in 1 .. NObs : data[k].rcv = r}}
PlacesOf(t, r)      == {k \in 1 .. NObs : data[k].t = t /\ data[k].rcv = r}
FirstOne(t, r)   == Min(PlacesOf(t, r))
LastOne(t, r) == Max(PlacesOf(t, r))

TheBase(t)   == CHOOSE b \in BaseOf(t) : TRUE
RightObs(t)  == Whole(t, 1) \o IF BaseOf(t) = {} THEN <<>> ELSE Whole(TheBase(t), 2)

Once(s) == \A k, l \in DOMAIN s : s[k] = s[l] => k = l

\* Between two calls of inputobs: iobsu is next to the last epoch given and iobsr at the
\* base epoch given with it.
ForwardOK ==
    /\ times = <<>> => iobsu = 1 /\ iobsr = 1
    /\ times # <<>> =>
         LET t == times[Len(times)] IN
         /\ InOrder(times) /\ Once(times) /\ got = RightObs(t)
         /\ iobsu = LastOne(t, 1) + 1
         /\ iobsr = IF BaseOf(t) = {} THEN NObs + 1 ELSE FirstOne(TheBase(t), 2)

BackwardOK ==
    /\ times = <<>> => iobsu = NObs /\ iobsr = NObs
    /\ times # <<>> =>
         LET t == times[Len(times)] IN
         /\ InOrder(times) /\ Once(times) /\ got = RightObs(t)
         /\ iobsu = FirstOne(t, 1) - 1
         /\ iobsr = IF BaseOf(t) = {} THEN 0 ELSE LastOne(TheBase(t), 2)

Sol == [t : RoverTimes, stat : {NONE, FIX, FLOAT}]

\* Solutions go forwards in time, or backwards, up to the last epoch given.
Rising(s)  == \A k, l \in DOMAIN s : k < l => s[k].t < s[l].t
Falling(s) == \A k, l \in DOMAIN s : k < l => s[k].t > s[l].t
SolsOK ==
    /\ solf \in Seq(Sol) /\ Rising(solf) /\ solb \in Seq(Sol) /\ Falling(solb)
    /\ pass = "forward" => \A k \in DOMAIN solf : times # <<>> /\ solf[k].t <= times[Len(times)]
    /\ pass = "forward" => solb = <<>>
    /\ pass = "backward" => \A k \in DOMAIN solb : times # <<>> /\ solb[k].t >= times[Len(times)]

\* What combres has made of the solutions before ci and after cj.
Better(s, f, b) ==
    \/ s.stat = Min({f.stat, b.stat})
    \/ s.stat = FLOAT /\ f.stat = FIX /\ b.stat = FIX /\ ~solstatic
Merged ==
    /\ \A i \in 1 .. ci - 1, j \in cj + 1 .. Len(solb) : solf[i].t = solb[j].t =>
         \/ solf[i].t \in unsmoothed /\ solf[i].stat = solb[j].stat
         \/ \E k \in DOMAIN out : out[k].t = solf[i].t /\ Better(out[k], solf[i], solb[j])
    /\ \A i \in 1 .. ci - 1 : (\A j \in DOMAIN solb : solb[j].t # solf[i].t) =>
         \E k \in DOMAIN out : out[k].t = solf[i].t /\ out[k].stat = solf[i].stat
    /\ \A j \in cj + 1 .. Len(solb) : (\A i \in DOMAIN solf : solf[i].t # solb[j].t) =>
         \E k \in DOMAIN out : out[k].t = solb[j].t /\ out[k].stat = solb[j].stat

\* The solution of a static receiver is the best of those handed on so far.
ChosenOK ==
    IF ~solstatic \/ out = <<>> THEN sol = <<>>
    ELSE \E k \in DOMAIN out : /\ sol = << [t |-> out[1].t, stat |-> out[k].stat] >>
                               /\ \A l \in DOMAIN out : out[k].stat <= out[l].stat

\* The two fronts of the merge: whatever is done comes before whatever is not.
Fronts ==
    /\ ci \in 1 .. Len(solf) + 1 /\ cj \in 0 .. Len(solb)
    /\ \A i \in 1 .. ci - 1, j \in 1 .. cj : solf[i].t < solb[j].t
    /\ \A i \in ci .. Len(solf), j \in cj + 1 .. Len(solb) : solb[j].t < solf[i].t
    /\ \A k \in DOMAIN out : /\ \A i \in ci .. Len(solf) : out[k].t < solf[i].t
                             /\ \A j \in 1 .. cj : out[k].t < solb[j].t
                             /\ out[k].t \notin unsmoothed
    /\ \A t \in unsmoothed : /\ t \in RoverTimes
                             /\ \A i \in ci .. Len(solf) : t < solf[i].t
                             /\ \A j \in 1 .. cj : t < solb[j].t

PostStrong ==
    /\ DataOK /\ intpref \in BOOLEAN /\ solstatic \in BOOLEAN
    /\ pass \in {"forward", "backward", "combine", "done"}
    /\ times \in Seq(RoverTimes)
    /\ pass = "forward" => ForwardOK
    /\ pass = "backward" => BackwardOK
    /\ pass \in {"combine", "done"} => Fronts /\ Merged /\ ChosenOK /\ times = <<>>
    /\ pass \in {"forward", "backward"} => ci = 1 /\ out = <<>> /\ sol = <<>> /\ unsmoothed = {}
    /\ pass = "done" => ci > Len(solf) \/ cj < 1
    /\ SolsOK /\ out \in Seq(Sol) /\ Rising(out)

\* The smallest member of a nonempty set of naturals
LEMMA Least ==
  ASSUME NEW S \in SUBSET Nat, S # {}
  PROVE  \E m \in S : \A y \in S : m <= y
<1>1. PICK m \in S : \A y \in S : ~(<<y, m>> \in OpToRel(<, Nat))
  BY NatLessThanWellFounded, WFMin
<1>2. \A y \in S : ~(y < m)
  BY <1>1 DEF OpToRel
<1>. QED  BY <1>2

\* A member of a nonempty set at which a measure is smallest
LEMMA LeastBy ==
  ASSUME NEW S, S # {}, NEW m, \A x \in S : m[x] \in Nat
  PROVE  \E x \in S : \A y \in S : m[x] <= m[y]
<1>. DEFINE V == {m[x] : x \in S}
<1>1. V \in SUBSET Nat /\ V # {}
  OBVIOUS
<1>2. PICK v \in V : \A w \in V : v <= w
  <2>. HIDE DEF V
  <2>. QED  BY <1>1, Least
<1>3. PICK x \in S : v = m[x]
  OBVIOUS
<1>. QED  BY <1>2, <1>3

\* The largest and the smallest member of a nonempty finite set of integers
LEMMA MaxOf ==
  ASSUME NEW S, S \subseteq Int, IsFiniteSet(S), S # {}
  PROVE  Max(S) \in S /\ \A y \in S : Max(S) >= y
<1>. DEFINE Above(x) == {y \in S : y > x}
            size == [x \in S |-> Cardinality(Above(x))]
<1>1. \A x \in S : IsFiniteSet(Above(x)) /\ size[x] \in Nat
  BY FS_Subset, FS_CardinalityType
<1>3. PICK x \in S : \A y \in S : size[x] <= size[y]
  <2>. HIDE DEF size
  <2>. QED  BY <1>1, LeastBy
<1>4. \A y \in S : x >= y
  <2>1. SUFFICES ASSUME NEW y \in S, y > x PROVE FALSE
    OBVIOUS
  <2>0. x \in Int /\ y \in Int /\ \A z \in S : z \in Int
    OBVIOUS
  <2>2. Above(y) \subseteq Above(x) /\ y \in Above(x) /\ y \notin Above(y)
    <3>1. \A z \in S : z > y => z > x
      BY <2>0, <2>1
    <3>2. y > x /\ ~(y > y)
      BY <2>0, <2>1
    <3>. QED  BY <3>1, <3>2
  <2>3. Above(x) # Above(y) /\ Above(y) \in SUBSET Above(x) /\ IsFiniteSet(Above(x))
    BY <1>1, <2>2
  <2>4. Cardinality(Above(y)) <= Cardinality(Above(x)) /\ Cardinality(Above(y)) # Cardinality(Above(x))
    <3>. HIDE DEF Above
    <3>. QED  BY <2>3, FS_Subset
  <2>. QED  BY <1>1, <1>3, <2>4
<1>. QED  BY <1>4 DEF Max

LEMMA MinOf ==
  ASSUME NEW S, S \subseteq Int, IsFiniteSet(S), S # {}
  PROVE  Min(S) \in S /\ \A y \in S : Min(S) <= y
<1>. DEFINE Below(x) == {y \in S : y < x}
            size == [x \in S |-> Cardinality(Below(x))]
<1>1. \A x \in S : IsFiniteSet(Below(x)) /\ size[x] \in Nat
  BY FS_Subset, FS_CardinalityType
<1>3. PICK x \in S : \A y \in S : size[x] <= size[y]
  <2>. HIDE DEF size
  <2>. QED  BY <1>1, LeastBy
<1>4. \A y \in S : x <= y
  <2>1. SUFFICES ASSUME NEW y \in S, y < x PROVE FALSE
    OBVIOUS
  <2>0. x \in Int /\ y \in Int /\ \A z \in S : z \in Int
    OBVIOUS
  <2>2. Below(y) \subseteq Below(x) /\ y \in Below(x) /\ y \notin Below(y)
    <3>1. \A z \in S : z < y => z < x
      BY <2>0, <2>1
    <3>2. y < x /\ ~(y < y)
      BY <2>0, <2>1
    <3>. QED  BY <3>1, <3>2
  <2>3. Below(x) # Below(y) /\ Below(y) \in SUBSET Below(x) /\ IsFiniteSet(Below(x))
    BY <1>1, <2>2
  <2>4. Cardinality(Below(y)) <= Cardinality(Below(x)) /\ Cardinality(Below(y)) # Cardinality(Below(x))
    <3>. HIDE DEF Below
    <3>. QED  BY <2>3, FS_Subset
  <2>. QED  BY <1>1, <1>3, <2>4
<1>. QED  BY <1>4 DEF Min

\* A loop whose steps lower a measure is what its defining equation says.
LEMMA LoopStep ==
  ASSUME NEW D, NEW next, DOMAIN next = D, NEW stop, NEW m \in [D -> Nat],
         \A j \in D : j \notin stop => next[j] \in D /\ m[next[j]] < m[j]
  PROVE  \A i \in D : Loop(i, next, stop) = IF i \in stop THEN i ELSE Loop(next[i], next, stop)
<1>. DEFINE Upto(n)  == {j \in D : m[j] < n}
            Fits(g, n) == g = [j \in Upto(n) |-> IF j \in stop THEN j ELSE g[next[j]]]
<1>1. \A n \in Nat : \E g : Fits(g, n)
  <2>1. SUFFICES ASSUME {n \in Nat : ~ \E g : Fits(g, n)} # {} PROVE FALSE
    OBVIOUS
  <2>. DEFINE Bad == {n \in Nat : ~ \E g : Fits(g, n)}
  <2>2. PICK n \in Bad : \A k \in Bad : n <= k
    <3>. HIDE DEF Fits
    <3>. QED  BY <2>1, Least
  <2>3. n # 0
    <3>1. Upto(0) = {}
      OBVIOUS
    <3>2. \E g : g = [j \in {} |-> IF j \in stop THEN j ELSE g[next[j]]]
      <4>. DEFINE e == [j \in {} |-> 0]
      <4>1. e = [j \in {} |-> IF j \in stop THEN j ELSE e[next[j]]]
        OBVIOUS
      <4>. HIDE DEF e
      <4>. QED  BY <4>1
    <3>3. \E g : Fits(g, 0)
      <4>. HIDE DEF Upto
      <4>. QED  BY <3>1, <3>2
    <3>4. 0 \notin Bad
      <4>. HIDE DEF Fits
      <4>. QED  BY <3>3
    <3>. QED  BY <2>2, <3>4
  <2>4. PICK g : Fits(g, n - 1)
    <3>1. n - 1 \in Nat /\ ~(n <= n - 1)
      BY <2>2, <2>3
    <3>2. n - 1 \notin Bad
      <4>. HIDE DEF Bad
      <4>. QED  BY <2>2, <3>1
    <3>. QED  BY <3>1, <3>2
  <2>. DEFINE h == [j \in Upto(n) |-> IF j \in stop THEN j ELSE g[next[j]]]
  <2>5. \A j \in Upto(n) : j \notin stop => next[j] \in Upto(n - 1) /\ next[j] \in Upto(n)
    BY <2>2
  <2>6. \A j \in Upto(n - 1) : j \in Upto(n) /\ h[j] = g[j]
    <3>1. \A j \in Upto(n - 1) : j \in Upto(n)
      BY <2>2
    <3>2. \A j \in Upto(n - 1) : g[j] = IF j \in stop THEN j ELSE g[next[j]]
      BY <2>4, Zenon
    <3>. QED  BY <3>1, <3>2
  <2>7. \A j \in Upto(n) : (IF j \in stop THEN j ELSE g[next[j]]) = (IF j \in stop THEN j ELSE h[next[j]])
    BY <2>5, <2>6
  <2>8. Fits(h, n)
    <3>. HIDE DEF Upto
    <3>. QED  BY <2>7, Zenon
  <2>. QED  BY <2>2, <2>8
<1>. DEFINE body(g) == [j \in D |-> IF j \in stop THEN j ELSE g[next[j]]]
<1>2. \E f : f = body(f)
  <2>. DEFINE piece == [n \in Nat |-> CHOOSE g : Fits(g, n)]
              f == [j \in D |-> piece[m[j] + 1][j]]
  <2>1. \A n \in Nat : Fits(piece[n], n)
    <3>. HIDE DEF Fits
    <3>. QED  BY <1>1, Zenon
  <2>2. ASSUME NEW n \in Nat PROVE \A j \in Upto(n) : piece[n][j] = IF j \in stop THEN j ELSE piece[n][next[j]]
    <3>. HIDE DEF piece
    <3>1. Fits(piece[n], n)
      BY <2>1
    <3>. HIDE DEF Upto
    <3>. QED  BY <3>1, Zenon
  <2>. HIDE DEF piece
  <2>3. ASSUME NEW n \in Nat, NEW k \in Nat PROVE \A j \in Upto(n) \cap Upto(k) : piece[n][j] = piece[k][j]
    <3>. DEFINE Odd == {j \in Upto(n) \cap Upto(k) : piece[n][j] # piece[k][j]}
    <3>1. SUFFICES ASSUME Odd # {} PROVE FALSE
      OBVIOUS
    <3>3. PICK j \in Odd : \A l \in Odd : m[j] <= m[l]
      <4>1. Odd # {} /\ \A j \in Odd : m[j] \in Nat
        BY <3>1
      <4>. HIDE DEF Odd
      <4>. QED  BY <4>1, LeastBy
    <3>4. j \notin stop
      BY <2>2, <3>3
    <3>5. next[j] \in Upto(n) \cap Upto(k) /\ m[next[j]] < m[j] /\ m[next[j]] \in Nat /\ m[j] \in Nat
      BY <3>3, <3>4
    <3>6. piece[n][next[j]] = piece[k][next[j]]
      BY <3>3, <3>5
    <3>. QED  BY <2>2, <3>3, <3>4, <3>6
  <2>4. ASSUME NEW j \in D PROVE f[j] = IF j \in stop THEN j ELSE f[next[j]]
    <3>1. m[j] + 1 \in Nat /\ j \in Upto(m[j] + 1)
      OBVIOUS
    <3>2. f[j] = IF j \in stop THEN j ELSE piece[m[j] + 1][next[j]]
      BY <2>2, <3>1
    <3>3. ASSUME j \notin stop PROVE piece[m[j] + 1][next[j]] = f[next[j]]
      <4>1. next[j] \in D /\ m[next[j]] + 1 \in Nat /\ next[j] \in Upto(m[next[j]] + 1) \cap Upto(m[j] + 1)
        BY <3>3
      <4>2. piece[m[j] + 1][next[j]] = piece[m[next[j]] + 1][next[j]]
        BY <2>3, <3>1, <4>1
      <4>. QED  BY <4>1, <4>2
    <3>. QED  BY <3>2, <3>3
  <2>5. f = body(f)
    <3>1. f = [j \in D |-> f[j]]
      OBVIOUS
    <3>. HIDE DEF f
    <3>. QED  BY <2>4, <3>1, Zenon
  <2>. QED  BY <2>5
<1>. DEFINE Fn == CHOOSE f : f = body(f)
<1>3. Fn = body(Fn)
  <2>. HIDE DEF body
  <2>. QED  BY <1>2
<1>4. \A i : Loop(i, next, stop) = Fn[i]
  BY DEF Loop
<1>. HIDE DEF Fn
<1>5. \A i \in D : Fn[i] = IF i \in stop THEN i ELSE Fn[next[i]]
  BY <1>3, Zenon
<1>. QED  BY <1>4, <1>5

\* What holds where a loop begins and is kept by its steps holds where it ends.
LEMMA LoopRule ==
  ASSUME NEW D, NEW next, DOMAIN next = D, NEW stop, NEW m \in [D -> Nat],
         \A j \in D : j \notin stop => next[j] \in D /\ m[next[j]] < m[j],
         NEW Inv \in SUBSET D, \A j \in Inv : j \notin stop => next[j] \in Inv
  PROVE  \A i \in Inv : Loop(i, next, stop) \in Inv \cap stop
<1>. DEFINE L(i) == Loop(i, next, stop)
            Odd == {i \in Inv : L(i) \notin Inv \cap stop}
<1>0. \A i \in D : L(i) = IF i \in stop THEN i ELSE L(next[i])
  BY LoopStep
<1>. HIDE DEF L
<1>1. SUFFICES ASSUME Odd # {} PROVE FALSE
  BY DEF L
<1>3. PICK j \in Odd : \A l \in Odd : m[j] <= m[l]
  <2>1. Odd # {} /\ \A j \in Odd : m[j] \in Nat
    BY <1>1
  <2>. HIDE DEF Odd
  <2>. QED  BY <2>1, LeastBy
<1>4. j \notin stop
  BY <1>0, <1>3
<1>5. next[j] \in Inv /\ m[next[j]] < m[j] /\ m[next[j]] \in Nat /\ m[j] \in Nat
  BY <1>3, <1>4
<1>. QED  BY <1>0, <1>3, <1>4, <1>5

\* A list of S in the order Before, without repetitions
InOrderOf(s, n, S) ==
    /\ s \in [1 .. n -> S] /\ \A p \in S : \E k \in 1 .. n : s[k] = p
    /\ \A i, j \in 1 .. n : i < j <=> Before(s[i], s[j])

\* The array that sortobs makes is such a list when the order is a total one.
LEMMA SortedInOrder ==
  ASSUME NEW S, IsFiniteSet(S),
         \A p, q \in S : p # q => Before(p, q) \/ Before(q, p),
         \A p \in S : ~Before(p, p),
         \A p, q, r \in S : Before(p, q) /\ Before(q, r) => Before(p, r)
  PROVE  Cardinality(S) \in Nat /\ InOrderOf(Sorted(S), Cardinality(S), S)
<1>. DEFINE n == Cardinality(S)
            Less(p) == {q \in S : Before(q, p)}
            rank == [p \in S |-> Cardinality(Less(p))]
<1>1. n \in Nat
  BY FS_CardinalityType
<1>2. \A p \in S : IsFiniteSet(Less(p)) /\ rank[p] \in Nat
  BY FS_Subset, FS_CardinalityType
<1>3. ASSUME NEW p \in S, NEW q \in S, Before(p, q) PROVE rank[p] < rank[q]
  <2>1. Less(p) \in SUBSET Less(q) /\ p \in Less(q) /\ p \notin Less(p)
    BY <1>3
  <2>2. Less(p) # Less(q) /\ IsFiniteSet(Less(q))
    BY <1>2, <2>1
  <2>3. Cardinality(Less(p)) <= Cardinality(Less(q)) /\ Cardinality(Less(p)) # Cardinality(Less(q))
    <3>. HIDE DEF Less
    <3>. QED  BY <2>1, <2>2, FS_Subset
  <2>. QED  BY <1>2, <2>3
<1>4. ASSUME NEW p \in S PROVE rank[p] \in 0 .. n - 1
  <2>1. Less(p) \in SUBSET S /\ Less(p) # S
    OBVIOUS
  <2>2. Cardinality(Less(p)) <= n /\ Cardinality(Less(p)) # n
    <3>. HIDE DEF Less
    <3>. QED  BY <2>1, FS_Subset
  <2>. QED  BY <1>1, <1>2, <2>2
<1>5. \A p, q \in S : rank[p] = rank[q] => p = q
  <2>1. SUFFICES ASSUME NEW p \in S, NEW q \in S, rank[p] = rank[q], p # q PROVE FALSE
    OBVIOUS
  <2>2. rank[p] < rank[q] \/ rank[q] < rank[p]
    BY <1>3, <2>1
  <2>3. rank[p] \in Nat /\ rank[q] \in Nat
    BY <1>2
  <2>. HIDE DEF rank
  <2>. QED  BY <2>1, <2>2, <2>3
<1>6. \A k \in 0 .. n - 1 : \E p \in S : rank[p] = k
  <2>. DEFINE T == 0 .. n - 1
  <2>1. rank \in Injection(S, T)
    <3>1. rank \in [S -> T]
      BY <1>4
    <3>. HIDE DEF rank
    <3>. QED  BY <1>5, <3>1 DEF Injection, IsInjective
  <2>2. IsFiniteSet(T) /\ Cardinality(T) = n
    <3>1. IsFiniteSet(0 .. n - 1) /\ Cardinality(0 .. n - 1) = IF 0 > n - 1 THEN 0 ELSE n - 1 - 0 + 1
      BY <1>1, FS_Interval
    <3>. QED  BY <1>1, <3>1
  <2>3. rank \in Surjection(S, T)
    <3>. HIDE DEF rank, T
    <3>. QED  BY <2>1, <2>2, FS_Injection
  <2>. HIDE DEF rank
  <2>. QED  BY <2>3 DEF Surjection
<1>. DEFINE d == Sorted(S)
<1>7. d = [k \in 1 .. n |-> CHOOSE p \in S : Cardinality({q \in S : Before(q, p)}) = k - 1]
  BY DEF Sorted
<1>12. \A p \in S : rank[p] = Cardinality({q \in S : Before(q, p)})
  OBVIOUS
<1>. HIDE DEF d, rank
<1>8. \A k \in 1 .. n : d[k] \in S /\ rank[d[k]] = k - 1
  <2>1. SUFFICES ASSUME NEW k \in 1 .. n PROVE d[k] \in S /\ rank[d[k]] = k - 1
    OBVIOUS
  <2>2. \E p \in S : rank[p] = k - 1
    BY <1>1, <1>6
  <2>3. d[k] = CHOOSE p \in S : Cardinality({q \in S : Before(q, p)}) = k - 1
    BY <1>7
  <2>. QED  BY <1>12, <2>2, <2>3
<1>9. d \in [1 .. n -> S]
  BY <1>7, <1>8
<1>10. \A p \in S : \E k \in 1 .. n : d[k] = p
  <2>1. SUFFICES ASSUME NEW p \in S PROVE \E k \in 1 .. n : d[k] = p
    OBVIOUS
  <2>2. rank[p] + 1 \in 1 .. n /\ rank[p] = (rank[p] + 1) - 1
    BY <1>1, <1>4
  <2>3. d[rank[p] + 1] \in S /\ rank[d[rank[p] + 1]] = rank[p]
    BY <1>8, <2>2
  <2>. QED  BY <1>5, <2>2, <2>3
<1>11. ASSUME NEW i \in 1 .. n, NEW j \in 1 .. n PROVE i < j <=> Before(d[i], d[j])
  <2>1. d[i] \in S /\ d[j] \in S /\ rank[d[i]] = i - 1 /\ rank[d[j]] = j - 1 /\ i \in Int /\ j \in Int
    BY <1>1, <1>8
  <2>2. CASE d[i] = d[j]
    BY <2>1, <2>2
  <2>3. CASE d[i] # d[j]
    <3>1. CASE Before(d[i], d[j])
      BY <1>3, <2>1, <3>1
    <3>2. CASE Before(d[j], d[i])
      <4>1. j < i
        BY <1>3, <2>1, <3>2
      <4>2. ~Before(d[i], d[j])
        BY <2>1, <3>2
      <4>. QED  BY <2>1, <4>1, <4>2
    <3>. QED  BY <2>1, <2>3, <3>1, <3>2
  <2>. QED  BY <2>2, <2>3
<1>. HIDE DEF n
<1>13. InOrderOf(d, n, S)
  BY <1>9, <1>10, <1>11 DEF InOrderOf
<1>. QED  BY <1>1, <1>13 DEF d, n

\* There is only one.
LEMMA SortedOnly ==
  ASSUME NEW S, NEW n \in Nat, NEW s, InOrderOf(s, n, S)
  PROVE  Cardinality(S) = n /\ s = Sorted(S)
<1>1. s \in [1 .. n -> S] /\ (\A p \in S : \E k \in 1 .. n : s[k] = p)
      /\ (\A i, j \in 1 .. n : i < j <=> Before(s[i], s[j]))
  BY DEF InOrderOf
<1>2. \A i, j \in 1 .. n : s[i] = s[j] => i = j
  <2>1. SUFFICES ASSUME NEW i \in 1 .. n, NEW j \in 1 .. n, s[i] = s[j] PROVE i = j
    OBVIOUS
  <2>2. (i < j <=> Before(s[i], s[i])) /\ (j < i <=> Before(s[i], s[i])) /\ (i < i <=> Before(s[i], s[i]))
    BY <1>1, <2>1
  <2>. QED  BY <2>2
<1>3. Cardinality(S) = n
  <2>1. s \in Bijection(1 .. n, S)
    BY <1>1, <1>2 DEF Bijection, Injection, IsInjective, Surjection
  <2>. QED  BY <2>1, FS_CountingElements DEF ExistsBijection
<1>4. ASSUME NEW k \in 1 .. n PROVE Cardinality({q \in S : Before(q, s[k])}) = k - 1
  <2>. DEFINE T == {q \in S : Before(q, s[k])}
              b == [j \in 1 .. k - 1 |-> s[j]]
  <2>0. k - 1 \in Nat /\ \A j \in 1 .. k - 1 : j \in 1 .. n /\ j < k
    OBVIOUS
  <2>1. b \in [1 .. k - 1 -> T]
    BY <1>1, <2>0
  <2>2. \A i, j \in 1 .. k - 1 : b[i] = b[j] => i = j
    BY <1>2, <2>0
  <2>3. \A q \in T : \E j \in 1 .. k - 1 : b[j] = q
    <3>1. SUFFICES ASSUME NEW q \in T PROVE \E j \in 1 .. k - 1 : b[j] = q
      OBVIOUS
    <3>2. PICK j \in 1 .. n : s[j] = q
      BY <1>1
    <3>3. j < k
      BY <1>1, <3>2
    <3>4. j \in 1 .. k - 1
      BY <3>3
    <3>. QED  BY <3>2, <3>4
  <2>4. b \in Bijection(1 .. k - 1, T)
    <3>. HIDE DEF b, T
    <3>. QED  BY <2>1, <2>2, <2>3 DEF Bijection, Injection, IsInjective, Surjection
  <2>5. ExistsBijection(1 .. k - 1, T)
    BY <2>4 DEF ExistsBijection
  <2>. HIDE DEF T
  <2>6. Cardinality(T) = k - 1
    BY <2>0, <2>5, FS_CountingElements
  <2>. QED  BY <2>6 DEF T
<1>5. ASSUME NEW k \in 1 .. n
      PROVE  (CHOOSE p \in S : Cardinality({q \in S : Before(q, p)}) = k - 1) = s[k]
  <2>1. s[k] \in S
    BY <1>1
  <2>2. ASSUME NEW p \in S, Cardinality({q \in S : Before(q, p)}) = k - 1 PROVE p = s[k]
    <3>1. PICK j \in 1 .. n : s[j] = p
      BY <1>1
    <3>2. Cardinality({q \in S : Before(q, p)}) = j - 1
      BY <1>4, <3>1
    <3>3. j = k
      BY <2>2, <3>2
    <3>. QED  BY <3>1, <3>3
  <2>. QED  BY <1>4, <2>1, <2>2
<1>6. Sorted(S) = [k \in 1 .. n |-> CHOOSE p \in S : Cardinality({q \in S : Before(q, p)}) = k - 1]
  BY <1>3 DEF Sorted
<1>7. Sorted(S) = [k \in 1 .. n |-> s[k]]
  BY <1>5, <1>6
<1>8. s = [k \in 1 .. n |-> s[k]]
  BY <1>1
<1>. QED  BY <1>3, <1>7, <1>8

\* Observations of the rover's epochs and of the base's are in such an order.
LEMMA BeforeTotal ==
  ASSUME NEW base \in BaseTimes
  PROVE  /\ \A p, q \in All(base) : p # q => Before(p, q) \/ Before(q, p)
         /\ \A p \in All(base) : ~Before(p, p)
         /\ \A p, q, r \in All(base) : Before(p, q) /\ Before(q, r) => Before(p, r)
<1>1. ASSUME NEW p \in All(base)
      PROVE  p \in [t : Int, rcv : {1, 2}, sat : Int] /\ p.t \in Int /\ p.rcv \in {1, 2} /\ p.sat \in Int
  BY PostAssumption DEF All
<1>2. ASSUME NEW p \in All(base), NEW q \in All(base), p.rcv = q.rcv, p.t < q.t
      PROVE  q.t - p.t > Tol
  <2>1. (p.t \in RoverTimes /\ q.t \in RoverTimes) \/ (p.t \in base /\ q.t \in base)
    BY <1>2 DEF All
  <2>. QED  BY <1>2, <2>1, PostAssumption
<1>3. Tol \in Nat
  BY PostAssumption
<1>4. ASSUME NEW p \in All(base), NEW q \in All(base), p # q PROVE Before(p, q) \/ Before(q, p)
  <2>1. p.t # q.t \/ p.rcv # q.rcv \/ p.sat # q.sat
    <3>1. p = [t |-> p.t, rcv |-> p.rcv, sat |-> p.sat] /\ q = [t |-> q.t, rcv |-> q.rcv, sat |-> q.sat]
      BY <1>1
    <3>. QED  BY <1>4, <3>1
  <2>2. p.t \in Int /\ q.t \in Int /\ p.rcv \in {1, 2} /\ q.rcv \in {1, 2} /\ p.sat \in Int /\ q.sat \in Int
    BY <1>1
  <2>3. p.rcv = q.rcv => p.t = q.t \/ q.t - p.t > Tol \/ p.t - q.t > Tol
    BY <1>2, <2>2
  <2>. QED  BY <1>3, <2>1, <2>2, <2>3 DEF Before
<1>5. ASSUME NEW p \in All(base) PROVE ~Before(p, p)
  BY <1>1, <1>3 DEF Before
<1>6. ASSUME NEW p \in All(base), NEW q \in All(base), NEW r \in All(base), Before(p, q), Before(q, r)
      PROVE  Before(p, r)
  <2>1. /\ p.t \in Int /\ p.rcv \in {1, 2} /\ p.sat \in Int
        /\ q.t \in Int /\ q.rcv \in {1, 2} /\ q.sat \in Int
        /\ r.t \in Int /\ r.rcv \in {1, 2} /\ r.sat \in Int
    BY <1>1
  <2>2. /\ p.rcv = q.rcv => p.t = q.t \/ q.t - p.t > Tol \/ p.t - q.t > Tol
        /\ q.rcv = r.rcv => q.t = r.t \/ r.t - q.t > Tol \/ q.t - r.t > Tol
        /\ p.rcv = r.rcv => p.t = r.t \/ r.t - p.t > Tol \/ p.t - r.t > Tol
    BY <1>2, <2>1
  <2>. QED  BY <1>3, <1>6, <2>1, <2>2 DEF Before
<1>. QED  BY <1>4, <1>5, <1>6

LEMMA EpochsFinite ==
  ASSUME NEW T, IsFiniteSet(T), NEW r
  PROVE  IsFiniteSet([t : T, rcv : {r}, sat : Sats])
<1>. DEFINE O == [t : T, rcv : {r}, sat : Sats]
            f == [x \in T \X Sats |-> [t |-> x[1], rcv |-> r, sat |-> x[2]]]
<1>1. f \in [T \X Sats -> O]
  OBVIOUS
<1>2. \A o \in O : \E x \in T \X Sats : f[x] = o
  <2>1. SUFFICES ASSUME NEW o \in O PROVE \E x \in T \X Sats : f[x] = o
    OBVIOUS
  <2>2. <<o.t, o.sat>> \in T \X Sats /\ o = [t |-> o.t, rcv |-> r, sat |-> o.sat]
    OBVIOUS
  <2>3. f[<<o.t, o.sat>>] = o
    BY <2>2
  <2>. QED  BY <2>2, <2>3
<1>3. f \in Surjection(T \X Sats, O)
  <2>. HIDE DEF f, O
  <2>. QED  BY <1>1, <1>2 DEF Surjection
<1>4. IsFiniteSet(T \X Sats)
  BY FS_Product, PostAssumption
<1>. HIDE DEF f, O
<1>5. IsFiniteSet(O)
  BY <1>3, <1>4, FS_Surjection
<1>. QED  BY <1>5 DEF O

\* The sorted observations: times of a receiver's epochs, and who comes before whom.
LEMMA Array ==
  ASSUME DataOK
  PROVE  /\ NObs \in Nat
         /\ \A k \in 1 .. NObs : /\ data[k] = [t |-> data[k].t, rcv |-> data[k].rcv, sat |-> data[k].sat]
                                 /\ data[k].t \in Int /\ data[k].rcv \in {1, 2} /\ data[k].sat \in Sats
         /\ TimesOf(1) = RoverTimes /\ TimesOf(2) \in BaseTimes
         /\ \A r \in {1, 2} : \A t \in TimesOf(r), s \in Sats :
              \E k \in 1 .. NObs : data[k] = [t |-> t, rcv |-> r, sat |-> s]
         /\ \A i, j \in 1 .. NObs : i < j <=> Before(data[i], data[j])
         /\ data \in Seq([t : Int, rcv : {1, 2}, sat : Sats])
<1>1. PICK base \in BaseTimes : data = Sorted(All(base))
  BY DEF DataOK
<1>. DEFINE S == All(base)  n == Cardinality(S)
<1>2. IsFiniteSet(S)
  <2>1. IsFiniteSet(RoverTimes) /\ IsFiniteSet(base)
    BY PostAssumption
  <2>2. IsFiniteSet([t : RoverTimes, rcv : {1}, sat : Sats]) /\ IsFiniteSet([t : base, rcv : {2}, sat : Sats])
    BY <2>1, EpochsFinite
  <2>. QED  BY <2>2, FS_Union DEF All
<1>3. n \in Nat /\ InOrderOf(data, n, S)
  <2>. HIDE DEF S
  <2>1. /\ \A p, q \in S : p # q => Before(p, q) \/ Before(q, p)
        /\ \A p \in S : ~Before(p, p)
        /\ \A p, q, r \in S : Before(p, q) /\ Before(q, r) => Before(p, r)
    BY BeforeTotal DEF S
  <2>2. n \in Nat /\ InOrderOf(Sorted(S), n, S)
    BY <1>2, <2>1, SortedInOrder
  <2>. QED  BY <1>1, <2>2 DEF S
<1>. HIDE DEF n
<1>4. data \in [1 .. n -> S] /\ (\A p \in S : \E k \in 1 .. n : data[k] = p)
      /\ (\A i, j \in 1 .. n : i < j <=> Before(data[i], data[j]))
  BY <1>3 DEF InOrderOf
<1>5. \A p \in S : p \in [t : Int, rcv : {1, 2}, sat : Sats]
  BY PostAssumption DEF All
<1>6. data \in Seq([t : Int, rcv : {1, 2}, sat : Sats]) /\ NObs = n
  <2>1. data \in [1 .. n -> [t : Int, rcv : {1, 2}, sat : Sats]]
    BY <1>4, <1>5
  <2>2. ASSUME NEW T, data \in [1 .. n -> T] PROVE data \in Seq(T) /\ Len(data) = n
    BY <1>3, <2>2
  <2>. QED  BY <2>1, <2>2 DEF NObs
<1>7. ASSUME NEW k \in 1 .. NObs
      PROVE  /\ data[k] = [t |-> data[k].t, rcv |-> data[k].rcv, sat |-> data[k].sat]
             /\ data[k].t \in Int /\ data[k].rcv \in {1, 2} /\ data[k].sat \in Sats
  <2>1. data[k] \in [t : Int, rcv : {1, 2}, sat : Sats]
    BY <1>4, <1>5, <1>6
  <2>. QED  BY <2>1
<1>8. PICK s0 \in Sats : TRUE
  BY PostAssumption
<1>9. \A t : (t \in RoverTimes <=> \E k \in 1 .. n : data[k].t = t /\ data[k].rcv = 1)
             /\ (t \in base <=> \E k \in 1 .. n : data[k].t = t /\ data[k].rcv = 2)
  <2>1. ASSUME NEW k \in 1 .. n
        PROVE  (data[k].rcv = 1 => data[k].t \in RoverTimes) /\ (data[k].rcv = 2 => data[k].t \in base)
    BY <1>4 DEF All
  <2>2. ASSUME NEW t \in RoverTimes PROVE \E k \in 1 .. n : data[k].t = t /\ data[k].rcv = 1
    <3>1. [t |-> t, rcv |-> 1, sat |-> s0] \in S
      BY DEF All
    <3>. QED  BY <1>4, <3>1
  <2>3. ASSUME NEW t \in base PROVE \E k \in 1 .. n : data[k].t = t /\ data[k].rcv = 2
    <3>1. [t |-> t, rcv |-> 2, sat |-> s0] \in S
      BY DEF All
    <3>. QED  BY <1>4, <3>1
  <2>. QED  BY <2>1, <2>2, <2>3
<1>10. TimesOf(1) = RoverTimes /\ TimesOf(2) = base
  BY <1>6, <1>9 DEF TimesOf
<1>11. ASSUME NEW r \in {1, 2}, NEW t \in TimesOf(r), NEW s \in Sats
       PROVE  \E k \in 1 .. NObs : data[k] = [t |-> t, rcv |-> r, sat |-> s]
  <2>1. [t |-> t, rcv |-> r, sat |-> s] \in S
    <3>1. CASE r = 1
      BY <1>10, <3>1 DEF All
    <3>2. CASE r = 2
      BY <1>10, <3>2 DEF All
    <3>. QED  BY <3>1, <3>2
  <2>. QED  BY <1>4, <1>6, <2>1
<1>. QED  BY <1>3, <1>4, <1>6, <1>7, <1>10, <1>11

\* Times of one receiver's epochs are more than DTTOL apart.
LEMMA Apart ==
  ASSUME DataOK, NEW r \in {1, 2}
  PROVE  /\ TimesOf(r) \subseteq Int /\ IsFiniteSet(TimesOf(r))
         /\ \A t, u \in TimesOf(r) : t < u => u - t > Tol
         /\ \A k \in 1 .. NObs : data[k].rcv = r => data[k].t \in TimesOf(r)
<1>1. TimesOf(r) \in BaseTimes \cup {RoverTimes}
  BY Array
<1>2. \A k \in 1 .. NObs : data[k].rcv = r => data[k].t \in TimesOf(r)
  BY DEF TimesOf
<1>. QED  BY <1>1, <1>2, PostAssumption

\* The observations of an epoch stand together, after those of the receiver's earlier
\* epochs and before those of its later ones.
LEMMA EpochBlocks ==
  ASSUME DataOK, NEW r \in {1, 2}, NEW t \in TimesOf(r)
  PROVE  /\ FirstOne(t, r) \in 1 .. NObs /\ LastOne(t, r) \in FirstOne(t, r) .. NObs
         /\ LastOne(t, r) \in 1 .. NObs /\ FirstOne(t, r) \in 1 .. LastOne(t, r)
         /\ \A k \in FirstOne(t, r) .. LastOne(t, r) : k \in 1 .. NObs /\ data[k].rcv = r /\ data[k].t = t
         /\ \A k \in 1 .. NObs : data[k].rcv = r =>
              (k < FirstOne(t, r) <=> data[k].t < t) /\ (k > LastOne(t, r) <=> data[k].t > t)
<1>. DEFINE A == PlacesOf(t, r)  a == FirstOne(t, r)  z == LastOne(t, r)
<1>0. NObs \in Nat /\ Tol \in Nat /\ t \in Int
  BY Array, Apart, PostAssumption
<1>1. A \subseteq 1 .. NObs /\ \A k \in A : data[k].t = t /\ data[k].rcv = r
  BY DEF PlacesOf
<1>2. A # {} /\ A \subseteq Int /\ IsFiniteSet(A)
  <2>1. PICK k \in 1 .. NObs : data[k].rcv = r /\ t = data[k].t
    BY DEF TimesOf
  <2>2. IsFiniteSet(1 .. NObs)
    BY <1>0, FS_Interval
  <2>3. IsFiniteSet(A)
    <3>. HIDE DEF A
    <3>. QED  BY <1>1, <2>2, FS_Subset
  <2>. QED  BY <1>1, <2>1, <2>3 DEF PlacesOf
<1>3. a \in A /\ z \in A /\ \A k \in A : a <= k /\ k <= z
  <2>. HIDE DEF A
  <2>1. Min(A) \in A /\ \A y \in A : Min(A) <= y
    BY <1>2, MinOf
  <2>2. Max(A) \in A /\ \A y \in A : Max(A) >= y
    BY <1>2, MaxOf
  <2>3. a = Min(A) /\ z = Max(A)
    BY DEF FirstOne, LastOne, A
  <2>. QED  BY <1>2, <2>1, <2>2, <2>3
<1>4. a \in 1 .. NObs /\ z \in a .. NObs /\ data[a].t = t /\ data[z].t = t /\ data[a].rcv = r /\ data[z].rcv = r
  BY <1>0, <1>1, <1>3
<1>. HIDE DEF a, z
<1>5. ASSUME NEW k \in 1 .. NObs PROVE data[k].t \in Int /\ data[k].rcv \in {1, 2} /\ data[k].sat \in Int
  BY Array, PostAssumption
<1>6. \A i, j \in 1 .. NObs : i < j <=> Before(data[i], data[j])
  BY Array
<1>7. ASSUME NEW k \in a .. z PROVE k \in 1 .. NObs /\ data[k].rcv = r /\ data[k].t = t
  <2>1. k \in 1 .. NObs /\ a \in 1 .. NObs /\ z \in 1 .. NObs
    BY <1>0, <1>4
  <2>2. (k = a \/ Before(data[a], data[k])) /\ (k = z \/ Before(data[k], data[z]))
    BY <1>6, <2>1
  <2>3. data[k].rcv = r
    BY <1>0, <1>4, <1>5, <2>1, <2>2 DEF Before
  <2>4. data[k].t <= t + Tol /\ data[k].t >= t - Tol
    <3>1. t - data[k].t <= Tol
      BY <1>0, <1>4, <1>5, <2>1, <2>2, <2>3 DEF Before
    <3>2. data[k].t - t <= Tol
      BY <1>0, <1>4, <1>5, <2>1, <2>2, <2>3 DEF Before
    <3>. QED  BY <1>0, <1>5, <2>1, <3>1, <3>2
  <2>5. data[k].t \in TimesOf(r) /\ data[k].t \in Int
    BY <1>5, <2>1, <2>3, Apart
  <2>6. (data[k].t < t => t - data[k].t > Tol) /\ (t < data[k].t => data[k].t - t > Tol)
    BY <2>5, Apart
  <2>. QED  BY <1>0, <2>1, <2>3, <2>4, <2>5, <2>6
<1>8. ASSUME NEW k \in 1 .. NObs, data[k].rcv = r
      PROVE  (k < a <=> data[k].t < t) /\ (k > z <=> data[k].t > t)
  <2>1. data[k].t = t => a <= k /\ k <= z
    BY <1>3, <1>8 DEF PlacesOf
  <2>2. data[k].t \in TimesOf(r) /\ data[k].t \in Int
    BY <1>5, <1>8, Apart
  <2>3. (data[k].t < t => t - data[k].t > Tol) /\ (t < data[k].t => data[k].t - t > Tol)
    BY <2>2, Apart
  <2>4. data[k].t < t => k < a
    <3>1. data[k].t < t => Before(data[k], data[a])
      BY <1>4, <2>3 DEF Before
    <3>. QED  BY <1>4, <1>6, <3>1
  <2>5. data[k].t > t => k > z
    <3>1. z \in 1 .. NObs
      BY <1>0, <1>4
    <3>2. data[k].t > t => Before(data[z], data[k])
      BY <1>4, <2>2, <2>3, <1>0 DEF Before
    <3>. QED  BY <1>6, <3>1, <3>2
  <2>6. a \in Int /\ z \in Int /\ a <= z /\ k \in Int
    BY <1>0, <1>4
  <2>. QED  BY <1>0, <2>1, <2>2, <2>4, <2>5, <2>6
<1>9. z \in 1 .. NObs /\ a \in 1 .. z
  BY <1>0, <1>4
<1>. QED  BY <1>4, <1>7, <1>8, <1>9 DEF a, z

\* The stretch of an epoch is the whole of it.
LEMMA WholeEpoch ==
  ASSUME DataOK, NEW r \in {1, 2}, NEW t \in TimesOf(r)
  PROVE  SubSeq(data, FirstOne(t, r), LastOne(t, r)) = Whole(t, r)
<1>. DEFINE a == FirstOne(t, r)  z == LastOne(t, r)  n == z - a + 1
            E == [t : {t}, rcv : {r}, sat : Sats]
            s == [k \in 1 .. n |-> data[a + k - 1]]
<1>1. /\ NObs \in Nat /\ a \in 1 .. NObs /\ z \in a .. NObs
      /\ \A k \in a .. z : k \in 1 .. NObs /\ data[k].rcv = r /\ data[k].t = t
      /\ \A k \in 1 .. NObs : data[k].rcv = r => (k < a <=> data[k].t < t) /\ (k > z <=> data[k].t > t)
  BY Array, EpochBlocks
<1>2. \A k \in 1 .. NObs : /\ data[k] = [t |-> data[k].t, rcv |-> data[k].rcv, sat |-> data[k].sat]
                           /\ data[k].sat \in Sats
  BY Array
<1>3. SubSeq(data, a, z) = s
  <2>1. data \in Seq([t : Int, rcv : {1, 2}, sat : Sats]) /\ Len(data) = NObs
    BY Array DEF NObs
  <2>. HIDE DEF a, z
  <2>2. SubSeq(data, a, z) = [k \in 1 .. z - a + 1 |-> data[a + k - 1]]
    BY <1>1, <2>1
  <2>. QED  BY <2>2
<1>. HIDE DEF a, z
<1>4. n \in Nat /\ \A k \in 1 .. n : a + k - 1 \in a .. z
  BY <1>1
<1>5. InOrderOf(s, n, E)
  <2>1. s \in [1 .. n -> E]
    <3>1. ASSUME NEW k \in 1 .. n PROVE data[a + k - 1] \in E
      <4>. DEFINE j == a + k - 1
      <4>1. j \in 1 .. NObs /\ data[j].rcv = r /\ data[j].t = t
        BY <1>1, <1>4
      <4>. HIDE DEF j
      <4>2. data[j] = [t |-> t, rcv |-> r, sat |-> data[j].sat] /\ data[j].sat \in Sats
        BY <1>2, <4>1
      <4>3. data[j] \in E
        BY <4>2
      <4>. QED  BY <4>3 DEF j
    <3>. HIDE DEF n, E
    <3>. QED  BY <3>1
  <2>2. ASSUME NEW p \in E PROVE \E k \in 1 .. n : s[k] = p
    <3>1. PICK j \in 1 .. NObs : data[j] = [t |-> t, rcv |-> r, sat |-> p.sat]
      BY Array
    <3>2. j \in a .. z /\ data[j] = p
      <4>1. data[j].rcv = r /\ data[j].t = t /\ t \in Int
        BY <3>1, Apart
      <4>2. ~(j < a) /\ ~(j > z)
        BY <1>1, <4>1
      <4>. QED  BY <1>1, <3>1, <4>2
    <3>3. j - a + 1 \in 1 .. n /\ a + (j - a + 1) - 1 = j
      BY <1>1, <3>2
    <3>4. s[j - a + 1] = data[j]
      BY <3>3
    <3>. QED  BY <3>2, <3>3, <3>4
  <2>3. ASSUME NEW i \in 1 .. n, NEW j \in 1 .. n PROVE i < j <=> Before(s[i], s[j])
    <3>1. a + i - 1 \in 1 .. NObs /\ a + j - 1 \in 1 .. NObs
      BY <1>1, <1>4
    <3>2. a + i - 1 < a + j - 1 <=> Before(data[a + i - 1], data[a + j - 1])
      BY <3>1, Array
    <3>. QED  BY <1>1, <3>2
  <2>. HIDE DEF n, E, s
  <2>. QED  BY <2>1, <2>2, <2>3 DEF InOrderOf
<1>6. s = Sorted(E)
  <2>. HIDE DEF s, n, E
  <2>. QED  BY <1>4, <1>5, SortedOnly
<1>. QED  BY <1>3, <1>6 DEF Whole, a, z

\* Earlier epochs of a receiver stand before its later ones.
LEMMA BlocksInOrder ==
  ASSUME DataOK, NEW r \in {1, 2}, NEW u \in TimesOf(r), NEW v \in TimesOf(r), u < v
  PROVE  LastOne(u, r) < FirstOne(v, r)
<1>1. LastOne(u, r) \in FirstOne(u, r) .. LastOne(u, r)
  BY Array, EpochBlocks
<1>2. LastOne(u, r) \in 1 .. NObs /\ data[LastOne(u, r)].rcv = r /\ data[LastOne(u, r)].t = u
  BY <1>1, EpochBlocks
<1>. QED  BY <1>2, EpochBlocks

-----------------------------------------------------------------------------
(* Forwards through the array.                                              *)

LEMMA StartFIs ==
  ASSUME DataOK, NEW r, NEW i \in 1 .. NObs + 1
  PROVE  /\ StartF(i, r) \in i .. NObs + 1
         /\ StartF(i, r) <= NObs => data[StartF(i, r)].rcv = r
         /\ \A k \in i .. NObs : data[k].rcv = r => StartF(i, r) <= k
<1>. DEFINE S == {j \in i .. NObs : data[j].rcv = r} \cup {NObs + 1}
<1>1. NObs \in Nat
  BY Array
<1>2. S \subseteq i .. NObs + 1 /\ S # {} /\ S \subseteq Int
  BY <1>1
<1>3. IsFiniteSet(i .. NObs + 1)
  BY <1>1, FS_Interval
<1>4. Min(S) \in S /\ \A y \in S : Min(S) <= y
  <2>. HIDE DEF S
  <2>1. IsFiniteSet(S)
    BY <1>2, <1>3, FS_Subset
  <2>. QED  BY <1>2, <2>1, MinOf
<1>5. StartF(i, r) = Min(S)
  BY DEF StartF
<1>. QED  BY <1>1, <1>2, <1>4, <1>5

LEMMA CountFIs ==
  ASSUME DataOK, NEW r, NEW s \in 1 .. NObs + 1
  PROVE  /\ CountF(s, r) \in Int /\ s + CountF(s, r) \in s .. NObs + 1
         /\ s + CountF(s, r) <= NObs => \/ data[s + CountF(s, r)].rcv # r
                                        \/ data[s + CountF(s, r)].t - data[s].t > Tol
         /\ \A k \in s .. NObs : data[k].rcv # r \/ data[k].t - data[s].t > Tol => s + CountF(s, r) <= k
<1>. DEFINE S == {j \in s .. NObs : data[j].rcv # r \/ data[j].t - data[s].t > Tol} \cup {NObs + 1}
<1>1. NObs \in Nat
  BY Array
<1>2. S \subseteq s .. NObs + 1 /\ S # {} /\ S \subseteq Int
  BY <1>1
<1>3. IsFiniteSet(s .. NObs + 1)
  BY <1>1, FS_Interval
<1>4. Min(S) \in S /\ \A y \in S : Min(S) <= y
  <2>. HIDE DEF S
  <2>1. IsFiniteSet(S)
    BY <1>2, <1>3, FS_Subset
  <2>. QED  BY <1>2, <2>1, MinOf
<1>5. CountF(s, r) \in Int /\ s + CountF(s, r) = Min(S)
  <2>1. CountF(s, r) = Min(S) - s
    BY DEF CountF
  <2>2. Min(S) \in Int /\ s \in Int
    BY <1>2, <1>4
  <2>. HIDE DEF S
  <2>. QED  BY <2>1, <2>2
<1>. QED  BY <1>1, <1>2, <1>4, <1>5

\* From between two epochs of a receiver nextobsf finds the later one.
LEMMA StartsF ==
  ASSUME DataOK, NEW r \in {1, 2}, NEW i \in 1 .. NObs + 1,
         \A u \in TimesOf(r) : i <= FirstOne(u, r) \/ i > LastOne(u, r)
  PROVE  \/ \E u \in TimesOf(r) : /\ StartF(i, r) = FirstOne(u, r) /\ i <= FirstOne(u, r)
                                  /\ \A c \in TimesOf(r) : c < u => FirstOne(c, r) < i
         \/ StartF(i, r) = NObs + 1 /\ \A c \in TimesOf(r) : FirstOne(c, r) < i
<1>. DEFINE s == StartF(i, r)
<1>0. NObs \in Nat /\ s \in i .. NObs + 1 /\ (s <= NObs => data[s].rcv = r)
      /\ \A k \in i .. NObs : data[k].rcv = r => s <= k
  BY Array, StartFIs
<1>. HIDE DEF s
<1>1. ASSUME NEW c \in TimesOf(r)
      PROVE  /\ FirstOne(c, r) \in 1 .. NObs /\ data[FirstOne(c, r)].rcv = r /\ LastOne(c, r) \in FirstOne(c, r) .. NObs
             /\ (i <= FirstOne(c, r) => s <= FirstOne(c, r))
  <2>1. FirstOne(c, r) \in 1 .. NObs /\ LastOne(c, r) \in FirstOne(c, r) .. NObs
    BY EpochBlocks
  <2>2. FirstOne(c, r) \in FirstOne(c, r) .. LastOne(c, r)
    BY <1>0, <2>1
  <2>3. data[FirstOne(c, r)].rcv = r
    BY <2>2, EpochBlocks
  <2>. QED  BY <1>0, <2>1, <2>3
<1>2. CASE s = NObs + 1
  <2>1. ASSUME NEW c \in TimesOf(r) PROVE FirstOne(c, r) < i
    BY <1>0, <1>1, <1>2
  <2>. QED  BY <1>2, <2>1 DEF s
<1>3. CASE s <= NObs
  <2>. DEFINE u == data[s].t
  <2>1. s \in 1 .. NObs /\ u \in TimesOf(r) /\ u \in Int
    <3>1. s \in 1 .. NObs
      BY <1>0, <1>3
    <3>. QED  BY <1>0, <1>3, <3>1, Apart
  <2>2. FirstOne(u, r) <= s /\ s <= LastOne(u, r)
    <3>1. (s < FirstOne(u, r) <=> data[s].t < u) /\ (s > LastOne(u, r) <=> data[s].t > u)
      BY <1>0, <1>3, <2>1, EpochBlocks
    <3>. QED  BY <1>0, <1>1, <2>1, <3>1
  <2>. HIDE DEF u
  <2>3. i <= FirstOne(u, r)
    BY <1>0, <1>1, <2>1, <2>2
  <2>4. s = FirstOne(u, r)
    BY <1>0, <1>1, <2>1, <2>2, <2>3
  <2>5. ASSUME NEW c \in TimesOf(r), c < u PROVE FirstOne(c, r) < i
    <3>1. LastOne(c, r) < FirstOne(u, r)
      BY <2>1, <2>5, BlocksInOrder
    <3>. QED  BY <1>0, <1>1, <2>1, <2>4, <3>1
  <2>. QED  BY <2>1, <2>3, <2>4, <2>5 DEF s
<1>. QED  BY <1>0, <1>2, <1>3

\* It counts the whole of an epoch.
LEMMA CountsF ==
  ASSUME DataOK, NEW r \in {1, 2}, NEW t \in TimesOf(r)
  PROVE  /\ FirstOne(t, r) + CountF(FirstOne(t, r), r) = LastOne(t, r) + 1
         /\ FirstOne(t, r) + CountF(FirstOne(t, r), r) - 1 = LastOne(t, r)
<1>. DEFINE a == FirstOne(t, r)  z == LastOne(t, r)  e == a + CountF(a, r)
<1>1. /\ NObs \in Nat /\ a \in 1 .. NObs /\ z \in a .. NObs /\ Tol \in Nat /\ t \in Int
      /\ \A k \in a .. z : k \in 1 .. NObs /\ data[k].rcv = r /\ data[k].t = t
      /\ \A k \in 1 .. NObs : data[k].rcv = r => (k < a <=> data[k].t < t) /\ (k > z <=> data[k].t > t)
  BY Array, EpochBlocks, Apart, PostAssumption
<1>. HIDE DEF a, z
<1>2. /\ CountF(a, r) \in Int /\ e \in a .. NObs + 1
      /\ e <= NObs => data[e].rcv # r \/ data[e].t - data[a].t > Tol
      /\ \A k \in a .. NObs : data[k].rcv # r \/ data[k].t - data[a].t > Tol => e <= k
  <2>1. a \in 1 .. NObs + 1
    BY <1>1
  <2>. QED  BY <2>1, CountFIs
<1>. HIDE DEF e
<1>3. data[a].t = t
  BY <1>1
<1>4. e > z
  <2>1. SUFFICES ASSUME e <= z PROVE FALSE
    BY <1>1, <1>2
  <2>2. e \in a .. z /\ e <= NObs
    BY <1>1, <1>2, <2>1
  <2>3. data[e].rcv = r /\ data[e].t = t
    BY <1>1, <2>2
  <2>. QED  BY <1>1, <1>2, <1>3, <2>2, <2>3
<1>5. CASE z + 1 <= NObs
  <2>1. z + 1 \in 1 .. NObs /\ z + 1 \in a .. NObs
    BY <1>1, <1>5
  <2>2. data[z + 1].rcv = r => data[z + 1].t - t > Tol
    <3>1. SUFFICES ASSUME data[z + 1].rcv = r PROVE data[z + 1].t - t > Tol
      OBVIOUS
    <3>2. data[z + 1].t > t
      BY <1>1, <2>1, <3>1
    <3>3. data[z + 1].t \in TimesOf(r)
      BY <2>1, <3>1, Apart
    <3>. QED  BY <3>2, <3>3, Apart
  <2>3. e <= z + 1
    BY <1>2, <1>3, <2>1, <2>2
  <2>. QED  BY <1>1, <1>2, <1>4, <2>3 DEF e, a, z
<1>6. CASE z + 1 > NObs
  BY <1>1, <1>2, <1>4, <1>6 DEF e, a, z
<1>. QED  BY <1>1, <1>5, <1>6

\* The base's next epoch after the one at b
LEMMA NextsF ==
  ASSUME DataOK, NEW b \in Bases
  PROVE  \/ \E u \in Bases : NextF(FirstOne(b, 2)) = FirstOne(u, 2) /\ b < u /\ \A c \in Bases : c < u => c <= b
         \/ NextF(FirstOne(b, 2)) = NObs + 1 /\ \A c \in Bases : c <= b
<1>0. Bases = TimesOf(2) /\ 2 \in {1, 2}
  BY DEF Bases, TimesOf
<1>. DEFINE i == LastOne(b, 2) + 1
<1>1. NextF(FirstOne(b, 2)) = StartF(i, 2)
  BY <1>0, CountsF DEF NextF
<1>2. ASSUME NEW c \in Bases
      PROVE  /\ c \in Int /\ FirstOne(c, 2) \in 1 .. NObs /\ LastOne(c, 2) \in FirstOne(c, 2) .. NObs
             /\ c < b => LastOne(c, 2) < FirstOne(b, 2)
             /\ b < c => LastOne(b, 2) < FirstOne(c, 2)
  BY <1>0, Apart, EpochBlocks, BlocksInOrder
<1>3. NObs \in Nat /\ i \in 1 .. NObs + 1
  BY <1>2, Array
<1>4. \A c \in Bases : i <= FirstOne(c, 2) \/ i > LastOne(c, 2)
  <2>1. SUFFICES ASSUME NEW c \in Bases PROVE i <= FirstOne(c, 2) \/ i > LastOne(c, 2)
    OBVIOUS
  <2>. QED  BY <1>2, <1>3
<1>5. \A c \in Bases : FirstOne(c, 2) < i => c <= b
  BY <1>2, <1>3
<1>6. \A c \in Bases : i <= FirstOne(c, 2) => b < c
  BY <1>2, <1>3
<1>. HIDE DEF i
<1>7. \/ \E u \in Bases : /\ StartF(i, 2) = FirstOne(u, 2) /\ i <= FirstOne(u, 2)
                          /\ \A c \in Bases : c < u => FirstOne(c, 2) < i
      \/ StartF(i, 2) = NObs + 1 /\ \A c \in Bases : FirstOne(c, 2) < i
  BY <1>0, <1>3, <1>4, StartsF
<1>. QED  BY <1>1, <1>5, <1>6, <1>7

\* The loops go on through the array.
LEMMA NextMovesF ==
  ASSUME DataOK
  PROVE  /\ \A j \in 1 .. NObs : NextF(j) \in j + 1 .. NObs + 1
         /\ NextF(NObs + 1) = NObs + 1
<1>0. NObs \in Nat
  BY Array
<1>1. ASSUME NEW j \in 1 .. NObs + 1
      PROVE  NextF(j) \in j .. NObs + 1 /\ (j <= NObs => NextF(j) # j)
  <2>. DEFINE e == j + CountF(j, 2)
  <2>1. /\ e \in j .. NObs + 1
        /\ e <= NObs => data[e].rcv # 2 \/ data[e].t - data[j].t > Tol
    BY CountFIs
  <2>2. NextF(j) = StartF(e, 2)
    BY DEF NextF
  <2>. HIDE DEF e
  <2>3. e \in 1 .. NObs + 1
    BY <1>0, <2>1
  <2>4. StartF(e, 2) \in e .. NObs + 1 /\ (StartF(e, 2) <= NObs => data[StartF(e, 2)].rcv = 2)
    BY <2>3, StartFIs
  <2>5. ASSUME j <= NObs, NextF(j) = j PROVE FALSE
    <3>1. StartF(e, 2) = e /\ e = j
      BY <1>0, <2>1, <2>2, <2>4, <2>5
    <3>2. data[j].rcv = 2 /\ data[j].t - data[j].t > Tol
      BY <2>1, <2>4, <2>5, <3>1
    <3>3. data[j].t \in Int /\ Tol \in Nat
      <4>1. j \in 1 .. NObs
        BY <1>0, <2>5
      <4>. QED  BY <4>1, Array, PostAssumption
    <3>. QED  BY <3>2, <3>3
  <2>. QED  BY <1>0, <2>1, <2>2, <2>4, <2>5
<1>2. \A j \in 1 .. NObs : NextF(j) \in j + 1 .. NObs + 1
  <2>1. SUFFICES ASSUME NEW j \in 1 .. NObs PROVE NextF(j) \in j + 1 .. NObs + 1
    OBVIOUS
  <2>2. j \in 1 .. NObs + 1
    BY <1>0
  <2>3. NextF(j) \in j .. NObs + 1 /\ (j <= NObs => NextF(j) # j)
    BY <1>1, <2>2
  <2>. QED  BY <1>0, <2>3
<1>3. NextF(NObs + 1) = NObs + 1
  <2>1. NObs + 1 \in 1 .. NObs + 1
    BY <1>0
  <2>2. NextF(NObs + 1) \in NObs + 1 .. NObs + 1
    BY <1>1, <2>1
  <2>. QED  BY <1>0, <2>2
<1>. QED  BY <1>2, <1>3

LEMMA StartBIs ==
  ASSUME DataOK, NEW r, NEW i \in 0 .. NObs
  PROVE  /\ StartB(i, r) \in 0 .. i
         /\ StartB(i, r) >= 1 => data[StartB(i, r)].rcv = r
         /\ \A k \in 1 .. i : data[k].rcv = r => StartB(i, r) >= k
<1>. DEFINE S == {j \in 1 .. i : data[j].rcv = r} \cup {0}
<1>1. NObs \in Nat
  BY Array
<1>2. S \subseteq 0 .. i /\ S # {} /\ S \subseteq Int
  BY <1>1
<1>3. IsFiniteSet(0 .. i)
  BY <1>1, FS_Interval
<1>4. Max(S) \in S /\ \A y \in S : Max(S) >= y
  <2>. HIDE DEF S
  <2>1. IsFiniteSet(S)
    BY <1>2, <1>3, FS_Subset
  <2>. QED  BY <1>2, <2>1, MaxOf
<1>5. StartB(i, r) = Max(S)
  BY DEF StartB
<1>. QED  BY <1>1, <1>2, <1>4, <1>5

LEMMA CountBIs ==
  ASSUME DataOK, NEW r, NEW s \in 0 .. NObs
  PROVE  /\ CountB(s, r) \in Int /\ s - CountB(s, r) \in 0 .. s
         /\ s - CountB(s, r) >= 1 => \/ data[s - CountB(s, r)].rcv # r
                                        \/ data[s - CountB(s, r)].t - data[s].t < -Tol
         /\ \A k \in 1 .. s : data[k].rcv # r \/ data[k].t - data[s].t < -Tol => s - CountB(s, r) >= k
<1>. DEFINE S == {j \in 1 .. s : data[j].rcv # r \/ data[j].t - data[s].t < -Tol} \cup {0}
<1>1. NObs \in Nat
  BY Array
<1>2. S \subseteq 0 .. s /\ S # {} /\ S \subseteq Int
  BY <1>1
<1>3. IsFiniteSet(0 .. s)
  BY <1>1, FS_Interval
<1>4. Max(S) \in S /\ \A y \in S : Max(S) >= y
  <2>. HIDE DEF S
  <2>1. IsFiniteSet(S)
    BY <1>2, <1>3, FS_Subset
  <2>. QED  BY <1>2, <2>1, MaxOf
<1>5. CountB(s, r) \in Int /\ s - CountB(s, r) = Max(S)
  <2>1. CountB(s, r) = s - Max(S)
    BY DEF CountB
  <2>2. Max(S) \in Int /\ s \in Int
    BY <1>2, <1>4
  <2>. HIDE DEF S
  <2>. QED  BY <2>1, <2>2
<1>. QED  BY <1>1, <1>2, <1>4, <1>5

\* From between two epochs of a receiver nextobsb finds the earlier one.
LEMMA StartsB ==
  ASSUME DataOK, NEW r \in {1, 2}, NEW i \in 0 .. NObs,
         \A u \in TimesOf(r) : i >= LastOne(u, r) \/ i < FirstOne(u, r)
  PROVE  \/ \E u \in TimesOf(r) : /\ StartB(i, r) = LastOne(u, r) /\ i >= LastOne(u, r)
                                  /\ \A c \in TimesOf(r) : c > u => LastOne(c, r) > i
         \/ StartB(i, r) = 0 /\ \A c \in TimesOf(r) : LastOne(c, r) > i
<1>. DEFINE s == StartB(i, r)
<1>0. NObs \in Nat /\ s \in 0 .. i /\ (s >= 1 => data[s].rcv = r)
      /\ \A k \in 1 .. i : data[k].rcv = r => s >= k
  BY Array, StartBIs
<1>. HIDE DEF s
<1>1. ASSUME NEW c \in TimesOf(r)
      PROVE  /\ LastOne(c, r) \in 1 .. NObs /\ data[LastOne(c, r)].rcv = r /\ FirstOne(c, r) \in 1 .. LastOne(c, r)
             /\ (i >= LastOne(c, r) => s >= LastOne(c, r))
  <2>1. LastOne(c, r) \in 1 .. NObs /\ FirstOne(c, r) \in 1 .. LastOne(c, r)
    BY EpochBlocks
  <2>2. LastOne(c, r) \in FirstOne(c, r) .. LastOne(c, r)
    BY <1>0, <2>1
  <2>3. data[LastOne(c, r)].rcv = r
    BY <2>2, EpochBlocks
  <2>. QED  BY <1>0, <2>1, <2>3
<1>2. CASE s = 0
  <2>1. ASSUME NEW c \in TimesOf(r) PROVE LastOne(c, r) > i
    BY <1>0, <1>1, <1>2
  <2>. QED  BY <1>2, <2>1 DEF s
<1>3. CASE s >= 1
  <2>. DEFINE u == data[s].t
  <2>1. s \in 1 .. NObs /\ u \in TimesOf(r) /\ u \in Int
    <3>1. s \in 1 .. NObs
      BY <1>0, <1>3
    <3>. QED  BY <1>0, <1>3, <3>1, Apart
  <2>2. LastOne(u, r) >= s /\ s >= FirstOne(u, r)
    <3>1. (s > LastOne(u, r) <=> data[s].t > u) /\ (s < FirstOne(u, r) <=> data[s].t < u)
      BY <1>0, <1>3, <2>1, EpochBlocks
    <3>. QED  BY <1>0, <1>1, <2>1, <3>1
  <2>. HIDE DEF u
  <2>3. i >= LastOne(u, r)
    BY <1>0, <1>1, <2>1, <2>2
  <2>4. s = LastOne(u, r)
    BY <1>0, <1>1, <2>1, <2>2, <2>3
  <2>5. ASSUME NEW c \in TimesOf(r), c > u PROVE LastOne(c, r) > i
    <3>1. FirstOne(c, r) > LastOne(u, r)
      BY <2>1, <2>5, BlocksInOrder
    <3>. QED  BY <1>0, <1>1, <2>1, <2>4, <3>1
  <2>. QED  BY <2>1, <2>3, <2>4, <2>5 DEF s
<1>. QED  BY <1>0, <1>2, <1>3

\* It counts the whole of an epoch.
LEMMA CountsB ==
  ASSUME DataOK, NEW r \in {1, 2}, NEW t \in TimesOf(r)
  PROVE  /\ LastOne(t, r) - CountB(LastOne(t, r), r) = FirstOne(t, r) - 1
         /\ LastOne(t, r) - CountB(LastOne(t, r), r) + 1 = FirstOne(t, r)
<1>. DEFINE a == LastOne(t, r)  z == FirstOne(t, r)  e == a - CountB(a, r)
<1>1. /\ NObs \in Nat /\ a \in 1 .. NObs /\ z \in 1 .. a /\ Tol \in Nat /\ t \in Int
      /\ \A k \in z .. a : k \in 1 .. NObs /\ data[k].rcv = r /\ data[k].t = t
      /\ \A k \in 1 .. NObs : data[k].rcv = r => (k > a <=> data[k].t > t) /\ (k < z <=> data[k].t < t)
  BY Array, EpochBlocks, Apart, PostAssumption
<1>. HIDE DEF a, z
<1>2. /\ CountB(a, r) \in Int /\ e \in 0 .. a
      /\ e >= 1 => data[e].rcv # r \/ data[e].t - data[a].t < -Tol
      /\ \A k \in 1 .. a : data[k].rcv # r \/ data[k].t - data[a].t < -Tol => e >= k
  <2>1. a \in 0 .. NObs
    BY <1>1
  <2>. QED  BY <2>1, CountBIs
<1>. HIDE DEF e
<1>3. data[a].t = t
  BY <1>1
<1>4. e < z
  <2>1. SUFFICES ASSUME e >= z PROVE FALSE
    BY <1>1, <1>2
  <2>2. e \in z .. a /\ e >= 1
    BY <1>1, <1>2, <2>1
  <2>3. data[e].rcv = r /\ data[e].t = t
    BY <1>1, <2>2
  <2>. QED  BY <1>1, <1>2, <1>3, <2>2, <2>3
<1>5. CASE z - 1 >= 1
  <2>1. z - 1 \in 1 .. NObs /\ z - 1 \in 1 .. a
    BY <1>1, <1>5
  <2>2. data[z - 1].rcv = r => data[z - 1].t - t < -Tol
    <3>1. SUFFICES ASSUME data[z - 1].rcv = r PROVE data[z - 1].t - t < -Tol
      OBVIOUS
    <3>2. data[z - 1].t < t
      BY <1>1, <2>1, <3>1
    <3>3. data[z - 1].t \in TimesOf(r) /\ data[z - 1].t \in Int
      BY <2>1, <3>1, Apart
    <3>4. t - data[z - 1].t > Tol
      BY <3>2, <3>3, Apart
    <3>. QED  BY <1>1, <3>3, <3>4
  <2>3. e >= z - 1
    BY <1>2, <1>3, <2>1, <2>2
  <2>. QED  BY <1>1, <1>2, <1>4, <2>3 DEF e, a, z
<1>6. CASE z - 1 < 1
  BY <1>1, <1>2, <1>4, <1>6 DEF e, a, z
<1>. QED  BY <1>1, <1>5, <1>6

\* The base's next epoch, backwards, after the one at b
LEMMA NextsB ==
  ASSUME DataOK, NEW b \in Bases
  PROVE  \/ \E u \in Bases : NextB(LastOne(b, 2)) = LastOne(u, 2) /\ b > u /\ \A c \in Bases : c > u => c >= b
         \/ NextB(LastOne(b, 2)) = 0 /\ \A c \in Bases : c >= b
<1>0. Bases = TimesOf(2) /\ 2 \in {1, 2}
  BY DEF Bases, TimesOf
<1>. DEFINE i == FirstOne(b, 2) - 1
<1>1. NextB(LastOne(b, 2)) = StartB(i, 2)
  BY <1>0, CountsB DEF NextB
<1>2. ASSUME NEW c \in Bases
      PROVE  /\ c \in Int /\ LastOne(c, 2) \in 1 .. NObs /\ FirstOne(c, 2) \in 1 .. LastOne(c, 2)
             /\ c > b => FirstOne(c, 2) > LastOne(b, 2)
             /\ b > c => FirstOne(b, 2) > LastOne(c, 2)
  BY <1>0, Apart, EpochBlocks, BlocksInOrder
<1>3. NObs \in Nat /\ i \in 0 .. NObs
  BY <1>2, Array
<1>4. \A c \in Bases : i >= LastOne(c, 2) \/ i < FirstOne(c, 2)
  <2>1. SUFFICES ASSUME NEW c \in Bases PROVE i >= LastOne(c, 2) \/ i < FirstOne(c, 2)
    OBVIOUS
  <2>. QED  BY <1>2, <1>3
<1>5. \A c \in Bases : LastOne(c, 2) > i => c >= b
  BY <1>2, <1>3
<1>6. \A c \in Bases : i >= LastOne(c, 2) => b > c
  BY <1>2, <1>3
<1>. HIDE DEF i
<1>7. \/ \E u \in Bases : /\ StartB(i, 2) = LastOne(u, 2) /\ i >= LastOne(u, 2)
                          /\ \A c \in Bases : c > u => LastOne(c, 2) > i
      \/ StartB(i, 2) = 0 /\ \A c \in Bases : LastOne(c, 2) > i
  BY <1>0, <1>3, <1>4, StartsB
<1>. QED  BY <1>1, <1>5, <1>6, <1>7

\* The loops go on through the array.
LEMMA NextMovesB ==
  ASSUME DataOK
  PROVE  /\ \A j \in 1 .. NObs : NextB(j) \in 0 .. j - 1
         /\ NextB(0) = 0
<1>0. NObs \in Nat
  BY Array
<1>1. ASSUME NEW j \in 0 .. NObs
      PROVE  NextB(j) \in 0 .. j /\ (j >= 1 => NextB(j) # j)
  <2>. DEFINE e == j - CountB(j, 2)
  <2>1. /\ e \in 0 .. j
        /\ e >= 1 => data[e].rcv # 2 \/ data[e].t - data[j].t < -Tol
    BY CountBIs
  <2>2. NextB(j) = StartB(e, 2)
    BY DEF NextB
  <2>. HIDE DEF e
  <2>3. e \in 0 .. NObs
    BY <1>0, <2>1
  <2>4. StartB(e, 2) \in 0 .. e /\ (StartB(e, 2) >= 1 => data[StartB(e, 2)].rcv = 2)
    BY <2>3, StartBIs
  <2>5. ASSUME j >= 1, NextB(j) = j PROVE FALSE
    <3>1. StartB(e, 2) = e /\ e = j
      BY <1>0, <2>1, <2>2, <2>4, <2>5
    <3>2. data[j].rcv = 2 /\ data[j].t - data[j].t < -Tol
      BY <2>1, <2>4, <2>5, <3>1
    <3>3. data[j].t \in Int /\ Tol \in Nat
      <4>1. j \in 1 .. NObs
        BY <1>0, <2>5
      <4>. QED  BY <4>1, Array, PostAssumption
    <3>. QED  BY <3>2, <3>3
  <2>. QED  BY <1>0, <2>1, <2>2, <2>4, <2>5
<1>2. \A j \in 1 .. NObs : NextB(j) \in 0 .. j - 1
  <2>1. SUFFICES ASSUME NEW j \in 1 .. NObs PROVE NextB(j) \in 0 .. j - 1
    OBVIOUS
  <2>2. j \in 0 .. NObs
    BY <1>0
  <2>3. NextB(j) \in 0 .. j /\ (j >= 1 => NextB(j) # j)
    BY <1>1, <2>2
  <2>. QED  BY <1>0, <2>3
<1>3. NextB(0) = 0
  <2>1. 0 \in 0 .. NObs
    BY <1>0
  <2>2. NextB(0) \in 0 .. 0
    BY <1>1, <2>1
  <2>. QED  BY <1>0, <2>2
<1>. QED  BY <1>2, <1>3

\* To interpolate, the loop ends at the first of the base's epochs that is not before t.
LEMMA ToTheFirstF ==
  ASSUME DataOK, NEW t \in Int, NEW i,
         StartF(i, 2) = NObs + 1 \/ \E b \in Bases : StartF(i, 2) = FirstOne(b, 2),
         \A c \in Bases : FirstOne(c, 2) < StartF(i, 2) => c <= t - Tol
  PROVE  \/ IntpF(i, t) = NObs + 1 /\ \A c \in Bases : c <= t - Tol
         \/ \E b \in Bases : /\ IntpF(i, t) = FirstOne(b, 2) /\ b > t - Tol
                             /\ \A c \in Bases : c < b => c <= t - Tol
<1>. DEFINE s0   == StartF(i, 2)
            D    == 1 .. NObs + 1
            next == [s \in D |-> NextF(s)]
            stop == {s \in D : s > NObs \/ data[s].t - t > -Tol}
            m    == [s \in D |-> NObs + 1 - s]
            Inv  == {s \in D : /\ s = NObs + 1 \/ \E b \in Bases : s = FirstOne(b, 2)
                               /\ \A c \in Bases : FirstOne(c, 2) < s => c <= t - Tol}
<1>0. NObs \in Nat /\ Tol \in Nat
  BY Array, PostAssumption
<1>1. ASSUME NEW c \in Bases
      PROVE  /\ c \in Int /\ FirstOne(c, 2) \in 1 .. NObs /\ data[FirstOne(c, 2)].t = c
             /\ \A b \in Bases : b < c => FirstOne(b, 2) < FirstOne(c, 2)
  <2>1. c \in TimesOf(2) /\ 2 \in {1, 2}
    BY DEF Bases, TimesOf
  <2>2. c \in Int /\ FirstOne(c, 2) \in 1 .. NObs /\ LastOne(c, 2) \in FirstOne(c, 2) .. NObs
    BY <2>1, Apart, EpochBlocks
  <2>3. FirstOne(c, 2) \in FirstOne(c, 2) .. LastOne(c, 2)
    BY <1>0, <2>2
  <2>4. data[FirstOne(c, 2)].t = c
    BY <2>1, <2>3, EpochBlocks
  <2>5. ASSUME NEW b \in Bases, b < c PROVE FirstOne(b, 2) < FirstOne(c, 2)
    <3>1. b \in TimesOf(2)
      BY DEF Bases, TimesOf
    <3>2. FirstOne(b, 2) \in 1 .. NObs /\ LastOne(b, 2) \in FirstOne(b, 2) .. NObs /\ LastOne(b, 2) < FirstOne(c, 2)
      BY <2>1, <2>5, <3>1, EpochBlocks, BlocksInOrder
    <3>. QED  BY <1>0, <2>2, <3>2
  <2>. QED  BY <2>2, <2>4, <2>5
<1>2. DOMAIN next = D /\ m \in [D -> Nat]
  BY <1>0
<1>3. \A j \in D : j \notin stop => next[j] \in D /\ m[next[j]] < m[j]
  <2>1. SUFFICES ASSUME NEW j \in D, j \notin stop PROVE next[j] \in D /\ m[next[j]] < m[j]
    OBVIOUS
  <2>2. j \in 1 .. NObs
    BY <1>0, <2>1
  <2>3. next[j] \in j + 1 .. NObs + 1
    BY <2>2, NextMovesF
  <2>. QED  BY <1>0, <2>2, <2>3
<1>4. \A j \in Inv : j \notin stop => next[j] \in Inv
  <2>1. SUFFICES ASSUME NEW j \in Inv, j \notin stop PROVE next[j] \in Inv
    OBVIOUS
  <2>2. j \in 1 .. NObs
    BY <1>0, <2>1
  <2>3. PICK b \in Bases : j = FirstOne(b, 2)
    BY <1>0, <2>1, <2>2
  <2>4. b <= t - Tol
    BY <1>0, <1>1, <2>1, <2>2, <2>3
  <2>5. next[j] = NextF(j) /\ next[j] \in D
    BY <1>3, <2>1
  <2>6. CASE NextF(j) = NObs + 1 /\ \A c \in Bases : c <= b
    <3>1. \A c \in Bases : c <= t - Tol
      BY <1>0, <1>1, <2>4, <2>6
    <3>. QED  BY <2>5, <2>6, <3>1
  <2>7. CASE \E u \in Bases : NextF(j) = FirstOne(u, 2) /\ b < u /\ \A c \in Bases : c < u => c <= b
    <3>1. PICK u \in Bases : NextF(j) = FirstOne(u, 2) /\ b < u /\ \A c \in Bases : c < u => c <= b
      BY <2>7
    <3>2. ASSUME NEW c \in Bases, FirstOne(c, 2) < FirstOne(u, 2) PROVE c <= t - Tol
      <4>1. c < u
        BY <1>1, <3>2
      <4>. QED  BY <1>0, <1>1, <2>4, <3>1, <4>1
    <3>. QED  BY <2>5, <3>1, <3>2
  <2>. QED  BY <2>3, <2>6, <2>7, NextsF
<1>5. s0 \in Inv
  <2>1. s0 \in D
    BY <1>0, <1>1
  <2>. QED  BY <2>1
<1>6. IntpF(i, t) = Loop(s0, next, stop)
  BY DEF IntpF
<1>7. Inv \in SUBSET D
  OBVIOUS
<1>8. IntpF(i, t) \in Inv \cap stop
  <2>. HIDE DEF Inv, stop, next, m, D, s0
  <2>. QED  BY <1>2, <1>3, <1>4, <1>5, <1>6, <1>7, LoopRule
<1>. DEFINE s == IntpF(i, t)
<1>. HIDE DEF s
<1>9. s \in D /\ (s = NObs + 1 \/ \E b \in Bases : s = FirstOne(b, 2))
      /\ (\A c \in Bases : FirstOne(c, 2) < s => c <= t - Tol) /\ (s > NObs \/ data[s].t - t > -Tol)
  BY <1>8 DEF s
<1>10. CASE s = NObs + 1
  <2>1. \A c \in Bases : c <= t - Tol
    BY <1>0, <1>1, <1>9, <1>10
  <2>. QED  BY <1>10, <2>1 DEF s
<1>11. ASSUME NEW b \in Bases, s = FirstOne(b, 2)
       PROVE  s = FirstOne(b, 2) /\ b > t - Tol /\ \A c \in Bases : c < b => c <= t - Tol
  <2>1. b - t > -Tol
    BY <1>0, <1>1, <1>9, <1>11
  <2>. QED  BY <1>0, <1>1, <1>9, <1>11, <2>1
<1>. QED  BY <1>9, <1>10, <1>11 DEF s

\* Otherwise it ends at the last one that is not after t, or has not moved.
LEMMA ToTheLastF ==
  ASSUME DataOK, NEW t \in Int, NEW i,
         StartF(i, 2) = NObs + 1 \/ \E b \in Bases : StartF(i, 2) = FirstOne(b, 2)
  PROVE  \/ BaseF(i, t) = i /\ (StartF(i, 2) = NObs + 1 \/ \E b \in Bases : StartF(i, 2) = FirstOne(b, 2) /\ b > t + Tol)
         \/ \E b \in Bases : BaseF(i, t) = FirstOne(b, 2) /\ b <= t + Tol /\ \A c \in Bases : c > b => c > t + Tol
<1>. DEFINE s0     == StartF(i, 2)
            D      == 1 .. NObs + 1
            beyond == {s \in D : s > NObs \/ data[s].t - t > Tol}
            next   == [s \in D |-> NextF(s)]
            stop   == {s \in D : NextF(s) \in beyond}
            m      == [s \in D |-> NObs + 1 - s]
            Inv    == {s \in D : \E b \in Bases : s = FirstOne(b, 2) /\ b <= t + Tol}
<1>0. NObs \in Nat /\ Tol \in Nat
  BY Array, PostAssumption
<1>1. ASSUME NEW c \in Bases
      PROVE  c \in Int /\ FirstOne(c, 2) \in 1 .. NObs /\ data[FirstOne(c, 2)].t = c
  <2>1. c \in TimesOf(2) /\ 2 \in {1, 2}
    BY DEF Bases, TimesOf
  <2>2. c \in Int /\ FirstOne(c, 2) \in 1 .. NObs /\ LastOne(c, 2) \in FirstOne(c, 2) .. NObs
    BY <2>1, Apart, EpochBlocks
  <2>3. FirstOne(c, 2) \in FirstOne(c, 2) .. LastOne(c, 2)
    BY <1>0, <2>2
  <2>. QED  BY <2>1, <2>2, <2>3, EpochBlocks
<1>2. DOMAIN next = D /\ m \in [D -> Nat]
  BY <1>0
<1>3. \A j \in D : j \notin stop => next[j] \in D /\ m[next[j]] < m[j]
  <2>1. SUFFICES ASSUME NEW j \in D, j \notin stop PROVE next[j] \in D /\ m[next[j]] < m[j]
    OBVIOUS
  <2>2. NObs + 1 \in beyond
    BY <1>0
  <2>3. j # NObs + 1
    BY <2>1, <2>2, NextMovesF
  <2>4. j \in 1 .. NObs
    BY <1>0, <2>1, <2>3
  <2>5. next[j] \in j + 1 .. NObs + 1
    BY <2>4, NextMovesF
  <2>. QED  BY <1>0, <2>4, <2>5
<1>4. \A j \in Inv : j \notin stop => next[j] \in Inv
  <2>1. SUFFICES ASSUME NEW j \in Inv, j \notin stop PROVE next[j] \in Inv
    OBVIOUS
  <2>2. PICK b \in Bases : j = FirstOne(b, 2)
    BY <2>1
  <2>3. next[j] = NextF(j) /\ next[j] \in D /\ NextF(j) \notin beyond
    BY <1>3, <2>1
  <2>4. NextF(j) <= NObs /\ ~(data[NextF(j)].t - t > Tol)
    BY <1>0, <2>3
  <2>5. PICK u \in Bases : NextF(j) = FirstOne(u, 2)
    BY <1>0, <2>2, <2>4, NextsF
  <2>6. u <= t + Tol
    BY <1>0, <1>1, <2>4, <2>5
  <2>. QED  BY <2>3, <2>5, <2>6
<1>5. s0 \in D
  BY <1>0, <1>1
<1>6. CASE s0 \in beyond
  <2>1. BaseF(i, t) = i
    BY <1>6 DEF BaseF
  <2>2. ASSUME NEW b \in Bases, s0 = FirstOne(b, 2) PROVE b > t + Tol
    BY <1>0, <1>1, <1>6, <2>2
  <2>. QED  BY <2>1, <2>2
<1>7. CASE s0 \notin beyond
  <2>1. BaseF(i, t) = Loop(s0, next, stop)
    BY <1>7 DEF BaseF
  <2>2. s0 \in Inv
    <3>1. s0 <= NObs /\ ~(data[s0].t - t > Tol)
      BY <1>0, <1>5, <1>7
    <3>2. PICK b \in Bases : s0 = FirstOne(b, 2)
      BY <1>0, <3>1
    <3>3. b <= t + Tol
      BY <1>0, <1>1, <3>1, <3>2
    <3>. QED  BY <1>5, <3>2, <3>3
  <2>3. Inv \in SUBSET D
    OBVIOUS
  <2>4. BaseF(i, t) \in Inv \cap stop
    <3>. HIDE DEF Inv, stop, next, m, D, s0
    <3>. QED  BY <1>2, <1>3, <1>4, <2>1, <2>2, <2>3, LoopRule
  <2>. DEFINE s == BaseF(i, t)
  <2>. HIDE DEF s
  <2>5. s \in D /\ NextF(s) \in D /\ (NextF(s) > NObs \/ data[NextF(s)].t - t > Tol)
    BY <2>4 DEF s
  <2>6. PICK b \in Bases : s = FirstOne(b, 2) /\ b <= t + Tol
    BY <2>4 DEF s
  <2>7. ASSUME NEW c \in Bases, c > b PROVE c > t + Tol
    <3>1. PICK u \in Bases : NextF(s) = FirstOne(u, 2) /\ b < u /\ \A d \in Bases : d < u => d <= b
      <4>1. ~ \A d \in Bases : d <= b
        BY <1>1, <2>7
      <4>. QED  BY <2>6, <4>1, NextsF
    <3>2. u > t + Tol
      BY <1>0, <1>1, <2>5, <3>1
    <3>3. c >= u
      BY <1>1, <2>7, <3>1
    <3>. QED  BY <1>0, <1>1, <3>2, <3>3
  <2>. QED  BY <2>6, <2>7 DEF s
<1>. QED  BY <1>6, <1>7

\* To interpolate, the loop ends, backwards, at the first of the base's
\* epochs that is not after t.
LEMMA ToTheFirstB ==
  ASSUME DataOK, NEW t \in Int, NEW i,
         StartB(i, 2) = 0 \/ \E b \in Bases : StartB(i, 2) = LastOne(b, 2),
         \A c \in Bases : LastOne(c, 2) > StartB(i, 2) => c >= t + Tol
  PROVE  \/ IntpB(i, t) = 0 /\ \A c \in Bases : c >= t + Tol
         \/ \E b \in Bases : /\ IntpB(i, t) = LastOne(b, 2) /\ b < t + Tol
                             /\ \A c \in Bases : c > b => c >= t + Tol
<1>. DEFINE s0   == StartB(i, 2)
            D    == 0 .. NObs
            next == [s \in D |-> NextB(s)]
            stop == {s \in D : s < 1 \/ data[s].t - t < Tol}
            m    == [s \in D |-> s]
            Inv  == {s \in D : /\ s = 0 \/ \E b \in Bases : s = LastOne(b, 2)
                               /\ \A c \in Bases : LastOne(c, 2) > s => c >= t + Tol}
<1>0. NObs \in Nat /\ Tol \in Nat
  BY Array, PostAssumption
<1>1. ASSUME NEW c \in Bases
      PROVE  /\ c \in Int /\ LastOne(c, 2) \in 1 .. NObs /\ data[LastOne(c, 2)].t = c
             /\ \A b \in Bases : b > c => LastOne(b, 2) > LastOne(c, 2)
  <2>1. c \in TimesOf(2) /\ 2 \in {1, 2}
    BY DEF Bases, TimesOf
  <2>2. c \in Int /\ LastOne(c, 2) \in 1 .. NObs /\ FirstOne(c, 2) \in 1 .. LastOne(c, 2)
    BY <2>1, Apart, EpochBlocks
  <2>3. LastOne(c, 2) \in FirstOne(c, 2) .. LastOne(c, 2)
    BY <1>0, <2>2
  <2>4. data[LastOne(c, 2)].t = c
    BY <2>1, <2>3, EpochBlocks
  <2>5. ASSUME NEW b \in Bases, b > c PROVE LastOne(b, 2) > LastOne(c, 2)
    <3>1. b \in TimesOf(2)
      BY DEF Bases, TimesOf
    <3>2. LastOne(b, 2) \in 1 .. NObs /\ FirstOne(b, 2) \in 1 .. LastOne(b, 2) /\ FirstOne(b, 2) > LastOne(c, 2)
      BY <2>1, <2>5, <3>1, EpochBlocks, BlocksInOrder
    <3>. QED  BY <1>0, <2>2, <3>2
  <2>. QED  BY <2>2, <2>4, <2>5
<1>2. DOMAIN next = D /\ m \in [D -> Nat]
  BY <1>0
<1>3. \A j \in D : j \notin stop => next[j] \in D /\ m[next[j]] < m[j]
  <2>1. SUFFICES ASSUME NEW j \in D, j \notin stop PROVE next[j] \in D /\ m[next[j]] < m[j]
    OBVIOUS
  <2>2. j \in 1 .. NObs
    BY <1>0, <2>1
  <2>3. next[j] \in 0 .. j - 1
    BY <2>2, NextMovesB
  <2>. QED  BY <1>0, <2>2, <2>3
<1>4. \A j \in Inv : j \notin stop => next[j] \in Inv
  <2>1. SUFFICES ASSUME NEW j \in Inv, j \notin stop PROVE next[j] \in Inv
    OBVIOUS
  <2>2. j \in 1 .. NObs
    BY <1>0, <2>1
  <2>3. PICK b \in Bases : j = LastOne(b, 2)
    BY <1>0, <2>1, <2>2
  <2>4. b >= t + Tol
    BY <1>0, <1>1, <2>1, <2>2, <2>3
  <2>5. next[j] = NextB(j) /\ next[j] \in D
    BY <1>3, <2>1
  <2>6. CASE NextB(j) = 0 /\ \A c \in Bases : c >= b
    <3>1. \A c \in Bases : c >= t + Tol
      BY <1>0, <1>1, <2>4, <2>6
    <3>. QED  BY <2>5, <2>6, <3>1
  <2>7. CASE \E u \in Bases : NextB(j) = LastOne(u, 2) /\ b > u /\ \A c \in Bases : c > u => c >= b
    <3>1. PICK u \in Bases : NextB(j) = LastOne(u, 2) /\ b > u /\ \A c \in Bases : c > u => c >= b
      BY <2>7
    <3>2. ASSUME NEW c \in Bases, LastOne(c, 2) > LastOne(u, 2) PROVE c >= t + Tol
      <4>1. c > u
        BY <1>1, <3>2
      <4>. QED  BY <1>0, <1>1, <2>4, <3>1, <4>1
    <3>. QED  BY <2>5, <3>1, <3>2
  <2>. QED  BY <2>3, <2>6, <2>7, NextsB
<1>5. s0 \in Inv
  <2>1. s0 \in D
    BY <1>0, <1>1
  <2>. QED  BY <2>1
<1>6. IntpB(i, t) = Loop(s0, next, stop)
  BY DEF IntpB
<1>7. Inv \in SUBSET D
  OBVIOUS
<1>8. IntpB(i, t) \in Inv \cap stop
  <2>. HIDE DEF Inv, stop, next, m, D, s0
  <2>. QED  BY <1>2, <1>3, <1>4, <1>5, <1>6, <1>7, LoopRule
<1>. DEFINE s == IntpB(i, t)
<1>. HIDE DEF s
<1>9. s \in D /\ (s = 0 \/ \E b \in Bases : s = LastOne(b, 2))
      /\ (\A c \in Bases : LastOne(c, 2) > s => c >= t + Tol) /\ (s < 1 \/ data[s].t - t < Tol)
  BY <1>8 DEF s
<1>10. CASE s = 0
  <2>1. \A c \in Bases : c >= t + Tol
    BY <1>0, <1>1, <1>9, <1>10
  <2>. QED  BY <1>10, <2>1 DEF s
<1>11. ASSUME NEW b \in Bases, s = LastOne(b, 2)
       PROVE  s = LastOne(b, 2) /\ b < t + Tol /\ \A c \in Bases : c > b => c >= t + Tol
  <2>1. b - t < Tol
    BY <1>0, <1>1, <1>9, <1>11
  <2>. QED  BY <1>0, <1>1, <1>9, <1>11, <2>1
<1>. QED  BY <1>9, <1>10, <1>11 DEF s

\* Otherwise it ends at the last one that is not before t, or has not moved.
LEMMA ToTheLastB ==
  ASSUME DataOK, NEW t \in Int, NEW i,
         StartB(i, 2) = 0 \/ \E b \in Bases : StartB(i, 2) = LastOne(b, 2)
  PROVE  \/ BaseB(i, t) = i /\ (StartB(i, 2) = 0 \/ \E b \in Bases : StartB(i, 2) = LastOne(b, 2) /\ b < t - Tol)
         \/ \E b \in Bases : BaseB(i, t) = LastOne(b, 2) /\ b >= t - Tol /\ \A c \in Bases : c < b => c < t - Tol
<1>. DEFINE s0     == StartB(i, 2)
            D      == 0 .. NObs
            beyond == {s \in D : s < 1 \/ data[s].t - t < -Tol}
            next   == [s \in D |-> NextB(s)]
            stop   == {s \in D : NextB(s) \in beyond}
            m      == [s \in D |-> s]
            Inv    == {s \in D : \E b \in Bases : s = LastOne(b, 2) /\ b >= t - Tol}
<1>0. NObs \in Nat /\ Tol \in Nat
  BY Array, PostAssumption
<1>1. ASSUME NEW c \in Bases
      PROVE  c \in Int /\ LastOne(c, 2) \in 1 .. NObs /\ data[LastOne(c, 2)].t = c
  <2>1. c \in TimesOf(2) /\ 2 \in {1, 2}
    BY DEF Bases, TimesOf
  <2>2. c \in Int /\ LastOne(c, 2) \in 1 .. NObs /\ FirstOne(c, 2) \in 1 .. LastOne(c, 2)
    BY <2>1, Apart, EpochBlocks
  <2>3. LastOne(c, 2) \in FirstOne(c, 2) .. LastOne(c, 2)
    BY <1>0, <2>2
  <2>. QED  BY <2>1, <2>2, <2>3, EpochBlocks
<1>2. DOMAIN next = D /\ m \in [D -> Nat]
  BY <1>0
<1>3. \A j \in D : j \notin stop => next[j] \in D /\ m[next[j]] < m[j]
  <2>1. SUFFICES ASSUME NEW j \in D, j \notin stop PROVE next[j] \in D /\ m[next[j]] < m[j]
    OBVIOUS
  <2>2. 0 \in beyond
    BY <1>0
  <2>3. j # 0
    BY <2>1, <2>2, NextMovesB
  <2>4. j \in 1 .. NObs
    BY <1>0, <2>1, <2>3
  <2>5. next[j] \in 0 .. j - 1
    BY <2>4, NextMovesB
  <2>. QED  BY <1>0, <2>4, <2>5
<1>4. \A j \in Inv : j \notin stop => next[j] \in Inv
  <2>1. SUFFICES ASSUME NEW j \in Inv, j \notin stop PROVE next[j] \in Inv
    OBVIOUS
  <2>2. PICK b \in Bases : j = LastOne(b, 2)
    BY <2>1
  <2>3. next[j] = NextB(j) /\ next[j] \in D /\ NextB(j) \notin beyond
    BY <1>3, <2>1
  <2>4. NextB(j) >= 1 /\ ~(data[NextB(j)].t - t < -Tol)
    BY <1>0, <2>3
  <2>5. PICK u \in Bases : NextB(j) = LastOne(u, 2)
    BY <1>0, <2>2, <2>4, NextsB
  <2>6. u >= t - Tol
    BY <1>0, <1>1, <2>4, <2>5
  <2>. QED  BY <2>3, <2>5, <2>6
<1>5. s0 \in D
  BY <1>0, <1>1
<1>6. CASE s0 \in beyond
  <2>1. BaseB(i, t) = i
    BY <1>6 DEF BaseB
  <2>2. ASSUME NEW b \in Bases, s0 = LastOne(b, 2) PROVE b < t - Tol
    BY <1>0, <1>1, <1>6, <2>2
  <2>. QED  BY <2>1, <2>2
<1>7. CASE s0 \notin beyond
  <2>1. BaseB(i, t) = Loop(s0, next, stop)
    BY <1>7 DEF BaseB
  <2>2. s0 \in Inv
    <3>1. s0 >= 1 /\ ~(data[s0].t - t < -Tol)
      BY <1>0, <1>5, <1>7
    <3>2. PICK b \in Bases : s0 = LastOne(b, 2)
      BY <1>0, <3>1
    <3>3. b >= t - Tol
      BY <1>0, <1>1, <3>1, <3>2
    <3>. QED  BY <1>5, <3>2, <3>3
  <2>3. Inv \in SUBSET D
    OBVIOUS
  <2>4. BaseB(i, t) \in Inv \cap stop
    <3>. HIDE DEF Inv, stop, next, m, D, s0
    <3>. QED  BY <1>2, <1>3, <1>4, <2>1, <2>2, <2>3, LoopRule
  <2>. DEFINE s == BaseB(i, t)
  <2>. HIDE DEF s
  <2>5. s \in D /\ NextB(s) \in D /\ (NextB(s) < 1 \/ data[NextB(s)].t - t < -Tol)
    BY <2>4 DEF s
  <2>6. PICK b \in Bases : s = LastOne(b, 2) /\ b >= t - Tol
    BY <2>4 DEF s
  <2>7. ASSUME NEW c \in Bases, c < b PROVE c < t - Tol
    <3>1. PICK u \in Bases : NextB(s) = LastOne(u, 2) /\ b > u /\ \A d \in Bases : d > u => d >= b
      <4>1. ~ \A d \in Bases : d >= b
        BY <1>1, <2>7
      <4>. QED  BY <2>6, <4>1, NextsB
    <3>2. u < t - Tol
      BY <1>0, <1>1, <2>5, <3>1
    <3>3. c <= u
      BY <1>1, <2>7, <3>1
    <3>. QED  BY <1>0, <1>1, <3>2, <3>3
  <2>. QED  BY <2>6, <2>7 DEF s
<1>. QED  BY <1>6, <1>7

\* The base epoch that belongs to a rover epoch, forwards
LEMMA BaseOfForward ==
  ASSUME DataOK, intpref \in BOOLEAN, pass = "forward", NEW t \in Int
  PROVE  /\ intpref /\ BaseOf(t) = {} => \A c \in Bases : c <= t - Tol
         /\ intpref /\ BaseOf(t) # {} => /\ TheBase(t) \in Bases /\ TheBase(t) > t - Tol
                                         /\ \A c \in Bases : c < TheBase(t) => c <= t - Tol
         /\ ~intpref /\ BaseOf(t) = {} => Bases = {}
         /\ ~intpref /\ BaseOf(t) # {} =>
              /\ TheBase(t) \in Bases
              /\ \/ TheBase(t) <= t + Tol /\ \A c \in Bases : c > TheBase(t) => c > t + Tol
                 \/ \A c \in Bases : c > t + Tol /\ TheBase(t) <= c
<1>0. Bases \subseteq Int /\ IsFiniteSet(Bases) /\ Tol \in Nat
  <2>1. Bases = TimesOf(2) /\ 2 \in {1, 2}
    BY DEF Bases, TimesOf
  <2>. QED  BY <2>1, Apart, PostAssumption
<1>. DEFINE near  == {b \in Bases : b <= t + Tol}
            ahead == {b \in Bases : b > t - Tol}
<1>1. \A S \in SUBSET Bases : S # {} => /\ Min(S) \in S /\ \A y \in S : Min(S) <= y
                                        /\ Max(S) \in S /\ \A y \in S : Max(S) >= y
  <2>1. SUFFICES ASSUME NEW S \in SUBSET Bases, S # {}
                 PROVE  Min(S) \in S /\ (\A y \in S : Min(S) <= y) /\ Max(S) \in S /\ (\A y \in S : Max(S) >= y)
    OBVIOUS
  <2>2. IsFiniteSet(S) /\ S \subseteq Int
    BY <1>0, FS_Subset
  <2>. QED  BY <2>1, <2>2, MinOf, MaxOf
<1>2. ASSUME intpref
      PROVE  /\ BaseOf(t) = {} => \A c \in Bases : c <= t - Tol
             /\ BaseOf(t) # {} => /\ TheBase(t) \in Bases /\ TheBase(t) > t - Tol
                                  /\ \A c \in Bases : c < TheBase(t) => c <= t - Tol
  <2>1. BaseOf(t) = IF ahead = {} THEN {} ELSE {Min(ahead)}
    BY <1>2 DEF BaseOf, Nearest
  <2>2. CASE ahead = {}
    BY <1>0, <2>1, <2>2
  <2>3. CASE ahead # {}
    <3>1. Min(ahead) \in ahead /\ \A y \in ahead : Min(ahead) <= y
      <4>1. ahead \in SUBSET Bases
        OBVIOUS
      <4>. HIDE DEF ahead
      <4>. QED  BY <1>1, <2>3, <4>1
    <3>2. BaseOf(t) # {} /\ TheBase(t) = Min(ahead)
      BY <2>1, <2>3 DEF TheBase
    <3>3. ASSUME NEW c \in Bases, c < Min(ahead) PROVE c <= t - Tol
      <4>1. c \notin ahead
        <5>1. Min(ahead) \in Int /\ c \in Int
          BY <1>0, <3>1
        <5>. HIDE DEF ahead
        <5>. QED  BY <3>1, <3>3, <5>1
      <4>. QED  BY <1>0, <4>1
    <3>. QED  BY <3>1, <3>2, <3>3
  <2>. QED  BY <2>2, <2>3
<1>3. ASSUME ~intpref
      PROVE  /\ BaseOf(t) = {} => Bases = {}
             /\ BaseOf(t) # {} =>
                  /\ TheBase(t) \in Bases
                  /\ \/ TheBase(t) <= t + Tol /\ \A c \in Bases : c > TheBase(t) => c > t + Tol
                     \/ \A c \in Bases : c > t + Tol /\ TheBase(t) <= c
  <2>1. BaseOf(t) = IF near # {} THEN {Max(near)} ELSE IF Bases = {} THEN {} ELSE {Min(Bases)}
    BY <1>3 DEF BaseOf, Nearest
  <2>2. CASE near # {}
    <3>1. Max(near) \in near /\ \A y \in near : Max(near) >= y
      <4>1. near \in SUBSET Bases
        OBVIOUS
      <4>. HIDE DEF near
      <4>. QED  BY <1>1, <2>2, <4>1
    <3>2. BaseOf(t) # {} /\ TheBase(t) = Max(near)
      BY <2>1, <2>2 DEF TheBase
    <3>3. ASSUME NEW c \in Bases, c > Max(near) PROVE c > t + Tol
      <4>1. c \notin near
        <5>1. Max(near) \in Int /\ c \in Int
          BY <1>0, <3>1
        <5>. HIDE DEF near
        <5>. QED  BY <3>1, <3>3, <5>1
      <4>. QED  BY <1>0, <4>1
    <3>. QED  BY <3>1, <3>2, <3>3
  <2>3. CASE near = {} /\ Bases # {}
    <3>1. Min(Bases) \in Bases /\ \A y \in Bases : Min(Bases) <= y
      BY <1>1, <2>3
    <3>2. BaseOf(t) # {} /\ TheBase(t) = Min(Bases)
      BY <2>1, <2>3 DEF TheBase
    <3>3. \A c \in Bases : c > t + Tol
      BY <1>0, <2>3
    <3>. QED  BY <3>1, <3>2, <3>3
  <2>4. CASE near = {} /\ Bases = {}
    BY <2>1, <2>4
  <2>. QED  BY <2>2, <2>3, <2>4
<1>. QED  BY <1>2, <1>3

\* Where the rover's epochs are taken from, forwards: next to those given.
LEMMA RoverAheadF ==
  ASSUME DataOK, pass = "forward", ForwardOK, times \in Seq(RoverTimes)
  PROVE  /\ iobsu \in 1 .. NObs + 1
         /\ \A c \in RoverTimes : /\ iobsu <= FirstOne(c, 1) \/ iobsu > LastOne(c, 1)
                                  /\ FirstOne(c, 1) < iobsu <=> times # <<>> /\ c <= times[Len(times)]
<1>0. NObs \in Nat /\ TimesOf(1) = RoverTimes /\ 1 \in {1, 2}
  BY Array
<1>1. ASSUME NEW c \in RoverTimes
      PROVE  /\ c \in Int /\ FirstOne(c, 1) \in 1 .. NObs /\ LastOne(c, 1) \in FirstOne(c, 1) .. NObs
             /\ \A b \in RoverTimes : b < c => LastOne(b, 1) < FirstOne(c, 1)
  BY <1>0, Apart, EpochBlocks, BlocksInOrder
<1>2. CASE times = <<>>
  <2>1. iobsu = 1
    BY <1>2 DEF ForwardOK
  <2>. QED  BY <1>0, <1>1, <1>2, <2>1
<1>3. CASE times # <<>>
  <2>. DEFINE t == times[Len(times)]
  <2>1. t \in RoverTimes
    BY <1>3
  <2>2. iobsu = LastOne(t, 1) + 1
    BY <1>3 DEF ForwardOK
  <2>. HIDE DEF t
  <2>3. iobsu \in 1 .. NObs + 1
    BY <1>0, <1>1, <2>1, <2>2
  <2>4. ASSUME NEW c \in RoverTimes
        PROVE  (iobsu <= FirstOne(c, 1) \/ iobsu > LastOne(c, 1)) /\ (FirstOne(c, 1) < iobsu <=> c <= t)
    <3>1. c < t => LastOne(c, 1) < FirstOne(t, 1)
      BY <1>1, <2>1
    <3>2. t < c => LastOne(t, 1) < FirstOne(c, 1)
      BY <1>1, <2>1
    <3>. QED  BY <1>0, <1>1, <2>1, <2>2, <3>1, <3>2
  <2>. QED  BY <1>3, <2>3, <2>4 DEF t
<1>. QED  BY <1>2, <1>3

\* At the beginning of an epoch, and at the end, nextobsf is there already.
LEMMA StandsF ==
  ASSUME DataOK
  PROVE  /\ \A b \in Bases : StartF(FirstOne(b, 2), 2) = FirstOne(b, 2)
         /\ StartF(NObs + 1, 2) = NObs + 1
<1>0. NObs \in Nat /\ TimesOf(2) = Bases /\ 2 \in {1, 2}
  BY Array DEF Bases, TimesOf
<1>1. ASSUME NEW c \in Bases PROVE FirstOne(c, 2) \in 1 .. NObs /\ LastOne(c, 2) \in FirstOne(c, 2) .. NObs
  BY <1>0, EpochBlocks
<1>2. ASSUME NEW b \in Bases PROVE StartF(FirstOne(b, 2), 2) = FirstOne(b, 2)
  <2>. DEFINE i == FirstOne(b, 2)
  <2>1. i \in 1 .. NObs + 1
    BY <1>0, <1>1
  <2>2. StartF(i, 2) \in i .. NObs + 1 /\ \A k \in i .. NObs : data[k].rcv = 2 => StartF(i, 2) <= k
    BY <2>1, StartFIs
  <2>3. i \in i .. NObs /\ i \in i .. LastOne(b, 2)
    BY <1>0, <1>1
  <2>4. data[i].rcv = 2
    BY <1>0, <2>3, EpochBlocks
  <2>. QED  BY <1>0, <2>1, <2>2, <2>3, <2>4
<1>3. StartF(NObs + 1, 2) = NObs + 1
  <2>1. NObs + 1 \in 1 .. NObs + 1
    BY <1>0
  <2>2. StartF(NObs + 1, 2) \in NObs + 1 .. NObs + 1
    BY <2>1, StartFIs
  <2>. QED  BY <1>0, <2>2
<1>. QED  BY <1>2, <1>3

\* Where the base's are taken from.
LEMMA BaseAheadF ==
  ASSUME DataOK, intpref \in BOOLEAN, pass = "forward", ForwardOK, times \in Seq(RoverTimes)
  PROVE  \/ \E b \in Bases :
              /\ StartF(iobsr, 2) = FirstOne(b, 2)
              /\ \/ \A c \in Bases : b <= c
                 \/ /\ times # <<>>
                    /\ intpref => \A c \in Bases : c < b => c <= times[Len(times)] - Tol
                    /\ ~intpref => b <= times[Len(times)] + Tol
         \/ /\ StartF(iobsr, 2) = NObs + 1
            /\ \/ Bases = {}
               \/ intpref /\ times # <<>> /\ \A c \in Bases : c <= times[Len(times)] - Tol
<1>0. NObs \in Nat /\ TimesOf(1) = RoverTimes /\ TimesOf(2) = Bases /\ 2 \in {1, 2} /\ RoverTimes \subseteq Int
  BY Array, Apart DEF Bases, TimesOf
<1>1. ASSUME NEW c \in Bases
      PROVE  /\ c \in Int /\ FirstOne(c, 2) \in 1 .. NObs /\ LastOne(c, 2) \in FirstOne(c, 2) .. NObs
             /\ \A b \in Bases : b < c => LastOne(b, 2) < FirstOne(c, 2)
  BY <1>0, Apart, EpochBlocks, BlocksInOrder
<1>2. (\A b \in Bases : StartF(FirstOne(b, 2), 2) = FirstOne(b, 2)) /\ StartF(NObs + 1, 2) = NObs + 1
  BY StandsF
<1>4. CASE times = <<>>
  <2>1. iobsr = 1 /\ 1 \in 1 .. NObs + 1
    BY <1>0, <1>4 DEF ForwardOK
  <2>2. \A u \in TimesOf(2) : 1 <= FirstOne(u, 2) \/ 1 > LastOne(u, 2)
    BY <1>0, <1>1
  <2>3. \/ \E u \in TimesOf(2) : /\ StartF(1, 2) = FirstOne(u, 2) /\ 1 <= FirstOne(u, 2)
                                 /\ \A c \in TimesOf(2) : c < u => FirstOne(c, 2) < 1
        \/ StartF(1, 2) = NObs + 1 /\ \A c \in TimesOf(2) : FirstOne(c, 2) < 1
    BY <1>0, <2>1, <2>2, StartsF
  <2>4. CASE \E u \in Bases : StartF(1, 2) = FirstOne(u, 2) /\ \A c \in Bases : c < u => FirstOne(c, 2) < 1
    <3>1. PICK u \in Bases : StartF(1, 2) = FirstOne(u, 2) /\ \A c \in Bases : c < u => FirstOne(c, 2) < 1
      BY <2>4
    <3>2. \A c \in Bases : u <= c
      BY <1>1, <3>1
    <3>. QED  BY <2>1, <3>1, <3>2
  <2>5. CASE StartF(1, 2) = NObs + 1 /\ \A c \in Bases : FirstOne(c, 2) < 1
    <3>1. Bases = {}
      BY <1>1, <2>5
    <3>. QED  BY <2>1, <2>5, <3>1
  <2>. QED  BY <1>0, <2>3, <2>4, <2>5
<1>5. CASE times # <<>>
  <2>. DEFINE t == times[Len(times)]
  <2>0. t \in RoverTimes
    BY <1>5
  <2>1. t \in RoverTimes /\ t \in Int
    BY <1>0, <2>0
  <2>2. iobsr = IF BaseOf(t) = {} THEN NObs + 1 ELSE FirstOne(TheBase(t), 2)
    BY <1>5 DEF ForwardOK
  <2>. HIDE DEF t
  <2>3. CASE BaseOf(t) = {}
    <3>1. StartF(iobsr, 2) = NObs + 1
      BY <1>2, <2>2, <2>3
    <3>2. (intpref /\ \A c \in Bases : c <= t - Tol) \/ Bases = {}
      BY <2>1, <2>3, BaseOfForward
    <3>. QED  BY <1>5, <3>1, <3>2 DEF t
  <2>4. CASE BaseOf(t) # {}
    <3>. DEFINE b == TheBase(t)
    <3>1. b \in Bases
      BY <2>1, <2>4, BaseOfForward
    <3>2. StartF(iobsr, 2) = FirstOne(b, 2)
      BY <1>2, <2>2, <2>4, <3>1
    <3>3. (intpref => \A c \in Bases : c < b => c <= t - Tol)
          /\ (~intpref => b <= t + Tol \/ \A c \in Bases : b <= c)
      BY <2>1, <2>4, BaseOfForward
    <3>. HIDE DEF b
    <3>. QED  BY <1>5, <3>1, <3>2, <3>3 DEF t
  <2>. QED  BY <2>3, <2>4
<1>. QED  BY <1>4, <1>5

\* So the base epoch found for the rover's next one is the one that belongs to it.
LEMMA BaseFoundF ==
  ASSUME DataOK, intpref \in BOOLEAN, pass = "forward", ForwardOK, times \in Seq(RoverTimes),
         NEW t \in RoverTimes, times # <<>> => times[Len(times)] < t
  PROVE  StartF(IF intpref THEN IntpF(iobsr, t) ELSE BaseF(iobsr, t), 2) =
           IF BaseOf(t) = {} THEN NObs + 1 ELSE FirstOne(TheBase(t), 2)
<1>0. NObs \in Nat /\ TimesOf(2) = Bases /\ 2 \in {1, 2} /\ RoverTimes \subseteq Int /\ t \in Int /\ Tol \in Nat
  BY Array, PostAssumption DEF Bases, TimesOf
<1>1. ASSUME NEW c \in Bases
      PROVE  /\ c \in Int /\ FirstOne(c, 2) \in 1 .. NObs /\ LastOne(c, 2) \in FirstOne(c, 2) .. NObs
             /\ \A b \in Bases : b < c => LastOne(b, 2) < FirstOne(c, 2)
  BY <1>0, Apart, EpochBlocks, BlocksInOrder
<1>2. (\A b \in Bases : StartF(FirstOne(b, 2), 2) = FirstOne(b, 2)) /\ StartF(NObs + 1, 2) = NObs + 1
  BY StandsF
<1>. DEFINE s0 == StartF(iobsr, 2)
            last == times[Len(times)]
<1>4. times # <<>> => last \in Int /\ last < t
  <2>1. times # <<>> => last \in RoverTimes
    OBVIOUS
  <2>. QED  BY <1>0, <2>1
<1>5. \/ \E b \in Bases : /\ s0 = FirstOne(b, 2)
                          /\ \/ \A c \in Bases : b <= c
                             \/ /\ times # <<>>
                                /\ intpref => \A c \in Bases : c < b => c <= last - Tol
                                /\ ~intpref => b <= last + Tol
      \/ /\ s0 = NObs + 1
         /\ \/ Bases = {}
            \/ intpref /\ times # <<>> /\ \A c \in Bases : c <= last - Tol
  BY BaseAheadF
<1>. HIDE DEF last
<1>6. CASE intpref
  <2>1. s0 = NObs + 1 \/ \E b \in Bases : s0 = FirstOne(b, 2)
    BY <1>5
  <2>2. ASSUME NEW c \in Bases, FirstOne(c, 2) < s0 PROVE c <= t - Tol
    <3>1. CASE s0 = NObs + 1
      <4>1. CASE Bases = {}
        BY <2>2, <4>1
      <4>2. CASE times # <<>> /\ \A d \in Bases : d <= last - Tol
        BY <1>0, <1>1, <1>4, <4>2
      <4>3. ASSUME NEW b \in Bases PROVE s0 # FirstOne(b, 2)
        BY <1>0, <1>1, <3>1
      <4>. QED  BY <1>5, <4>1, <4>2, <4>3
    <3>2. ASSUME NEW b \in Bases, s0 = FirstOne(b, 2),
                 (\A d \in Bases : b <= d) \/ (times # <<>> /\ \A d \in Bases : d < b => d <= last - Tol)
          PROVE  c <= t - Tol
      <4>1. c < b
        BY <1>0, <1>1, <2>2, <3>2
      <4>. QED  BY <1>0, <1>1, <1>4, <3>2, <4>1
    <3>. QED  BY <1>5, <1>6, <3>1, <3>2
  <2>. DEFINE s == IntpF(iobsr, t)
  <2>. HIDE DEF s
  <2>3. \/ s = NObs + 1 /\ \A c \in Bases : c <= t - Tol
        \/ \E b \in Bases : /\ s = FirstOne(b, 2) /\ b > t - Tol /\ \A c \in Bases : c < b => c <= t - Tol
    <3>. HIDE DEF s0
    <3>1. s0 = StartF(iobsr, 2)
      BY DEF s0
    <3>. QED  BY <1>0, <2>1, <2>2, <3>1, ToTheFirstF DEF s
  <2>4. /\ BaseOf(t) = {} => \A c \in Bases : c <= t - Tol
        /\ BaseOf(t) # {} => /\ TheBase(t) \in Bases /\ TheBase(t) > t - Tol
                             /\ \A c \in Bases : c < TheBase(t) => c <= t - Tol
    BY <1>0, <1>6, BaseOfForward
  <2>5. CASE s = NObs + 1 /\ \A c \in Bases : c <= t - Tol
    <3>1. BaseOf(t) = {}
      BY <1>0, <1>1, <2>4, <2>5
    <3>. QED  BY <1>2, <1>6, <2>5, <3>1 DEF s
  <2>6. ASSUME NEW b \in Bases, s = FirstOne(b, 2), b > t - Tol, \A c \in Bases : c < b => c <= t - Tol
        PROVE  BaseOf(t) # {} /\ StartF(s, 2) = FirstOne(TheBase(t), 2)
    <3>1. BaseOf(t) # {}
      BY <1>0, <1>1, <2>4, <2>6
    <3>2. TheBase(t) = b
      BY <1>0, <1>1, <2>4, <2>6, <3>1
    <3>. QED  BY <1>2, <2>6, <3>1, <3>2
  <2>. QED  BY <1>6, <2>3, <2>5, <2>6 DEF s
<1>7. CASE ~intpref
  <2>1. s0 = NObs + 1 \/ \E b \in Bases : s0 = FirstOne(b, 2)
    BY <1>5
  <2>. DEFINE s == BaseF(iobsr, t)
  <2>. HIDE DEF s
  <2>3. \/ s = iobsr /\ (s0 = NObs + 1 \/ \E b \in Bases : s0 = FirstOne(b, 2) /\ b > t + Tol)
        \/ \E b \in Bases : s = FirstOne(b, 2) /\ b <= t + Tol /\ \A c \in Bases : c > b => c > t + Tol
    <3>1. s0 = StartF(iobsr, 2)
      OBVIOUS
    <3>. HIDE DEF s0
    <3>. QED  BY <1>0, <2>1, <3>1, ToTheLastF DEF s
  <2>4. /\ BaseOf(t) = {} => Bases = {}
        /\ BaseOf(t) # {} =>
             /\ TheBase(t) \in Bases
             /\ \/ TheBase(t) <= t + Tol /\ \A c \in Bases : c > TheBase(t) => c > t + Tol
                \/ \A c \in Bases : c > t + Tol /\ TheBase(t) <= c
    BY <1>0, <1>7, BaseOfForward
  <2>5. CASE s = iobsr /\ s0 = NObs + 1
    <3>1. Bases = {}
      <4>1. ASSUME NEW b \in Bases PROVE s0 # FirstOne(b, 2)
        BY <1>0, <1>1, <2>5
      <4>. QED  BY <1>5, <1>7, <4>1
    <3>2. BaseOf(t) = {}
      BY <2>4, <3>1
    <3>. QED  BY <1>7, <2>5, <3>2 DEF s
  <2>6. ASSUME NEW b \in Bases, s = iobsr, s0 = FirstOne(b, 2), b > t + Tol
        PROVE  BaseOf(t) # {} /\ StartF(s, 2) = FirstOne(TheBase(t), 2)
    <3>1. ASSUME NEW d \in Bases, s0 = FirstOne(d, 2) PROVE d = b
      BY <1>0, <1>1, <2>6, <3>1
    <3>2. \A c \in Bases : b <= c
      <4>1. times # <<>> => ~(b <= last + Tol)
        BY <1>0, <1>1, <1>4, <2>6
      <4>2. s0 # NObs + 1
        BY <1>0, <1>1, <2>6
      <4>. QED  BY <1>5, <1>7, <3>1, <4>1, <4>2
    <3>3. BaseOf(t) # {}
      BY <2>4
    <3>4. TheBase(t) = b
      BY <1>0, <1>1, <2>4, <2>6, <3>2, <3>3
    <3>. QED  BY <2>6, <3>3, <3>4
  <2>7. ASSUME NEW b \in Bases, s = FirstOne(b, 2), b <= t + Tol, \A c \in Bases : c > b => c > t + Tol
        PROVE  BaseOf(t) # {} /\ StartF(s, 2) = FirstOne(TheBase(t), 2)
    <3>1. BaseOf(t) # {}
      BY <2>4
    <3>2. TheBase(t) = b
      BY <1>0, <1>1, <2>4, <2>7, <3>1
    <3>. QED  BY <1>2, <2>7, <3>1, <3>2
  <2>. QED  BY <1>7, <2>3, <2>5, <2>6, <2>7 DEF s
<1>. QED  BY <1>6, <1>7

\* The base epoch that belongs to a rover epoch, backwards
LEMMA BaseOfBackward ==
  ASSUME DataOK, intpref \in BOOLEAN, pass = "backward", NEW t \in Int
  PROVE  /\ intpref /\ BaseOf(t) = {} => \A c \in Bases : c >= t + Tol
         /\ intpref /\ BaseOf(t) # {} => /\ TheBase(t) \in Bases /\ TheBase(t) < t + Tol
                                         /\ \A c \in Bases : c > TheBase(t) => c >= t + Tol
         /\ ~intpref /\ BaseOf(t) = {} => Bases = {}
         /\ ~intpref /\ BaseOf(t) # {} =>
              /\ TheBase(t) \in Bases
              /\ \/ TheBase(t) >= t - Tol /\ \A c \in Bases : c < TheBase(t) => c < t - Tol
                 \/ \A c \in Bases : c < t - Tol /\ TheBase(t) >= c
<1>0. Bases \subseteq Int /\ IsFiniteSet(Bases) /\ Tol \in Nat
  <2>1. Bases = TimesOf(2) /\ 2 \in {1, 2}
    BY DEF Bases, TimesOf
  <2>. QED  BY <2>1, Apart, PostAssumption
<1>. DEFINE near  == {b \in Bases : b >= t - Tol}
            ahead == {b \in Bases : b < t + Tol}
<1>1. \A S \in SUBSET Bases : S # {} => /\ Max(S) \in S /\ \A y \in S : Max(S) >= y
                                        /\ Min(S) \in S /\ \A y \in S : Min(S) <= y
  <2>1. SUFFICES ASSUME NEW S \in SUBSET Bases, S # {}
                 PROVE  Max(S) \in S /\ (\A y \in S : Max(S) >= y) /\ Min(S) \in S /\ (\A y \in S : Min(S) <= y)
    OBVIOUS
  <2>2. IsFiniteSet(S) /\ S \subseteq Int
    BY <1>0, FS_Subset
  <2>. QED  BY <2>1, <2>2, MaxOf, MinOf
<1>2. ASSUME intpref
      PROVE  /\ BaseOf(t) = {} => \A c \in Bases : c >= t + Tol
             /\ BaseOf(t) # {} => /\ TheBase(t) \in Bases /\ TheBase(t) < t + Tol
                                  /\ \A c \in Bases : c > TheBase(t) => c >= t + Tol
  <2>1. BaseOf(t) = IF ahead = {} THEN {} ELSE {Max(ahead)}
    BY <1>2 DEF BaseOf, Nearest
  <2>2. CASE ahead = {}
    BY <1>0, <2>1, <2>2
  <2>3. CASE ahead # {}
    <3>1. Max(ahead) \in ahead /\ \A y \in ahead : Max(ahead) >= y
      <4>1. ahead \in SUBSET Bases
        OBVIOUS
      <4>. HIDE DEF ahead
      <4>. QED  BY <1>1, <2>3, <4>1
    <3>2. BaseOf(t) # {} /\ TheBase(t) = Max(ahead)
      BY <2>1, <2>3 DEF TheBase
    <3>3. ASSUME NEW c \in Bases, c > Max(ahead) PROVE c >= t + Tol
      <4>1. c \notin ahead
        <5>1. Max(ahead) \in Int /\ c \in Int
          BY <1>0, <3>1
        <5>. HIDE DEF ahead
        <5>. QED  BY <3>1, <3>3, <5>1
      <4>. QED  BY <1>0, <4>1
    <3>. QED  BY <3>1, <3>2, <3>3
  <2>. QED  BY <2>2, <2>3
<1>3. ASSUME ~intpref
      PROVE  /\ BaseOf(t) = {} => Bases = {}
             /\ BaseOf(t) # {} =>
                  /\ TheBase(t) \in Bases
                  /\ \/ TheBase(t) >= t - Tol /\ \A c \in Bases : c < TheBase(t) => c < t - Tol
                     \/ \A c \in Bases : c < t - Tol /\ TheBase(t) >= c
  <2>1. BaseOf(t) = IF near # {} THEN {Min(near)} ELSE IF Bases = {} THEN {} ELSE {Max(Bases)}
    BY <1>3 DEF BaseOf, Nearest
  <2>2. CASE near # {}
    <3>1. Min(near) \in near /\ \A y \in near : Min(near) <= y
      <4>1. near \in SUBSET Bases
        OBVIOUS
      <4>. HIDE DEF near
      <4>. QED  BY <1>1, <2>2, <4>1
    <3>2. BaseOf(t) # {} /\ TheBase(t) = Min(near)
      BY <2>1, <2>2 DEF TheBase
    <3>3. ASSUME NEW c \in Bases, c < Min(near) PROVE c < t - Tol
      <4>1. c \notin near
        <5>1. Min(near) \in Int /\ c \in Int
          BY <1>0, <3>1
        <5>. HIDE DEF near
        <5>. QED  BY <3>1, <3>3, <5>1
      <4>. QED  BY <1>0, <4>1
    <3>. QED  BY <3>1, <3>2, <3>3
  <2>3. CASE near = {} /\ Bases # {}
    <3>1. Max(Bases) \in Bases /\ \A y \in Bases : Max(Bases) >= y
      BY <1>1, <2>3
    <3>2. BaseOf(t) # {} /\ TheBase(t) = Max(Bases)
      BY <2>1, <2>3 DEF TheBase
    <3>3. \A c \in Bases : c < t - Tol
      BY <1>0, <2>3
    <3>. QED  BY <3>1, <3>2, <3>3
  <2>4. CASE near = {} /\ Bases = {}
    BY <2>1, <2>4
  <2>. QED  BY <2>2, <2>3, <2>4
<1>. QED  BY <1>2, <1>3

\* Where the rover's epochs are taken from, backwards: next to those given.
LEMMA RoverAheadB ==
  ASSUME DataOK, pass = "backward", BackwardOK, times \in Seq(RoverTimes)
  PROVE  /\ iobsu \in 0 .. NObs
         /\ \A c \in RoverTimes : /\ iobsu >= LastOne(c, 1) \/ iobsu < FirstOne(c, 1)
                                  /\ LastOne(c, 1) > iobsu <=> times # <<>> /\ c >= times[Len(times)]
<1>0. NObs \in Nat /\ TimesOf(1) = RoverTimes /\ 1 \in {1, 2}
  BY Array
<1>1. ASSUME NEW c \in RoverTimes
      PROVE  /\ c \in Int /\ LastOne(c, 1) \in 1 .. NObs /\ FirstOne(c, 1) \in 1 .. LastOne(c, 1)
             /\ \A b \in RoverTimes : b > c => FirstOne(b, 1) > LastOne(c, 1)
  BY <1>0, Apart, EpochBlocks, BlocksInOrder
<1>2. CASE times = <<>>
  <2>1. iobsu = NObs
    BY <1>2 DEF BackwardOK
  <2>. QED  BY <1>0, <1>1, <1>2, <2>1
<1>3. CASE times # <<>>
  <2>. DEFINE t == times[Len(times)]
  <2>1. t \in RoverTimes
    BY <1>3
  <2>2. iobsu = FirstOne(t, 1) - 1
    BY <1>3 DEF BackwardOK
  <2>. HIDE DEF t
  <2>3. iobsu \in 0 .. NObs
    BY <1>0, <1>1, <2>1, <2>2
  <2>4. ASSUME NEW c \in RoverTimes
        PROVE  (iobsu >= LastOne(c, 1) \/ iobsu < FirstOne(c, 1)) /\ (LastOne(c, 1) > iobsu <=> c >= t)
    <3>1. c > t => FirstOne(c, 1) > LastOne(t, 1)
      BY <1>1, <2>1
    <3>2. t > c => FirstOne(t, 1) > LastOne(c, 1)
      BY <1>1, <2>1
    <3>. QED  BY <1>0, <1>1, <2>1, <2>2, <3>1, <3>2
  <2>. QED  BY <1>3, <2>3, <2>4 DEF t
<1>. QED  BY <1>2, <1>3

\* At the beginning of an epoch, and at the end, nextobsb is there already.
LEMMA StandsB ==
  ASSUME DataOK
  PROVE  /\ \A b \in Bases : StartB(LastOne(b, 2), 2) = LastOne(b, 2)
         /\ StartB(0, 2) = 0
<1>0. NObs \in Nat /\ TimesOf(2) = Bases /\ 2 \in {1, 2}
  BY Array DEF Bases, TimesOf
<1>1. ASSUME NEW c \in Bases PROVE LastOne(c, 2) \in 1 .. NObs /\ FirstOne(c, 2) \in 1 .. LastOne(c, 2)
  BY <1>0, EpochBlocks
<1>2. ASSUME NEW b \in Bases PROVE StartB(LastOne(b, 2), 2) = LastOne(b, 2)
  <2>. DEFINE i == LastOne(b, 2)
  <2>1. i \in 0 .. NObs
    BY <1>0, <1>1
  <2>2. StartB(i, 2) \in 0 .. i /\ \A k \in 1 .. i : data[k].rcv = 2 => StartB(i, 2) >= k
    BY <2>1, StartBIs
  <2>3. i \in 1 .. i /\ i \in FirstOne(b, 2) .. i
    BY <1>0, <1>1
  <2>4. data[i].rcv = 2
    BY <1>0, <2>3, EpochBlocks
  <2>. QED  BY <1>0, <2>1, <2>2, <2>3, <2>4
<1>3. StartB(0, 2) = 0
  <2>1. 0 \in 0 .. NObs
    BY <1>0
  <2>2. StartB(0, 2) \in 0 .. 0
    BY <2>1, StartBIs
  <2>. QED  BY <1>0, <2>2
<1>. QED  BY <1>2, <1>3

\* Where the base's are taken from, backwards.
LEMMA BaseAheadB ==
  ASSUME DataOK, intpref \in BOOLEAN, pass = "backward", BackwardOK, times \in Seq(RoverTimes)
  PROVE  \/ \E b \in Bases :
              /\ StartB(iobsr, 2) = LastOne(b, 2)
              /\ \/ \A c \in Bases : b >= c
                 \/ /\ times # <<>>
                    /\ intpref => \A c \in Bases : c > b => c >= times[Len(times)] + Tol
                    /\ ~intpref => b >= times[Len(times)] - Tol
         \/ /\ StartB(iobsr, 2) = 0
            /\ \/ Bases = {}
               \/ intpref /\ times # <<>> /\ \A c \in Bases : c >= times[Len(times)] + Tol
<1>0. NObs \in Nat /\ TimesOf(1) = RoverTimes /\ TimesOf(2) = Bases /\ 2 \in {1, 2} /\ RoverTimes \subseteq Int
  BY Array, Apart DEF Bases, TimesOf
<1>1. ASSUME NEW c \in Bases
      PROVE  /\ c \in Int /\ LastOne(c, 2) \in 1 .. NObs /\ FirstOne(c, 2) \in 1 .. LastOne(c, 2)
             /\ \A b \in Bases : b > c => FirstOne(b, 2) > LastOne(c, 2)
  BY <1>0, Apart, EpochBlocks, BlocksInOrder
<1>2. (\A b \in Bases : StartB(LastOne(b, 2), 2) = LastOne(b, 2)) /\ StartB(0, 2) = 0
  BY StandsB
<1>4. CASE times = <<>>
  <2>1. iobsr = NObs /\ NObs \in 0 .. NObs
    BY <1>0, <1>4 DEF BackwardOK
  <2>2. \A u \in TimesOf(2) : NObs >= LastOne(u, 2) \/ NObs < FirstOne(u, 2)
    BY <1>0, <1>1
  <2>3. \/ \E u \in TimesOf(2) : /\ StartB(NObs, 2) = LastOne(u, 2) /\ NObs >= LastOne(u, 2)
                                 /\ \A c \in TimesOf(2) : c > u => LastOne(c, 2) > NObs
        \/ StartB(NObs, 2) = 0 /\ \A c \in TimesOf(2) : LastOne(c, 2) > NObs
    BY <1>0, <2>1, <2>2, StartsB
  <2>4. CASE \E u \in Bases : StartB(NObs, 2) = LastOne(u, 2) /\ \A c \in Bases : c > u => LastOne(c, 2) > NObs
    <3>1. PICK u \in Bases : StartB(NObs, 2) = LastOne(u, 2) /\ \A c \in Bases : c > u => LastOne(c, 2) > NObs
      BY <2>4
    <3>2. \A c \in Bases : u >= c
      BY <1>0, <1>1, <3>1
    <3>. QED  BY <2>1, <3>1, <3>2
  <2>5. CASE StartB(NObs, 2) = 0 /\ \A c \in Bases : LastOne(c, 2) > NObs
    <3>1. Bases = {}
      BY <1>0, <1>1, <2>5
    <3>. QED  BY <2>1, <2>5, <3>1
  <2>. QED  BY <1>0, <2>3, <2>4, <2>5
<1>5. CASE times # <<>>
  <2>. DEFINE t == times[Len(times)]
  <2>0. t \in RoverTimes
    BY <1>5
  <2>1. t \in RoverTimes /\ t \in Int
    BY <1>0, <2>0
  <2>2. iobsr = IF BaseOf(t) = {} THEN 0 ELSE LastOne(TheBase(t), 2)
    BY <1>5 DEF BackwardOK
  <2>. HIDE DEF t
  <2>3. CASE BaseOf(t) = {}
    <3>1. StartB(iobsr, 2) = 0
      BY <1>2, <2>2, <2>3
    <3>2. (intpref /\ \A c \in Bases : c >= t + Tol) \/ Bases = {}
      BY <2>1, <2>3, BaseOfBackward
    <3>. QED  BY <1>5, <3>1, <3>2 DEF t
  <2>4. CASE BaseOf(t) # {}
    <3>. DEFINE b == TheBase(t)
    <3>1. b \in Bases
      BY <2>1, <2>4, BaseOfBackward
    <3>2. StartB(iobsr, 2) = LastOne(b, 2)
      BY <1>2, <2>2, <2>4, <3>1
    <3>3. (intpref => \A c \in Bases : c > b => c >= t + Tol)
          /\ (~intpref => b >= t - Tol \/ \A c \in Bases : b >= c)
      BY <2>1, <2>4, BaseOfBackward
    <3>. HIDE DEF b
    <3>. QED  BY <1>5, <3>1, <3>2, <3>3 DEF t
  <2>. QED  BY <2>3, <2>4
<1>. QED  BY <1>4, <1>5

\* So the base epoch found, backwards, for the rover's next one is the one that belongs to it.
LEMMA BaseFoundB ==
  ASSUME DataOK, intpref \in BOOLEAN, pass = "backward", BackwardOK, times \in Seq(RoverTimes),
         NEW t \in RoverTimes, times # <<>> => times[Len(times)] > t
  PROVE  StartB(IF intpref THEN IntpB(iobsr, t) ELSE BaseB(iobsr, t), 2) =
           IF BaseOf(t) = {} THEN 0 ELSE LastOne(TheBase(t), 2)
<1>0. NObs \in Nat /\ TimesOf(2) = Bases /\ 2 \in {1, 2} /\ RoverTimes \subseteq Int /\ t \in Int /\ Tol \in Nat
  BY Array, PostAssumption DEF Bases, TimesOf
<1>1. ASSUME NEW c \in Bases
      PROVE  /\ c \in Int /\ LastOne(c, 2) \in 1 .. NObs /\ FirstOne(c, 2) \in 1 .. LastOne(c, 2)
             /\ \A b \in Bases : b > c => FirstOne(b, 2) > LastOne(c, 2)
  BY <1>0, Apart, EpochBlocks, BlocksInOrder
<1>2. (\A b \in Bases : StartB(LastOne(b, 2), 2) = LastOne(b, 2)) /\ StartB(0, 2) = 0
  BY StandsB
<1>. DEFINE s0 == StartB(iobsr, 2)
            last == times[Len(times)]
<1>4. times # <<>> => last \in Int /\ last > t
  <2>1. times # <<>> => last \in RoverTimes
    OBVIOUS
  <2>. QED  BY <1>0, <2>1
<1>5. \/ \E b \in Bases : /\ s0 = LastOne(b, 2)
                          /\ \/ \A c \in Bases : b >= c
                             \/ /\ times # <<>>
                                /\ intpref => \A c \in Bases : c > b => c >= last + Tol
                                /\ ~intpref => b >= last - Tol
      \/ /\ s0 = 0
         /\ \/ Bases = {}
            \/ intpref /\ times # <<>> /\ \A c \in Bases : c >= last + Tol
  BY BaseAheadB
<1>. HIDE DEF last
<1>6. CASE intpref
  <2>1. s0 = 0 \/ \E b \in Bases : s0 = LastOne(b, 2)
    BY <1>5
  <2>2. ASSUME NEW c \in Bases, LastOne(c, 2) > s0 PROVE c >= t + Tol
    <3>1. CASE s0 = 0
      <4>1. CASE Bases = {}
        BY <2>2, <4>1
      <4>2. CASE times # <<>> /\ \A d \in Bases : d >= last + Tol
        BY <1>0, <1>1, <1>4, <4>2
      <4>3. ASSUME NEW b \in Bases PROVE s0 # LastOne(b, 2)
        BY <1>0, <1>1, <3>1
      <4>. QED  BY <1>5, <4>1, <4>2, <4>3
    <3>2. ASSUME NEW b \in Bases, s0 = LastOne(b, 2),
                 (\A d \in Bases : b >= d) \/ (times # <<>> /\ \A d \in Bases : d > b => d >= last + Tol)
          PROVE  c >= t + Tol
      <4>1. c > b
        BY <1>0, <1>1, <2>2, <3>2
      <4>. QED  BY <1>0, <1>1, <1>4, <3>2, <4>1
    <3>. QED  BY <1>5, <1>6, <3>1, <3>2
  <2>. DEFINE s == IntpB(iobsr, t)
  <2>. HIDE DEF s
  <2>3. \/ s = 0 /\ \A c \in Bases : c >= t + Tol
        \/ \E b \in Bases : /\ s = LastOne(b, 2) /\ b < t + Tol /\ \A c \in Bases : c > b => c >= t + Tol
    <3>. HIDE DEF s0
    <3>1. s0 = StartB(iobsr, 2)
      BY DEF s0
    <3>. QED  BY <1>0, <2>1, <2>2, <3>1, ToTheFirstB DEF s
  <2>4. /\ BaseOf(t) = {} => \A c \in Bases : c >= t + Tol
        /\ BaseOf(t) # {} => /\ TheBase(t) \in Bases /\ TheBase(t) < t + Tol
                             /\ \A c \in Bases : c > TheBase(t) => c >= t + Tol
    BY <1>0, <1>6, BaseOfBackward
  <2>5. CASE s = 0 /\ \A c \in Bases : c >= t + Tol
    <3>1. BaseOf(t) = {}
      BY <1>0, <1>1, <2>4, <2>5
    <3>. QED  BY <1>2, <1>6, <2>5, <3>1 DEF s
  <2>6. ASSUME NEW b \in Bases, s = LastOne(b, 2), b < t + Tol, \A c \in Bases : c > b => c >= t + Tol
        PROVE  BaseOf(t) # {} /\ StartB(s, 2) = LastOne(TheBase(t), 2)
    <3>1. BaseOf(t) # {}
      BY <1>0, <1>1, <2>4, <2>6
    <3>2. TheBase(t) = b
      BY <1>0, <1>1, <2>4, <2>6, <3>1
    <3>. QED  BY <1>2, <2>6, <3>1, <3>2
  <2>. QED  BY <1>6, <2>3, <2>5, <2>6 DEF s
<1>7. CASE ~intpref
  <2>1. s0 = 0 \/ \E b \in Bases : s0 = LastOne(b, 2)
    BY <1>5
  <2>. DEFINE s == BaseB(iobsr, t)
  <2>. HIDE DEF s
  <2>3. \/ s = iobsr /\ (s0 = 0 \/ \E b \in Bases : s0 = LastOne(b, 2) /\ b < t - Tol)
        \/ \E b \in Bases : s = LastOne(b, 2) /\ b >= t - Tol /\ \A c \in Bases : c < b => c < t - Tol
    <3>1. s0 = StartB(iobsr, 2)
      OBVIOUS
    <3>. HIDE DEF s0
    <3>. QED  BY <1>0, <2>1, <3>1, ToTheLastB DEF s
  <2>4. /\ BaseOf(t) = {} => Bases = {}
        /\ BaseOf(t) # {} =>
             /\ TheBase(t) \in Bases
             /\ \/ TheBase(t) >= t - Tol /\ \A c \in Bases : c < TheBase(t) => c < t - Tol
                \/ \A c \in Bases : c < t - Tol /\ TheBase(t) >= c
    BY <1>0, <1>7, BaseOfBackward
  <2>5. CASE s = iobsr /\ s0 = 0
    <3>1. Bases = {}
      <4>1. ASSUME NEW b \in Bases PROVE s0 # LastOne(b, 2)
        BY <1>0, <1>1, <2>5
      <4>. QED  BY <1>5, <1>7, <4>1
    <3>2. BaseOf(t) = {}
      BY <2>4, <3>1
    <3>. QED  BY <1>7, <2>5, <3>2 DEF s
  <2>6. ASSUME NEW b \in Bases, s = iobsr, s0 = LastOne(b, 2), b < t - Tol
        PROVE  BaseOf(t) # {} /\ StartB(s, 2) = LastOne(TheBase(t), 2)
    <3>1. ASSUME NEW d \in Bases, s0 = LastOne(d, 2) PROVE d = b
      BY <1>0, <1>1, <2>6, <3>1
    <3>2. \A c \in Bases : b >= c
      <4>1. times # <<>> => ~(b >= last - Tol)
        BY <1>0, <1>1, <1>4, <2>6
      <4>2. s0 # 0
        BY <1>0, <1>1, <2>6
      <4>. QED  BY <1>5, <1>7, <3>1, <4>1, <4>2
    <3>3. BaseOf(t) # {}
      BY <2>4
    <3>4. TheBase(t) = b
      BY <1>0, <1>1, <2>4, <2>6, <3>2, <3>3
    <3>. QED  BY <2>6, <3>3, <3>4
  <2>7. ASSUME NEW b \in Bases, s = LastOne(b, 2), b >= t - Tol, \A c \in Bases : c < b => c < t - Tol
        PROVE  BaseOf(t) # {} /\ StartB(s, 2) = LastOne(TheBase(t), 2)
    <3>1. BaseOf(t) # {}
      BY <2>4
    <3>2. TheBase(t) = b
      BY <1>0, <1>1, <2>4, <2>7, <3>1
    <3>. QED  BY <1>2, <2>7, <3>1, <3>2
  <2>. QED  BY <1>7, <2>3, <2>5, <2>6, <2>7 DEF s
<1>. QED  BY <1>6, <1>7

\* What is kept of an epoch comes after what has been kept (before it, backwards).
LEMMA KeptInOrder ==
  ASSUME NEW s \in Seq(Sol), NEW t \in RoverTimes, NEW s1 \in Kept(s, t)
  PROVE  /\ s1 \in Seq(Sol)
         /\ \A k \in DOMAIN s1 : s1[k].t = t \/ (k \in DOMAIN s /\ s1[k] = s[k])
         /\ Rising(s) /\ (\A k \in DOMAIN s : s[k].t < t) => Rising(s1)
         /\ Falling(s) /\ (\A k \in DOMAIN s : s[k].t > t) => Falling(s1)
<1>1. CASE s1 = s
  BY <1>1
<1>2. ASSUME NEW q \in {NONE, FIX, FLOAT}, s1 = Append(s, [t |-> t, stat |-> q])
      PROVE  /\ s1 \in Seq(Sol)
             /\ \A k \in DOMAIN s1 : s1[k].t = t \/ (k \in DOMAIN s /\ s1[k] = s[k])
             /\ Rising(s) /\ (\A k \in DOMAIN s : s[k].t < t) => Rising(s1)
             /\ Falling(s) /\ (\A k \in DOMAIN s : s[k].t > t) => Falling(s1)
  <2>. DEFINE e == [t |-> t, stat |-> q]
  <2>1. e \in Sol /\ e.t = t
    BY DEF Sol
  <2>. HIDE DEF e
  <2>2. s1 = Append(s, e)
    BY <1>2 DEF e
  <2>3. s1 \in Seq(Sol) /\ Len(s1) = Len(s) + 1 /\ s1[Len(s) + 1] = e /\ \A k \in 1 .. Len(s) : s1[k] = s[k]
    BY <2>1, <2>2
  <2>4. DOMAIN s = 1 .. Len(s) /\ DOMAIN s1 = 1 .. Len(s) + 1 /\ Len(s) \in Nat
    BY <2>3
  <2>5. \A k \in DOMAIN s1 : (k = Len(s) + 1 /\ s1[k].t = t) \/ (k \in DOMAIN s /\ s1[k] = s[k] /\ k <= Len(s))
    BY <2>1, <2>3, <2>4
  <2>6. ASSUME Rising(s), \A k \in DOMAIN s : s[k].t < t PROVE Rising(s1)
    <3>1. SUFFICES ASSUME NEW k \in DOMAIN s1, NEW l \in DOMAIN s1, k < l PROVE s1[k].t < s1[l].t
      BY DEF Rising
    <3>2. k \in DOMAIN s /\ s1[k] = s[k]
      BY <2>4, <2>5, <3>1
    <3>. QED  BY <2>5, <2>6, <3>1, <3>2 DEF Rising
  <2>7. ASSUME Falling(s), \A k \in DOMAIN s : s[k].t > t PROVE Falling(s1)
    <3>1. SUFFICES ASSUME NEW k \in DOMAIN s1, NEW l \in DOMAIN s1, k < l PROVE s1[k].t > s1[l].t
      BY DEF Falling
    <3>2. k \in DOMAIN s /\ s1[k] = s[k]
      BY <2>4, <2>5, <3>1
    <3>. QED  BY <2>5, <2>7, <3>1, <3>2 DEF Falling
  <2>. QED  BY <2>3, <2>5, <2>6, <2>7
<1>. QED  BY <1>1, <1>2 DEF Kept

LEMMA ForwardKeeps == ASSUME PostStrong, Forward PROVE PostStrong'
<1>. DEFINE u  == StartF(iobsu, 1)
            r  == StartF(IF intpref THEN IntpF(iobsr, data[u].t) ELSE BaseF(iobsr, data[u].t), 2)
<1>1. /\ DataOK /\ intpref \in BOOLEAN /\ pass = "forward" /\ times \in Seq(RoverTimes)
      /\ ForwardOK /\ SolsOK /\ ci = 1 /\ out = <<>> /\ sol = <<>> /\ unsmoothed = {} /\ solstatic \in BOOLEAN
  BY DEF PostStrong, Forward
<1>2. /\ u <= NObs
      /\ got' = SubSeq(data, u, u + CountF(u, 1) - 1) \o SubSeq(data, r, r + CountF(r, 2) - 1)
      /\ iobsu' = u + CountF(u, 1) /\ iobsr' = r
      /\ times' = Append(times, data[u].t) /\ solf' \in Kept(solf, data[u].t)
      /\ UNCHANGED <<data, intpref, solstatic, pass, solb, ci, cj, out, sol, unsmoothed>>
  BY DEF Forward
<1>. HIDE DEF u
<1>3. NObs \in Nat /\ RoverTimes \subseteq Int /\ TimesOf(1) = RoverTimes /\ TimesOf(2) = Bases
  BY <1>1, Array, PostAssumption DEF Bases, TimesOf
<1>. DEFINE last == times[Len(times)]
<1>4. /\ iobsu \in 1 .. NObs + 1
      /\ \A c \in RoverTimes : /\ iobsu <= FirstOne(c, 1) \/ iobsu > LastOne(c, 1)
                               /\ FirstOne(c, 1) < iobsu <=> times # <<>> /\ c <= last
  BY <1>1, RoverAheadF
<1>. HIDE DEF last
<1>5. PICK t \in RoverTimes : u = FirstOne(t, 1) /\ iobsu <= FirstOne(t, 1) /\ \A c \in RoverTimes : c < t => FirstOne(c, 1) < iobsu
  <2>1. \/ \E v \in TimesOf(1) : /\ u = FirstOne(v, 1) /\ iobsu <= FirstOne(v, 1)
                                 /\ \A c \in TimesOf(1) : c < v => FirstOne(c, 1) < iobsu
        \/ u = NObs + 1 /\ \A c \in TimesOf(1) : FirstOne(c, 1) < iobsu
    BY <1>1, <1>3, <1>4, StartsF DEF u
  <2>2. u # NObs + 1
    BY <1>2, <1>3
  <2>. QED  BY <1>3, <2>1, <2>2
<1>6. FirstOne(t, 1) \in 1 .. NObs /\ LastOne(t, 1) \in FirstOne(t, 1) .. NObs /\ t \in TimesOf(1) /\ t \in Int
  <2>1. t \in TimesOf(1) /\ 1 \in {1, 2}
    BY <1>3
  <2>. QED  BY <1>1, <1>3, <2>1, EpochBlocks
<1>7. data[u].t = t
  <2>1. u \in FirstOne(t, 1) .. LastOne(t, 1)
    BY <1>3, <1>5, <1>6
  <2>2. t \in TimesOf(1) /\ 1 \in {1, 2}
    BY <1>6
  <2>. QED  BY <1>1, <2>1, <2>2, EpochBlocks
<1>8. \A c \in RoverTimes : c < t <=> times # <<>> /\ c <= last
  <2>1. ~(FirstOne(t, 1) < iobsu)
    BY <1>4, <1>5, <1>6
  <2>2. ~(times # <<>> /\ t <= last)
    BY <1>4, <2>1
  <2>3. times # <<>> => last \in RoverTimes
    BY <1>1 DEF last
  <2>4. t \in Int /\ (times # <<>> => last \in Int)
    BY <1>6, <1>3, <2>3
  <2>5. ASSUME NEW c \in RoverTimes PROVE c < t <=> times # <<>> /\ c <= last
    <3>1. c \in Int
      BY <1>3
    <3>2. c < t => times # <<>> /\ c <= last
      BY <1>4, <1>5
    <3>. QED  BY <2>2, <2>4, <3>1, <3>2
  <2>. QED  BY <2>5
<1>9. times # <<>> => last \in RoverTimes /\ last \in Int /\ last < t
  <2>1. times # <<>> => last \in RoverTimes
    BY <1>1 DEF last
  <2>2. times # <<>> => last \in Int
    BY <1>3, <2>1
  <2>3. last \in Int => last <= last
    OBVIOUS
  <2>. QED  BY <1>8, <2>1, <2>2, <2>3
<1>10. iobsu' = LastOne(t, 1) + 1
  <2>1. t \in TimesOf(1) /\ 1 \in {1, 2}
    BY <1>6
  <2>. QED  BY <1>1, <1>2, <1>5, <2>1, CountsF
<1>11. r = IF BaseOf(t) = {} THEN NObs + 1 ELSE FirstOne(TheBase(t), 2)
  <2>1. r = StartF(IF intpref THEN IntpF(iobsr, t) ELSE BaseF(iobsr, t), 2)
    BY <1>7
  <2>2. times # <<>> => times[Len(times)] < t
    BY <1>9 DEF last
  <2>. QED  BY <1>1, <2>1, <2>2, BaseFoundF
<1>. HIDE DEF r
<1>12. SubSeq(data, u, u + CountF(u, 1) - 1) = Whole(t, 1)
  <2>1. t \in TimesOf(1) /\ 1 \in {1, 2}
    BY <1>6
  <2>2. u + CountF(u, 1) - 1 = LastOne(t, 1)
    BY <1>1, <1>5, <2>1, CountsF
  <2>. QED  BY <1>1, <1>5, <2>1, <2>2, WholeEpoch
<1>13. SubSeq(data, r, r + CountF(r, 2) - 1) = IF BaseOf(t) = {} THEN <<>> ELSE Whole(TheBase(t), 2)
  <2>1. CASE BaseOf(t) = {}
    <3>1. r = NObs + 1 /\ r \in 1 .. NObs + 1
      BY <1>3, <1>11, <2>1
    <3>2. CountF(r, 2) \in Int /\ r + CountF(r, 2) \in r .. NObs + 1
      BY <1>1, <3>1, CountFIs
    <3>3. r + CountF(r, 2) - 1 = NObs
      BY <1>3, <3>1, <3>2
    <3>4. SubSeq(data, NObs + 1, NObs) = <<>>
      <4>1. data \in Seq([t : Int, rcv : {1, 2}, sat : Sats])
        BY <1>1, Array
      <4>. QED  BY <1>3, <4>1, SubSeqEmpty
    <3>. QED  BY <2>1, <3>1, <3>3, <3>4
  <2>2. CASE BaseOf(t) # {}
    <3>. DEFINE b == TheBase(t)
    <3>1. b \in TimesOf(2) /\ 2 \in {1, 2}
      BY <1>1, <1>3, <1>6, <2>2, BaseOfForward
    <3>2. r = FirstOne(b, 2)
      BY <1>11, <2>2
    <3>4. r + CountF(r, 2) - 1 = LastOne(b, 2)
      BY <1>1, <3>1, <3>2, CountsF
    <3>5. SubSeq(data, FirstOne(b, 2), LastOne(b, 2)) = Whole(b, 2)
      BY <1>1, <3>1, WholeEpoch
    <3>. QED  BY <2>2, <3>2, <3>4, <3>5
  <2>. QED  BY <2>1, <2>2
<1>14. times' \in Seq(RoverTimes) /\ times' # <<>> /\ Len(times') = Len(times) + 1 /\ times'[Len(times')] = t
       /\ (\A k \in 1 .. Len(times) : times'[k] = times[k]) /\ Len(times) \in Nat
  <2>1. times' = Append(times, t) /\ times \in Seq(RoverTimes)
    BY <1>1, <1>2, <1>7
  <2>. QED  BY <2>1
<1>15. InOrder(times)'
  <2>1. SUFFICES ASSUME NEW c \in RoverTimes, NEW k \in DOMAIN times'
                 PROVE  c <= times'[k] <=> \E l \in 1 .. k : times'[l] = c
    BY <1>1, <1>2 DEF InOrder
  <2>2. k \in 1 .. Len(times) + 1
    BY <1>14
  <2>3. times # <<>> => \A d \in RoverTimes, j \in 1 .. Len(times) : d <= times[j] <=> \E l \in 1 .. j : times[l] = d
    BY <1>1 DEF ForwardOK, InOrder
  <2>4. CASE k <= Len(times)
    <3>1. k \in 1 .. Len(times) /\ times # <<>>
      BY <1>14, <2>2, <2>4
    <3>2. times'[k] = times[k] /\ \A l \in 1 .. k : times'[l] = times[l]
      BY <1>14, <3>1
    <3>. QED  BY <2>3, <3>1, <3>2
  <2>5. CASE k = Len(times) + 1
    <3>1. c <= t <=> c = t \/ c < t
      BY <1>3, <1>6
    <3>2. (times # <<>> /\ c <= last) <=> \E l \in 1 .. Len(times) : times[l] = c
      <4>1. CASE times = <<>>
        BY <4>1
      <4>2. CASE times # <<>>
        <5>1. Len(times) \in 1 .. Len(times)
          BY <1>1, <4>2
        <5>. QED  BY <2>3, <4>2, <5>1 DEF last
      <4>. QED  BY <4>1, <4>2
    <3>3. (\E l \in 1 .. k : times'[l] = c) <=> c = t \/ \E l \in 1 .. Len(times) : times[l] = c
      <4>1. \A l : l \in 1 .. k <=> l \in 1 .. Len(times) \/ l = k
        BY <1>14, <2>5
      <4>2. times'[k] = t
        BY <1>14, <2>5
      <4>. QED  BY <1>14, <4>1, <4>2
    <3>4. times'[k] = t
      BY <1>14, <2>5
    <3>. QED  BY <1>8, <3>1, <3>2, <3>3, <3>4
  <2>. QED  BY <1>14, <2>2, <2>4, <2>5
<1>16. Once(times)'
  <2>1. times # <<>> => Once(times) /\ ~ \E l \in 1 .. Len(times) : times[l] = t
    <3>1. SUFFICES ASSUME times # <<>> PROVE Once(times) /\ ~ \E l \in 1 .. Len(times) : times[l] = t
      OBVIOUS
    <3>2. Len(times) \in DOMAIN times /\ times[Len(times)] = last
      BY <1>1, <3>1 DEF last
    <3>3. InOrder(times) /\ Once(times)
      BY <1>1, <3>1 DEF ForwardOK
    <3>4. ~(t <= last)
      BY <1>6, <1>9, <3>1
    <3>5. t <= times[Len(times)] <=> \E l \in 1 .. Len(times) : times[l] = t
      BY <1>1, <3>2, <3>3 DEF InOrder
    <3>. QED  BY <3>2, <3>3, <3>4, <3>5
  <2>2. SUFFICES ASSUME NEW k \in DOMAIN times', NEW l \in DOMAIN times', times'[k] = times'[l], k < l PROVE FALSE
    <3>1. \A k, l \in DOMAIN times' : k \in Int /\ l \in Int
      BY <1>14
    <3>. QED  BY <2>2, <3>1 DEF Once
  <2>3. l \in 1 .. Len(times) + 1 /\ k \in 1 .. Len(times) /\ times # <<>> /\ times'[k] = times[k]
    BY <1>14, <2>2
  <2>4. CASE l = Len(times) + 1
    BY <1>14, <2>1, <2>2, <2>3, <2>4
  <2>5. CASE l # Len(times) + 1
    <3>1. l \in 1 .. Len(times) /\ times'[l] = times[l] /\ DOMAIN times = 1 .. Len(times)
      BY <1>1, <1>14, <2>3, <2>5
    <3>2. k = l
      BY <2>1, <2>2, <2>3, <3>1 DEF Once
    <3>. QED  BY <2>2, <2>3, <3>2
  <2>. QED  BY <2>4, <2>5
<1>17. BaseOf(t)' = BaseOf(t) /\ TheBase(t)' = TheBase(t) /\ NObs' = NObs /\ DataOK'
       /\ FirstOne(TheBase(t), 2)' = FirstOne(TheBase(t), 2) /\ LastOne(t, 1)' = LastOne(t, 1)
  <2>1. NObs' = NObs /\ Bases' = Bases /\ DataOK'
    BY <1>1, <1>2 DEF NObs, Bases, DataOK
  <2>2. BaseOf(t)' = BaseOf(t)
    BY <1>1, <1>2, <2>1 DEF BaseOf
  <2>3. TheBase(t)' = TheBase(t)
    BY <2>2 DEF TheBase
  <2>4. \A b, q : PlacesOf(b, q)' = PlacesOf(b, q)
    BY <1>2, <2>1 DEF PlacesOf
  <2>. QED  BY <2>1, <2>2, <2>3, <2>4 DEF FirstOne, LastOne
<1>18. ForwardOK'
  <2>1. got' = RightObs(t)'
    BY <1>2, <1>12, <1>13, <1>17 DEF RightObs
  <2>2. iobsr' = IF BaseOf(t)' = {} THEN NObs' + 1 ELSE FirstOne(TheBase(t), 2)'
    BY <1>2, <1>11, <1>17
  <2>3. times'[Len(times')] = t /\ times' # <<>>
    BY <1>14
  <2>. QED  BY <1>10, <1>15, <1>16, <1>17, <2>1, <2>2, <2>3 DEF ForwardOK
<1>19. SolsOK'
  <2>1. solf \in Seq(Sol) /\ Rising(solf) /\ solb = <<>> /\ \A k \in DOMAIN solf : solf[k].t < t
    <3>1. ASSUME NEW k \in DOMAIN solf PROVE solf[k].t < t
      <4>1. times # <<>> /\ solf[k].t <= last
        BY <1>1 DEF SolsOK, last
      <4>2. solf[k].t \in Int
        <5>1. solf \in Seq(Sol)
          BY <1>1 DEF SolsOK
        <5>2. solf[k] \in Sol
          BY <5>1
        <5>. QED  BY <1>3, <5>2 DEF Sol
      <4>. QED  BY <1>6, <1>9, <4>1, <4>2
    <3>. QED  BY <1>1, <3>1 DEF SolsOK
  <2>2. solf' \in Kept(solf, t)
    BY <1>2, <1>7
  <2>3. /\ solf' \in Seq(Sol) /\ Rising(solf')
        /\ \A k \in DOMAIN solf' : solf'[k].t = t \/ (k \in DOMAIN solf /\ solf'[k] = solf[k])
    BY <2>1, <2>2, KeptInOrder
  <2>4. \A k \in DOMAIN solf' : times' # <<>> /\ solf'[k].t <= times'[Len(times')]
    <3>1. SUFFICES ASSUME NEW k \in DOMAIN solf' PROVE solf'[k].t <= t
      BY <1>14
    <3>2. CASE solf'[k].t = t
      BY <1>6, <3>2
    <3>3. CASE k \in DOMAIN solf /\ solf'[k] = solf[k]
      <4>1. solf[k].t \in Int
        <5>2. solf[k] \in Sol
          BY <2>1, <3>3
        <5>. QED  BY <1>3, <5>2 DEF Sol
      <4>. QED  BY <1>6, <2>1, <3>3, <4>1
    <3>. QED  BY <2>3, <3>2, <3>3
  <2>5. solb' = solb /\ pass' = "forward" /\ solb' \in Seq(Sol) /\ Falling(solb')
    BY <1>1, <1>2, <2>1 DEF SolsOK
  <2>. QED  BY <2>1, <2>3, <2>4, <2>5 DEF SolsOK, Rising, Falling
<1>20. out' \in Seq(Sol) /\ Rising(out)'
  BY <1>1, <1>2 DEF Rising
<1>. QED  BY <1>1, <1>2, <1>14, <1>17, <1>18, <1>19, <1>20 DEF PostStrong

LEMMA BackwardKeeps == ASSUME PostStrong, Backward PROVE PostStrong'
<1>. DEFINE u  == StartB(iobsu, 1)
            r  == StartB(IF intpref THEN IntpB(iobsr, data[u].t) ELSE BaseB(iobsr, data[u].t), 2)
<1>1. /\ DataOK /\ intpref \in BOOLEAN /\ pass = "backward" /\ times \in Seq(RoverTimes)
      /\ BackwardOK /\ SolsOK /\ ci = 1 /\ out = <<>> /\ sol = <<>> /\ unsmoothed = {} /\ solstatic \in BOOLEAN
  BY DEF PostStrong, Backward
<1>2. /\ u >= 1
      /\ got' = SubSeq(data, u - CountB(u, 1) + 1, u) \o SubSeq(data, r - CountB(r, 2) + 1, r)
      /\ iobsu' = u - CountB(u, 1) /\ iobsr' = r
      /\ times' = Append(times, data[u].t) /\ solb' \in Kept(solb, data[u].t)
      /\ UNCHANGED <<data, intpref, solstatic, pass, solf, ci, cj, out, sol, unsmoothed>>
  BY DEF Backward
<1>. HIDE DEF u
<1>3. NObs \in Nat /\ RoverTimes \subseteq Int /\ TimesOf(1) = RoverTimes /\ TimesOf(2) = Bases
  BY <1>1, Array, PostAssumption DEF Bases, TimesOf
<1>. DEFINE last == times[Len(times)]
<1>4. /\ iobsu \in 0 .. NObs
      /\ \A c \in RoverTimes : /\ iobsu >= LastOne(c, 1) \/ iobsu < FirstOne(c, 1)
                               /\ LastOne(c, 1) > iobsu <=> times # <<>> /\ c >= last
  BY <1>1, RoverAheadB
<1>. HIDE DEF last
<1>5. PICK t \in RoverTimes : u = LastOne(t, 1) /\ iobsu >= LastOne(t, 1) /\ \A c \in RoverTimes : c > t => LastOne(c, 1) > iobsu
  <2>1. \/ \E v \in TimesOf(1) : /\ u = LastOne(v, 1) /\ iobsu >= LastOne(v, 1)
                                 /\ \A c \in TimesOf(1) : c > v => LastOne(c, 1) > iobsu
        \/ u = 0 /\ \A c \in TimesOf(1) : LastOne(c, 1) > iobsu
    BY <1>1, <1>3, <1>4, StartsB DEF u
  <2>2. u # 0
    BY <1>2, <1>3
  <2>. QED  BY <1>3, <2>1, <2>2
<1>6. LastOne(t, 1) \in 1 .. NObs /\ FirstOne(t, 1) \in 1 .. LastOne(t, 1) /\ t \in TimesOf(1) /\ t \in Int
  <2>1. t \in TimesOf(1) /\ 1 \in {1, 2}
    BY <1>3
  <2>. QED  BY <1>1, <1>3, <2>1, EpochBlocks
<1>7. data[u].t = t
  <2>1. u \in FirstOne(t, 1) .. LastOne(t, 1)
    BY <1>3, <1>5, <1>6
  <2>2. t \in TimesOf(1) /\ 1 \in {1, 2}
    BY <1>6
  <2>. QED  BY <1>1, <2>1, <2>2, EpochBlocks
<1>8. \A c \in RoverTimes : c > t <=> times # <<>> /\ c >= last
  <2>1. ~(LastOne(t, 1) > iobsu)
    BY <1>4, <1>5, <1>6
  <2>2. ~(times # <<>> /\ t >= last)
    BY <1>4, <2>1
  <2>3. times # <<>> => last \in RoverTimes
    BY <1>1 DEF last
  <2>4. t \in Int /\ (times # <<>> => last \in Int)
    BY <1>6, <1>3, <2>3
  <2>5. ASSUME NEW c \in RoverTimes PROVE c > t <=> times # <<>> /\ c >= last
    <3>1. c \in Int
      BY <1>3
    <3>2. c > t => times # <<>> /\ c >= last
      BY <1>4, <1>5
    <3>. QED  BY <2>2, <2>4, <3>1, <3>2
  <2>. QED  BY <2>5
<1>9. times # <<>> => last \in RoverTimes /\ last \in Int /\ last > t
  <2>1. times # <<>> => last \in RoverTimes
    BY <1>1 DEF last
  <2>2. times # <<>> => last \in Int
    BY <1>3, <2>1
  <2>3. last \in Int => last >= last
    OBVIOUS
  <2>. QED  BY <1>8, <2>1, <2>2, <2>3
<1>10. iobsu' = FirstOne(t, 1) - 1
  <2>1. t \in TimesOf(1) /\ 1 \in {1, 2}
    BY <1>6
  <2>. QED  BY <1>1, <1>2, <1>5, <2>1, CountsB
<1>11. r = IF BaseOf(t) = {} THEN 0 ELSE LastOne(TheBase(t), 2)
  <2>1. r = StartB(IF intpref THEN IntpB(iobsr, t) ELSE BaseB(iobsr, t), 2)
    BY <1>7
  <2>2. times # <<>> => times[Len(times)] > t
    BY <1>9 DEF last
  <2>. QED  BY <1>1, <2>1, <2>2, BaseFoundB
<1>. HIDE DEF r
<1>12. SubSeq(data, u - CountB(u, 1) + 1, u) = Whole(t, 1)
  <2>1. t \in TimesOf(1) /\ 1 \in {1, 2}
    BY <1>6
  <2>2. u - CountB(u, 1) + 1 = FirstOne(t, 1)
    BY <1>1, <1>5, <2>1, CountsB
  <2>. QED  BY <1>1, <1>5, <2>1, <2>2, WholeEpoch
<1>13. SubSeq(data, r - CountB(r, 2) + 1, r) = IF BaseOf(t) = {} THEN <<>> ELSE Whole(TheBase(t), 2)
  <2>1. CASE BaseOf(t) = {}
    <3>1. r = 0 /\ r \in 0 .. NObs
      BY <1>3, <1>11, <2>1
    <3>2. CountB(r, 2) \in Int /\ r - CountB(r, 2) \in 0 .. r
      BY <1>1, <3>1, CountBIs
    <3>3. r - CountB(r, 2) + 1 = 1
      BY <1>3, <3>1, <3>2
    <3>4. SubSeq(data, 1, 0) = <<>>
      <4>1. data \in Seq([t : Int, rcv : {1, 2}, sat : Sats])
        BY <1>1, Array
      <4>. QED  BY <1>3, <4>1, SubSeqEmpty
    <3>. QED  BY <2>1, <3>1, <3>3, <3>4
  <2>2. CASE BaseOf(t) # {}
    <3>. DEFINE b == TheBase(t)
    <3>1. b \in TimesOf(2) /\ 2 \in {1, 2}
      BY <1>1, <1>3, <1>6, <2>2, BaseOfBackward
    <3>2. r = LastOne(b, 2)
      BY <1>11, <2>2
    <3>4. r - CountB(r, 2) + 1 = FirstOne(b, 2)
      BY <1>1, <3>1, <3>2, CountsB
    <3>5. SubSeq(data, FirstOne(b, 2), LastOne(b, 2)) = Whole(b, 2)
      BY <1>1, <3>1, WholeEpoch
    <3>. QED  BY <2>2, <3>2, <3>4, <3>5
  <2>. QED  BY <2>1, <2>2
<1>14. times' \in Seq(RoverTimes) /\ times' # <<>> /\ Len(times') = Len(times) + 1 /\ times'[Len(times')] = t
       /\ (\A k \in 1 .. Len(times) : times'[k] = times[k]) /\ Len(times) \in Nat
  <2>1. times' = Append(times, t) /\ times \in Seq(RoverTimes)
    BY <1>1, <1>2, <1>7
  <2>. QED  BY <2>1
<1>15. InOrder(times)'
  <2>1. SUFFICES ASSUME NEW c \in RoverTimes, NEW k \in DOMAIN times'
                 PROVE  c >= times'[k] <=> \E l \in 1 .. k : times'[l] = c
    BY <1>1, <1>2 DEF InOrder
  <2>2. k \in 1 .. Len(times) + 1
    BY <1>14
  <2>3. times # <<>> => \A d \in RoverTimes, j \in 1 .. Len(times) : d >= times[j] <=> \E l \in 1 .. j : times[l] = d
    BY <1>1 DEF BackwardOK, InOrder
  <2>4. CASE k <= Len(times)
    <3>1. k \in 1 .. Len(times) /\ times # <<>>
      BY <1>14, <2>2, <2>4
    <3>2. times'[k] = times[k] /\ \A l \in 1 .. k : times'[l] = times[l]
      BY <1>14, <3>1
    <3>. QED  BY <2>3, <3>1, <3>2
  <2>5. CASE k = Len(times) + 1
    <3>1. c >= t <=> c = t \/ c > t
      BY <1>3, <1>6
    <3>2. (times # <<>> /\ c >= last) <=> \E l \in 1 .. Len(times) : times[l] = c
      <4>1. CASE times = <<>>
        BY <4>1
      <4>2. CASE times # <<>>
        <5>1. Len(times) \in 1 .. Len(times)
          BY <1>1, <4>2
        <5>. QED  BY <2>3, <4>2, <5>1 DEF last
      <4>. QED  BY <4>1, <4>2
    <3>3. (\E l \in 1 .. k : times'[l] = c) <=> c = t \/ \E l \in 1 .. Len(times) : times[l] = c
      <4>1. \A l : l \in 1 .. k <=> l \in 1 .. Len(times) \/ l = k
        BY <1>14, <2>5
      <4>2. times'[k] = t
        BY <1>14, <2>5
      <4>. QED  BY <1>14, <4>1, <4>2
    <3>4. times'[k] = t
      BY <1>14, <2>5
    <3>. QED  BY <1>8, <3>1, <3>2, <3>3, <3>4
  <2>. QED  BY <1>14, <2>2, <2>4, <2>5
<1>16. Once(times)'
  <2>1. times # <<>> => Once(times) /\ ~ \E l \in 1 .. Len(times) : times[l] = t
    <3>1. SUFFICES ASSUME times # <<>> PROVE Once(times) /\ ~ \E l \in 1 .. Len(times) : times[l] = t
      OBVIOUS
    <3>2. Len(times) \in DOMAIN times /\ times[Len(times)] = last
      BY <1>1, <3>1 DEF last
    <3>3. InOrder(times) /\ Once(times)
      BY <1>1, <3>1 DEF BackwardOK
    <3>4. ~(t >= last)
      BY <1>6, <1>9, <3>1
    <3>5. t >= times[Len(times)] <=> \E l \in 1 .. Len(times) : times[l] = t
      BY <1>1, <3>2, <3>3 DEF InOrder
    <3>. QED  BY <3>2, <3>3, <3>4, <3>5
  <2>2. SUFFICES ASSUME NEW k \in DOMAIN times', NEW l \in DOMAIN times', times'[k] = times'[l], k < l PROVE FALSE
    <3>1. \A k, l \in DOMAIN times' : k \in Int /\ l \in Int
      BY <1>14
    <3>. QED  BY <2>2, <3>1 DEF Once
  <2>3. l \in 1 .. Len(times) + 1 /\ k \in 1 .. Len(times) /\ times # <<>> /\ times'[k] = times[k]
    BY <1>14, <2>2
  <2>4. CASE l = Len(times) + 1
    BY <1>14, <2>1, <2>2, <2>3, <2>4
  <2>5. CASE l # Len(times) + 1
    <3>1. l \in 1 .. Len(times) /\ times'[l] = times[l] /\ DOMAIN times = 1 .. Len(times)
      BY <1>1, <1>14, <2>3, <2>5
    <3>2. k = l
      BY <2>1, <2>2, <2>3, <3>1 DEF Once
    <3>. QED  BY <2>2, <2>3, <3>2
  <2>. QED  BY <2>4, <2>5
<1>17. BaseOf(t)' = BaseOf(t) /\ TheBase(t)' = TheBase(t) /\ NObs' = NObs /\ DataOK'
       /\ LastOne(TheBase(t), 2)' = LastOne(TheBase(t), 2) /\ FirstOne(t, 1)' = FirstOne(t, 1)
  <2>1. NObs' = NObs /\ Bases' = Bases /\ DataOK'
    BY <1>1, <1>2 DEF NObs, Bases, DataOK
  <2>2. BaseOf(t)' = BaseOf(t)
    BY <1>1, <1>2, <2>1 DEF BaseOf
  <2>3. TheBase(t)' = TheBase(t)
    BY <2>2 DEF TheBase
  <2>4. \A b, q : PlacesOf(b, q)' = PlacesOf(b, q)
    BY <1>2, <2>1 DEF PlacesOf
  <2>. QED  BY <2>1, <2>2, <2>3, <2>4 DEF FirstOne, LastOne
<1>18. BackwardOK'
  <2>1. got' = RightObs(t)'
    BY <1>2, <1>12, <1>13, <1>17 DEF RightObs
  <2>2. iobsr' = IF BaseOf(t)' = {} THEN 0 ELSE LastOne(TheBase(t), 2)'
    BY <1>2, <1>11, <1>17
  <2>3. times'[Len(times')] = t /\ times' # <<>>
    BY <1>14
  <2>. QED  BY <1>10, <1>15, <1>16, <1>17, <2>1, <2>2, <2>3 DEF BackwardOK
<1>19. SolsOK'
  <2>1. solb \in Seq(Sol) /\ Falling(solb) /\ \A k \in DOMAIN solb : solb[k].t > t
    <3>1. ASSUME NEW k \in DOMAIN solb PROVE solb[k].t > t
      <4>1. times # <<>> /\ solb[k].t >= last
        BY <1>1 DEF SolsOK, last
      <4>2. solb[k].t \in Int
        <5>1. solb \in Seq(Sol)
          BY <1>1 DEF SolsOK
        <5>2. solb[k] \in Sol
          BY <5>1
        <5>. QED  BY <1>3, <5>2 DEF Sol
      <4>. QED  BY <1>6, <1>9, <4>1, <4>2
    <3>. QED  BY <1>1, <3>1 DEF SolsOK
  <2>2. solb' \in Kept(solb, t)
    BY <1>2, <1>7
  <2>3. /\ solb' \in Seq(Sol) /\ Falling(solb')
        /\ \A k \in DOMAIN solb' : solb'[k].t = t \/ (k \in DOMAIN solb /\ solb'[k] = solb[k])
    BY <2>1, <2>2, KeptInOrder
  <2>4. \A k \in DOMAIN solb' : times' # <<>> /\ solb'[k].t >= times'[Len(times')]
    <3>1. SUFFICES ASSUME NEW k \in DOMAIN solb' PROVE solb'[k].t >= t
      BY <1>14
    <3>2. CASE solb'[k].t = t
      BY <1>6, <3>2
    <3>3. CASE k \in DOMAIN solb /\ solb'[k] = solb[k]
      <4>1. solb[k].t \in Int
        <5>2. solb[k] \in Sol
          BY <2>1, <3>3
        <5>. QED  BY <1>3, <5>2 DEF Sol
      <4>. QED  BY <1>6, <2>1, <3>3, <4>1
    <3>. QED  BY <2>3, <3>2, <3>3
  <2>5. solf' = solf /\ pass' = "backward" /\ solf' \in Seq(Sol) /\ Rising(solf')
    BY <1>1, <1>2 DEF SolsOK
  <2>. QED  BY <2>1, <2>3, <2>4, <2>5 DEF SolsOK, Rising, Falling
<1>20. out' \in Seq(Sol) /\ Rising(out)'
  BY <1>1, <1>2 DEF Rising
<1>. QED  BY <1>1, <1>2, <1>14, <1>17, <1>18, <1>19, <1>20 DEF PostStrong

LEMMA TurnBackKeeps == ASSUME PostStrong, TurnBack PROVE PostStrong'
<1>1. DataOK' /\ NObs' = NObs
  BY DEF PostStrong, TurnBack, DataOK, NObs
<1>2. BackwardOK'
  BY <1>1 DEF TurnBack, BackwardOK
<1>3. SolsOK'
  <2>1. solb = <<>> /\ solf \in Seq(Sol) /\ Rising(solf) /\ solb \in Seq(Sol) /\ Falling(solb)
    BY DEF PostStrong, TurnBack, SolsOK
  <2>. QED  BY <2>1 DEF TurnBack, SolsOK, Rising, Falling
<1>4. out' \in Seq(Sol) /\ Rising(out') /\ ci' = 1 /\ out' = <<>> /\ times' \in Seq(RoverTimes)
      /\ intpref' \in BOOLEAN /\ solstatic' \in BOOLEAN /\ pass' = "backward" /\ sol' = <<>> /\ unsmoothed' = {}
  BY DEF PostStrong, TurnBack
<1>. QED  BY <1>1, <1>2, <1>3, <1>4 DEF PostStrong, Rising

LEMMA CombineKeeps == ASSUME PostStrong, Combine PROVE PostStrong'
<1>1. DataOK'
  BY DEF PostStrong, Combine, DataOK
<1>2. SolsOK'
  <2>1. solf \in Seq(Sol) /\ Rising(solf) /\ solb \in Seq(Sol) /\ Falling(solb)
    BY DEF PostStrong, SolsOK
  <2>. QED  BY <2>1 DEF Combine, SolsOK, Rising, Falling
<1>3. /\ ci = 1 /\ out = <<>> /\ Len(solf) \in Nat /\ Len(solb) \in Nat
      /\ ci' = 1 /\ out' = <<>> /\ sol' = <<>> /\ unsmoothed' = {} /\ cj' = Len(solb) /\ solf' = solf /\ solb' = solb
  BY DEF PostStrong, Combine, SolsOK
<1>4. Fronts'
  BY <1>3 DEF Fronts
<1>5. Merged' /\ ChosenOK'
  BY <1>3 DEF Merged, ChosenOK
<1>6. out' \in Seq(Sol) /\ Rising(out') /\ times' = <<>> /\ times' \in Seq(RoverTimes)
      /\ intpref' \in BOOLEAN /\ solstatic' \in BOOLEAN /\ pass' = "combine"
  BY DEF PostStrong, Combine
<1>. QED  BY <1>1, <1>2, <1>4, <1>5, <1>6 DEF PostStrong, Rising

LEMMA CombresEndKeeps == ASSUME PostStrong, CombresEnd PROVE PostStrong'
<1>1. DataOK' /\ Fronts' /\ Merged' /\ ChosenOK'
  <2>1. /\ DataOK /\ Fronts /\ Merged /\ ChosenOK
        /\ UNCHANGED <<data, solstatic, solf, solb, ci, cj, out, sol, unsmoothed>>
    BY DEF PostStrong, CombresEnd
  <2>2. DataOK' = DataOK /\ Fronts' = Fronts /\ ChosenOK' = ChosenOK
    BY <2>1 DEF DataOK, Fronts, ChosenOK
  <2>3. Merged' = Merged
    BY <2>1 DEF Merged, Better
  <2>. QED  BY <2>1, <2>2, <2>3
<1>2. SolsOK'
  <2>1. solf \in Seq(Sol) /\ Rising(solf) /\ solb \in Seq(Sol) /\ Falling(solb)
    BY DEF PostStrong, SolsOK
  <2>. QED  BY <2>1 DEF CombresEnd, SolsOK, Rising, Falling
<1>3. out' \in Seq(Sol) /\ Rising(out') /\ times' = <<>> /\ times' \in Seq(RoverTimes)
      /\ intpref' \in BOOLEAN /\ solstatic' \in BOOLEAN /\ pass' = "done" /\ (ci' > Len(solf') \/ cj' < 1)
  BY DEF PostStrong, CombresEnd
<1>. QED  BY <1>1, <1>2, <1>3 DEF PostStrong, Rising

LEMMA ExecsesKeeps == ASSUME PostStrong, Execses PROVE PostStrong'
<1>1. DataOK' /\ NObs' = NObs
  BY DEF PostStrong, Execses, DataOK, NObs
<1>2. times' = <<>> /\ times' \in Seq(RoverTimes) /\ intpref' \in BOOLEAN /\ solstatic' \in BOOLEAN /\ pass' = "forward"
      /\ solf' = <<>> /\ solb' = <<>> /\ out' = <<>> /\ sol' = <<>> /\ unsmoothed' = {} /\ ci' = 1 /\ iobsu' = 1 /\ iobsr' = 1
  BY DEF PostStrong, Execses
<1>3. ForwardOK'
  BY <1>1, <1>2 DEF ForwardOK
<1>4. SolsOK'
  BY <1>2 DEF SolsOK, Rising, Falling
<1>. QED  BY <1>1, <1>2, <1>3, <1>4 DEF PostStrong, Rising

\* What an iteration of combres hands on comes after all that was handed on before.
LEMMA Written ==
  ASSUME NEW s \in Seq(Sol), NEW x \in Sol, NEW s1, s1 = Append(s, x)
  PROVE  /\ s1 \in Seq(Sol)
         /\ \A k \in DOMAIN s1 : (k = Len(s) + 1 /\ s1[k] = x) \/ (k \in DOMAIN s /\ s1[k] = s[k])
         /\ \A k \in DOMAIN s : k \in DOMAIN s1 /\ s1[k] = s[k]
         /\ Len(s) + 1 \in DOMAIN s1 /\ s1[Len(s) + 1] = x
         /\ Rising(s) /\ (\A k \in DOMAIN s : s[k].t < x.t) => Rising(s1)
<1>. DEFINE n == Len(s)
<1>1. n \in Nat /\ DOMAIN s = 1 .. n /\ s1 \in Seq(Sol) /\ DOMAIN s1 = 1 .. n + 1
      /\ s1[n + 1] = x /\ \A k \in 1 .. n : s1[k] = s[k]
  OBVIOUS
<1>. HIDE DEF n
<1>2. n + 1 \in 1 .. n + 1 /\ (\A k \in 1 .. n : k \in 1 .. n + 1) /\ \A k \in 1 .. n + 1 : k = n + 1 \/ k \in 1 .. n
  BY <1>1
<1>3. ASSUME Rising(s), \A k \in DOMAIN s : s[k].t < x.t PROVE Rising(s1)
  <2>1. SUFFICES ASSUME NEW k \in DOMAIN s1, NEW l \in DOMAIN s1, k < l PROVE s1[k].t < s1[l].t
    BY DEF Rising
  <2>2. k \in 1 .. n /\ (l = n + 1 \/ l \in 1 .. n)
    BY <1>1, <2>1
  <2>. QED  BY <1>1, <1>3, <2>1, <2>2 DEF Rising
<1>. QED  BY <1>1, <1>2, <1>3 DEF n

\* The best of those handed on so far is kept.
LEMMA ChosenKept ==
  ASSUME NEW x \in Sol, out \in Seq(Sol), Rising(out), \A k \in DOMAIN out : out[k].t < x.t,
         ChosenOK, solstatic, out' = Append(out, x), sol' = Chosen(x), UNCHANGED solstatic
  PROVE  ChosenOK'
<1>1. /\ out' \in Seq(Sol) /\ Len(out) \in Nat /\ DOMAIN out = 1 .. Len(out)
      /\ \A k \in DOMAIN out' : (k = Len(out) + 1 /\ out'[k] = x) \/ (k \in DOMAIN out /\ out'[k] = out[k])
      /\ \A k \in DOMAIN out : k \in DOMAIN out' /\ out'[k] = out[k]
      /\ Len(out) + 1 \in DOMAIN out' /\ out'[Len(out) + 1] = x
  <2>1. \A s1 : s1 = Append(out, x) =>
          /\ s1 \in Seq(Sol)
          /\ \A k \in DOMAIN s1 : (k = Len(out) + 1 /\ s1[k] = x) \/ (k \in DOMAIN out /\ s1[k] = out[k])
          /\ \A k \in DOMAIN out : k \in DOMAIN s1 /\ s1[k] = out[k]
          /\ Len(out) + 1 \in DOMAIN s1 /\ s1[Len(out) + 1] = x
    BY Written
  <2>. QED  BY <2>1
<1>2. \A q \in Sol : q.t \in Int /\ q.stat \in Int
  BY PostAssumption DEF Sol, NONE, FIX, FLOAT
<1>3. \A k \in DOMAIN out : out[k] \in Sol
  OBVIOUS
<1>4. out' # <<>>
  BY <1>1
<1>5. CASE out = <<>>
  <2>1. sol = <<>>
    BY <1>5 DEF ChosenOK
  <2>2. {x.t} \cup {sol[k].t : k \in DOMAIN sol} = {x.t}
    BY <2>1
  <2>3. Min({x.t}) = x.t
    <3>1. IsFiniteSet({x.t}) /\ {x.t} # {} /\ {x.t} \subseteq Int
      BY <1>2, FS_Singleton
    <3>2. Min({x.t}) \in {x.t}
      BY <3>1, MinOf
    <3>. QED  BY <3>2
  <2>4. sol' = << [t |-> x.t, stat |-> x.stat] >>
    <3>1. Chosen(x) = << [t |-> Min({x.t} \cup {sol[k].t : k \in DOMAIN sol}), stat |-> x.stat] >>
      BY <2>1 DEF Chosen
    <3>. QED  BY <2>2, <2>3, <3>1
  <2>5. 1 \in DOMAIN out' /\ out'[1] = x /\ \A l \in DOMAIN out' : out'[l] = x
    BY <1>1, <1>5
  <2>. QED  BY <1>2, <1>4, <2>4, <2>5 DEF ChosenOK
<1>6. CASE out # <<>>
  <2>1. PICK k \in DOMAIN out : /\ sol = << [t |-> out[1].t, stat |-> out[k].stat] >>
                                /\ \A l \in DOMAIN out : out[k].stat <= out[l].stat
    BY <1>6 DEF ChosenOK
  <2>2. 1 \in DOMAIN out /\ out'[1] = out[1] /\ out[1].t < x.t /\ out[1].t \in Int
    BY <1>1, <1>2, <1>3, <2>1
  <2>3. sol # <<>> /\ sol[1].stat = out[k].stat /\ {sol[i].t : i \in DOMAIN sol} = {out[1].t}
    BY <2>1
  <2>4. CASE x.stat > out[k].stat
    <3>1. sol' = sol
      BY <2>3, <2>4 DEF Chosen
    <3>2. \A l \in DOMAIN out' : out'[k].stat <= out'[l].stat
      BY <1>1, <1>2, <1>3, <2>1, <2>4
    <3>. QED  BY <1>1, <1>4, <2>1, <2>2, <3>1, <3>2 DEF ChosenOK
  <2>5. CASE ~(x.stat > out[k].stat)
    <3>1. Min({x.t, out[1].t}) = out[1].t
      <4>1. IsFiniteSet({x.t, out[1].t}) /\ {x.t, out[1].t} # {} /\ {x.t, out[1].t} \subseteq Int
        <5>1. IsFiniteSet({x.t}) /\ IsFiniteSet({out[1].t}) /\ {x.t, out[1].t} = {x.t} \cup {out[1].t}
          BY FS_Singleton
        <5>2. IsFiniteSet({x.t} \cup {out[1].t})
          BY <5>1, FS_Union
        <5>. QED  BY <1>2, <2>2, <5>1, <5>2
      <4>2. Min({x.t, out[1].t}) \in {x.t, out[1].t} /\ \A y \in {x.t, out[1].t} : Min({x.t, out[1].t}) <= y
        BY <4>1, MinOf
      <4>. QED  BY <1>2, <2>2, <4>2
    <3>2. sol' = << [t |-> out[1].t, stat |-> x.stat] >>
      <4>1. {x.t} \cup {sol[i].t : i \in DOMAIN sol} = {x.t, out[1].t}
        BY <2>3
      <4>2. Chosen(x) = << [t |-> Min({x.t} \cup {sol[i].t : i \in DOMAIN sol}), stat |-> x.stat] >>
        BY <2>3, <2>5 DEF Chosen
      <4>. QED  BY <3>1, <4>1, <4>2
    <3>3. \A l \in DOMAIN out' : out'[Len(out) + 1].stat <= out'[l].stat
      <4>1. \A l \in DOMAIN out : x.stat <= out[l].stat
        BY <1>2, <1>3, <2>1, <2>5
      <4>. QED  BY <1>1, <1>2, <4>1
    <3>4. \E m \in DOMAIN out' : /\ sol' = << [t |-> out'[1].t, stat |-> out'[m].stat] >>
                                 /\ \A l \in DOMAIN out' : out'[m].stat <= out'[l].stat
      <4>1. out'[Len(out) + 1].stat = x.stat /\ out'[1].t = out[1].t
        BY <1>1, <2>2
      <4>. QED  BY <1>1, <3>2, <3>3, <4>1
    <3>. QED  BY <1>4, <3>4 DEF ChosenOK
  <2>. QED  BY <2>4, <2>5
<1>. QED  BY <1>5, <1>6

\* The indices behind a front that moves by at most one
LEMMA BehindUp ==
  ASSUME NEW n \in Nat, NEW c \in 1 .. n, NEW d \in Int, d <= c + 1
  PROVE  \A i \in 1 .. d - 1 : i \in 1 .. n /\ (i \in 1 .. c - 1 \/ i = c)
OBVIOUS

LEMMA BehindDown ==
  ASSUME NEW n \in Nat, NEW c \in 1 .. n, NEW d \in Int, d >= c - 1, d >= 0
  PROVE  \A j \in d + 1 .. n : j \in 1 .. n /\ (j \in c + 1 .. n \/ j = c)
OBVIOUS

LEMMA CombresKeeps == ASSUME PostStrong, Combres PROVE PostStrong'
<1>. DEFINE f == solf[ci]
            b == solb[cj]
            tt == f.t - b.t
<1>1. /\ pass = "combine" /\ ci <= Len(solf) /\ cj >= 1
      /\ ci' = IF tt > Tol THEN ci ELSE ci + 1
      /\ cj' = IF tt < -Tol THEN cj ELSE cj - 1
      /\ UNCHANGED <<data, intpref, solstatic, pass, iobsu, iobsr, got, times, solf, solb>>
  BY DEF Combres
<1>2. PICK s \in Handed(f, b) :
        \/ Alike(f, b) /\ unsmoothed' = unsmoothed \cup {s.t} /\ UNCHANGED <<out, sol>>
        \/ out' = Append(out, s) /\ sol' = (IF solstatic THEN Chosen(s) ELSE sol) /\ UNCHANGED unsmoothed
  <2>1. Alike(f, b) => f \in Handed(f, b)
    <3>1. CASE Alike(f, b)
      <4>1. tt \in Int /\ Tol \in Nat /\ f.stat \in Int
        <5>1. solf \in Seq(Sol) /\ solb \in Seq(Sol) /\ ci \in 1 .. Len(solf) /\ cj \in 1 .. Len(solb)
          BY <1>1 DEF PostStrong, SolsOK, Fronts
        <5>2. f \in Sol /\ b \in Sol
          BY <5>1
        <5>. QED  BY <5>2, PostAssumption DEF Sol, NONE, FIX, FLOAT
      <4>. HIDE DEF f, b
      <4>2. ~(f.t - b.t < -Tol) /\ ~(f.t - b.t > Tol) /\ ~(f.stat < b.stat) /\ ~(f.stat > b.stat)
        BY <3>1, <4>1 DEF Alike
      <4>. QED  BY <4>2 DEF Handed
    <3>. QED  BY <3>1
  <2>. QED  BY <2>1 DEF Combres
<1>3. /\ DataOK /\ SolsOK /\ Fronts /\ Merged /\ ChosenOK /\ times = <<>> /\ intpref \in BOOLEAN /\ solstatic \in BOOLEAN
      /\ out \in Seq(Sol) /\ Rising(out)
  BY <1>1 DEF PostStrong
<1>4. /\ solf \in Seq(Sol) /\ solb \in Seq(Sol) /\ Len(solf) \in Nat /\ Len(solb) \in Nat /\ Rising(solf) /\ Falling(solb)
      /\ DOMAIN solf = 1 .. Len(solf) /\ DOMAIN solb = 1 .. Len(solb)
      /\ ci \in 1 .. Len(solf) /\ cj \in 1 .. Len(solb)
  BY <1>1, <1>3 DEF SolsOK, Fronts
<1>5. /\ \A i \in 1 .. Len(solf) : solf[i] \in Sol /\ solf[i].t \in RoverTimes /\ solf[i].t \in Int
      /\ \A j \in 1 .. Len(solb) : solb[j] \in Sol /\ solb[j].t \in RoverTimes /\ solb[j].t \in Int
      /\ \A k \in DOMAIN out : out[k].t \in Int
  <2>1. \A q \in Sol : q.t \in RoverTimes /\ q.t \in Int
    BY PostAssumption DEF Sol
  <2>2. (\A i \in 1 .. Len(solf) : solf[i] \in Sol) /\ (\A j \in 1 .. Len(solb) : solb[j] \in Sol)
        /\ \A k \in DOMAIN out : out[k] \in Sol
    BY <1>3, <1>4
  <2>. QED  BY <2>1, <2>2
\* solutions behind the two fronts come later than those at them
<1>6. /\ \A i \in 1 .. Len(solf) : i > ci => f.t < solf[i].t
      /\ \A j \in 1 .. Len(solb) : j < cj => b.t < solb[j].t
  BY <1>4 DEF Rising, Falling
<1>7. /\ \A i \in 1 .. ci - 1, j \in 1 .. cj : solf[i].t < solb[j].t
      /\ \A i \in ci .. Len(solf), j \in cj + 1 .. Len(solb) : solb[j].t < solf[i].t
      /\ \A k \in DOMAIN out : /\ \A i \in ci .. Len(solf) : out[k].t < solf[i].t
                               /\ \A j \in 1 .. cj : out[k].t < solb[j].t
                               /\ out[k].t \notin unsmoothed
      /\ \A t \in unsmoothed : /\ t \in RoverTimes /\ t \in Int
                               /\ \A i \in ci .. Len(solf) : t < solf[i].t
                               /\ \A j \in 1 .. cj : t < solb[j].t
  BY <1>3, PostAssumption DEF Fronts
<1>8. f \in Sol /\ b \in Sol /\ f.t \in RoverTimes /\ b.t \in RoverTimes /\ f.t \in Int /\ b.t \in Int /\ Tol \in Nat
      /\ (\A k \in DOMAIN out : out[k].t < f.t /\ out[k].t < b.t)
      /\ (\A t \in unsmoothed : t < f.t /\ t < b.t)
  <2>1. ci \in ci .. Len(solf) /\ cj \in 1 .. cj
    BY <1>4
  <2>. QED  BY <1>4, <1>5, <1>7, <2>1, PostAssumption
<1>9. tt \in Int /\ (tt < -Tol => f.t < b.t) /\ (tt > Tol => b.t < f.t) /\ (~(tt < -Tol) /\ ~(tt > Tol) => f.t = b.t)
  <2>1. (f.t < b.t => b.t - f.t > Tol) /\ (b.t < f.t => f.t - b.t > Tol)
    BY <1>8, PostAssumption
  <2>. QED  BY <1>8, <2>1
<1>10. /\ s \in Sol /\ (s.t = f.t \/ s.t = b.t)
       /\ tt < -Tol => s = f
       /\ tt > Tol => s = b
       /\ ~(tt < -Tol) /\ ~(tt > Tol) => Better(s, f, b)
  <2>1. /\ f.stat \in {NONE, FIX, FLOAT} /\ b.stat \in {NONE, FIX, FLOAT}
        /\ f = [t |-> f.t, stat |-> f.stat] /\ b = [t |-> b.t, stat |-> b.stat]
    BY <1>8 DEF Sol
  <2>. HIDE DEF f, b, tt
  <2>2. ~(tt < -Tol /\ tt > Tol)
    BY <1>8, <1>9
  <2>3. CASE tt < -Tol
    BY <1>2, <1>8, <2>2, <2>3 DEF Handed, tt
  <2>4. CASE tt > Tol
    BY <1>2, <1>8, <2>2, <2>4 DEF Handed, tt
  <2>5. CASE ~(tt < -Tol) /\ ~(tt > Tol)
    <3>1. \A x, y \in {NONE, FIX, FLOAT} : Min({x, y}) = IF x <= y THEN x ELSE y
      <4>1. SUFFICES ASSUME NEW x \in {NONE, FIX, FLOAT}, NEW y \in {NONE, FIX, FLOAT}
                     PROVE  Min({x, y}) = IF x <= y THEN x ELSE y
        OBVIOUS
      <4>2. x \in Int /\ y \in Int
        BY DEF NONE, FIX, FLOAT
      <4>3. IsFiniteSet({x, y}) /\ {x, y} # {} /\ {x, y} \subseteq Int
        <5>1. IsFiniteSet({x}) /\ IsFiniteSet({y}) /\ {x, y} = {x} \cup {y}
          BY FS_Singleton
        <5>2. IsFiniteSet({x} \cup {y})
          BY <5>1, FS_Union
        <5>. QED  BY <4>2, <5>1, <5>2
      <4>4. Min({x, y}) \in {x, y} /\ \A z \in {x, y} : Min({x, y}) <= z
        BY <4>3, MinOf
      <4>. QED  BY <4>2, <4>4
    <3>2. CASE f.stat < b.stat
      <4>1. s = f
        BY <1>2, <2>5, <3>2 DEF Handed, tt
      <4>2. s.stat = Min({f.stat, b.stat})
        BY <2>1, <3>1, <3>2, <4>1 DEF NONE, FIX, FLOAT
      <4>. QED  BY <1>8, <2>5, <4>1, <4>2 DEF Better
    <3>3. CASE f.stat > b.stat
      <4>1. s = b
        BY <1>2, <2>1, <2>5, <3>3 DEF Handed, tt, NONE, FIX, FLOAT
      <4>2. s.stat = Min({f.stat, b.stat})
        BY <2>1, <3>1, <3>3, <4>1 DEF NONE, FIX, FLOAT
      <4>. QED  BY <1>8, <2>5, <4>1, <4>2 DEF Better
    <3>4. CASE f.stat = b.stat
      <4>1. s = f \/ (f.stat = FIX /\ ~solstatic /\ s = [t |-> f.t, stat |-> FLOAT])
        BY <1>2, <2>1, <2>5, <3>4 DEF Handed, tt, NONE, FIX, FLOAT
      <4>2. CASE s = f
        BY <1>8, <2>1, <2>5, <3>1, <3>4, <4>2 DEF Better, NONE, FIX, FLOAT
      <4>3. CASE f.stat = FIX /\ ~solstatic /\ s = [t |-> f.t, stat |-> FLOAT]
        BY <1>8, <2>1, <2>5, <3>4, <4>3 DEF Better, Sol, NONE, FIX, FLOAT
      <4>. QED  BY <4>1, <4>2, <4>3
    <3>. QED  BY <2>1, <3>2, <3>3, <3>4 DEF NONE, FIX, FLOAT
  <2>. QED  BY <2>3, <2>4, <2>5
<1>16. (\A k \in DOMAIN out : out[k].t < s.t) /\ s.t \notin unsmoothed /\ s.t \in RoverTimes /\ s.t \in Int
  <2>. HIDE DEF f, b, tt
  <2>1. CASE s.t = f.t
    BY <1>8, <2>1
  <2>2. CASE s.t = b.t
    BY <1>8, <2>2
  <2>. QED  BY <1>10, <2>1, <2>2
<1>11. /\ out' \in Seq(Sol) /\ Rising(out')
       /\ \A k \in DOMAIN out' : (out'[k].t = s.t /\ unsmoothed' = unsmoothed) \/ (k \in DOMAIN out /\ out'[k] = out[k])
       /\ \A k \in DOMAIN out : k \in DOMAIN out' /\ out'[k] = out[k]
       /\ \/ Alike(f, b) /\ unsmoothed' = unsmoothed \cup {s.t}
          \/ unsmoothed' = unsmoothed /\ \E k \in DOMAIN out' : out'[k] = s
       /\ ChosenOK'
  <2>. HIDE DEF f, b, tt
  <2>1. CASE Alike(f, b) /\ unsmoothed' = unsmoothed \cup {s.t} /\ UNCHANGED <<out, sol>>
    <3>1. ChosenOK' = ChosenOK
      BY <1>1, <2>1 DEF ChosenOK
    <3>. QED  BY <1>3, <2>1, <3>1
  <2>2. CASE out' = Append(out, s) /\ sol' = (IF solstatic THEN Chosen(s) ELSE sol) /\ UNCHANGED unsmoothed
    <3>1. \A s1 : s1 = Append(out, s) =>
            /\ s1 \in Seq(Sol) /\ Rising(s1)
            /\ \A k \in DOMAIN s1 : (k = Len(out) + 1 /\ s1[k] = s) \/ (k \in DOMAIN out /\ s1[k] = out[k])
            /\ \A k \in DOMAIN out : k \in DOMAIN s1 /\ s1[k] = out[k]
            /\ Len(out) + 1 \in DOMAIN s1 /\ s1[Len(out) + 1] = s
      <4>1. s \in Sol /\ out \in Seq(Sol) /\ Rising(out) /\ \A k \in DOMAIN out : out[k].t < s.t
        BY <1>3, <1>10, <1>16
      <4>2. SUFFICES ASSUME NEW s1, s1 = Append(out, s)
                     PROVE  /\ s1 \in Seq(Sol) /\ Rising(s1)
                            /\ \A k \in DOMAIN s1 : (k = Len(out) + 1 /\ s1[k] = s) \/ (k \in DOMAIN out /\ s1[k] = out[k])
                            /\ \A k \in DOMAIN out : k \in DOMAIN s1 /\ s1[k] = out[k]
                            /\ Len(out) + 1 \in DOMAIN s1 /\ s1[Len(out) + 1] = s
        OBVIOUS
      <4>3. (\A k \in DOMAIN out : out[k].t < s.t) /\ Rising(out) => Rising(s1)
        BY <4>1, <4>2, Written
      <4>. QED  BY <4>1, <4>2, <4>3, Written
    <3>2. ChosenOK'
      <4>1. CASE solstatic
        BY <1>1, <1>3, <1>10, <1>16, <2>2, <4>1, ChosenKept
      <4>2. CASE ~solstatic
        BY <1>1, <1>3, <2>2, <4>2 DEF ChosenOK
      <4>. QED  BY <4>1, <4>2
    <3>. QED  BY <2>2, <3>1, <3>2
  <2>. QED  BY <1>2, <2>1, <2>2
<1>. HIDE DEF f, b, tt
<1>12. Fronts'
  <2>1. ci' \in 1 .. Len(solf) + 1 /\ cj' \in 0 .. Len(solb) /\ ci' >= ci /\ cj' <= cj
    BY <1>1, <1>4
  <2>2. ASSUME NEW i \in 1 .. ci' - 1, NEW j \in 1 .. cj' PROVE solf[i].t < solb[j].t
    <3>1. j \in 1 .. cj /\ j \in 1 .. Len(solb)
      BY <1>4, <2>1
    <3>2. CASE i <= ci - 1
      BY <1>4, <1>7, <3>1, <3>2
    <3>3. CASE i > ci - 1
      <4>1. i = ci /\ ~(tt > Tol)
        BY <1>1, <1>4, <3>3
      <4>2. solf[i].t = f.t /\ (j = cj => solb[j].t = b.t)
        BY <4>1 DEF f, b
      <4>3. CASE tt < -Tol
        BY <1>5, <1>6, <1>8, <1>9, <3>1, <4>2, <4>3, <1>4
      <4>4. CASE ~(tt < -Tol)
        <5>1. j < cj /\ f.t = b.t
          BY <1>1, <1>4, <1>9, <4>1, <4>4
        <5>. QED  BY <1>5, <1>6, <1>8, <3>1, <4>2, <5>1
      <4>. QED  BY <4>3, <4>4
    <3>. QED  BY <1>4, <2>1, <3>2, <3>3
  <2>3. ASSUME NEW i \in ci' .. Len(solf), NEW j \in cj' + 1 .. Len(solb) PROVE solb[j].t < solf[i].t
    <3>1. i \in ci .. Len(solf) /\ i \in 1 .. Len(solf)
      BY <1>4, <2>1
    <3>2. CASE j >= cj + 1
      BY <1>4, <1>7, <2>1, <3>1, <3>2
    <3>3. CASE j < cj + 1
      <4>1. j = cj /\ ~(tt < -Tol)
        BY <1>1, <1>4, <3>3
      <4>2. solb[j].t = b.t /\ (i = ci => solf[i].t = f.t)
        BY <4>1 DEF f, b
      <4>3. CASE tt > Tol
        BY <1>5, <1>6, <1>8, <1>9, <3>1, <4>2, <4>3, <1>4
      <4>4. CASE ~(tt > Tol)
        <5>1. i > ci /\ f.t = b.t
          BY <1>1, <1>4, <1>9, <4>1, <4>4
        <5>. QED  BY <1>5, <1>6, <1>8, <3>1, <4>2, <5>1
      <4>. QED  BY <4>3, <4>4
    <3>. QED  BY <1>4, <2>1, <3>2, <3>3
  <2>4. /\ \A i \in ci' .. Len(solf) : s.t < solf[i].t
        /\ \A j \in 1 .. cj' : s.t < solb[j].t
    <3>1. ASSUME NEW i \in ci' .. Len(solf) PROVE s.t < solf[i].t
      <4>1. i \in 1 .. Len(solf) /\ i >= ci
        BY <1>4, <2>1
      <4>2. (i = ci => solf[i].t = f.t /\ tt > Tol) /\ (i > ci => f.t < solf[i].t)
        BY <1>1, <1>4, <1>6, <4>1 DEF f
      <4>3. solf[i].t \in Int
        BY <1>5, <4>1
      <4>4. i = ci \/ i > ci
        BY <1>4, <4>1
      <4>5. tt > Tol => b.t < f.t /\ s.t = b.t
        BY <1>9, <1>10
      <4>6. ~(tt > Tol) => s.t = f.t
        BY <1>9, <1>10
      <4>. QED  BY <1>8, <4>2, <4>3, <4>4, <4>5, <4>6
    <3>2. ASSUME NEW j \in 1 .. cj' PROVE s.t < solb[j].t
      <4>1. j \in 1 .. Len(solb) /\ j <= cj
        BY <1>4, <2>1
      <4>2. (j = cj => solb[j].t = b.t /\ tt < -Tol) /\ (j < cj => b.t < solb[j].t)
        BY <1>1, <1>4, <1>6, <4>1 DEF b
      <4>3. solb[j].t \in Int
        BY <1>5, <4>1
      <4>4. j = cj \/ j < cj
        BY <1>4, <4>1
      <4>5. tt < -Tol => f.t < b.t /\ s.t = f.t
        BY <1>9, <1>10
      <4>6. ~(tt < -Tol) => s.t = b.t
        BY <1>9, <1>10
      <4>. QED  BY <1>8, <4>2, <4>3, <4>4, <4>5, <4>6
    <3>. QED  BY <3>1, <3>2
  <2>5. ASSUME NEW k \in DOMAIN out'
        PROVE  /\ \A i \in ci' .. Len(solf) : out'[k].t < solf[i].t
               /\ \A j \in 1 .. cj' : out'[k].t < solb[j].t
               /\ out'[k].t \notin unsmoothed'
    <3>1. CASE out'[k].t = s.t /\ unsmoothed' = unsmoothed
      BY <1>16, <2>4, <3>1
    <3>2. CASE k \in DOMAIN out /\ out'[k] = out[k]
      <4>1. (\A i \in ci' .. Len(solf) : i \in ci .. Len(solf)) /\ (\A j \in 1 .. cj' : j \in 1 .. cj)
        BY <1>4, <2>1
      <4>2. out[k].t < s.t /\ out[k].t \in Int
        BY <1>5, <1>16, <3>2
      <4>3. out[k].t # s.t /\ unsmoothed' \subseteq unsmoothed \cup {s.t}
        BY <1>11, <1>16, <4>2
      <4>. QED  BY <1>7, <3>2, <4>1, <4>3
    <3>. QED  BY <1>11, <3>1, <3>2
  <2>7. ASSUME NEW t \in unsmoothed'
        PROVE  /\ t \in RoverTimes
               /\ \A i \in ci' .. Len(solf) : t < solf[i].t
               /\ \A j \in 1 .. cj' : t < solb[j].t
    <3>1. CASE t = s.t
      BY <1>16, <2>4, <3>1
    <3>2. CASE t \in unsmoothed
      <4>1. (\A i \in ci' .. Len(solf) : i \in ci .. Len(solf)) /\ (\A j \in 1 .. cj' : j \in 1 .. cj)
        BY <1>4, <2>1
      <4>. QED  BY <1>7, <3>2, <4>1
    <3>. QED  BY <1>11, <3>1, <3>2
  <2>6. solf' = solf /\ solb' = solb
    BY <1>1
  <2>. QED  BY <2>1, <2>2, <2>3, <2>5, <2>6, <2>7 DEF Fronts
<1>13. Merged'
  <2>1. ci' \in 1 .. Len(solf) + 1 /\ cj' \in 0 .. Len(solb) /\ ci' <= ci + 1 /\ cj' >= cj - 1
    BY <1>1, <1>4
  <2>2. /\ \A i \in 1 .. ci - 1, j \in cj + 1 .. Len(solb) : solf[i].t = solb[j].t =>
             \/ solf[i].t \in unsmoothed /\ solf[i].stat = solb[j].stat
             \/ \E k \in DOMAIN out : out[k].t = solf[i].t /\ Better(out[k], solf[i], solb[j])
        /\ \A i \in 1 .. ci - 1 : (\A j \in DOMAIN solb : solb[j].t # solf[i].t) =>
             \E k \in DOMAIN out : out[k].t = solf[i].t /\ out[k].stat = solf[i].stat
        /\ \A j \in cj + 1 .. Len(solb) : (\A i \in DOMAIN solf : solf[i].t # solb[j].t) =>
             \E k \in DOMAIN out : out[k].t = solb[j].t /\ out[k].stat = solb[j].stat
    BY <1>3 DEF Merged
  <2>9. /\ \A i \in 1 .. ci' - 1 : i \in 1 .. Len(solf) /\ (i \in 1 .. ci - 1 \/ i = ci)
        /\ \A j \in cj' + 1 .. Len(solb) : j \in 1 .. Len(solb) /\ (j \in cj + 1 .. Len(solb) \/ j = cj)
    <3>1. ci' \in Int /\ cj' \in Int /\ cj' >= 0
      BY <1>4, <2>1
    <3>2. \A i \in 1 .. ci' - 1 : i \in 1 .. Len(solf) /\ (i \in 1 .. ci - 1 \/ i = ci)
      BY <1>4, <2>1, <3>1, BehindUp
    <3>3. \A j \in cj' + 1 .. Len(solb) : j \in 1 .. Len(solb) /\ (j \in cj + 1 .. Len(solb) \/ j = cj)
      BY <1>4, <2>1, <3>1, BehindDown
    <3>. QED  BY <3>2, <3>3
  <2>7. unsmoothed \subseteq unsmoothed'
    BY <1>11
  <2>3. ASSUME NEW i \in 1 .. ci' - 1, NEW j \in cj' + 1 .. Len(solb), solf[i].t = solb[j].t
        PROVE  \/ solf[i].t \in unsmoothed' /\ solf[i].stat = solb[j].stat
               \/ \E k \in DOMAIN out' : out'[k].t = solf[i].t /\ Better(out'[k], solf[i], solb[j])
    <3>1. i \in 1 .. Len(solf) /\ j \in 1 .. Len(solb) /\ (i \in 1 .. ci - 1 \/ i = ci)
          /\ (j \in cj + 1 .. Len(solb) \/ j = cj)
      BY <2>9
    <3>2. solf[i].t \in Int /\ solb[j].t \in Int /\ ci \in ci .. Len(solf) /\ cj \in 1 .. cj
      BY <1>4, <1>5, <3>1
    <3>3. CASE i \in 1 .. ci - 1 /\ j \in cj + 1 .. Len(solb)
      BY <1>11, <2>2, <2>3, <2>7, <3>3
    <3>4. CASE i \in 1 .. ci - 1 /\ j = cj
      BY <1>7, <2>3, <3>2, <3>4
    <3>5. CASE i = ci /\ j \in cj + 1 .. Len(solb)
      BY <1>7, <2>3, <3>2, <3>5
    <3>6. CASE i = ci /\ j = cj
      <4>1. solf[i] = f /\ solb[j] = b
        BY <3>6 DEF f, b
      <4>2. ~(tt < -Tol) /\ ~(tt > Tol)
        BY <1>8, <1>9, <2>3, <4>1
      <4>3. Better(s, f, b) /\ f.t = b.t /\ s.t = f.t
        BY <1>9, <1>10, <4>2
      <4>4. CASE Alike(f, b) /\ unsmoothed' = unsmoothed \cup {s.t}
        BY <4>1, <4>3, <4>4 DEF Alike
      <4>5. CASE \E k \in DOMAIN out' : out'[k] = s
        BY <4>1, <4>3, <4>5
      <4>. QED  BY <1>11, <4>4, <4>5
    <3>. QED  BY <3>1, <3>3, <3>4, <3>5, <3>6
  <2>4. ASSUME NEW i \in 1 .. ci' - 1, \A j \in DOMAIN solb : solb[j].t # solf[i].t
        PROVE  \E k \in DOMAIN out' : out'[k].t = solf[i].t /\ out'[k].stat = solf[i].stat
    <3>1. CASE i \in 1 .. ci - 1
      BY <1>11, <2>2, <2>4, <3>1
    <3>2. CASE i = ci
      <4>1. solf[i] = f /\ b.t # f.t /\ ~(tt > Tol)
        BY <1>1, <1>4, <2>4, <3>2 DEF f, b
      <4>2. tt < -Tol /\ ~Alike(f, b)
        BY <1>8, <1>9, <4>1 DEF Alike, tt
      <4>3. s = f /\ \E k \in DOMAIN out' : out'[k] = s
        BY <1>10, <1>11, <4>2
      <4>. QED  BY <4>1, <4>3
    <3>. QED  BY <2>9, <3>1, <3>2
  <2>5. ASSUME NEW j \in cj' + 1 .. Len(solb), \A i \in DOMAIN solf : solf[i].t # solb[j].t
        PROVE  \E k \in DOMAIN out' : out'[k].t = solb[j].t /\ out'[k].stat = solb[j].stat
    <3>1. CASE j \in cj + 1 .. Len(solb)
      BY <1>11, <2>2, <2>5, <3>1
    <3>2. CASE j = cj
      <4>1. solb[j] = b /\ b.t # f.t /\ ~(tt < -Tol)
        BY <1>1, <1>4, <2>5, <3>2 DEF f, b
      <4>2. tt > Tol /\ ~Alike(f, b)
        BY <1>8, <1>9, <4>1 DEF Alike, tt
      <4>3. s = b /\ \E k \in DOMAIN out' : out'[k] = s
        BY <1>10, <1>11, <4>2
      <4>. QED  BY <4>1, <4>3
    <3>. QED  BY <2>9, <3>1, <3>2
  <2>6. solf' = solf /\ solb' = solb
    BY <1>1
  <2>8. \A x, y, z : Better(x, y, z)' = Better(x, y, z)
    BY <1>1 DEF Better
  <2>. QED  BY <2>3, <2>4, <2>5, <2>6, <2>8 DEF Merged, Better
<1>14. SolsOK' /\ DataOK'
  <2>1. pass' = "combine" /\ solf' = solf /\ solb' = solb /\ data' = data
    BY <1>1
  <2>. QED  BY <1>3, <1>4, <2>1 DEF SolsOK, DataOK, Rising, Falling
<1>15. times' = <<>> /\ times' \in Seq(RoverTimes) /\ intpref' \in BOOLEAN /\ solstatic' \in BOOLEAN /\ pass' = "combine"
  BY <1>1, <1>3
<1>. QED  BY <1>11, <1>12, <1>13, <1>14, <1>15 DEF PostStrong, Rising

LEMMA StrongHolds == PostSpec => []PostStrong
<1>1. PostInit => PostStrong
  <2>1. SUFFICES ASSUME PostInit PROVE PostStrong
    OBVIOUS
  <2>2. DataOK
    BY <2>1 DEF PostInit, DataOK, All
  <2>3. /\ times = <<>> /\ solf = <<>> /\ solb = <<>> /\ out = <<>> /\ ci = 1 /\ pass = "forward"
        /\ iobsu = 1 /\ iobsr = 1 /\ intpref \in BOOLEAN /\ solstatic \in BOOLEAN /\ sol = <<>> /\ unsmoothed = {}
    BY <2>1 DEF PostInit
  <2>. QED  BY <2>2, <2>3 DEF PostStrong, ForwardOK, SolsOK, Rising, Falling
<1>2. PostStrong /\ [PostNext]_postVars => PostStrong'
  <2>1. SUFFICES ASSUME PostStrong, [PostNext]_postVars PROVE PostStrong'
    OBVIOUS
  <2>2. CASE PostNext
    BY <2>1, <2>2, ForwardKeeps, TurnBackKeeps, BackwardKeeps, CombineKeeps, CombresKeeps, CombresEndKeeps, ExecsesKeeps
       DEF PostNext
  <2>3. CASE UNCHANGED postVars
    <3>1. NObs' = NObs /\ Bases' = Bases /\ DataOK' = DataOK
      BY <2>3 DEF postVars, NObs, Bases, DataOK
    <3>2. (\A b, q : PlacesOf(b, q)' = PlacesOf(b, q)) /\ (\A t : BaseOf(t)' = BaseOf(t)) /\ InOrder(times)' = InOrder(times)
      BY <2>3, <3>1 DEF postVars, PlacesOf, BaseOf, InOrder
    <3>3. ForwardOK' = ForwardOK /\ BackwardOK' = BackwardOK
      BY <2>3, <3>1, <3>2 DEF postVars, ForwardOK, BackwardOK, Once, RightObs, TheBase, FirstOne, LastOne
    <3>4. SolsOK' = SolsOK /\ Fronts' = Fronts /\ Merged' = Merged /\ ChosenOK' = ChosenOK /\ Rising(out)' = Rising(out)
      BY <2>3 DEF postVars, SolsOK, Fronts, Merged, ChosenOK, Better, Rising, Falling
    <3>. QED  BY <2>1, <2>3, <3>1, <3>3, <3>4 DEF postVars, PostStrong
  <2>. QED  BY <2>1, <2>2, <2>3
<1>. QED  BY <1>1, <1>2, PTL DEF PostSpec

\* A list that has every rover epoch once is as long as there are epochs.
LEMMA AllGiven ==
  ASSUME NEW s \in Seq(RoverTimes), Once(s), \A c \in RoverTimes : \E l \in 1 .. Len(s) : s[l] = c
  PROVE  Len(s) = Cardinality(RoverTimes)
<1>1. Len(s) \in Nat /\ s \in [1 .. Len(s) -> RoverTimes] /\ DOMAIN s = 1 .. Len(s)
  OBVIOUS
<1>. DEFINE n == Len(s)  S == 1 .. n
<1>2. IsFiniteSet(S) /\ Cardinality(S) = n
  <2>1. n \in Int /\ 1 \in Int
    BY <1>1
  <2>. HIDE DEF n
  <2>2. IsFiniteSet(1 .. n) /\ Cardinality(1 .. n) = IF 1 > n THEN 0 ELSE n - 1 + 1
    BY <2>1, FS_Interval
  <2>3. (IF 1 > n THEN 0 ELSE n - 1 + 1) = n
    BY <1>1 DEF n
  <2>. QED  BY <2>2, <2>3
<1>3. s \in Bijection(S, RoverTimes)
  <2>1. \A k, l \in S : s[k] = s[l] => k = l
    BY <1>1 DEF Once
  <2>. QED  BY <1>1, <2>1 DEF Bijection, Injection, Surjection, IsInjective
<1>. QED  BY <1>2, <1>3, FS_Bijection DEF ExistsBijection

LEMMA RightGiven == PostStrong => GotRight
<1>1. SUFFICES ASSUME PostStrong PROVE GotRight
  OBVIOUS
<1>2. DataOK /\ times \in Seq(RoverTimes) /\ (pass = "forward" => ForwardOK) /\ (pass = "backward" => BackwardOK)
  BY <1>1 DEF PostStrong
<1>3. NObs \in Nat /\ TimesOf(1) = RoverTimes /\ 1 \in {1, 2}
  BY <1>2, Array
<1>4. ASSUME NEW c \in RoverTimes
      PROVE  FirstOne(c, 1) \in 1 .. NObs /\ LastOne(c, 1) \in 1 .. NObs
  BY <1>2, <1>3, EpochBlocks
<1>5. ASSUME \A c \in RoverTimes : times # <<>> /\ IF pass = "forward" THEN c <= times[Len(times)] ELSE c >= times[Len(times)],
             pass \in {"forward", "backward"}
      PROVE  Len(times) = Cardinality(RoverTimes)
  <2>1. CASE times = <<>>
    <3>1. RoverTimes = {}
      BY <1>5, <2>1
    <3>. QED  BY <2>1, <3>1, FS_EmptySet
  <2>2. CASE times # <<>>
    <3>1. InOrder(times) /\ Once(times)
      BY <1>2, <1>5, <2>2 DEF ForwardOK, BackwardOK
    <3>2. Len(times) \in DOMAIN times
      BY <1>2, <2>2
    <3>3. \A c \in RoverTimes : \E l \in 1 .. Len(times) : times[l] = c
      BY <1>5, <3>1, <3>2 DEF InOrder
    <3>. QED  BY <1>2, <3>1, <3>3, AllGiven
  <2>. QED  BY <2>1, <2>2
<1>6. ASSUME pass = "forward" /\ StartF(iobsu, 1) > NObs
      PROVE  Len(times) = Cardinality(RoverTimes)
  <2>. DEFINE last == times[Len(times)]
  <2>1. /\ iobsu \in 1 .. NObs + 1
        /\ \A c \in RoverTimes : /\ iobsu <= FirstOne(c, 1) \/ iobsu > LastOne(c, 1)
                                 /\ FirstOne(c, 1) < iobsu <=> times # <<>> /\ c <= last
    BY <1>2, <1>6, RoverAheadF
  <2>. HIDE DEF last
  <2>2. \/ \E v \in TimesOf(1) : StartF(iobsu, 1) = FirstOne(v, 1)
        \/ \A c \in TimesOf(1) : FirstOne(c, 1) < iobsu
    BY <1>2, <1>3, <2>1, StartsF
  <2>3. \A c \in RoverTimes : FirstOne(c, 1) < iobsu
    BY <1>3, <1>4, <1>6, <2>2
  <2>4. \A c \in RoverTimes : times # <<>> /\ c <= times[Len(times)]
    BY <2>1, <2>3 DEF last
  <2>. QED  BY <1>5, <1>6, <2>4
<1>7. ASSUME pass = "backward" /\ StartB(iobsu, 1) < 1
      PROVE  Len(times) = Cardinality(RoverTimes)
  <2>. DEFINE last == times[Len(times)]
  <2>1. /\ iobsu \in 0 .. NObs
        /\ \A c \in RoverTimes : /\ iobsu >= LastOne(c, 1) \/ iobsu < FirstOne(c, 1)
                                 /\ LastOne(c, 1) > iobsu <=> times # <<>> /\ c >= last
    BY <1>2, <1>7, RoverAheadB
  <2>. HIDE DEF last
  <2>2. \/ \E v \in TimesOf(1) : StartB(iobsu, 1) = LastOne(v, 1)
        \/ \A c \in TimesOf(1) : LastOne(c, 1) > iobsu
    BY <1>2, <1>3, <2>1, StartsB
  <2>3. \A c \in RoverTimes : LastOne(c, 1) > iobsu
    BY <1>3, <1>4, <1>7, <2>2
  <2>4. \A c \in RoverTimes : times # <<>> /\ c >= times[Len(times)]
    BY <2>1, <2>3 DEF last
  <2>. QED  BY <1>5, <1>7, <2>4
<1>8. pass \in {"forward", "backward"} /\ times # <<>> =>
        LET t == times[Len(times)] IN
        InOrder(times) /\ got = Whole(t, 1) \o IF BaseOf(t) = {} THEN <<>> ELSE Whole(CHOOSE b \in BaseOf(t) : TRUE, 2)
  BY <1>2 DEF ForwardOK, BackwardOK, RightObs, TheBase
<1>. QED  BY <1>6, <1>7, <1>8 DEF GotRight

\* In a list in the order of time, what is at a time is the only one at it.
LEMMA OnlyOne ==
  ASSUME NEW s \in Seq(Sol), Rising(s) \/ Falling(s), NEW i \in DOMAIN s
  PROVE  Has(s, s[i].t) /\ Of(s, s[i].t) = s[i].stat
<1>. DEFINE k == CHOOSE k \in DOMAIN s : s[k].t = s[i].t
<1>1. k \in DOMAIN s /\ s[k].t = s[i].t
  OBVIOUS
<1>2. \A j \in DOMAIN s : s[j].t \in Int /\ j \in Int
  <2>1. \A j \in DOMAIN s : s[j] \in Sol /\ j \in Int
    OBVIOUS
  <2>2. \A q \in Sol : q.t \in Int
    BY PostAssumption DEF Sol
  <2>. QED  BY <2>1, <2>2
<1>. HIDE DEF k
<1>3. k = i
  <2>1. ~(k < i) /\ ~(i < k)
    BY <1>1, <1>2 DEF Rising, Falling
  <2>. QED  BY <1>1, <1>2, <2>1
<1>. QED  BY <1>3 DEF Has, Of, k

LEMMA RightOut == PostStrong => OutRight
<1>1. SUFFICES ASSUME PostStrong PROVE OutRight
  OBVIOUS
<1>2. out \in Seq(Sol) /\ Rising(out) /\ solf \in Seq(Sol) /\ Rising(solf) /\ solb \in Seq(Sol) /\ Falling(solb)
  BY <1>1 DEF PostStrong, SolsOK
<1>3. \A k \in 1 .. Len(out) - 1 : out[k].t < out[k + 1].t
  BY <1>2 DEF Rising
<1>4. ASSUME pass = "done", NEW t \in RoverTimes
      PROVE  /\ Has(solf, t) /\ Has(solb, t) =>
                  /\ Has(out, t) <=> t \notin unsmoothed
                  /\ t \in unsmoothed => Of(solf, t) = Of(solb, t)
                  /\ Has(out, t) => \/ Of(out, t) = Min({Of(solf, t), Of(solb, t)})
                                    \/ Of(out, t) = FLOAT /\ {Of(solf, t), Of(solb, t)} = {FIX} /\ ~solstatic
             /\ \A one \in {solf, solb} : LET other == IF one = solf THEN solb ELSE solf IN
                  Has(one, t) /\ ~Has(other, t) /\ (\E k \in DOMAIN other : other[k].t > t)
                    => Has(out, t) /\ Of(out, t) = Of(one, t)
  <2>1. Fronts /\ Merged /\ (ci > Len(solf) \/ cj < 1)
    BY <1>1, <1>4 DEF PostStrong
  <2>2. /\ DOMAIN solf = 1 .. Len(solf) /\ DOMAIN solb = 1 .. Len(solb) /\ Len(solf) \in Nat /\ Len(solb) \in Nat
        /\ ci \in 1 .. Len(solf) + 1 /\ cj \in 0 .. Len(solb) /\ t \in Int
    <3>1. t \in Int
      BY PostAssumption
    <3>. QED  BY <1>2, <2>1, <3>1 DEF Fronts
  <2>3. (\A i \in DOMAIN solf : solf[i].t \in Int) /\ (\A j \in DOMAIN solb : solb[j].t \in Int)
    <3>1. \A q \in Sol : q.t \in Int
      BY PostAssumption DEF Sol
    <3>. QED  BY <1>2, <3>1
  <2>4. /\ \A i \in 1 .. ci - 1, j \in 1 .. cj : solf[i].t < solb[j].t
        /\ \A i \in ci .. Len(solf), j \in cj + 1 .. Len(solb) : solb[j].t < solf[i].t
    BY <2>1 DEF Fronts
  <2>5. ASSUME NEW i \in DOMAIN solf, \E j \in DOMAIN solb : solb[j].t >= solf[i].t PROVE i \in 1 .. ci - 1
    <3>1. PICK j \in DOMAIN solb : solb[j].t >= solf[i].t
      BY <2>5
    <3>2. CASE ci > Len(solf)
      BY <2>2, <3>2
    <3>3. CASE cj < 1
      <4>1. j \in cj + 1 .. Len(solb)
        BY <2>2, <3>3
      <4>2. ~(i \in ci .. Len(solf))
        BY <2>3, <2>4, <3>1, <4>1
      <4>. QED  BY <2>2, <4>2
    <3>. QED  BY <2>1, <3>2, <3>3
  <2>6. ASSUME NEW j \in DOMAIN solb, \E i \in DOMAIN solf : solf[i].t >= solb[j].t PROVE j \in cj + 1 .. Len(solb)
    <3>1. PICK i \in DOMAIN solf : solf[i].t >= solb[j].t
      BY <2>6
    <3>2. CASE cj < 1
      BY <2>2, <3>2
    <3>3. CASE ci > Len(solf)
      <4>1. i \in 1 .. ci - 1
        BY <2>2, <3>3
      <4>2. ~(j \in 1 .. cj)
        BY <2>3, <2>4, <3>1, <4>1
      <4>. QED  BY <2>2, <4>2
    <3>. QED  BY <2>1, <3>2, <3>3
  <2>7. ASSUME Has(solf, t), Has(solb, t)
        PROVE  /\ Has(out, t) <=> t \notin unsmoothed
               /\ t \in unsmoothed => Of(solf, t) = Of(solb, t)
               /\ Has(out, t) => \/ Of(out, t) = Min({Of(solf, t), Of(solb, t)})
                                 \/ Of(out, t) = FLOAT /\ {Of(solf, t), Of(solb, t)} = {FIX} /\ ~solstatic
    <3>1. PICK i \in DOMAIN solf : solf[i].t = t
      BY <2>7 DEF Has
    <3>2. PICK j \in DOMAIN solb : solb[j].t = t
      BY <2>7 DEF Has
    <3>3. Of(solf, t) = solf[i].stat /\ Of(solb, t) = solb[j].stat
      BY <1>2, <3>1, <3>2, OnlyOne
    <3>4. i \in 1 .. ci - 1 /\ j \in cj + 1 .. Len(solb)
      <4>1. solb[j].t >= solf[i].t /\ solf[i].t >= solb[j].t
        BY <2>2, <3>1, <3>2
      <4>. QED  BY <2>5, <2>6, <4>1
    <3>5. Has(out, t) => t \notin unsmoothed
      BY <2>1 DEF Has, Fronts
    <3>6. CASE t \in unsmoothed /\ solf[i].stat = solb[j].stat
      BY <3>3, <3>5, <3>6
    <3>7. CASE \E k \in DOMAIN out : out[k].t = solf[i].t /\ Better(out[k], solf[i], solb[j])
      <4>1. PICK k \in DOMAIN out : out[k].t = solf[i].t /\ Better(out[k], solf[i], solb[j])
        BY <3>7
      <4>2. Has(out, t) /\ Of(out, t) = out[k].stat
        BY <1>2, <3>1, <4>1, OnlyOne
      <4>. QED  BY <3>3, <3>5, <4>1, <4>2 DEF Better
    <3>. QED  BY <2>1, <3>1, <3>2, <3>4, <3>6, <3>7 DEF Merged
  <2>8. ASSUME Has(solf, t), ~Has(solb, t), \E k \in DOMAIN solb : solb[k].t > t
        PROVE  Has(out, t) /\ Of(out, t) = Of(solf, t)
    <3>1. PICK i \in DOMAIN solf : solf[i].t = t
      BY <2>8 DEF Has
    <3>2. Of(solf, t) = solf[i].stat /\ \A j \in DOMAIN solb : solb[j].t # solf[i].t
      BY <1>2, <2>8, <3>1, OnlyOne DEF Has
    <3>3. i \in 1 .. ci - 1
      <4>1. \E j \in DOMAIN solb : solb[j].t >= solf[i].t
        BY <2>2, <2>3, <2>8, <3>1
      <4>. QED  BY <2>5, <4>1
    <3>4. PICK k \in DOMAIN out : out[k].t = solf[i].t /\ out[k].stat = solf[i].stat
      BY <2>1, <3>2, <3>1, <3>3 DEF Merged
    <3>. QED  BY <1>2, <3>1, <3>2, <3>4, OnlyOne
  <2>9. ASSUME Has(solb, t), ~Has(solf, t), \E k \in DOMAIN solf : solf[k].t > t
        PROVE  Has(out, t) /\ Of(out, t) = Of(solb, t)
    <3>1. PICK j \in DOMAIN solb : solb[j].t = t
      BY <2>9 DEF Has
    <3>2. Of(solb, t) = solb[j].stat /\ \A i \in DOMAIN solf : solf[i].t # solb[j].t
      BY <1>2, <2>9, <3>1, OnlyOne DEF Has
    <3>3. j \in cj + 1 .. Len(solb)
      <4>1. \E i \in DOMAIN solf : solf[i].t >= solb[j].t
        BY <2>2, <2>3, <2>9, <3>1
      <4>. QED  BY <2>6, <4>1
    <3>4. PICK k \in DOMAIN out : out[k].t = solb[j].t /\ out[k].stat = solb[j].stat
      BY <2>1, <3>2, <3>1, <3>3 DEF Merged
    <3>. QED  BY <1>2, <3>1, <3>2, <3>4, OnlyOne
  <2>. QED  BY <2>7, <2>8, <2>9
<1>5. ASSUME pass = "done", solstatic, out # <<>>
      PROVE  sol = << [t |-> out[1].t, stat |-> Min({out[k].stat : k \in DOMAIN out})] >>
  <2>. DEFINE S == {out[k].stat : k \in DOMAIN out}
  <2>1. PICK k \in DOMAIN out : /\ sol = << [t |-> out[1].t, stat |-> out[k].stat] >>
                                /\ \A l \in DOMAIN out : out[k].stat <= out[l].stat
    BY <1>1, <1>5 DEF PostStrong, ChosenOK
  <2>2. S \subseteq {NONE, FIX, FLOAT} /\ out[k].stat \in S
    <3>1. \A q \in Sol : q.stat \in {NONE, FIX, FLOAT}
      BY DEF Sol
    <3>. QED  BY <1>2, <3>1
  <2>3. S \subseteq Int /\ IsFiniteSet(S) /\ S # {}
    <3>1. IsFiniteSet({NONE}) /\ IsFiniteSet({FIX}) /\ IsFiniteSet({FLOAT})
      BY FS_Singleton
    <3>2. IsFiniteSet({NONE} \cup {FIX})
      BY <3>1, FS_Union
    <3>3. IsFiniteSet({NONE} \cup {FIX} \cup {FLOAT})
      BY <3>1, <3>2, FS_Union
    <3>4. IsFiniteSet({NONE, FIX, FLOAT})
      <4>1. {NONE, FIX, FLOAT} = {NONE} \cup {FIX} \cup {FLOAT}
        OBVIOUS
      <4>. QED  BY <3>3, <4>1
    <3>5. IsFiniteSet(S)
      <4>. HIDE DEF S
      <4>. QED  BY <2>2, <3>4, FS_Subset
    <3>. QED  BY <2>2, <3>5 DEF NONE, FIX, FLOAT
  <2>4. \A y \in S : out[k].stat <= y
    BY <2>1
  <2>. HIDE DEF S
  <2>5. Min(S) \in S /\ \A y \in S : Min(S) <= y
    BY <2>3, MinOf
  <2>6. Min(S) = out[k].stat
    BY <2>2, <2>3, <2>4, <2>5
  <2>. QED  BY <2>1, <2>6 DEF S
<1>. QED  BY <1>3, <1>4, <1>5 DEF OutRight

\* For any epochs of rover and base that are more than DTTOL apart, rtkpos gets every epoch
\* of the rover whole and once in each pass, in the order of the pass, with the whole of the
\* base's epoch that the direction asks for; combres hands on every epoch before the end of
\* one of the lists, once and in order, at the lower status, unless smoother() fails on two
\* solutions of one status, and a static receiver gets the one of the lowest status (procpos,
\* inputobs, combres).
THEOREM PostInvHolds == PostSpec => []PostInv
<1>1. PostStrong => PostInv
  BY RightGiven, RightOut DEF PostInv
<1>. QED  BY <1>1, StrongHolds, PTL
=============================================================================
