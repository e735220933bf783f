--------------------------- MODULE MessagesProofs ---------------------------
(***************************************************************************)
(* Proofs about the observation messages of a stream server: how an epoch   *)
(* is cut into messages, and what of it arrives at a receiver.              *)
(***************************************************************************)
EXTENDS Messages, FiniteSetTheorems, SequenceTheorems, WellFoundedInduction, TLAPS

-----------------------------------------------------------------------------
(* The messages of one system.                                              *)

Msg == [i : DOMAIN ObsMsgs, from : Nat, to : Nat, sync : BOOLEAN]

\* A smallest member of a nonempty set of naturals
LEMMA Smallest ==
  ASSUME NEW S \in SUBSET Nat, S # {}
  PROVE  \E m \in S : \A y \in S : m <= y
<1>1. PICK m \in S : \A y \in S : ~(<<y, m>> \in OpToRel(<, Nat))
  BY NatLessThanWellFounded, WFMin
<1>2. \A y \in S : ~(y < m)
  BY <1>1 DEF OpToRel
<1>. QED  BY <1>2

LEMMA Times ==
  ASSUME NEW a \in Int, NEW b \in Int, NEW m \in Nat, a <= b
  PROVE  a * m <= b * m /\ a * m \in Int /\ b * m \in Int
<1>1. a * m \in Int /\ b * m \in Int /\ (b - a) * m \in Int
  OBVIOUS
<1>2. (b - a) * m >= 0
  BY b - a >= 0
<1>3. (b - a) * m = b * m - a * m
  OBVIOUS
<1>. QED  BY <1>1, <1>2, <1>3

LEMMA TimesOne ==
  ASSUME NEW a \in Int, NEW m \in Nat
  PROVE  (a + 1) * m = a * m + m /\ (a - 1) * m = a * m - m /\ a * m \in Int
OBVIOUS

LEMMA Quotient ==
  ASSUME NEW a \in Nat, NEW m \in Nat, m > 0
  PROVE  /\ a \div m \in Nat
         /\ (a \div m) * m <= a /\ a < (a \div m) * m + m
         /\ (a \div m) * m \in Nat
<1>1. a \div m \in Int /\ a % m \in 0 .. m - 1 /\ a = m * (a \div m) + (a % m)
  OBVIOUS
<1>. DEFINE q == a \div m
            r == a % m
<1>2. q \in Int /\ r \in Int /\ 0 <= r /\ r < m /\ a = m * q + r
  BY <1>1
<1>. HIDE DEF q, r
<1>3. q >= 0
  <2>. SUFFICES ASSUME q <= -1 PROVE FALSE
    BY <1>2
  <2>1. q * m <= (-1) * m
    BY <1>2, Times
  <2>2. m * q <= -m /\ m * q \in Int
    BY <1>2, <2>1
  <2>. QED  BY <1>2, <2>2
<1>4. q * m = m * q /\ q * m \in Int
  BY <1>2
<1>5. q * m >= 0
  BY <1>2, <1>3
<1>. QED  BY <1>2, <1>3, <1>4, <1>5 DEF q

\* A message of the packing of r
PackedAt(p, r, k, i) ==
    /\ p[k] \in Msg /\ p[k].i = i /\ p[k].from >= 1 /\ p[k].to <= r.n
    /\ (p[k].to - p[k].from + 1) * r.nsig <= MaxCell
In(m, s) == m.from <= s /\ s <= m.to
Packing(p, r, i, sync) ==
    /\ p \in Seq(Msg) /\ Len(p) \in Nat /\ Len(p) >= 1
    /\ \A k \in 1 .. Len(p) : PackedAt(p, r, k, i) /\ p[k].sync = (k < Len(p) \/ sync)
    /\ \A s \in 1 .. r.n : \E k \in 1 .. Len(p) : In(p[k], s)
    /\ \A k, l \in 1 .. Len(p), s \in Nat : In(p[k], s) /\ In(p[l], s) => k = l

\* The packing of a system: each satellite is in one message, and no message is too long
LEMMA PackIs ==
  ASSUME NEW i \in DOMAIN ObsMsgs, NEW r \in SysObs, NEW sync \in BOOLEAN
  PROVE  Packing(Pack(i, r, sync), r, i, sync)
<1>0. /\ MaxCell \in Nat /\ MaxCell > 0 /\ MaxSat \in Nat
      /\ r.n \in Nat /\ r.nsig \in Nat /\ r.nsig <= MaxCell /\ (r.n = 0 <=> r.nsig = 0)
  BY ConvAssumption DEF SysObs
<1>. DEFINE ns   == IF r.nsig = 0 THEN 0 ELSE MaxCell \div r.nsig
            nmsg == IF r.nsig = 0 THEN 1 ELSE (r.n - 1) \div ns + 1
            p    == Pack(i, r, sync)
            to(k) == IF k * ns < r.n THEN k * ns ELSE r.n
            from(k) == (k - 1) * ns + 1
<1>1. p = [k \in 1 .. nmsg |-> [i |-> i, from |-> from(k), to |-> to(k),
                                sync |-> IF k < nmsg THEN TRUE ELSE sync]]
  BY DEF Pack
<1>2. /\ ns \in Nat /\ nmsg \in Nat /\ nmsg >= 1 /\ ns * r.nsig <= MaxCell
      /\ r.nsig # 0 => ns >= 1 /\ (nmsg - 1) * ns < r.n /\ r.n <= nmsg * ns
  <2>1. CASE r.nsig = 0
    BY <1>0, <2>1
  <2>2. CASE r.nsig # 0
    <3>. DEFINE q == MaxCell \div r.nsig
    <3>1. q \in Nat /\ q * r.nsig <= MaxCell /\ MaxCell < q * r.nsig + r.nsig /\ q * r.nsig \in Nat
      BY <1>0, <2>2, Quotient
    <3>. HIDE DEF q
    <3>2. q # 0
      BY <1>0, <2>2, <3>1
    <3>3. ns = q
      BY <2>2 DEF q
    <3>. HIDE DEF ns
    <3>. DEFINE d == (r.n - 1) \div ns
    <3>4. r.n - 1 \in Nat /\ ns \in Nat /\ ns > 0
      BY <1>0, <2>2, <3>1, <3>2, <3>3
    <3>5. d \in Nat /\ d * ns <= r.n - 1 /\ r.n - 1 < d * ns + ns /\ d * ns \in Nat
      BY <3>4, Quotient
    <3>6. nmsg = d + 1
      BY <2>2
    <3>. HIDE DEF nmsg, d
    <3>7. (nmsg - 1) * ns = d * ns /\ nmsg * ns = d * ns + ns
      BY <3>4, <3>5, <3>6, TimesOne
    <3>. QED  BY <1>0, <3>1, <3>3, <3>4, <3>5, <3>6, <3>7
  <2>. QED  BY <2>1, <2>2
<1>. HIDE DEF ns, nmsg, p
<1>4. ASSUME NEW k \in 1 .. nmsg
      PROVE  /\ p[k].i = i /\ p[k].from = from(k) /\ p[k].to = to(k)
             /\ p[k].sync = (k < nmsg \/ sync)
             /\ k * ns \in Nat /\ (k - 1) * ns \in Nat /\ k * ns = (k - 1) * ns + ns
             /\ from(k) \in Nat /\ to(k) \in Nat /\ p[k] \in Msg
  <2>1. k * ns \in Nat /\ (k - 1) * ns \in Nat /\ k * ns = (k - 1) * ns + ns
    BY <1>2, TimesOne
  <2>2. from(k) \in Nat /\ to(k) \in Nat
    BY <1>0, <2>1
  <2>. DEFINE y == IF k < nmsg THEN TRUE ELSE sync
  <2>3. y \in BOOLEAN /\ y = (k < nmsg \/ sync)
    OBVIOUS
  <2>. HIDE DEF from, to, y
  <2>4. p[k] = [i |-> i, from |-> from(k), to |-> to(k), sync |-> y]
    BY <1>1 DEF y
  <2>. QED  BY <2>1, <2>2, <2>3, <2>4 DEF Msg
<1>3. p \in [1 .. nmsg -> Msg] /\ Len(p) = nmsg /\ p \in Seq(Msg)
  <2>2. p \in [1 .. nmsg -> Msg]
    <3>. HIDE DEF from, to
    <3>. QED  BY <1>1, <1>4
  <2>. QED  BY <1>2, <2>2
<1>5. ASSUME NEW k \in 1 .. nmsg PROVE PackedAt(p, r, k, i)
  <2>1. from(k) >= 1 /\ to(k) <= r.n
    BY <1>0, <1>4
  <2>2. (to(k) - from(k) + 1) * r.nsig <= MaxCell
    <3>1. to(k) - from(k) + 1 \in Int /\ to(k) - from(k) + 1 <= ns
      BY <1>0, <1>2, <1>4
    <3>. HIDE DEF to, from
    <3>2. (to(k) - from(k) + 1) * r.nsig <= ns * r.nsig
      BY <1>0, <1>2, <3>1, Times
    <3>3. (to(k) - from(k) + 1) * r.nsig \in Int /\ ns * r.nsig \in Int
      BY <1>0, <1>2, <3>1
    <3>. QED  BY <1>0, <1>2, <3>2, <3>3
  <2>. QED  BY <1>3, <1>4, <2>1, <2>2 DEF PackedAt
<1>6. ASSUME NEW s \in 1 .. r.n PROVE \E k \in 1 .. nmsg : In(p[k], s)
  <2>0. r.nsig # 0 /\ ns >= 1
    BY <1>0, <1>2
  <2>. DEFINE d == (s - 1) \div ns
  <2>1. d \in Nat /\ d * ns <= s - 1 /\ s - 1 < d * ns + ns /\ d * ns \in Nat
    BY <1>2, <2>0, Quotient
  <2>. HIDE DEF d
  <2>2. d + 1 <= nmsg
    <3>. SUFFICES ASSUME nmsg <= d PROVE FALSE
      BY <1>2, <2>1
    <3>1. nmsg * ns <= d * ns /\ nmsg * ns \in Int
      BY <1>2, <2>1, Times
    <3>. QED  BY <1>0, <1>2, <2>0, <2>1, <3>1
  <2>. DEFINE k == d + 1
  <2>3. k \in 1 .. nmsg /\ k - 1 = d
    BY <1>2, <2>1, <2>2
  <2>. HIDE DEF k
  <2>4. (k - 1) * ns = d * ns /\ k * ns = d * ns + ns
    BY <1>4, <2>3
  <2>5. In(p[k], s)
    BY <1>0, <1>2, <1>4, <2>1, <2>3, <2>4 DEF In
  <2>. QED  BY <2>3, <2>5
<1>7. ASSUME NEW k \in 1 .. nmsg, NEW l \in 1 .. nmsg, NEW s \in Nat, In(p[k], s), In(p[l], s), k < l
      PROVE  FALSE
  <2>1. s <= k * ns
    BY <1>0, <1>4, <1>7 DEF In
  <2>2. (l - 1) * ns < s
    BY <1>4, <1>7 DEF In
  <2>3. k * ns <= (l - 1) * ns
    BY <1>2, <1>7, Times
  <2>. QED  BY <1>4, <2>1, <2>2, <2>3
<1>8. \A k, l \in 1 .. nmsg, s \in Nat : In(p[k], s) /\ In(p[l], s) => k = l
  BY <1>2, <1>7
<1>. QED  BY <1>2, <1>3, <1>4, <1>5, <1>6, <1>8 DEF Packing, p

-----------------------------------------------------------------------------
(* The messages of an epoch.                                                *)

\* f[i] is the first i sequences one after the other.
Glued(seqs, f, m) == f = [i \in 1 .. m |-> IF i = 1 THEN seqs[i] ELSE f[i-1] \o seqs[i]]

LEMMA GluedIs ==
  ASSUME NEW seqs, NEW f, NEW m \in Nat, Glued(seqs, f, m)
  PROVE  \A i \in 1 .. m : f[i] = IF i = 1 THEN seqs[i] ELSE f[i-1] \o seqs[i]
<1>. DEFINE g == [i \in 1 .. m |-> IF i = 1 THEN seqs[i] ELSE f[i-1] \o seqs[i]]
<1>1. \A i \in 1 .. m : g[i] = IF i = 1 THEN seqs[i] ELSE f[i-1] \o seqs[i]
  OBVIOUS
<1>2. f = g
  BY DEF Glued
<1>. HIDE DEF g
<1>. QED  BY <1>1, <1>2

LEMMA GluedExists ==
  ASSUME NEW seqs, NEW n \in Nat, n >= 1
  PROVE  \E f : Glued(seqs, f, n)
<1>. DEFINE S == {m \in Nat : m >= 1 /\ ~\E f : Glued(seqs, f, m)}
<1>. SUFFICES ASSUME S # {} PROVE FALSE
  OBVIOUS
<1>1. PICK m \in S : \A y \in S : m <= y
  <2>1. S \in SUBSET Nat
    OBVIOUS
  <2>. HIDE DEF S
  <2>. QED  BY <2>1, Smallest
<1>2. CASE m = 1
  <2>. DEFINE f == [i \in 1 .. 1 |-> seqs[i]]
  <2>1. f = [i \in 1 .. 1 |-> IF i = 1 THEN seqs[i] ELSE f[i-1] \o seqs[i]]
    OBVIOUS
  <2>2. Glued(seqs, f, m)
    BY <1>2, <2>1 DEF Glued
  <2>. QED  BY <2>2
<1>3. CASE m # 1
  <2>1. m \in Nat /\ m \in 1 .. m /\ m - 1 \in Nat /\ m - 1 >= 1 /\ m - 1 \in 1 .. m - 1 /\ m - 1 \notin S
    BY <1>1, <1>3
  <2>2. PICK f : Glued(seqs, f, m - 1)
    BY <2>1
  <2>3. \A i \in 1 .. m - 1 : f[i] = IF i = 1 THEN seqs[i] ELSE f[i-1] \o seqs[i]
    BY <2>1, <2>2, GluedIs
  <2>. DEFINE g == [i \in 1 .. m |-> IF i = m THEN f[m-1] \o seqs[m] ELSE f[i]]
              h == [i \in 1 .. m |-> IF i = 1 THEN seqs[i] ELSE g[i-1] \o seqs[i]]
  <2>4. \A i \in 1 .. m - 1 : g[i] = f[i]
    BY <2>1
  <2>5. g[m] = f[m-1] \o seqs[m]
    BY <2>1
  <2>6. ASSUME NEW i \in 1 .. m PROVE g[i] = IF i = 1 THEN seqs[i] ELSE g[i-1] \o seqs[i]
    <3>. HIDE DEF g
    <3>1. CASE i = m
      <4>1. g[m] = g[m-1] \o seqs[m]
        BY <2>1, <2>4, <2>5
      <4>. QED  BY <1>3, <3>1, <4>1
    <3>2. CASE i # m
      <4>1. i \in 1 .. m - 1 /\ (i # 1 => i - 1 \in 1 .. m - 1)
        BY <2>1, <3>2
      <4>. QED  BY <2>3, <2>4, <4>1
    <3>. QED  BY <3>1, <3>2
  <2>7. g = h
    BY <2>6
  <2>8. Glued(seqs, g, m)
    <3>. HIDE DEF g
    <3>. QED  BY <2>7 DEF Glued
  <2>. QED  BY <2>8
<1>. QED  BY <1>2, <1>3

LEMMA FlattenIs ==
  ASSUME NEW seqs, Len(seqs) \in Nat, Len(seqs) >= 1
  PROVE  \E f : Glued(seqs, f, Len(seqs)) /\ FlattenSeq(seqs) = f[Len(seqs)]
<1>. DEFINE f == CHOOSE x : Glued(seqs, x, Len(seqs))
<1>1. Glued(seqs, f, Len(seqs))
  <2>1. \E x : Glued(seqs, x, Len(seqs))
    BY GluedExists
  <2>. QED  BY <2>1
<1>2. Len(seqs) # 0
  OBVIOUS
<1>3. FlattenSeq(seqs) = f[Len(seqs)]
  BY <1>2, Zenon DEF FlattenSeq, Glued
<1>. QED  BY <1>1, <1>3

\* What t is when the first m kinds of messages have been written.
Of(e, i) == e[ObsMsgs[i].sys]
Good(m, e, j) ==
    /\ m \in Msg /\ m.i \in 1 .. j /\ Due(m.i) /\ m.from >= 1 /\ m.to <= Of(e, m.i).n
    /\ (m.to - m.from + 1) * Of(e, m.i).nsig <= MaxCell
Whole(t, j, e) ==
    /\ t \in Seq(Msg)
    /\ \A k \in 1 .. Len(t) : Good(t[k], e, j)
    /\ \A k \in 1 .. Len(t) : t[k].sync = (k < Len(t) \/ LaterDue(j))
    /\ \A i \in 1 .. j : Due(i) => \E k \in 1 .. Len(t) : t[k].i = i
    /\ \A i \in 1 .. j : Due(i) =>
          \A s \in 1 .. Of(e, i).n : \E k \in 1 .. Len(t) : t[k].i = i /\ In(t[k], s)
    /\ \A k, l \in 1 .. Len(t), s \in Nat : t[k].i = t[l].i /\ In(t[k], s) /\ In(t[l], s) => k = l

LEMMA Domain == DOMAIN ObsMsgs = 1 .. Len(ObsMsgs) /\ Len(ObsMsgs) \in Nat
BY ConvAssumption

LEMMA OfIs == ASSUME NEW e \in [Systems -> SysObs], NEW i \in DOMAIN ObsMsgs PROVE Of(e, i) \in SysObs
<1>1. ObsMsgs[i] \in [sys : Systems, tint : Nat]
  BY ConvAssumption, Domain, ElementOfSeq
<1>2. ObsMsgs[i].sys \in Systems
  BY <1>1
<1>. QED  BY <1>2 DEF Of

\* One kind more is not due
LEMMA WholeStays ==
  ASSUME NEW j \in Nat, j + 1 \in DOMAIN ObsMsgs, NEW e, NEW t, Whole(t, j, e), ~Due(j + 1)
  PROVE  Whole(t, j + 1, e)
<1>1. \A k \in 1 .. Len(t) : Good(t[k], e, j + 1)
  <2>1. ASSUME NEW k \in 1 .. Len(t), Good(t[k], e, j) PROVE Good(t[k], e, j + 1)
    BY <2>1 DEF Good
  <2>. QED  BY <2>1 DEF Whole
<1>2. LaterDue(j) <=> LaterDue(j + 1)
  <2>1. \A x \in DOMAIN ObsMsgs : x \in Nat
    BY Domain
  <2>. QED  BY <2>1 DEF LaterDue
<1>3. \A i \in 1 .. j + 1 : Due(i) => i \in 1 .. j
  OBVIOUS
<1>4. LaterDue(j) \in BOOLEAN /\ LaterDue(j + 1) \in BOOLEAN
  BY DEF LaterDue
<1>5. \A k \in 1 .. Len(t) : t[k].sync = (k < Len(t) \/ LaterDue(j + 1))
  BY <1>2 DEF Whole
<1>. QED  BY <1>1, <1>3, <1>5 DEF Whole

\* One kind more is due and its packing is added
LEMMA WholeGrows ==
  ASSUME NEW j \in Nat, j + 1 \in DOMAIN ObsMsgs, NEW e, NEW t, Whole(t, j, e), Due(j + 1),
         NEW p, Packing(p, Of(e, j + 1), j + 1, LaterDue(j + 1))
  PROVE  Whole(t \o p, j + 1, e)
<1>. DEFINE n == Len(t)
            o == Len(p)
            w == t \o p
<1>0. t \in Seq(Msg) /\ p \in Seq(Msg) /\ n \in Nat /\ o \in Nat /\ o >= 1
  BY DEF Whole, Packing
<1>1. /\ w \in Seq(Msg) /\ Len(w) = n + o
      /\ \A k \in 1 .. n : w[k] = t[k]
      /\ \A k \in 1 .. o : w[n + k] = p[k]
  BY <1>0, ConcatProperties
<1>2. \A k \in 1 .. Len(w) : k \in 1 .. n \/ (k - n \in 1 .. o /\ w[k] = p[k - n])
  BY <1>0, <1>1
<1>. HIDE DEF w
<1>3. \A k \in 1 .. n : Good(t[k], e, j) /\ t[k].sync = (k < n \/ LaterDue(j)) /\ t[k].i \in 1 .. j
  BY DEF Whole, Good
<1>4. \A k \in 1 .. o : /\ p[k].i = j + 1
                        /\ p[k].sync = (k < o \/ LaterDue(j + 1))
  BY DEF Packing, PackedAt
<1>5. ASSUME NEW k \in 1 .. Len(w) PROVE Good(w[k], e, j + 1)
  <2>1. CASE k \in 1 .. n
    <3>1. w[k] = t[k] /\ Good(t[k], e, j)
      BY <1>1, <1>3, <2>1
    <3>. QED  BY <3>1 DEF Good
  <2>2. CASE k - n \in 1 .. o /\ w[k] = p[k - n]
    <3>. DEFINE l == k - n
    <3>1. l \in 1 .. o /\ w[k] = p[l]
      BY <2>2
    <3>. HIDE DEF l
    <3>2. PackedAt(p, Of(e, j + 1), l, j + 1)
      BY <3>1 DEF Packing
    <3>. QED  BY <3>1, <3>2 DEF PackedAt, Good
  <2>. QED  BY <1>2, <2>1, <2>2
<1>6. ASSUME NEW k \in 1 .. Len(w) PROVE w[k].sync = (k < Len(w) \/ LaterDue(j + 1))
  <2>0. LaterDue(j)
    BY Domain DEF LaterDue
  <2>1. CASE k \in 1 .. n
    BY <1>0, <1>1, <1>3, <2>0, <2>1
  <2>2. CASE k - n \in 1 .. o /\ w[k] = p[k - n]
    <3>1. p[k - n].sync = (k - n < o \/ LaterDue(j + 1))
      BY <1>4, <2>2
    <3>2. k - n < o <=> k < Len(w)
      BY <1>0, <1>1
    <3>. QED  BY <2>2, <3>1, <3>2
  <2>. QED  BY <1>2, <2>1, <2>2
<1>7. \A k \in 1 .. n : k \in 1 .. Len(w) /\ w[k] = t[k]
  BY <1>0, <1>1
<1>8. \A k \in 1 .. o : n + k \in 1 .. Len(w) /\ w[n + k] = p[k] /\ p[k].i = j + 1
  BY <1>0, <1>1, <1>4
<1>9. ASSUME NEW i \in 1 .. j + 1, Due(i) PROVE \E k \in 1 .. Len(w) : w[k].i = i
  <2>1. CASE i = j + 1
    BY <1>0, <1>8, <2>1
  <2>2. CASE i \in 1 .. j
    BY <1>7, <1>9, <2>2 DEF Whole
  <2>. QED  BY <2>1, <2>2
<1>10. ASSUME NEW i \in 1 .. j + 1, Due(i), NEW s \in 1 .. Of(e, i).n
       PROVE  \E k \in 1 .. Len(w) : w[k].i = i /\ In(w[k], s)
  <2>1. CASE i = j + 1
    <3>1. PICK k \in 1 .. o : In(p[k], s)
      BY <1>10, <2>1 DEF Packing
    <3>. QED  BY <1>8, <2>1, <3>1
  <2>2. CASE i \in 1 .. j
    <3>1. PICK k \in 1 .. n : t[k].i = i /\ In(t[k], s)
      BY <1>10, <2>2 DEF Whole
    <3>. QED  BY <1>7, <3>1
  <2>. QED  BY <2>1, <2>2
<1>11. ASSUME NEW k \in 1 .. Len(w), NEW l \in 1 .. Len(w), NEW s \in Nat,
              w[k].i = w[l].i, In(w[k], s), In(w[l], s)
       PROVE  k = l
  <2>1. CASE k \in 1 .. n /\ l \in 1 .. n
    BY <1>1, <1>11, <2>1 DEF Whole
  <2>2. CASE k \in 1 .. n /\ l \notin 1 .. n
    <3>1. w[k].i \in 1 .. j /\ w[l].i = j + 1
      BY <1>1, <1>2, <1>3, <1>4, <2>2
    <3>. QED  BY <1>11, <3>1
  <2>3. CASE k \notin 1 .. n /\ l \in 1 .. n
    <3>1. w[l].i \in 1 .. j /\ w[k].i = j + 1
      BY <1>1, <1>2, <1>3, <1>4, <2>3
    <3>. QED  BY <1>11, <3>1
  <2>4. CASE k \notin 1 .. n /\ l \notin 1 .. n
    <3>1. k - n \in 1 .. o /\ l - n \in 1 .. o /\ w[k] = p[k - n] /\ w[l] = p[l - n]
      BY <1>2, <2>4
    <3>2. k - n = l - n
      BY <1>11, <3>1 DEF Packing
    <3>. QED  BY <1>0, <3>2
  <2>. QED  BY <2>1, <2>2, <2>3, <2>4
<1>. QED  BY <1>1, <1>5, <1>6, <1>9, <1>10, <1>11 DEF Whole, w

\* What write_obs makes of an epoch
LEMMA WrittenIs ==
  ASSUME NEW e \in [Systems -> SysObs]
  PROVE  Whole(Written(e), Len(ObsMsgs), e)
<1>. DEFINE n == Len(ObsMsgs)
            seqs == [i \in DOMAIN ObsMsgs |-> IF Due(i) THEN Pack(i, Of(e, i), LaterDue(i)) ELSE <<>>]
<1>0. n \in Nat /\ DOMAIN ObsMsgs = 1 .. n
  BY Domain
<1>1. Written(e) = FlattenSeq(seqs)
  BY DEF Written, Of
<1>2. Whole(<<>>, 0, e)
  <2>1. <<>> \in Seq(Msg) /\ Len(<<>>) = 0
    OBVIOUS
  <2>. QED  BY <2>1 DEF Whole
<1>3. /\ \A i \in 1 .. n : Due(i) => Packing(seqs[i], Of(e, i), i, LaterDue(i))
      /\ \A i \in 1 .. n : ~Due(i) => seqs[i] = <<>>
  <2>1. ASSUME NEW i \in 1 .. n, Due(i) PROVE Packing(seqs[i], Of(e, i), i, LaterDue(i))
    <3>1. LaterDue(i) \in BOOLEAN /\ i \in DOMAIN ObsMsgs /\ Of(e, i) \in SysObs
      BY <1>0, OfIs DEF LaterDue
    <3>2. seqs[i] = Pack(i, Of(e, i), LaterDue(i))
      BY <2>1, <3>1
    <3>. HIDE DEF seqs
    <3>. QED  BY <3>1, <3>2, PackIs
  <2>. QED  BY <1>0, <2>1
<1>4. Len(seqs) = n
  BY <1>0
<1>. HIDE DEF seqs, n
<1>5. CASE n = 0
  <2>1. FlattenSeq(seqs) = seqs
    BY <1>4, <1>5 DEF FlattenSeq
  <2>2. seqs = <<>>
    BY <1>0, <1>5 DEF seqs
  <2>. QED  BY <1>1, <1>2, <1>5, <2>1, <2>2 DEF n
<1>6. CASE n # 0
  <2>1. PICK f : Glued(seqs, f, n) /\ FlattenSeq(seqs) = f[n]
    BY <1>0, <1>4, <1>6, FlattenIs
  <2>2. \A i \in 1 .. n : f[i] = IF i = 1 THEN seqs[i] ELSE f[i-1] \o seqs[i]
    BY <1>0, <2>1, GluedIs
  \* one sequence more
  <2>3. ASSUME NEW j \in Nat, j + 1 \in 1 .. n, NEW t, Whole(t, j, e)
        PROVE  Whole(t \o seqs[j + 1], j + 1, e)
    <3>1. CASE Due(j + 1)
      BY <1>0, <1>3, <2>3, <3>1, WholeGrows
    <3>2. CASE ~Due(j + 1)
      <4>1. seqs[j + 1] = <<>>
        BY <1>3, <2>3, <3>2
      <4>2. t \o <<>> = t
        BY <2>3, ConcatEmptySeq DEF Whole
      <4>. QED  BY <1>0, <2>3, <3>2, <4>1, <4>2, WholeStays
    <3>. QED  BY <3>1, <3>2
  <2>. DEFINE S == {i \in Nat : i \in 1 .. n /\ ~Whole(f[i], i, e)}
  <2>4. S = {}
    <3>. SUFFICES ASSUME S # {} PROVE FALSE
      OBVIOUS
    <3>1. PICK m \in S : \A y \in S : m <= y
      <4>1. S \in SUBSET Nat
        OBVIOUS
      <4>. HIDE DEF S
      <4>. QED  BY <4>1, Smallest
    <3>2. CASE m = 1
      <4>1. f[m] = seqs[1]
        BY <2>2, <3>1, <3>2
      <4>0. 0 \in Nat /\ 0 + 1 \in 1 .. n /\ 0 + 1 = 1 /\ 1 \in 1 .. n
        BY <1>0, <1>6
      <4>2. Whole(<<>> \o seqs[1], 1, e)
        <5>1. Whole(<<>> \o seqs[0 + 1], 0 + 1, e)
          BY <1>2, <2>3, <4>0
        <5>. QED  BY <5>1
      <4>3. seqs[1] \in Seq(Msg)
        <5>1. CASE Due(1)
          BY <1>3, <4>0, <5>1 DEF Packing
        <5>2. CASE ~Due(1)
          <6>1. seqs[1] = <<>>
            BY <1>3, <4>0, <5>2
          <6>2. <<>> \in Seq(Msg)
            OBVIOUS
          <6>. QED  BY <6>1, <6>2
        <5>. QED  BY <5>1, <5>2
      <4>4. <<>> \o seqs[1] = seqs[1]
        BY <4>3, ConcatEmptySeq
      <4>. QED  BY <3>1, <3>2, <4>1, <4>2, <4>4
    <3>3. CASE m # 1
      <4>. DEFINE j == m - 1
      <4>1. j \in Nat /\ j \in 1 .. n /\ j + 1 = m /\ m \in 1 .. n /\ j \notin S
        BY <1>0, <3>1, <3>3
      <4>2. Whole(f[j], j, e)
        BY <4>1
      <4>3. f[m] = f[j] \o seqs[m]
        BY <2>2, <3>3, <4>1
      <4>. HIDE DEF j
      <4>4. Whole(f[j] \o seqs[j + 1], j + 1, e)
        BY <2>3, <4>1, <4>2
      <4>. QED  BY <3>1, <4>1, <4>3, <4>4
    <3>. QED  BY <3>2, <3>3
  <2>5. Whole(f[n], n, e)
    BY <1>0, <1>6, <2>4
  <2>. QED  BY <1>1, <2>1, <2>5 DEF n
<1>. QED  BY <1>5, <1>6

-----------------------------------------------------------------------------
(* The messages of the last epoch: what is kept of them when time passes.   *)

Packed ==
    /\ out \in Seq(Msg) /\ epoch \in [Systems -> SysObs]
    /\ \A k \in 1 .. Len(out) :
          /\ out[k].sync = (k # Len(out))
          /\ out[k].from >= 1 /\ out[k].to <= Of(epoch, out[k].i).n
          /\ (out[k].to - out[k].from + 1) * Of(epoch, out[k].i).nsig <= MaxCell
    /\ \A k \in 1 .. Len(out) : \A s \in 1 .. Of(epoch, out[k].i).n :
          \E l \in 1 .. Len(out) : out[l].i = out[k].i /\ In(out[l], s)
    /\ \A k, l \in 1 .. Len(out), s \in Nat :
          out[k].i = out[l].i /\ In(out[k], s) /\ In(out[l], s) => k = l

\* Until the next epoch they are those that are due.
Fresh ==
    /\ \A k \in 1 .. Len(out) : Due(out[k].i)
    /\ \A i \in DOMAIN ObsMsgs : Due(i) =>
          \A s \in 1 .. Of(epoch, i).n : \E k \in 1 .. Len(out) : out[k].i = i /\ In(out[k], s)

LEMMA WriteObsPacks ==
  ASSUME WriteObs
  PROVE  Packed' /\ Fresh'
<1>0. epoch' \in [Systems -> SysObs] /\ out' = Written(epoch') /\ now' = now
  BY DEF WriteObs
<1>. DEFINE n == Len(ObsMsgs)
<1>1. n \in Nat /\ DOMAIN ObsMsgs = 1 .. n
  BY Domain
<1>2. Whole(out', n, epoch')
  BY <1>0, WrittenIs
<1>3. ~LaterDue(n)
  BY <1>1 DEF LaterDue
<1>. HIDE DEF n
<1>5. /\ out' \in Seq(Msg)
      /\ \A k \in 1 .. Len(out') : Good(out'[k], epoch', n) /\ out'[k].sync = (k < Len(out'))
  BY <1>2, <1>3 DEF Whole
<1>6. Len(out') \in Nat
  BY <1>5
<1>7. ASSUME NEW k \in 1 .. Len(out')
      PROVE  /\ out'[k].sync = (k # Len(out'))
             /\ out'[k].from >= 1 /\ out'[k].to <= Of(epoch', out'[k].i).n
             /\ (out'[k].to - out'[k].from + 1) * Of(epoch', out'[k].i).nsig <= MaxCell
             /\ out'[k].i \in 1 .. n /\ Due(out'[k].i)
  <2>1. (k < Len(out')) <=> (k # Len(out'))
    BY <1>6
  <2>. QED  BY <1>5, <2>1 DEF Good
<1>8. ASSUME NEW i \in 1 .. n, Due(i), NEW s \in 1 .. Of(epoch', i).n
      PROVE  \E k \in 1 .. Len(out') : out'[k].i = i /\ In(out'[k], s)
  BY <1>2, <1>8 DEF Whole
<1>9. Packed'
  <2>1. \A k \in 1 .. Len(out') : \A s \in 1 .. Of(epoch', out'[k].i).n :
          \E l \in 1 .. Len(out') : out'[l].i = out'[k].i /\ In(out'[l], s)
    BY <1>7, <1>8
  <2>2. \A k, l \in 1 .. Len(out'), s \in Nat :
          out'[k].i = out'[l].i /\ In(out'[k], s) /\ In(out'[l], s) => k = l
    BY <1>2 DEF Whole
  <2>3. \A k \in 1 .. Len(out') :
          /\ out'[k].sync = (k # Len(out'))
          /\ out'[k].from >= 1 /\ out'[k].to <= Of(epoch', out'[k].i).n
          /\ (out'[k].to - out'[k].from + 1) * Of(epoch', out'[k].i).nsig <= MaxCell
    BY <1>7
  <2>. HIDE DEF In, Of
  <2>. QED  BY <1>0, <1>5, <2>1, <2>2, <2>3 DEF Packed
<1>10. Fresh'
  <2>1. \A k \in 1 .. Len(out') : Due(out'[k].i)
    BY <1>7
  <2>2. \A i \in DOMAIN ObsMsgs : Due(i) =>
          \A s \in 1 .. Of(epoch', i).n : \E k \in 1 .. Len(out') : out'[k].i = i /\ In(out'[k], s)
    BY <1>1, <1>8
  <2>. HIDE DEF In, Of
  <2>. QED  BY <1>0, <2>1, <2>2 DEF Fresh, Due
<1>. QED  BY <1>9, <1>10

\* They are complete
LEMMA PackedComplete == Packed => MsmComplete
<1>. SUFFICES ASSUME Packed PROVE MsmComplete
  OBVIOUS
<1>0. out \in Seq(Msg) /\ DOMAIN out = 1 .. Len(out)
  BY DEF Packed
<1>1. EpochClosed
  BY <1>0 DEF Packed, EpochClosed
<1>2. \A k \in DOMAIN out :
          (out[k].to - out[k].from + 1) * epoch[ObsMsgs[out[k].i].sys].nsig <= MaxCell
  BY <1>0 DEF Packed, Of
<1>3. ASSUME NEW i \in {out[k].i : k \in DOMAIN out}, NEW s \in 1 .. epoch[ObsMsgs[i].sys].n
      PROVE  Cardinality({k \in DOMAIN out : out[k].i = i /\ s \in Sats(k)}) = 1
  <2>. DEFINE with == {k \in DOMAIN out : out[k].i = i /\ s \in Sats(k)}
  <2>1. PICK j \in 1 .. Len(out) : out[j].i = i
    BY <1>0
  <2>2. s \in 1 .. Of(epoch, out[j].i).n /\ s \in Nat
    BY <1>3, <2>1 DEF Of
  <2>3. PICK l \in 1 .. Len(out) : out[l].i = i /\ In(out[l], s)
    BY <2>1, <2>2 DEF Packed
  <2>4. \A k \in 1 .. Len(out) : s \in Sats(k) <=> In(out[k], s)
    <3>1. \A k \in 1 .. Len(out) : out[k] \in Msg
      BY <1>0, ElementOfSeq
    <3>2. \A k \in 1 .. Len(out) : out[k].from \in Nat /\ out[k].to \in Nat
      BY <3>1 DEF Msg
    <3>. QED  BY <2>2, <3>2 DEF Sats, In
  <2>5. \A k \in with : k = l
    BY <1>0, <2>2, <2>3, <2>4 DEF Packed
  <2>6. l \in with
    BY <1>0, <2>3, <2>4
  <2>7. with = {l}
    BY <2>5, <2>6
  <2>. QED  BY <2>7, FS_Singleton
<1>. QED  BY <1>1, <1>2, <1>3 DEF MsmComplete

LEMMA PackedInit == Init => Packed
<1>. SUFFICES ASSUME Init PROVE Packed
  OBVIOUS
<1>1. out = <<>> /\ epoch = NoObs
  BY DEF Init
<1>2. NoObs \in [Systems -> SysObs]
  BY ConvAssumption DEF NoObs, SysObs
<1>3. out \in Seq(Msg) /\ Len(out) = 0
  BY <1>1
<1>. QED  BY <1>1, <1>2, <1>3 DEF Packed

LEMMA NothingPacked == NothingObs => Packed'
<1>. SUFFICES ASSUME NothingObs PROVE Packed'
  OBVIOUS
<1>1. out' = <<>> /\ epoch' = NoObs
  BY DEF NothingObs
<1>2. NoObs \in [Systems -> SysObs]
  BY ConvAssumption DEF NoObs, SysObs
<1>3. out' \in Seq(Msg) /\ Len(out') = 0
  BY <1>1
<1>. QED  BY <1>1, <1>2, <1>3 DEF Packed

LEMMA PackedStays == Packed /\ UNCHANGED <<out, epoch>> => Packed'
BY DEF Packed

LEMMA PackedStep == Packed /\ [Next]_vars => Packed'
<1>. SUFFICES ASSUME Packed, [Next]_vars PROVE Packed'
  OBVIOUS
<1>1. CASE WriteObs
  BY <1>1, WriteObsPacks
<1>2. ASSUME NEW p \in Prns, ReceiveEph(p) PROVE Packed'
  BY <1>2, NothingPacked DEF ReceiveEph
<1>3. CASE WriteNavCycle
  BY <1>3, NothingPacked DEF WriteNavCycle
<1>4. CASE Tick
  BY <1>4, NothingPacked DEF Tick
<1>5. CASE UNCHANGED vars
  BY <1>5, PackedStays DEF vars
<1>. QED  BY <1>1, <1>2, <1>3, <1>4, <1>5 DEF Next

-----------------------------------------------------------------------------
(* The link.                                                                *)

\* The decoder's time is near enough for what the messages tell of the time: "within 1/2 week",
\* for those that tell the time of the day within half a day.
Span(i) == IF ObsMsgs[i].sys \in Daily THEN Day ELSE Week
Resolvable == \A i \in DOMAIN ObsMsgs : 2 * FirstError < Span(i) /\ 2 * MaxSilence < Span(i)

\* What has been delivered of the epoch before message j.
Delivered(j) == {o \in Systems \X Nat \X {0} :
                    \E k \in 1 .. Len(out) : /\ k < j /\ o[1] = ObsMsgs[out[k].i].sys
                                             /\ In(out[k], o[2])}

LinkTypes ==
    /\ now \in Nat /\ nxt \in Nat /\ nxt <= Len(out) + 1
    /\ err \in Int /\ err <= FirstError /\ (-FirstError <= err \/ -MaxSilence <= err)
    /\ lost \in BOOLEAN /\ filled \in BOOLEAN /\ flag \in BOOLEAN /\ ret \in {0, 1}
    /\ first \in Nat /\ obs \in SUBSET (Systems \X Nat \X {first})

\* Where the epoch is: what has come of it is all there is, and it has not been given out
\* before its last message.
Underway ==
    /\ nxt > 0 => Fresh
    /\ nxt = 0 => ret = 0 /\ ~lost /\ ~filled
    /\ filled => err = 0 /\ first = 0
    /\ ~filled /\ obs # {} => first >= 1
    /\ filled /\ nxt <= Len(out) => ~flag
    /\ nxt > 0 /\ ~lost => (filled => obs = Delivered(nxt)) /\ (~filled => Delivered(nxt) = {})
    /\ ret = 1 => nxt > Len(out)
    /\ nxt > Len(out) /\ ~lost /\ out # <<>> => ret = 1

LinkStrong == Packed /\ LinkTypes /\ Underway

\* The time next to the decoder's is the true one when the decoder's is less than half of
\* what the message tells of it off.
LEMMA AdjustedIs ==
  ASSUME now \in Nat, NEW e \in Int, NEW span \in Nat, span > 0, 2 * e < span, -span < 2 * e
  PROVE  Adjusted(e, span) = 0
<1>. DEFINE v == now % span
            p == (now + e) % span
            a == now \div span
            b == (now + e) \div span
<1>1. /\ v \in 0 .. span - 1 /\ a \in Int /\ now = span * a + v
      /\ p \in 0 .. span - 1 /\ b \in Int /\ now + e = span * b + p
  OBVIOUS
<1>. HIDE DEF v, p, a, b
<1>2. span * b - span * a = e + v - p /\ span * (b - a) = span * b - span * a
  BY <1>1
<1>. DEFINE d == b - a
<1>3. d \in Int /\ span * d = e + v - p
  BY <1>1, <1>2
<1>. HIDE DEF d
<1>4. d \in {-1, 0, 1}
  <2>0. -2 * span < span * d /\ span * d < 2 * span
    BY <1>1, <1>3
  <2>1. ~(d >= 2)
    <3>. SUFFICES ASSUME d >= 2 PROVE FALSE
      OBVIOUS
    <3>1. 2 * span <= d * span
      BY <1>3, Times
    <3>. QED  BY <1>3, <2>0, <3>1
  <2>2. ~(d <= -2)
    <3>. SUFFICES ASSUME d <= -2 PROVE FALSE
      OBVIOUS
    <3>1. d * span <= (-2) * span
      BY <1>3, Times
    <3>. QED  BY <1>3, <2>0, <3>1
  <2>. QED  BY <1>3, <2>1, <2>2
<1>5. Adjusted(e, span) = e + v - p + (CASE 2 * v < 2 * p - span -> span
                                         [] 2 * v > 2 * p + span -> -span
                                         [] OTHER -> 0)
  BY DEF Adjusted, v, p
<1>6. CASE d = 0
  BY <1>1, <1>3, <1>5, <1>6
<1>7. CASE d = 1
  BY <1>1, <1>3, <1>5, <1>7
<1>8. CASE d = -1
  BY <1>1, <1>3, <1>5, <1>8
<1>. QED  BY <1>4, <1>6, <1>7, <1>8

\* So the first message that arrives sets the time
LEMMA HeadIs ==
  ASSUME LinkTypes, Resolvable, NEW m \in Msg
  PROVE  DecodeMsmHead(m, err) = 0
<1>. DEFINE span == Span(m.i)
<1>1. span \in Nat /\ span > 0 /\ 2 * FirstError < span /\ 2 * MaxSilence < span
      /\ FirstError \in Nat /\ MaxSilence \in Nat
  BY LinkAssumption DEF Resolvable, Span, Msg
<1>2. DecodeMsmHead(m, err) = Adjusted(err, span)
  BY DEF DecodeMsmHead, AdjdayGlot, Span
<1>. HIDE DEF span
<1>3. now \in Nat /\ err \in Int /\ 2 * err < span /\ -span < 2 * err
  BY <1>1 DEF LinkTypes
<1>. QED  BY <1>1, <1>2, <1>3, AdjustedIs

\* What a message of this time does to the observations
News(m) == {<<ObsMsgs[m.i].sys, k, 0>> : k \in m.from .. m.to}

Neg(z) == -z
LEMMA NegZero == -0 = 0
<1>1. \A z \in Int : z + Neg(z) = 0 /\ Neg(z) \in Int
  BY DEF Neg
<1>2. Neg(0) = 0
  BY <1>1
<1>. QED  BY <1>2, Zenon DEF Neg

LEMMA Timed ==
  ASSUME NEW s, NEW a, NEW b
  PROVE  {<<s, k, 0>> : k \in a .. b} = {<<x[1], x[2], 0>> : x \in {<<s, k>> : k \in a .. b}}
<1>. DEFINE n == {<<s, k>> : k \in a .. b}
<1>1. ASSUME NEW x \in n PROVE <<x[1], x[2], 0>> \in {<<s, k, 0>> : k \in a .. b}
  <2>1. PICK k \in a .. b : x = <<s, k>>
    OBVIOUS
  <2>. QED  BY <2>1
<1>2. ASSUME NEW k \in a .. b PROVE <<s, k, 0>> \in {<<x[1], x[2], 0>> : x \in n}
  <2>1. <<s, k>> \in n /\ <<s, k>>[1] = s /\ <<s, k>>[2] = k
    OBVIOUS
  <2>. HIDE DEF n
  <2>. QED  BY <2>1
<1>. QED  BY <1>1, <1>2

LEMMA SavedIs ==
  ASSUME LinkTypes, NEW m \in Msg
  PROVE  /\ m.to < m.from => Saved(m, 0).obs = obs /\ Saved(m, 0).first = first
         /\ m.from <= m.to /\ ~flag /\ first = 0
               => Saved(m, 0).obs = obs \cup News(m) /\ Saved(m, 0).first = 0
         /\ m.from <= m.to /\ (obs = {} \/ first >= 1)
               => Saved(m, 0).obs = News(m) /\ Saved(m, 0).first = 0
<1>. DEFINE s    == ObsMsgs[m.i].sys
            new  == {<<s, k>> : k \in m.from .. m.to}
            keep == IF new # {} /\ (flag \/ (obs # {} /\ first # 0)) THEN {} ELSE obs
            old  == {<<o[1], o[2]>> : o \in keep}
            add  == {<<x[1], x[2], 0>> : x \in new \ old}
<1>0. m.from \in Nat /\ m.to \in Nat /\ first \in Nat /\ obs \in SUBSET (Systems \X Nat \X {first})
  BY DEF Msg, LinkTypes
<1>1. -0 = 0
  BY NegZero
<1>2. /\ Saved(m, 0).obs = keep \cup add
      /\ Saved(m, 0).first = IF keep = {} /\ new # {} THEN 0 ELSE first
  BY <1>1 DEF Saved
<1>3. new = {} <=> m.to < m.from
  <2>1. m.from .. m.to = {} <=> m.to < m.from
    BY <1>0
  <2>. QED  BY <2>1
<1>4. ASSUME m.to < m.from PROVE Saved(m, 0).obs = obs /\ Saved(m, 0).first = first
  <2>1. new = {} /\ keep = obs
    BY <1>3, <1>4
  <2>2. add = {}
    BY <2>1
  <2>. HIDE DEF new, keep, add
  <2>. QED  BY <1>2, <2>1, <2>2
<1>5. ASSUME m.from <= m.to, ~flag, first = 0
      PROVE  Saved(m, 0).obs = obs \cup News(m) /\ Saved(m, 0).first = 0
  <2>1. keep = obs
    BY <1>5
  <2>2. \A x \in new : x \in old => <<x[1], x[2], 0>> \in obs
    <3>1. \A o \in obs : o = <<o[1], o[2], 0>>
      BY <1>0, <1>5
    <3>. QED  BY <2>1, <3>1
  <2>3. keep \cup add = obs \cup News(m)
    <3>1. News(m) = {<<x[1], x[2], 0>> : x \in new}
      <4>. DEFINE a == m.from
                  b == m.to
      <4>1. News(m) = {<<s, k, 0>> : k \in a .. b} /\ new = {<<s, k>> : k \in a .. b}
        BY DEF News
      <4>. HIDE DEF a, b, s, new
      <4>. QED  BY <4>1, Timed
    <3>. HIDE DEF new, old, keep
    <3>. QED  BY <2>1, <2>2, <3>1
  <2>. HIDE DEF keep, add, new
  <2>. QED  BY <1>2, <1>5, <2>3
<1>6. ASSUME m.from <= m.to, obs = {} \/ first >= 1
      PROVE  Saved(m, 0).obs = News(m) /\ Saved(m, 0).first = 0
  <2>1. new # {}
    BY <1>0, <1>3, <1>6
  <2>2. keep = {}
    <3>. HIDE DEF new
    <3>. QED  BY <1>0, <1>6, <2>1
  <2>3. old = {}
    BY <2>2
  <2>4. add = News(m)
    <3>1. News(m) = {<<x[1], x[2], 0>> : x \in new}
      <4>. DEFINE a == m.from
                  b == m.to
      <4>1. News(m) = {<<s, k, 0>> : k \in a .. b} /\ new = {<<s, k>> : k \in a .. b}
        BY DEF News
      <4>. HIDE DEF a, b, s, new
      <4>. QED  BY <4>1, Timed
    <3>. HIDE DEF new, old, keep
    <3>. QED  BY <2>3, <3>1
  <2>. HIDE DEF keep, add, new
  <2>. QED  BY <1>2, <2>1, <2>2, <2>4
<1>. QED  BY <1>4, <1>5, <1>6

LEMMA LinkStrongInit == Init /\ LinkInit => LinkStrong
<1>. SUFFICES ASSUME Init, LinkInit PROVE LinkStrong
  OBVIOUS
<1>1. Packed
  BY PackedInit
<1>2. out = <<>> /\ Len(out) = 0 /\ now = 0
  BY DEF Init
<1>3. LinkTypes
  <2>1. /\ err \in Int /\ err <= FirstError /\ -FirstError <= err
        /\ first = 0 /\ obs = {} /\ nxt = 0
        /\ lost = FALSE /\ filled = FALSE /\ flag = FALSE /\ ret = 0
    BY LinkAssumption DEF LinkInit
  <2>2. obs \in SUBSET (Systems \X Nat \X {first})
    BY <2>1
  <2>3. nxt \in Nat /\ nxt <= Len(out) + 1 /\ now \in Nat /\ first \in Nat
    BY <1>2, <2>1
  <2>. QED  BY <2>1, <2>2, <2>3 DEF LinkTypes
<1>4. Underway
  BY <1>2 DEF LinkInit, Underway
<1>. QED  BY <1>1, <1>3, <1>4 DEF LinkStrong

LEMMA OlderIs == ASSUME NEW a \in Nat PROVE Older(a) \in Nat /\ Older(a) >= 1
BY LinkAssumption DEF Older

LEMMA AdvanceKeeps == LinkStrong /\ Advance => LinkStrong'
<1>. SUFFICES ASSUME LinkStrong, Advance PROVE LinkStrong'
  OBVIOUS
<1>1. Packed'
  BY PackedStays DEF LinkStrong, Advance
<1>2. /\ first' \in Nat /\ first' >= 1
      /\ obs' \in SUBSET (Systems \X Nat \X {first'})
  <2>1. first \in Nat /\ obs \in SUBSET (Systems \X Nat \X {first})
    BY DEF LinkStrong, LinkTypes
  <2>2. first' = Older(first) /\ obs' = {<<o[1], o[2], Older(o[3])>> : o \in obs}
    BY DEF Advance
  <2>3. \A o \in obs : o[1] \in Systems /\ o[2] \in Nat /\ o[3] = first
    BY <2>1
  <2>. QED  BY <2>1, <2>2, <2>3, OlderIs
<1>3. now' \in Nat
  <2>1. now \in Nat /\ Week \in Nat /\ Week > 0
    BY LinkAssumption DEF LinkStrong, LinkTypes
  <2>. QED  BY <2>1 DEF Advance
<1>4. err' \in Int /\ err' <= FirstError /\ -MaxSilence <= err'
  BY LinkAssumption DEF LinkStrong, LinkTypes, Advance
<1>5. nxt' = 0 /\ lost' = FALSE /\ filled' = FALSE /\ ret' = 0 /\ flag' = flag /\ out' = out
  BY DEF Advance
<1>6. Len(out) \in Nat /\ flag \in BOOLEAN
  BY DEF LinkStrong, LinkTypes, Packed
<1>7. LinkTypes'
  <2>1. nxt' \in Nat /\ nxt' <= Len(out') + 1
    BY <1>5, <1>6
  <2>2. lost' \in BOOLEAN /\ filled' \in BOOLEAN /\ flag' \in BOOLEAN /\ ret' \in {0, 1}
    BY <1>5, <1>6
  <2>. QED  BY <1>2, <1>3, <1>4, <2>1, <2>2 DEF LinkTypes
<1>8. Underway'
  BY <1>2, <1>5, <1>6 DEF Underway
<1>. QED  BY <1>1, <1>7, <1>8 DEF LinkStrong

LEMMA ObserveKeeps == LinkStrong /\ Observe => LinkStrong'
<1>. SUFFICES ASSUME LinkStrong, Observe PROVE LinkStrong'
  OBVIOUS
<1>1. Packed' /\ Fresh'
  BY WriteObsPacks DEF Observe
<1>2. /\ nxt = 0 /\ nxt' = 1 /\ now' = now
      /\ UNCHANGED <<lossy, lost, filled, err, obs, first, flag, ret>>
  BY DEF Observe, WriteObs
<1>3. Len(out') \in Nat
  BY <1>1 DEF Packed
<1>4. LinkTypes'
  BY <1>2, <1>3 DEF LinkStrong, LinkTypes
<1>5. ret = 0 /\ ~lost /\ ~filled /\ (obs # {} => first >= 1)
  BY <1>2 DEF LinkStrong, Underway
<1>6. Delivered(1)' = {}
  <2>1. \A k \in 1 .. Len(out') : ~(k < 1)
    BY <1>3
  <2>. QED  BY <2>1 DEF Delivered
<1>7. nxt' > Len(out') => out' = <<>>
  <2>1. out' \in Seq(Msg)
    BY <1>1 DEF Packed
  <2>. QED  BY <1>2, <1>3, <2>1
<1>8. Underway'
  <2>1. Delivered(nxt)' = {}
    BY <1>2, <1>6 DEF Delivered
  <2>2. ~filled' /\ ret' = 0 /\ (obs' # {} => first' >= 1)
    BY <1>2, <1>5
  <2>. HIDE DEF Delivered
  <2>. QED  BY <1>1, <1>2, <1>7, <2>1, <2>2 DEF Underway
<1>. QED  BY <1>1, <1>4, <1>8 DEF LinkStrong

\* One message more
LEMMA DeliveredMore ==
  ASSUME Packed, NEW j \in 1 .. Len(out)
  PROVE  Delivered(j + 1) = Delivered(j) \cup News(out[j])
<1>1. /\ out[j] \in Msg /\ Len(out) \in Nat
      /\ out[j].from \in Nat /\ out[j].to \in Nat /\ ObsMsgs[out[j].i].sys \in Systems
  <2>1. out[j] \in Msg /\ Len(out) \in Nat
    BY ElementOfSeq DEF Packed
  <2>2. out[j].i \in DOMAIN ObsMsgs
    BY <2>1 DEF Msg
  <2>3. ObsMsgs[out[j].i] \in [sys : Systems, tint : Nat]
    BY <2>2, ConvAssumption, Domain, ElementOfSeq
  <2>. QED  BY <2>1, <2>3 DEF Msg
<1>. DEFINE m == out[j]
            s == ObsMsgs[m.i].sys
<1>2. ASSUME NEW o \in Delivered(j + 1) PROVE o \in Delivered(j) \cup News(m)
  <2>1. PICK k \in 1 .. Len(out) : k < j + 1 /\ o[1] = ObsMsgs[out[k].i].sys /\ In(out[k], o[2])
    BY DEF Delivered
  <2>2. o \in Systems \X Nat \X {0}
    BY DEF Delivered
  <2>3. CASE k < j
    BY <2>1, <2>2, <2>3 DEF Delivered
  <2>4. CASE ~(k < j)
    <3>1. k = j
      BY <1>1, <2>1, <2>4
    <3>2. o = <<s, o[2], 0>>
      BY <2>1, <2>2, <3>1
    <3>3. o[2] \in m.from .. m.to
      BY <1>1, <2>1, <2>2, <3>1 DEF In
    <3>. QED  BY <3>2, <3>3 DEF News
  <2>. QED  BY <2>3, <2>4
<1>3. ASSUME NEW o \in Delivered(j) PROVE o \in Delivered(j + 1)
  <2>1. PICK k \in 1 .. Len(out) : k < j /\ o[1] = ObsMsgs[out[k].i].sys /\ In(out[k], o[2])
    BY DEF Delivered
  <2>2. k < j + 1
    BY <1>1, <2>1
  <2>. QED  BY <2>1, <2>2 DEF Delivered
<1>4. ASSUME NEW k \in m.from .. m.to PROVE <<s, k, 0>> \in Delivered(j + 1)
  <2>1. k \in Nat /\ In(m, k) /\ j < j + 1
    BY <1>1 DEF In
  <2>. DEFINE o == <<s, k, 0>>
  <2>2. o \in Systems \X Nat \X {0} /\ o[1] = s /\ o[2] = k
    BY <1>1, <2>1
  <2>. HIDE DEF o
  <2>. QED  BY <2>1, <2>2 DEF Delivered, o
<1>5. \A o \in News(m) : o \in Delivered(j + 1)
  BY <1>4 DEF News
<1>. QED  BY <1>2, <1>3, <1>5

LEMMA DeliverKeeps == Resolvable /\ LinkStrong /\ Deliver => LinkStrong'
<1>. SUFFICES ASSUME Resolvable, LinkStrong, Deliver PROVE LinkStrong'
  OBVIOUS
<1>. DEFINE m == out[nxt]
            r == Saved(m, 0)
<1>0. Packed /\ LinkTypes /\ Underway /\ UNCHANGED vars /\ lost' = lost /\ nxt' = nxt + 1
  BY DEF LinkStrong, Deliver
<1>1. /\ nxt \in 1 .. Len(out) /\ Len(out) \in Nat /\ m \in Msg
      /\ m.from \in Nat /\ m.to \in Nat /\ m.sync = (nxt # Len(out))
  <2>1. nxt \in 1 .. Len(out) /\ out \in Seq(Msg)
    BY <1>0 DEF Deliver, Packed
  <2>2. m \in Msg
    BY <2>1, ElementOfSeq
  <2>. QED  BY <1>0, <2>1, <2>2 DEF Packed, Msg
<1>2. DecodeMsmHead(m, err) = 0
  BY <1>0, <1>1, HeadIs
<1>3. /\ err' = 0 /\ obs' = r.obs /\ first' = r.first
      /\ flag' = ~m.sync /\ ret' = IF m.sync THEN 0 ELSE 1
      /\ filled' = (filled \/ m.to >= m.from)
  BY <1>2 DEF Deliver
<1>13. /\ nxt = Len(out) => flag' = TRUE /\ ret' = 1
       /\ nxt # Len(out) => flag' = FALSE /\ ret' = 0
  <2>1. nxt = Len(out) => m.sync = FALSE
    BY <1>1
  <2>2. nxt # Len(out) => m.sync = TRUE
    BY <1>1
  <2>. HIDE DEF m, r
  <2>. QED  BY <1>3, <2>1, <2>2
<1>14. flag' \in BOOLEAN /\ ret' \in {0, 1}
  BY <1>13
<1>. HIDE DEF m, r
<1>4. /\ m.to < m.from => obs' = obs /\ first' = first
      /\ m.from <= m.to /\ ~flag /\ first = 0 => obs' = obs \cup News(m) /\ first' = 0
      /\ m.from <= m.to /\ (obs = {} \/ first >= 1) => obs' = News(m) /\ first' = 0
  BY <1>0, <1>1, <1>3, SavedIs DEF r
<1>5. ObsMsgs[m.i].sys \in Systems
  <2>1. m.i \in DOMAIN ObsMsgs
    BY <1>1 DEF Msg
  <2>2. ObsMsgs[m.i] \in [sys : Systems, tint : Nat]
    BY <2>1, ConvAssumption, Domain, ElementOfSeq
  <2>. QED  BY <2>2
<1>6. News(m) \in SUBSET (Systems \X Nat \X {0})
  BY <1>1, <1>5 DEF News
<1>7. m.to < m.from => News(m) = {}
  <2>1. ASSUME m.to < m.from PROVE m.from .. m.to = {}
    BY <1>1, <2>1
  <2>. QED  BY <2>1 DEF News
<1>8. Delivered(nxt + 1) = Delivered(nxt) \cup News(m)
  BY <1>0, <1>1, DeliveredMore DEF m
<1>9. /\ filled => first = 0 /\ ~flag
      /\ ~filled => obs = {} \/ first >= 1
  BY <1>0, <1>1 DEF Underway
<1>10. filled \in BOOLEAN /\ flag \in BOOLEAN /\ first \in Nat /\ obs \in SUBSET (Systems \X Nat \X {first})
  BY <1>0 DEF LinkTypes
<1>11. CASE m.to < m.from
  <2>1. obs' = obs /\ first' = first /\ filled' = filled
    BY <1>1, <1>3, <1>4, <1>10, <1>11
  <2>2. LinkTypes'
    BY <1>0, <1>1, <1>3, <2>1, LinkAssumption DEF LinkTypes, vars
  <2>3. nxt > 0 /\ ~lost => (filled => obs = Delivered(nxt + 1)) /\ (~filled => Delivered(nxt + 1) = {})
    BY <1>0, <1>1, <1>7, <1>8, <1>11 DEF Underway
  <2>4. Delivered(nxt)' = Delivered(nxt + 1)
    BY <1>0 DEF Delivered, vars
  <2>. HIDE DEF Delivered
  <2>5. Fresh'
    BY <1>0, <1>1 DEF Underway, Fresh, Due, vars
  <2>6. Underway'
    <3>1. nxt' > 0 /\ out' = out /\ (nxt' > Len(out) <=> ret' = 1)
      BY <1>0, <1>1, <1>13 DEF vars
    <3>2. nxt' <= Len(out) => ~flag'
      BY <1>0, <1>1, <1>13
    <3>3. nxt' > 0 /\ ~lost' => (filled' => obs' = Delivered(nxt)') /\ (~filled' => Delivered(nxt)' = {})
      BY <1>0, <1>1, <2>1, <2>3, <2>4
    <3>4. filled' => err' = 0 /\ first' = 0
      BY <1>3, <1>9, <2>1
    <3>5. ~filled' /\ obs' # {} => first' >= 1
      BY <1>9, <2>1
    <3>. QED  BY <2>5, <3>1, <3>2, <3>3, <3>4, <3>5 DEF Underway
  <2>. QED  BY <1>0, <2>2, <2>6, PackedStays DEF LinkStrong, vars
<1>12. CASE m.from <= m.to
  <2>1. filled' /\ first' = 0 /\ (filled => obs' = obs \cup News(m)) /\ (~filled => obs' = News(m))
    BY <1>1, <1>3, <1>4, <1>9, <1>10, <1>12
  <2>2. LinkTypes'
    <3>1. obs' \in SUBSET (Systems \X Nat \X {0})
      BY <1>6, <1>9, <1>10, <2>1
    <3>. HIDE DEF News
    <3>2. filled' \in BOOLEAN
      BY <1>3
    <3>3. obs' \in SUBSET (Systems \X Nat \X {first'}) /\ first' \in Nat
      BY <2>1, <3>1
    <3>. HIDE DEF r
    <3>4. err' \in Int /\ err' <= FirstError /\ -FirstError <= err'
      BY <1>3, LinkAssumption
    <3>5. now' \in Nat /\ nxt' \in Nat /\ nxt' <= Len(out') + 1 /\ lost' \in BOOLEAN
      BY <1>0, <1>1 DEF LinkTypes, vars
    <3>. QED  BY <1>14, <3>2, <3>3, <3>4, <3>5 DEF LinkTypes
  <2>3. ~lost => obs' = Delivered(nxt + 1)
    <3>1. ASSUME ~lost PROVE (filled => obs = Delivered(nxt)) /\ (~filled => Delivered(nxt) = {})
      BY <1>0, <1>1, <3>1 DEF Underway
    <3>. HIDE DEF Delivered, News
    <3>2. ASSUME ~lost, filled PROVE obs' = Delivered(nxt + 1)
      BY <1>8, <2>1, <3>1, <3>2
    <3>3. ASSUME ~lost, ~filled PROVE obs' = Delivered(nxt + 1)
      BY <1>8, <2>1, <3>1, <3>3
    <3>. QED  BY <3>2, <3>3
  <2>4. Delivered(nxt)' = Delivered(nxt + 1)
    BY <1>0 DEF Delivered, vars
  <2>. HIDE DEF Delivered
  <2>5. Fresh'
    BY <1>0, <1>1 DEF Underway, Fresh, Due, vars
  <2>6. Underway'
    <3>1. nxt' > 0 /\ out' = out /\ (nxt' > Len(out) <=> ret' = 1)
      BY <1>0, <1>1, <1>13 DEF vars
    <3>2. nxt' <= Len(out) => ~flag'
      BY <1>0, <1>1, <1>13
    <3>3. nxt' > 0 /\ ~lost' => (filled' => obs' = Delivered(nxt)') /\ (~filled' => Delivered(nxt)' = {})
      BY <1>0, <1>1, <2>1, <2>3, <2>4
    <3>4. filled' => err' = 0 /\ first' = 0
      BY <1>3, <1>9, <2>1
    <3>5. ~filled' /\ obs' # {} => first' >= 1
      BY <1>9, <2>1
    <3>. QED  BY <2>5, <3>1, <3>2, <3>3, <3>4, <3>5 DEF Underway
  <2>. QED  BY <1>0, <2>2, <2>6, PackedStays DEF LinkStrong, vars
<1>. QED  BY <1>1, <1>11, <1>12

LEMMA LoseKeeps == LinkStrong /\ Lose => LinkStrong'
<1>. SUFFICES ASSUME LinkStrong, Lose PROVE LinkStrong'
  OBVIOUS
<1>1. /\ Packed /\ LinkTypes /\ Underway /\ UNCHANGED vars
      /\ nxt \in 1 .. Len(out) /\ Len(out) \in Nat
      /\ nxt' = nxt + 1 /\ lost' = TRUE /\ ret' = 0
      /\ UNCHANGED <<lossy, filled, err, obs, first, flag, lltime, lock, owed, missed>>
  BY DEF LinkStrong, Lose, Packed
<1>2. LinkTypes'
  BY <1>1 DEF LinkTypes, vars
<1>3. Fresh'
  BY <1>1 DEF Underway, Fresh, Due, vars
<1>4. Underway'
  BY <1>1, <1>3 DEF Underway, vars
<1>. QED  BY <1>1, <1>2, <1>4, PackedStays DEF LinkStrong, vars

LEMMA LinkStrongStep == Resolvable /\ LinkStrong /\ [LinkNext]_<<vars, linkVars>> => LinkStrong'
<1>. SUFFICES ASSUME Resolvable, LinkStrong, [LinkNext]_<<vars, linkVars>> PROVE LinkStrong'
  OBVIOUS
<1>1. CASE UNCHANGED <<vars, linkVars>>
  <2>1. Packed'
    BY <1>1, PackedStays DEF LinkStrong, vars
  <2>2. LinkTypes'
    BY <1>1 DEF LinkStrong, LinkTypes, vars, linkVars
  <2>3. Delivered(nxt)' = Delivered(nxt) /\ Fresh' = Fresh
    BY <1>1 DEF Delivered, Fresh, Due, vars, linkVars
  <2>. HIDE DEF Delivered, Fresh
  <2>4. Underway'
    BY <1>1, <2>3 DEF LinkStrong, Underway, vars, linkVars
  <2>. QED  BY <2>1, <2>2, <2>4 DEF LinkStrong
<1>. QED  BY <1>1, AdvanceKeeps, ObserveKeeps, DeliverKeeps, LoseKeeps DEF LinkNext

\* All that is sent has been delivered when the last message has.
LEMMA AllDelivered ==
  ASSUME Packed, Fresh
  PROVE  Delivered(Len(out) + 1) = SentObs
<1>0. out \in Seq(Msg) /\ Len(out) \in Nat /\ epoch \in [Systems -> SysObs] /\ MaxSat \in Nat
  BY ConvAssumption DEF Packed
<1>1. ASSUME NEW o \in Delivered(Len(out) + 1) PROVE o \in SentObs
  <2>1. PICK k \in 1 .. Len(out) : o[1] = ObsMsgs[out[k].i].sys /\ In(out[k], o[2])
    BY DEF Delivered
  <2>2. o \in Systems \X Nat \X {0} /\ o = <<o[1], o[2], 0>> /\ o[2] \in Nat
    BY DEF Delivered
  <2>3. out[k] \in Msg
    BY <1>0, ElementOfSeq
  <2>. DEFINE i == out[k].i
  <2>4. /\ Due(i) /\ i \in DOMAIN ObsMsgs /\ out[k].from \in Nat /\ out[k].to \in Nat
        /\ out[k].from >= 1 /\ out[k].to <= epoch[o[1]].n
    BY <2>1, <2>3 DEF Fresh, Msg, Packed, Of
  <2>5. o[1] \in DueSystems
    BY <2>1, <2>4 DEF DueSystems
  <2>6. epoch[o[1]].n \in Nat
    BY <1>0, <2>2 DEF SysObs
  <2>7. o[2] \in 1 .. epoch[o[1]].n
    BY <2>1, <2>2, <2>4, <2>6 DEF In
  <2>. HIDE DEF i
  <2>8. o \in {<<o[1], k_1, 0>> : k_1 \in 1 .. epoch[o[1]].n}
    BY <2>2, <2>7
  <2>. QED  BY <2>5, <2>8 DEF SentObs
<1>2. ASSUME NEW s \in DueSystems, NEW k \in 1 .. epoch[s].n PROVE <<s, k, 0>> \in Delivered(Len(out) + 1)
  <2>1. PICK i \in DOMAIN ObsMsgs : Due(i) /\ ObsMsgs[i].sys = s
    BY DEF DueSystems
  <2>2. s \in Systems
    <3>1. ObsMsgs[i] \in [sys : Systems, tint : Nat]
      BY ConvAssumption, Domain, ElementOfSeq
    <3>. QED  BY <2>1, <3>1
  <2>3. k \in 1 .. Of(epoch, i).n /\ k \in Nat
    BY <2>1 DEF Of
  <2>4. PICK l \in 1 .. Len(out) : out[l].i = i /\ In(out[l], k)
    BY <2>1, <2>3 DEF Fresh
  <2>. DEFINE o == <<s, k, 0>>
  <2>5. o \in Systems \X Nat \X {0} /\ o[1] = s /\ o[2] = k /\ l < Len(out) + 1
    BY <1>0, <2>2, <2>3, <2>4
  <2>. HIDE DEF o
  <2>. QED  BY <2>1, <2>4, <2>5 DEF Delivered, o
<1>3. \A o \in SentObs : o \in Delivered(Len(out) + 1)
  BY <1>2 DEF SentObs
<1>. QED  BY <1>1, <1>3

LEMMA LinkStrongIs == LinkStrong => LinkInv
<1>. SUFFICES ASSUME LinkStrong PROVE LinkInv
  OBVIOUS
<1>1. MsmComplete
  BY PackedComplete DEF LinkStrong
<1>2. TimeResolved /\ EpochEnds
  BY DEF LinkStrong, Underway, TimeResolved, EpochEnds
<1>3. EpochArrives
  <2>. SUFFICES ASSUME ret = 1
                PROVE  /\ \A o, p \in obs : o[3] = p[3]
                       /\ filled => \A o \in obs : o[3] = 0
                       /\ filled /\ ~lost => obs = SentObs /\ nxt > Len(out)
    BY DEF EpochArrives
  <2>1. \A o \in obs : o[3] = first
    BY DEF LinkStrong, LinkTypes
  <2>2. filled => first = 0
    BY DEF LinkStrong, Underway
  <2>3. Len(out) \in Nat /\ nxt \in Nat /\ nxt <= Len(out) + 1 /\ nxt > Len(out)
    BY DEF LinkStrong, LinkTypes, Underway, Packed
  <2>4. nxt = Len(out) + 1 /\ nxt > 0
    BY <2>3
  <2>5. ASSUME filled, ~lost PROVE obs = SentObs
    <3>1. Fresh /\ obs = Delivered(nxt)
      BY <2>4, <2>5 DEF LinkStrong, Underway
    <3>. QED  BY <2>4, <3>1, AllDelivered DEF LinkStrong
  <2>. QED  BY <2>1, <2>2, <2>3, <2>5
<1>. QED  BY <1>1, <1>2, <1>3 DEF LinkInv

-----------------------------------------------------------------------------
(* The specification that the run checks: the converter by itself and the    *)
(* L6 frames leave the link alone.                                           *)

Safely == MessagesInit /\ [][MessagesNext]_messageVars
LEMMA SpecSafely == MessagesSpec => Safely
BY PTL DEF MessagesSpec, Safely

\* What is sent is packed as above, and until the next epoch it is what is due.
Sent ==
    /\ Packed /\ nxt \in Nat /\ (nxt > 0 => Fresh)
    /\ of # "link" => nxt = 0

LEMMA SentInit == MessagesInit => Sent
BY PackedInit DEF MessagesInit, LinkInit, Sent

LEMMA SentStep == Sent /\ [MessagesNext]_messageVars => Sent'
<1>. SUFFICES ASSUME Sent, [MessagesNext]_messageVars PROVE Sent'
  OBVIOUS
<1>1. CASE of = "conv" /\ Next /\ UNCHANGED <<linkVars, routeVars>> /\ UNCHANGED of
  BY <1>1, PackedStep DEF Sent, linkVars
<1>2. CASE of = "link" /\ LinkNext /\ UNCHANGED of
  <2>1. CASE Advance
    BY <1>2, <2>1, PackedStays DEF Advance, Sent
  <2>2. CASE Observe
    BY <1>2, <2>2, WriteObsPacks DEF Observe, Sent
  <2>3. CASE Deliver \/ Lose
    <3>1. UNCHANGED vars /\ nxt' = nxt + 1 /\ nxt \in 1 .. Len(out) /\ of' = of
      BY <1>2, <2>3 DEF Deliver, Lose
    <3>2. nxt \in Nat /\ nxt > 0
      BY <3>1 DEF Sent
    <3>3. Fresh'
      BY <3>1, <3>2 DEF Sent, Fresh, Due, vars
    <3>. QED  BY <1>2, <3>1, <3>2, <3>3, PackedStays DEF Sent, vars
  <2>. QED  BY <1>2, <2>1, <2>2, <2>3 DEF LinkNext
<1>3. CASE UNCHANGED <<vars, linkVars, of>>
  <2>1. Fresh' = Fresh /\ UNCHANGED <<out, epoch, nxt, of>>
    BY <1>3 DEF Fresh, Due, vars, linkVars
  <2>. HIDE DEF Fresh
  <2>. QED  BY <2>1, PackedStays DEF Sent
<1>. QED  BY <1>1, <1>2, <1>3 DEF MessagesNext, messageVars

\* Every satellite of an epoch is in exactly one message of each type that is due, no message
\* has more than MaxCell cells, and only the last one ends the epoch, for any systems,
\* messages, intervals and limits.
THEOREM MsmCompleteHolds == MessagesSpec => []MsmComplete
<1>1. Sent => MsmComplete
  BY PackedComplete DEF Sent
<1>. QED  BY <1>1, SpecSafely, SentInit, SentStep, PTL DEF Safely

\* The converter by itself reads the time too.
Timed0 == LinkStrong /\ (of # "link" => nxt = 0 /\ tick \in Nat /\ tick <= now)

LEMMA TimedInit == MessagesInit => Timed0
BY LinkStrongInit DEF MessagesInit, Init, LinkInit, Timed0

LEMMA ConvKeeps ==
  ASSUME Timed0, of # "link", of' = of, [Next]_vars, UNCHANGED linkVars
  PROVE  Timed0'
<1>1. Packed'
  BY PackedStep DEF Timed0, LinkStrong
<1>2. now' \in Nat /\ tick' \in Nat /\ tick' <= now'
  <2>0. now \in Nat /\ tick \in Nat /\ tick <= now
    BY DEF Timed0, LinkStrong, LinkTypes
  <2>1. CASE Tick
    BY <2>0, <2>1 DEF Tick
  <2>2. CASE ~Tick
    <3>1. now' = now /\ (tick' = tick \/ tick' = now)
      BY <2>2 DEF Next, WriteObs, ReceiveEph, WriteNavCycle, vars
    <3>. QED  BY <2>0, <3>1
  <2>. QED  BY <2>1, <2>2
<1>3. Len(out') \in Nat /\ nxt' = 0
  BY <1>1 DEF Packed, Timed0, linkVars
<1>4. LinkTypes'
  BY <1>2, <1>3 DEF Timed0, LinkStrong, LinkTypes, linkVars
<1>5. Underway'
  BY <1>3 DEF Timed0, LinkStrong, Underway, linkVars
<1>. QED  BY <1>1, <1>2, <1>3, <1>4, <1>5 DEF Timed0, LinkStrong

LEMMA TimedStep == Resolvable /\ Timed0 /\ [MessagesNext]_messageVars => Timed0'
<1>. SUFFICES ASSUME Resolvable, Timed0, [MessagesNext]_messageVars PROVE Timed0'
  OBVIOUS
<1>1. CASE of = "link" /\ of' = of /\ [LinkNext]_<<vars, linkVars>>
  BY <1>1, LinkStrongStep DEF Timed0
<1>2. CASE of # "link" /\ of' = of /\ [Next]_vars /\ UNCHANGED linkVars
  BY <1>2, ConvKeeps
<1>. QED  BY <1>1, <1>2 DEF MessagesNext, messageVars

\* What a receiver is told of an epoch is what was sent, with the time it was sent at, and all
\* of it is sent: for any systems, messages, intervals and lengths of the week, over a link that
\* loses messages, when the receiver's first time is as near as the comment of the code asks.
THEOREM LinkInvHolds ==
  ASSUME Resolvable
  PROVE  MessagesSpec => []LinkInv
<1>1. Timed0 /\ [MessagesNext]_messageVars => Timed0'
  BY TimedStep
<1>2. Timed0 => LinkInv
  BY LinkStrongIs DEF Timed0
<1>. QED  BY <1>1, <1>2, SpecSafely, TimedInit, PTL DEF Safely

-----------------------------------------------------------------------------
(* Slips of the carrier phase.                                              *)

\* The watched system is in every epoch.
EveryEpoch == \E i \in DOMAIN ObsMsgs : ObsMsgs[i].sys = Watched /\ ObsMsgs[i].tint = 0

\* A slip not yet told is one of this epoch, and its message is still to come.
ToTell ==
    /\ lltime = 0 /\ nxt >= 1 /\ epoch[Watched].n >= 1
    /\ \A k \in 1 .. Len(out) : k < nxt => ~Carries(out[k])
SlipStrong ==
    /\ Sent
    /\ lltime \in Nat /\ lock \in Nat /\ owed \in BOOLEAN /\ missed \in BOOLEAN
    /\ ~lossy /\ owed => ToTell
    /\ missed => lossy

LEMMA SlipInit == MessagesInit => SlipStrong
<1>. SUFFICES ASSUME MessagesInit PROVE SlipStrong
  OBVIOUS
<1>1. lltime = AgeCap /\ lock = 0 /\ owed = FALSE /\ missed = FALSE
  BY DEF MessagesInit, LinkInit
<1>2. lltime \in Nat /\ lock \in Nat /\ owed \in BOOLEAN /\ missed \in BOOLEAN
  BY <1>1, LinkAssumption
<1>. QED  BY <1>1, <1>2, SentInit DEF SlipStrong

\* When all messages have been sent none is left to come.
LEMMA NothingToTell ==
  ASSUME EveryEpoch, Sent, ToTell, nxt > Len(out)
  PROVE  FALSE
<1>0. out \in Seq(Msg) /\ Len(out) \in Nat /\ nxt \in Nat /\ Fresh /\ epoch \in [Systems -> SysObs]
  BY DEF Sent, ToTell, Packed
<1>1. PICK i \in DOMAIN ObsMsgs : ObsMsgs[i].sys = Watched /\ ObsMsgs[i].tint = 0
  BY DEF EveryEpoch
<1>2. Due(i)
  BY <1>1 DEF Due
<1>3. 1 \in 1 .. Of(epoch, i).n
  <2>1. epoch[Watched].n \in Nat /\ epoch[Watched].n >= 1
    BY <1>0, LinkAssumption, ConvAssumption DEF SysObs, ToTell
  <2>. QED  BY <1>1, <2>1 DEF Of
<1>4. PICK k \in 1 .. Len(out) : out[k].i = i /\ In(out[k], 1)
  BY <1>0, <1>2, <1>3 DEF Fresh
<1>5. out[k] \in Msg
  BY <1>0, ElementOfSeq
<1>6. Carries(out[k])
  BY <1>1, <1>4, <1>5 DEF Carries, In, Msg
<1>. QED  BY <1>0, <1>4, <1>6 DEF ToTell

LEMMA SlipLink == EveryEpoch /\ SlipStrong /\ Sent' /\ LinkNext => SlipStrong'
<1>. SUFFICES ASSUME EveryEpoch, SlipStrong, Sent', LinkNext PROVE SlipStrong'
  OBVIOUS
<1>1. CASE Advance
  <2>1. lltime' \in Nat
    BY <1>1, OlderIs DEF Advance, SlipStrong
  <2>2. ~(~lossy /\ owed)
    BY <1>1, NothingToTell DEF Advance, SlipStrong
  <2>. QED  BY <1>1, <2>1, <2>2 DEF Advance, SlipStrong
<1>2. CASE Observe
  <2>1. nxt = 0 /\ nxt' = 1 /\ UNCHANGED <<lossy, lock, missed>>
    BY <1>2 DEF Observe
  <2>2. PICK slip \in BOOLEAN :
          /\ slip => epoch'[Watched].n > 0
          /\ lltime' = LockTime(slip) /\ owed' = (owed \/ slip)
    BY <1>2 DEF Observe
  <2>3. ~(~lossy /\ owed)
    BY <2>1 DEF SlipStrong, ToTell
  <2>4. lltime' \in Nat /\ owed' \in BOOLEAN
    BY <2>2 DEF LockTime, SlipStrong
  <2>5. ASSUME ~lossy, owed' PROVE ToTell'
    <3>1. slip /\ lltime' = 0
      BY <2>2, <2>3, <2>5 DEF LockTime, SlipStrong
    <3>2. epoch'[Watched].n >= 1
      <4>1. epoch' \in [Systems -> SysObs]
        BY DEF Sent, Packed
      <4>2. epoch'[Watched].n \in Nat
        BY <4>1, LinkAssumption, ConvAssumption DEF SysObs
      <4>. QED  BY <2>2, <3>1, <4>2
    <3>3. \A k \in 1 .. Len(out') : ~(k < nxt')
      BY <2>1
    <3>. QED  BY <2>1, <3>1, <3>2, <3>3 DEF ToTell
  <2>. QED  BY <2>1, <2>4, <2>5 DEF SlipStrong
<1>3. CASE Deliver
  <2>1. /\ nxt \in 1 .. Len(out) /\ nxt' = nxt + 1 /\ UNCHANGED <<vars, lossy, lltime>>
        /\ Carries(out[nxt]) => /\ lock' = lltime /\ owed' = FALSE
                                /\ missed' = (owed /\ ~LossOfLock(lltime))
        /\ ~Carries(out[nxt]) => UNCHANGED <<lock, owed, missed>>
    BY <1>3 DEF Deliver
  <2>2. CASE Carries(out[nxt])
    <3>1. lock' \in Nat /\ owed' = FALSE /\ lltime' \in Nat /\ missed' \in BOOLEAN
      BY <2>1, <2>2 DEF SlipStrong
    <3>2. ASSUME ~lossy, missed' PROVE FALSE
      <4>1. owed /\ ~LossOfLock(lltime)
        BY <2>1, <2>2, <3>2
      <4>2. lltime = 0 /\ lock \in Nat
        BY <3>2, <4>1 DEF SlipStrong, ToTell
      <4>. QED  BY <4>1, <4>2 DEF LossOfLock
    <3>. QED  BY <2>1, <3>1, <3>2 DEF SlipStrong
  <2>3. CASE ~Carries(out[nxt])
    <3>1. ASSUME ToTell PROVE ToTell'
      <4>1. out' = out /\ epoch' = epoch /\ lltime' = lltime
        BY <2>1 DEF vars
      <4>2. \A k \in 1 .. Len(out) : k < nxt + 1 => k < nxt \/ k = nxt
        BY <2>1
      <4>3. \A k \in 1 .. Len(out) : k < nxt + 1 => ~Carries(out[k])
        BY <2>3, <3>1, <4>2 DEF ToTell
      <4>. QED  BY <2>1, <3>1, <4>1, <4>3 DEF ToTell, Carries
    <3>. QED  BY <2>1, <2>3, <3>1 DEF SlipStrong
  <2>. QED  BY <2>2, <2>3
<1>4. CASE Lose
  BY <1>4 DEF Lose, SlipStrong
<1>. QED  BY <1>1, <1>2, <1>3, <1>4 DEF LinkNext

LEMMA SlipStep == EveryEpoch /\ SlipStrong /\ [MessagesNext]_messageVars => SlipStrong'
<1>. SUFFICES ASSUME EveryEpoch, SlipStrong, [MessagesNext]_messageVars PROVE SlipStrong'
  OBVIOUS
<1>1. Sent'
  BY SentStep DEF SlipStrong
<1>2. CASE of = "link" /\ LinkNext
  BY <1>1, <1>2, SlipLink
<1>3. CASE of # "link" /\ UNCHANGED <<linkVars, of>>
  <2>1. nxt = 0
    BY <1>3 DEF SlipStrong, Sent
  <2>2. ~(~lossy /\ owed)
    BY <2>1 DEF SlipStrong, ToTell
  <2>. QED  BY <1>1, <1>3, <2>2 DEF SlipStrong, linkVars
<1>4. CASE UNCHANGED <<vars, linkVars>>
  <2>1. ToTell' = ToTell
    BY <1>4 DEF ToTell, Carries, vars, linkVars
  <2>. HIDE DEF ToTell
  <2>. QED  BY <1>1, <1>4, <2>1 DEF SlipStrong, vars, linkVars
<1>. QED  BY <1>2, <1>3, <1>4 DEF MessagesNext, messageVars

\* With the system in every epoch, a receiver that gets every message hears of every slip with
\* the next observation of the satellite, whatever its lock times were and whatever else the
\* epochs hold.
THEOREM SlipToldHolds ==
  ASSUME EveryEpoch
  PROVE  MessagesSpec => []SlipTold
<1>1. SlipStrong /\ [MessagesNext]_messageVars => SlipStrong'
  BY SlipStep
<1>2. SlipStrong => SlipTold
  BY DEF SlipStrong, SlipTold
<1>. QED  BY <1>1, <1>2, SpecSafely, SlipInit, PTL DEF Safely
=============================================================================
