----------------------------- MODULE AppsProofs -----------------------------
(***************************************************************************)
(* Proofs about the two applications that run servers, for any number of    *)
(* outputs, blocks, starts and consoles, any size of the peek buffer and     *)
(* any of the faults.                                                       *)
(***************************************************************************)
EXTENDS Apps, SequenceTheorems, WellFoundedInduction, TLAPS

CopySpec == CopyInit /\ [][CopyNext]_copyVars
ConsoleSpec == Init /\ [][Next]_vars

\* What the two applications do together, each does on its own.
LEMMA OneServer == AppsSpec => CopySpec /\ ConsoleSpec
<1>1. AppsInit => CopyInit /\ Init
  BY DEF AppsInit
<1>2. [AppsNext]_appVars => [CopyNext]_copyVars /\ [Next]_vars
  BY DEF AppsNext, appVars
<1>. QED  BY <1>1, <1>2, PTL DEF AppsSpec, CopySpec, ConsoleSpec

-----------------------------------------------------------------------------
(* The stream server: who is alive when.                                    *)

Working == {"top", "read", "write", "peekbuf", "append", "return"}
Leaving == {"close", "closelogs", "empty", "free", "ended"}
Starting == {"open", "undo", "logs", "create", "thread"}

\* A thread is there from the end of a start to the join, and knows why it leaves.
ThreadThere ==
    /\ call \in Starting => thr = "none" /\ mem = "live" /\ (svrState = 1 <=> call = "thread")
    /\ call = "idle" /\ svrState = 0 => thr = "none"
    /\ call = "join" => svrState = 0 /\ thr # "none"
    /\ svrState = 1 /\ call # "thread" => thr \in Working
    /\ thr \in Leaving => call = "join"
    /\ thr \in Working => mem = "live"

\* Which streams a start, a failed start and a thread that leaves have open.
StreamsOpen ==
    /\ call = "open" => atCall >= 0 /\ open \subseteq 0 .. atCall - 1
    /\ call = "undo" => atCall <= NOut /\ open \subseteq 0 .. atCall
    /\ call \in {"logs", "create", "thread"} => atCall >= 0
    /\ call = "idle" /\ svrState = 0 => open = {}
    /\ thr \in {"closelogs", "empty", "free", "ended"} => open = {}
    /\ thr \in {"empty", "free", "ended"} => logs = {}

\* Between a read and the log the outputs before "at" have the block, the others not yet.
Halfway ==
    /\ thr \in {"write", "return"} => at >= 1
    /\ thr \in {"write", "peekbuf", "append"} => buff = input /\ buff # 0
    /\ thr = "write" => \A o \in Outs : outs[o] = IF o < at THEN Append(outs[0], buff) ELSE outs[0]
    /\ thr # "write" => \A o \in Outs : outs[o] = outs[0]

Upto(s, m) == \A n \in DOMAIN s : s[n] <= m

\* What was written and what was put into the peek buffer is in order, and ends before the
\* block that is still on its way there.
InOrder ==
    /\ Increasing(outs[0]) /\ Upto(outs[0], IF thr = "write" THEN input - 1 ELSE input)
    /\ Increasing(peeked \o pbuf)
    /\ Upto(peeked \o pbuf, IF thr \in {"write", "peekbuf", "append"} THEN input - 1 ELSE input)

\* Each start costs one block at most: its thread may be told to stop while it reads.
Missed == input - Len(outs[0])
MissedFew ==
    /\ Missed <= starts
    /\ call \in Starting \/ (thr \in {"top", "return"} /\ svrState = 1) \/ thr \in {"read", "peekbuf", "append"}
          => Missed <= starts - 1

\* What a console is to copy is in the peek buffer, which holds blocks only while it is
\* allocated and the thread has not emptied it.
PeekThere ==
    /\ peek = "copy" /\ ~torn => npeek <= Len(pbuf)
    /\ pbuf # <<>> => mem = "live" /\ thr \in Working \cup {"close", "closelogs", "empty"}

CopyStrong ==
    /\ CopyTypeOK /\ ThreadThere /\ StreamsOpen /\ Halfway /\ InOrder /\ MissedFew /\ RelayIsExact
    /\ PeekThere

\* The steps of the controller, of the console and of the thread, one by one.
LEMMA Steps ==
  CopyNext => /\ ~torn
              /\ \/ CallStart \/ StartOpen \/ StartUndo \/ StartLogs \/ StartState \/ StartCreate
                 \/ CallStop \/ StopJoin
                 \/ PeekAsk \/ PeekLock \/ PeekCount \/ PeekCopy
                 \/ ThreadTop \/ ThreadRead \/ ThreadWrite \/ ThreadLock \/ ThreadAppend
                 \/ ReturnBlock \/ ReturnNone \/ ReturnEnd \/ ThreadClose \/ ThreadEmpty \/ ThreadFree
BY DEF CopyNext, Controller, CallUnderWay, Peeker, PeekUnderWay, PeekLocked, CopyThread

\* A new last element that is above all others keeps a sequence in order.
LEMMA AppendInOrder ==
  ASSUME NEW M, M \subseteq Nat, NEW s \in Seq(M), NEW b \in M, NEW m \in Int, Increasing(s), Upto(s, m), m < b
  PROVE  Increasing(Append(s, b)) /\ Upto(Append(s, b), b)
<1>1. /\ DOMAIN s = 1 .. Len(s) /\ DOMAIN Append(s, b) = 1 .. Len(s) + 1 /\ Len(s) \in Nat
      /\ \A i \in 1 .. Len(s) : Append(s, b)[i] = s[i] /\ s[i] \in Nat
      /\ Append(s, b)[Len(s) + 1] = b
  <2>1. \A i \in 1 .. Len(s) : s[i] \in Nat
    BY ElementOfSeq
  <2>2. Append(s, b) \in Seq(M) /\ Len(Append(s, b)) = Len(s) + 1
    BY AppendProperties
  <2>3. /\ \A i \in 1 .. Len(s) : Append(s, b)[i] = s[i]
        /\ Append(s, b)[Len(s) + 1] = b
    BY AppendProperties
  <2>. QED  BY <2>1, <2>2, <2>3, LenProperties
<1>2. \A i \in 1 .. Len(s) : s[i] < b
  BY <1>1 DEF Upto
<1>3. Increasing(Append(s, b))
  <2>. SUFFICES ASSUME NEW i \in 1 .. Len(s) + 1, NEW j \in 1 .. Len(s) + 1, i < j
                PROVE  Append(s, b)[i] < Append(s, b)[j]
    BY <1>1 DEF Increasing
  <2>1. i \in 1 .. Len(s)
    BY <1>1
  <2>2. CASE j = Len(s) + 1
    BY <1>1, <1>2, <2>1, <2>2
  <2>3. CASE j \in 1 .. Len(s)
    BY <1>1, <2>1, <2>3 DEF Increasing
  <2>. QED  BY <1>1, <2>2, <2>3
<1>4. Upto(Append(s, b), b)
  BY <1>1, <1>2 DEF Upto
<1>. QED  BY <1>3, <1>4

\* So is what a sequence begins with.
LEMMA StartInOrder ==
  ASSUME NEW M, M \subseteq Nat, NEW s \in Seq(M), NEW t \in Seq(M), NEW m \in Int, Increasing(s \o t), Upto(s \o t, m)
  PROVE  Increasing(s) /\ Upto(s, m)
<1>1. /\ DOMAIN s = 1 .. Len(s) /\ DOMAIN (s \o t) = 1 .. Len(s) + Len(t)
      /\ Len(s) \in Nat /\ Len(t) \in Nat
      /\ \A i \in 1 .. Len(s) : (s \o t)[i] = s[i]
  BY ConcatProperties, LenProperties
<1>. QED  BY <1>1 DEF Increasing, Upto

\* The console takes blocks from the front of the peek buffer.
LEMMA PeekTypes ==
  ASSUME NEW M, NEW s \in Seq(M), NEW t \in Seq(M), NEW n \in 0 .. Len(t)
  PROVE  /\ SubSeq(t, 1, n) \in Seq(M) /\ SubSeq(t, n + 1, Len(t)) \in Seq(M)
         /\ s \o SubSeq(t, 1, n) \in Seq(M)
         /\ Len(SubSeq(t, n + 1, Len(t))) <= Len(t)
<1>1. Len(t) \in Nat /\ \A i \in 1 .. Len(t) : t[i] \in M
  BY LenProperties, ElementOfSeq
<1>2. SubSeq(t, 1, n) \in Seq(M)
  BY <1>1, SubSeqProperties
<1>3. SubSeq(t, n + 1, Len(t)) \in Seq(M) /\ Len(SubSeq(t, n + 1, Len(t))) <= Len(t)
  BY <1>1, SubSeqProperties
<1>. QED  BY <1>2, <1>3, ConcatProperties

LEMMA PeekMoves ==
  ASSUME NEW M, NEW s \in Seq(M), NEW t \in Seq(M), NEW n \in 0 .. Len(t)
  PROVE  (s \o SubSeq(t, 1, n)) \o SubSeq(t, n + 1, Len(t)) = s \o t
<1>1. SubSeq(t, 1, n) \in Seq(M) /\ SubSeq(t, n + 1, Len(t)) \in Seq(M)
  BY PeekTypes
<1>2. SubSeq(t, 1, n) \o SubSeq(t, n + 1, Len(t)) = t
  <2>1. 1 \in 1 .. Len(t) + 1 /\ n \in 1 - 1 .. Len(t) /\ Len(t) \in n .. Len(t)
    BY LenProperties
  <2>2. SubSeq(t, 1, n) \o SubSeq(t, n + 1, Len(t)) = SubSeq(t, 1, Len(t))
    BY <2>1, ConcatAdjacentSubSeq
  <2>. QED  BY <2>2, SubSeqFull
<1>3. ASSUME NEW u \in Seq(M), NEW v \in Seq(M) PROVE (s \o u) \o v = s \o (u \o v)
  BY ConcatAssociative, SMTT(30)
<1>4. (s \o SubSeq(t, 1, n)) \o SubSeq(t, n + 1, Len(t)) = s \o (SubSeq(t, 1, n) \o SubSeq(t, n + 1, Len(t)))
  BY <1>1, <1>3, Zenon
<1>. QED  BY <1>2, <1>4, Zenon

\* The thread adds one to its end.
LEMMA AppendJoins ==
  ASSUME NEW M, NEW s \in Seq(M), NEW t \in Seq(M), NEW b \in M
  PROVE  s \o Append(t, b) = Append(s \o t, b)
<1>1. <<b>> \in Seq(M) /\ s \o t \in Seq(M)
  BY ConcatProperties
<1>2. Append(t, b) = t \o <<b>> /\ Append(s \o t, b) = (s \o t) \o <<b>>
  BY <1>1, AppendIsConcat
<1>. QED  BY <1>1, <1>2, ConcatAssociative

\* Every step keeps track of who is alive and of what is open.
LEMMA ControlStep == CopyStrong /\ [CopyNext]_copyVars => ThreadThere' /\ StreamsOpen'
<1>. SUFFICES ASSUME CopyStrong, [CopyNext]_copyVars PROVE ThreadThere' /\ StreamsOpen'
  OBVIOUS
<1>. USE StrSvrAssumption DEF ThreadThere, StreamsOpen, Starting, Working, Leaving
<1>0. CopyTypeOK /\ ThreadThere /\ StreamsOpen
  BY DEF CopyStrong
<1>. USE <1>0 DEF CopyTypeOK
<1>1. CASE CallStart
  <2>1. UNCHANGED <<svrState, open, logs, thr>> /\ call = "idle"
    BY <1>1 DEF CallStart
  <2>2. CASE UNCHANGED <<call, atCall>>
    <3>1. mem' = mem \/ svrState = 0
      BY <1>1 DEF CallStart
    <3>. QED  BY <2>1, <2>2, <3>1
  <2>3. CASE svrState = 0 /\ mem' = "live" /\ call' = "open" /\ atCall' = 0
    BY <2>1, <2>3
  <2>. QED  BY <1>1, <2>2, <2>3 DEF CallStart
<1>2. CASE StartOpen
  <2>1. UNCHANGED <<svrState, thr, mem, logs>> /\ call = "open" /\ call' \in {"open", "undo", "logs"}
    BY <1>2 DEF StartOpen
  <2>2. ThreadThere'
    BY <2>1
  <2>3. CASE atCall > NOut
    BY <1>2, <2>1, <2>3 DEF StartOpen
  <2>4. CASE ~(atCall > NOut)
    <3>1. \/ open' = open \cup {atCall} /\ atCall' = atCall + 1 /\ call' = "open"
          \/ open' = open /\ atCall' = atCall - 1 /\ call' = "undo"
      BY <1>2, <2>1, <2>4 DEF StartOpen
    <3>2. \A s \in open : s \in 0 .. atCall - 1
      BY <2>1
    <3>3. atCall \in Nat /\ NOut \in Nat /\ atCall <= NOut
      BY <2>1, <2>4
    <3>4. \A s \in open \cup {atCall} : s \in 0 .. atCall
      BY <3>2, <3>3
    <3>5. call' = "open" => atCall' >= 0 /\ open' \subseteq 0 .. atCall' - 1
      BY <3>1, <3>3, <3>4
    <3>6. call' = "undo" => atCall' <= NOut /\ open' \subseteq 0 .. atCall'
      BY <3>1, <3>2, <3>3
    <3>7. call' \in {"open", "undo"} /\ thr' = "none"
      BY <2>1, <3>1
    <3>. QED  BY <2>2, <3>5, <3>6, <3>7
  <2>. QED  BY <2>2, <2>3, <2>4
<1>3. CASE StartUndo
  <2>1. UNCHANGED <<svrState, thr, mem, logs>> /\ call = "undo" /\ call' \in {"undo", "idle"}
    BY <1>3 DEF StartUndo
  <2>2. ThreadThere'
    BY <2>1
  <2>3. CASE atCall >= 0
    <3>1. call' = "undo" /\ open' = open \ {atCall} /\ atCall' = atCall - 1
      BY <1>3, <2>3 DEF StartUndo
    <3>. QED  BY <2>1, <2>2, <2>3, <3>1
  <2>4. CASE ~(atCall >= 0)
    <3>1. call' = "idle" /\ open' = open /\ open = {}
      BY <1>3, <2>1, <2>4 DEF StartUndo
    <3>. QED  BY <2>1, <2>2, <3>1
  <2>. QED  BY <2>3, <2>4
<1>4. CASE StartLogs
  BY <1>4 DEF StartLogs, ctl, Strs, Outs
<1>5. CASE StartCreate
  BY <1>5 DEF StartCreate, ctl, Strs, Outs
<1>6. CASE CallStop
  BY <1>6 DEF CallStop, ctl, Strs, Outs
<1>7. CASE StopJoin
  BY <1>7 DEF StopJoin, ctl, Strs, Outs
<1>8. CASE PeekAsk \/ PeekLock \/ PeekCount \/ PeekCopy
  <2>1. UNCHANGED <<ctl, thr>>
    BY <1>8 DEF PeekAsk, PeekLock, PeekCount, PeekCopy, ctl
  <2>. QED  BY <2>1 DEF ctl
<1>9. CASE StartState
  BY <1>9 DEF StartState
<1>11. CASE ThreadTop
  <2>1. UNCHANGED <<svrState, call, atCall, mem, open, logs>> /\ thr = "top"
        /\ thr' = IF svrState = 1 THEN "read" ELSE "close"
    BY <1>11 DEF ThreadTop, ctl
  <2>2. CASE svrState = 1
    BY <2>1, <2>2
  <2>3. CASE svrState = 0
    <3>1. call = "join" /\ thr' = "close"
      BY <2>1, <2>3 DEF Calls
    <3>. QED  BY <2>1, <2>3, <3>1
  <2>. QED  BY <2>2, <2>3
<1>12. CASE ThreadRead
  BY <1>12 DEF ThreadRead, ctl, Strs, Outs
<1>13. CASE ThreadWrite
  BY <1>13 DEF ThreadWrite, ctl, Strs, Outs
<1>14. CASE ThreadLock
  BY <1>14 DEF ThreadLock, ctl, Strs, Outs
<1>15. CASE ThreadAppend
  BY <1>15 DEF ThreadAppend, ctl, Strs, Outs
<1>16. CASE ReturnBlock \/ ReturnNone \/ ReturnEnd
  <2>1. UNCHANGED ctl /\ thr = "return" /\ thr' \in {"return", "top"}
    BY <1>16 DEF ReturnBlock, ReturnNone, ReturnEnd
  <2>. QED  BY <2>1 DEF ctl
<1>17. CASE ThreadClose
  BY <1>17 DEF ThreadClose, ctl, Strs, Outs
<1>18. CASE ThreadFree
  BY <1>18 DEF ThreadFree, ctl, Strs, Outs
<1>20. CASE ThreadEmpty
  BY <1>20 DEF ThreadEmpty, ctl, Strs, Outs
<1>19. CASE UNCHANGED copyVars
  BY <1>19 DEF copyVars, ctl
<1>. QED  BY Steps, <1>1, <1>2, <1>3, <1>4, <1>5, <1>6, <1>7, <1>8, <1>9, <1>11, <1>12, <1>13, <1>14, <1>15,
             <1>16, <1>17, <1>18, <1>19, <1>20, Zenon

\* The type invariant by its parts.
ControlTypes ==
    /\ svrState \in {0, 1} /\ call \in Calls /\ atCall \in -1 .. NOut + 1
    /\ thr \in Stages /\ at \in 0 .. NOut + 1
    /\ open \subseteq Strs /\ logs \subseteq Strs
    /\ mem \in {"null", "live", "freed"} /\ svrLock \in {"free", "peek", "thr"}
    /\ starts \in 0 .. MaxStart
DataTypes ==
    /\ buff \in 0 .. MaxBlock /\ pbuf \in Seq(1 .. MaxBlock) /\ Len(pbuf) <= Size
    /\ input \in 0 .. MaxBlock /\ back \in [Outs -> 0 .. NBack - 1]
    /\ outs \in [Strs -> Seq(1 .. MaxBlock)]
    /\ relayed \in 0 .. NBack - 1 /\ peeked \in Seq(1 .. MaxBlock)

PeekTyped == peek \in {"none", "asked", "count", "copy"} /\ npeek \in 0 .. Size /\ torn \in BOOLEAN

LEMMA TypeParts == CopyTypeOK <=> ControlTypes /\ DataTypes /\ PeekTyped
BY DEF CopyTypeOK, ControlTypes, DataTypes, PeekTyped

\* Every step keeps the types.
LEMMA ControlTypesStep == CopyStrong /\ [CopyNext]_copyVars => ControlTypes'
<1>. SUFFICES ASSUME CopyStrong, [CopyNext]_copyVars PROVE ControlTypes'
  OBVIOUS
<1>0. ControlTypes /\ ThreadThere /\ StreamsOpen /\ Halfway
  BY TypeParts DEF CopyStrong
<1>. USE StrSvrAssumption, <1>0 DEF ControlTypes, Calls, Stages, Strs
<1>1. CASE CallStart
  <2>1. /\ starts' \in 0 .. MaxStart /\ UNCHANGED <<svrState, open, logs, thr, at, svrLock>>
        /\ mem' \in {mem, "live", "freed"} /\ call' \in {call, "open"} /\ atCall' \in {atCall, 0}
    BY <1>1 DEF CallStart
  <2>. QED  BY <2>1
<1>2. CASE StartOpen
  <2>1. /\ UNCHANGED <<svrState, logs, mem, starts, thr, at, svrLock>> /\ call' \in Calls
        /\ atCall' \in -1 .. NOut + 1
    BY <1>2 DEF StartOpen, StreamsOpen
  <2>2. open' = open \/ (open' = open \cup {atCall} /\ atCall \in Strs)
    BY <1>2 DEF StartOpen, StreamsOpen
  <2>3. open' \subseteq Strs
    <3>1. open \subseteq Strs
      BY <1>0
    <3>. QED  BY <2>2, <3>1, Zenon
  <2>. QED  BY <2>1, <2>3
<1>3. CASE StartUndo
  <2>1. /\ UNCHANGED <<svrState, logs, mem, starts, thr, at, svrLock>> /\ call' \in Calls
        /\ atCall' \in -1 .. NOut + 1
    BY <1>3 DEF StartUndo, StreamsOpen
  <2>2. open' \subseteq Strs
    BY <1>3 DEF StartUndo, StreamsOpen
  <2>. QED  BY <2>1, <2>2
<1>4. CASE StartLogs
  <2>1. /\ UNCHANGED <<svrState, open, mem, starts, thr, at, svrLock>> /\ call' \in Calls
        /\ atCall' \in -1 .. NOut + 1
    BY <1>4 DEF StartLogs, StreamsOpen
  <2>2. logs' = logs \/ (logs' = logs \cup {atCall} /\ atCall \in Strs)
    BY <1>4 DEF StartLogs, StreamsOpen
  <2>3. logs' \subseteq Strs
    <3>1. logs \subseteq Strs
      BY <1>0
    <3>. QED  BY <2>2, <3>1, Zenon
  <2>. QED  BY <2>1, <2>3
<1>5. CASE StartCreate
  <2>1. /\ UNCHANGED <<logs, mem, starts, at, svrLock>> /\ call' = "idle" /\ atCall' = 0
        /\ open' \in {open, {}} /\ thr' \in {thr, "top"} /\ svrState' \in {0, 1}
    BY <1>5 DEF StartCreate
  <2>. QED  BY <2>1
<1>6. CASE CallStop
  BY <1>6 DEF CallStop, ctl, StreamsOpen
<1>7. CASE StopJoin
  BY <1>7 DEF StopJoin, ctl, StreamsOpen
<1>8. CASE PeekAsk \/ PeekLock \/ PeekCount \/ PeekCopy
  <2>1. UNCHANGED <<ctl, thr, at>> /\ svrLock' \in {svrLock, "peek", "free"}
    BY <1>8 DEF PeekAsk, PeekLock, PeekCount, PeekCopy, ctl
  <2>. QED  BY <2>1 DEF ctl
<1>9. CASE StartState
  BY <1>9 DEF StartState
<1>11. CASE ThreadTop
  BY <1>11 DEF ThreadTop, ctl, StreamsOpen
<1>12. CASE ThreadRead
  BY <1>12 DEF ThreadRead, ctl, StreamsOpen
<1>13. CASE ThreadWrite
  BY <1>13 DEF ThreadWrite, ctl, StreamsOpen
<1>14. CASE ThreadLock
  BY <1>14 DEF ThreadLock, ctl, StreamsOpen
<1>15. CASE ThreadAppend
  BY <1>15 DEF ThreadAppend, ctl, StreamsOpen
<1>16. CASE ReturnBlock \/ ReturnNone \/ ReturnEnd
  <2>1. /\ UNCHANGED <<ctl, svrLock>> /\ thr' \in {"return", "top"}
        /\ at' = at \/ (at <= NOut /\ at' = at + 1)
    BY <1>16 DEF ReturnBlock, ReturnNone, ReturnEnd
  <2>2. at' \in 0 .. NOut + 1
    BY <2>1
  <2>. QED  BY <2>1, <2>2 DEF ctl
<1>17. CASE ThreadClose
  BY <1>17 DEF ThreadClose, ctl, StreamsOpen
<1>18. CASE ThreadFree
  BY <1>18 DEF ThreadFree, ctl, StreamsOpen
<1>20. CASE ThreadEmpty
  BY <1>20 DEF ThreadEmpty, ctl
<1>19. CASE UNCHANGED copyVars
  BY <1>19 DEF copyVars, ctl
<1>. QED  BY Steps, <1>1, <1>2, <1>3, <1>4, <1>5, <1>6, <1>7, <1>8, <1>9, <1>11, <1>12, <1>13, <1>14, <1>15,
             <1>16, <1>17, <1>18, <1>19, <1>20, Zenon

LEMMA DataTypesStep == CopyStrong /\ [CopyNext]_copyVars => DataTypes'
<1>. SUFFICES ASSUME CopyStrong, [CopyNext]_copyVars PROVE DataTypes'
  OBVIOUS
<1>0. ControlTypes /\ DataTypes /\ PeekTyped /\ PeekThere /\ Halfway
  BY TypeParts DEF CopyStrong
<1>. USE StrSvrAssumption
<1>1. CASE UNCHANGED data
  BY <1>0, <1>1 DEF DataTypes, data
<1>2. CASE PeekCopy /\ ~torn
  <2>1. /\ peeked' = peeked \o SubSeq(pbuf, 1, npeek)
        /\ pbuf' = SubSeq(pbuf, npeek + 1, Len(pbuf))
        /\ npeek <= Len(pbuf)
    BY <1>0, <1>2 DEF PeekCopy, PeekThere
  <2>2. /\ pbuf \in Seq(1 .. MaxBlock) /\ Len(pbuf) <= Size /\ Len(pbuf) \in Nat /\ Size \in Nat
        /\ peeked \in Seq(1 .. MaxBlock)
    BY <1>0, LenProperties DEF DataTypes
  <2>5. npeek \in 0 .. Len(pbuf)
    BY <1>0, <2>1, <2>2 DEF PeekTyped
  <2>3. /\ peeked' \in Seq(1 .. MaxBlock) /\ pbuf' \in Seq(1 .. MaxBlock)
        /\ Len(pbuf') <= Len(pbuf) /\ Len(pbuf') \in Nat
    BY <2>1, <2>2, <2>5, PeekTypes, LenProperties
  <2>4. UNCHANGED <<buff, input, back, outs, relayed>>
    BY <1>2 DEF PeekCopy
  <2>. QED  BY <1>0, <2>2, <2>3, <2>4 DEF DataTypes
<1>3. CASE ThreadRead
  BY <1>0, <1>3 DEF ThreadRead, DataTypes
<1>4. CASE ThreadWrite
  <2>1. UNCHANGED <<buff, input, pbuf, back, relayed, peeked>>
    BY <1>4 DEF ThreadWrite
  <2>2. CASE outs' = outs
    BY <1>0, <2>1, <2>2 DEF DataTypes
  <2>3. CASE outs' # outs
    <3>1. PICK o \in Strs : outs' = [outs EXCEPT ![o] = Append(@, buff)]
      BY <1>0, <1>4, <2>3 DEF ThreadWrite, Strs, ControlTypes
    <3>2. buff \in 1 .. MaxBlock
      BY <1>0, <1>4 DEF ThreadWrite, Halfway, DataTypes
    <3>3. outs[o] \in Seq(1 .. MaxBlock)
      BY <1>0 DEF DataTypes
    <3>4. Append(outs[o], buff) \in Seq(1 .. MaxBlock)
      BY <3>2, <3>3, AppendProperties
    <3>. QED  BY <1>0, <2>1, <3>1, <3>4 DEF DataTypes
  <2>. QED  BY <2>2, <2>3
<1>5. CASE ThreadAppend
  <2>1. UNCHANGED <<buff, input, back, outs, relayed, peeked>>
    BY <1>5 DEF ThreadAppend
  <2>2. buff \in 1 .. MaxBlock /\ pbuf \in Seq(1 .. MaxBlock)
    BY <1>0, <1>5 DEF ThreadAppend, Halfway, DataTypes
  <2>3. Append(pbuf, buff) \in Seq(1 .. MaxBlock) /\ Len(Append(pbuf, buff)) = Len(pbuf) + 1 /\ Len(pbuf) \in Nat
    BY <2>2, AppendProperties, LenProperties
  <2>4. CASE Len(pbuf) < Size
    BY <1>0, <1>5, <2>1, <2>3, <2>4 DEF ThreadAppend, DataTypes
  <2>5. CASE ~(Len(pbuf) < Size)
    BY <1>0, <1>5, <2>1, <2>5 DEF ThreadAppend, DataTypes
  <2>. QED  BY <2>4, <2>5
<1>6. CASE ReturnBlock
  <2>1. /\ at \in Outs /\ back' = [back EXCEPT ![at] = (back[at] + 1) % NBack]
        /\ relayed' = IF at = Relay THEN back'[at] ELSE relayed
        /\ UNCHANGED <<buff, input, pbuf, outs, peeked>>
    BY <1>0, <1>6 DEF ReturnBlock, ControlTypes, Halfway, Outs
  <2>2. back[at] \in 0 .. NBack - 1 /\ back \in [Outs -> 0 .. NBack - 1] /\ relayed \in 0 .. NBack - 1
    BY <1>0, <2>1 DEF DataTypes
  <2>3. (back[at] + 1) % NBack \in 0 .. NBack - 1
    BY <2>2
  <2>4. back' \in [Outs -> 0 .. NBack - 1] /\ back'[at] = (back[at] + 1) % NBack
    BY <2>1, <2>2, <2>3
  <2>5. relayed' \in 0 .. NBack - 1
    BY <2>1, <2>2, <2>3, <2>4
  <2>. QED  BY <1>0, <2>1, <2>4, <2>5 DEF DataTypes
<1>7. CASE ThreadEmpty
  BY <1>0, <1>7 DEF ThreadEmpty, DataTypes
<1>. QED  BY Steps, <1>1, <1>2, <1>3, <1>4, <1>5, <1>6, <1>7
     DEF copyVars, CallStart, StartOpen, StartUndo, StartLogs, StartState, StartCreate, CallStop, StopJoin, PeekAsk,
         PeekLock, PeekCount, ThreadTop, ThreadLock, ReturnNone, ReturnEnd, ThreadClose, ThreadFree, data

\* What a console copies it finds.
LEMMA PeekStep == CopyStrong /\ [CopyNext]_copyVars => PeekTyped' /\ PeekThere'
<1>. SUFFICES ASSUME CopyStrong, [CopyNext]_copyVars PROVE PeekTyped' /\ PeekThere'
  OBVIOUS
<1>0. ControlTypes /\ DataTypes /\ PeekTyped /\ PeekThere /\ ThreadThere
  BY TypeParts DEF CopyStrong
<1>1. Len(pbuf) \in Nat /\ Size \in Nat /\ Len(pbuf) <= Size /\ pbuf \in Seq(1 .. MaxBlock)
  BY <1>0, StrSvrAssumption, LenProperties DEF DataTypes
<1>2. CASE UNCHANGED <<mem, thr, pbuf, peekVars>>
  BY <1>0, <1>2 DEF PeekTyped, PeekThere, peekVars
<1>3. CASE UNCHANGED <<mem, pbuf, peekVars>> /\ thr' \in Working \cup {"close", "closelogs", "empty"}
  BY <1>0, <1>3 DEF PeekTyped, PeekThere, peekVars
<1>4. CASE UNCHANGED <<pbuf, peekVars>> /\ pbuf = <<>>
  BY <1>0, <1>4 DEF PeekTyped, PeekThere, peekVars
<1>5. CASE PeekAsk \/ PeekLock
  BY <1>0, <1>5 DEF PeekAsk, PeekLock, PeekTyped, PeekThere, ctl, data
<1>6. CASE PeekCount
  <2>1. /\ npeek' \in 0 .. Len(pbuf) /\ peek' = "copy" /\ UNCHANGED <<mem, thr, pbuf, torn>>
    BY <1>6 DEF PeekCount, ctl, data
  <2>. QED  BY <1>0, <1>1, <2>1 DEF PeekTyped, PeekThere
<1>7. CASE PeekCopy /\ ~torn
  <2>1. /\ pbuf' = SubSeq(pbuf, npeek + 1, Len(pbuf)) /\ npeek \in 0 .. Len(pbuf)
        /\ peek' = "none" /\ npeek' = 0 /\ UNCHANGED <<mem, thr, torn>>
    BY <1>0, <1>1, <1>7 DEF PeekCopy, PeekTyped, PeekThere, ctl
  <2>2. pbuf = <<>> => pbuf' = <<>>
    <3>1. SUFFICES ASSUME pbuf = <<>> PROVE pbuf' = <<>>
      OBVIOUS
    <3>2. pbuf' \in Seq(1 .. MaxBlock) /\ Len(pbuf') <= Len(pbuf)
      BY <1>1, <2>1, PeekTypes
    <3>3. Len(pbuf') = 0
      BY <3>1, <3>2, EmptySeq, LenProperties
    <3>. QED  BY <3>2, <3>3, EmptySeq
  <2>. QED  BY <1>0, <1>1, <2>1, <2>2 DEF PeekTyped, PeekThere
<1>8. CASE ThreadAppend
  <2>1. /\ UNCHANGED <<mem, peekVars>> /\ thr' = "read" /\ thr = "append"
        /\ pbuf' = pbuf \/ pbuf' = Append(pbuf, buff)
    BY <1>8 DEF ThreadAppend, ctl
  <2>2. buff \in 1 .. MaxBlock
    BY <1>0, <2>1 DEF DataTypes, CopyStrong, Halfway
  <2>3. Len(pbuf') >= Len(pbuf) /\ Len(pbuf') \in Nat
    BY <1>1, <2>1, <2>2, AppendProperties
  <2>4. mem = "live"
    BY <1>0, <2>1 DEF ThreadThere, Working
  <2>. QED  BY <1>0, <1>1, <2>1, <2>3, <2>4 DEF PeekTyped, PeekThere, peekVars, Working
<1>9. CASE ThreadEmpty /\ ~torn
  <2>1. /\ pbuf' = <<>> /\ torn' = (peek = "copy" /\ pbuf # <<>>) /\ UNCHANGED <<peek, npeek>>
    BY <1>9 DEF ThreadEmpty
  <2>2. peek' = "copy" /\ ~torn' => pbuf = <<>>
    BY <2>1, Zenon
  <2>3. torn' \in BOOLEAN
    BY <2>1, Zenon
  <2>4. PeekTyped'
    BY <1>0, <2>1, <2>3 DEF PeekTyped
  <2>5. pbuf = <<>> /\ peek = "copy" => npeek <= Len(pbuf) /\ pbuf' = pbuf
    BY <1>0, <1>9, <2>1 DEF PeekThere
  <2>6. peek' = "copy" /\ ~torn' => npeek' <= Len(pbuf')
    BY <2>1, <2>2, <2>5
  <2>. QED  BY <2>1, <2>4, <2>6 DEF PeekThere
<1>10. CASE ThreadFree
  <2>1. thr = "free" /\ UNCHANGED <<pbuf, peekVars>>
    BY <1>10 DEF ThreadFree, data
  <2>2. pbuf = <<>>
    BY <1>0, <2>1 DEF PeekThere, Working
  <2>. QED  BY <1>4, <2>1, <2>2
<1>11. CASE CallStart
  <2>1. UNCHANGED <<thr, pbuf, peekVars>> /\ (mem' = mem \/ (svrState = 0 /\ call = "idle"))
    BY <1>11 DEF CallStart, data
  <2>2. svrState = 0 /\ call = "idle" => pbuf = <<>>
    BY <1>0 DEF ThreadThere, PeekThere, Working
  <2>. QED  BY <1>2, <1>4, <2>1, <2>2
<1>12. CASE StartCreate
  <2>1. UNCHANGED <<mem, pbuf, peekVars>> /\ thr' \in {thr, "top"}
    BY <1>12 DEF StartCreate, data
  <2>. QED  BY <1>2, <1>3, <2>1 DEF Working
<1>13. CASE StopJoin
  <2>1. UNCHANGED <<pbuf, peekVars>> /\ thr = "ended"
    BY <1>13 DEF StopJoin, data
  <2>2. pbuf = <<>>
    BY <1>0, <2>1 DEF PeekThere, Working
  <2>. QED  BY <1>4, <2>1, <2>2
<1>14. CASE ThreadTop \/ ThreadRead \/ ThreadWrite \/ ThreadLock \/ ReturnBlock \/ ReturnNone \/ ReturnEnd \/ ThreadClose
  <2>1. UNCHANGED <<mem, pbuf, peekVars>> /\ thr' \in Working \cup {"close", "closelogs", "empty"}
    BY <1>14 DEF ThreadTop, ThreadRead, ThreadWrite, ThreadLock, ReturnBlock, ReturnNone, ReturnEnd, ThreadClose, ctl,
                 data, Working
  <2>. QED  BY <1>3, <2>1
<1>15. CASE StartOpen \/ StartUndo \/ StartLogs \/ StartState \/ CallStop \/ UNCHANGED copyVars
  BY <1>2, <1>15 DEF StartOpen, StartUndo, StartLogs, StartState, CallStop, copyVars, ctl, data
<1>. QED  BY Steps, <1>5, <1>6, <1>7, <1>8, <1>9, <1>10, <1>11, <1>12, <1>13, <1>14, <1>15, Zenon

\* Each step writes a block to one output, and only while it is on its way.
LEMMA HalfwayStep == CopyStrong /\ [CopyNext]_copyVars => Halfway'
<1>. SUFFICES ASSUME CopyStrong, [CopyNext]_copyVars PROVE Halfway'
  OBVIOUS
<1>0. ControlTypes /\ DataTypes /\ Halfway /\ ThreadThere
  BY TypeParts DEF CopyStrong
<1>. USE StrSvrAssumption
<1>1. CASE UNCHANGED <<thr, at, data>>
  BY <1>0, <1>1 DEF Halfway, data
<1>2. CASE StartCreate
  BY <1>0, <1>2 DEF StartCreate, Halfway, ThreadThere, Starting, data
<1>3. CASE StopJoin
  BY <1>0, <1>3 DEF StopJoin, Halfway, data
<1>4. CASE ThreadTop
  BY <1>0, <1>4 DEF ThreadTop, Halfway, data
<1>5. CASE ThreadRead
  <2>1. /\ thr = "read" /\ at' = 1 /\ UNCHANGED outs
        /\ \/ thr' = "write" /\ buff' = input' /\ input' = input + 1
           \/ thr' = "return"
    BY <1>5 DEF ThreadRead
  <2>2. \A o \in Outs : outs[o] = outs[0] /\ ~(o < 1)
    BY <1>0, <2>1 DEF Halfway, Outs
  <2>3. CASE thr' = "write"
    BY <1>0, <2>1, <2>2, <2>3 DEF Halfway, DataTypes
  <2>4. CASE thr' = "return"
    BY <2>1, <2>2, <2>4 DEF Halfway
  <2>. QED  BY <2>1, <2>3, <2>4
<1>6. CASE ThreadWrite
  <2>1. thr = "write" /\ UNCHANGED <<buff, input>> /\ buff = input /\ buff # 0 /\ at \in 1 .. NOut + 1
    BY <1>0, <1>6 DEF ThreadWrite, Halfway, ControlTypes
  <2>2. /\ DOMAIN outs = Strs /\ 0 \in Strs /\ Outs \subseteq Strs /\ 0 \notin Outs
        /\ \A o \in Outs : o \in Int /\ outs[o] = IF o < at THEN Append(outs[0], buff) ELSE outs[0]
    BY <1>0, <2>1 DEF Halfway, DataTypes, Strs, Outs
  <2>3. CASE at = 1 /\ svrState = 0
    <3>1. thr' = "return" /\ UNCHANGED <<at, outs>>
      BY <1>6, <2>3 DEF ThreadWrite
    <3>2. \A o \in Outs : ~(o < at)
      BY <2>3 DEF Outs
    <3>. QED  BY <2>1, <2>2, <3>1, <3>2 DEF Halfway
  <2>4. CASE ~(at = 1 /\ svrState = 0) /\ at > NOut
    <3>1. thr' = "peekbuf" /\ at' = at /\ outs' = [outs EXCEPT ![0] = Append(outs[0], buff)]
      BY <1>6, <2>4 DEF ThreadWrite
    <3>2. \A o \in Outs : o < at
      BY <2>1, <2>4 DEF Outs
    <3>. QED  BY <2>1, <2>2, <3>1, <3>2 DEF Halfway
  <2>5. CASE ~(at = 1 /\ svrState = 0) /\ at <= NOut
    <3>1. thr' = "write" /\ at' = at + 1 /\ outs' = [outs EXCEPT ![at] = Append(outs[at], buff)] /\ at \in Outs
      BY <1>6, <2>1, <2>5 DEF ThreadWrite, Outs
    <3>2. outs[at] = outs[0] /\ outs'[0] = outs[0]
      BY <2>1, <2>2, <3>1
    <3>3. \A o \in Outs : outs'[o] = IF o < at' THEN Append(outs[0], buff) ELSE outs[0]
      BY <2>1, <2>2, <3>1, <3>2
    <3>. QED  BY <2>1, <3>1, <3>2, <3>3 DEF Halfway
  <2>. QED  BY <2>1, <2>3, <2>4, <2>5
<1>7. CASE ThreadLock
  BY <1>0, <1>7 DEF ThreadLock, Halfway, data
<1>8. CASE ThreadAppend
  BY <1>0, <1>8 DEF ThreadAppend, Halfway
<1>9. CASE ReturnBlock \/ ReturnNone \/ ReturnEnd
  <2>1. thr = "return" /\ thr' \in {"top", "return"} /\ at' \in {at, at + 1} /\ UNCHANGED <<buff, input, outs>>
    BY <1>9 DEF ReturnBlock, ReturnNone, ReturnEnd, data
  <2>. QED  BY <1>0, <2>1 DEF Halfway, ControlTypes
<1>10. CASE ThreadClose \/ ThreadEmpty \/ ThreadFree
  <2>1. /\ thr \notin {"write", "return"} /\ thr' \in {"closelogs", "empty", "free", "ended"}
        /\ UNCHANGED <<at, buff, input, outs>>
    BY <1>10 DEF ThreadClose, ThreadEmpty, ThreadFree, data
  <2>. QED  BY <1>0, <2>1 DEF Halfway
<1>12. CASE PeekCopy
  BY <1>0, <1>12 DEF PeekCopy, Halfway
<1>. QED  BY Steps, <1>1, <1>2, <1>3, <1>4, <1>5, <1>6, <1>7, <1>8, <1>9, <1>10, <1>12
     DEF copyVars, CallStart, StartOpen, StartUndo, StartLogs, StartState, CallStop, PeekAsk, PeekLock, PeekCount

\* The blocks that sequences are made of.
Blocks == 1 .. MaxBlock

\* What is written and what waits for the console stays in order.
LEMMA InOrderStep == CopyStrong /\ [CopyNext]_copyVars => InOrder'
<1>. SUFFICES ASSUME CopyStrong, [CopyNext]_copyVars PROVE InOrder'
  OBVIOUS
<1>0. ControlTypes /\ DataTypes /\ PeekTyped /\ PeekThere /\ Halfway /\ InOrder /\ ThreadThere
  BY TypeParts DEF CopyStrong
<1>. USE StrSvrAssumption
<1>10. /\ peeked \in Seq(Blocks) /\ pbuf \in Seq(Blocks) /\ peeked \o pbuf \in Seq(Blocks)
       /\ outs[0] \in Seq(Blocks)
  <2>1. 0 \in Strs
    BY DEF Strs
  <2>2. peeked \in Seq(Blocks) /\ pbuf \in Seq(Blocks) /\ outs[0] \in Seq(Blocks)
    BY <1>0, <2>1 DEF DataTypes, Blocks
  <2>. QED  BY <2>2, ConcatProperties
<1>11. input \in Nat /\ input - 1 \in Int /\ input - 1 < input /\ input - 1 <= input
  BY <1>0 DEF DataTypes
<1>12. Blocks \subseteq Nat
  BY DEF Blocks
<1>13. \A q \in Seq(Blocks), m \in Int, n \in Int : Upto(q, m) /\ m <= n => Upto(q, n)
  <2>. SUFFICES ASSUME NEW q \in Seq(Blocks), NEW m \in Int, NEW n \in Int, Upto(q, m), m <= n, NEW i \in DOMAIN q
                PROVE  q[i] <= n
    BY DEF Upto
  <2>1. q[i] \in Nat
    BY <1>12, ElementOfSeq, LenProperties
  <2>2. q[i] <= m
    BY DEF Upto
  <2>. QED  BY <2>1, <2>2
<1>14. \A q \in Seq(Blocks) : Upto(q, input - 1) => Upto(q, input)
  BY <1>11, <1>13
<1>1. CASE UNCHANGED <<thr, data>>
  BY <1>0, <1>1 DEF InOrder, data
<1>2. CASE UNCHANGED data /\ thr # "write" /\ thr' \notin {"write", "peekbuf", "append"}
  <2>1. Upto(peeked \o pbuf, input)
    BY <1>0, <1>10, <1>14 DEF InOrder
  <2>. QED  BY <1>0, <1>2, <2>1 DEF InOrder, data
<1>3. CASE PeekCopy /\ ~torn
  <2>1. /\ peeked' = peeked \o SubSeq(pbuf, 1, npeek)
        /\ pbuf' = SubSeq(pbuf, npeek + 1, Len(pbuf))
        /\ npeek <= Len(pbuf)
    BY <1>0, <1>3 DEF PeekCopy, PeekThere
  <2>2. npeek \in 0 .. Len(pbuf)
    BY <1>0, <1>10, <2>1, LenProperties DEF PeekTyped
  <2>3. peeked' \o pbuf' = peeked \o pbuf
    <3>1. (peeked \o SubSeq(pbuf, 1, npeek)) \o SubSeq(pbuf, npeek + 1, Len(pbuf)) = peeked \o pbuf
      BY <1>10, <2>2, PeekMoves
    <3>. QED  BY <2>1, <3>1
  <2>4. UNCHANGED <<thr, input, outs>>
    BY <1>3 DEF PeekCopy
  <2>. QED  BY <1>0, <2>3, <2>4 DEF InOrder
<1>4. CASE ThreadRead
  <2>1. /\ thr = "read" /\ UNCHANGED <<peeked, pbuf, outs>>
        /\ \/ thr' = "write" /\ input' = input + 1
           \/ thr' = "return" /\ input' = input
    BY <1>4 DEF ThreadRead
  <2>2. input' - 1 = input \/ input' = input
    BY <1>11, <2>1
  <2>. QED  BY <1>0, <1>11, <2>1, <2>2 DEF InOrder
<1>5. CASE ThreadWrite
  <2>1. /\ thr = "write" /\ UNCHANGED <<buff, input, pbuf, peeked>> /\ buff = input /\ buff \in Blocks
        /\ DOMAIN outs = Strs /\ 0 \in Strs
    BY <1>0, <1>5 DEF ThreadWrite, Halfway, DataTypes, Strs, Blocks
  <2>2. Upto(outs[0], input - 1) /\ Upto(peeked \o pbuf, input - 1) /\ Increasing(outs[0]) /\ Increasing(peeked \o pbuf)
    BY <1>0, <2>1 DEF InOrder
  <2>3. Upto(outs[0], input) /\ Upto(peeked \o pbuf, input)
    BY <1>10, <1>14, <2>2
  <2>4. CASE outs'[0] = outs[0] /\ thr' \in {"write", "return"}
    BY <2>1, <2>2, <2>3, <2>4 DEF InOrder
  <2>5. CASE outs'[0] = Append(outs[0], buff) /\ thr' = "peekbuf"
    <3>1. Increasing(outs'[0]) /\ Upto(outs'[0], input)
      BY <1>10, <1>11, <1>12, <2>1, <2>2, <2>5, AppendInOrder
    <3>. QED  BY <2>1, <2>2, <2>5, <3>1 DEF InOrder
  <2>6. CASE at > NOut /\ ~(at = 1 /\ svrState = 0)
    BY <1>5, <2>1, <2>5, <2>6 DEF ThreadWrite
  <2>7. CASE at = 1 /\ svrState = 0
    BY <1>5, <2>4, <2>7 DEF ThreadWrite
  <2>8. CASE at <= NOut /\ ~(at = 1 /\ svrState = 0)
    <3>1. at # 0
      BY <1>0, <2>1 DEF Halfway
    <3>. QED  BY <1>5, <2>1, <2>4, <2>8, <3>1 DEF ThreadWrite
  <2>. QED  BY <1>0, <2>6, <2>7, <2>8 DEF ControlTypes
<1>6. CASE ThreadAppend
  <2>1. /\ thr = "append" /\ thr' = "read" /\ UNCHANGED <<buff, input, peeked, outs>>
        /\ buff = input /\ buff \in Blocks
    BY <1>0, <1>6 DEF ThreadAppend, Halfway, DataTypes, Blocks
  <2>2. Upto(peeked \o pbuf, input - 1) /\ Increasing(peeked \o pbuf)
    BY <1>0, <2>1 DEF InOrder
  <2>3. CASE pbuf' = pbuf
    BY <1>0, <1>10, <1>14, <2>1, <2>2, <2>3 DEF InOrder
  <2>4. CASE pbuf' = Append(pbuf, buff)
    <3>1. peeked' \o pbuf' = Append(peeked \o pbuf, buff)
      BY <1>10, <2>1, <2>4, AppendJoins
    <3>2. Increasing(peeked' \o pbuf') /\ Upto(peeked' \o pbuf', input)
      BY <1>10, <1>11, <1>12, <2>1, <2>2, <3>1, AppendInOrder
    <3>. QED  BY <1>0, <2>1, <3>2 DEF InOrder
  <2>. QED  BY <1>6, <2>3, <2>4 DEF ThreadAppend
<1>7. CASE ReturnBlock \/ ReturnNone \/ ReturnEnd
  <2>1. thr = "return" /\ thr' \in {"top", "return"} /\ UNCHANGED <<buff, input, pbuf, outs, peeked>>
    BY <1>7 DEF ReturnBlock, ReturnNone, ReturnEnd, data
  <2>. QED  BY <1>0, <2>1 DEF InOrder
<1>8. CASE ThreadEmpty
  <2>1. peeked \o <<>> = peeked
    BY <1>10, ConcatEmptySeq
  <2>2. Upto(peeked \o pbuf, input) /\ Increasing(peeked \o pbuf)
    BY <1>0, <1>8 DEF InOrder, ThreadEmpty
  <2>3. Increasing(peeked) /\ Upto(peeked, input)
    <3>1. input \in Int
      BY <1>11
    <3>. QED  BY <1>10, <1>12, <2>2, <3>1, StartInOrder
  <2>. QED  BY <1>0, <1>8, <2>1, <2>3 DEF ThreadEmpty, InOrder
<1>9. CASE ThreadLock
  BY <1>0, <1>9 DEF ThreadLock, InOrder, data
<1>15. CASE StartCreate
  <2>1. thr = "none" /\ thr' \in {"none", "top"} /\ UNCHANGED data
    BY <1>0, <1>15 DEF StartCreate, ThreadThere, Starting
  <2>. QED  BY <1>2, <2>1
<1>16. CASE StopJoin \/ ThreadTop \/ ThreadClose \/ ThreadFree
  <2>1. thr # "write" /\ thr' \notin {"write", "peekbuf", "append"} /\ UNCHANGED data
    BY <1>16 DEF StopJoin, ThreadTop, ThreadClose, ThreadFree, data
  <2>. QED  BY <1>2, <2>1
<1>. QED  BY Steps, <1>1, <1>3, <1>4, <1>5, <1>6, <1>7, <1>8, <1>9, <1>15, <1>16
     DEF copyVars, CallStart, StartOpen, StartUndo, StartLogs, StartState, CallStop, PeekAsk, PeekLock, PeekCount

\* At most one block is missed for each start.
LEMMA MissedStep == CopyStrong /\ [CopyNext]_copyVars => MissedFew'
<1>. SUFFICES ASSUME CopyStrong, [CopyNext]_copyVars PROVE MissedFew'
  OBVIOUS
<1>0. ControlTypes /\ DataTypes /\ Halfway /\ ThreadThere /\ MissedFew
  BY TypeParts DEF CopyStrong
<1>1. input \in Nat /\ starts \in Nat /\ outs[0] \in Seq(1 .. MaxBlock) /\ Len(outs[0]) \in Nat /\ DOMAIN outs = Strs
  <2>1. 0 \in Strs
    BY StrSvrAssumption DEF Strs
  <2>. QED  BY <1>0, <2>1, StrSvrAssumption, LenProperties DEF ControlTypes, DataTypes
<1>. USE <1>1 DEF Missed, MissedFew
<1>2. CASE UNCHANGED <<call, thr, svrState, data, starts>>
  BY <1>0, <1>2 DEF data
<1>3. CASE CallStart
  <2>1. UNCHANGED <<thr, svrState, input, outs>> /\ starts' = starts + 1 /\ call = "idle"
    BY <1>3 DEF CallStart, data
  <2>2. Missed \in Int /\ Missed' = Missed /\ Missed <= starts
    BY <1>0, <2>1
  <2>3. Missed' <= starts' - 1 /\ starts' - 1 <= starts' /\ Missed' \in Int /\ starts' \in Int
    BY <2>1, <2>2
  <2>4. Missed' <= starts'
    BY <2>3
  <2>. QED  BY <2>3, <2>4
<1>4. CASE StartOpen \/ StartUndo \/ StartLogs \/ StartState
  <2>1. /\ UNCHANGED <<thr, input, outs, starts>> /\ call \in Starting /\ thr = "none"
    BY <1>0, <1>4 DEF StartOpen, StartUndo, StartLogs, StartState, ThreadThere, data, Starting
  <2>. QED  BY <1>0, <2>1
<1>5. CASE StartCreate
  <2>1. /\ UNCHANGED <<input, outs, starts>> /\ call \in Starting /\ call' = "idle" /\ thr' \in {"top", "none"}
    BY <1>0, <1>5 DEF StartCreate, data, Starting, ThreadThere
  <2>. QED  BY <1>0, <2>1
<1>6. CASE CallStop \/ StopJoin
  <2>1. /\ UNCHANGED <<input, outs, starts>> /\ call' \in {"join", "idle"}
        /\ thr' \in {thr, "none"} /\ svrState' \in {svrState, 0}
    BY <1>6 DEF CallStop, StopJoin, data
  <2>. QED  BY <1>0, <2>1 DEF Starting
<1>13. CASE PeekAsk \/ PeekLock \/ PeekCount \/ PeekCopy
  <2>1. UNCHANGED <<input, outs, starts, call, thr, svrState>>
    BY <1>13 DEF PeekAsk, PeekLock, PeekCount, PeekCopy, ctl, data
  <2>. QED  BY <1>0, <2>1
<1>7. CASE ThreadTop
  <2>1. /\ UNCHANGED <<input, outs, starts, call, svrState>> /\ thr = "top" /\ thr' \in {"read", "close"}
        /\ thr' = "read" => svrState = 1
    BY <1>7 DEF ThreadTop, data, ctl
  <2>2. call \notin Starting
    BY <1>0, <2>1 DEF ThreadThere
  <2>. QED  BY <1>0, <2>1, <2>2
<1>8. CASE ThreadRead
  <2>1. /\ UNCHANGED <<outs, starts, call, svrState>> /\ thr = "read"
        /\ \/ thr' = "write" /\ input' = input + 1
           \/ thr' = "return" /\ input' = input
    BY <1>8 DEF ThreadRead, ctl
  <2>2. call \notin Starting
    BY <1>0, <2>1 DEF ThreadThere
  <2>. QED  BY <1>0, <2>1, <2>2
<1>9. CASE ThreadWrite
  <2>1. UNCHANGED <<input, starts, call, svrState, buff>> /\ thr = "write" /\ buff \in 1 .. MaxBlock /\ at >= 1
    BY <1>0, <1>9 DEF ThreadWrite, ctl, Halfway, DataTypes
  <2>2. call \notin Starting
    BY <1>0, <2>1 DEF ThreadThere
  <2>3. CASE thr' = "return" /\ svrState = 0 /\ outs' = outs
    BY <1>0, <2>1, <2>2, <2>3
  <2>4. CASE thr' = "write" /\ outs'[0] = outs[0]
    BY <1>0, <2>1, <2>2, <2>4
  <2>5. CASE thr' = "peekbuf" /\ outs'[0] = Append(outs[0], buff)
    <3>1. Len(outs'[0]) = Len(outs[0]) + 1
      BY <2>1, <2>5, AppendProperties
    <3>2. Missed' = Missed - 1 /\ Missed \in Int /\ Missed <= starts
      BY <1>0, <2>1, <3>1
    <3>. QED  BY <2>1, <2>2, <2>5, <3>2
  <2>6. CASE at = 1 /\ svrState = 0
    BY <1>9, <2>3, <2>6 DEF ThreadWrite
  <2>7. CASE ~(at = 1 /\ svrState = 0) /\ at > NOut
    <3>1. 0 \in Strs
      BY StrSvrAssumption DEF Strs
    <3>2. thr' = "peekbuf" /\ outs' = [outs EXCEPT ![0] = Append(outs[0], buff)]
      BY <1>9, <2>7 DEF ThreadWrite
    <3>. QED  BY <2>5, <3>1, <3>2
  <2>8. CASE ~(at = 1 /\ svrState = 0) /\ ~(at > NOut)
    <3>1. thr' = "write" /\ outs' = [outs EXCEPT ![at] = Append(outs[at], buff)] /\ at # 0
      BY <1>9, <2>1, <2>8 DEF ThreadWrite
    <3>. QED  BY <2>4, <3>1
  <2>9. at \in Int /\ NOut \in Int
    BY <1>0, StrSvrAssumption DEF ControlTypes
  <2>. QED  BY <2>6, <2>7, <2>8, <2>9
<1>10. CASE ThreadLock \/ ThreadAppend
  <2>1. /\ UNCHANGED <<input, outs, starts, call, svrState>> /\ thr \in {"peekbuf", "append"}
        /\ thr' \in {"append", "read"}
    BY <1>10 DEF ThreadLock, ThreadAppend, data, ctl
  <2>2. call \notin Starting
    BY <1>0, <2>1 DEF ThreadThere
  <2>. QED  BY <1>0, <2>1, <2>2
<1>11. CASE ReturnBlock \/ ReturnNone \/ ReturnEnd
  <2>1. /\ UNCHANGED <<input, outs, starts, call, svrState>> /\ thr = "return" /\ thr' \in {"return", "top"}
    BY <1>11 DEF ReturnBlock, ReturnNone, ReturnEnd, ctl, data
  <2>. QED  BY <1>0, <2>1
<1>12. CASE ThreadClose \/ ThreadEmpty \/ ThreadFree
  <2>1. /\ UNCHANGED <<input, outs, starts, call, svrState>> /\ thr' \in {"closelogs", "empty", "free", "ended"}
    BY <1>12 DEF ThreadClose, ThreadEmpty, ThreadFree, data, ctl
  <2>. QED  BY <1>0, <2>1
<1>. QED  BY Steps, <1>2, <1>3, <1>4, <1>5, <1>6, <1>7, <1>8, <1>9, <1>10, <1>11, <1>12, <1>13 DEF copyVars, ctl

\* What one output returns is passed on, and nothing else.
LEMMA RelayStep == CopyStrong /\ [CopyNext]_copyVars => RelayIsExact'
<1>. SUFFICES ASSUME CopyStrong, [CopyNext]_copyVars PROVE RelayIsExact'
  OBVIOUS
<1>0. ControlTypes /\ DataTypes /\ Halfway /\ RelayIsExact
  BY TypeParts DEF CopyStrong
<1>1. CASE UNCHANGED <<back, relayed>>
  BY <1>0, <1>1 DEF RelayIsExact
<1>2. CASE ReturnBlock
  <2>1. /\ at \in Outs /\ back' = [back EXCEPT ![at] = (back[at] + 1) % NBack]
        /\ relayed' = IF at = Relay THEN back'[at] ELSE relayed
    BY <1>0, <1>2, StrSvrAssumption DEF ReturnBlock, ControlTypes, Halfway, Outs
  <2>2. 0 \notin Outs
    BY DEF Outs
  <2>3. CASE at # Relay
    <3>1. back'[Relay] = back[Relay] /\ relayed' = relayed
      BY <1>0, <2>1, <2>3 DEF DataTypes
    <3>. QED  BY <1>0, <3>1 DEF RelayIsExact
  <2>4. CASE at = Relay
    BY <2>1, <2>2, <2>4 DEF RelayIsExact
  <2>. QED  BY <2>3, <2>4
<1>. QED  BY Steps, <1>1, <1>2
     DEF copyVars, CallStart, StartOpen, StartUndo, StartLogs, StartState, StartCreate, CallStop, StopJoin, PeekAsk,
         PeekLock, PeekCount, PeekCopy, ThreadTop, ThreadRead, ThreadWrite, ThreadLock, ThreadAppend, ReturnNone,
         ReturnEnd, ThreadClose, ThreadEmpty, ThreadFree, data

LEMMA CopyStrongInit == CopyInit => CopyStrong
<1>. SUFFICES ASSUME CopyInit PROVE CopyStrong
  OBVIOUS
<1>. USE StrSvrAssumption DEF CopyInit
<1>1. CopyTypeOK
  <2>1. 0 \in 0 .. NBack - 1
    OBVIOUS
  <2>2. relayed \in 0 .. NBack - 1 /\ back \in [Outs -> 0 .. NBack - 1]
    BY <2>1
  <2>3. pbuf = <<>> /\ peeked = <<>> /\ pbuf \in Seq(1 .. MaxBlock) /\ peeked \in Seq(1 .. MaxBlock) /\ Len(pbuf) <= Size
    BY EmptySeq
  <2>4. outs \in [Strs -> Seq(1 .. MaxBlock)]
    BY EmptySeq
  <2>5. ControlTypes
    BY DEF ControlTypes, Calls, Stages, Strs, Outs
  <2>7. PeekTyped
    <3>1. torn \in BOOLEAN
      BY Zenon
    <3>2. npeek \in 0 .. Size /\ peek = "none"
      OBVIOUS
    <3>. QED  BY <3>1, <3>2, Zenon DEF PeekTyped
  <2>6. DataTypes
    BY <2>2, <2>3, <2>4 DEF DataTypes
  <2>. QED  BY <2>5, <2>6, <2>7, TypeParts
<1>2. ThreadThere /\ StreamsOpen
  BY DEF ThreadThere, StreamsOpen, Starting, Working, Leaving
<1>3. 0 \in Strs /\ Outs \subseteq Strs
  BY DEF Strs, Outs
<1>4. Halfway
  BY <1>3 DEF Halfway
<1>5. InOrder
  <2>1. peeked \o pbuf = <<>> /\ outs[0] = <<>>
    BY <1>3, EmptySeq, ConcatEmptySeq
  <2>. QED  BY <2>1, EmptySeq DEF InOrder, Increasing, Upto
<1>6. MissedFew
  BY <1>3, EmptySeq DEF MissedFew, Missed, Starting
<1>7. RelayIsExact
  <2>1. Relay # 0 => back[Relay] = 0
    BY DEF Outs
  <2>. QED  BY <2>1 DEF RelayIsExact
<1>8. PeekThere
  BY DEF PeekThere
<1>. QED  BY <1>1, <1>2, <1>4, <1>5, <1>6, <1>7, <1>8 DEF CopyStrong

LEMMA CopyStrongStep == CopyStrong /\ [CopyNext]_copyVars => CopyStrong'
<1>. SUFFICES ASSUME CopyStrong, [CopyNext]_copyVars PROVE CopyStrong'
  OBVIOUS
<1>1. CopyTypeOK'
  BY TypeParts, ControlTypesStep, DataTypesStep, PeekStep, PTL
<1>2. ThreadThere' /\ StreamsOpen'
  BY ControlStep
<1>. QED  BY <1>1, <1>2, HalfwayStep, InOrderStep, MissedStep, RelayStep, PeekStep DEF CopyStrong

\* Every output, the log, the console and the stream that is relayed to get what they should,
\* in order and once, across stops and starts, out of buffers that are there.
THEOREM CopiesRightHolds == AppsSpec => []CopiesRight
<1>1. CopyStrong => CopiesRight
  <2>. SUFFICES ASSUME CopyStrong PROVE CopiesRight
    OBVIOUS
  <2>0. CopyTypeOK /\ PeekTyped /\ PeekThere /\ ControlTypes /\ DataTypes /\ ThreadThere /\ Halfway /\ InOrder /\ MissedFew /\ RelayIsExact
    BY TypeParts DEF CopyStrong
  <2>1. OutputsAgree
    <3>1. \A o \in Outs : outs[o] \in Seq(Blocks) /\ outs[0] \in Seq(Blocks)
      BY <2>0, StrSvrAssumption DEF DataTypes, Blocks, Strs, Outs
    <3>2. \A o \in Outs : outs[o] = outs[0] \/ (outs[o] = Append(outs[0], buff) /\ buff \in Blocks)
      <4>1. CASE thr # "write"
        BY <2>0, <4>1 DEF Halfway
      <4>2. CASE thr = "write"
        <5>1. buff # 0 /\ buff \in 0 .. MaxBlock
          BY <2>0, <4>2 DEF Halfway, DataTypes
        <5>2. buff \in Blocks
          BY <5>1, StrSvrAssumption DEF Blocks
        <5>3. \A o \in Outs : outs[o] = outs[0] \/ outs[o] = Append(outs[0], buff)
          BY <2>0, <4>2 DEF Halfway
        <5>. QED  BY <5>2, <5>3
      <4>. QED  BY <4>1, <4>2
    <3>3. ASSUME NEW o \in Outs PROVE IsPrefix(outs[0], outs[o]) /\ Len(outs[o]) <= Len(outs[0]) + 1
      <4>1. Len(outs[0]) \in Nat
        BY <3>1, <3>3, LenProperties
      <4>2. CASE outs[o] = outs[0]
        BY <4>1, <4>2 DEF IsPrefix
      <4>3. CASE outs[o] = Append(outs[0], buff) /\ buff \in Blocks
        <5>1. /\ Len(outs[o]) = Len(outs[0]) + 1
              /\ \A n \in 1 .. Len(outs[0]) : outs[o][n] = outs[0][n]
          BY <3>1, <4>3, AppendProperties
        <5>2. /\ \A n \in 1 .. Len(outs[0]) : outs[0][n] \in Blocks /\ outs[o][n] \in Blocks
          BY <3>1, <5>1, ElementOfSeq
        <5>3. /\ SubSeq(outs[o], 1, Len(outs[0])) \in Seq(Blocks) /\ SubSeq(outs[0], 1, Len(outs[0])) \in Seq(Blocks)
              /\ Len(SubSeq(outs[o], 1, Len(outs[0]))) = Len(SubSeq(outs[0], 1, Len(outs[0])))
              /\ \A n \in 1 .. Len(outs[0]) : SubSeq(outs[o], 1, Len(outs[0]))[n] = SubSeq(outs[0], 1, Len(outs[0]))[n]
              /\ Len(SubSeq(outs[0], 1, Len(outs[0]))) = Len(outs[0])
          BY <4>1, <5>1, <5>2, SubSeqProperties
        <5>4. SubSeq(outs[o], 1, Len(outs[0])) = SubSeq(outs[0], 1, Len(outs[0]))
          BY <5>3, SeqEqual
        <5>. QED  BY <4>1, <5>1, <5>4 DEF IsPrefix
      <4>. QED  BY <3>2, <3>3, <4>2, <4>3
    <3>. QED  BY <2>0, <3>3 DEF OutputsAgree, Halfway
  <2>2. OutputsInOrder
    BY <2>0 DEF OutputsInOrder, InOrder, MissedFew, Missed
  <2>3. PeekInOrder
    BY <2>0 DEF PeekInOrder, InOrder
  <2>4. BuffersLive
    <3>1. thr \in {"top", "read", "write", "peekbuf", "append"} => mem = "live"
      BY <2>0 DEF ThreadThere, Working
    <3>2. ASSUME peek = "copy", npeek > 0, ~torn PROVE mem = "live"
      <4>1. npeek <= Len(pbuf) /\ npeek \in Nat
        BY <2>0, <3>2, StrSvrAssumption DEF PeekThere, PeekTyped
      <4>2. pbuf # <<>>
        BY <3>2, <4>1, EmptySeq
      <4>. QED  BY <2>0, <4>2 DEF PeekThere
    <3>. QED  BY <3>1, <3>2 DEF BuffersLive
  <2>. QED  BY <2>0, <2>1, <2>2, <2>3, <2>4 DEF CopiesRight
<1>. QED  BY <1>1, OneServer, CopyStrongInit, CopyStrongStep, PTL DEF CopySpec

\* A call that leaves the server down leaves no stream open, and strsvrstop no log either.
THEOREM CopyDownIsClosedHolds == AppsSpec => DownIsClosed
<1>1. CopyStrong /\ [CopyNext]_copyVars
        => [call # "idle" /\ call' = "idle" /\ svrState' = 0 => open' = {} /\ (call = "join" => logs' = {})]_copyVars
  <2>. SUFFICES ASSUME CopyStrong, CopyNext, call # "idle", call' = "idle", svrState' = 0
                PROVE  open' = {} /\ (call = "join" => logs' = {})
    OBVIOUS
  <2>0. ControlTypes /\ ThreadThere /\ StreamsOpen
    BY TypeParts DEF CopyStrong
  <2>1. CASE StartUndo
    <3>1. atCall < 0 /\ open' = open /\ call = "undo"
      BY <2>0, <2>1 DEF StartUndo, ControlTypes
    <3>2. open \subseteq 0 .. atCall
      BY <2>0, <3>1 DEF StreamsOpen
    <3>3. open = {}
      BY <2>0, <3>1, <3>2 DEF ControlTypes
    <3>. QED  BY <3>1, <3>3
  <2>2. CASE StartCreate
    <3>1. svrState = 1 /\ call = "thread"
      BY <2>0, <2>2 DEF StartCreate, ThreadThere, Starting
    <3>. QED  BY <2>2, <3>1 DEF StartCreate
  <2>3. CASE StopJoin
    BY <2>0, <2>3 DEF StopJoin, StreamsOpen
  <2>. QED  BY <2>1, <2>2, <2>3, Steps
       DEF CallStart, StartOpen, StartLogs, StartState, CallStop, PeekAsk, PeekLock, PeekCount, PeekCopy, ThreadTop,
           ThreadRead, ThreadWrite, ThreadLock, ThreadAppend, ReturnBlock, ReturnNone, ReturnEnd, ThreadClose,
           ThreadEmpty, ThreadFree, ctl
<1>. QED  BY <1>1, OneServer, CopyStrongInit, CopyStrongStep, PTL DEF CopySpec, DownIsClosed
-----------------------------------------------------------------------------
(* The consoles of rtkrcv.                                                 *)

\* Without -p nothing ever waits for a user to connect.
NobodyComes == ~port => main \notin {"reap", "accept"}

\* The main thread that closes the consoles has closed those before slot k, and all of
\* them when it is through.
ClosedSoFar ==
    /\ main = "join" => k < MaxCon
    /\ ~port /\ main \in {"close", "join"} => \A i \in Slots : i < k => th[i] = "none"
    /\ ~port /\ main \in {"free", "done"} => \A i \in Slots : th[i] = "none"

ConsoleStrong == TypeOK /\ NobodyComes /\ ClosedSoFar

\* Where the thread of a console may be.
Places == Commands \cup {"none", "start", "login", "loop", "wait", "watch", "bye", "ended"}

LEMMA FirstFreeSlot ==
  ASSUME NEW free \in SUBSET Remote, free # {}
  PROVE  Min(free) \in free
<1>1. free \subseteq Nat
  BY ConsoleAssumption DEF Remote, Slots
<1>2. PICK m \in free : \A y \in free : ~(<<y, m>> \in OpToRel(<, Nat))
  BY <1>1, NatLessThanWellFounded, WFMin
<1>3. \A y \in free : ~(y < m)
  BY <1>1, <1>2 DEF OpToRel
<1>4. \A y \in free : m <= y
  BY <1>1, <1>3
<1>. QED  BY <1>4 DEF Min

\* A thread moves only while it is there, and moves no other.
LEMMA ThreadMoves ==
  ASSUME TypeOK, UNCHANGED port, NEW i \in Slots, Thread(i) \/ Password(i) \/ Input(i) \/ Hangup(i)
  PROVE  /\ UNCHANGED <<main, k>>
         /\ TypeOK'
         /\ \A j \in Slots : th[j] = "none" <=> th'[j] = "none"
<1>1. /\ th \in [Slots -> Places] /\ run \in [Slots -> BOOLEAN] /\ user \in [Slots -> BOOLEAN]
  BY DEF TypeOK, Places
<1>2. UNCHANGED <<main, k, pending>>
  BY DEF Thread, Command, Login, Password, Bye, Prompt, Input, InputFails, Start, StopCmd, Restart, Show, Exit, Shutdown, Hangup
<1>3. UNCHANGED th \/ (th[i] # "none" /\ \E p \in Places \ {"none"} : To(i, p))
  <2>0. Commands \cup {"start", "login", "loop", "wait", "watch", "bye", "ended"} \subseteq Places \ {"none"}
    BY ConsoleAssumption DEF Places
  <2>1. CASE Input(i)
    BY <2>0, <2>1 DEF Input
  <2>2. CASE Prompt(i)
    BY <2>0, <2>2 DEF Prompt
  <2>. QED  BY <2>0, <2>1, <2>2
       DEF Thread, Command, Login, Password, Bye, InputFails, Start, StopCmd, Restart, Show, Exit, Shutdown, Hangup
<1>4. UNCHANGED run \/ run' = [run EXCEPT ![i] = FALSE]
  BY DEF Thread, Command, Login, Password, Bye, Prompt, Input, InputFails, Start, StopCmd, Restart, Show, Exit, Shutdown, Hangup
<1>5. UNCHANGED user \/ user' = [user EXCEPT ![i] = FALSE]
  BY DEF Thread, Command, Login, Password, Bye, Prompt, Input, InputFails, Start, StopCmd, Restart, Show, Exit, Shutdown, Hangup
<1>6. svr' \in {"down", "up", "freed"} /\ intflg' \in BOOLEAN /\ (svr # "freed" => svr' # "freed")
  BY DEF TypeOK, Thread, Command, Login, Password, Bye, Prompt, Input, InputFails, Start, StopCmd, Restart, Show, Exit, Shutdown, Hangup
<1>7. th' \in [Slots -> Places] /\ \A j \in Slots : th[j] = "none" <=> th'[j] = "none"
  <2>1. CASE UNCHANGED th
    BY <1>1, <2>1
  <2>2. ASSUME th[i] # "none", NEW p \in Places \ {"none"}, To(i, p)
        PROVE  th' \in [Slots -> Places] /\ \A j \in Slots : th[j] = "none" <=> th'[j] = "none"
    BY <1>1, <2>2, Zenon DEF To
  <2>. QED  BY <1>3, <2>1, <2>2
<1>8. run' \in [Slots -> BOOLEAN] /\ user' \in [Slots -> BOOLEAN]
  BY <1>1, <1>4, <1>5
<1>. QED  BY <1>2, <1>6, <1>7, <1>8 DEF TypeOK, Places

LEMMA ConsoleStrongInit == Init => ConsoleStrong
<1>. SUFFICES ASSUME Init PROVE ConsoleStrong
  OBVIOUS
<1>1. port \in BOOLEAN /\ k \in 0 .. MaxCon /\ pending \in 0 .. NPend
  BY ConsoleAssumption DEF Init
<1>2. th \in [Slots -> Places]
  BY DEF Init, Places
<1>3. run \in [Slots -> BOOLEAN] /\ user \in [Slots -> BOOLEAN]
  BY Zenon DEF Init
<1>. QED  BY <1>1, <1>2, <1>3 DEF Init, ConsoleStrong, TypeOK, NobodyComes, ClosedSoFar, Places

\* One step per action of the main thread; a console's thread is ThreadMoves.
LEMMA ConsoleStrongStep == ConsoleStrong /\ [Next]_vars => ConsoleStrong'
<1>. SUFFICES ASSUME ConsoleStrong, [Next]_vars PROVE ConsoleStrong'
  OBVIOUS
<1>0. TypeOK /\ NobodyComes /\ ClosedSoFar /\ th \in [Slots -> Places] /\ MaxCon \in Nat /\ k \in Nat
  BY ConsoleAssumption DEF ConsoleStrong, TypeOK, Places
<1>. USE DEF ConsoleStrong
<1>1. CASE Loop /\ UNCHANGED port
  BY <1>0, <1>1, ConsoleAssumption DEF Loop, TypeOK, NobodyComes, ClosedSoFar
<1>2. CASE Reap /\ UNCHANGED port
  <2>1. port /\ main = "reap" /\ k \in Slots
    BY <1>0, <1>2 DEF Reap, NobodyComes, TypeOK, Slots
  <2>2. th' \in [Slots -> Places]
    BY <1>0, <1>2, <2>1 DEF Reap, To, Places
  <2>3. k' \in 0 .. MaxCon
    BY <1>0, <1>2 DEF Reap
  <2>. QED  BY <1>0, <1>2, <2>1, <2>2, <2>3 DEF Reap, TypeOK, NobodyComes, ClosedSoFar, Places
<1>3. CASE Reaped /\ UNCHANGED port
  BY <1>0, <1>3 DEF Reaped, TypeOK, NobodyComes, ClosedSoFar
<1>4. CASE Accept /\ UNCHANGED port
  <2>1. port /\ main = "accept" /\ main' = "loop" /\ UNCHANGED <<k, intflg, svr>>
    BY <1>0, <1>4 DEF Accept, NobodyComes
  <2>2. pending' \in 0 .. NPend
    BY <1>0, <1>4, ConsoleAssumption DEF Accept, TypeOK
  <2>3. /\ th' \in [Slots -> Places] /\ run' \in [Slots -> BOOLEAN] /\ user' \in [Slots -> BOOLEAN]
    <3>1. CASE UNCHANGED <<th, run, user>>
      BY <1>0, <3>1 DEF TypeOK
    <3>2. CASE {i \in Remote : th[i] = "none"} # {} /\ ~UNCHANGED <<th, run, user>>
      <4>. DEFINE slot == Min({i \in Remote : th[i] = "none"})
      <4>1. slot \in Slots
        BY <3>2, FirstFreeSlot DEF Remote
      <4>2. /\ To(slot, "login")
            /\ run' = [run EXCEPT ![slot] = TRUE]
            /\ user' = [user EXCEPT ![slot] = TRUE]
        BY <1>4, <3>2 DEF Accept
      <4>. HIDE DEF slot
      <4>3. "login" \in Places
        BY DEF Places
      <4>4. th' \in [Slots -> Places]
        BY <1>0, <4>2, <4>3 DEF To
      <4>. QED  BY <1>0, <4>2, <4>4 DEF TypeOK
    <3>. QED  BY <1>4, <3>1, <3>2 DEF Accept
  <2>. QED  BY <1>0, <1>4, <2>1, <2>2, <2>3 DEF TypeOK, NobodyComes, ClosedSoFar, Places
<1>5. CASE Stop /\ UNCHANGED port
  BY <1>0, <1>5 DEF Stop, TypeOK, NobodyComes, ClosedSoFar, Slots
<1>6. CASE Close /\ UNCHANGED port
  <2>1. CASE k = MaxCon
    BY <1>0, <1>6, <2>1 DEF Close, TypeOK, NobodyComes, ClosedSoFar, Slots
  <2>2. CASE k # MaxCon
    <3>1. k \in Slots /\ k < MaxCon /\ k + 1 \in 0 .. MaxCon
      BY <1>0, <2>2 DEF TypeOK, Slots
    <3>2. \A i \in Slots : i < k + 1 => i < k \/ i = k
      BY <1>0 DEF Slots
    <3>3. run' \in [Slots -> BOOLEAN]
      BY <1>0, <1>6, <2>2 DEF Close, TypeOK
    <3>. QED  BY <1>0, <1>6, <2>2, <3>1, <3>2, <3>3 DEF Close, TypeOK, NobodyComes, ClosedSoFar
  <2>. QED  BY <2>1, <2>2
<1>7. CASE Join /\ UNCHANGED port
  <2>1. k \in Slots /\ k + 1 \in 0 .. MaxCon
    BY <1>0, <1>7 DEF Join, ClosedSoFar, Slots
  <2>2. th' \in [Slots -> Places] /\ th'[k] = "none" /\ \A i \in Slots : i # k => th'[i] = th[i]
    BY <1>0, <1>7, <2>1 DEF Join, To, Places
  <2>3. \A i \in Slots : i < k + 1 => i < k \/ i = k
    BY <1>0 DEF Slots
  <2>. QED  BY <1>0, <1>7, <2>1, <2>2, <2>3 DEF Join, TypeOK, NobodyComes, ClosedSoFar, Places
<1>8. CASE Free /\ UNCHANGED port
  BY <1>0, <1>8 DEF Free, TypeOK, NobodyComes, ClosedSoFar
<1>9. CASE Done /\ UNCHANGED port
  BY <1>0, <1>9 DEF Done, TypeOK, NobodyComes, ClosedSoFar
<1>10. CASE Connect /\ UNCHANGED port
  BY <1>0, <1>10, ConsoleAssumption DEF Connect, TypeOK, NobodyComes, ClosedSoFar
<1>11. CASE Signal /\ UNCHANGED port
  BY <1>0, <1>11 DEF Signal, TypeOK, NobodyComes, ClosedSoFar
<1>12. ASSUME UNCHANGED port, NEW i \in Slots, Thread(i) \/ Password(i) \/ Input(i) \/ Hangup(i)
       PROVE  ConsoleStrong'
  <2>1. /\ UNCHANGED <<main, k>> /\ TypeOK'
        /\ \A j \in Slots : th[j] = "none" <=> th'[j] = "none"
    BY <1>0, <1>12, ThreadMoves
  <2>. QED  BY <1>0, <1>12, <2>1 DEF NobodyComes, ClosedSoFar
<1>13. CASE UNCHANGED vars
  BY <1>0, <1>13 DEF vars, TypeOK, NobodyComes, ClosedSoFar
<1>. QED
  BY <1>1, <1>2, <1>3, <1>4, <1>5, <1>6, <1>7, <1>8, <1>9, <1>10, <1>11, <1>12, <1>13 DEF Next, MainStep

\* What a console holds is given back only after its thread has returned; a local console
\* is gone before the server is.
LEMMA ConsoleKeepsThreads ==
  ConsoleStrong /\ [Next]_vars
    => [/\ \A i \in Slots : th[i] # "none" /\ th'[i] = "none" => th[i] = "ended"
        /\ ~port /\ svr # "freed" /\ svr' = "freed" => \A i \in Slots : th[i] = "none"]_vars
<1>. SUFFICES ASSUME ConsoleStrong, Next
              PROVE  /\ \A i \in Slots : th[i] # "none" /\ th'[i] = "none" => th[i] = "ended"
                     /\ ~port /\ svr # "freed" /\ svr' = "freed" => \A i \in Slots : th[i] = "none"
  OBVIOUS
<1>0. TypeOK /\ NobodyComes /\ ClosedSoFar /\ th \in [Slots -> Places] /\ UNCHANGED port
  BY DEF ConsoleStrong, TypeOK, Places, Next
<1>1. CASE Reap
  BY <1>0, <1>1 DEF Reap, To
<1>2. CASE Join
  BY <1>0, <1>2 DEF Join, To
<1>3. CASE Accept
  <2>1. UNCHANGED svr /\ (UNCHANGED th \/ \E i \in Remote : To(i, "login"))
    <3>1. {i \in Remote : th[i] = "none"} # {} => Min({i \in Remote : th[i] = "none"}) \in Remote
      BY FirstFreeSlot
    <3>. QED  BY <1>3, <3>1 DEF Accept
  <2>. QED  BY <1>0, <2>1 DEF To, Remote
<1>4. CASE Free
  BY <1>0, <1>4 DEF Free, ClosedSoFar
<1>5. CASE Loop \/ Reaped \/ Stop \/ Close \/ Done \/ Connect \/ Signal
  BY <1>0, <1>5 DEF Loop, Reaped, Stop, Close, Done, Connect, Signal
<1>6. ASSUME NEW i \in Slots, Thread(i) \/ Password(i) \/ Input(i) \/ Hangup(i)
      PROVE  UNCHANGED svr \/ svr' # "freed"
  BY <1>0, <1>6 DEF TypeOK, Thread, Command, Login, Password, Bye, Prompt, Input, InputFails,
     Start, StopCmd, Restart, Show, Exit, Shutdown, Hangup
<1>7. ASSUME NEW i \in Slots, Thread(i) \/ Password(i) \/ Input(i) \/ Hangup(i)
      PROVE  \A j \in Slots : th[j] = "none" <=> th'[j] = "none"
  BY <1>0, <1>7, ThreadMoves
<1>. QED  BY <1>1, <1>2, <1>3, <1>4, <1>5, <1>6, <1>7 DEF Next, MainStep

\* A console's memory is given back after its thread, and the server after a local console.
THEOREM FreedAfterEndHolds == AppsSpec => FreedAfterEnd
<1>1. ConsoleStrong => TypeOK
  BY DEF ConsoleStrong
<1>. QED
  BY <1>1, OneServer, ConsoleStrongInit, ConsoleStrongStep, ConsoleKeepsThreads, PTL DEF ConsoleSpec, FreedAfterEnd
=============================================================================
