---------------------------- MODULE RtkSvrProofs ----------------------------
(***************************************************************************)
(* Proofs about the life cycle of the RTK server, for any number of users,  *)
(* server threads and streams.  SerialInv (RtkSvr) is inductive when the    *)
(* callers serialise their calls and a created thread gets its memory; the  *)
(* safety properties and the refinement of SvrLife follow from it.          *)
(* NoLockLeftHeld needs neither.                                            *)
(***************************************************************************)
EXTENDS RtkSvr, TLAPS

\* Callers keep to the discipline, and the malloc of a thread succeeds.
SerialCallers == Serial /\ "threadmalloc" \notin Faults

\* Every step of rtksvrstart keeps the invariant.
LEMMA StartInv ==
  ASSUME SerialCallers, SerialInv, NEW u \in Users, StartStep(u)
  PROVE  SerialInv'
<1>. USE SvrAssumption
     DEF SerialInv, TypeOK, Indices, OneCall, ThreadKnown, StartAlone, SpawnAlone, Running, Called,
         Joining, Leaving, HeapThere, Closed, NoPortLeaked, Placed, Looping, Live, LivePcs,
         BufferPcs, TSections, USections, Lifecycle, StartPcs, StopPcs, UserPcs, ThreadPcs,
         Streams, NStr, Openable, SerialCallers, MayCall, Goto, GotoAt, TGoto, TGotoAt,
         svrVars, Stropen, Strclose, ThreadUnlock
<1>1. CASE CallStart(u)
  BY <1>1 DEF CallStart
<1>2. CASE StartAlloc(u)
  BY <1>2 DEF StartAlloc
<1>3. CASE StartAllocFails(u)
  BY <1>3, ZenonT(60) DEF StartAllocFails
<1>4. CASE StartOpen(u)
  <2>1. CASE at[u] + 1 = NStr
    <3>1. TypeOK' /\ Indices'
      <4>1. at' \in [Users -> 0 .. NStr]
        <5>1. at[u] \in 0 .. NStr /\ at[u] < NStr
          BY <1>4 DEF StartOpen
        <5>2. at[u] + 1 \in 0 .. NStr /\ 0 \in 0 .. NStr
          BY <5>1
        <5>3. at' = [at EXCEPT ![u] = 0]
          BY <1>4, <2>1 DEF StartOpen
        <5>. QED  BY <5>2, <5>3
      <4>2. pc' \in [Users -> UserPcs]
        <5>1. pc' = [pc EXCEPT ![u] = "create"]
          BY <1>4, <2>1 DEF StartOpen
        <5>2. "create" \in UserPcs
          OBVIOUS
        <5>. QED  BY <5>1, <5>2
      <4>3. TypeOK'
        BY <1>4, <2>1, <4>1, <4>2 DEF StartOpen
      <4>4. Indices'
        BY <1>4, <2>1 DEF StartOpen
      <4>. QED  BY <4>3, <4>4
    <3>2. OneCall' /\ ThreadKnown' /\ StartAlone' /\ SpawnAlone'
      <4>1. pc[u] = "open" /\ pc' = [pc EXCEPT ![u] = "create"]
        BY <1>4, <2>1 DEF StartOpen
      <4>2. UNCHANGED <<state, thread, tpc>>
        BY <1>4 DEF StartOpen
      <4>3. OneCall' /\ ThreadKnown'
        BY <4>1, <4>2
      <4>4. StartAlone' /\ SpawnAlone'
        BY <4>1, <4>2
      <4>. QED  BY <4>3, <4>4
    <3>3. Running' /\ Called' /\ Joining' /\ Leaving'
      BY <1>4, <2>1 DEF StartOpen
    <3>4. HeapThere' /\ NoPortLeaked' /\ Placed'
      BY <1>4, <2>1 DEF StartOpen
    <3>5. Closed'
      <4>1. \A i \in Streams : i >= at[u] => ~port[i]
        BY <1>4 DEF StartOpen
      <4>2. \A i \in Streams : i # at[u] => port'[i] = port[i]
        BY <1>4 DEF StartOpen
      <4>3. \A v \in Users : v # u => pc[v] \notin {"open", "undo", "create"}
        BY <1>4 DEF StartOpen
      <4>4. \A i \in Streams : i >= at[u] + 1 => ~port'[i]
        BY <4>1, <4>2, <1>4 DEF StartOpen
      <4>5. pc'[u] \in {"open", "create"} /\ (pc'[u] = "open" => at'[u] = at[u] + 1)
        BY <1>4, <2>1 DEF StartOpen
      <4>. QED  BY <1>4, <2>1, <4>3, <4>4, <4>5 DEF StartOpen
    <3>. QED  BY <3>1, <3>2, <3>3, <3>4, <3>5
  <2>2. CASE at[u] + 1 # NStr
    <3>1. TypeOK' /\ Indices'
      <4>1. at' \in [Users -> 0 .. NStr]
        <5>1. at[u] \in 0 .. NStr /\ at[u] < NStr
          BY <1>4 DEF StartOpen
        <5>2. at[u] + 1 \in 0 .. NStr /\ 0 \in 0 .. NStr
          BY <5>1
        <5>3. at' = [at EXCEPT ![u] = at[u] + 1]
          BY <1>4, <2>2 DEF StartOpen
        <5>. QED  BY <5>2, <5>3
      <4>2. pc' \in [Users -> UserPcs]
        <5>1. pc' = [pc EXCEPT ![u] = "open"]
          BY <1>4, <2>2 DEF StartOpen
        <5>2. "open" \in UserPcs
          OBVIOUS
        <5>. QED  BY <5>1, <5>2
      <4>3. TypeOK'
        BY <1>4, <2>2, <4>1, <4>2 DEF StartOpen
      <4>4. Indices'
        BY <1>4, <2>2 DEF StartOpen
      <4>. QED  BY <4>3, <4>4
    <3>2. OneCall' /\ ThreadKnown' /\ StartAlone' /\ SpawnAlone'
      <4>1. pc[u] = "open" /\ pc' = [pc EXCEPT ![u] = "open"]
        BY <1>4, <2>2 DEF StartOpen
      <4>2. UNCHANGED <<state, thread, tpc>>
        BY <1>4 DEF StartOpen
      <4>3. OneCall' /\ ThreadKnown'
        BY <4>1, <4>2
      <4>4. StartAlone' /\ SpawnAlone'
        BY <4>1, <4>2
      <4>. QED  BY <4>3, <4>4
    <3>3. Running' /\ Called' /\ Joining' /\ Leaving'
      BY <1>4, <2>2 DEF StartOpen
    <3>4. HeapThere' /\ NoPortLeaked' /\ Placed'
      BY <1>4, <2>2 DEF StartOpen
    <3>5. Closed'
      <4>1. \A i \in Streams : i >= at[u] => ~port[i]
        BY <1>4 DEF StartOpen
      <4>2. \A i \in Streams : i # at[u] => port'[i] = port[i]
        BY <1>4 DEF StartOpen
      <4>3. \A v \in Users : v # u => pc[v] \notin {"open", "undo", "create"}
        BY <1>4 DEF StartOpen
      <4>4. \A i \in Streams : i >= at[u] + 1 => ~port'[i]
        BY <4>1, <4>2, <1>4 DEF StartOpen
      <4>5. pc'[u] \in {"open", "create"} /\ (pc'[u] = "open" => at'[u] = at[u] + 1)
        BY <1>4, <2>2 DEF StartOpen
      <4>. QED  BY <1>4, <2>2, <4>3, <4>4, <4>5 DEF StartOpen
    <3>. QED  BY <3>1, <3>2, <3>3, <3>4, <3>5
  <2>. QED  BY <2>1, <2>2
<1>5. CASE StartOpenFails(u)
  BY <1>5 DEF StartOpenFails
<1>6. CASE StartUndo(u)
  <2>1. CASE at[u] = 0
    <3>0. \A i \in Streams : ~port[i]     \* every stream is closed as the call ends
      BY <1>6, <2>1 DEF StartUndo
    <3>1. TypeOK' /\ Indices'
      <4>1. at' \in [Users -> 0 .. NStr]
        BY <1>6, <2>1, <3>0 DEF StartUndo
      <4>3. TypeOK'
        BY <1>6, <2>1, <3>0, <4>1, SMTT(30) DEF StartUndo
      <4>4. Indices'
        BY <1>6, <2>1, <3>0 DEF StartUndo
      <4>. QED  BY <4>3, <4>4
    <3>2. OneCall' /\ ThreadKnown' /\ StartAlone' /\ SpawnAlone'
      <4>1. OneCall'
        BY <1>6, <2>1 DEF StartUndo
      <4>2. ThreadKnown' /\ StartAlone' /\ SpawnAlone'
        BY <1>6, <2>1 DEF StartUndo
      <4>. QED  BY <4>1, <4>2
    <3>3. Running' /\ Called' /\ Joining' /\ Leaving'
      BY <1>6, <2>1, <3>0 DEF StartUndo
    <3>4. HeapThere' /\ NoPortLeaked' /\ Placed'
      BY <1>6, <2>1, <3>0 DEF StartUndo
    <3>5. Closed'
      BY <1>6, <2>1, <3>0 DEF StartUndo
    <3>. QED  BY <3>1, <3>2, <3>3, <3>4, <3>5
  <2>2. CASE at[u] # 0
    <3>1. TypeOK' /\ Indices'
      <4>1. at' \in [Users -> 0 .. NStr]
        BY <1>6, <2>2 DEF StartUndo
      <4>3. TypeOK'
        BY <1>6, <2>2, <4>1 DEF StartUndo
      <4>4. Indices'
        BY <1>6, <2>2 DEF StartUndo
      <4>. QED  BY <4>3, <4>4
    <3>2. OneCall' /\ ThreadKnown' /\ StartAlone' /\ SpawnAlone'
      BY <1>6, <2>2 DEF StartUndo
    <3>3. Running' /\ Called' /\ Joining' /\ Leaving'
      BY <1>6, <2>2 DEF StartUndo
    <3>4. HeapThere' /\ NoPortLeaked' /\ Placed'
      BY <1>6, <2>2 DEF StartUndo
    <3>5. Closed'
      <4>1. pc[u] = "undo" /\ pc' = pc /\ tpc' = tpc /\ tat' = tat
            /\ at' = [at EXCEPT ![u] = at[u] - 1] /\ port' = [port EXCEPT ![at[u] - 1] = FALSE]
        BY <1>6, <2>2 DEF StartUndo
      <4>2. \A v \in Users : v # u => pc[v] \notin {"open", "undo", "create"}
        BY <4>1
      <4>3. \A i \in Streams : i >= at[u] - 1 => ~port'[i]
        BY <4>1
      <4>4. \A t \in Threads : tpc[t] # "close"
        BY <4>1
      <4>. QED  BY <4>1, <4>2, <4>3, <4>4
    <3>. QED  BY <3>1, <3>2, <3>3, <3>4, <3>5
  <2>. QED  BY <2>1, <2>2
<1>7. CASE StartCreate(u)
  BY <1>7 DEF StartCreate
<1>8. CASE StartCreateFails(u)
  BY <1>8 DEF StartCreateFails
<1>. QED  BY <1>1, <1>2, <1>3, <1>4, <1>5, <1>6, <1>7, <1>8 DEF StartStep


\* Every step of rtksvrstop keeps the invariant.
LEMMA StopInv ==
  ASSUME SerialCallers, SerialInv, NEW u \in Users, StopStep(u)
  PROVE  SerialInv'
<1>. USE SvrAssumption
     DEF SerialInv, TypeOK, Indices, OneCall, ThreadKnown, StartAlone, SpawnAlone, Running, Called,
         Joining, Leaving, HeapThere, Closed, NoPortLeaked, Placed, Looping, Live, LivePcs,
         BufferPcs, TSections, USections, Lifecycle, StartPcs, StopPcs, UserPcs, ThreadPcs,
         Streams, NStr, Openable, SerialCallers, MayCall, Goto, GotoAt, TGoto, TGotoAt,
         svrVars, Stropen, Strclose, ThreadUnlock
<1>1. CASE CallStop(u)
  BY <1>1 DEF CallStop
<1>2. CASE StopCmds(u)
  BY <1>2 DEF StopCmds
<1>3. CASE StopClear(u)
  BY <1>3 DEF StopClear
<1>4. CASE StopJoin(u)
  BY <1>4 DEF StopJoin
<1>. QED  BY <1>1, <1>2, <1>3, <1>4 DEF StopStep


\* Every call made under svr->lock keeps the invariant.
LEMMA SectionInv ==
  ASSUME SerialCallers, SerialInv, NEW u \in Users, SectionStep(u)
  PROVE  SerialInv'
<1>. USE SvrAssumption
     DEF SerialInv, TypeOK, Indices, OneCall, ThreadKnown, StartAlone, SpawnAlone, Running, Called,
         Joining, Leaving, HeapThere, Closed, NoPortLeaked, Placed, Looping, Live, LivePcs,
         BufferPcs, TSections, USections, Lifecycle, StartPcs, StopPcs, UserPcs, ThreadPcs,
         Streams, NStr, Openable, SerialCallers, MayCall, Goto, GotoAt, TGoto, TGotoAt,
         svrVars, Stropen, Strclose, ThreadUnlock
<1>1. CASE CallStr(u, "openstr")
  BY <1>1 DEF CallStr
<1>2. CASE CallStr(u, "closestr")
  BY <1>2 DEF CallStr
<1>3. CASE CallStat(u)
  BY <1>3 DEF CallStat
<1>4. CASE CallMark(u)
  BY <1>4 DEF CallMark
<1>5. CASE UserLock(u)
  BY <1>5 DEF UserLock
<1>6. CASE OpenStr(u)
  <2>1. TypeOK' /\ Indices'
    <3>1. at' \in [Users -> 0 .. NStr]
      BY <1>6 DEF OpenStr
    <3>2. pc' \in [Users -> UserPcs]
      BY <1>6 DEF OpenStr
    <3>3. TypeOK'
      BY <1>6, <3>1, <3>2 DEF OpenStr
    <3>4. Indices'
      BY <1>6 DEF OpenStr
    <3>. QED  BY <3>3, <3>4
  <2>2. OneCall' /\ ThreadKnown' /\ StartAlone' /\ SpawnAlone'
    BY <1>6 DEF OpenStr
  <2>3. Running' /\ Called' /\ Joining' /\ Leaving'
    BY <1>6 DEF OpenStr
  <2>4. HeapThere' /\ NoPortLeaked' /\ Placed'
    BY <1>6 DEF OpenStr
  <2>5. Closed'
    BY <1>6 DEF OpenStr
  <2>. QED  BY <2>1, <2>2, <2>3, <2>4, <2>5
<1>7. CASE CloseStr(u)
  <2>1. TypeOK' /\ Indices'
    <3>1. at' \in [Users -> 0 .. NStr]
      BY <1>7 DEF CloseStr
    <3>2. pc' \in [Users -> UserPcs]
      BY <1>7 DEF CloseStr
    <3>3. TypeOK'
      BY <1>7, <3>1, <3>2 DEF CloseStr
    <3>4. Indices'
      BY <1>7 DEF CloseStr
    <3>. QED  BY <3>3, <3>4
  <2>2. OneCall' /\ ThreadKnown' /\ StartAlone' /\ SpawnAlone'
    BY <1>7 DEF CloseStr
  <2>3. Running' /\ Called' /\ Joining' /\ Leaving'
    BY <1>7 DEF CloseStr
  <2>4. HeapThere' /\ NoPortLeaked' /\ Placed'
    BY <1>7 DEF CloseStr
  <2>5. Closed'
    BY <1>7 DEF CloseStr
  <2>. QED  BY <2>1, <2>2, <2>3, <2>4, <2>5
<1>8. CASE Stat(u)
  BY <1>8 DEF Stat
<1>9. CASE Mark(u)
  BY <1>9 DEF Mark
<1>. QED  BY <1>1, <1>2, <1>3, <1>4, <1>5, <1>6, <1>7, <1>8, <1>9 DEF SectionStep


\* Every step of rtksvrthread keeps the invariant.
LEMMA ThreadInv ==
  ASSUME SerialCallers, SerialInv, NEW t \in Threads, ThreadStep(t)
  PROVE  SerialInv'
<1>. USE SvrAssumption
     DEF SerialInv, TypeOK, Indices, OneCall, ThreadKnown, StartAlone, SpawnAlone, Running, Called,
         Joining, Leaving, HeapThere, Closed, NoPortLeaked, Placed, Looping, Live, LivePcs,
         BufferPcs, TSections, USections, Lifecycle, StartPcs, StopPcs, UserPcs, ThreadPcs,
         Streams, NStr, Openable, SerialCallers, MayCall, Goto, GotoAt, TGoto, TGotoAt,
         svrVars, Stropen, Strclose, ThreadUnlock
<1>1. CASE ThreadRun(t)
  BY <1>1 DEF ThreadRun
<1>2. CASE ThreadNoMem(t)
  BY <1>2 DEF ThreadNoMem
<1>3. CASE ThreadTop(t)
  BY <1>3 DEF ThreadTop
<1>4. CASE ThreadRead(t)
  <2>1. CASE tat[t] < NIn /\ port[tat[t]] /\ TGoto(t, "peek") /\ UNCHANGED tat
    BY <1>4, <2>1 DEF ThreadRead
  <2>2. CASE tat[t] < NIn /\ TGotoAt(t, "read", tat[t] + 1)
    BY <1>4, <2>2 DEF ThreadRead
  <2>3. CASE tat[t] = NIn /\ TGotoAt(t, "decode", 0)
    BY <1>4, <2>3 DEF ThreadRead
  <2>. QED  BY <1>4, <2>1, <2>2, <2>3 DEF ThreadRead
<1>5. CASE ThreadLock(t)
  BY <1>5 DEF ThreadLock
<1>6. CASE ThreadPeek(t)
  BY <1>6 DEF ThreadPeek
<1>7. CASE ThreadDecode(t)
  <2>1. CASE tat[t] + 1 < NIn
    <3>1. TypeOK' /\ Indices'
      <4>1. tat' \in [Threads -> 0 .. NStr]
        BY <1>7, <2>1 DEF ThreadDecode
      <4>2. tpc' \in [Threads -> ThreadPcs]
        BY <1>7, <2>1 DEF ThreadDecode
      <4>3. TypeOK'
        BY <1>7, <2>1, <4>1, <4>2 DEF ThreadDecode
      <4>4. Indices'
        BY <1>7, <2>1 DEF ThreadDecode
      <4>. QED  BY <4>3, <4>4
    <3>2. OneCall' /\ ThreadKnown' /\ StartAlone' /\ SpawnAlone'
      BY <1>7, <2>1 DEF ThreadDecode
    <3>3. Running' /\ Called' /\ Joining' /\ Leaving'
      BY <1>7, <2>1 DEF ThreadDecode
    <3>4. HeapThere' /\ NoPortLeaked' /\ Placed'
      BY <1>7, <2>1 DEF ThreadDecode
    <3>5. Closed'
      BY <1>7, <2>1, ZenonT(60) DEF ThreadDecode
    <3>. QED  BY <3>1, <3>2, <3>3, <3>4, <3>5
  <2>2. CASE ~(tat[t] + 1 < NIn)
    <3>1. TypeOK' /\ Indices'
      <4>1. tat' \in [Threads -> 0 .. NStr]
        BY <1>7, <2>2 DEF ThreadDecode
      <4>2. tpc' \in [Threads -> ThreadPcs]
        BY <1>7, <2>2 DEF ThreadDecode
      <4>3. TypeOK'
        BY <1>7, <2>2, <4>1, <4>2 DEF ThreadDecode
      <4>4. Indices'
        BY <1>7, <2>2 DEF ThreadDecode
      <4>. QED  BY <4>3, <4>4
    <3>2. OneCall' /\ ThreadKnown' /\ StartAlone' /\ SpawnAlone'
      BY <1>7, <2>2 DEF ThreadDecode
    <3>3. Running' /\ Called' /\ Joining' /\ Leaving'
      BY <1>7, <2>2 DEF ThreadDecode
    <3>4. HeapThere' /\ NoPortLeaked' /\ Placed'
      BY <1>7, <2>2 DEF ThreadDecode
    <3>5. Closed'
      BY <1>7, <2>2 DEF ThreadDecode
    <3>. QED  BY <3>1, <3>2, <3>3, <3>4, <3>5
  <2>. QED  BY <2>1, <2>2
<1>8. CASE ThreadNext(t)
  BY <1>8 DEF ThreadNext
<1>9. CASE ThreadRtkpos(t)
  BY <1>9 DEF ThreadRtkpos
<1>10. CASE ThreadSaveout(t)
  <2>1. CASE tat[t] + 1 < NSol
    <3>1. TypeOK' /\ Indices'
      <4>1. tat' \in [Threads -> 0 .. NStr]
        BY <1>10, <2>1 DEF ThreadSaveout
      <4>2. tpc' \in [Threads -> ThreadPcs]
        <5>1. tpc \in [Threads -> ThreadPcs] /\ "saveout" \in ThreadPcs
          OBVIOUS
        <5>2. tpc' = [tpc EXCEPT ![t] = "saveout"]
          BY <1>10, <2>1 DEF ThreadSaveout
        <5>. QED  BY <5>1, <5>2, Zenon
      <4>3. TypeOK'
        BY <1>10, <2>1, <4>1, <4>2 DEF ThreadSaveout
      <4>4. Indices'
        BY <1>10, <2>1 DEF ThreadSaveout
      <4>. QED  BY <4>3, <4>4
    <3>2. OneCall' /\ ThreadKnown' /\ StartAlone' /\ SpawnAlone'
      BY <1>10, <2>1, SMTT(30) DEF ThreadSaveout
    <3>3. Running' /\ Called' /\ Joining' /\ Leaving'
      BY <1>10, <2>1 DEF ThreadSaveout
    <3>4. HeapThere' /\ NoPortLeaked' /\ Placed'
      BY <1>10, <2>1 DEF ThreadSaveout
    <3>5. Closed'
      BY <1>10, <2>1 DEF ThreadSaveout
    <3>. QED  BY <3>1, <3>2, <3>3, <3>4, <3>5
  <2>2. CASE ~(tat[t] + 1 < NSol)
    <3>1. TypeOK' /\ Indices'
      <4>1. tat' \in [Threads -> 0 .. NStr]
        BY <1>10, <2>2 DEF ThreadSaveout
      <4>2. tpc' \in [Threads -> ThreadPcs]
        <5>1. tpc \in [Threads -> ThreadPcs] /\ "next" \in ThreadPcs
          OBVIOUS
        <5>2. tpc' = [tpc EXCEPT ![t] = "next"]
          BY <1>10, <2>2 DEF ThreadSaveout
        <5>. QED  BY <5>1, <5>2, Zenon
      <4>3. TypeOK'
        BY <1>10, <2>2, <4>1, <4>2 DEF ThreadSaveout
      <4>4. Indices'
        BY <1>10, <2>2 DEF ThreadSaveout
      <4>. QED  BY <4>3, <4>4
    <3>2. OneCall' /\ ThreadKnown' /\ StartAlone' /\ SpawnAlone'
      BY <1>10, <2>2 DEF ThreadSaveout
    <3>3. Running' /\ Called' /\ Joining' /\ Leaving'
      BY <1>10, <2>2 DEF ThreadSaveout
    <3>4. HeapThere' /\ NoPortLeaked' /\ Placed'
      BY <1>10, <2>2 DEF ThreadSaveout
    <3>5. Closed'
      BY <1>10, <2>2 DEF ThreadSaveout
    <3>. QED  BY <3>1, <3>2, <3>3, <3>4, <3>5
  <2>. QED  BY <2>1, <2>2
<1>11. CASE ThreadClose(t)
  BY <1>11 DEF ThreadClose
<1>12. CASE ThreadFree(t)
  <2>0. \A i \in Streams : ~port[i]       \* closed before the buffers are freed
    BY <1>12 DEF ThreadFree
  <2>1. TypeOK' /\ Indices'
    <3>1. tat' \in [Threads -> 0 .. NStr]
      BY <1>12, <2>0 DEF ThreadFree
    <3>2. tpc' \in [Threads -> ThreadPcs]
      BY <1>12, <2>0 DEF ThreadFree
    <3>3. TypeOK'
      BY <1>12, <2>0, <3>1, <3>2 DEF ThreadFree
    <3>4. Indices'
      BY <1>12, <2>0 DEF ThreadFree
    <3>. QED  BY <3>3, <3>4
  <2>2. OneCall' /\ ThreadKnown' /\ StartAlone' /\ SpawnAlone'
    BY <1>12, <2>0 DEF ThreadFree
  <2>3. Running' /\ Called' /\ Joining' /\ Leaving'
    BY <1>12, <2>0 DEF ThreadFree
  <2>4. HeapThere' /\ NoPortLeaked' /\ Placed'
    BY <1>12, <2>0 DEF ThreadFree
  <2>5. Closed'
    BY <1>12, <2>0 DEF ThreadFree
  <2>. QED  BY <2>1, <2>2, <2>3, <2>4, <2>5
<1>. QED  BY <1>1, <1>2, <1>3, <1>4, <1>5, <1>6, <1>7, <1>8, <1>9, <1>10, <1>11,
       <1>12 DEF ThreadStep




\* The state rtksvrinit leaves satisfies the invariant.
LEMMA InitInv == Init => SerialInv
<1>. SUFFICES ASSUME Init PROVE SerialInv
  OBVIOUS
<1>. USE SvrAssumption
     DEF Init, Looping, Live, LivePcs, BufferPcs, TSections, Lifecycle, StartPcs, StopPcs
<1>1. TypeOK
  <2>1. 0 \in 0 .. NStr /\ "idle" \in UserPcs /\ "none" \in ThreadPcs
    BY DEF NStr, UserPcs, ThreadPcs
  <2>. QED  BY <2>1 DEF TypeOK
<1>2. Indices /\ OneCall /\ ThreadKnown /\ StartAlone /\ SpawnAlone
  BY DEF Indices, OneCall, ThreadKnown, StartAlone, SpawnAlone
<1>3. Running /\ Called /\ Joining /\ Leaving
  BY DEF Running, Called, Joining, Leaving
<1>4. HeapThere /\ Closed /\ NoPortLeaked /\ Placed
  BY DEF HeapThere, Closed, NoPortLeaked, Placed
<1>. QED  BY <1>1, <1>2, <1>3, <1>4 DEF SerialInv

\* A step that changes nothing keeps the invariant.
LEMMA StutterInv == SerialInv /\ UNCHANGED vars => SerialInv'
<1>. SUFFICES ASSUME SerialInv, UNCHANGED vars PROVE SerialInv'
  OBVIOUS
<1>. USE DEF vars, SerialInv, Looping, Live
<1>1. TypeOK' /\ Indices'
  BY DEF TypeOK, Indices
<1>2. OneCall' /\ ThreadKnown' /\ StartAlone' /\ SpawnAlone'
  BY DEF OneCall, ThreadKnown, StartAlone, SpawnAlone
<1>3. Running' /\ Called' /\ Joining' /\ Leaving'
  BY DEF Running, Called, Joining, Leaving
<1>4. HeapThere' /\ NoPortLeaked' /\ Placed' /\ Closed'
  BY DEF HeapThere, NoPortLeaked, Placed, Closed
<1>. QED  BY <1>1, <1>2, <1>3, <1>4

\* The invariant holds in every state serialised callers can reach.
THEOREM SerialInvariant == ASSUME SerialCallers PROVE Spec => []SerialInv
<1>1. SerialInv /\ [Next]_vars => SerialInv'
  BY StartInv, StopInv, SectionInv, ThreadInv, StutterInv, SerialCallers DEF Next, UserStep
<1>. QED  BY <1>1, InitInv, PTL DEF Spec

\* Serialised callers never have two server threads alive at once.
THEOREM OneThreadHolds == ASSUME SerialCallers PROVE Spec => []OneThread
<1>1. SerialInv => OneThread
  BY DEF SerialInv, ThreadKnown, OneThread
<1>. QED  BY <1>1, SerialInvariant, PTL

\* The server thread never dereferences an input, peek or solution buffer
\* that is not allocated.
THEOREM BuffersLiveHolds == ASSUME SerialCallers PROVE Spec => []BuffersLive
<1>1. SerialInv => BuffersLive
  BY DEF SerialInv, HeapThere, Looping, BuffersLive
<1>. QED  BY <1>1, SerialInvariant, PTL

\* With no thread alive and no call under way every stream is closed: stop,
\* and a start that failed half way, leave nothing open.
THEOREM DownIsClosedHolds == ASSUME SerialCallers PROVE Spec => []DownIsClosed
<1>1. SerialInv => DownIsClosed
  BY DEF SerialInv, TypeOK, Running, Closed, DownIsClosed, Quiet, Looping, Live, LivePcs,
         Lifecycle, StartPcs
<1>. QED  BY <1>1, SerialInvariant, PTL

\* rtksvrstop never joins a thread that was joined before.
THEOREM JoinedOnceHolds == ASSUME SerialCallers PROVE Spec => []JoinedOnce
<1>1. SerialInv => JoinedOnce
  BY DEF SerialInv, Joining, JoinedOnce, Looping, BufferPcs, TSections
<1>. QED  BY <1>1, SerialInvariant, PTL

\* stropen is never called on an open stream, so no port is forgotten.
THEOREM NoPortLeakedHolds == ASSUME SerialCallers PROVE Spec => []NoPortLeaked
<1>1. SerialInv => NoPortLeaked
  BY DEF SerialInv
<1>. QED  BY <1>1, SerialInvariant, PTL

\* The four together, as the run that serialises the calls checks them.
THEOREM LifeInvHolds == ASSUME SerialCallers PROVE Spec => []LifeInv
<1>1. OneThread /\ BuffersLive /\ NoPortLeaked /\ DownIsClosed => LifeInv
  BY DEF LifeInv
<1>. QED
  BY <1>1, OneThreadHolds, BuffersLiveHolds, NoPortLeakedHolds, DownIsClosedHolds, PTL

\* While the server runs, only a holder of svr->lock opens or closes a stream.
THEOREM PortsUnderLockHolds == ASSUME SerialCallers PROVE Spec => PortsUnderLock
<1>1. SerialInv /\ [Next]_vars =>
        [\A i \in Streams : port'[i] # port[i] /\ state = 1 => lock \in Users]_vars
  <2>. DEFINE Ports == \A i \in Streams : port'[i] # port[i] /\ state = 1 => lock \in Users
  <2>. SUFFICES ASSUME SerialInv, Next PROVE Ports
    OBVIOUS
  <2>1. ASSUME NEW u \in Users, UserStep(u) PROVE Ports
    <3>1. CASE StartStep(u)
      \* a start in progress means svr->state is 0
      <4>1. CASE pc[u] \in StartPcs
        BY <4>1 DEF SerialInv, StartAlone
      <4>2. CASE pc[u] \notin StartPcs
        BY <3>1, <4>2 DEF StartStep, StartPcs, CallStart, StartAlloc, StartAllocFails, StartOpen,
           StartOpenFails, StartUndo, StartCreate, StartCreateFails, svrVars
      <4>. QED  BY <4>1, <4>2
    <3>2. CASE StopStep(u)
      BY <3>2 DEF StopStep, CallStop, StopCmds, StopClear, StopJoin, svrVars
    <3>3. CASE SectionStep(u)
      BY <3>3, <2>1 DEF SectionStep, CallStr, CallStat, CallMark, UserLock, OpenStr, CloseStr,
         Stat, Mark, svrVars
    <3>. QED  BY <2>1, <3>1, <3>2, <3>3 DEF UserStep
  <2>2. ASSUME NEW t \in Threads, ThreadStep(t) PROVE Ports
    <3>1. CASE tpc[t] = "close"
      \* the only thread alive has left its loop, so svr->state is 0
      BY <3>1 DEF SerialInv, Running, ThreadKnown, Live, LivePcs, Looping, BufferPcs, TSections
    <3>2. CASE tpc[t] # "close"
      BY <2>2, <3>2 DEF ThreadStep, ThreadRun, ThreadNoMem, ThreadTop, ThreadRead, ThreadLock,
         ThreadPeek, ThreadDecode, ThreadNext, ThreadRtkpos, ThreadSaveout, ThreadClose,
         ThreadFree, ThreadUnlock, svrVars
    <3>. QED  BY <3>1, <3>2
  <2>. QED  BY <2>1, <2>2 DEF Next
<1>. QED  BY <1>1, SerialInvariant, PTL DEF Spec, PortsUnderLock

-----------------------------------------------------------------------------
(* The life cycle implements SvrLife.                                       *)

Opening == \E u \in Users : pc[u] \in {"alloc", "open", "create"}
Closing == \/ \E u \in Users : pc[u] = "undo"
           \/ state = 0 /\ \E t \in Threads : Live(t) /\ tpc[t] # "spawned"
IsUp    == \E t \in Threads : Live(t) /\ (state = 1 \/ tpc[t] = "spawned")
Open    == {i \in Streams : port[i]}

Phases  == /\ Opening => phase = "opening"
           /\ Closing => phase = "closing"
           /\ IsUp => phase = "up"
           /\ ~Opening /\ ~Closing /\ ~IsUp => phase = "down"

\* The cases of phase exclude each other: a start is alone (StartAlone), and the
\* thread that lives is the one the handle names (ThreadKnown).
LEMMA PhaseIs == SerialInv => Phases
<1>. SUFFICES ASSUME SerialInv PROVE Phases
  OBVIOUS
<1>1. ~(Opening /\ Closing)
  BY DEF SerialInv, OneCall, StartAlone, Opening, Closing, Lifecycle, StartPcs
<1>2. ~(Opening /\ IsUp)
  BY DEF SerialInv, StartAlone, Opening, IsUp, StartPcs
<1>3. ~(Closing /\ IsUp)
  <2>1. ~((\E u \in Users : pc[u] = "undo") /\ IsUp)
    BY DEF SerialInv, StartAlone, IsUp, StartPcs
  <2>2. ~((state = 0 /\ \E t \in Threads : Live(t) /\ tpc[t] # "spawned") /\ IsUp)
    BY DEF SerialInv, ThreadKnown, IsUp
  <2>. QED  BY <2>1, <2>2 DEF Closing
<1>4. CASE Opening
  <2>1. phase = "opening"
    BY <1>1, <1>2, <1>4 DEF phase, Opening, Closing, IsUp
  <2>. QED  BY <2>1, <1>1, <1>2, <1>4 DEF Phases
<1>5. CASE Closing
  <2>1. phase = "closing"
    BY <1>1, <1>3, <1>5 DEF phase, Opening, Closing, IsUp
  <2>. QED  BY <2>1, <1>1, <1>3, <1>5 DEF Phases
<1>6. CASE IsUp
  <2>1. phase = "up"
    BY <1>2, <1>3, <1>6 DEF phase, Opening, Closing, IsUp
  <2>. QED  BY <2>1, <1>2, <1>3, <1>6 DEF Phases
<1>7. CASE ~Opening /\ ~Closing /\ ~IsUp
  <2>1. phase = "down"
    BY <1>7 DEF phase, Opening, Closing, IsUp
  <2>. QED  BY <2>1, <1>7 DEF Phases
<1>. QED  BY <1>4, <1>5, <1>6, <1>7

\* What a step of the server does to the phase and to the open streams.
Keeps == phase' = phase /\ Open' = Open

\* A step of rtksvrstart is one of SvrLife.
LEMMA StartLife ==
  ASSUME SerialCallers, SerialInv, SerialInv', Phases, Phases', NEW u \in Users, StartStep(u)
  PROVE  Life!LifeNext \/ Keeps
<1>. USE SvrAssumption
     DEF Looping, Live, LivePcs, BufferPcs, TSections, Lifecycle, StartPcs, StopPcs, SerialCallers,
         MayCall, Goto, GotoAt, TGoto, TGotoAt, svrVars, Streams, NStr, Stropen, Strclose, ThreadUnlock
<1>0. SUFFICES ASSUME ~Keeps PROVE Life!LifeNext
  OBVIOUS
<1>1. CASE CallStart(u)
  <2>1. ~Opening /\ ~Closing /\ ~IsUp
    BY <1>1 DEF CallStart, SerialInv, Leaving, Opening, Closing, IsUp
  <2>2. Opening' /\ Open' = Open
    BY <1>1 DEF CallStart, Opening, Open, SerialInv, TypeOK
  <2>. QED  BY <2>1, <2>2 DEF Phases, Life!LifeNext, Life!Begin, Open
<1>2. CASE StartAlloc(u)
  <2>1. Opening /\ Opening' /\ Open' = Open
    BY <1>2 DEF StartAlloc, Opening, Open, SerialInv, TypeOK
  <2>. QED  BY <2>1, <1>0 DEF Phases, Keeps
<1>3. CASE StartAllocFails(u)
  <2>1. Opening /\ Open = {} /\ Open' = {}
    BY <1>3 DEF StartAllocFails, Opening, Open, SerialInv, Closed, StartAlone, OneCall
  <2>2. ~Opening' /\ ~Closing' /\ ~IsUp'
    BY <1>3 DEF StartAllocFails, SerialInv, TypeOK, StartAlone, OneCall, Opening, Closing, IsUp
  <2>. QED  BY <2>1, <2>2 DEF Phases, Life!LifeNext, Life!Refuse, Open
<1>4. CASE StartOpen(u)
  <2>1. Opening /\ Opening'
    BY <1>4 DEF StartOpen, Opening, SerialInv, TypeOK
  <2>2. at[u] \in Streams /\ ~port[at[u]]
    BY <1>4 DEF StartOpen, SerialInv, Closed, TypeOK
  <2>3. PICK opened \in BOOLEAN : port' = [port EXCEPT ![at[u]] = opened]
    BY <1>4 DEF StartOpen
  <2>4. CASE opened
    <3>1. at[u] \notin Open /\ Open' = Open \cup {at[u]}
      BY <2>2, <2>3, <2>4 DEF Open, SerialInv, TypeOK
    <3>. QED  BY <2>1, <2>2, <3>1 DEF Phases, Life!LifeNext, Life!OpenOne, Open
  <2>5. CASE ~opened
    <3>1. Open' = Open
      BY <2>2, <2>3, <2>5 DEF Open, SerialInv, TypeOK
    <3>. QED  BY <2>1, <3>1, <1>0 DEF Phases, Keeps
  <2>. QED  BY <2>4, <2>5
<1>5. CASE StartOpenFails(u)
  <2>1. Opening /\ Closing'
    BY <1>5 DEF StartOpenFails, Opening, Closing, SerialInv, TypeOK
  <2>2. Open' = Open
    <3>1. ~port[at[u]] /\ port' = [port EXCEPT ![at[u]] = FALSE]
      BY <1>5 DEF StartOpenFails, SerialInv, Closed, TypeOK
    <3>. QED  BY <3>1 DEF Open, SerialInv, TypeOK
  <2>. QED  BY <2>1, <2>2 DEF Phases, Life!LifeNext, Life!Abort, Open
<1>6. CASE StartUndo(u)
  <2>1. CASE at[u] = 0
    <3>1. Closing /\ Open = {} /\ Open' = {}
      BY <1>6, <2>1 DEF StartUndo, Closing, Open, SerialInv, Closed
    <3>2. ~Opening' /\ ~Closing' /\ ~IsUp'
      <4>1. pc' = [pc EXCEPT ![u] = "idle"] /\ tpc' = tpc /\ pc[u] = "undo"
        BY <1>6, <2>1 DEF StartUndo
      <4>2. \A t \in Threads : ~Live(t)
        BY <4>1 DEF SerialInv, StartAlone
      <4>3. \A v \in Users : v # u => pc[v] \notin StartPcs
        BY <4>1 DEF SerialInv, OneCall
      <4>4. \A v \in Users : pc'[v] \notin StartPcs
        BY <4>1, <4>3 DEF SerialInv, TypeOK
      <4>. QED  BY <4>1, <4>2, <4>4 DEF Opening, Closing, IsUp
    <3>. QED  BY <3>1, <3>2 DEF Phases, Life!LifeNext, Life!Ended, Open
  <2>2. CASE at[u] # 0
    <3>1. Closing /\ Closing'
      BY <1>6, <2>2 DEF StartUndo, Closing, SerialInv, TypeOK
    <3>2. Open' = Open \ {at[u] - 1}
      BY <1>6, <2>2 DEF StartUndo, Open, SerialInv, TypeOK
    <3>3. CASE at[u] - 1 \in Open
      BY <3>1, <3>2, <3>3 DEF Phases, Life!LifeNext, Life!Close, Open
    <3>4. CASE at[u] - 1 \notin Open
      BY <3>1, <3>2, <3>4, <1>0 DEF Phases, Keeps
    <3>. QED  BY <3>3, <3>4
  <2>. QED  BY <2>1, <2>2
<1>7. CASE StartCreate(u)
  <2>1. Opening /\ IsUp' /\ Open' = Open
    BY <1>7 DEF StartCreate, Opening, IsUp, Open, SerialInv, TypeOK
  <2>. QED  BY <2>1 DEF Phases, Life!LifeNext, Life!GoUp, Open
<1>8. CASE StartCreateFails(u)
  <2>1. Opening /\ Closing' /\ Open' = Open
    BY <1>8 DEF StartCreateFails, Opening, Closing, Open, SerialInv, TypeOK
  <2>. QED  BY <2>1 DEF Phases, Life!LifeNext, Life!Abort, Open
<1>. QED  BY <1>1, <1>2, <1>3, <1>4, <1>5, <1>6, <1>7, <1>8 DEF StartStep

\* So is one of rtksvrstop.
LEMMA StopLife ==
  ASSUME SerialCallers, SerialInv, SerialInv', Phases, Phases', NEW u \in Users, StopStep(u)
  PROVE  Life!LifeNext \/ Keeps
<1>. USE SvrAssumption
     DEF Looping, Live, LivePcs, BufferPcs, TSections, Lifecycle, StartPcs, StopPcs, SerialCallers,
         MayCall, Goto, GotoAt, TGoto, TGotoAt, svrVars, Streams, NStr, Stropen, Strclose, ThreadUnlock
<1>1. CASE CallStop(u)
  <2>1. IsUp /\ IsUp' /\ Open' = Open
    BY <1>1 DEF CallStop, IsUp, Open, SerialInv, TypeOK, Running
  <2>. QED  BY <2>1 DEF Phases, Keeps
<1>2. CASE StopCmds(u)
  <2>1. IsUp /\ IsUp' /\ Open' = Open
    BY <1>2 DEF StopCmds, IsUp, Open, SerialInv, TypeOK, Running, Called
  <2>. QED  BY <2>1 DEF Phases, Keeps
<1>3. CASE StopClear(u)
  <2>1. IsUp /\ Closing' /\ Open' = Open
    BY <1>3 DEF StopClear, IsUp, Closing, Open, SerialInv, TypeOK, Running, Called
  <2>. QED  BY <2>1 DEF Phases, Life!LifeNext, Life!GoDown, Open
<1>4. CASE StopJoin(u)
  <2>1. pc[u] = "join" /\ pc' = [pc EXCEPT ![u] = "idle"] /\ tpc' = [tpc EXCEPT ![thread] = "joined"]
        /\ Open' = Open /\ tpc[thread] \in {"done", "joined"} /\ state' = state
    BY <1>4 DEF StopJoin, Open
  <2>2. \A t \in Threads : ~Live(t)
    BY <2>1 DEF SerialInv, ThreadKnown
  <2>3. \A v \in Users : pc[v] \notin StartPcs
    BY <2>1 DEF SerialInv, OneCall
  <2>4. ~Opening /\ ~Closing /\ ~IsUp
    BY <2>2, <2>3 DEF Opening, Closing, IsUp
  <2>5. ~Opening' /\ ~Closing' /\ ~IsUp'
    <3>1. \A v \in Users : pc'[v] \notin StartPcs
      BY <2>1, <2>3 DEF SerialInv, TypeOK
    <3>2. \A t \in Threads : ~Live(t)'
      BY <2>1, <2>2 DEF SerialInv, TypeOK
    <3>. QED  BY <3>1, <3>2 DEF Opening, Closing, IsUp
  <2>. QED  BY <2>1, <2>4, <2>5 DEF Phases, Keeps
<1>. QED  BY <1>1, <1>2, <1>3, <1>4 DEF StopStep

\* So is one of the calls under svr->lock.
LEMMA SectionLife ==
  ASSUME SerialCallers, SerialInv, SerialInv', Phases, Phases', NEW u \in Users, SectionStep(u)
  PROVE  Life!LifeNext \/ Keeps
<1>. USE SvrAssumption
     DEF Looping, Live, LivePcs, BufferPcs, TSections, Lifecycle, StartPcs, StopPcs, SerialCallers,
         MayCall, Goto, GotoAt, TGoto, TGotoAt, svrVars, Streams, NStr, Stropen, Strclose, ThreadUnlock
<1>1. ASSUME port' = port, state' = state, tpc' = tpc,
             \A v \in Users : pc'[v] = pc[v] \/ (pc[v] \notin StartPcs /\ pc'[v] \notin StartPcs)
      PROVE  Keeps
  <2>1. (Opening <=> Opening') /\ (Closing <=> Closing') /\ (IsUp <=> IsUp')
    BY <1>1 DEF Opening, Closing, IsUp
  <2>2. Open' = Open
    BY <1>1 DEF Open
  <2>. QED  BY <2>1, <2>2 DEF Phases, Keeps
<1>2. ASSUME NEW op \in {"openstr", "closestr"}, CallStr(u, op)
      PROVE  Keeps
  BY <1>1, <1>2 DEF CallStr, SerialInv, TypeOK
<1>3. CASE CallStat(u)
  BY <1>1, <1>3 DEF CallStat, SerialInv, TypeOK
<1>4. CASE CallMark(u)
  BY <1>1, <1>4 DEF CallMark, SerialInv, TypeOK
<1>5. CASE UserLock(u)
  BY <1>1, <1>5 DEF UserLock, SerialInv, TypeOK
<1>6. CASE OpenStr(u)
  <2>1. CASE port' = port
    <3>1. pc[u] = "openstr" /\ pc' = [pc EXCEPT ![u] = "idle"] /\ state' = state /\ tpc' = tpc
      BY <1>6 DEF OpenStr
    <3>. QED  BY <1>1, <2>1, <3>1 DEF SerialInv, TypeOK
  <2>2. CASE port' # port
    <3>1. IsUp /\ IsUp'
      BY <1>6 DEF OpenStr, IsUp, SerialInv, TypeOK, Running, Called
    <3>2. at[u] \in Openable \ Open /\ Open' = Open \cup {at[u]}
      <4>1. ~port[at[u]] /\ port' = [port EXCEPT ![at[u]] = TRUE] /\ pc[u] = "openstr"
        BY <1>6, <2>2 DEF OpenStr
      <4>2. at[u] \in Openable
        BY <4>1 DEF SerialInv, Placed
      <4>. QED  BY <4>1, <4>2 DEF Open, Openable, SerialInv, TypeOK
    <3>. QED  BY <3>1, <3>2 DEF Phases, Life!LifeNext, Life!Add, Open
  <2>. QED  BY <2>1, <2>2
<1>7. CASE CloseStr(u)
  <2>1. IsUp /\ IsUp'
    BY <1>7 DEF CloseStr, IsUp, SerialInv, TypeOK, Running, Called
  <2>2. at[u] \in Openable /\ Open' = Open \ {at[u]}
    <3>1. port' = [port EXCEPT ![at[u]] = FALSE] /\ pc[u] = "closestr"
      BY <1>7 DEF CloseStr
    <3>2. at[u] \in Openable
      BY <3>1 DEF SerialInv, Placed
    <3>. QED  BY <3>1, <3>2 DEF Open, Openable, SerialInv, TypeOK
  <2>3. CASE at[u] \in Open
    BY <2>1, <2>2, <2>3 DEF Phases, Life!LifeNext, Life!Remove, Open
  <2>4. CASE at[u] \notin Open
    BY <2>1, <2>2, <2>4 DEF Phases, Keeps
  <2>. QED  BY <2>3, <2>4
<1>8. CASE Stat(u)
  BY <1>1, <1>8 DEF Stat, SerialInv, TypeOK
<1>9. CASE Mark(u)
  BY <1>1, <1>9 DEF Mark, SerialInv, TypeOK
<1>. QED  BY <1>2, <1>3, <1>4, <1>5, <1>6, <1>7, <1>8, <1>9 DEF SectionStep, Keeps

\* So is one of a server thread.
LEMMA ThreadLife ==
  ASSUME SerialCallers, SerialInv, SerialInv', Phases, Phases', NEW t \in Threads, ThreadStep(t)
  PROVE  Life!LifeNext \/ Keeps
<1>. USE SvrAssumption
     DEF Looping, Live, LivePcs, BufferPcs, TSections, Lifecycle, StartPcs, StopPcs, SerialCallers,
         MayCall, Goto, GotoAt, TGoto, TGotoAt, svrVars, Streams, NStr, Stropen, Strclose, ThreadUnlock
<1>1. ASSUME port' = port, state' = state, pc' = pc, Live(t), tpc[t] # "spawned",
             Live(t)', tpc'[t] # "spawned", \A s \in Threads : s # t => tpc'[s] = tpc[s]
      PROVE  Keeps
  <2>1. (Opening <=> Opening') /\ (Closing <=> Closing') /\ (IsUp <=> IsUp')
    BY <1>1 DEF Opening, Closing, IsUp, SerialInv, TypeOK
  <2>2. Open' = Open
    BY <1>1 DEF Open
  <2>. QED  BY <2>1, <2>2 DEF Phases, Keeps
<1>2. CASE ThreadRun(t)
  <2>1. IsUp /\ IsUp' /\ Open' = Open
    BY <1>2 DEF ThreadRun, IsUp, Open, SerialInv, TypeOK
  <2>. QED  BY <2>1 DEF Phases, Keeps
<1>3. CASE ThreadNoMem(t)
  BY <1>3 DEF ThreadNoMem
<1>4. CASE ThreadTop(t)
  BY <1>1, <1>4 DEF ThreadTop, SerialInv, TypeOK
<1>5. CASE ThreadRead(t)
  BY <1>1, <1>5 DEF ThreadRead, SerialInv, TypeOK
<1>6. CASE ThreadLock(t)
  BY <1>1, <1>6 DEF ThreadLock, SerialInv, TypeOK
<1>7. CASE ThreadPeek(t)
  BY <1>1, <1>7 DEF ThreadPeek, SerialInv, TypeOK
<1>8. CASE ThreadDecode(t)
  BY <1>1, <1>8 DEF ThreadDecode, SerialInv, TypeOK
<1>9. CASE ThreadNext(t)
  BY <1>1, <1>9 DEF ThreadNext, SerialInv, TypeOK
<1>10. CASE ThreadRtkpos(t)
  BY <1>1, <1>10 DEF ThreadRtkpos, SerialInv, TypeOK
<1>11. CASE ThreadSaveout(t)
  BY <1>1, <1>11 DEF ThreadSaveout, SerialInv, TypeOK
<1>12. CASE ThreadClose(t)
  <2>1. tpc[t] = "close" /\ tpc' = [tpc EXCEPT ![t] = "close"] /\ state' = state /\ tat[t] \in Streams
        /\ port' = [port EXCEPT ![tat[t]] = FALSE]
    BY <1>12 DEF ThreadClose, SerialInv, TypeOK
  <2>2. state = 0
    BY <2>1 DEF SerialInv, ThreadKnown, Running, TypeOK
  <2>3. Closing /\ Closing'
    BY <2>1, <2>2 DEF Closing, SerialInv, TypeOK
  <2>4. Open' = Open \ {tat[t]}
    BY <2>1 DEF Open, SerialInv, TypeOK
  <2>5. CASE tat[t] \in Open
    BY <2>3, <2>4, <2>5 DEF Phases, Life!LifeNext, Life!Close, Open
  <2>6. CASE tat[t] \notin Open
    BY <2>3, <2>4, <2>6 DEF Phases, Keeps
  <2>. QED  BY <2>5, <2>6
<1>13. CASE ThreadFree(t)
  <2>1. tpc[t] = "close" /\ tpc' = [tpc EXCEPT ![t] = "done"] /\ state' = state /\ tat[t] = NStr
        /\ port' = port /\ pc' = pc
    BY <1>13 DEF ThreadFree
  <2>2. state = 0
    BY <2>1 DEF SerialInv, ThreadKnown, Running, TypeOK
  <2>3. Closing /\ Open = {} /\ Open' = {}
    BY <2>1, <2>2, SMTT(30) DEF Closing, Open, SerialInv, TypeOK, Closed
  <2>4. \A v \in Users : pc[v] \notin StartPcs
    BY <2>1 DEF SerialInv, StartAlone
  <2>5. \A s \in Threads : ~Live(s)'
    <3>1. \A s \in Threads : s # t => ~Live(s)
      BY <2>1 DEF SerialInv, ThreadKnown
    <3>. QED  BY <2>1, <3>1 DEF SerialInv, TypeOK
  <2>6. ~Opening' /\ ~Closing' /\ ~IsUp'
    BY <2>1, <2>4, <2>5 DEF Opening, Closing, IsUp
  <2>. QED  BY <2>3, <2>6 DEF Phases, Life!LifeNext, Life!Ended, Open
<1>. QED  BY <1>2, <1>3, <1>4, <1>5, <1>6, <1>7, <1>8, <1>9, <1>10, <1>11, <1>12, <1>13
       DEF ThreadStep, Keeps

\* Whatever the server does, its operator sees SvrLife: it opens its streams, runs, and
\* closes everything it opened before it is down.
THEOREM StepsAsLifeHolds == ASSUME SerialCallers PROVE Spec => StepsAsLife
<1>1. Init => Life!LifeInit
  <2>. SUFFICES ASSUME Init PROVE Life!LifeInit
    OBVIOUS
  <2>1. SerialInv /\ ~Opening /\ ~Closing /\ ~IsUp
    BY InitInv DEF Init, Opening, Closing, IsUp, Live, LivePcs, BufferPcs, TSections
  <2>2. Open = {}
    BY DEF Init, Open
  <2>. QED  BY <2>1, <2>2, PhaseIs DEF Phases, Life!LifeInit, Open
<1>2. SerialInv /\ SerialInv' /\ [Next]_vars => [Life!LifeNext]_<<phase, Open>>
  <2>1. SerialInv' => Phases'
    BY PhaseIs, PTL
  <2>. SUFFICES ASSUME SerialInv, SerialInv', [Next]_vars PROVE Life!LifeNext \/ Keeps
    BY DEF Keeps
  <2>2. CASE UNCHANGED vars
    BY <2>2 DEF vars, Keeps, Open, phase, Live
  <2>3. ASSUME NEW u \in Users, UserStep(u) PROVE Life!LifeNext \/ Keeps
    BY <2>1, <2>3, PhaseIs, SerialCallers, StartLife, StopLife, SectionLife DEF UserStep
  <2>4. ASSUME NEW t \in Threads, ThreadStep(t) PROVE Life!LifeNext \/ Keeps
    BY <2>1, <2>4, PhaseIs, SerialCallers, ThreadLife
  <2>. QED  BY <2>2, <2>3, <2>4 DEF Next
<1>3. Spec => []SerialInv
  BY SerialInvariant, SerialCallers
<1>4. StepsAsLife <=> Life!LifeInit /\ [][Life!LifeNext]_<<phase, Open>>
  BY DEF StepsAsLife, Open
<1>. QED  BY <1>1, <1>2, <1>3, <1>4, PTL DEF Spec

-----------------------------------------------------------------------------
\* Where each thread is; all that the proof below needs of TypeOK.
Places == pc \in [Users -> UserPcs] /\ tpc \in [Threads -> ThreadPcs]
LockInv == Places /\ NoLockLeftHeld

\* A user's step leaves the lock with a thread inside a critical section.
LEMMA UserLockInv ==
  ASSUME LockInv, NEW u \in Users, UserStep(u)
  PROVE  LockInv'
<1>. USE SvrAssumption
     DEF LockInv, Places, NoLockLeftHeld, svrVars, Goto, GotoAt, TGoto, TGotoAt, USections,
         TSections, UserPcs, Lifecycle, StartPcs, StopPcs, ThreadPcs, LivePcs, BufferPcs
<1>1. CASE CallStart(u)
  BY <1>1 DEF CallStart
<1>2. CASE StartAlloc(u)
  BY <1>2 DEF StartAlloc
<1>3. CASE StartAllocFails(u)
  BY <1>3 DEF StartAllocFails
<1>4. CASE StartOpen(u)
  BY <1>4 DEF StartOpen
<1>5. CASE StartOpenFails(u)
  BY <1>5 DEF StartOpenFails
<1>6. CASE StartUndo(u)
  BY <1>6 DEF StartUndo
<1>7. CASE StartCreate(u)
  BY <1>7 DEF StartCreate
<1>8. CASE StartCreateFails(u)
  BY <1>8 DEF StartCreateFails
<1>9. CASE CallStop(u)
  BY <1>9 DEF CallStop
<1>10. CASE StopCmds(u)
  BY <1>10 DEF StopCmds
<1>11. CASE StopClear(u)
  BY <1>11 DEF StopClear
<1>12. CASE StopJoin(u)
  BY <1>12 DEF StopJoin
<1>13. CASE CallStr(u, "openstr")
  BY <1>13 DEF CallStr
<1>14. CASE CallStr(u, "closestr")
  BY <1>14 DEF CallStr
<1>15. CASE CallStat(u)
  BY <1>15 DEF CallStat
<1>16. CASE CallMark(u)
  BY <1>16 DEF CallMark
<1>17. CASE UserLock(u)
  BY <1>17 DEF UserLock
<1>18. CASE OpenStr(u)
  BY <1>18 DEF OpenStr
<1>19. CASE CloseStr(u)
  BY <1>19 DEF CloseStr
<1>20. CASE Stat(u)
  BY <1>20 DEF Stat
<1>21. CASE Mark(u)
  BY <1>21 DEF Mark
<1>. QED  BY <1>1, <1>2, <1>3, <1>4, <1>5, <1>6, <1>7, <1>8, <1>9, <1>10, <1>11, <1>12,
       <1>13, <1>14, <1>15, <1>16, <1>17, <1>18, <1>19, <1>20, <1>21 DEF UserStep,
       StartStep, StopStep, SectionStep

\* So does a step of a server thread.
LEMMA ThreadLockInv ==
  ASSUME LockInv, NEW t \in Threads, ThreadStep(t)
  PROVE  LockInv'
<1>. USE SvrAssumption
     DEF LockInv, Places, NoLockLeftHeld, svrVars, Goto, GotoAt, TGoto, TGotoAt, USections,
         TSections, UserPcs, Lifecycle, StartPcs, StopPcs, ThreadPcs, LivePcs, BufferPcs
<1>1. CASE ThreadRun(t)
  BY <1>1 DEF ThreadRun
<1>2. CASE ThreadNoMem(t)
  BY <1>2 DEF ThreadNoMem
<1>3. CASE ThreadTop(t)
  BY <1>3 DEF ThreadTop
<1>4. CASE ThreadRead(t)
  BY <1>4 DEF ThreadRead
<1>5. CASE ThreadLock(t)
  BY <1>5 DEF ThreadLock
<1>6. CASE ThreadPeek(t)
  BY <1>6 DEF ThreadPeek, ThreadUnlock
<1>7. CASE ThreadDecode(t)
  BY <1>7 DEF ThreadDecode, ThreadUnlock
<1>8. CASE ThreadNext(t)
  BY <1>8 DEF ThreadNext
<1>9. CASE ThreadRtkpos(t)
  BY <1>9 DEF ThreadRtkpos, ThreadUnlock
<1>10. CASE ThreadSaveout(t)
  BY <1>10 DEF ThreadSaveout, ThreadUnlock
<1>11. CASE ThreadClose(t)
  BY <1>11 DEF ThreadClose
<1>12. CASE ThreadFree(t)
  BY <1>12 DEF ThreadFree
<1>. QED  BY <1>1, <1>2, <1>3, <1>4, <1>5, <1>6, <1>7, <1>8, <1>9, <1>10, <1>11,
       <1>12 DEF ThreadStep

\* Whatever the callers do and whichever failure happens, a call or a thread
\* that is outside its critical sections does not hold svr->lock.
THEOREM NoLockLeftHeldHolds == Spec => []NoLockLeftHeld
<1>1. Init => LockInv
  BY SvrAssumption DEF Init, LockInv, Places, NoLockLeftHeld, UserPcs, ThreadPcs
<1>2. LockInv /\ [Next]_vars => LockInv'
  <2>1. LockInv /\ UNCHANGED vars => LockInv'
    BY DEF LockInv, Places, NoLockLeftHeld, vars
  <2>. QED  BY <2>1, UserLockInv, ThreadLockInv DEF Next
<1>3. LockInv => NoLockLeftHeld
  BY DEF LockInv
<1>. QED  BY <1>1, <1>2, <1>3, PTL DEF Spec
=============================================================================
