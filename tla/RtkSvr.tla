------------------------------- MODULE RtkSvr -------------------------------
(***************************************************************************)
(* Life cycle of the RTK server (src/src/stream/mrtk_rtksvr.c): the calls  *)
(* rtksvrstart, rtksvrstop, rtksvropenstr, rtksvrclosestr, rtksvrostat,    *)
(* rtksvrsstat and rtksvrmark, made by any number of user threads, against *)
(* the server threads that rtksvrstart creates.                            *)
(*                                                                         *)
(* A step is what happens between two points where another thread can be   *)
(* seen: a read or write of svr->state, one stream opened or closed, one   *)
(* critical section of svr->lock entered or left.  Bytes and positions are *)
(* not here (RtkData has them); which memory and which streams a thread    *)
(* touches is.                                                             *)
(***************************************************************************)
EXTENDS Integers, FiniteSets

CONSTANTS
    Users,    \* threads that call the API: consoles, main
    Threads,  \* identities pthread_create can give a server thread
    NoOne,    \* no thread: a free lock, svr->thread before the first start
    NIn,      \* input streams (3 in the code); as many log streams
    NSol,     \* solution streams (2 in the code)
    Ops,      \* the calls that are made
    Faults,   \* the failures that happen
    Serial    \* TRUE: callers serialise start/stop/openstr/closestr and wait
              \* for a created thread to be up before the next of these calls

Calls == {"start", "stop", "openstr", "closestr", "stat", "mark"}
FaultKinds == {"malloc", "stropen", "create", "threadmalloc"}

ASSUME SvrAssumption ==
    /\ NIn \in Nat \ {0} /\ NSol \in Nat \ {0}
    /\ NoOne \notin Users \cup Threads
    /\ Users \cap Threads = {}
    /\ Ops \subseteq Calls
    /\ Faults \subseteq FaultKinds
    /\ Serial \in BOOLEAN

\* stream[]: inputs first, then solutions, then one log per input
NStr     == 2 * NIn + NSol
Streams  == 0 .. NStr - 1
InStr    == 0 .. NIn - 1
Openable == NIn .. NStr - 1

VARIABLES
    state,    \* svr->state
    thread,   \* svr->thread, the thread rtksvrstop joins
    lock,     \* holder of svr->lock (not recursive)
    port,     \* port[i]: stream[i].port is not NULL
    leaked,   \* streams whose open port was overwritten by a second stropen
    heap,     \* buff[], pbuf[], sbuf[] can be dereferenced
    pc, at,   \* per user: where it is in a call, and the stream index there
    tpc, tat  \* per server thread: the same

svrVars  == <<state, thread, lock, port, leaked, heap>>
vars     == <<state, thread, lock, port, leaked, heap, pc, at, tpc, tat>>

StartPcs   == {"alloc", "open", "undo", "create"}
StopPcs    == {"stopcmds", "clear", "join"}
USections  == {"stopcmds", "openstr", "closestr", "stat", "mark", "markout"}
Lifecycle  == StartPcs \cup StopPcs \cup {"openstr", "closestr"}
UserPcs    == {"idle"} \cup Lifecycle \cup USections

TSections  == {"peek", "decode", "rtkpos", "saveout"}
BufferPcs  == {"read", "next"} \cup TSections
LivePcs    == {"spawned", "top", "close"} \cup BufferPcs
ThreadPcs  == {"none", "done", "joined"} \cup LivePcs
Live(t)    == tpc[t] \in LivePcs

TypeOK ==
    /\ state \in {0, 1}
    /\ thread \in Threads \cup {NoOne}
    /\ lock \in Users \cup Threads \cup {NoOne}
    /\ port \in [Streams -> BOOLEAN]
    /\ leaked \in SUBSET Streams
    /\ heap \in BOOLEAN
    /\ pc \in [Users -> UserPcs]
    /\ at \in [Users -> 0 .. NStr]
    /\ tpc \in [Threads -> ThreadPcs]
    /\ tat \in [Threads -> 0 .. NStr]

\* rtksvrinit: nothing open, nothing allocated, no thread yet
Init ==
    /\ state = 0
    /\ thread = NoOne
    /\ lock = NoOne
    /\ port = [i \in Streams |-> FALSE]
    /\ leaked = {}
    /\ heap = FALSE
    /\ pc = [u \in Users |-> "idle"]
    /\ at = [u \in Users |-> 0]
    /\ tpc = [t \in Threads |-> "none"]
    /\ tat = [t \in Threads |-> 0]

-----------------------------------------------------------------------------
(* What callers promise when Serial: one call of the life cycle at a time,  *)
(* none while a created thread has not yet set svr->state.                  *)
MayCall ==
    Serial => /\ \A v \in Users : pc[v] \notin Lifecycle
              /\ \A t \in Threads : tpc[t] # "spawned"

Goto(u, l)    == pc' = [pc EXCEPT ![u] = l]
GotoAt(u,l,i) == Goto(u, l) /\ at' = [at EXCEPT ![u] = i]
TGoto(t, l)   == tpc' = [tpc EXCEPT ![t] = l]
TGotoAt(t,l,i) == TGoto(t, l) /\ tat' = [tat EXCEPT ![t] = i]

\* stropen: the struct is overwritten, an open port in it is forgotten
Stropen(i, opened) ==
    /\ port' = [port EXCEPT ![i] = opened]
    /\ leaked' = IF port[i] THEN leaked \cup {i} ELSE leaked
\* strclose
Strclose(i) == port' = [port EXCEPT ![i] = FALSE]

-----------------------------------------------------------------------------
(* rtksvrstart                                                             *)

\* a call that finds svr->state set returns 0 and changes nothing
CallStart(u) ==
    /\ pc[u] = "idle" /\ "start" \in Ops /\ MayCall
    /\ state = 0
    /\ Goto(u, "alloc")
    /\ UNCHANGED <<svrVars, at, tpc, tat>>

StartAlloc(u) ==
    /\ pc[u] = "alloc"
    /\ heap' = TRUE
    /\ GotoAt(u, "open", 0)
    /\ UNCHANGED <<state, thread, lock, port, leaked, tpc, tat>>

\* a failing malloc leaves NULL in one of the buffers and returns 0
StartAllocFails(u) ==
    /\ pc[u] = "alloc" /\ "malloc" \in Faults
    /\ heap' = FALSE
    /\ Goto(u, "idle")
    /\ UNCHANGED <<state, thread, lock, port, leaked, at, tpc, tat>>

\* a stream of type STR_NONE is opened successfully without a port
StartOpen(u) ==
    /\ pc[u] = "open" /\ at[u] < NStr
    /\ \E opened \in BOOLEAN : Stropen(at[u], opened)
    /\ IF at[u] + 1 = NStr THEN GotoAt(u, "create", 0) ELSE GotoAt(u, "open", at[u] + 1)
    /\ UNCHANGED <<state, thread, lock, heap, tpc, tat>>

StartOpenFails(u) ==
    /\ pc[u] = "open" /\ at[u] < NStr /\ "stropen" \in Faults
    /\ Stropen(at[u], FALSE)
    /\ Goto(u, "undo")
    /\ UNCHANGED <<state, thread, lock, heap, at, tpc, tat>>

\* streams at[u]-1 .. 0 are still to be closed (after a failing pthread_create
\* the code closes all of them in ascending order: nobody can tell)
StartUndo(u) ==
    /\ pc[u] = "undo"
    /\ IF at[u] = 0
       THEN Goto(u, "idle") /\ UNCHANGED <<port, at>>
       ELSE /\ Strclose(at[u] - 1)
            /\ at' = [at EXCEPT ![u] = at[u] - 1]
            /\ UNCHANGED pc
    /\ UNCHANGED <<state, thread, lock, leaked, heap, tpc, tat>>

\* pthread_create: the thread exists, svr->state is still 0
StartCreate(u) ==
    /\ pc[u] = "create"
    /\ \E t \in Threads :
         /\ tpc[t] \in {"none", "joined"}
         /\ TGoto(t, "spawned")
         /\ thread' = t
    /\ Goto(u, "idle")
    /\ UNCHANGED <<state, lock, port, leaked, heap, at, tat>>

StartCreateFails(u) ==
    /\ pc[u] = "create" /\ "create" \in Faults
    /\ GotoAt(u, "undo", NStr)
    /\ UNCHANGED <<svrVars, tpc, tat>>

-----------------------------------------------------------------------------
(* rtksvrstop: the caller has seen the server running (stopsvr of rtkrcv    *)
(* tests svr->state), sends the stop commands under the lock, clears the    *)
(* state and joins the thread.                                              *)

CallStop(u) ==
    /\ pc[u] = "idle" /\ "stop" \in Ops /\ MayCall
    /\ state = 1
    /\ Goto(u, "stopcmds")
    /\ UNCHANGED <<svrVars, at, tpc, tat>>

StopCmds(u) ==
    /\ pc[u] = "stopcmds" /\ lock = u
    /\ lock' = NoOne
    /\ Goto(u, "clear")
    /\ UNCHANGED <<state, thread, port, leaked, heap, at, tpc, tat>>

\* mutant: the state is not cleared
StopClear_Keeps(u) ==
    /\ pc[u] = "clear"
    /\ Goto(u, "join")
    /\ UNCHANGED <<svrVars, at, tpc, tat>>

StopClear(u) ==
    /\ pc[u] = "clear"
    /\ state' = 0
    /\ Goto(u, "join")
    /\ UNCHANGED <<thread, lock, port, leaked, heap, at, tpc, tat>>

\* mutant: stop returns without waiting for the thread
StopJoin_NoWait(u) ==
    /\ pc[u] = "join"
    /\ Goto(u, "idle")
    /\ UNCHANGED <<svrVars, at, tpc, tat>>

\* a second join of the same thread is undefined: here it returns
StopJoin(u) ==
    /\ pc[u] = "join"
    /\ tpc[thread] \in {"done", "joined"}
    /\ TGoto(thread, "joined")
    /\ Goto(u, "idle")
    /\ UNCHANGED <<svrVars, at, tat>>

-----------------------------------------------------------------------------
(* The calls that test svr->state and then work under the lock.            *)
CallStr(u, op) ==
    /\ pc[u] = "idle" /\ op \in Ops \cap {"openstr", "closestr"} /\ MayCall
    /\ state = 1
    /\ \E i \in Openable : GotoAt(u, op, i)
    /\ UNCHANGED <<svrVars, tpc, tat>>

\* rtksvrostat returns without the lock when svr->state is 0, rtksvrsstat
\* never does; both read under the lock and change nothing
CallStat(u) ==
    /\ pc[u] = "idle" /\ "stat" \in Ops
    /\ Goto(u, "stat")
    /\ UNCHANGED <<svrVars, at, tpc, tat>>

CallMark(u) ==
    /\ pc[u] = "idle" /\ "mark" \in Ops
    /\ state = 1
    /\ Goto(u, "mark")
    /\ UNCHANGED <<svrVars, at, tpc, tat>>

\* rtksvrlock by a user; "markout" is the lock saveoutbuf asks for while
\* rtksvrmark holds it
UserLock(u) ==
    /\ pc[u] \in USections
    /\ lock = NoOne
    /\ lock' = u
    /\ UNCHANGED <<state, thread, port, leaked, heap, pc, at, tpc, tat>>

\* mutant: the refusal returns without rtksvrunlock
OpenStr_LeavesLock(u) ==
    /\ pc[u] = "openstr" /\ lock = u
    /\ \/ UNCHANGED <<port, leaked, lock>> /\ port[at[u]]
       \/ ~port[at[u]] /\ Stropen(at[u], TRUE) /\ lock' = NoOne
    /\ GotoAt(u, "idle", 0)
    /\ UNCHANGED <<state, thread, heap, tpc, tat>>

\* rtksvropenstr: refused when the stream is open already
OpenStr(u) ==
    /\ pc[u] = "openstr" /\ lock = u
    /\ \/ UNCHANGED <<port, leaked>> /\ (port[at[u]] \/ "stropen" \in Faults)
       \/ ~port[at[u]] /\ Stropen(at[u], TRUE)
    /\ lock' = NoOne
    /\ GotoAt(u, "idle", 0)
    /\ UNCHANGED <<state, thread, heap, tpc, tat>>

CloseStr(u) ==
    /\ pc[u] = "closestr" /\ lock = u
    /\ Strclose(at[u])
    /\ lock' = NoOne
    /\ GotoAt(u, "idle", 0)
    /\ UNCHANGED <<state, thread, leaked, heap, tpc, tat>>

Stat(u) ==
    /\ pc[u] = "stat" /\ lock = u
    /\ lock' = NoOne
    /\ Goto(u, "idle")
    /\ UNCHANGED <<state, thread, port, leaked, heap, at, tpc, tat>>

\* rtksvrmark writes to the solution streams and calls saveoutbuf inside its
\* own critical section; what follows that second lock cannot be reached
Mark(u) ==
    /\ pc[u] = "mark" /\ lock = u
    /\ Goto(u, "markout")
    /\ UNCHANGED <<svrVars, at, tpc, tat>>

-----------------------------------------------------------------------------
(* rtksvrthread                                                            *)

\* the thread itself sets svr->state
ThreadRun(t) ==
    /\ tpc[t] = "spawned"
    /\ state' = 1
    /\ TGoto(t, "top")
    /\ UNCHANGED <<thread, lock, port, leaked, heap, pc, at, tat>>

\* its own malloc fails: it returns and leaves the streams open
ThreadNoMem(t) ==
    /\ tpc[t] = "spawned" /\ "threadmalloc" \in Faults
    /\ TGoto(t, "done")
    /\ UNCHANGED <<svrVars, pc, at, tat>>

\* the loop condition
ThreadTop(t) ==
    /\ tpc[t] = "top"
    /\ TGotoAt(t, IF state = 1 THEN "read" ELSE "close", 0)
    /\ UNCHANGED <<svrVars, pc, at>>

\* strread of input tat[t]: bytes for the peek buffer, or none
ThreadRead(t) ==
    /\ tpc[t] = "read"
    /\ \/ tat[t] < NIn /\ port[tat[t]] /\ TGoto(t, "peek") /\ UNCHANGED tat
       \/ tat[t] < NIn /\ TGotoAt(t, "read", tat[t] + 1)
       \/ tat[t] = NIn /\ TGotoAt(t, "decode", 0)
    /\ UNCHANGED <<svrVars, pc, at>>

\* rtksvrlock by the server thread
ThreadLock(t) ==
    /\ tpc[t] \in TSections
    /\ lock = NoOne
    /\ lock' = t
    /\ UNCHANGED <<state, thread, port, leaked, heap, pc, at, tpc, tat>>

ThreadUnlock(t, l, i) ==
    /\ lock = t
    /\ lock' = NoOne
    /\ TGotoAt(t, l, i)
    /\ UNCHANGED <<state, thread, port, leaked, heap, pc, at>>

ThreadPeek(t)    == tpc[t] = "peek" /\ ThreadUnlock(t, "read", tat[t] + 1)

\* decoderaw or decodefile of input tat[t]
ThreadDecode(t) ==
    /\ tpc[t] = "decode"
    /\ IF tat[t] + 1 < NIn
       THEN ThreadUnlock(t, "decode", tat[t] + 1)
       ELSE ThreadUnlock(t, "next", 0)

\* another rover epoch to process, a null solution to write, or the sleep
ThreadNext(t) ==
    /\ tpc[t] = "next"
    /\ \E l \in {"rtkpos", "saveout", "top"} : TGoto(t, l)
    /\ UNCHANGED <<svrVars, pc, at, tat>>

ThreadRtkpos(t) ==
    /\ tpc[t] = "rtkpos"
    /\ \E l \in {"saveout", "next"} : ThreadUnlock(t, l, 0)

\* writesol: one saveoutbuf per solution stream
ThreadSaveout(t) ==
    /\ tpc[t] = "saveout"
    /\ IF tat[t] + 1 < NSol
       THEN ThreadUnlock(t, "saveout", tat[t] + 1)
       ELSE ThreadUnlock(t, "next", 0)

\* mutants: the exit code takes svr->lock; i < MAXSTRRTK-1
ThreadClose_Locked(t) ==
    /\ tpc[t] = "close" /\ tat[t] < NStr /\ lock = NoOne
    /\ Strclose(tat[t])
    /\ TGotoAt(t, "close", tat[t] + 1)
    /\ UNCHANGED <<state, thread, lock, leaked, heap, pc, at>>
ThreadFree_Early(t) ==
    /\ tpc[t] = "close" /\ tat[t] >= NStr - 1
    /\ heap' = FALSE
    /\ TGotoAt(t, "done", 0)
    /\ UNCHANGED <<state, thread, lock, port, leaked, pc, at>>

\* after the loop: all streams, without svr->lock
ThreadClose(t) ==
    /\ tpc[t] = "close" /\ tat[t] < NStr
    /\ Strclose(tat[t])
    /\ TGotoAt(t, "close", tat[t] + 1)
    /\ UNCHANGED <<state, thread, lock, leaked, heap, pc, at>>

ThreadFree(t) ==
    /\ tpc[t] = "close" /\ tat[t] = NStr
    /\ heap' = FALSE
    /\ TGotoAt(t, "done", 0)
    /\ UNCHANGED <<state, thread, lock, port, leaked, pc, at>>

-----------------------------------------------------------------------------
StartStep(u) ==
    \/ CallStart(u)     \/ StartAlloc(u)    \/ StartAllocFails(u)
    \/ StartOpen(u)     \/ StartOpenFails(u) \/ StartUndo(u)
    \/ StartCreate(u)   \/ StartCreateFails(u)
StopStep(u) ==
    CallStop(u) \/ StopCmds(u) \/ StopClear(u) \/ StopJoin(u)
SectionStep(u) ==
    \/ CallStr(u, "openstr") \/ CallStr(u, "closestr")
    \/ CallStat(u) \/ CallMark(u) \/ UserLock(u)
    \/ OpenStr(u)  \/ CloseStr(u) \/ Stat(u) \/ Mark(u)
UserStep(u) == StartStep(u) \/ StopStep(u) \/ SectionStep(u)

ThreadStep(t) ==
    \/ ThreadRun(t)    \/ ThreadNoMem(t) \/ ThreadTop(t)  \/ ThreadRead(t)
    \/ ThreadLock(t)   \/ ThreadPeek(t)  \/ ThreadDecode(t)
    \/ ThreadNext(t)   \/ ThreadRtkpos(t) \/ ThreadSaveout(t)
    \/ ThreadClose(t)  \/ ThreadFree(t)

Next == (\E u \in Users : UserStep(u)) \/ (\E t \in Threads : ThreadStep(t))

Spec == Init /\ [][Next]_vars

(* The operating system schedules a runnable server thread; its loop sleeps  *)
(* at least a millisecond per cycle with the lock free, so a waiting user    *)
(* gets the lock sooner or later.  A user continues a call it has begun,     *)
(* nobody is obliged to begin one.  Streams deliver nothing sooner or later. *)
InCall(u) == StartStep(u) \/ StopStep(u) \/ OpenStr(u) \/ CloseStr(u) \/ Stat(u) \/ Mark(u)
Fairness ==
    /\ \A t \in Threads :
         /\ WF_vars(ThreadStep(t))
         /\ SF_vars(ThreadLock(t))
         /\ SF_vars(tpc[t] = "next" /\ ThreadNext(t) /\ tpc'[t] = "top")
    /\ \A u \in Users :
         /\ WF_vars(pc[u] # "idle" /\ InCall(u))
         /\ SF_vars(UserLock(u))
FairSpec == Spec /\ Fairness
-----------------------------------------------------------------------------
(* Properties                                                              *)

\* At most one server thread exists at any time: a second rtksvrstart never
\* gets past its test of svr->state while the thread of the first is alive.
OneThread == \A s, t \in Threads : Live(s) /\ Live(t) => s = t

\* The thread dereferences buff[], pbuf[] and sbuf[] only while they are
\* allocated: no exit code or failed start frees or nulls them under it.
BuffersLive == \A t \in Threads : tpc[t] \in BufferPcs => heap

\* No open port is forgotten: stropen is never called on an open stream.
NoPortLeaked == leaked = {}

\* When no thread lives and no call is under way, every stream is closed: a
\* stop, or a start that failed, leaves no file or socket open behind it.
Quiet == /\ \A u \in Users : pc[u] \notin Lifecycle
         /\ \A t \in Threads : ~Live(t)
DownIsClosed == Quiet => /\ state = 0
                         /\ \A i \in Streams : ~port[i]

\* The four together: with callers that serialise start and stop the server has
\* one thread, its buffers and its streams, or none of them.
LifeInv == OneThread /\ BuffersLive /\ NoPortLeaked /\ DownIsClosed

\* A caller in pthread_join waits for a thread nobody has joined before it.
JoinedOnce == \A u \in Users : pc[u] = "join" => tpc[thread] # "joined"

\* While the server runs, a stream is opened or closed only by the holder of
\* svr->lock: not by a start, nor by the exit code of a thread.
PortsUnderLock ==
    [][\A i \in Streams : port'[i] # port[i] /\ state = 1 => lock \in Users]_vars

\* Every call returns: start and stop are not blocked for ever by the lock or
\* by the join.  (With "mark" in Ops it is false: rtksvrmark asks for the lock
\* it holds.)
CallsReturn == \A u \in Users : pc[u] # "idle" ~> pc[u] = "idle"

\* What makes the properties above inductive under Serial callers: who can be
\* where at the same time, and which streams are closed at each point.
Looping(t) == tpc[t] \in {"top"} \cup BufferPcs
OneCall    == \A u, v \in Users : pc[u] \in Lifecycle /\ pc[v] \in Lifecycle => u = v
ThreadKnown == \A t \in Threads : Live(t) => thread = t
StartAlone == \A u \in Users : pc[u] \in StartPcs =>
                 state = 0 /\ \A t \in Threads : ~Live(t)
SpawnAlone == \A t \in Threads : tpc[t] = "spawned" =>
                 state = 0 /\ \A u \in Users : pc[u] \notin Lifecycle
Running    == state = 1 => thread \in Threads /\ Looping(thread)
Called     == \A u \in Users :
                 pc[u] \in {"stopcmds", "clear", "openstr", "closestr"} => state = 1
Joining    == \A u \in Users : pc[u] = "join" =>
                 /\ state = 0 /\ thread \in Threads
                 /\ Looping(thread) \/ tpc[thread] \in {"close", "done"}
Leaving    == \A t \in Threads : (Looping(t) \/ tpc[t] = "close") /\ state = 0 =>
                 \E u \in Users : pc[u] = "join"
HeapThere  == /\ \A t \in Threads : Looping(t) \/ tpc[t] = "spawned" => heap
              /\ \A u \in Users : pc[u] \in {"open", "create"} => heap
Closed     == /\ (/\ \A u \in Users : pc[u] \notin {"open", "undo", "create"}
                  /\ \A t \in Threads : ~Live(t)) => \A i \in Streams : ~port[i]
              /\ \A u \in Users : pc[u] \in {"open", "undo"} =>
                     \A i \in Streams : i >= at[u] => ~port[i]
              /\ \A t \in Threads : tpc[t] = "close" =>
                     \A i \in Streams : i < tat[t] => ~port[i]
Indices    == \A t \in Threads :
                 /\ tpc[t] = "read" => tat[t] <= NIn
                 /\ tpc[t] \in {"peek", "decode"} => tat[t] < NIn
                 /\ tpc[t] \in {"next", "rtkpos"} => tat[t] = 0
                 /\ tpc[t] = "saveout" => tat[t] < NSol
Placed     == \A u \in Users : pc[u] \in {"openstr", "closestr"} => at[u] \in Openable
SerialInv  ==
    /\ TypeOK  /\ Indices /\ OneCall /\ ThreadKnown /\ StartAlone /\ SpawnAlone
    /\ Running /\ Called  /\ Joining /\ Leaving     /\ HeapThere  /\ Closed
    /\ NoPortLeaked /\ Placed

\* No path leaves svr->lock held behind it: its holder is inside one of its
\* critical sections, whatever the callers do and whichever failure happens.
NoLockLeftHeld ==
    /\ \A u \in Users : lock = u => pc[u] \in USections
    /\ \A t \in Threads : lock = t => tpc[t] \in TSections

\* The exit code of a server thread needs no lock, so a thread that has seen
\* svr->state cleared ends even while a user is stuck holding svr->lock.
ExitCompletes == \A t \in Threads : tpc[t] = "close" ~> tpc[t] = "done"

\* The life cycle implements SvrLife.
phase ==
    CASE \E u \in Users : pc[u] \in {"alloc", "open", "create"} -> "opening"
      [] \/ \E u \in Users : pc[u] = "undo"
         \/ state = 0 /\ \E t \in Threads : Live(t) /\ tpc[t] # "spawned" -> "closing"
      [] \E t \in Threads : Live(t) /\ (state = 1 \/ tpc[t] = "spawned") -> "up"
      [] OTHER -> "down"
Life == INSTANCE SvrLife WITH open <- {i \in Streams : port[i]}
ImplementsLife == Life!LifeSpec
\* its safety part
StepsAsLife == Life!LifeInit /\ [][Life!LifeNext]_<<phase, {i \in Streams : port[i]}>>
=============================================================================
