-------------------------------- MODULE StrSvr --------------------------------
(***************************************************************************)
(* The stream server (src/src/stream/mrtk_streamsvr.c): strsvrthread copies *)
(* what stream 0 delivers to the output streams, their log and the peek     *)
(* buffer, and relays what one output returns.  One controller starts and   *)
(* stops; the thread and a console that peeks run beside it.                *)
(*                                                                         *)
(* The input is the sequence 1, 2, 3, ... of blocks, the return of output i *)
(* a sequence of blocks without end; a block is what one strread returns.   *)
(* svr->lock protects pbuf and npb, but not where the thread leaves.        *)
(***************************************************************************)
EXTENDS Integers, Sequences, SequencesExt

CONSTANTS
    NOut,       \* output streams (svr->nstr - 1)
    Relay,      \* svr->relayback, 0: none
    MaxBlock,   \* blocks the input delivers (bound)
    NBack,      \* the blocks an output returns are numbered modulo NBack
    Size,       \* svr->buffsize, in blocks
    MaxStart,   \* calls of strsvrstart (bound)
    Faults      \* what may fail in strsvrstart: "malloc", "stropen", "create"

ASSUME StrSvrAssumption ==
    /\ NOut \in Nat /\ Relay \in 0 .. NOut
    /\ MaxBlock \in Nat /\ NBack \in Nat \ {0} /\ MaxStart \in Nat
    /\ Size \in Nat \ {0}
    /\ Faults \subseteq {"malloc", "stropen", "create"}

Outs == 1 .. NOut
Strs == 0 .. NOut

VARIABLES
    svrState, \* svr->state
    call,     \* what the controller is doing
    atCall,   \* the stream it is at
    thr,      \* what the thread is doing, "none" and "ended" when it is not
    at,       \* the stream the thread is at
    open,     \* the open streams
    logs,     \* the open log streams
    mem,      \* svr->buff and svr->pbuf: "null", "live", "freed"
    svrLock,  \* holder of svr->lock: "free", "peek", "thr"
    buff,     \* block in svr->buff, 0: none
    pbuf,     \* svr->pbuf up to svr->npb
    input,    \* blocks the input has delivered
    back,     \* back[i]: number of the last block output i has returned
    outs,     \* outs[i]: blocks written to output i; outs[0]: to the log
    relayed,  \* number of the last block written to the input
    peeked,   \* blocks strsvrpeek has returned
    starts,   \* calls of strsvrstart
    peek,     \* where strsvrpeek is: "none", "asked", "count", "copy"
    npeek,    \* the blocks it copies (n)
    torn      \* the thread has left while strsvrpeek copied: what follows is undefined

ctl  == <<svrState, call, atCall, open, logs, mem, starts>>
data == <<buff, pbuf, input, back, outs, relayed, peeked>>
peekVars == <<peek, npeek, torn>>
copyVars == <<ctl, thr, at, svrLock, data, peekVars>>

Calls == {"idle", "open", "logs", "undo", "create", "thread", "join"}
Stages == {"none", "top", "read", "write", "peekbuf", "append", "return", "close",
           "closelogs", "empty", "free", "ended"}

CopyTypeOK ==
    /\ svrState \in {0, 1} /\ call \in Calls /\ atCall \in -1 .. NOut + 1
    /\ thr \in Stages /\ at \in 0 .. NOut + 1
    /\ open \subseteq Strs /\ logs \subseteq Strs
    /\ mem \in {"null", "live", "freed"} /\ svrLock \in {"free", "peek", "thr"}
    /\ buff \in 0 .. MaxBlock /\ pbuf \in Seq(1 .. MaxBlock) /\ Len(pbuf) <= Size
    /\ input \in 0 .. MaxBlock /\ back \in [Outs -> 0 .. NBack - 1]
    /\ outs \in [Strs -> Seq(1 .. MaxBlock)]
    /\ relayed \in 0 .. NBack - 1 /\ peeked \in Seq(1 .. MaxBlock)
    /\ starts \in 0 .. MaxStart
    /\ peek \in {"none", "asked", "count", "copy"} /\ npeek \in 0 .. Size /\ torn \in BOOLEAN

CopyInit ==
    /\ svrState = 0 /\ call = "idle" /\ atCall = 0
    /\ thr = "none" /\ at = 0
    /\ open = {} /\ logs = {} /\ mem = "null" /\ svrLock = "free"
    /\ buff = 0 /\ pbuf = <<>> /\ input = 0
    /\ back = [o \in Outs |-> 0] /\ outs = [s \in Strs |-> <<>>]
    /\ relayed = 0 /\ peeked = <<>> /\ starts = 0
    /\ peek = "none" /\ npeek = 0 /\ torn = FALSE

-----------------------------------------------------------------------------
(* The controller.                                                         *)

\* strsvrstart up to the buffers; a running server refuses
CallStart ==
    /\ call = "idle" /\ starts < MaxStart /\ starts' = starts + 1
    /\ \/ /\ svrState = 1
          /\ UNCHANGED <<call, atCall, mem>>
       \/ /\ svrState = 0 /\ mem' = "live" /\ call' = "open" /\ atCall' = 0
       \/ /\ svrState = 0 /\ "malloc" \in Faults /\ mem' = "freed"
          /\ UNCHANGED <<call, atCall>>
    /\ UNCHANGED <<svrState, open, logs, thr, at, svrLock, data, peekVars>>

StartOpen ==
    /\ call = "open"
    /\ IF atCall > NOut
       THEN call' = "logs" /\ atCall' = 0 /\ UNCHANGED open
       ELSE \/ /\ open' = open \cup {atCall} /\ atCall' = atCall + 1 /\ UNCHANGED call
            \/ /\ "stropen" \in Faults /\ call' = "undo" /\ atCall' = atCall - 1 /\ UNCHANGED open
    /\ UNCHANGED <<svrState, logs, mem, starts, thr, at, svrLock, data, peekVars>>

\* a stream that does not open: the ones before it are closed, the buffers
\* stay allocated
StartUndo ==
    /\ call = "undo"
    /\ IF atCall >= 0 THEN open' = open \ {atCall} /\ atCall' = atCall - 1 /\ UNCHANGED call
                 ELSE call' = "idle" /\ atCall' = 0 /\ UNCHANGED open
    /\ UNCHANGED <<svrState, logs, mem, starts, thr, at, svrLock, data, peekVars>>

\* a log stream may fail to open; the server runs without it
StartLogs ==
    /\ call = "logs"
    /\ IF atCall > NOut
       THEN call' = "create" /\ UNCHANGED <<atCall, logs>>
       ELSE atCall' = atCall + 1 /\ logs' \in {logs, logs \cup {atCall}} /\ UNCHANGED call
    /\ UNCHANGED <<svrState, open, mem, starts, thr, at, svrLock, data, peekVars>>

\* svr->state is set before the thread is created, ...
StartState ==
    /\ call = "create" /\ call' = "thread" /\ svrState' = 1
    /\ UNCHANGED <<atCall, open, logs, mem, starts, thr, at, svrLock, data, peekVars>>

\* ... and cleared if it is not
StartCreate ==
    /\ call = "thread" /\ call' = "idle" /\ atCall' = 0
    /\ \/ thr' = "top" /\ UNCHANGED <<svrState, open>>
       \/ "create" \in Faults /\ svrState' = 0 /\ open' = {} /\ UNCHANGED thr
    /\ UNCHANGED <<logs, mem, starts, at, svrLock, data, peekVars>>

\* mutant: svr->state is left set
CallStop_Keeps ==
    /\ call = "idle" /\ svrState = 1
    /\ call' = "join"
    /\ UNCHANGED <<svrState, atCall, open, logs, mem, starts, thr, at, svrLock, data, peekVars>>

CallStop ==
    /\ call = "idle" /\ svrState = 1
    /\ svrState' = 0 /\ call' = "join"
    /\ UNCHANGED <<atCall, open, logs, mem, starts, thr, at, svrLock, data, peekVars>>

\* mutant: pthread_join left out
StopJoin_NoWait ==
    /\ call = "join"
    /\ call' = "idle"
    /\ UNCHANGED <<svrState, atCall, open, logs, mem, starts, thr, at, svrLock, data, peekVars>>

StopJoin ==
    /\ call = "join" /\ thr = "ended"
    /\ call' = "idle" /\ thr' = "none"
    /\ UNCHANGED <<svrState, atCall, open, logs, mem, starts, at, svrLock, data, peekVars>>

-----------------------------------------------------------------------------
(* strsvrpeek, called by a console.                                        *)

\* svr->state is tested before the lock is taken
PeekAsk ==
    /\ peek = "none" /\ svrState = 1 /\ peek' = "asked"
    /\ UNCHANGED <<ctl, thr, at, svrLock, data, npeek, torn>>

PeekLock ==
    /\ peek = "asked" /\ svrLock = "free"
    /\ svrLock' = "peek" /\ peek' = "count"
    /\ UNCHANGED <<ctl, thr, at, data, npeek, torn>>

\* n: as much as there is and the caller has room for
PeekCount ==
    /\ peek = "count" /\ peek' = "copy"
    /\ npeek' \in 0 .. Len(pbuf)
    /\ UNCHANGED <<ctl, thr, at, svrLock, data, torn>>

\* n blocks are copied, the rest is moved down
PeekCopy ==
    /\ peek = "copy"
    /\ peeked' = peeked \o SubSeq(pbuf, 1, npeek)
    /\ pbuf' = SubSeq(pbuf, npeek + 1, Len(pbuf))
    /\ svrLock' = "free" /\ peek' = "none" /\ npeek' = 0
    /\ UNCHANGED <<ctl, thr, at, buff, input, back, outs, relayed, torn>>

-----------------------------------------------------------------------------
(* strsvrthread.                                                           *)

\* for (...; svr->state; ...)
ThreadTop ==
    /\ thr = "top" /\ thr' = IF svrState = 1 THEN "read" ELSE "close"
    /\ UNCHANGED <<ctl, at, svrLock, data, peekVars>>

\* strread of the input: a block, or nothing
ThreadRead ==
    /\ thr = "read" /\ at' = 1
    /\ \/ /\ input < MaxBlock /\ input' = input + 1 /\ buff' = input + 1
          /\ thr' = "write"
       \/ thr' = "return" /\ UNCHANGED <<buff, input>>
    /\ UNCHANGED <<ctl, svrLock, pbuf, back, outs, relayed, peeked, peekVars>>

\* a block read while the server was being stopped goes nowhere; else the
\* outputs in turn, then the log (0)
ThreadWrite ==
    /\ thr = "write"
    /\ IF at = 1 /\ svrState = 0      \* ... && svr->state of the while
       THEN thr' = "return" /\ UNCHANGED <<at, outs>>
       ELSE LET o == IF at > NOut THEN 0 ELSE at
            IN  /\ outs' = [outs EXCEPT ![o] = Append(@, buff)]
                /\ at' = IF o = 0 THEN at ELSE at + 1
                /\ thr' = IF o = 0 THEN "peekbuf" ELSE "write"
    /\ UNCHANGED <<ctl, svrLock, buff, pbuf, input, back, relayed, peeked, peekVars>>

ThreadLock ==
    /\ thr = "peekbuf" /\ svrLock = "free"
    /\ svrLock' = "thr" /\ thr' = "append"
    /\ UNCHANGED <<ctl, at, data, peekVars>>

\* what does not fit into pbuf is dropped; the while loop reads on
ThreadAppend ==
    /\ thr = "append"
    /\ pbuf' = IF Len(pbuf) < Size THEN Append(pbuf, buff) ELSE pbuf
    /\ svrLock' = "free" /\ thr' = "read"
    /\ UNCHANGED <<ctl, at, buff, input, back, outs, relayed, peeked, peekVars>>

\* What an output returns, while it returns any; that of svr->relayback is written
\* to the input.  The loop does not look at svr->state.
ReturnBlock ==
    /\ thr = "return" /\ at <= NOut
    /\ back' = [back EXCEPT ![at] = (@ + 1) % NBack]
    /\ relayed' = IF at = Relay THEN back'[at] ELSE relayed
    /\ UNCHANGED <<ctl, thr, at, svrLock, buff, pbuf, input, outs, peeked, peekVars>>

ReturnNone ==
    /\ thr = "return" /\ at <= NOut /\ at' = at + 1
    /\ UNCHANGED <<ctl, thr, svrLock, data, peekVars>>

ReturnEnd ==
    /\ thr = "return" /\ at > NOut /\ thr' = "top"
    /\ UNCHANGED <<ctl, at, svrLock, data, peekVars>>

\* mutant: only the streams are closed
ThreadClose_NoLogs ==
    /\ thr = "close" /\ open' = {} /\ thr' = "empty"
    /\ UNCHANGED <<svrState, call, atCall, logs, mem, starts, at, svrLock, data, peekVars>>

ThreadClose ==
    /\ \/ thr = "close" /\ open' = {} /\ thr' = "closelogs" /\ UNCHANGED logs
       \/ thr = "closelogs" /\ logs' = {} /\ thr' = "empty" /\ UNCHANGED open
    /\ UNCHANGED <<svrState, call, atCall, mem, starts, at, svrLock, data, peekVars>>

\* mutant: svr->npb is left as it is
ThreadEmpty_Keeps ==
    /\ thr = "empty" /\ thr' = "free"
    /\ UNCHANGED <<ctl, at, svrLock, data, peekVars>>

\* svr->npb = 0, without svr->lock: a copy under way loses its blocks and may leave
\* npb below 0
ThreadEmpty ==
    /\ thr = "empty" /\ thr' = "free"
    /\ pbuf' = <<>>
    /\ torn' = (peek = "copy" /\ pbuf # <<>>)
    /\ UNCHANGED <<ctl, at, svrLock, buff, input, back, outs, relayed, peeked, peek, npeek>>

\* without svr->lock, too
ThreadFree ==
    /\ thr = "free" /\ thr' = "ended"
    /\ mem' = "null"
    /\ UNCHANGED <<svrState, call, atCall, open, logs, starts, at, svrLock, data, peekVars>>

CallUnderWay ==
    ~torn /\ (StartOpen \/ StartUndo \/ StartLogs \/ StartState \/ StartCreate \/ StopJoin)
Controller == CallUnderWay \/ (~torn /\ (CallStart \/ CallStop))
PeekUnderWay == ~torn /\ (PeekCount \/ PeekCopy)
PeekLocked == ~torn /\ PeekLock
Peeker == PeekUnderWay \/ PeekLocked \/ (~torn /\ PeekAsk)
CopyThread ==
    /\ ~torn
    /\ \/ ThreadTop \/ ThreadRead \/ ThreadWrite \/ ThreadLock \/ ThreadAppend
       \/ ReturnBlock \/ ReturnNone \/ ReturnEnd
       \/ ThreadClose \/ ThreadEmpty \/ ThreadFree

CopyNext == Controller \/ Peeker \/ CopyThread

-----------------------------------------------------------------------------
(* Properties.                                                             *)

\* Between two blocks every output and the log have been given the same
\* blocks; in the middle of one they differ by that block alone.
OutputsAgree ==
    /\ thr # "write" => \A o \in Outs : outs[o] = outs[0]
    /\ \A o \in Outs : IsPrefix(outs[0], outs[o]) /\ Len(outs[o]) <= Len(outs[0]) + 1

Increasing(s) == \A a, b \in DOMAIN s : a < b => s[a] < s[b]
\* The outputs get the blocks of the input in order and none twice, and the
\* only ones they miss are those read just as the server was stopped: one for
\* each start at most.
OutputsInOrder ==
    /\ Increasing(outs[0])
    /\ thr \in {"none", "ended"} => input - Len(outs[0]) <= starts

\* What strsvrpeek returns and what it has still to return are blocks of the
\* input in order, none twice, whatever was dropped for want of room.
PeekInOrder == Increasing(peeked \o pbuf)

\* Only what the output svr->relayback returned goes back to the input, up to the
\* last block of it.
RelayIsExact == relayed = IF Relay = 0 THEN 0 ELSE back[Relay]

\* Nobody touches the buffers unless they are allocated: a console that asked before
\* the server was stopped and gets the lock after the thread has left finds svr->npb
\* 0.  Only when the thread leaves in the middle of its copy (torn) it does not.
BuffersLive ==
    /\ thr \in {"top", "read", "write", "peekbuf", "append"} => mem = "live"
    /\ peek = "copy" /\ npeek > 0 => mem = "live" \/ torn

\* Every stream written to, and the console, gets what it should, in order and
\* once, across stops and starts, out of buffers that are there.
CopiesRight ==
    CopyTypeOK /\ OutputsAgree /\ OutputsInOrder /\ RelayIsExact /\ PeekInOrder /\ BuffersLive

\* A call that leaves the server down leaves no stream open, and strsvrstop no
\* log either (a failing pthread_create does leave the logs: see README).
DownIsClosed ==
    [][call # "idle" /\ call' = "idle" /\ svrState' = 0
       => open' = {} /\ (call = "join" => logs' = {})]_copyVars

\* strsvrstop returns, and so does every other call, whatever a console peeks, unless
\* its copy was torn.
CallsReturn == (call # "idle") ~> (call = "idle" \/ torn)
=============================================================================
