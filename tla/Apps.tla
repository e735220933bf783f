-------------------------------- MODULE Apps --------------------------------
(***************************************************************************)
(* The two applications that run servers: rtkrcv with its consoles          *)
(* (src/apps/rtkrcv/rtkrcv.c) and str2str with its stream server            *)
(* (src/apps/str2str/str2str.c).                                            *)
(***************************************************************************)
EXTENDS Console, StrSvr

VARIABLE of  \* the application this behaviour is about

appVars == <<vars, copyVars, of>>

AppsInit ==
    /\ of \in {"rtkrcv", "str2str"}
    /\ Init /\ CopyInit
    /\ of = "str2str" => ~port /\ svr = "down"

AppsNext ==
    /\ \/ of = "rtkrcv" /\ Next /\ UNCHANGED copyVars
       \/ of = "str2str" /\ CopyNext /\ UNCHANGED vars
    /\ UNCHANGED of

\* The threads are scheduled fairly, and a call that was made runs; strread and
\* strwrite do not block, and no output returns data without end (the loop that reads
\* it does not look at svr->state).  Nobody has to type or to hang up, to start, to
\* stop or to peek.
AppsSpec ==
    /\ AppsInit /\ [][AppsNext]_appVars
    /\ WF_appVars(of = "rtkrcv" /\ MainStep /\ UNCHANGED <<port, copyVars, of>>)
    /\ \A i \in Slots :
          WF_appVars(of = "rtkrcv" /\ main # "done" /\ Thread(i) /\ UNCHANGED <<port, copyVars, of>>)
    /\ WF_appVars(of = "str2str" /\ CopyThread /\ UNCHANGED <<vars, of>>)
    /\ WF_appVars(of = "str2str" /\ CallUnderWay /\ UNCHANGED <<vars, of>>)
    /\ WF_appVars(of = "str2str" /\ ~torn /\ ReturnNone /\ UNCHANGED <<vars, of>>)
    /\ WF_appVars(of = "str2str" /\ PeekUnderWay /\ UNCHANGED <<vars, of>>)
    /\ SF_appVars(of = "str2str" /\ PeekLocked /\ UNCHANGED <<vars, of>>)
    /\ SF_appVars(of = "str2str" /\ ~torn /\ ThreadLock /\ UNCHANGED <<vars, of>>)
=============================================================================
