------------------------------- MODULE Console --------------------------------
(***************************************************************************)
(* The consoles of rtkrcv (src/apps/rtkrcv/rtkrcv.c): the main thread that  *)
(* accepts and reaps them and ends the program, and a thread per console    *)
(* that runs the user's commands on one RTK server (module RtkSvr; here it  *)
(* is up or down).                                                          *)
(***************************************************************************)
EXTENDS Integers, FiniteSets, FiniteSetsExt

CONSTANTS
    MaxCon,    \* MAXCON: slots 0 .. MaxCon - 1, slot 0 is the local console
    NPend,     \* users that wait for a connection (bound)
    Ports,     \* with -p (TRUE): the consoles are remote; without: one local console
    Commands   \* what they type

ASSUME ConsoleAssumption ==
    /\ MaxCon \in Nat \ {0, 1} /\ NPend \in Nat /\ Ports \subseteq BOOLEAN
    /\ Commands \subseteq {"start", "stop", "restart", "show", "exit", "shutdown"}

Slots  == 0 .. MaxCon - 1
Remote == Slots \ {0}

VARIABLES
    port,    \* -p was given
    main,    \* "loop", "reap", "accept", "stop", "close", "join", "free", "done"
    k,       \* the slot the main thread is at
    th,      \* con[i]: "none", or where its thread is: "login", "loop", "wait",
             \* a command, "watch" (a display that repeats), "bye" (the login
             \* failed), "ended"
    run,     \* con[i]->state
    user,    \* the user is still there
    intflg,
    svr,     \* "down", "up", "freed"
    pending  \* users not yet accepted

vars == <<port, main, k, th, run, user, intflg, svr, pending>>

TypeOK ==
    /\ port \in BOOLEAN
    /\ main \in {"loop", "reap", "accept", "stop", "close", "join", "free", "done"}
    /\ k \in 0 .. MaxCon
    /\ th \in [Slots -> Commands \cup {"none", "start", "login", "loop", "wait", "watch", "bye", "ended"}]
    /\ run \in [Slots -> BOOLEAN] /\ user \in [Slots -> BOOLEAN] /\ intflg \in BOOLEAN
    /\ svr \in {"down", "up", "freed"} /\ pending \in 0 .. NPend

Init ==
    /\ port \in Ports
    /\ main = "loop" /\ k = 0 /\ intflg = FALSE /\ pending = 0
    /\ th = [i \in Slots |-> IF i = 0 /\ ~port THEN "login" ELSE "none"]
    /\ run = [i \in Slots |-> i = 0 /\ ~port] /\ user = [i \in Slots |-> i = 0 /\ ~port]
    /\ svr \in {"down", "up"}

To(i, where) == th' = [th EXCEPT ![i] = where]

-----------------------------------------------------------------------------
(* The main thread.                                                        *)

\* mutant: bit 1 of intflg is tested, as login does; it is never set
Loop_BitOne ==
    /\ main = "loop"
    /\ main' = IF port THEN "reap" ELSE "loop"
    /\ k' = 1 /\ UNCHANGED <<th, run, user, intflg, svr, pending>>

Loop ==
    /\ main = "loop"
    /\ main' = IF intflg THEN "stop" ELSE IF port THEN "reap" ELSE "loop"
    /\ k' = 1 /\ UNCHANGED <<th, run, user, intflg, svr, pending>>

\* mutant: the console is freed while its thread still runs
Reap_NoJoin ==
    /\ main = "reap" /\ k < MaxCon
    /\ IF th[k] # "none" /\ ~run[k] THEN To(k, "none") ELSE UNCHANGED th
    /\ k' = k + 1 /\ UNCHANGED <<main, run, user, intflg, svr, pending>>

\* accept_sock: con_close of the consoles whose state is 0, with a join
Reap ==
    /\ main = "reap" /\ k < MaxCon
    /\ IF th[k] # "none" /\ ~run[k] THEN th[k] = "ended" /\ To(k, "none") ELSE UNCHANGED th
    /\ k' = k + 1 /\ UNCHANGED <<main, run, user, intflg, svr, pending>>

Reaped ==
    /\ main = "reap" /\ k = MaxCon /\ main' = "accept"
    /\ UNCHANGED <<k, th, run, user, intflg, svr, pending>>

\* a user gets the first free slot, or is refused; con_open may fail, too
Accept ==
    /\ main = "accept" /\ main' = "loop"
    /\ \/ /\ pending > 0 /\ pending' = pending - 1
          /\ LET free == {i \in Remote : th[i] = "none"} IN
             \/ free # {} /\ To(Min(free), "login")
                /\ run' = [run EXCEPT ![Min(free)] = TRUE]
                /\ user' = [user EXCEPT ![Min(free)] = TRUE]
             \/ UNCHANGED <<th, run, user>>
       \/ pending = 0 /\ UNCHANGED <<th, run, user, pending>>
    /\ UNCHANGED <<k, intflg, svr>>

\* stopsvr(NULL)
Stop ==
    /\ main = "stop" /\ svr' = "down"
    /\ main' = (IF port THEN "free" ELSE "close") /\ k' = 0
    /\ UNCHANGED <<th, run, user, intflg, pending>>

\* con_close of every console
Close ==
    /\ main = "close"
    /\ IF k = MaxCon THEN main' = "free" /\ UNCHANGED <<k, run>>
       ELSE IF th[k] = "none" THEN k' = k + 1 /\ UNCHANGED <<main, run>>
       ELSE run' = [run EXCEPT ![k] = FALSE] /\ main' = "join" /\ UNCHANGED k
    /\ UNCHANGED <<th, user, intflg, svr, pending>>
Join ==
    /\ main = "join" /\ th[k] = "ended"
    /\ To(k, "none") /\ k' = k + 1 /\ main' = "close"
    /\ UNCHANGED <<run, user, intflg, svr, pending>>

\* free(svr); the program ends when mrtk_run returns
Free ==
    /\ main = "free" /\ svr # "freed" /\ svr' = "freed"
    /\ UNCHANGED <<main, k, th, run, user, intflg, pending>>
Done ==
    /\ main = "free" /\ svr = "freed" /\ main' = "done"
    /\ UNCHANGED <<k, th, run, user, intflg, svr, pending>>

-----------------------------------------------------------------------------
(* The thread of console i.                                                *)

\* a local console, or none at the other end: with a password vt_gets fails, without
\* one there is nothing to wait for
Login(i) ==
    /\ th[i] = "login"
    /\ \/ To(i, "loop") /\ (~port \/ ~user[i])
       \/ To(i, "bye")  /\ port /\ ~user[i]
    /\ UNCHANGED <<main, k, run, user, intflg, svr, pending>>

\* the user types the password, or leaves with ctrl-C or ctrl-D
Password(i) ==
    /\ th[i] = "login" /\ port /\ user[i] /\ (To(i, "loop") \/ To(i, "bye"))
    /\ UNCHANGED <<main, k, run, user, intflg, svr, pending>>

\* mutant: the console of a failed login is not given back
Bye_Keeps(i) ==
    /\ th[i] = "bye" /\ To(i, "ended")
    /\ UNCHANGED <<main, k, run, user, intflg, svr, pending>>

Bye(i) ==
    /\ th[i] = "bye" /\ To(i, "ended") /\ run' = [run EXCEPT ![i] = FALSE]
    /\ UNCHANGED <<main, k, user, intflg, svr, pending>>

Prompt(i) ==
    /\ th[i] = "loop" /\ To(i, IF run[i] THEN "wait" ELSE "ended")
    /\ UNCHANGED <<main, k, run, user, intflg, svr, pending>>

\* vt_gets returns a line, or 0 after ctrl-D; a display ends at ctrl-C
Input(i) ==
    /\ user[i]
    /\ \/ th[i] = "wait" /\ \E c \in Commands \cup {"ended"} : To(i, c)
       \/ th[i] = "watch" /\ To(i, "loop")
    /\ UNCHANGED <<main, k, run, user, intflg, svr, pending>>

\* the user is gone: vt_gets returns 0, and the loop ends with con->state as it is;
\* vt_chkbrk ends a display
InputFails(i) ==
    /\ ~user[i]
    /\ \/ th[i] = "wait" /\ To(i, "ended")
       \/ th[i] = "watch" /\ To(i, "loop")
    /\ UNCHANGED <<main, k, run, user, intflg, svr, pending>>

\* startsvr; a server that is up stays, one that cannot be started is down
Start(i) ==
    /\ th[i] = "start" /\ To(i, "loop")
    /\ svr' \in IF svr = "down" THEN {"up", "down"} ELSE {svr}
    /\ UNCHANGED <<main, k, run, user, intflg, pending>>
StopCmd(i) ==
    /\ th[i] = "stop" /\ To(i, "loop")
    /\ svr' = IF svr = "up" THEN "down" ELSE svr
    /\ UNCHANGED <<main, k, run, user, intflg, pending>>
Restart(i) ==
    /\ th[i] = "restart" /\ To(i, "start")
    /\ svr' = IF svr = "up" THEN "down" ELSE svr
    /\ UNCHANGED <<main, k, run, user, intflg, pending>>

\* once, or again and again
Show(i) ==
    /\ th[i] = "show" /\ (To(i, "loop") \/ To(i, "watch"))
    /\ UNCHANGED <<main, k, run, user, intflg, svr, pending>>

\* exit has no effect on the local console
Exit(i) ==
    /\ th[i] = "exit" /\ To(i, "loop")
    /\ run' = IF port THEN [run EXCEPT ![i] = FALSE] ELSE run
    /\ UNCHANGED <<main, k, user, intflg, svr, pending>>

Shutdown(i) ==
    /\ th[i] = "shutdown" /\ To(i, "loop") /\ intflg' = TRUE
    /\ run' = [run EXCEPT ![i] = FALSE]
    /\ UNCHANGED <<main, k, user, svr, pending>>

-----------------------------------------------------------------------------
(* Users and signals.                                                      *)

Connect ==
    /\ port /\ pending < NPend /\ pending' = pending + 1
    /\ UNCHANGED <<main, k, th, run, user, intflg, svr>>
Hangup(i) ==
    /\ user[i] /\ user' = [user EXCEPT ![i] = FALSE]
    /\ UNCHANGED <<main, k, th, run, intflg, svr, pending>>
Signal ==
    /\ ~intflg /\ intflg' = TRUE
    /\ UNCHANGED <<main, k, th, run, user, svr, pending>>

MainStep   == Loop \/ Reap \/ Reaped \/ Accept \/ Stop \/ Close \/ Join \/ Free \/ Done
Command(i) == Start(i) \/ StopCmd(i) \/ Restart(i) \/ Show(i) \/ Exit(i) \/ Shutdown(i)
Thread(i)  == Login(i) \/ Bye(i) \/ Prompt(i) \/ InputFails(i) \/ Command(i)

Next ==
    /\ UNCHANGED port
    /\ \/ MainStep
       \/ main # "done" /\ (Connect \/ Signal \/ \E i \in Slots : Thread(i) \/ Password(i) \/ Input(i) \/ Hangup(i))

-----------------------------------------------------------------------------
(* Properties.                                                             *)

\* The memory of a console (con_close: free) is given back only after its thread
\* has returned, so no two threads ever share a slot; and with a local console the
\* server is freed only when no console is left.  (Remote consoles are not closed
\* before: see README.)
FreedAfterEnd ==
    /\ []TypeOK
    /\ [][/\ \A i \in Slots : th[i] # "none" /\ th'[i] = "none" => th[i] = "ended"
          /\ ~port /\ svr # "freed" /\ svr' = "freed" => \A i \in Slots : th[i] = "none"]_vars

\* "multiple telnet console logins are allowed": the slot of a console that was left
\* by exit, by shutdown or at the password becomes free again.  (Not so after a
\* hang-up: see README.)
SlotsReturn ==
    \A i \in Remote : (th[i] = "bye" \/ (th[i] # "none" /\ ~run[i]))
                     ~> (th[i] = "none" \/ intflg)

\* "To shutdown the program, use shutdown command on the console or send USR2 signal
\* to the process": with remote consoles it then ends, whatever they are doing.
ShutdownEnds == port /\ intflg ~> (main = "done")
=============================================================================
