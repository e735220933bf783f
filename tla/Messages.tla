------------------------------ MODULE Messages ------------------------------
(***************************************************************************)
(* The converter of a stream server by itself ("conv"), its observation     *)
(* messages on their way to a receiver ("link"), and the L6 frames of       *)
(* several satellites on their way to the CLAS decoder ("route").           *)
(***************************************************************************)
EXTENDS RtcmLink, ClasRoute

CONSTANT Which  \* those that are looked at

VARIABLE of  \* which of them this behaviour is about

messageVars == <<vars, linkVars, routeVars, of>>

MessagesInit ==
    /\ of \in Which /\ Init /\ LinkInit /\ RouteInit
    /\ of # "link" => ~lossy /\ err = 0
    /\ of # "route" => ~l6mrg

MessagesNext ==
    /\ \/ of = "conv" /\ Next /\ UNCHANGED <<linkVars, routeVars>>
       \/ of = "link" /\ LinkNext /\ UNCHANGED routeVars
       \/ of = "route" /\ RouteNext /\ UNCHANGED <<vars, linkVars>>
    /\ UNCHANGED of

\* The input keeps delivering, so strsvrthread keeps calling strconv; time
\* passes.  A satellite that has not set is heard again and again.
MessagesSpec ==
    /\ MessagesInit /\ [][MessagesNext]_messageVars
    /\ WF_messageVars(of = "conv" /\ (WriteNavCycle \/ Tick) /\ UNCHANGED <<linkVars, routeVars, of>>)
    /\ WF_messageVars(of = "route" /\ RouteSecond /\ UNCHANGED <<vars, linkVars, of>>)
    /\ \A p \in QzsPrns : SF_messageVars(of = "route" /\ Frame(p) /\ UNCHANGED <<vars, linkVars, of>>)

-----------------------------------------------------------------------------
\* "RTCM message types and intervals": the ephemeris of a satellite is sent
\* again and again, whichever others are known, when there are at least two.
EphSentAgain == [](WatchedPrn \in valid /\ Cardinality(valid) > 1 => <>(nav = WatchedPrn))

\* However satellites set, a channel comes to and stays with one that is there:
\* with a channel for each pattern, one of that pattern.
Served ==
    <>[](of = "route" =>
           IF l6mrg THEN \A p \in up : \E q \in up : Ptn[q] = Ptn[p] /\ HasChannel(q)
                    ELSE up = {} \/ \E q \in up : HasChannel(q))
=============================================================================
