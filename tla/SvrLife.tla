------------------------------- MODULE SvrLife -------------------------------
(***************************************************************************)
(* What the RTK server promises its operator: it is down with nothing open, *)
(* opens its streams, runs, and closes everything it opened before it is    *)
(* down again.  Output and log streams may be opened and closed only while  *)
(* it is up.                                                                *)
(***************************************************************************)
CONSTANTS Streams,   \* all streams
          Openable   \* output and log streams

VARIABLES phase,     \* "down", "opening", "up" or "closing"
          open       \* the streams that are open

lifeVars == <<phase, open>>

LifeInit == phase = "down" /\ open = {}

Begin   == phase = "down" /\ phase' = "opening" /\ UNCHANGED open
OpenOne == /\ phase = "opening"
           /\ \E i \in Streams \ open : open' = open \cup {i}
           /\ phase' \in {"opening", "up"}
GoUp    == phase = "opening" /\ phase' = "up" /\ UNCHANGED open
\* a start that fails before any stream was opened, or undoes what it opened
Refuse  == phase = "opening" /\ open = {} /\ phase' = "down" /\ UNCHANGED open
Abort   == phase = "opening" /\ phase' = "closing" /\ UNCHANGED open
Add     == /\ phase = "up"
           /\ \E i \in Openable \ open : open' = open \cup {i}
           /\ UNCHANGED phase
Remove  == /\ phase = "up"
           /\ \E i \in Openable \cap open : open' = open \ {i}
           /\ UNCHANGED phase
GoDown  == phase = "up" /\ phase' = "closing" /\ UNCHANGED open
Close   == /\ phase = "closing"
           /\ \E i \in open : open' = open \ {i}
           /\ UNCHANGED phase
Ended   == phase = "closing" /\ open = {} /\ phase' = "down" /\ UNCHANGED open

LifeNext == \/ Begin  \/ OpenOne \/ GoUp   \/ Refuse \/ Abort
            \/ Add \/ Remove \/ GoDown \/ Close  \/ Ended

\* a server on its way down gets there
LifeSpec == LifeInit /\ [][LifeNext]_lifeVars /\ WF_lifeVars(Close \/ Ended)
=============================================================================
