------------------------------- MODULE Inputs -------------------------------
(***************************************************************************)
(* What becomes of the data a program is given, by what they are.  In the   *)
(* server, decoderaw (src/src/stream/mrtk_rtksvr.c) makes of its inputs      *)
(* epochs to be positioned ("obs"), orbits and clocks and the ephemerides     *)
(* they refer to ("ssr"), messages of Galileo HAS put together of pages       *)
(* ("has"), CLAS ("clas") and SBAS corrections ("sbas").  Post-processing     *)
(* reads files and gives their epochs to the filter in both directions        *)
(* ("files"), and either of them has rtkpos carry the phases of the epochs on *)
(* ("phase").  The seven share no state but the cycle that calls them.       *)
(***************************************************************************)
EXTENDS RtkData, SsrChain, HasPages, ClasBank, PostPos, PhaseBias, Sbas

CONSTANT Which  \* what the inputs may carry

VARIABLE of  \* what this behaviour is about

inputVars == <<vars, chainVars, pagesVars, bankVars, postVars, biasVars, sbasVars, of>>

InputsInit ==
    /\ of \in Which
    /\ Init /\ ChainInit /\ PagesInit /\ BankInit /\ PostInit /\ BiasInit /\ SbasInit
    /\ of # "ssr" => source = "rtcm" /\ refers = Min(Iodes)
    /\ of # "has" => ms = Min(Sizes)
    /\ of # "files" => intpref /\ solstatic /\ Bases = {}
    /\ of # "phase" => ~back
    /\ of # "sbas" => part = "sat"

InputsNext ==
    /\ \/ of = "obs" /\ Next /\ UNCHANGED <<chainVars, pagesVars, bankVars, postVars, biasVars, sbasVars>>
       \/ of = "ssr" /\ ChainNext /\ UNCHANGED <<vars, pagesVars, bankVars, postVars, biasVars, sbasVars>>
       \/ of = "has" /\ PagesNext /\ UNCHANGED <<vars, chainVars, bankVars, postVars, biasVars, sbasVars>>
       \/ of = "clas" /\ BankNext /\ UNCHANGED <<vars, chainVars, pagesVars, postVars, biasVars, sbasVars>>
       \/ of = "files" /\ PostNext /\ UNCHANGED <<vars, chainVars, pagesVars, bankVars, biasVars, sbasVars>>
       \/ of = "phase" /\ BiasNext /\ UNCHANGED <<vars, chainVars, pagesVars, bankVars, postVars, sbasVars>>
       \/ of = "sbas" /\ SbasNext /\ UNCHANGED <<vars, chainVars, pagesVars, bankVars, postVars, biasVars>>
    /\ UNCHANGED of

InputsSpec == InputsInit /\ [][InputsNext]_inputVars
=============================================================================
